----------------------------- MODULE MarketCache -----------------------------
(***************************************************************************)
(* The in-memory market depth of src/src/fastprophetx/cache.py: one        *)
(* MarketCache object, the thread that feeds it WebSocket updates, and the *)
(* threads that reconcile it with REST snapshots.  Every block of code     *)
(* under the cache lock is one action; what a thread does outside the lock *)
(* (reading the clock, copying the selection layout, waiting for a REST    *)
(* answer) is a step of its own, so that other threads can come between.   *)
(*                                                                         *)
(* Time.  time.monotonic() is read everywhere, but the code only ever      *)
(* compares the times at which updates were received, with one another and *)
(* with the times at which reconciliations started.  The clock therefore   *)
(* moves at each update received: two updates never share a time, and what *)
(* was received before a reconciliation started is not later than its      *)
(* start.  0 stands for an entry that is absent from a dictionary of times.*)
(***************************************************************************)
EXTENDS Integers, FiniteSets

CONSTANTS
    Event,        \* event ids, positive integers
    Key,          \* MarketKey: an event's market, strike and outcome
    Market,       \* (event id, market id), the key of a selection layout
    Line,         \* "selections" containers; a market has one per strike
    Slot,         \* positions in a "selections" container
    Scope,        \* (event id, subtype, market line): one sequence each
    Lined,        \* the scopes whose payloads identify a market line
    Price,        \* American odds
    Qty,          \* quantities on offer
    Thread,       \* threads that call reconcile or seed
    KeyEvent,     \* the event of each key
    MarketEvent,  \* the event of each market
    ScopeEvent,   \* the event of each scope
    LineMarket,   \* the market each container belongs to
    NoKey,        \* a layout position whose selection is not known
    Updates,      \* the WebSocket updates the environment may send
    Bodies,       \* the REST snapshots the environment may give for an event
    MaxReceive,   \* bound: updates received
    MaxReconcile, \* bound: reconciliations begun
    MaxEpoch      \* bound: invalidations and clears of each event

ASSUME ConstantsAssumption ==
    /\ Event \subseteq Nat \ {0} /\ IsFiniteSet(Event)
    /\ Qty \subseteq Nat \ {0}
    /\ Lined \subseteq Scope
    /\ KeyEvent \in [Key -> Event]
    /\ MarketEvent \in [Market -> Event]
    /\ ScopeEvent \in [Scope -> Event]
    /\ LineMarket \in [Line -> Market]
    /\ NoKey \notin Key
    /\ Line \subseteq Nat /\ Slot \subseteq Nat
    /\ \A S \in SUBSET Line : S # {} => \E l \in S : \A j \in S : j <= l
    /\ MaxReceive \in Nat /\ MaxReconcile \in Nat /\ MaxEpoch \in Nat

-----------------------------------------------------------------------------
(* Payloads, as _extract_groups and _extract_selection_layout see them.    *)

Keep == -1      \* a price the group does not mention
NoSeq == -1     \* a payload without a sequence number

\* One selection's part of a payload: merged into the depth, or replacing it.
\* op gives the new quantity of a price, 0 for a deletion.
Untouched == [kind |-> "none", op |-> [p \in Price |-> Keep]]
Group == {Untouched} \cup [kind : {"merge", "reset"}, op : [Price -> Qty \cup {0, Keep}]]

Emptied == [kind |-> "reset", op |-> [p \in Price |-> Keep]]

Layout == [Market -> [Slot -> Key \cup {NoKey}]]
NoLayout == [s \in Slot |-> NoKey]

\* groups names selections outright; sent are the "selections" containers,
\* which give selections by position, NoKey where the position is empty.
Body == [groups : [Key -> Group],
         sent : SUBSET Line,
         slots : [Line -> [Slot -> Key \cup {NoKey}]]]

Update == [event : Event, scope : Scope, seq : Nat \cup {NoSeq},
           replace : BOOLEAN, body : Body]

ASSUME PayloadsAssumption ==
    /\ Updates \subseteq Update
    /\ Bodies \in [Event -> SUBSET Body]

Payloads == {u.body : u \in Updates} \cup UNION {Bodies[e] : e \in Event}

\* What the exchange is taken to send: a container names selections of its market's
\* event, and an answer for an event speaks of no other.
OwnPayloads ==
    /\ \A b \in Payloads : \A l \in b.sent, s \in Slot :
           b.slots[l][s] # NoKey => KeyEvent[b.slots[l][s]] = MarketEvent[LineMarket[l]]
    /\ \A e \in Event : \A b \in Bodies[e] :
           /\ \A l \in b.sent : MarketEvent[LineMarket[l]] = e
           /\ \A k \in Key : b.groups[k].kind # "none" => KeyEvent[k] = e

\* A market has one container, a selection one position in it, and a payload with
\* containers gives no offer outside of them.
SteadyPositions ==
    \A b \in Payloads :
        /\ \A c \in Payloads : \A l \in b.sent, j \in c.sent :
               /\ LineMarket[l] = LineMarket[j] => l = j
               /\ \A s, i \in Slot : b.slots[l][s] # NoKey /\ b.slots[l][s] = c.slots[j][i]
                                       => l = j /\ s = i
        /\ \A k \in Key, p \in Price : b.groups[k].op[p] > 0 /\ b.sent # {} =>
               \E l \in b.sent, s \in Slot : b.slots[l][s] = k

\* An empty position empties the selection the layout copy has there, unless
\* a later position of the payload names that selection: the last one stays.
EmptiedByPosition(b, lay) ==
    {k \in Key : \E l \in b.sent, s \in Slot :
        /\ b.slots[l][s] = NoKey
        /\ lay[LineMarket[l]][s] = k
        /\ \A j \in b.sent, i \in Slot :
               b.slots[j][i] = k => j < l \/ (j = l /\ i < s)}

Resolve(b, lay, force) ==
    [k \in Key |->
        IF k \in EmptiedByPosition(b, lay) THEN Emptied
        ELSE IF force /\ b.groups[k].kind = "merge"
             THEN [kind |-> "reset", op |-> b.groups[k].op]
             ELSE b.groups[k]]

Touched(g) == {k \in Key : g[k].kind # "none"}

\* Mutant: a reset leaves a hole at a price it does not name.
MergedHole(old, grp) ==
    [p \in Price |-> IF grp.kind # "reset" /\ grp.op[p] = Keep THEN old[p] ELSE grp.op[p]]

\* The depth a group leaves of the depth it finds.
Merged(old, grp) ==
    [p \in Price |-> IF grp.op[p] # Keep THEN grp.op[p]
                     ELSE IF grp.kind = "reset" THEN 0 ELSE old[p]]

LinesOf(b, m) == {l \in b.sent : LineMarket[l] = m}

\* Containers of one market write the same entry; the last one stays.
LastLine(b, m) == CHOOSE l \in LinesOf(b, m) : \A j \in LinesOf(b, m) : j <= l

NewLayout(b, lay) ==
    [m \in Market |->
        IF LinesOf(b, m) = {} THEN lay[m]
        ELSE [s \in Slot |-> IF b.slots[LastLine(b, m)][s] # NoKey
                             THEN b.slots[LastLine(b, m)][s]
                             ELSE lay[m][s]]]

LaidOut(b) == {m \in Market : LinesOf(b, m) # {}}

-----------------------------------------------------------------------------
VARIABLES
    clock,        \* the monotonic clock
    depth,        \* _snapshots: quantity per price, all 0 without a snapshot
    known,        \* _known_keys
    change,       \* _level_changes: time and quantity of the last change
    resetAt,      \* _selection_resets
    removedAt,    \* _membership_removals
    replacedAt,   \* _event_replace_at
    layout,       \* _selection_keys_by_market
    layoutAt,     \* _selection_layout_observed_at
    lastSeq,      \* _last_sequence
    revision,     \* _reconcile_revision
    revisionOf,   \* _reconcile_revision_by_event
    epoch,        \* _invalidation_epoch_by_event
    invalid,      \* _invalid_event_ids
    bumps,        \* _version_counter
    version,      \* _version_by_event
    lastUpdateAt, \* _last_update_at_by_event
    seeded,       \* _seeded_event_ids
    seeding,      \* _seeding_event_ids
    feeder,       \* the update the WebSocket thread has in hand, if any
    job,          \* the reconciling threads
    overtaken,    \* history: events overtaken since each thread's request
    wroteAt       \* history: when the feed last wrote each price of a selection

book == <<depth, known>>
journal == <<change, resetAt, removedAt, replacedAt, wroteAt>>
layouts == <<layout, layoutAt>>
fence == <<revision, revisionOf, epoch, overtaken>>
versions == <<bumps, version>>
seeds == <<seeded, seeding>>
vars == <<clock, book, journal, layouts, lastSeq, fence, invalid, versions,
          lastUpdateAt, seeds, feeder, job>>

NoChange == [at |-> 0, qty |-> 0]
Empty == [p \in Price |-> 0]
NoGroups == [k \in Key |-> Untouched]
NoLayouts == [m \in Market |-> NoLayout]
NoBody == [groups |-> NoGroups, sent |-> {},
           slots |-> [l \in Line |-> NoLayout]]

InHand == [update : Update, at : Nat, view : Layout]

\* A thread between two calls; the fields are those of a ReconcileRequest,
\* the answer, and the caller's loop over the events of the request.
IdleJob == [pc |-> "idle", ids |-> {}, revision |-> 0, started |-> 0,
            epochs |-> [e \in Event |-> 0],
            answer |-> [e \in Event |-> NoBody], receivedAt |-> 0,
            todo |-> {}, current |-> 0, view |-> NoLayouts, seed |-> {}]

Init ==
    /\ clock = 0
    /\ depth = [k \in Key |-> Empty]
    /\ known = {}
    /\ change = [k \in Key |-> [p \in Price |-> NoChange]]
    /\ resetAt = [k \in Key |-> 0]
    /\ removedAt = [k \in Key |-> 0]
    /\ replacedAt = [e \in Event |-> 0]
    /\ layout = NoLayouts
    /\ layoutAt = [m \in Market |-> 0]
    /\ lastSeq = [s \in Scope |-> NoSeq]
    /\ revision = 0
    /\ revisionOf = [e \in Event |-> 0]
    /\ epoch = [e \in Event |-> 0]
    /\ invalid = {}
    /\ bumps = 0
    /\ version = [e \in Event |-> 0]
    /\ lastUpdateAt = [e \in Event |-> 0]
    /\ seeded = {}
    /\ seeding = {}
    /\ feeder = {}
    /\ job = [t \in Thread |-> IdleJob]
    /\ overtaken = [t \in Thread |-> {}]
    /\ wroteAt = [k \in Key |-> [p \in Price |-> 0]]

-----------------------------------------------------------------------------
(* Helpers of the blocks under the lock.                                   *)

KeysOf(e) == {k \in Key : KeyEvent[k] = e}
EventsOf(K) == {KeyEvent[k] : k \in K}

\* Mutant: only valid books get a new version.
BumpValid(S) ==
    LET V == S \ invalid
    IN  /\ bumps' = bumps + Cardinality(V)
        /\ version' = [e \in Event |->
               IF e \in V THEN bumps + Cardinality({x \in V : x <= e}) ELSE version[e]]

\* _bump_versions_locked: each event gets a number of its own.
Bump(S) ==
    /\ bumps' = bumps + Cardinality(S)
    /\ version' = [e \in Event |->
           IF e \in S THEN bumps + Cardinality({x \in S : x <= e}) ELSE version[e]]

\* Mutant: only snapshots with recorded changes are forgotten.
DepthWithoutChanges(e) ==
    [k \in Key |-> IF k \in KeysOf(e) /\ \E p \in Price : change[k][p].at > 0
                   THEN Empty ELSE depth[k]]

DepthWithout(e) == [k \in Key |-> IF KeyEvent[k] = e THEN Empty ELSE depth[k]]
LayoutsWithout(e) == [m \in Market |-> IF MarketEvent[m] = e THEN NoLayout ELSE layout[m]]
LayoutTimesWithout(e) == [m \in Market |-> IF MarketEvent[m] = e THEN 0 ELSE layoutAt[m]]

-----------------------------------------------------------------------------
(* apply_update.                                                           *)

\* _handle_update reads the clock and apply_update copies the layout, before
\* the lock is taken for the commit.
Receive(u) ==
    /\ feeder = {}
    /\ clock < MaxReceive
    /\ clock' = clock + 1
    /\ feeder' = {[update |-> u, at |-> clock + 1, view |-> layout]}
    /\ UNCHANGED <<book, journal, layouts, lastSeq, fence, invalid,
                   versions, lastUpdateAt, seeds, job>>

\* Mutant: only a repeated sequence is stale, not an earlier one.
StaleIfRepeated(u) ==
    u.seq # NoSeq /\ u.seq = lastSeq[u.scope] /\ u.scope \notin Lined

Stale(u) ==
    /\ u.seq # NoSeq
    /\ lastSeq[u.scope] # NoSeq
    /\ \/ u.seq < lastSeq[u.scope]
       \/ u.seq = lastSeq[u.scope] /\ u.scope \notin Lined

DropStale ==
    /\ \E f \in feeder : Stale(f.update)
    /\ feeder' = {}
    /\ UNCHANGED <<clock, book, journal, layouts, lastSeq, fence, invalid,
                   versions, lastUpdateAt, seeds, job>>

Commit(f) ==
    LET u == f.update
        g == Resolve(u.body, f.view, u.replace)
        touched == Touched(g)
        resets == {k \in touched : g[k].kind = "reset"}
        gone == IF u.replace THEN (known \cap KeysOf(u.event)) \ touched ELSE {}
        changed == \/ u.replace
                   \/ \E k \in touched :
                         \/ k \notin known
                         \/ depth[k] # Empty
                         \/ \E p \in Price : u.body.groups[k].op[p] > 0
    IN  /\ lastSeq' = IF u.seq = NoSeq THEN lastSeq
                      ELSE [lastSeq EXCEPT ![u.scope] = u.seq]
        /\ Bump(EventsOf(touched) \cup IF u.replace THEN {u.event} ELSE {})
        /\ known' = (known \ gone) \cup touched
        /\ depth' = [k \in Key |-> IF k \in touched THEN Merged(depth[k], g[k])
                                   ELSE IF k \in gone THEN Empty ELSE depth[k]]
        /\ change' = [k \in Key |-> [p \in Price |->
               IF k \in touched /\ g[k].op[p] # Keep
               THEN [at |-> f.at, qty |-> g[k].op[p]]
               ELSE IF k \in gone \cup resets THEN NoChange ELSE change[k][p]]]
        /\ resetAt' = [k \in Key |-> IF k \in resets THEN f.at ELSE resetAt[k]]
        /\ removedAt' = [k \in Key |-> IF k \in gone THEN f.at ELSE removedAt[k]]
        /\ replacedAt' = IF u.replace THEN [replacedAt EXCEPT ![u.event] = f.at]
                         ELSE replacedAt
        /\ wroteAt' = [k \in Key |-> [p \in Price |->
               IF \/ k \in resets \/ (u.replace /\ k \in KeysOf(u.event))
                  \/ k \in touched /\ g[k].op[p] # Keep
               THEN f.at ELSE wroteAt[k][p]]]
        /\ LET kept == IF u.replace THEN LayoutsWithout(u.event) ELSE layout
               keptAt == IF u.replace THEN LayoutTimesWithout(u.event) ELSE layoutAt
           IN  /\ layout' = [m \in Market |-> IF m \in LaidOut(u.body)
                                 THEN NewLayout(u.body, f.view)[m] ELSE kept[m]]
               /\ layoutAt' = [m \in Market |->
                      IF m \in LaidOut(u.body) THEN f.at ELSE keptAt[m]]
        /\ lastUpdateAt' = IF changed THEN [lastUpdateAt EXCEPT ![u.event] = f.at]
                           ELSE lastUpdateAt

ApplyUpdate ==
    /\ \E f \in feeder : ~Stale(f.update) /\ Commit(f)
    /\ feeder' = {}
    /\ UNCHANGED <<clock, fence, invalid, seeds, job>>

-----------------------------------------------------------------------------
(* reconcile: begin_reconcile, the REST fetch, and one                     *)
(* apply_authoritative_snapshot_result for each event of the request.      *)

\* A request takes the events it names away from every other request.
BeginReconcile(t, ids) ==
    /\ \/ job[t].pc = "idle" /\ ids # {}
       \/ job[t].pc = "seed" /\ ids = job[t].seed
    /\ revision < MaxReconcile
    /\ revision' = revision + 1
    /\ revisionOf' = [e \in Event |-> IF e \in ids THEN revision + 1 ELSE revisionOf[e]]
    /\ job' = [job EXCEPT ![t] = [@ EXCEPT !.pc = "fetch", !.ids = ids,
                   !.revision = revision + 1, !.started = clock, !.epochs = epoch]]
    /\ overtaken' = [s \in Thread |-> IF s = t THEN {} ELSE overtaken[s] \cup ids]
    /\ UNCHANGED <<clock, book, journal, layouts, lastSeq, epoch, invalid,
                   versions, lastUpdateAt, seeds, feeder>>

\* get_multiple_markets returns, and reconcile reads the clock once for all.
Respond(t, bodies) ==
    /\ job[t].pc = "fetch"
    /\ job' = [job EXCEPT ![t] = [@ EXCEPT !.pc = "apply", !.answer = bodies,
                   !.receivedAt = clock, !.todo = job[t].ids]]
    /\ UNCHANGED <<clock, book, journal, layouts, lastSeq, fence, invalid,
                   versions, lastUpdateAt, seeds, feeder>>

\* The layout is copied under the lock, and the lock is given back.
ReadLayout(t, e) ==
    /\ job[t].pc = "apply" /\ job[t].current = 0 /\ e \in job[t].todo
    /\ job' = [job EXCEPT ![t] = [@ EXCEPT !.current = e, !.view = layout]]
    /\ UNCHANGED <<clock, book, journal, layouts, lastSeq, fence, invalid,
                   versions, lastUpdateAt, seeds, feeder>>

Applying(t) == job[t].pc = "apply" /\ job[t].current # 0

Applied(t) == [job EXCEPT ![t] = [@ EXCEPT !.current = 0, !.view = NoLayouts,
                                     !.todo = job[t].todo \ {job[t].current}]]

\* Mutants: half of the fence.
AcceptedByRevision(t) == revisionOf[job[t].current] = job[t].revision
AcceptedByEpoch(t) == epoch[job[t].current] = job[t].epochs[job[t].current]

\* The fence: nobody asked for the event again, and it was not invalidated.
Current(t, e) == revisionOf[e] = job[t].revision /\ epoch[e] = job[t].epochs[e]
Accepted(t) == Current(t, job[t].current)

RefuseSnapshot(t) ==
    /\ Applying(t) /\ ~Accepted(t)
    /\ job' = Applied(t)
    /\ UNCHANGED <<clock, book, journal, layouts, lastSeq, fence, invalid,
                   versions, lastUpdateAt, seeds, feeder>>

\* Mutants: what was received just before the request counts as newer.
ReplaceSince(e, s) == replacedAt[e] >= s
ChangesSince(e, s, k) == {p \in Price : KeyEvent[k] = e /\ change[k][p].at >= s}

\* What the journal holds of event e that is newer than time s.
NewReplace(e, s) == replacedAt[e] > s
NewResets(e, s) == {k \in KeysOf(e) : resetAt[k] > s}
NewRemovals(e, s) == {k \in KeysOf(e) : removedAt[k] > s}
NewChanges(e, s, k) == {p \in Price : KeyEvent[k] = e /\ change[k][p].at > s}

\* When the selection last left the event, 0 if not since s.
RemovalTime(e, s, k) ==
    LET removed == IF k \in NewRemovals(e, s) THEN removedAt[k] ELSE 0
    IN  IF NewReplace(e, s) /\ replacedAt[e] > removed THEN replacedAt[e] ELSE removed

\* Mutant: a selection the feed reset still gets the REST depth.
RebasedDespiteReset(e, s, rest, k) ==
    LET replayed == {p \in NewChanges(e, s, k) :
                        /\ change[k][p].at >= resetAt[k]
                        /\ k \in NewRemovals(e, s) => change[k][p].at >= removedAt[k]}
    IN  [p \in Price |-> IF p \in replayed THEN change[k][p].qty
                         ELSE IF NewReplace(e, s) THEN 0
                         ELSE Merged(Empty, rest[k])[p]]

\* The REST depth, unless the feed reset the selection, then the feed's changes.
Rebased(e, s, rest, k) ==
    LET overwritten == NewReplace(e, s) \/ resetAt[k] > s
        replayed == {p \in NewChanges(e, s, k) :
                        /\ change[k][p].at >= resetAt[k]
                        /\ k \in NewRemovals(e, s) => change[k][p].at >= removedAt[k]}
    IN  [p \in Price |-> IF p \in replayed THEN change[k][p].qty
                         ELSE IF overwritten THEN 0
                         ELSE Merged(Empty, rest[k])[p]]

\* Selections the event has afterwards.
Kept(e, s, rest) ==
    {k \in Key :
        \/ ~NewReplace(e, s) /\ k \notin NewRemovals(e, s) /\ k \in Touched(rest)
        \/ k \in NewResets(e, s) /\ resetAt[k] >= RemovalTime(e, s, k)
        \/ \E p \in NewChanges(e, s, k) : change[k][p].at >= RemovalTime(e, s, k)}

InstallLayouts(e, s, b, view, at) ==
    LET newer == {m \in Market : MarketEvent[m] = e /\ layoutAt[m] > s}
        sent == IF NewReplace(e, s) THEN {} ELSE LaidOut(b)
    IN  /\ layout' = [m \in Market |->
               IF m \in newer THEN layout[m]
               ELSE IF m \in sent THEN NewLayout(b, view)[m] ELSE LayoutsWithout(e)[m]]
        /\ layoutAt' = [m \in Market |->
               IF m \in newer \cup sent THEN at ELSE LayoutTimesWithout(e)[m]]

ApplyAuthoritative(t) ==
    LET j == job[t]
        e == j.current
        rest == Resolve(j.answer[e], j.view, TRUE)
        kept == Kept(e, j.started, rest)
        candidates == (known \cap KeysOf(e))
                      \cup NewResets(e, j.started) \cup NewRemovals(e, j.started)
                      \cup {k \in Key : NewChanges(e, j.started, k) # {}}
        dropped == candidates \ kept
        new == [k \in Key |-> IF k \in kept THEN Rebased(e, j.started, rest, k)
                              ELSE IF k \in dropped THEN Empty ELSE depth[k]]
        changed == \/ e \in invalid
                   \/ \E k \in dropped : k \in known
                   \/ \E k \in kept : depth[k] # Empty \/ new[k] # Empty
    IN  /\ Applying(t) /\ Accepted(t)
        /\ Bump({e} \cup EventsOf(Touched(rest)))
        /\ InstallLayouts(e, j.started, j.answer[e], j.view, j.receivedAt)
        /\ invalid' = invalid \ {e}
        /\ depth' = new
        /\ known' = (known \ dropped) \cup kept
        /\ change' = [k \in Key |-> IF KeyEvent[k] = e
                                    THEN [p \in Price |-> NoChange] ELSE change[k]]
        /\ resetAt' = [k \in Key |-> IF KeyEvent[k] = e THEN 0 ELSE resetAt[k]]
        /\ removedAt' = [k \in Key |-> IF KeyEvent[k] = e THEN 0 ELSE removedAt[k]]
        /\ replacedAt' = [replacedAt EXCEPT ![e] = 0]
        /\ lastUpdateAt' = IF changed THEN [lastUpdateAt EXCEPT ![e] = j.receivedAt]
                           ELSE lastUpdateAt
        /\ job' = Applied(t)
        /\ UNCHANGED <<clock, wroteAt, lastSeq, fence, seeds, feeder>>

\* The loop is over.  seed, if it called reconcile, records its events as
\* seeded whether or not their snapshots were accepted.
Finish(t) ==
    /\ job[t].pc = "apply" /\ job[t].todo = {}
    /\ job' = [job EXCEPT ![t] = IdleJob]
    /\ seeding' = seeding \ job[t].seed
    /\ seeded' = seeded \cup job[t].seed
    /\ UNCHANGED <<clock, book, journal, layouts, lastSeq, fence, invalid,
                   versions, lastUpdateAt, feeder>>

\* The fetch, the payload or a callback raises, at any event of the request.
Fail(t) ==
    /\ job[t].pc \in {"fetch", "apply"}
    /\ job' = [job EXCEPT ![t] = IdleJob]
    /\ seeding' = seeding \ job[t].seed
    /\ UNCHANGED <<clock, book, journal, layouts, lastSeq, fence, invalid,
                   versions, lastUpdateAt, seeded, feeder>>

\* seed waits while another thread seeds one of the events; with nothing
\* missing it returns at once.
Seed(t, ids) ==
    /\ job[t].pc = "idle"
    /\ seeding \cap ids = {}
    /\ ids \ seeded # {}
    /\ job' = [job EXCEPT ![t] = [@ EXCEPT !.pc = "seed", !.seed = ids \ seeded]]
    /\ seeding' = seeding \cup (ids \ seeded)
    /\ UNCHANGED <<clock, book, journal, layouts, lastSeq, fence, invalid,
                   versions, lastUpdateAt, seeded, feeder>>

-----------------------------------------------------------------------------
(* invalidate_events and clear_event.                                      *)

Overtake(S) == overtaken' = [t \in Thread |-> overtaken[t] \cup S]
\* Mutant: an event without books needs no new epoch.
NextEpochOfBooks(S) ==
    epoch' = [e \in Event |-> IF e \in S /\ known \cap KeysOf(e) # {}
                              THEN epoch[e] + 1 ELSE epoch[e]]
NextEpoch(S) == epoch' = [e \in Event |-> IF e \in S THEN epoch[e] + 1 ELSE epoch[e]]

Invalidate(ids) ==
    /\ \A e \in ids : epoch[e] < MaxEpoch
    /\ NextEpoch(ids)
    /\ Overtake(ids)
    /\ invalid' = invalid \cup ids
    /\ Bump(ids)
    /\ UNCHANGED <<clock, book, journal, layouts, lastSeq, revision, revisionOf,
                   lastUpdateAt, seeds, feeder, job>>

\* Resets and removals of selections the cache forgot survive, the first
\* unless the selection is known.
ClearEvent(e) ==
    /\ epoch[e] < MaxEpoch
    /\ Bump({e})
    /\ known' = known \ KeysOf(e)
    /\ depth' = DepthWithout(e)
    /\ change' = [k \in Key |-> IF KeyEvent[k] = e
                                THEN [p \in Price |-> NoChange] ELSE change[k]]
    /\ resetAt' = [k \in Key |-> IF k \in known \cap KeysOf(e) THEN 0 ELSE resetAt[k]]
    /\ removedAt' = [k \in Key |-> IF KeyEvent[k] = e THEN 0 ELSE removedAt[k]]
    /\ replacedAt' = [replacedAt EXCEPT ![e] = 0]
    /\ layout' = LayoutsWithout(e)
    /\ layoutAt' = LayoutTimesWithout(e)
    /\ lastSeq' = [s \in Scope |-> IF ScopeEvent[s] = e THEN NoSeq ELSE lastSeq[s]]
    /\ revisionOf' = [revisionOf EXCEPT ![e] = 0]
    /\ NextEpoch({e})
    /\ Overtake({e})
    /\ invalid' = invalid \ {e}
    /\ lastUpdateAt' = [lastUpdateAt EXCEPT ![e] = 0]
    /\ seeded' = seeded \ {e}
    /\ seeding' = seeding \ {e}
    /\ UNCHANGED <<clock, wroteAt, revision, feeder, job>>

-----------------------------------------------------------------------------
\* Every answer to a request for ids.
Answers(ids) ==
    {a \in [Event -> (UNION {Bodies[e] : e \in Event}) \cup {NoBody}] :
        \A e \in Event : a[e] \in IF e \in ids THEN Bodies[e] ELSE {NoBody}}

Next ==
    \/ \E u \in Updates : Receive(u)
    \/ DropStale
    \/ ApplyUpdate
    \/ \E ids \in SUBSET Event : Invalidate(ids)
    \/ \E e \in Event : ClearEvent(e)
    \/ \E t \in Thread :
          \/ \E ids \in SUBSET Event : BeginReconcile(t, ids) \/ Seed(t, ids)
          \/ \E bodies \in Answers(job[t].ids) : Respond(t, bodies)
          \/ \E e \in Event : ReadLayout(t, e)
          \/ RefuseSnapshot(t) \/ ApplyAuthoritative(t) \/ Finish(t) \/ Fail(t)

Spec == Init /\ [][Next]_vars

-----------------------------------------------------------------------------
Job == [pc : {"idle", "seed", "fetch", "apply"}, ids : SUBSET Event,
        revision : Nat, started : Nat, epochs : [Event -> Nat],
        answer : [Event -> Body], receivedAt : Nat, todo : SUBSET Event,
        current : Event \cup {0}, view : Layout, seed : SUBSET Event]

\* Every variable stays in its range.
TypeOK ==
    /\ clock \in Nat
    /\ depth \in [Key -> [Price -> Nat]]
    /\ known \subseteq Key
    /\ change \in [Key -> [Price -> [at : Nat, qty : Nat]]]
    /\ resetAt \in [Key -> Nat] /\ removedAt \in [Key -> Nat]
    /\ replacedAt \in [Event -> Nat]
    /\ layout \in Layout /\ layoutAt \in [Market -> Nat]
    /\ lastSeq \in [Scope -> Nat \cup {NoSeq}]
    /\ revision \in Nat /\ revisionOf \in [Event -> Nat]
    /\ epoch \in [Event -> Nat] /\ invalid \subseteq Event
    /\ bumps \in Nat /\ version \in [Event -> Nat]
    /\ lastUpdateAt \in [Event -> Nat]
    /\ seeded \subseteq Event /\ seeding \subseteq Event
    /\ feeder \subseteq InHand
    /\ job \in [Thread -> Job]
    /\ overtaken \in [Thread -> SUBSET Event]
    /\ wroteAt \in [Key -> [Price -> Nat]]

\* Live depth is only ever kept for a known selection, whatever the order of
\* updates, replays, removals and clears: event_snapshot would otherwise hand
\* out snapshots of keys outside its known_keys (cache.py:656-669).
LiveKeysKnown == \A k \in Key : depth[k] # Empty => k \in known

\* The snapshot fence tells exactly the requests that were overtaken, by a
\* later request for the event, an invalidation or a clear, from the ones
\* that were not: no late answer is applied and no current one is refused
\* (cache.py:423-428).
InFlight(t) == job[t].pc \in {"fetch", "apply"}

FenceExact ==
    \A t \in Thread : InFlight(t) =>
        \A e \in job[t].ids : e \in overtaken[t] <=> ~Current(t, e)

\* Books that were declared invalid become valid again only by an answer to a
\* request made since the last invalidation, or by forgetting the event.
Revalidates(e) ==
    \/ \E t \in Thread : job[t].current = e /\ e \notin overtaken[t]
    \/ ClearEvent(e)
RevalidationIsCurrent == [][\A e \in invalid \ invalid' : Revalidates(e)]_vars

\* What event_snapshot shows of an event.
EventSnapshot(e) ==
    [valid |-> e \notin invalid, known |-> known \cap KeysOf(e),
     depth |-> [k \in KeysOf(e) |-> depth[k]]]

\* A step that changes an event's snapshot gives it a version never given
\* before, and no step takes a version back: equal versions mean equal
\* snapshots (cache.py:671-676), which MarketStore's materialized markets
\* rely on.
VersionsTellSnapshots ==
    [][\A e \in Event :
          /\ EventSnapshot(e)' # EventSnapshot(e) => version'[e] > bumps
          /\ version'[e] >= version[e]]_vars

\* Installing a REST snapshot changes no price that the feed wrote after the
\* request began: the base is older than those writes (cache.py:381).
FeedWritesSurvive ==
    [][\A t \in Thread : ApplyAuthoritative(t) =>
          \A k \in Key, p \in Price :
              KeyEvent[k] = job[t].current /\ wroteAt[k][p] > job[t].started
                  => depth'[k][p] = depth[k][p]]_vars

\* When the feed wrote nothing of the event since the request began, the book
\* after installing the answer is the answer (cache.py:381).
RestIsBase ==
    [][\A t \in Thread : ApplyAuthoritative(t) =>
          LET e == job[t].current
          IN  (\A k \in KeysOf(e), p \in Price : wroteAt[k][p] <= job[t].started)
              => \A k \in KeysOf(e) :
                     depth'[k] = Merged(Empty, job[t].answer[e].groups[k])]_vars

\* An event that was cleared does not become seeded by a seed that began
\* before: clear_event removes its seed state (cache.py:595).
ClearForgetsSeed == [][\A e \in seeded' \ seeded : revisionOf[e] # 0]_vars
-----------------------------------------------------------------------------
(* The books of this cache, as Books has them.                             *)

ContentOf(e) ==
    [known |-> known \cap KeysOf(e),
     depth |-> [k \in Key |-> IF KeyEvent[k] = e THEN depth[k] ELSE Empty]]

\* The events for which the request of thread t still counts.
Fresh(t) ==
    {e \in IF job[t].pc = "fetch" THEN job[t].ids
           ELSE IF job[t].pc = "apply" THEN job[t].todo ELSE {} : Current(t, e)}

Promise == INSTANCE Books WITH
    Content <- [known : SUBSET Key, depth : [Key -> [Price -> Nat]]],
    Blank <- [known |-> {}, depth |-> [k \in Key |-> Empty]],
    content <- [e \in Event |-> ContentOf(e)],
    fresh <- [t \in Thread |-> Fresh(t)]

\* Revisions, epochs, journal and versions add up to what Books promises:
\* every step of the cache is one of its steps or changes nothing it shows
\* (cache.py:333-353, 421-426, 594-732).
KeepsPromise == Promise!BooksSpec
=============================================================================
