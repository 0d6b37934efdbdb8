-------------------------- MODULE MarketCacheProofs --------------------------
(* Theorems about MarketCache for every choice of events, selections,      *)
(* threads, updates and answers, and for every value of the bounds.        *)
EXTENDS MarketCache, FiniteSetTheorems, TLAPS

(* The parts of the assumptions that the proofs use.                       *)

\* The quantities a payload can give are natural numbers.
LEMMA Quantities == \A q \in Qty \cup {0} : q \in Nat
  BY ConstantsAssumption DEF ConstantsAssumption

\* Events are finitely many and have positive ids.
LEMMA Events == Event \subseteq Nat \ {0} /\ IsFiniteSet(Event)
  BY ConstantsAssumption DEF ConstantsAssumption

\* Every selection belongs to an event.
LEMMA EventOfKey == KeyEvent \in [Key -> Event]
  BY ConstantsAssumption DEF ConstantsAssumption

\* Of a set of containers of one payload one is the last.
LEMMA Lines ==
    ASSUME NEW S \in SUBSET Line, S # {}
    PROVE  \E l \in S : \A j \in S : j <= l
  BY ConstantsAssumption DEF ConstantsAssumption

-----------------------------------------------------------------------------
(* Payloads.                                                               *)

\* What a payload resolves to is a group for every selection.
LEMMA ResolveType ==
    ASSUME NEW b \in Body, NEW lay, NEW force
    PROVE  Resolve(b, lay, force) \in [Key -> Group]
  <1>1. Emptied \in Group
    BY DEF Emptied, Group, Keep
  <1>2. ASSUME NEW k \in Key
        PROVE  /\ b.groups[k] \in Group
               /\ b.groups[k].kind = "merge" =>
                     [kind |-> "reset", op |-> b.groups[k].op] \in Group
    <2>1. b.groups[k] \in Group
      BY DEF Body
    <2>2. b.groups[k].kind = "merge" => b.groups[k].op \in [Price -> Qty \cup {0, Keep}]
      BY <2>1 DEF Group, Untouched
    <2> QED  BY <2>1, <2>2 DEF Group
  <1> QED  BY <1>1, <1>2 DEF Resolve

\* A price a group mentions gets a quantity.
LEMMA OpType ==
    ASSUME NEW grp \in Group, NEW p \in Price, grp.op[p] # Keep
    PROVE  grp.op[p] \in Nat
  <1>1. grp.op[p] \in Qty \cup {0}
    <2>1. grp # Untouched
      BY DEF Untouched
    <2>2. grp.op \in [Price -> Qty \cup {0, Keep}]
      BY <2>1 DEF Group
    <2> QED  BY <2>2
  <1> QED  BY <1>1, Quantities

\* A group leaves quantities where it finds quantities.
LEMMA MergedType ==
    ASSUME NEW old \in [Price -> Nat], NEW grp \in Group
    PROVE  Merged(old, grp) \in [Price -> Nat]
  <1>1. ASSUME NEW p \in Price
        PROVE  Merged(old, grp)[p] \in Nat
    <2>1. CASE grp.op[p] = Keep
      BY <2>1 DEF Merged
    <2>2. CASE grp.op[p] # Keep
      <3>1. grp.op[p] \in Nat
        BY <2>2, OpType
      <3>2. Merged(old, grp)[p] = grp.op[p]
        BY <2>2 DEF Merged
      <3> QED  BY <3>1, <3>2
    <2> QED  BY <2>1, <2>2
  <1> QED  BY <1>1 DEF Merged

\* A container of a payload updates a layout to a layout.
LEMMA NewLayoutType ==
    ASSUME NEW b \in Body, NEW lay \in Layout
    PROVE  NewLayout(b, lay) \in Layout
  <1>1. ASSUME NEW m \in Market, LinesOf(b, m) # {}
        PROVE  LastLine(b, m) \in Line
    <2>1. LinesOf(b, m) \in SUBSET Line
      BY DEF LinesOf, Body
    <2>2. \E l \in LinesOf(b, m) : \A j \in LinesOf(b, m) : j <= l
      BY <1>1, <2>1, Lines
    <2> QED  BY <2>1, <2>2 DEF LastLine
  <1>2. ASSUME NEW m \in Market
        PROVE  NewLayout(b, lay)[m] \in [Slot -> Key \cup {NoKey}]
    <2>1. CASE LinesOf(b, m) = {}
      BY <2>1 DEF NewLayout, Layout
    <2>2. CASE LinesOf(b, m) # {}
      <3>1. b.slots[LastLine(b, m)] \in [Slot -> Key \cup {NoKey}]
        BY <1>1, <2>2 DEF Body
      <3>2. lay[m] \in [Slot -> Key \cup {NoKey}]
        BY DEF Layout
      <3> QED  BY <2>2, <3>1, <3>2 DEF NewLayout
    <2> QED  BY <2>1, <2>2
  <1> QED  BY <1>2 DEF NewLayout, Layout

\* A version is given to each event of a set, in ascending order.
LEMMA BumpType ==
    ASSUME bumps \in Nat, version \in [Event -> Nat],
           NEW S \in SUBSET Event, Bump(S)
    PROVE  /\ bumps' \in Nat /\ bumps <= bumps'
           /\ version' \in [Event -> Nat]
           /\ \A e \in S : bumps < version'[e] /\ version'[e] <= bumps'
           /\ \A e \in Event \ S : version'[e] = version[e]
  <1>1. IsFiniteSet(S)
    BY FS_Subset, Events
  <1>2. Cardinality(S) \in Nat
    BY <1>1, FS_CardinalityType
  <1>3. ASSUME NEW e \in S
        PROVE  LET T == {x \in S : x <= e}
               IN  Cardinality(T) \in Nat /\ 0 < Cardinality(T) /\ Cardinality(T) <= Cardinality(S)
    <2> DEFINE T == {x \in S : x <= e}
    <2>1. T \in SUBSET S /\ e \in T
      BY Events
    <2>2. IsFiniteSet(T) /\ Cardinality(T) <= Cardinality(S)
      BY <1>1, <2>1, FS_Subset
    <2>3. Cardinality(T) \in Nat /\ Cardinality(T) # 0
      BY <2>1, <2>2, FS_CardinalityType, FS_EmptySet
    <2> QED  BY <2>2, <2>3
  <1>4. version' = [e \in Event |->
            IF e \in S THEN bumps + Cardinality({x \in S : x <= e}) ELSE version[e]]
    BY DEF Bump
  <1>5. bumps' = bumps + Cardinality(S)
    BY DEF Bump
  <1>6. bumps' \in Nat /\ bumps <= bumps'
    BY <1>2, <1>5
  <1>7. \A e \in S : bumps < version'[e] /\ version'[e] <= bumps' /\ version'[e] \in Nat
    BY <1>2, <1>3, <1>4, <1>5
  <1>8. \A e \in Event \ S : version'[e] = version[e]
    BY <1>4
  <1>9. version' \in [Event -> Nat]
    BY <1>4, <1>7, <1>8
  <1> QED  BY <1>6, <1>7, <1>8, <1>9

-----------------------------------------------------------------------------
(* Known selections.                                                       *)

\* A commit leaves depth only to the selections it touches and to selections
\* that stay known.
LEMMA CommitKeepsLiveKeysKnown ==
    ASSUME LiveKeysKnown, NEW f, Commit(f)
    PROVE  LiveKeysKnown'
  <1> DEFINE u == f.update
             g == Resolve(u.body, f.view, u.replace)
             touched == Touched(g)
             gone == IF u.replace THEN (known \cap KeysOf(u.event)) \ touched ELSE {}
  <1>1. known' = (known \ gone) \cup touched
    BY DEF Commit
  <1>2. depth' = [k \in Key |-> IF k \in touched THEN Merged(depth[k], g[k])
                                ELSE IF k \in gone THEN Empty ELSE depth[k]]
    BY DEF Commit
  <1> HIDE DEF gone, touched, g
  <1> QED  BY <1>1, <1>2 DEF LiveKeysKnown

\* Installing a snapshot leaves depth only to the selections it keeps and to
\* selections that stay known.
LEMMA ApplyKeepsLiveKeysKnown ==
    ASSUME LiveKeysKnown, NEW t, ApplyAuthoritative(t)
    PROVE  LiveKeysKnown'
  <1> DEFINE j == job[t]
             e == j.current
             rest == Resolve(j.answer[e], j.view, TRUE)
             kept == Kept(e, j.started, rest)
             candidates == (known \cap KeysOf(e))
                           \cup NewResets(e, j.started) \cup NewRemovals(e, j.started)
                           \cup {k \in Key : NewChanges(e, j.started, k) # {}}
             dropped == candidates \ kept
  <1>1. known' = (known \ dropped) \cup kept
    BY DEF ApplyAuthoritative
  <1>2. depth' = [k \in Key |-> IF k \in kept THEN Rebased(e, j.started, rest, k)
                                ELSE IF k \in dropped THEN Empty ELSE depth[k]]
    BY DEF ApplyAuthoritative
  <1> HIDE DEF dropped, kept, rest, e, j
  <1> QED  BY <1>1, <1>2 DEF LiveKeysKnown

\* So does every action.
LEMMA KnownKeysNext == ASSUME LiveKeysKnown, [Next]_vars PROVE LiveKeysKnown'
  <1>1. CASE book' = book
    BY <1>1 DEF book, LiveKeysKnown
  <1>2. CASE ApplyUpdate
    BY <1>2, CommitKeepsLiveKeysKnown DEF ApplyUpdate
  <1>3. ASSUME NEW e \in Event, ClearEvent(e)
        PROVE  LiveKeysKnown'
    BY <1>3 DEF ClearEvent, DepthWithout, LiveKeysKnown, KeysOf
  <1>4. ASSUME NEW t \in Thread, ApplyAuthoritative(t)
        PROVE  LiveKeysKnown'
    BY SMTT(30), <1>4, ApplyKeepsLiveKeysKnown
  <1>5. \/ book' = book
        \/ ApplyUpdate
        \/ \E e \in Event : ClearEvent(e)
        \/ \E t \in Thread : ApplyAuthoritative(t)
    BY DEF Next, vars, Receive, DropStale, Invalidate, BeginReconcile, Seed,
           Respond, ReadLayout, RefuseSnapshot, Finish, Fail
  <1> QED  BY <1>1, <1>2, <1>3, <1>4, <1>5

\* In every reachable state live depth belongs to known selections.
THEOREM KnownKeys == Spec => []LiveKeysKnown
  <1>1. Init => LiveKeysKnown
    BY DEF Init, LiveKeysKnown
  <1>2. LiveKeysKnown /\ [Next]_vars => LiveKeysKnown'
    BY KnownKeysNext
  <1> QED  BY <1>1, <1>2, PTL DEF Spec

-----------------------------------------------------------------------------
(* Types.                                                                  *)

\* The payload that says nothing is a payload.
LEMMA NoBodyType == NoBody \in Body
  BY DEF NoBody, Body, NoGroups, Group, Untouched, Keep, NoLayout

\* The layout of a new cache is a layout.
LEMMA NoLayoutsType == NoLayouts \in Layout
  BY DEF NoLayouts, NoLayout, Layout

\* A thread between two calls is a thread.
LEMMA IdleJobType == IdleJob \in Job
  BY NoBodyType, NoLayoutsType DEF IdleJob, Job

\* A new cache is in range.
LEMMA InitType == Init => TypeOK
  BY IdleJobType, NoLayoutsType DEF Init, TypeOK, Empty, NoChange

\* Forgetting the layouts of an event leaves a layout.
LEMMA LayoutsWithoutType ==
    ASSUME layout \in Layout, layoutAt \in [Market -> Nat], NEW e
    PROVE  /\ LayoutsWithout(e) \in Layout
           /\ LayoutTimesWithout(e) \in [Market -> Nat]
  BY DEF Layout, LayoutsWithout, LayoutTimesWithout, NoLayout

\* Selections belong to events.
LEMMA EventsOfType == ASSUME NEW K \in SUBSET Key PROVE EventsOf(K) \in SUBSET Event
  BY EventOfKey DEF EventsOf

\* A commit keeps everything it writes in range.
LEMMA CommitType ==
    ASSUME TypeOK, NEW f \in feeder, Commit(f)
    PROVE  /\ depth' \in [Key -> [Price -> Nat]] /\ known' \subseteq Key
           /\ change' \in [Key -> [Price -> [at : Nat, qty : Nat]]]
           /\ resetAt' \in [Key -> Nat] /\ removedAt' \in [Key -> Nat]
           /\ replacedAt' \in [Event -> Nat]
           /\ wroteAt' \in [Key -> [Price -> Nat]]
           /\ layout' \in Layout /\ layoutAt' \in [Market -> Nat]
           /\ lastSeq' \in [Scope -> Nat \cup {NoSeq}]
           /\ bumps' \in Nat /\ version' \in [Event -> Nat]
           /\ lastUpdateAt' \in [Event -> Nat]
  <1> DEFINE u == f.update
             g == Resolve(u.body, f.view, u.replace)
             touched == Touched(g)
             resets == {k \in touched : g[k].kind = "reset"}
             gone == IF u.replace THEN (known \cap KeysOf(u.event)) \ touched ELSE {}
  <1>1. u \in Update /\ f.at \in Nat /\ f.view \in Layout
    BY DEF TypeOK, InHand
  <1>2. u.body \in Body /\ u.event \in Event /\ u.scope \in Scope /\ u.seq \in Nat \cup {NoSeq}
    BY <1>1 DEF Update
  <1>3. g \in [Key -> Group]
    BY <1>2, ResolveType
  <1>4. touched \in SUBSET Key
    BY DEF Touched
  <1>5. gone \in SUBSET Key
    BY DEF KeysOf
  <1>6. known' \subseteq Key
    <2>1. known' = (known \ gone) \cup touched
      BY DEF Commit
    <2> QED  BY <2>1, <1>4 DEF TypeOK
  <1>7. depth' \in [Key -> [Price -> Nat]]
    <2>1. depth' = [k \in Key |-> IF k \in touched THEN Merged(depth[k], g[k])
                                  ELSE IF k \in gone THEN Empty ELSE depth[k]]
      BY DEF Commit
    <2>2. \A k \in Key : depth[k] \in [Price -> Nat]
      BY DEF TypeOK
    <2>3. \A k \in Key : Merged(depth[k], g[k]) \in [Price -> Nat]
      BY <1>3, <2>2, MergedType
    <2>4. Empty \in [Price -> Nat]
      BY DEF Empty
    <2> HIDE DEF gone, touched, g
    <2> QED  BY <2>1, <2>2, <2>3, <2>4
  <1>8. change' \in [Key -> [Price -> [at : Nat, qty : Nat]]]
    <2>1. change' = [k \in Key |-> [p \in Price |->
               IF k \in touched /\ g[k].op[p] # Keep
               THEN [at |-> f.at, qty |-> g[k].op[p]]
               ELSE IF k \in gone \cup resets THEN NoChange ELSE change[k][p]]]
      BY DEF Commit
    <2>2. \A k \in Key, p \in Price : g[k].op[p] # Keep => g[k].op[p] \in Nat
      BY <1>3, OpType
    <2>3. \A k \in Key, p \in Price : change[k][p] \in [at : Nat, qty : Nat]
      BY DEF TypeOK
    <2>4. NoChange \in [at : Nat, qty : Nat]
      BY DEF NoChange
    <2> HIDE DEF gone, touched, g, resets
    <2>5. \A k \in Key, p \in Price :
            (IF k \in touched /\ g[k].op[p] # Keep
             THEN [at |-> f.at, qty |-> g[k].op[p]]
             ELSE IF k \in gone \cup resets THEN NoChange ELSE change[k][p])
            \in [at : Nat, qty : Nat]
      BY <1>1, <2>2, <2>3, <2>4
    <2> QED  BY <2>1, <2>5
  <1>9. resetAt' \in [Key -> Nat] /\ removedAt' \in [Key -> Nat]
    <2>1. /\ resetAt' = [k \in Key |-> IF k \in resets THEN f.at ELSE resetAt[k]]
          /\ removedAt' = [k \in Key |-> IF k \in gone THEN f.at ELSE removedAt[k]]
      BY DEF Commit
    <2> HIDE DEF resets, gone
    <2> QED  BY <1>1, <2>1 DEF TypeOK
  <1>10. replacedAt' \in [Event -> Nat] /\ lastUpdateAt' \in [Event -> Nat]
    <2>1. replacedAt' = IF u.replace THEN [replacedAt EXCEPT ![u.event] = f.at]
                        ELSE replacedAt
      BY DEF Commit
    <2>2. \/ lastUpdateAt' = [lastUpdateAt EXCEPT ![u.event] = f.at]
          \/ lastUpdateAt' = lastUpdateAt
      BY DEF Commit
    <2> QED  BY <1>1, <2>1, <2>2 DEF TypeOK
  <1>11. wroteAt' \in [Key -> [Price -> Nat]]
    <2>1. \A k \in Key, p \in Price : wroteAt[k][p] \in Nat
      BY DEF TypeOK
    <2>2. wroteAt' = [k \in Key |-> [p \in Price |->
               IF \/ k \in resets \/ (u.replace /\ k \in KeysOf(u.event))
                  \/ k \in touched /\ g[k].op[p] # Keep
               THEN f.at ELSE wroteAt[k][p]]]
      BY DEF Commit
    <2> HIDE DEF gone, touched, g, resets
    <2> QED  BY <1>1, <2>1, <2>2
  <1>12. layout' \in Layout /\ layoutAt' \in [Market -> Nat]
    <2> DEFINE kept == IF u.replace THEN LayoutsWithout(u.event) ELSE layout
               keptAt == IF u.replace THEN LayoutTimesWithout(u.event) ELSE layoutAt
    <2>1. layout' = [m \in Market |-> IF m \in LaidOut(u.body)
                         THEN NewLayout(u.body, f.view)[m] ELSE kept[m]]
      BY DEF Commit
    <2>2. layoutAt' = [m \in Market |-> IF m \in LaidOut(u.body) THEN f.at ELSE keptAt[m]]
      BY DEF Commit
    <2>3. kept \in Layout /\ keptAt \in [Market -> Nat]
      BY LayoutsWithoutType DEF TypeOK
    <2>4. NewLayout(u.body, f.view) \in Layout
      BY <1>1, <1>2, NewLayoutType
    <2> HIDE DEF kept, keptAt, u
    <2>5. layout' \in Layout
      BY <2>1, <2>3, <2>4 DEF Layout
    <2>6. layoutAt' \in [Market -> Nat]
      BY <1>1, <2>2, <2>3
    <2> QED  BY <2>5, <2>6
  <1>13. lastSeq' \in [Scope -> Nat \cup {NoSeq}]
    <2>1. \/ lastSeq' = lastSeq
          \/ lastSeq' = [lastSeq EXCEPT ![u.scope] = u.seq]
      BY DEF Commit
    <2> QED  BY <1>2, <2>1 DEF TypeOK
  <1>14. bumps' \in Nat /\ version' \in [Event -> Nat]
    <2> DEFINE S == EventsOf(touched) \cup IF u.replace THEN {u.event} ELSE {}
    <2>1. Bump(S)
      BY DEF Commit
    <2>2. S \in SUBSET Event
      BY <1>2, <1>4, EventsOfType
    <2> HIDE DEF S
    <2> QED  BY <2>1, <2>2, BumpType DEF TypeOK
  <1> QED  BY <1>6, <1>7, <1>8, <1>9, <1>10, <1>11, <1>12, <1>13, <1>14

\* What an applying thread holds.
LEMMA ApplyingType ==
    ASSUME TypeOK, NEW t \in Thread, Applying(t)
    PROVE  /\ job[t].current \in Event
           /\ job[t].answer[job[t].current] \in Body
           /\ job[t].view \in Layout
           /\ job[t].started \in Nat /\ job[t].receivedAt \in Nat
  BY DEF TypeOK, Job, Applying

\* The feed's changes replayed on a REST base are quantities.
LEMMA RebasedType ==
    ASSUME TypeOK, NEW e, NEW s, NEW rest \in [Key -> Group], NEW k \in Key
    PROVE  Rebased(e, s, rest, k) \in [Price -> Nat]
  <1>1. \A p \in Price : change[k][p].qty \in Nat
    BY DEF TypeOK
  <1>2. Empty \in [Price -> Nat]
    BY DEF Empty
  <1>3. Merged(Empty, rest[k]) \in [Price -> Nat]
    BY <1>2, MergedType
  <1> QED  BY <1>1, <1>3 DEF Rebased

\* The layouts of a REST answer keep layouts and their times in range.
LEMMA InstallLayoutsType ==
    ASSUME TypeOK, NEW e, NEW s, NEW b \in Body, NEW view \in Layout, NEW at \in Nat,
           InstallLayouts(e, s, b, view, at)
    PROVE  layout' \in Layout /\ layoutAt' \in [Market -> Nat]
  <1> DEFINE newer == {m \in Market : MarketEvent[m] = e /\ layoutAt[m] > s}
             sent == IF NewReplace(e, s) THEN {} ELSE LaidOut(b)
  <1>1. layout' = [m \in Market |->
            IF m \in newer THEN layout[m]
            ELSE IF m \in sent THEN NewLayout(b, view)[m] ELSE LayoutsWithout(e)[m]]
    BY DEF InstallLayouts
  <1>2. layoutAt' = [m \in Market |->
            IF m \in newer \cup sent THEN at ELSE LayoutTimesWithout(e)[m]]
    BY DEF InstallLayouts
  <1>3. layout \in Layout /\ LayoutsWithout(e) \in Layout /\ NewLayout(b, view) \in Layout
    BY LayoutsWithoutType, NewLayoutType DEF TypeOK
  <1>4. LayoutTimesWithout(e) \in [Market -> Nat]
    BY LayoutsWithoutType DEF TypeOK
  <1> HIDE DEF newer, sent
  <1>5. layout' \in Layout
    BY <1>1, <1>3 DEF Layout
  <1>6. layoutAt' \in [Market -> Nat]
    BY <1>2, <1>4
  <1> QED  BY <1>5, <1>6

\* A thread that is done with one event.
LEMMA AppliedType ==
    ASSUME TypeOK, NEW t \in Thread
    PROVE  Applied(t) \in [Thread -> Job]
  <1> DEFINE j == [job[t] EXCEPT !.current = 0, !.view = NoLayouts,
                                 !.todo = job[t].todo \ {job[t].current}]
  <1>1. job[t] \in Job
    BY DEF TypeOK
  <1>2. j \in Job
    BY <1>1, NoLayoutsType DEF Job
  <1>3. Applied(t) = [job EXCEPT ![t] = j]
    BY DEF Applied
  <1> HIDE DEF j
  <1> QED  BY <1>2, <1>3 DEF TypeOK

\* Installing a snapshot keeps everything it writes in range.
LEMMA ApplyType ==
    ASSUME TypeOK, NEW t \in Thread, ApplyAuthoritative(t)
    PROVE  /\ depth' \in [Key -> [Price -> Nat]] /\ known' \subseteq Key
           /\ change' \in [Key -> [Price -> [at : Nat, qty : Nat]]]
           /\ resetAt' \in [Key -> Nat] /\ removedAt' \in [Key -> Nat]
           /\ replacedAt' \in [Event -> Nat]
           /\ layout' \in Layout /\ layoutAt' \in [Market -> Nat]
           /\ invalid' \subseteq Event
           /\ bumps' \in Nat /\ version' \in [Event -> Nat]
           /\ lastUpdateAt' \in [Event -> Nat]
           /\ job' \in [Thread -> Job]
  <1> DEFINE j == job[t]
             e == j.current
             rest == Resolve(j.answer[e], j.view, TRUE)
             kept == Kept(e, j.started, rest)
             candidates == (known \cap KeysOf(e))
                           \cup NewResets(e, j.started) \cup NewRemovals(e, j.started)
                           \cup {k \in Key : NewChanges(e, j.started, k) # {}}
             dropped == candidates \ kept
  <1>1. /\ e \in Event /\ j.answer[e] \in Body /\ j.view \in Layout
        /\ j.started \in Nat /\ j.receivedAt \in Nat
    BY ApplyingType DEF ApplyAuthoritative
  <1>2. rest \in [Key -> Group]
    BY <1>1, ResolveType
  <1>3. kept \in SUBSET Key
    BY DEF Kept
  <1>4. known' \subseteq Key
    <2>1. known' = (known \ dropped) \cup kept
      BY DEF ApplyAuthoritative
    <2> QED  BY <1>3, <2>1 DEF TypeOK
  <1>5. depth' \in [Key -> [Price -> Nat]]
    <2>1. depth' = [k \in Key |-> IF k \in kept THEN Rebased(e, j.started, rest, k)
                                  ELSE IF k \in dropped THEN Empty ELSE depth[k]]
      BY DEF ApplyAuthoritative
    <2>2. \A k \in Key : Rebased(e, j.started, rest, k) \in [Price -> Nat]
      BY <1>2, RebasedType
    <2>3. Empty \in [Price -> Nat] /\ \A k \in Key : depth[k] \in [Price -> Nat]
      BY DEF Empty, TypeOK
    <2> HIDE DEF kept, dropped, rest, e, j
    <2> QED  BY <2>1, <2>2, <2>3
  <1>6. /\ change' \in [Key -> [Price -> [at : Nat, qty : Nat]]]
        /\ resetAt' \in [Key -> Nat] /\ removedAt' \in [Key -> Nat]
        /\ replacedAt' \in [Event -> Nat]
    <2>1. /\ change' = [k \in Key |-> IF KeyEvent[k] = e
                                      THEN [p \in Price |-> NoChange] ELSE change[k]]
          /\ resetAt' = [k \in Key |-> IF KeyEvent[k] = e THEN 0 ELSE resetAt[k]]
          /\ removedAt' = [k \in Key |-> IF KeyEvent[k] = e THEN 0 ELSE removedAt[k]]
          /\ replacedAt' = [replacedAt EXCEPT ![e] = 0]
      BY DEF ApplyAuthoritative
    <2> HIDE DEF e
    <2> QED  BY <2>1 DEF TypeOK, NoChange
  <1>7. layout' \in Layout /\ layoutAt' \in [Market -> Nat]
    BY <1>1, InstallLayoutsType DEF ApplyAuthoritative
  <1>8. bumps' \in Nat /\ version' \in [Event -> Nat]
    <2> DEFINE S == {e} \cup EventsOf(Touched(rest))
    <2>1. Bump(S)
      BY DEF ApplyAuthoritative
    <2>2. Touched(rest) \in SUBSET Key
      BY DEF Touched
    <2>3. S \in SUBSET Event
      BY <1>1, <2>2, EventsOfType
    <2> HIDE DEF S
    <2> QED  BY <2>1, <2>3, BumpType DEF TypeOK
  <1>9. invalid' \subseteq Event
    BY DEF ApplyAuthoritative, TypeOK
  <1>10. lastUpdateAt' \in [Event -> Nat]
    <2>1. \/ lastUpdateAt' = [lastUpdateAt EXCEPT ![e] = j.receivedAt]
          \/ lastUpdateAt' = lastUpdateAt
      BY DEF ApplyAuthoritative
    <2> QED  BY SMTT(30), <1>1, <2>1 DEF TypeOK
  <1>11. job' \in [Thread -> Job]
    BY AppliedType DEF ApplyAuthoritative
  <1> QED  BY <1>4, <1>5, <1>6, <1>7, <1>8, <1>9, <1>10, <1>11

\* Every action keeps every variable in its range.
LEMMA NextType ==
    ASSUME TypeOK, [Next]_vars
    PROVE  TypeOK'
  <1>1. CASE UNCHANGED vars
    BY <1>1 DEF TypeOK, vars, book, journal, layouts, fence, versions, seeds
  <1>2. ASSUME NEW u \in Updates, Receive(u)
        PROVE  TypeOK'
    <2>1. u \in Update
      BY PayloadsAssumption DEF PayloadsAssumption
    <2>2. [update |-> u, at |-> clock + 1, view |-> layout] \in InHand
      BY <2>1 DEF InHand, TypeOK
    <2>3. feeder' \subseteq InHand /\ clock' \in Nat
      BY <1>2, <2>2 DEF Receive, TypeOK
    <2> QED
      BY <1>2, <2>3 DEF Receive, TypeOK, book, journal, layouts, fence, versions, seeds
  <1>3. CASE DropStale
    BY <1>3 DEF DropStale, TypeOK, book, journal, layouts, fence, versions, seeds
  <1>4. CASE ApplyUpdate
    <2>1. PICK f \in feeder : Commit(f)
      BY <1>4 DEF ApplyUpdate
    <2>2. UNCHANGED <<clock, fence, invalid, seeds, job>> /\ feeder' = {}
      BY <1>4 DEF ApplyUpdate
    <2> QED  BY <2>1, <2>2, CommitType DEF TypeOK, fence, seeds
  <1>5. ASSUME NEW ids \in SUBSET Event, Invalidate(ids)
        PROVE  TypeOK'
    <2>1. bumps' \in Nat /\ version' \in [Event -> Nat]
      BY <1>5, BumpType DEF Invalidate, TypeOK
    <2>2. epoch' \in [Event -> Nat]
      BY <1>5 DEF Invalidate, NextEpoch, TypeOK
    <2>3. overtaken' \in [Thread -> SUBSET Event]
      BY <1>5 DEF Invalidate, Overtake, TypeOK
    <2>4. invalid' \subseteq Event
      BY <1>5 DEF Invalidate, TypeOK
    <2> QED
      BY <1>5, <2>1, <2>2, <2>3, <2>4 DEF Invalidate, TypeOK, book, journal, layouts, seeds
  <1>6. ASSUME NEW e \in Event, ClearEvent(e)
        PROVE  TypeOK'
    <2>1. bumps' \in Nat /\ version' \in [Event -> Nat]
      BY <1>6, BumpType DEF ClearEvent, TypeOK
    <2>2. layout' \in Layout /\ layoutAt' \in [Market -> Nat]
      BY <1>6, LayoutsWithoutType DEF ClearEvent, TypeOK
    <2>3. /\ depth' \in [Key -> [Price -> Nat]] /\ known' \subseteq Key
          /\ change' \in [Key -> [Price -> [at : Nat, qty : Nat]]]
          /\ resetAt' \in [Key -> Nat] /\ removedAt' \in [Key -> Nat]
      BY <1>6 DEF ClearEvent, DepthWithout, TypeOK, Empty, NoChange
    <2>4. /\ replacedAt' \in [Event -> Nat] /\ revisionOf' \in [Event -> Nat]
          /\ lastUpdateAt' \in [Event -> Nat]
      BY <1>6 DEF ClearEvent, TypeOK
    <2>5. lastSeq' \in [Scope -> Nat \cup {NoSeq}]
      BY <1>6 DEF ClearEvent, TypeOK
    <2>6. epoch' \in [Event -> Nat] /\ overtaken' \in [Thread -> SUBSET Event]
      BY <1>6 DEF ClearEvent, NextEpoch, Overtake, TypeOK
    <2>7. invalid' \subseteq Event /\ seeded' \subseteq Event /\ seeding' \subseteq Event
      BY <1>6 DEF ClearEvent, TypeOK
    <2>8. UNCHANGED <<clock, wroteAt, revision, feeder, job>>
      BY <1>6 DEF ClearEvent
    <2> QED  BY <2>1, <2>2, <2>3, <2>4, <2>5, <2>6, <2>7, <2>8 DEF TypeOK
  <1>7. ASSUME NEW t \in Thread, ApplyAuthoritative(t)
        PROVE  TypeOK'
    <2>1. UNCHANGED <<clock, wroteAt, lastSeq, fence, seeds, feeder>>
      BY <1>7 DEF ApplyAuthoritative
    <2> QED  BY <1>7, <2>1, ApplyType DEF TypeOK, fence, seeds
  <1>8. ASSUME NEW t \in Thread, NEW ids \in SUBSET Event, BeginReconcile(t, ids)
        PROVE  TypeOK'
    <2> DEFINE j == [job[t] EXCEPT !.pc = "fetch", !.ids = ids,
                         !.revision = revision + 1, !.started = clock, !.epochs = epoch]
    <2>1. j \in Job
      <3>1. job[t] \in Job
        BY DEF TypeOK
      <3>2. clock \in Nat /\ epoch \in [Event -> Nat]
        BY DEF TypeOK
      <3>3. revision + 1 \in Nat
        BY DEF TypeOK
      <3> QED  BY <3>1, <3>2, <3>3 DEF Job
    <2>2. job' = [job EXCEPT ![t] = j]
      BY <1>8 DEF BeginReconcile
    <2> HIDE DEF j
    <2>3. job' \in [Thread -> Job]
      BY <2>1, <2>2 DEF TypeOK
    <2>4. revision' \in Nat /\ revisionOf' \in [Event -> Nat]
      BY <1>8 DEF BeginReconcile, TypeOK
    <2>5. overtaken' \in [Thread -> SUBSET Event]
      BY <1>8 DEF BeginReconcile, TypeOK
    <2> QED
      BY <1>8, <2>3, <2>4, <2>5
      DEF BeginReconcile, TypeOK, book, journal, layouts, versions, seeds
  <1>9. ASSUME NEW t \in Thread, NEW ids \in SUBSET Event, Seed(t, ids)
        PROVE  TypeOK'
    <2> DEFINE j == [job[t] EXCEPT !.pc = "seed", !.seed = ids \ seeded]
    <2>1. j \in Job
      <3>1. job[t] \in Job
        BY DEF TypeOK
      <3>2. layout \in Layout
        BY DEF TypeOK
      <3> QED  BY <3>1, <3>2 DEF Job
    <2>2. job' = [job EXCEPT ![t] = j]
      BY <1>9 DEF Seed
    <2> HIDE DEF j
    <2>3. job' \in [Thread -> Job] /\ seeding' \subseteq Event
      BY <1>9, <2>1, <2>2 DEF TypeOK, Seed
    <2> QED
      BY <1>9, <2>3 DEF Seed, TypeOK, book, journal, layouts, fence, versions
  <1>10. ASSUME NEW t \in Thread, NEW bodies \in Answers(job[t].ids), Respond(t, bodies)
         PROVE  TypeOK'
    <2> DEFINE j == [job[t] EXCEPT !.pc = "apply", !.answer = bodies,
                         !.receivedAt = clock, !.todo = job[t].ids]
    <2>1. bodies \in [Event -> Body]
      BY PayloadsAssumption, NoBodyType DEF PayloadsAssumption, Answers
    <2>2. j \in Job
      <3>1. job[t] \in Job /\ clock \in Nat
        BY DEF TypeOK
      <3> QED  BY <2>1, <3>1 DEF Job
    <2>3. job' = [job EXCEPT ![t] = j]
      BY <1>10 DEF Respond
    <2> HIDE DEF j
    <2>4. job' \in [Thread -> Job]
      BY <2>2, <2>3 DEF TypeOK
    <2> QED
      BY <1>10, <2>4 DEF Respond, TypeOK, book, journal, layouts, fence, versions, seeds
  <1>11. ASSUME NEW t \in Thread, NEW e \in Event, ReadLayout(t, e)
         PROVE  TypeOK'
    <2> DEFINE j == [job[t] EXCEPT !.current = e, !.view = layout]
    <2>1. j \in Job
      <3>1. job[t] \in Job
        BY DEF TypeOK
      <3>2. layout \in Layout
        BY DEF TypeOK
      <3> QED  BY <3>1, <3>2 DEF Job
    <2>2. job' = [job EXCEPT ![t] = j]
      BY <1>11 DEF ReadLayout
    <2> HIDE DEF j
    <2>3. job' \in [Thread -> Job]
      BY <2>1, <2>2 DEF TypeOK
    <2> QED
      BY <1>11, <2>3 DEF ReadLayout, TypeOK, book, journal, layouts, fence, versions, seeds
  <1>12. ASSUME NEW t \in Thread, RefuseSnapshot(t)
         PROVE  TypeOK'
    <2>1. job' \in [Thread -> Job]
      BY <1>12, AppliedType DEF RefuseSnapshot
    <2> QED
      BY <1>12, <2>1
      DEF RefuseSnapshot, TypeOK, book, journal, layouts, fence, versions, seeds
  <1>13. ASSUME NEW t \in Thread, Finish(t) \/ Fail(t)
         PROVE  TypeOK'
    <2>1. job' \in [Thread -> Job]
      BY <1>13, IdleJobType DEF Finish, Fail, TypeOK
    <2>2. job[t].seed \subseteq Event
      BY DEF TypeOK, Job
    <2>3. seeding' \subseteq Event /\ seeded' \subseteq Event
      BY <1>13, <2>2 DEF Finish, Fail, TypeOK
    <2> QED
      BY <1>13, <2>1, <2>3
      DEF Finish, Fail, TypeOK, book, journal, layouts, fence, versions
  <1> QED
    BY <1>1, <1>2, <1>3, <1>4, <1>5, <1>6, <1>7, <1>8, <1>9, <1>10, <1>11, <1>12, <1>13
    DEF Next

\* Every variable of the cache keeps its type, for any updates and answers.
THEOREM TypeCorrect == Spec => []TypeOK
  <1>1. Init => TypeOK
    BY InitType
  <1>2. TypeOK /\ [Next]_vars => TypeOK'
    BY NextType
  <1> QED  BY <1>1, <1>2, PTL DEF Spec

-----------------------------------------------------------------------------
(* The fence.  FenceExact alone is not inductive: a new request must get a *)
(* revision no event has yet, an invalidation an epoch no request has, and *)
(* a thread must apply what its own request named.                         *)

Fenced(t) ==
    /\ 0 < job[t].revision /\ job[t].revision <= revision
    /\ \A e \in job[t].ids :
          /\ job[t].epochs[e] <= epoch[e]
          /\ e \in overtaken[t] <=> ~Current(t, e)
    /\ job[t].todo \subseteq job[t].ids
    /\ job[t].current \in job[t].todo \cup {0}

FenceInv ==
    /\ \A e \in Event : revisionOf[e] <= revision
    /\ \A t \in Thread : job[t].pc \in {"idle", "seed"} => job[t].todo = {} /\ job[t].current = 0
    /\ \A t \in Thread : InFlight(t) => Fenced(t)

\* A step that leaves the fence alone and changes one job.
LEMMA JobStep ==
    ASSUME TypeOK, FenceInv, NEW t \in Thread, NEW j \in Job, UNCHANGED fence,
           job' = [job EXCEPT ![t] = j],
           \/ j.pc \in {"idle", "seed"} /\ j.todo = {} /\ j.current = 0
           \/ /\ InFlight(t)
              /\ j.ids = job[t].ids /\ j.revision = job[t].revision /\ j.epochs = job[t].epochs
              /\ j.todo \subseteq j.ids /\ j.current \in j.todo \cup {0}
              /\ j.pc \in {"fetch", "apply"}
    PROVE  FenceInv'
  <1>1. revision' = revision /\ revisionOf' = revisionOf /\ epoch' = epoch
        /\ overtaken' = overtaken
    BY DEF fence
  <1>2. job'[t] = j /\ \A s \in Thread \ {t} : job'[s] = job[s]
    BY DEF TypeOK
  <1>3. \A e \in Event : revisionOf'[e] <= revision'
    BY <1>1 DEF FenceInv
  <1>4. ASSUME NEW s \in Thread
        PROVE  /\ job'[s].pc \in {"idle", "seed"} => job'[s].todo = {} /\ job'[s].current = 0
               /\ InFlight(s)' => Fenced(s)'
    <2>1. CASE s # t
      BY <1>1, <1>2, <2>1 DEF FenceInv, Fenced, InFlight, Current
    <2>2. CASE s = t /\ j.pc \in {"idle", "seed"}
      BY <1>2, <2>2 DEF InFlight
    <2>3. CASE s = t /\ j.pc \notin {"idle", "seed"}
      <3>1. /\ InFlight(t) /\ Fenced(t)
            /\ j.ids = job[t].ids /\ j.revision = job[t].revision /\ j.epochs = job[t].epochs
            /\ j.todo \subseteq j.ids /\ j.current \in j.todo \cup {0}
        BY <2>3 DEF FenceInv
      <3> QED  BY <1>1, <1>2, <2>3, <3>1 DEF Fenced, Current
    <2> QED  BY <2>1, <2>2, <2>3
  <1> QED  BY <1>3, <1>4 DEF FenceInv

\* A step that takes events away from every request but leaves the jobs alone.
LEMMA OvertakeStep ==
    ASSUME TypeOK, FenceInv, NEW S \in SUBSET Event, NextEpoch(S), Overtake(S),
           UNCHANGED <<revision, job>>,
           \A e \in Event : revisionOf'[e] = revisionOf[e] \/ (e \in S /\ revisionOf'[e] = 0)
    PROVE  FenceInv'
  <1>1. \A e \in Event : revisionOf'[e] <= revision'
    <2>1. revision \in Nat /\ revision' = revision
      BY DEF TypeOK
    <2>2. \A e \in Event : revisionOf[e] <= revision
      BY DEF FenceInv
    <2> QED  BY <2>1, <2>2
  <1>2. ASSUME NEW t \in Thread, InFlight(t)
        PROVE  Fenced(t)'
    <2>1. Fenced(t)
      BY <1>2 DEF FenceInv
    <2>2. job[t].ids \subseteq Event /\ job[t].epochs \in [Event -> Nat]
      BY DEF TypeOK, Job
    <2>3. ASSUME NEW e \in job[t].ids
          PROVE  /\ job[t].epochs[e] <= epoch'[e]
                 /\ e \in overtaken'[t] <=> ~(/\ revisionOf'[e] = job[t].revision
                                             /\ epoch'[e] = job[t].epochs[e])
      <3>1. /\ e \in Event /\ job[t].epochs[e] \in Nat /\ epoch[e] \in Nat
            /\ job[t].epochs[e] <= epoch[e]
        BY <2>1, <2>2 DEF Fenced, TypeOK
      <3>2. epoch'[e] = IF e \in S THEN epoch[e] + 1 ELSE epoch[e]
        BY <3>1 DEF NextEpoch
      <3>3. e \in overtaken'[t] <=> e \in overtaken[t] \/ e \in S
        BY DEF Overtake
      <3>4. e \in overtaken[t] <=> ~Current(t, e)
        BY <2>1 DEF Fenced
      <3>5. CASE e \in S
        BY <3>1, <3>2, <3>3, <3>5
      <3>6. CASE e \notin S
        BY <3>1, <3>2, <3>3, <3>4, <3>6 DEF Current
      <3> QED  BY <3>5, <3>6
    <2> QED  BY <2>1, <2>3 DEF Fenced, Current
  <1> QED  BY <1>1, <1>2 DEF FenceInv, InFlight

\* A request that begins is fenced, and takes its events away from the others.
LEMMA BeginStep ==
    ASSUME TypeOK, FenceInv, NEW t \in Thread, NEW ids \in SUBSET Event,
           BeginReconcile(t, ids)
    PROVE  FenceInv'
  <1>1. revision \in Nat /\ revision' = revision + 1
    BY DEF TypeOK, BeginReconcile
  <1>2. \A e \in Event :
            /\ revisionOf[e] \in Nat /\ revisionOf[e] <= revision
            /\ revisionOf'[e] = IF e \in ids THEN revision + 1 ELSE revisionOf[e]
    BY DEF TypeOK, FenceInv, BeginReconcile
  <1>3. \A e \in Event : revisionOf'[e] <= revision'
    BY <1>1, <1>2
  <1>4. job[t].todo = {} /\ job[t].current = 0
    BY DEF FenceInv, BeginReconcile
  <1>5. epoch' = epoch /\ epoch \in [Event -> Nat]
    BY DEF TypeOK, BeginReconcile
  <1>6. /\ job'[t].pc = "fetch" /\ job'[t].ids = ids /\ job'[t].revision = revision + 1
        /\ job'[t].epochs = epoch /\ job'[t].todo = {} /\ job'[t].current = 0
    <2>1. job[t] \in Job
      BY DEF TypeOK
    <2>2. job'[t] = [job[t] EXCEPT !.pc = "fetch", !.ids = ids, !.revision = revision + 1,
                                   !.started = clock, !.epochs = epoch]
      BY DEF TypeOK, BeginReconcile
    <2> QED  BY <1>4, <2>1, <2>2 DEF Job
  <1>7. overtaken' = [s \in Thread |-> IF s = t THEN {} ELSE overtaken[s] \cup ids]
    BY DEF BeginReconcile
  <1>8. Fenced(t)'
    <2>1. 0 < job'[t].revision /\ job'[t].revision <= revision'
      BY <1>1, <1>6
    <2>2. \A e \in ids : epoch[e] <= epoch'[e] /\ e \notin overtaken'[t]
      BY <1>5, <1>7
    <2>3. \A e \in ids : Current(t, e)'
      BY <1>2, <1>5, <1>6 DEF Current
    <2> QED  BY <1>6, <2>1, <2>2, <2>3 DEF Fenced
  <1>9. ASSUME NEW s \in Thread, s # t
        PROVE  /\ job'[s] = job[s]
               /\ InFlight(s) => Fenced(s)'
    <2>1. job'[s] = job[s]
      BY <1>9 DEF TypeOK, BeginReconcile
    <2>2. ASSUME InFlight(s)
          PROVE  Fenced(s)'
      <3>1. Fenced(s)
        BY <2>2 DEF FenceInv
      <3>2. job[s].ids \subseteq Event /\ job[s].revision \in Nat
        BY DEF TypeOK, Job
      <3>3. job[s].revision <= revision /\ job[s].revision # revision + 1
        BY <1>1, <3>1, <3>2 DEF Fenced
      <3>4. \A e \in job[s].ids : e \in overtaken'[s] <=> ~Current(s, e)'
        BY <1>2, <1>5, <1>7, <1>9, <2>1, <3>1, <3>2, <3>3 DEF Fenced, Current
      <3>5. 0 < job'[s].revision /\ job'[s].revision <= revision'
        BY <1>1, <2>1, <3>1, <3>2, <3>3 DEF Fenced
      <3> QED  BY <1>5, <2>1, <3>1, <3>4, <3>5 DEF Fenced
    <2> QED  BY <2>1, <2>2
  <1> QED  BY <1>3, <1>6, <1>8, <1>9 DEF FenceInv, InFlight

\* Every action preserves the fence.
LEMMA FenceNext ==
    ASSUME TypeOK, FenceInv, [Next]_vars
    PROVE  FenceInv'
  <1>1. CASE UNCHANGED <<fence, job>>
    BY <1>1 DEF FenceInv, Fenced, Current, InFlight, fence
  <1>2. ASSUME NEW ids \in SUBSET Event, Invalidate(ids)
        PROVE  FenceInv'
    BY <1>2, OvertakeStep DEF Invalidate
  <1>3. ASSUME NEW e \in Event, ClearEvent(e)
        PROVE  FenceInv'
    <2>1. \A x \in Event : revisionOf'[x] = revisionOf[x] \/ (x \in {e} /\ revisionOf'[x] = 0)
      BY <1>3 DEF ClearEvent, TypeOK
    <2>2. NextEpoch({e}) /\ Overtake({e}) /\ UNCHANGED <<revision, job>>
      BY <1>3 DEF ClearEvent
    <2> QED  BY <2>1, <2>2, OvertakeStep
  <1>4. ASSUME NEW t \in Thread, NEW ids \in SUBSET Event, BeginReconcile(t, ids)
        PROVE  FenceInv'
    BY <1>4, BeginStep
  <1>5. ASSUME NEW t \in Thread
        PROVE  job[t] \in Job
    BY DEF TypeOK
  <1>6. ASSUME NEW t \in Thread, NEW ids \in SUBSET Event, Seed(t, ids)
        PROVE  FenceInv'
    <2> DEFINE j == [job[t] EXCEPT !.pc = "seed", !.seed = ids \ seeded]
    <2>1. j \in Job /\ j.pc = "seed" /\ j.todo = job[t].todo /\ j.current = job[t].current
      BY <1>5 DEF Job
    <2>2. job[t].todo = {} /\ job[t].current = 0
      BY <1>6 DEF FenceInv, Seed
    <2>3. UNCHANGED fence /\ job' = [job EXCEPT ![t] = j]
      BY <1>6 DEF Seed
    <2> HIDE DEF j
    <2> QED  BY <2>1, <2>2, <2>3, JobStep
  <1>7. ASSUME NEW t \in Thread, NEW bodies \in Answers(job[t].ids), Respond(t, bodies)
        PROVE  FenceInv'
    <2> DEFINE j == [job[t] EXCEPT !.pc = "apply", !.answer = bodies,
                         !.receivedAt = clock, !.todo = job[t].ids]
    <2>1. bodies \in [Event -> Body] /\ clock \in Nat
      BY PayloadsAssumption, NoBodyType DEF PayloadsAssumption, Answers, TypeOK
    <2>2. /\ j \in Job /\ j.pc = "apply" /\ j.ids = job[t].ids /\ j.revision = job[t].revision
          /\ j.epochs = job[t].epochs /\ j.todo = job[t].ids /\ j.current = job[t].current
      BY <1>5, <2>1 DEF Job
    <2>3. UNCHANGED fence /\ job' = [job EXCEPT ![t] = j] /\ InFlight(t)
      BY <1>7 DEF Respond, InFlight
    <2>4. job[t].todo \subseteq job[t].ids /\ job[t].current \in job[t].todo \cup {0}
      BY <2>3 DEF FenceInv, Fenced
    <2> HIDE DEF j
    <2> QED  BY <2>2, <2>3, <2>4, JobStep
  <1>8. ASSUME NEW t \in Thread, NEW e \in Event, ReadLayout(t, e)
        PROVE  FenceInv'
    <2> DEFINE j == [job[t] EXCEPT !.current = e, !.view = layout]
    <2>1. layout \in Layout
      BY DEF TypeOK
    <2>2. /\ j \in Job /\ j.pc = job[t].pc /\ j.ids = job[t].ids /\ j.revision = job[t].revision
          /\ j.epochs = job[t].epochs /\ j.todo = job[t].todo /\ j.current = e
      BY <1>5, <2>1 DEF Job
    <2>3. /\ UNCHANGED fence /\ job' = [job EXCEPT ![t] = j]
          /\ InFlight(t) /\ job[t].pc = "apply" /\ e \in job[t].todo
      BY <1>8 DEF ReadLayout, InFlight
    <2>4. job[t].todo \subseteq job[t].ids
      BY <2>3 DEF FenceInv, Fenced
    <2> HIDE DEF j
    <2> QED  BY <2>2, <2>3, <2>4, JobStep
  <1>9. ASSUME NEW t \in Thread, RefuseSnapshot(t) \/ ApplyAuthoritative(t)
        PROVE  FenceInv'
    <2> DEFINE j == [job[t] EXCEPT !.current = 0, !.view = NoLayouts,
                                   !.todo = job[t].todo \ {job[t].current}]
    <2>1. /\ j \in Job /\ j.pc = job[t].pc /\ j.ids = job[t].ids /\ j.revision = job[t].revision
          /\ j.epochs = job[t].epochs /\ j.todo \subseteq job[t].todo /\ j.current = 0
      BY <1>5, NoLayoutsType DEF Job
    <2>2. /\ UNCHANGED fence /\ job' = [job EXCEPT ![t] = j]
          /\ InFlight(t) /\ job[t].pc = "apply"
      BY <1>9 DEF RefuseSnapshot, ApplyAuthoritative, Applied, Applying, InFlight
    <2>3. job[t].todo \subseteq job[t].ids
      BY <2>2 DEF FenceInv, Fenced
    <2> HIDE DEF j
    <2> QED  BY <2>1, <2>2, <2>3, JobStep
  <1>10. ASSUME NEW t \in Thread, Finish(t) \/ Fail(t)
         PROVE  FenceInv'
    <2>1. IdleJob.pc = "idle" /\ IdleJob.todo = {} /\ IdleJob.current = 0
      BY DEF IdleJob
    <2>2. UNCHANGED fence /\ job' = [job EXCEPT ![t] = IdleJob]
      BY <1>10 DEF Finish, Fail
    <2> QED  BY <2>1, <2>2, IdleJobType, JobStep
  <1>11. \/ UNCHANGED <<fence, job>>
         \/ \E ids \in SUBSET Event : Invalidate(ids)
         \/ \E e \in Event : ClearEvent(e)
         \/ \E t \in Thread :
               \/ \E ids \in SUBSET Event : BeginReconcile(t, ids) \/ Seed(t, ids)
               \/ \E bodies \in Answers(job[t].ids) : Respond(t, bodies)
               \/ \E e \in Event : ReadLayout(t, e)
               \/ RefuseSnapshot(t) \/ ApplyAuthoritative(t) \/ Finish(t) \/ Fail(t)
    BY DEF Next, vars, Receive, DropStale, ApplyUpdate
  <1> QED
    BY <1>1, <1>2, <1>3, <1>4, <1>6, <1>7, <1>8, <1>9, <1>10, <1>11

\* The strengthened fence holds in every reachable state, whoever reconciles,
\* seeds, invalidates or clears which events, in any order.
THEOREM FenceHolds == Spec => []FenceInv
  <1>1. Init => FenceInv
    BY DEF Init, FenceInv, InFlight, IdleJob
  <1>2. TypeOK /\ FenceInv /\ [Next]_vars => FenceInv'
    BY FenceNext
  <1> QED  BY <1>1, <1>2, TypeCorrect, PTL DEF Spec

\* The fence refuses exactly the requests that were overtaken.
THEOREM FenceCorrect == Spec => []FenceExact
  <1>1. FenceInv => FenceExact
    BY DEF FenceInv, FenceExact, Fenced
  <1> QED  BY <1>1, FenceHolds, PTL

\* Only the answer to a request made since the last invalidation revalidates.
THEOREM RevalidationCorrect == Spec => RevalidationIsCurrent
  <1>1. TypeOK /\ FenceInv /\ [Next]_vars
        => [\A e \in invalid \ invalid' : Revalidates(e)]_vars
    <2> SUFFICES ASSUME TypeOK, FenceInv, [Next]_vars, NEW e \in invalid \ invalid'
                 PROVE  Revalidates(e)
      OBVIOUS
    <2>1. ASSUME NEW t \in Thread, ApplyAuthoritative(t)
          PROVE  Revalidates(e)
      <3>1. e = job[t].current /\ Applying(t) /\ Accepted(t)
        BY <2>1 DEF ApplyAuthoritative
      <3>2. Fenced(t)
        BY <3>1 DEF FenceInv, InFlight, Applying
      <3>3. e \in job[t].ids
        BY <3>1, <3>2 DEF Fenced, Applying
      <3>4. e \notin overtaken[t]
        BY <3>1, <3>2, <3>3 DEF Fenced, Accepted, Current
      <3> QED  BY <3>1, <3>4 DEF Revalidates
    <2>2. ASSUME NEW x \in Event, ClearEvent(x)
          PROVE  Revalidates(e)
      <3>1. e = x
        BY SMTT(30), <2>2 DEF ClearEvent
      <3> QED  BY <2>2, <3>1 DEF Revalidates
    <2>3. \/ invalid \subseteq invalid'
          \/ \E x \in Event : ClearEvent(x)
          \/ \E t \in Thread : ApplyAuthoritative(t)
      BY DEF Next, vars, Receive, DropStale, ApplyUpdate, Invalidate, BeginReconcile,
             Seed, Respond, ReadLayout, RefuseSnapshot, Finish, Fail
    <2> QED  BY <2>1, <2>2, <2>3
  <1> QED  BY <1>1, TypeCorrect, FenceHolds, PTL DEF Spec, RevalidationIsCurrent

-----------------------------------------------------------------------------
(* Versions.                                                               *)

\* The versions given out are the newest.
VersionInv == \A e \in Event : version[e] <= bumps

VersionStep ==
    \A e \in Event :
        /\ EventSnapshot(e)' # EventSnapshot(e) => version'[e] > bumps
        /\ version'[e] >= version[e]

\* A step that bumps every event of which it changes the book or the validity.
LEMMA BumpStep ==
    ASSUME TypeOK, VersionInv, NEW S \in SUBSET Event, Bump(S),
           \A k \in Key : KeyEvent[k] \notin S =>
               depth'[k] = depth[k] /\ (k \in known' <=> k \in known),
           \A e \in Event \ S : e \in invalid' <=> e \in invalid
    PROVE  VersionInv' /\ VersionStep
  <1>1. /\ bumps' \in Nat /\ bumps <= bumps' /\ version' \in [Event -> Nat]
        /\ \A e \in S : bumps < version'[e] /\ version'[e] <= bumps'
        /\ \A e \in Event \ S : version'[e] = version[e]
    BY BumpType DEF TypeOK
  <1>2. \A e \in Event : version[e] \in Nat /\ version[e] <= bumps /\ bumps \in Nat
    BY DEF TypeOK, VersionInv
  <1>3. VersionInv'
    BY <1>1, <1>2 DEF VersionInv
  <1>4. ASSUME NEW e \in Event \ S
        PROVE  EventSnapshot(e)' = EventSnapshot(e)
    <2>1. known' \cap KeysOf(e) = known \cap KeysOf(e)
      BY DEF KeysOf
    <2>2. [k \in KeysOf(e) |-> depth'[k]] = [k \in KeysOf(e) |-> depth[k]]
      BY DEF KeysOf
    <2> QED  BY <2>1, <2>2 DEF EventSnapshot, KeysOf
  <1>5. VersionStep
    BY <1>1, <1>2, <1>4 DEF VersionStep
  <1> QED  BY <1>3, <1>5

\* The snapshot of an event only shows its selections and its validity.
LEMMA QuietStep ==
    ASSUME TypeOK, VersionInv, UNCHANGED <<book, versions, invalid>>
    PROVE  VersionInv' /\ VersionStep
  <1>1. \A e \in Event : version[e] \in Nat
    BY DEF TypeOK
  <1>2. UNCHANGED <<depth, known, invalid, version, bumps>>
    BY DEF book, versions
  <1> QED  BY <1>1, <1>2 DEF VersionInv, VersionStep, EventSnapshot, KeysOf

\* A commit bumps every event of which it changes the snapshot.
LEMMA CommitVersion ==
    ASSUME TypeOK, VersionInv, NEW f \in feeder, Commit(f), UNCHANGED invalid
    PROVE  VersionInv' /\ VersionStep
  <1> DEFINE u == f.update
             g == Resolve(u.body, f.view, u.replace)
             touched == Touched(g)
             gone == IF u.replace THEN (known \cap KeysOf(u.event)) \ touched ELSE {}
             S == EventsOf(touched) \cup IF u.replace THEN {u.event} ELSE {}
  <1>1. u.event \in Event
    BY DEF TypeOK, InHand, Update
  <1>2. S \in SUBSET Event
    BY <1>1, EventsOfType DEF Touched
  <1>3. Bump(S)
    BY DEF Commit
  <1>4. known' = (known \ gone) \cup touched
    BY SMTT(30) DEF Commit
  <1>5. depth' = [k \in Key |-> IF k \in touched THEN Merged(depth[k], g[k])
                                ELSE IF k \in gone THEN Empty ELSE depth[k]]
    BY DEF Commit
  <1>6. \A k \in Key : KeyEvent[k] \notin S => k \notin touched /\ k \notin gone
    BY DEF EventsOf, KeysOf
  <1>7. \A k \in Key : KeyEvent[k] \notin S =>
            depth'[k] = depth[k] /\ (k \in known' <=> k \in known)
    <2> HIDE DEF S, gone, touched, g
    <2> QED  BY <1>4, <1>5, <1>6
  <1> HIDE DEF S
  <1> QED  BY <1>2, <1>3, <1>7, BumpStep

\* Installing a snapshot bumps the event it is for, and changes no other.
LEMMA ApplyVersion ==
    ASSUME TypeOK, VersionInv, NEW t \in Thread, ApplyAuthoritative(t)
    PROVE  VersionInv' /\ VersionStep
  <1> DEFINE j == job[t]
             e == j.current
             rest == Resolve(j.answer[e], j.view, TRUE)
             kept == Kept(e, j.started, rest)
             candidates == (known \cap KeysOf(e))
                           \cup NewResets(e, j.started) \cup NewRemovals(e, j.started)
                           \cup {k \in Key : NewChanges(e, j.started, k) # {}}
             dropped == candidates \ kept
             S == {e} \cup EventsOf(Touched(rest))
  <1>1. e \in Event
    BY ApplyingType DEF ApplyAuthoritative
  <1>2. S \in SUBSET Event
    BY <1>1, EventsOfType DEF Touched
  <1>3. Bump(S)
    BY DEF ApplyAuthoritative
  <1>4. known' = (known \ dropped) \cup kept
    BY DEF ApplyAuthoritative
  <1>5. depth' = [k \in Key |-> IF k \in kept THEN Rebased(e, j.started, rest, k)
                                ELSE IF k \in dropped THEN Empty ELSE depth[k]]
    BY DEF ApplyAuthoritative
  <1>6. ASSUME NEW k \in Key, KeyEvent[k] \notin S
        PROVE  k \notin kept /\ k \notin dropped
    <2>1. KeyEvent[k] # e /\ k \notin Touched(rest)
      BY <1>6 DEF EventsOf
    <2>2. k \notin NewResets(e, j.started) /\ k \notin NewRemovals(e, j.started)
      BY <2>1 DEF NewResets, NewRemovals, KeysOf
    <2>3. NewChanges(e, j.started, k) = {}
      BY <2>1 DEF NewChanges
    <2> QED  BY <2>1, <2>2, <2>3 DEF Kept, KeysOf
  <1>7. \A k \in Key : KeyEvent[k] \notin S =>
            depth'[k] = depth[k] /\ (k \in known' <=> k \in known)
    <2> HIDE DEF S, dropped, kept, rest
    <2> QED  BY SMTT(30), <1>4, <1>5, <1>6
  <1>8. \A x \in Event \ S : x \in invalid' <=> x \in invalid
    BY DEF ApplyAuthoritative
  <1> HIDE DEF S
  <1> QED  BY SMTT(30), <1>2, <1>3, <1>7, <1>8, BumpStep

\* Every action tells snapshots apart by their versions.
LEMMA VersionNext ==
    ASSUME TypeOK, VersionInv, [Next]_vars
    PROVE  VersionInv' /\ VersionStep
  <1>1. CASE UNCHANGED <<book, versions, invalid>>
    BY <1>1, QuietStep
  <1>2. CASE ApplyUpdate
    BY <1>2, CommitVersion DEF ApplyUpdate
  <1>3. ASSUME NEW ids \in SUBSET Event, Invalidate(ids)
        PROVE  VersionInv' /\ VersionStep
    <2>1. /\ Bump(ids) /\ depth' = depth /\ known' = known
          /\ \A e \in Event \ ids : e \in invalid' <=> e \in invalid
      BY <1>3 DEF Invalidate, book
    <2> QED  BY <2>1, BumpStep
  <1>4. ASSUME NEW e \in Event, ClearEvent(e)
        PROVE  VersionInv' /\ VersionStep
    <2>1. Bump({e}) /\ \A x \in Event \ {e} : x \in invalid' <=> x \in invalid
      BY <1>4 DEF ClearEvent
    <2>2. \A k \in Key : KeyEvent[k] \notin {e} =>
              depth'[k] = depth[k] /\ (k \in known' <=> k \in known)
      BY <1>4 DEF ClearEvent, DepthWithout, KeysOf
    <2> QED  BY <2>1, <2>2, BumpStep
  <1>5. ASSUME NEW t \in Thread, ApplyAuthoritative(t)
        PROVE  VersionInv' /\ VersionStep
    BY SMTT(30), <1>5, ApplyVersion
  <1>6. \/ UNCHANGED <<book, versions, invalid>>
        \/ ApplyUpdate
        \/ \E ids \in SUBSET Event : Invalidate(ids)
        \/ \E e \in Event : ClearEvent(e)
        \/ \E t \in Thread : ApplyAuthoritative(t)
    BY DEF Next, vars, Receive, DropStale, BeginReconcile, Seed, Respond, ReadLayout,
           RefuseSnapshot, Finish, Fail
  <1> QED  BY <1>1, <1>2, <1>3, <1>4, <1>5, <1>6

\* Equal versions of an event mean equal snapshots of it.
THEOREM VersionsCorrect == Spec => VersionsTellSnapshots
  <1>1. Init => VersionInv
    BY DEF Init, VersionInv
  <1>2. TypeOK /\ VersionInv /\ [Next]_vars => VersionInv' /\ [VersionStep]_vars
    BY VersionNext
  <1>3. [VersionStep]_vars <=>
            [\A e \in Event :
                /\ EventSnapshot(e)' # EventSnapshot(e) => version'[e] > bumps
                /\ version'[e] >= version[e]]_vars
    BY DEF VersionStep
  <1> QED  BY <1>1, <1>2, <1>3, TypeCorrect, PTL DEF Spec, VersionsTellSnapshots

-----------------------------------------------------------------------------
(* MarketCache implements Books: KeepsPromise holds for every value of the *)
(* constants.  Receiving, dropping and looking change nothing that Books   *)
(* shows; every other action is the step of Books of the same purpose.     *)

Shown == [e \in Event |-> ContentOf(e)]
Counting == [t \in Thread |-> Fresh(t)]
Depths == [known : SUBSET Key, depth : [Key -> [Price -> Nat]]]

\* The books are always within the contents that Books allows.
LEMMA ShownType == ASSUME TypeOK PROVE Shown \in [Event -> Depths]
  <1>1. ASSUME NEW e \in Event
        PROVE  ContentOf(e) \in Depths
    <2>1. \A k \in Key : depth[k] \in [Price -> Nat] /\ Empty \in [Price -> Nat]
      BY DEF TypeOK, Empty
    <2>2. [k \in Key |-> IF KeyEvent[k] = e THEN depth[k] ELSE Empty] \in [Key -> [Price -> Nat]]
      BY <2>1
    <2>3. known \cap KeysOf(e) \in SUBSET Key
      BY DEF KeysOf
    <2> QED  BY <2>2, <2>3 DEF ContentOf, Depths
  <1> QED  BY <1>1 DEF Shown

\* An event is shown what the cache holds of its own selections.
LEMMA ShownStep ==
    ASSUME TypeOK, TypeOK', NEW S \in SUBSET Event,
           \A k \in Key : KeyEvent[k] \notin S =>
               depth'[k] = depth[k] /\ (k \in known' <=> k \in known)
    PROVE  /\ Shown' \in [Event -> Depths]
           /\ \A e \in Event \ S : Shown'[e] = Shown[e]
  <1>1. ASSUME NEW e \in Event
        PROVE  ContentOf(e)' \in Depths
    <2>1. \A k \in Key : depth'[k] \in [Price -> Nat] /\ Empty \in [Price -> Nat]
      BY DEF TypeOK, Empty
    <2>2. [k \in Key |-> IF KeyEvent[k] = e THEN depth'[k] ELSE Empty] \in [Key -> [Price -> Nat]]
      BY <2>1
    <2>3. known' \cap KeysOf(e) \in SUBSET Key
      BY DEF KeysOf
    <2> QED  BY <2>2, <2>3 DEF ContentOf, Depths, KeysOf, Empty
  <1>2. ASSUME NEW e \in Event \ S
        PROVE  ContentOf(e)' = ContentOf(e)
    <2>1. known' \cap KeysOf(e) = known \cap KeysOf(e)
      BY DEF KeysOf
    <2>2. [k \in Key |-> IF KeyEvent[k] = e THEN depth'[k] ELSE Empty]
          = [k \in Key |-> IF KeyEvent[k] = e THEN depth[k] ELSE Empty]
      OBVIOUS
    <2> QED  BY <2>1, <2>2 DEF ContentOf, KeysOf
  <1> QED  BY <1>1, <1>2 DEF Shown

\* Which events count for a request depends on the fence and the job alone.
LEMMA CountingStep ==
    ASSUME TypeOK, NEW t \in Thread, UNCHANGED fence,
           \A s \in Thread \ {t} : job'[s] = job[s]
    PROVE  Counting' = [Counting EXCEPT ![t] = Fresh(t)']
  <1>1. revisionOf' = revisionOf /\ epoch' = epoch
    BY DEF fence
  <1>2. \A s \in Thread \ {t} : Fresh(s)' = Fresh(s)
    BY <1>1 DEF Fresh, Current
  <1> QED  BY <1>2 DEF Counting

\* Depth and known selections decide what is shown.
LEMMA ShownSame == ASSUME UNCHANGED book PROVE Shown' = Shown
  <1>1. depth' = depth /\ known' = known
    BY DEF book
  <1> QED  BY <1>1 DEF Shown, ContentOf, KeysOf

\* A step that leaves books, versions, validity and fence alone and keeps the
\* events that count for t changes nothing that Books shows.
LEMMA Stutters ==
    ASSUME TypeOK, NEW t \in Thread, UNCHANGED <<book, versions, invalid, fence>>,
           \A s \in Thread \ {t} : job'[s] = job[s],
           Fresh(t)' = Fresh(t)
    PROVE  UNCHANGED Promise!books
  <1>1. Counting' = [Counting EXCEPT ![t] = Fresh(t)] /\ Counting[t] = Fresh(t)
    BY CountingStep DEF Counting
  <1>2. Counting' = Counting
    BY <1>1 DEF Counting
  <1>3. Shown' = Shown
    BY ShownSame
  <1> QED  BY <1>2, <1>3 DEF Promise!books, Shown, Counting, versions

\* Books counts as MarketCache does.
LEMMA SameCount == ASSUME NEW S PROVE Promise!Cardinality(S) = Cardinality(S)
  BY DEF Cardinality, Promise!Cardinality

LEMMA SameVersions == ASSUME NEW S, Bump(S) PROVE Promise!NewVersions(S)
  <1>1. \A T : Promise!Cardinality(T) = Cardinality(T)
    BY SameCount
  <1> QED  BY <1>1 DEF Bump, Promise!NewVersions

\* The initial books are the initial books of Books.
LEMMA StartsAsPromised == ASSUME Init PROVE Promise!BooksInit
  <1>1. \A e \in Event : ContentOf(e) = [known |-> {}, depth |-> [k \in Key |-> Empty]]
    BY DEF Init, ContentOf
  <1>2. \A t \in Thread : Fresh(t) = {}
    BY DEF Init, Fresh, IdleJob
  <1> QED  BY <1>1, <1>2 DEF Init, Promise!BooksInit

\* begin_reconcile is a request: the new revision is nobody else's.
LEMMA BeginIsRequest ==
    ASSUME TypeOK, FenceInv, NEW t \in Thread, NEW ids \in SUBSET Event,
           BeginReconcile(t, ids)
    PROVE  Promise!Request(t, ids)
  <1>1. /\ revision \in Nat /\ revision' = revision + 1 /\ epoch' = epoch
        /\ \A e \in Event : revisionOf'[e] = IF e \in ids THEN revision + 1 ELSE revisionOf[e]
    BY DEF TypeOK, BeginReconcile
  <1>2. Fresh(t)' = ids
    <2>1. job[t] \in Job
      BY DEF TypeOK
    <2>2. job'[t] = [job[t] EXCEPT !.pc = "fetch", !.ids = ids, !.revision = revision + 1,
                                   !.started = clock, !.epochs = epoch]
      BY DEF TypeOK, BeginReconcile
    <2>3. /\ job'[t].pc = "fetch" /\ job'[t].ids = ids
          /\ job'[t].revision = revision + 1 /\ job'[t].epochs = epoch
      BY <2>1, <2>2 DEF Job
    <2> QED  BY <1>1, <2>3 DEF Fresh, Current
  <1>3. ASSUME NEW s \in Thread \ {t}
        PROVE  Fresh(s)' = Fresh(s) \ ids
    <2>1. job'[s] = job[s]
      BY DEF TypeOK, BeginReconcile
    <2>2. CASE InFlight(s)
      <3>1. job[s].revision # revision + 1 /\ job[s].ids \subseteq Event
            /\ job[s].todo \subseteq Event
        <4>1. Fenced(s) /\ job[s] \in Job
          BY <2>2 DEF FenceInv, TypeOK
        <4> QED  BY <1>1, <4>1 DEF Fenced, Job
      <3>2. \A e \in Event : Current(s, e)' <=> e \notin ids /\ Current(s, e)
        BY <1>1, <2>1, <3>1 DEF Current
      <3> QED  BY <2>1, <3>1, <3>2 DEF Fresh
    <2>3. CASE ~InFlight(s)
      BY <2>1, <2>3 DEF Fresh, InFlight
    <2> QED  BY <2>2, <2>3
  <1>4. Counting' = [[s \in Thread |-> Counting[s] \ ids] EXCEPT ![t] = ids]
    BY <1>2, <1>3 DEF Counting
  <1>5. Shown' = Shown /\ UNCHANGED <<invalid, bumps, version>>
    BY ShownSame DEF BeginReconcile, versions
  <1> QED  BY <1>4, <1>5 DEF Promise!Request, Promise!Lose, Shown, Counting

\* A commit of the feed is a write.
LEMMA CommitIsWrite ==
    ASSUME TypeOK, TypeOK', ApplyUpdate
    PROVE  \E S \in SUBSET Event : Promise!Write(S)
  <1> PICK f \in feeder : Commit(f)
    BY DEF ApplyUpdate
  <1> DEFINE u == f.update
             g == Resolve(u.body, f.view, u.replace)
             touched == Touched(g)
             gone == IF u.replace THEN (known \cap KeysOf(u.event)) \ touched ELSE {}
             S == EventsOf(touched) \cup IF u.replace THEN {u.event} ELSE {}
  <1>1. u.event \in Event
    BY DEF TypeOK, InHand, Update
  <1>2. S \in SUBSET Event
    BY <1>1, EventsOfType DEF Touched
  <1>3. Bump(S)
    BY DEF Commit
  <1>4. known' = (known \ gone) \cup touched
    BY SMTT(30) DEF Commit
  <1>5. depth' = [k \in Key |-> IF k \in touched THEN Merged(depth[k], g[k])
                                ELSE IF k \in gone THEN Empty ELSE depth[k]]
    BY DEF Commit
  <1>6. \A k \in Key : KeyEvent[k] \notin S => k \notin touched /\ k \notin gone
    BY DEF EventsOf, KeysOf
  <1>7. \A k \in Key : KeyEvent[k] \notin S =>
            depth'[k] = depth[k] /\ (k \in known' <=> k \in known)
    <2> HIDE DEF S, gone, touched, g
    <2> QED  BY <1>4, <1>5, <1>6
  <1> HIDE DEF S
  <1>8. Shown' \in [Event -> Depths] /\ \A e \in Event \ S : Shown'[e] = Shown[e]
    BY <1>2, <1>7, ShownStep
  <1>9. Counting' = Counting /\ invalid' = invalid
    BY DEF ApplyUpdate, fence, Counting, Fresh, Current
  <1>10. Promise!Write(S)
    BY <1>3, <1>8, <1>9, SameVersions DEF Promise!Write, Promise!OnlyOf, Shown, Counting, Depths
  <1> QED  BY <1>2, <1>10

\* Installing an answer is accepting it, for an event that still counts.
LEMMA ApplyIsAccept ==
    ASSUME TypeOK, TypeOK', FenceInv, NEW t \in Thread, ApplyAuthoritative(t)
    PROVE  \E e \in Event, S \in SUBSET Event : Promise!Accept(t, e, S)
  <1> DEFINE j == job[t]
             e == j.current
             rest == Resolve(j.answer[e], j.view, TRUE)
             kept == Kept(e, j.started, rest)
             candidates == (known \cap KeysOf(e))
                           \cup NewResets(e, j.started) \cup NewRemovals(e, j.started)
                           \cup {k \in Key : NewChanges(e, j.started, k) # {}}
             dropped == candidates \ kept
             S == {e} \cup EventsOf(Touched(rest))
  <1>1. e \in Event
    BY ApplyingType DEF ApplyAuthoritative
  <1>2. S \in SUBSET Event
    BY <1>1, EventsOfType DEF Touched
  <1>3. Bump(S) /\ invalid' = invalid \ {e}
    BY DEF ApplyAuthoritative
  <1>4. known' = (known \ dropped) \cup kept
    BY DEF ApplyAuthoritative
  <1>5. depth' = [k \in Key |-> IF k \in kept THEN Rebased(e, j.started, rest, k)
                                ELSE IF k \in dropped THEN Empty ELSE depth[k]]
    BY DEF ApplyAuthoritative
  <1>6. ASSUME NEW k \in Key, KeyEvent[k] \notin S
        PROVE  k \notin kept /\ k \notin dropped
    <2>1. KeyEvent[k] # e /\ k \notin Touched(rest)
      BY <1>6 DEF EventsOf
    <2>2. k \notin NewResets(e, j.started) /\ k \notin NewRemovals(e, j.started)
      BY <2>1 DEF NewResets, NewRemovals, KeysOf
    <2>3. NewChanges(e, j.started, k) = {}
      BY <2>1 DEF NewChanges
    <2> QED  BY <2>1, <2>2, <2>3 DEF Kept, KeysOf
  <1>7. \A k \in Key : KeyEvent[k] \notin S =>
            depth'[k] = depth[k] /\ (k \in known' <=> k \in known)
    <2> HIDE DEF S, dropped, kept, rest
    <2> QED  BY <1>4, <1>5, <1>6
  <1>8. e \in S
    OBVIOUS
  <1> HIDE DEF S, rest, kept, dropped, candidates
  <1>9. Shown' \in [Event -> Depths] /\ \A x \in Event \ S : Shown'[x] = Shown[x]
    BY <1>2, <1>7, ShownStep
  <1>10. Applying(t) /\ Accepted(t) /\ UNCHANGED fence /\ job' = Applied(t)
    BY DEF ApplyAuthoritative
  <1>11. e \in Fresh(t)
    <2>1. Fenced(t)
      BY <1>10 DEF FenceInv, InFlight, Applying
    <2> QED  BY <1>10, <2>1 DEF Fenced, Applying, Accepted, Fresh, Current
  <1>12. Fresh(t)' = Fresh(t) \ {e} /\ \A s \in Thread \ {t} : job'[s] = job[s]
    <2>1. job[t] \in Job /\ job'[t] = [job[t] EXCEPT !.current = 0, !.view = NoLayouts,
                                                     !.todo = job[t].todo \ {job[t].current}]
      BY <1>10 DEF Applied, TypeOK
    <2>2. /\ job'[t].pc = job[t].pc /\ job'[t].todo = job[t].todo \ {e}
          /\ job'[t].revision = job[t].revision /\ job'[t].epochs = job[t].epochs
      BY <2>1 DEF Job
    <2>3. job[t].pc = "apply" /\ revisionOf' = revisionOf /\ epoch' = epoch
      BY <1>10 DEF Applying, fence
    <2>4. \A s \in Thread \ {t} : job'[s] = job[s]
      BY <1>10 DEF Applied, TypeOK
    <2> QED  BY <2>2, <2>3, <2>4 DEF Fresh, Current
  <1>13. Counting' = [Counting EXCEPT ![t] = @ \ {e}]
    BY <1>10, <1>12, CountingStep DEF Counting
  <1>14. Promise!Accept(t, e, S)
    BY <1>3, <1>8, <1>9, <1>11, <1>13, SameVersions DEF Promise!Accept, Promise!OnlyOf, Shown, Counting, Depths
  <1> QED  BY SMTT(30), <1>1, <1>2, <1>14

\* A new epoch for the events of S takes them away from every request.
LEMMA EpochLoses ==
    ASSUME TypeOK, FenceInv, NEW S \in SUBSET Event, NextEpoch(S), UNCHANGED job,
           \A e \in Event \ S : revisionOf'[e] = revisionOf[e]
    PROVE  Counting' = [t \in Thread |-> Counting[t] \ S]
  <1>1. ASSUME NEW t \in Thread
        PROVE  Fresh(t)' = Fresh(t) \ S
    <2>1. CASE InFlight(t)
      <3>1. /\ Fenced(t) /\ job[t].ids \subseteq Event /\ job[t].todo \subseteq job[t].ids
            /\ job[t].epochs \in [Event -> Nat] /\ epoch \in [Event -> Nat]
        BY <2>1 DEF FenceInv, TypeOK, Job, Fenced
      <3>2. ASSUME NEW e \in job[t].ids
            PROVE  Current(t, e)' <=> Current(t, e) /\ e \notin S
        <4>1. /\ e \in Event /\ job[t].epochs[e] \in Nat /\ epoch[e] \in Nat
              /\ job[t].epochs[e] <= epoch[e]
          BY <3>1 DEF Fenced
        <4>2. epoch'[e] = IF e \in S THEN epoch[e] + 1 ELSE epoch[e]
          BY <4>1 DEF NextEpoch
        <4>3. e \in S => epoch'[e] # job[t].epochs[e]
          BY <4>1, <4>2
        <4> QED  BY <4>1, <4>2, <4>3 DEF Current
      <3> QED  BY <3>1, <3>2 DEF Fresh
    <2>2. CASE ~InFlight(t)
      BY <2>2 DEF Fresh, InFlight
    <2> QED  BY <2>1, <2>2
  <1> QED  BY <1>1 DEF Counting

\* invalidate_events and clear_event.
LEMMA InvalidateIsInvalidate ==
    ASSUME TypeOK, FenceInv, NEW S \in SUBSET Event, Invalidate(S)
    PROVE  Promise!Invalidate(S)
  <1>1. /\ NextEpoch(S) /\ UNCHANGED <<job, revisionOf, book>>
        /\ Bump(S) /\ invalid' = invalid \cup S
    BY DEF Invalidate
  <1>2. Counting' = [t \in Thread |-> Counting[t] \ S]
    BY <1>1, EpochLoses
  <1>3. Shown' = Shown
    BY <1>1, ShownSame
  <1> QED  BY <1>1, <1>2, <1>3, SameVersions
       DEF Promise!Invalidate, Promise!Lose, Shown, Counting

LEMMA ClearIsForget ==
    ASSUME TypeOK, FenceInv, NEW e \in Event, ClearEvent(e)
    PROVE  Promise!Forget(e)
  <1>1. NextEpoch({e}) /\ UNCHANGED job /\ Bump({e}) /\ invalid' = invalid \ {e}
    BY DEF ClearEvent
  <1>2. \A x \in Event \ {e} : revisionOf'[x] = revisionOf[x]
    BY DEF ClearEvent, TypeOK
  <1>3. Counting' = [t \in Thread |-> Counting[t] \ {e}]
    BY <1>1, <1>2, EpochLoses
  <1>4. known' = known \ KeysOf(e)
        /\ depth' = [k \in Key |-> IF KeyEvent[k] = e THEN Empty ELSE depth[k]]
    BY DEF ClearEvent, DepthWithout
  <1>5. ContentOf(e)' = [known |-> {}, depth |-> [k \in Key |-> Empty]]
    BY <1>4 DEF ContentOf, KeysOf, Empty
  <1>6. \A x \in Event \ {e} : ContentOf(x)' = ContentOf(x)
    BY <1>4 DEF ContentOf, KeysOf, Empty
  <1>7. Shown' = [Shown EXCEPT ![e] = [known |-> {}, depth |-> [k \in Key |-> Empty]]]
    BY <1>5, <1>6 DEF Shown
  <1> QED  BY <1>1, <1>3, <1>7, SameVersions
       DEF Promise!Forget, Promise!Lose, Shown, Counting

\* A call that raises gives its request up; one that is over has none left.
LEMMA FailIsGiveUp ==
    ASSUME TypeOK, NEW t \in Thread, Fail(t)
    PROVE  Promise!GiveUp(t)
  <1>1. /\ UNCHANGED <<book, versions, invalid, fence>>
        /\ job' = [job EXCEPT ![t] = IdleJob]
    BY DEF Fail
  <1>2. job'[t].pc = "idle" /\ \A s \in Thread \ {t} : job'[s] = job[s]
    BY <1>1 DEF TypeOK, IdleJob
  <1>3. Fresh(t)' = {}
    BY <1>2 DEF Fresh
  <1>4. Counting' = [Counting EXCEPT ![t] = {}] /\ Shown' = Shown
    BY <1>1, <1>2, <1>3, CountingStep, ShownSame
  <1> QED  BY <1>1, <1>4 DEF Promise!GiveUp, Shown, Counting, versions

\* What a thread does for itself changes nothing that counts: it begins a
\* seed, has its answer, looks at a layout, is refused, or is through.
LEMMA OwnStep ==
    ASSUME TypeOK, FenceInv, NEW t \in Thread,
           \/ \E ids \in SUBSET Event : Seed(t, ids)
           \/ \E bodies \in Answers(job[t].ids) : Respond(t, bodies)
           \/ \E e \in Event : ReadLayout(t, e)
           \/ RefuseSnapshot(t)
           \/ Finish(t)
    PROVE  UNCHANGED Promise!books
  <1>1. job[t] \in Job
    BY SMTT(30) DEF TypeOK
  <1>2. UNCHANGED <<book, versions, invalid, fence>>
    BY DEF Seed, Respond, ReadLayout, RefuseSnapshot, Finish
  <1>3. \A s \in Thread \ {t} : job'[s] = job[s]
    BY DEF Seed, Respond, ReadLayout, RefuseSnapshot, Finish, Applied, TypeOK
  <1>4. revisionOf' = revisionOf /\ epoch' = epoch
    BY <1>2 DEF fence
  <1>5. Fresh(t)' = Fresh(t)
    <2>1. ASSUME NEW ids \in SUBSET Event, Seed(t, ids)
          PROVE  Fresh(t)' = Fresh(t)
      <3>1. job[t].pc = "idle" /\ job'[t] = [job[t] EXCEPT !.pc = "seed", !.seed = ids \ seeded]
        BY <2>1 DEF Seed, TypeOK
      <3>2. job'[t].pc = "seed"
        BY <1>1, <3>1 DEF Job
      <3> QED  BY <3>1, <3>2 DEF Fresh
    <2>2. ASSUME NEW bodies \in Answers(job[t].ids), Respond(t, bodies)
          PROVE  Fresh(t)' = Fresh(t)
      <3>1. job[t].pc = "fetch"
            /\ job'[t] = [job[t] EXCEPT !.pc = "apply", !.answer = bodies,
                                        !.receivedAt = clock, !.todo = job[t].ids]
        BY <2>2 DEF Respond, TypeOK
      <3>2. /\ job'[t].pc = "apply" /\ job'[t].todo = job[t].ids
            /\ job'[t].revision = job[t].revision /\ job'[t].epochs = job[t].epochs
        BY <1>1, <3>1 DEF Job
      <3> QED  BY <1>4, <3>1, <3>2 DEF Fresh, Current
    <2>3. ASSUME NEW e \in Event, ReadLayout(t, e)
          PROVE  Fresh(t)' = Fresh(t)
      <3>1. job[t].pc = "apply" /\ job'[t] = [job[t] EXCEPT !.current = e, !.view = layout]
        BY <2>3 DEF ReadLayout, TypeOK
      <3>2. /\ job'[t].pc = "apply" /\ job'[t].todo = job[t].todo
            /\ job'[t].revision = job[t].revision /\ job'[t].epochs = job[t].epochs
        BY <1>1, <3>1 DEF Job
      <3> QED  BY <1>4, <3>1, <3>2 DEF Fresh, Current
    <2>4. ASSUME RefuseSnapshot(t)
          PROVE  Fresh(t)' = Fresh(t)
      <3>1. /\ job[t].pc = "apply" /\ ~Current(t, job[t].current)
            /\ job'[t] = [job[t] EXCEPT !.current = 0, !.view = NoLayouts,
                                        !.todo = job[t].todo \ {job[t].current}]
        BY <2>4 DEF RefuseSnapshot, Applying, Accepted, Current, Applied, TypeOK
      <3>2. /\ job'[t].pc = "apply" /\ job'[t].todo = job[t].todo \ {job[t].current}
            /\ job'[t].revision = job[t].revision /\ job'[t].epochs = job[t].epochs
        BY <1>1, <3>1 DEF Job
      <3> QED  BY <1>4, <3>1, <3>2 DEF Fresh, Current
    <2>5. ASSUME Finish(t)
          PROVE  Fresh(t)' = Fresh(t)
      <3>1. job[t].pc = "apply" /\ job[t].todo = {} /\ job'[t] = IdleJob
        BY <2>5 DEF Finish, TypeOK
      <3>2. job'[t].pc = "idle"
        BY <3>1 DEF IdleJob
      <3> QED  BY <3>1, <3>2 DEF Fresh
    <2> QED  BY <2>1, <2>2, <2>3, <2>4, <2>5
  <1> QED  BY <1>2, <1>3, <1>5, Stutters

\* The feed's thread taking an update in hand, or dropping a stale one.
LEMMA FeederStep ==
    ASSUME UNCHANGED <<book, versions, invalid, fence, job>>
    PROVE  UNCHANGED Promise!books
  <1>1. Shown' = Shown
    BY ShownSame
  <1>2. Counting' = Counting
    BY DEF fence, Counting, Fresh, Current
  <1> QED  BY <1>1, <1>2 DEF Promise!books, Shown, Counting, versions

\* Every step of the cache is a step of Books or changes nothing of it.
LEMMA StepKeepsPromise ==
    ASSUME TypeOK, TypeOK', FenceInv, [Next]_vars
    PROVE  [Promise!BooksNext]_(Promise!books)
  <1>1. CASE ApplyUpdate
    BY <1>1, CommitIsWrite DEF Promise!BooksNext
  <1>2. ASSUME NEW S \in SUBSET Event, Invalidate(S)
        PROVE  Promise!BooksNext
    BY <1>2, InvalidateIsInvalidate DEF Promise!BooksNext
  <1>3. ASSUME NEW e \in Event, ClearEvent(e)
        PROVE  Promise!BooksNext
    BY <1>3, ClearIsForget DEF Promise!BooksNext
  <1>4. ASSUME NEW t \in Thread, NEW S \in SUBSET Event, BeginReconcile(t, S)
        PROVE  Promise!BooksNext
    BY <1>4, BeginIsRequest DEF Promise!BooksNext
  <1>5. ASSUME NEW t \in Thread, ApplyAuthoritative(t)
        PROVE  Promise!BooksNext
    BY <1>5, ApplyIsAccept DEF Promise!BooksNext
  <1>6. ASSUME NEW t \in Thread, Fail(t)
        PROVE  Promise!BooksNext
    BY <1>6, FailIsGiveUp DEF Promise!BooksNext
  <1>7. ASSUME UNCHANGED vars \/ DropStale \/ \E u \in Updates : Receive(u)
        PROVE  UNCHANGED Promise!books
    <2>1. UNCHANGED <<book, versions, invalid, fence, job>>
      BY <1>7 DEF vars, DropStale, Receive
    <2> QED  BY <2>1, FeederStep
  <1>8. ASSUME NEW t \in Thread,
               \/ \E ids \in SUBSET Event : Seed(t, ids)
               \/ \E bodies \in Answers(job[t].ids) : Respond(t, bodies)
               \/ \E e \in Event : ReadLayout(t, e)
               \/ RefuseSnapshot(t)
               \/ Finish(t)
        PROVE  UNCHANGED Promise!books
    BY <1>8, OwnStep
  <1> QED  BY <1>1, <1>2, <1>3, <1>4, <1>5, <1>6, <1>7, <1>8 DEF Next

\* Whatever the feed sends and whoever requests, invalidates, clears or seeds,
\* the cache does what Books promises.
THEOREM PromiseKept == Spec => KeepsPromise
  <1>1. Init => Promise!BooksInit
    BY StartsAsPromised
  <1>2. TypeOK /\ TypeOK' /\ FenceInv /\ [Next]_vars => [Promise!BooksNext]_(Promise!books)
    BY StepKeepsPromise
  <1> QED
    BY <1>1, <1>2, TypeCorrect, FenceHolds, PTL DEF Spec, KeepsPromise, Promise!BooksSpec
=============================================================================
