-------------------------- MODULE MarketCacheReplay --------------------------
(***************************************************************************)
(* What the journal of feed writes is for, for every choice of events,     *)
(* selections, markets, threads, updates and answers: a REST answer does   *)
(* not undo what the feed wrote after it was asked for, and if the feed    *)
(* wrote nothing the book is the answer.                                   *)
(***************************************************************************)
EXTENDS MarketCacheProofs

(* The invariant.                                                          *)

\* No time in the journal is later than b.
NotAfter(b) ==
    /\ \A k \in Key : /\ resetAt[k] <= b /\ removedAt[k] <= b
                      /\ \A p \in Price : change[k][p].at <= b /\ wroteAt[k][p] <= b
    /\ \A e \in Event : replacedAt[e] <= b

\* The update in hand is newer than everything in the journal, a request is not ahead
\* of the clock.
TimesInv ==
    /\ NotAfter(clock)
    /\ \A f \in feeder : 0 < f.at /\ f.at <= clock /\ NotAfter(f.at - 1)
    /\ \A t \in Thread : job[t].started <= clock

\* What the journal says of a price or of its selection, the feed wrote at that time or
\* before its last write.
Covered ==
    \A k \in Key, p \in Price :
        /\ change[k][p].at <= wroteAt[k][p]
        /\ resetAt[k] <= wroteAt[k][p] /\ removedAt[k] <= wroteAt[k][p]
        /\ replacedAt[KeyEvent[k]] <= wroteAt[k][p]

\* The changes of a selection go with the selection.
Forgotten == \A k \in Key \ known, p \in Price : change[k][p] = NoChange

\* A layout has selections where some payload had them.
Places(m, s, k) == \E b \in Payloads : \E l \in b.sent : LineMarket[l] = m /\ b.slots[l][s] = k
FromPayloads(lay) == \A m \in Market, s \in Slot : lay[m][s] = NoKey \/ Places(m, s, lay[m][s])

PayloadsInv ==
    /\ FromPayloads(layout)
    /\ \A f \in feeder : FromPayloads(f.view) /\ f.update \in Updates
    /\ \A t \in Thread : /\ FromPayloads(job[t].view)
                         /\ \A e \in Event : job[t].answer[e] \in Bodies[e] \cup {NoBody}

\* The events that the request of thread t has still to install.
Due(t) == IF job[t].pc = "fetch" THEN job[t].ids ELSE job[t].todo

\* Of two requests for an event one was overtaken.
OneFresh ==
    \A t, x \in Thread : t # x /\ InFlight(t) /\ InFlight(x) =>
        \A e \in job[t].ids \cap job[x].ids : e \in overtaken[t] \/ e \in overtaken[x]

\* The last change of a price, at time c, is replayed on an answer asked for at time s.
Replays(s, c, rs, rm) == c > s /\ c >= rs /\ (rm > s => c >= rm)

\* When a selection last left its event after s, 0 if it did not.
LeftAt(s, rm, rp) ==
    IF rp > s /\ (rm > s => rp > rm) THEN rp ELSE IF rm > s THEN rm ELSE 0

\* The journal brings the selection back after it left.
Restores(s, ch, rs, rm, rp) ==
    \/ rs > s /\ rs >= LeftAt(s, rm, rp)
    \/ \E q \in Price : ch[q].at > s /\ ch[q].at >= LeftAt(s, rm, rp)

\* The journal of one selection (changes ch, writes w, reset rs, removal rm, replacement
\* of the event rp) tells the depth d of a price written after s without the answer.
Told(s, p, d, ch, w, rs, rm, rp) ==
    w[p] > s =>
        /\ IF Replays(s, ch[p].at, rs, rm) THEN d[p] = ch[p].qty
           ELSE (rp > s \/ rs > s) /\ d[p] = 0
        /\ d[p] # 0 => Restores(s, ch, rs, rm, rp)

\* It does, for every request that still counts.
ToldInv ==
    \A t \in Thread : InFlight(t) =>
        \A e \in Due(t) \ overtaken[t] : \A k \in KeysOf(e), p \in Price :
            Told(job[t].started, p, depth[k], change[k], wroteAt[k],
                 resetAt[k], removedAt[k], replacedAt[e])

-----------------------------------------------------------------------------
(* Times.                                                                  *)

\* Entries of the journal are natural numbers.
LEMMA JournalType ==
    ASSUME TypeOK
    PROVE  /\ clock \in Nat
           /\ \A k \in Key : /\ resetAt[k] \in Nat /\ removedAt[k] \in Nat
                             /\ depth[k] \in [Price -> Nat]
                             /\ \A p \in Price : /\ change[k][p] \in [at : Nat, qty : Nat]
                                                 /\ change[k][p].at \in Nat
                                                 /\ wroteAt[k][p] \in Nat
           /\ \A e \in Event : replacedAt[e] \in Nat
           /\ \A k \in Key : KeyEvent[k] \in Event
BY EventOfKey DEF TypeOK

\* What the commit of an update does to one selection, as the feed has it: writes some of
\* its prices, resets it, or takes it out of its event.
CommitWrites(f, k) ==
    /\ UNCHANGED <<resetAt[k], removedAt[k], replacedAt[KeyEvent[k]]>>
    /\ \A p \in Price :
          \/ UNCHANGED <<depth[k][p], change[k][p], wroteAt[k][p]>>
          \/ depth'[k][p] = change'[k][p].qty /\ change'[k][p].at = f.at /\ wroteAt'[k][p] = f.at

CommitResets(f, k) ==
    /\ resetAt'[k] = f.at /\ removedAt'[k] = removedAt[k]
    /\ replacedAt'[KeyEvent[k]] \in {replacedAt[KeyEvent[k]], f.at}
    /\ \A p \in Price :
          /\ wroteAt'[k][p] = f.at
          /\ \/ depth'[k][p] = change'[k][p].qty /\ change'[k][p].at = f.at
             \/ depth'[k][p] = 0 /\ change'[k][p] = NoChange

CommitRemoves(f, k) ==
    /\ resetAt'[k] = resetAt[k] /\ removedAt'[k] \in {removedAt[k], f.at}
    /\ replacedAt'[KeyEvent[k]] = f.at
    /\ \A p \in Price : wroteAt'[k][p] = f.at /\ change'[k][p] = NoChange /\ depth'[k][p] = 0

\* A commit does one of the three to every selection.
LEMMA CommitCases ==
    ASSUME TypeOK, Forgotten, LiveKeysKnown, NEW f \in feeder, Commit(f), NEW k \in Key
    PROVE  CommitWrites(f, k) \/ CommitResets(f, k) \/ CommitRemoves(f, k)
<1> DEFINE u == f.update
           g == Resolve(u.body, f.view, u.replace)
           touched == Touched(g)
           resets == {i \in touched : g[i].kind = "reset"}
           gone == IF u.replace THEN (known \cap KeysOf(u.event)) \ touched ELSE {}
           e == KeyEvent[k]
<1>1. u.body \in Body /\ u.event \in Event /\ f.at \in Nat /\ e \in Event
  BY EventOfKey DEF TypeOK, InHand, Update
<1>2. g[k] \in Group
  BY <1>1, ResolveType
<1>3. /\ depth'[k] = IF k \in touched THEN Merged(depth[k], g[k])
                     ELSE IF k \in gone THEN Empty ELSE depth[k]
      /\ resetAt'[k] = IF k \in resets THEN f.at ELSE resetAt[k]
      /\ removedAt'[k] = IF k \in gone THEN f.at ELSE removedAt[k]
  BY SMTT(30) DEF Commit
<1>4. \A p \in Price :
          /\ change'[k][p] = IF k \in touched /\ g[k].op[p] # Keep
                             THEN [at |-> f.at, qty |-> g[k].op[p]]
                             ELSE IF k \in gone \cup resets THEN NoChange ELSE change[k][p]
          /\ wroteAt'[k][p] = IF \/ k \in resets \/ (u.replace /\ k \in KeysOf(u.event))
                                 \/ k \in touched /\ g[k].op[p] # Keep
                              THEN f.at ELSE wroteAt[k][p]
  BY DEF Commit
<1>5. replacedAt'[e] = IF u.replace /\ u.event = e THEN f.at ELSE replacedAt[e]
  <2>1. replacedAt' = IF u.replace THEN [replacedAt EXCEPT ![u.event] = f.at] ELSE replacedAt
    BY DEF Commit
  <2> QED
    BY <1>1, <2>1 DEF TypeOK
<1>6. /\ k \in touched <=> g[k].kind # "none"
      /\ k \in resets <=> g[k].kind = "reset"
      /\ k \in KeysOf(u.event) <=> e = u.event
      /\ u.replace => g[k].kind # "merge"
      /\ g[k].kind \in {"none", "merge", "reset"}
  <2>1. g[k].kind \in {"none", "merge", "reset"}
    BY <1>2 DEF Group, Untouched
  <2>2. k \in touched <=> g[k].kind # "none"
    BY DEF Touched
  <2>3. k \in KeysOf(u.event) <=> e = u.event
    BY DEF KeysOf
  <2>4. u.replace => g[k].kind # "merge"
    BY DEF Resolve, Emptied
  <2>5. k \in resets <=> k \in touched /\ g[k].kind = "reset"
    OBVIOUS
  <2> HIDE DEF g, touched, resets
  <2> QED
    BY <2>1, <2>2, <2>3, <2>4, <2>5
<1>7. \A p \in Price : Merged(depth[k], g[k])[p] =
          IF g[k].op[p] # Keep THEN g[k].op[p]
          ELSE IF g[k].kind = "reset" THEN 0 ELSE depth[k][p]
  BY DEF Merged
<1>8. k \in gone <=> u.replace /\ k \in known /\ e = u.event /\ k \notin touched
  BY <1>6
<1> HIDE DEF gone, resets, touched, g, u, e
<1>9. CASE g[k].kind = "reset"
  <2>1. ASSUME NEW p \in Price
        PROVE  /\ wroteAt'[k][p] = f.at
               /\ \/ depth'[k][p] = change'[k][p].qty /\ change'[k][p].at = f.at
                  \/ depth'[k][p] = 0 /\ change'[k][p] = NoChange
    <3>1. k \in touched /\ k \in resets
      BY <1>6, <1>9
    <3>2. wroteAt'[k][p] = f.at
      BY <1>4, <3>1
    <3>3. depth'[k][p] = IF g[k].op[p] # Keep THEN g[k].op[p] ELSE 0
      BY <1>3, <1>7, <1>9, <3>1
    <3>4. change'[k][p] = IF g[k].op[p] # Keep THEN [at |-> f.at, qty |-> g[k].op[p]]
                          ELSE NoChange
      BY <1>4, <3>1
    <3> QED
      BY <3>2, <3>3, <3>4
  <2>2. /\ resetAt'[k] = f.at /\ removedAt'[k] = removedAt[k]
        /\ replacedAt'[e] \in {replacedAt[e], f.at}
    BY <1>3, <1>5, <1>6, <1>8, <1>9
  <2> QED
    BY <2>1, <2>2 DEF CommitResets, e
<1>10. CASE g[k].kind = "merge"
  <2>1. ~u.replace /\ k \in touched /\ k \notin resets /\ k \notin gone
    BY <1>6, <1>8, <1>10
  <2>2. ASSUME NEW p \in Price
        PROVE  \/ UNCHANGED <<depth[k][p], change[k][p], wroteAt[k][p]>>
               \/ /\ depth'[k][p] = change'[k][p].qty
                  /\ change'[k][p].at = f.at /\ wroteAt'[k][p] = f.at
    <3>1. depth'[k][p] = IF g[k].op[p] # Keep THEN g[k].op[p] ELSE depth[k][p]
      BY <1>3, <1>7, <1>10, <2>1
    <3>2. change'[k][p] = IF g[k].op[p] # Keep THEN [at |-> f.at, qty |-> g[k].op[p]]
                          ELSE change[k][p]
      BY <1>4, <2>1
    <3>3. wroteAt'[k][p] = IF g[k].op[p] # Keep THEN f.at ELSE wroteAt[k][p]
      BY <1>4, <2>1
    <3> QED
      BY <3>1, <3>2, <3>3
  <2>3. UNCHANGED <<resetAt[k], removedAt[k], replacedAt[e]>>
    BY <1>3, <1>5, <2>1
  <2> QED
    BY <2>2, <2>3 DEF CommitWrites, e
<1>11. CASE g[k].kind = "none" /\ u.replace /\ e = u.event
  <2>1. k \notin touched /\ k \notin resets
    BY <1>6, <1>11
  <2>2. \A p \in Price : depth'[k][p] = 0 /\ change'[k][p] = NoChange
    <3>1. CASE k \in known
      BY <1>3, <1>4, <1>8, <1>11, <2>1, <3>1 DEF Empty
    <3>2. CASE k \notin known
      BY <1>3, <1>4, <1>8, <1>11, <2>1, <3>2 DEF Empty, Forgotten, LiveKeysKnown
    <3> QED
      BY <3>1, <3>2
  <2>3. \A p \in Price : wroteAt'[k][p] = f.at
    BY <1>4, <1>6, <1>11
  <2>4. /\ resetAt'[k] = resetAt[k] /\ removedAt'[k] \in {removedAt[k], f.at}
        /\ replacedAt'[e] = f.at
    BY <1>3, <1>5, <1>11, <2>1
  <2> QED
    BY <2>2, <2>3, <2>4 DEF CommitRemoves, e
<1>12. CASE g[k].kind = "none" /\ ~(u.replace /\ e = u.event)
  <2>1. k \notin touched /\ k \notin resets /\ k \notin gone
        /\ ~(u.replace /\ k \in KeysOf(u.event))
    BY <1>6, <1>8, <1>12
  <2>2. /\ UNCHANGED <<resetAt[k], removedAt[k], replacedAt[e]>>
        /\ \A p \in Price : UNCHANGED <<depth[k][p], change[k][p], wroteAt[k][p]>>
    BY <1>3, <1>4, <1>5, <1>12, <2>1
  <2> QED
    BY <2>2 DEF CommitWrites, e
<1> QED
  BY <1>6, <1>9, <1>10, <1>11, <1>12

\* A commit writes no entry but at the time of its update.
LEMMA CommitTimes ==
    ASSUME TypeOK, Forgotten, LiveKeysKnown, NEW f \in feeder, Commit(f)
    PROVE  /\ \A k \in Key :
                 /\ resetAt'[k] \in {resetAt[k], f.at} /\ removedAt'[k] \in {removedAt[k], f.at}
                 /\ \A p \in Price : /\ change'[k][p].at \in {change[k][p].at, f.at, 0}
                                     /\ wroteAt'[k][p] \in {wroteAt[k][p], f.at}
           /\ \A e \in Event : replacedAt'[e] \in {replacedAt[e], f.at}
<1>1. ASSUME NEW k \in Key
      PROVE  /\ resetAt'[k] \in {resetAt[k], f.at} /\ removedAt'[k] \in {removedAt[k], f.at}
             /\ \A p \in Price : /\ change'[k][p].at \in {change[k][p].at, f.at, 0}
                                 /\ wroteAt'[k][p] \in {wroteAt[k][p], f.at}
  BY CommitCases DEF CommitWrites, CommitResets, CommitRemoves, NoChange
<1>2. \/ replacedAt' = replacedAt
      \/ replacedAt' = [replacedAt EXCEPT ![f.update.event] = f.at]
  BY DEF Commit
<1>3. \A e \in Event : replacedAt'[e] \in {replacedAt[e], f.at}
  BY <1>2 DEF TypeOK
<1> QED
  BY <1>1, <1>3

\* The rest of the program only takes entries out of the journal.
LEMMA OtherTimes ==
    ASSUME TypeOK, [Next]_vars, ~ApplyUpdate
    PROVE  /\ wroteAt' = wroteAt
           /\ \A k \in Key : /\ resetAt'[k] \in {resetAt[k], 0}
                             /\ removedAt'[k] \in {removedAt[k], 0}
                             /\ \A p \in Price : change'[k][p] \in {change[k][p], NoChange}
           /\ \A e \in Event : replacedAt'[e] \in {replacedAt[e], 0}
<1>1. CASE UNCHANGED journal
  BY <1>1 DEF journal
<1>2. ASSUME NEW x, ClearEvent(x)
      PROVE  /\ wroteAt' = wroteAt
             /\ \A k \in Key : /\ resetAt'[k] \in {resetAt[k], 0}
                               /\ removedAt'[k] \in {removedAt[k], 0}
                               /\ change'[k] \in {change[k], [p \in Price |-> NoChange]}
             /\ replacedAt' = [replacedAt EXCEPT ![x] = 0]
  BY <1>2 DEF ClearEvent
<1>3. ASSUME NEW t \in Thread, ApplyAuthoritative(t)
      PROVE  /\ wroteAt' = wroteAt
             /\ \A k \in Key : /\ resetAt'[k] \in {resetAt[k], 0}
                               /\ removedAt'[k] \in {removedAt[k], 0}
                               /\ change'[k] \in {change[k], [p \in Price |-> NoChange]}
             /\ replacedAt' = [replacedAt EXCEPT ![job[t].current] = 0]
  <2> DEFINE e == job[t].current
  <2>1. /\ wroteAt' = wroteAt
        /\ change' = [k \in Key |-> IF KeyEvent[k] = e
                                    THEN [p \in Price |-> NoChange] ELSE change[k]]
        /\ resetAt' = [k \in Key |-> IF KeyEvent[k] = e THEN 0 ELSE resetAt[k]]
        /\ removedAt' = [k \in Key |-> IF KeyEvent[k] = e THEN 0 ELSE removedAt[k]]
        /\ replacedAt' = [replacedAt EXCEPT ![e] = 0]
    BY SMTT(30), <1>3 DEF ApplyAuthoritative
  <2> HIDE DEF e
  <2> QED
    BY <2>1 DEF e
<1>4. \/ UNCHANGED journal
      \/ \E x : ClearEvent(x)
      \/ \E t \in Thread : ApplyAuthoritative(t)
  BY ZenonT(60) DEF Next, vars, journal, Receive, DropStale, Invalidate, BeginReconcile, Seed,
         Respond, ReadLayout, RefuseSnapshot, Finish, Fail
<1>5. ASSUME NEW x, replacedAt' = [replacedAt EXCEPT ![x] = 0]
      PROVE  \A e \in Event : replacedAt'[e] \in {replacedAt[e], 0}
  BY <1>5 DEF TypeOK
<1>6. \A k \in Key, p \in Price : [q \in Price |-> NoChange][p] = NoChange
  OBVIOUS
<1> QED
  BY <1>1, <1>2, <1>3, <1>4, <1>5, <1>6

\* A step takes the journal no further than its latest entry or the update it commits.
LEMMA NoLater ==
    ASSUME TypeOK, [Next]_vars, Forgotten, LiveKeysKnown, NEW b \in Nat, NEW c \in Nat, b <= c,
           NotAfter(b), ApplyUpdate => \A f \in feeder : f.at <= c
    PROVE  NotAfter(c)'
<1>1. /\ \A k \in Key : /\ resetAt[k] <= c /\ removedAt[k] <= c
                        /\ \A p \in Price : change[k][p].at <= c /\ wroteAt[k][p] <= c
      /\ \A e \in Event : replacedAt[e] <= c
  BY JournalType DEF NotAfter
<1>2. CASE ApplyUpdate
  <2>1. PICK f \in feeder : Commit(f) /\ f.at <= c
    BY <1>2 DEF ApplyUpdate
  <2>2. \A k \in Key :
            /\ resetAt'[k] \in {resetAt[k], f.at} /\ removedAt'[k] \in {removedAt[k], f.at}
            /\ \A p \in Price : /\ change'[k][p].at \in {change[k][p].at, f.at, 0}
                                /\ wroteAt'[k][p] \in {wroteAt[k][p], f.at}
    BY <2>1, CommitTimes
  <2>3. \A e \in Event : replacedAt'[e] \in {replacedAt[e], f.at}
    BY <2>1, CommitTimes
  <2> QED
    BY <1>1, <2>1, <2>2, <2>3 DEF NotAfter
<1>3. CASE ~ApplyUpdate
  BY <1>1, <1>3, OtherTimes DEF NotAfter, NoChange
<1> QED
  BY <1>2, <1>3

\* What a step does to the request of a thread.
Stays(t) ==
    /\ job'[t].pc = job[t].pc /\ job'[t].ids = job[t].ids /\ job'[t].started = job[t].started
    /\ job'[t].answer = job[t].answer /\ job'[t].todo \subseteq job[t].todo
    /\ job'[t].view \in {job[t].view, layout, NoLayouts}

Answered(t) ==
    /\ job[t].pc = "fetch" /\ job'[t].pc = "apply"
    /\ job'[t].ids = job[t].ids /\ job'[t].started = job[t].started
    /\ job'[t].answer \in Answers(job[t].ids) /\ job'[t].todo = job[t].ids
    /\ job'[t].view = job[t].view

Seeds(t) ==
    /\ job'[t].pc = "seed" /\ job'[t].started = job[t].started
    /\ job'[t].answer = job[t].answer /\ job'[t].view = job[t].view

Begins(t) ==
    /\ job'[t].pc = "fetch" /\ job'[t].started = clock
    /\ job'[t].answer = job[t].answer /\ job'[t].view = job[t].view
    /\ UNCHANGED <<book, journal>>
    /\ \A x \in Thread \ {t} : overtaken'[x] = overtaken[x] \cup job'[t].ids

\* It does one of these to each thread.
LEMMA JobCases ==
    ASSUME TypeOK, [Next]_vars, NEW t \in Thread
    PROVE  Stays(t) \/ Answered(t) \/ Seeds(t) \/ Begins(t) \/ job'[t] = IdleJob
<1>1. job[t] \in Job
  BY DEF TypeOK
<1>2. CASE job' = job
  BY <1>2 DEF Stays
<1>3. ASSUME NEW x \in Thread, NEW j, job' = [job EXCEPT ![x] = j]
      PROVE  job'[t] = IF t = x THEN j ELSE job[t]
  BY <1>3 DEF TypeOK
<1>4. ASSUME NEW x \in Thread, NEW ids, BeginReconcile(x, ids)
      PROVE  Stays(t) \/ Begins(t)
  <2>1. job'[t] = IF t = x THEN [job[t] EXCEPT !.pc = "fetch", !.ids = ids,
                                    !.revision = revision + 1, !.started = clock, !.epochs = epoch]
                  ELSE job[t]
    BY <1>4 DEF BeginReconcile, TypeOK
  <2>2. UNCHANGED <<book, journal>>
    BY <1>4 DEF BeginReconcile
  <2>3. overtaken' = [s \in Thread |-> IF s = x THEN {} ELSE overtaken[s] \cup ids]
    BY <1>4 DEF BeginReconcile
  <2>4. CASE t = x
    BY <1>1, <2>1, <2>2, <2>3, <2>4 DEF Begins, Job
  <2>5. CASE t # x
    BY <2>1, <2>5 DEF Stays
  <2> QED
    BY <2>4, <2>5
<1>5. ASSUME NEW x \in Thread, NEW ids, Seed(x, ids)
      PROVE  Stays(t) \/ Seeds(t)
  <2>1. job'[t] = IF t = x THEN [job[t] EXCEPT !.pc = "seed", !.seed = ids \ seeded] ELSE job[t]
    BY <1>5 DEF Seed, TypeOK
  <2> QED
    BY <1>1, <2>1 DEF Stays, Seeds, Job
<1>6. ASSUME NEW x \in Thread, NEW bodies \in Answers(job[x].ids), Respond(x, bodies)
      PROVE  Stays(t) \/ Answered(t)
  <2>1. /\ job[x].pc = "fetch"
        /\ job'[t] = IF t = x THEN [job[t] EXCEPT !.pc = "apply", !.answer = bodies,
                                        !.receivedAt = clock, !.todo = job[t].ids]
                     ELSE job[t]
    BY <1>6 DEF Respond, TypeOK
  <2> QED
    BY <1>1, <1>6, <2>1 DEF Stays, Answered, Job
<1>7. ASSUME NEW x \in Thread, NEW e \in Event, ReadLayout(x, e)
      PROVE  Stays(t)
  <2>1. job'[t] = IF t = x THEN [job[t] EXCEPT !.current = e, !.view = layout] ELSE job[t]
    BY <1>7 DEF ReadLayout, TypeOK
  <2> QED
    BY <1>1, <2>1 DEF Stays, Job
<1>8. ASSUME NEW x \in Thread, RefuseSnapshot(x) \/ ApplyAuthoritative(x)
      PROVE  Stays(t)
  <2>1. job' = Applied(x)
    BY <1>8 DEF RefuseSnapshot, ApplyAuthoritative
  <2>2. job'[t] = IF t = x THEN [job[t] EXCEPT !.current = 0, !.view = NoLayouts,
                                     !.todo = job[t].todo \ {job[t].current}]
                  ELSE job[t]
    BY <2>1 DEF Applied, TypeOK
  <2> QED
    BY <1>1, <2>2 DEF Stays, Job
<1>9. ASSUME NEW x \in Thread, Finish(x) \/ Fail(x)
      PROVE  Stays(t) \/ job'[t] = IdleJob
  <2>1. job'[t] = IF t = x THEN IdleJob ELSE job[t]
    BY <1>9 DEF Finish, Fail, TypeOK
  <2> QED
    BY <2>1 DEF Stays
<1>10. \/ job' = job
       \/ \E x \in Thread :
             \/ \E ids \in SUBSET Event : BeginReconcile(x, ids) \/ Seed(x, ids)
             \/ \E bodies \in Answers(job[x].ids) : Respond(x, bodies)
             \/ \E e \in Event : ReadLayout(x, e)
             \/ RefuseSnapshot(x) \/ ApplyAuthoritative(x) \/ Finish(x) \/ Fail(x)
  BY DEF Next, vars, Receive, DropStale, ApplyUpdate, Invalidate, ClearEvent
<1> QED
  BY <1>2, <1>4, <1>5, <1>6, <1>7, <1>8, <1>9, <1>10

\* Every action keeps the order of times.
LEMMA TimesNext ==
    ASSUME TypeOK, [Next]_vars, Forgotten, LiveKeysKnown, TimesInv
    PROVE  TimesInv'
<1>1. /\ clock \in Nat /\ \A f \in feeder : f.at \in Nat /\ f.at - 1 \in Nat /\ f.at <= clock
      /\ \A t \in Thread : job[t].started \in Nat
  BY DEF TypeOK, InHand, TimesInv, Job
<1>2. /\ clock' \in {clock, clock + 1}
      /\ \/ feeder' = feeder /\ ~ApplyUpdate
         \/ feeder' = {}
         \/ /\ clock' = clock + 1 /\ \E f : feeder' = {f} /\ f.at = clock + 1
            /\ UNCHANGED journal
  <2>1. ASSUME NEW u, Receive(u)
        PROVE  clock' = clock + 1 /\ (\E f : feeder' = {f} /\ f.at = clock + 1)
               /\ UNCHANGED journal
    <3> DEFINE f == [update |-> u, at |-> clock + 1, view |-> layout]
    <3>1. feeder' = {f} /\ f.at = clock + 1
      BY <2>1 DEF Receive
    <3> HIDE DEF f
    <3> QED
      BY <2>1, <3>1 DEF Receive
  <2>2. CASE ApplyUpdate \/ DropStale
    BY SMTT(30), <2>2 DEF ApplyUpdate, DropStale
  <2>3. CASE ~ApplyUpdate /\ ~DropStale /\ ~(\E u \in Updates : Receive(u))
    BY ZenonT(60), <2>3 DEF Next, vars, Invalidate, ClearEvent, BeginReconcile, Seed, Respond,
                ReadLayout, RefuseSnapshot, ApplyAuthoritative, Finish, Fail
  <2> QED
    BY <2>1, <2>2, <2>3
<1>3. NotAfter(clock)'
  <2>1. PICK b \in Nat, c \in Nat : b = clock /\ c = clock' /\ b <= c
    BY <1>1, <1>2
  <2>2. NotAfter(b)
    BY <2>1 DEF TimesInv
  <2>3. ApplyUpdate => \A f \in feeder : f.at <= c
    BY <1>1, <2>1
  <2>4. NotAfter(c)'
    BY <2>1, <2>2, <2>3, NoLater
  <2> QED
    BY <2>1, <2>4 DEF NotAfter
<1>4. ASSUME NEW f \in feeder'
      PROVE  0 < f.at /\ f.at <= clock' /\ NotAfter(f.at - 1)'
  <2>1. CASE f \in feeder /\ ~ApplyUpdate
    <3>1. 0 < f.at /\ f.at <= clock /\ NotAfter(f.at - 1)
      BY <2>1 DEF TimesInv
    <3>2. NotAfter(f.at - 1)'
      BY <1>1, <2>1, <3>1, NoLater
    <3> QED
      BY <1>1, <1>2, <2>1, <3>1, <3>2
  <2>2. CASE f.at = clock + 1 /\ clock' = clock + 1 /\ UNCHANGED journal
    <3>1. f.at - 1 = clock
      BY <1>1, <2>2
    <3>2. NotAfter(f.at - 1)
      BY <3>1 DEF TimesInv
    <3> QED
      BY <1>1, <2>2, <3>2 DEF NotAfter, journal
  <2> QED
    BY <1>2, <1>4, <2>1, <2>2
<1>5. ASSUME NEW t \in Thread
      PROVE  job'[t].started <= clock'
  <2>1. job'[t].started \in {job[t].started, clock, 0}
    BY JobCases DEF Stays, Answered, Seeds, Begins, IdleJob
  <2> QED
    BY <1>1, <1>2, <2>1 DEF TimesInv
<1> QED
  BY <1>3, <1>4, <1>5 DEF TimesInv


\* The update in hand is newer than every entry of the journal.
LEMMA InHandIsNewest ==
    ASSUME TypeOK, TimesInv, NEW f \in feeder
    PROVE  /\ f.at \in Nat
           /\ \A k \in Key : /\ resetAt[k] < f.at /\ removedAt[k] < f.at
                             /\ replacedAt[KeyEvent[k]] < f.at
                             /\ \A p \in Price : change[k][p].at < f.at /\ wroteAt[k][p] < f.at
<1>1. f.at \in Nat /\ NotAfter(f.at - 1)
  BY DEF TypeOK, InHand, TimesInv
<1> QED
  BY <1>1, JournalType DEF NotAfter

\* Every action writes to the journal no more than the feed wrote.
LEMMA CoveredNext ==
    ASSUME TypeOK, [Next]_vars, Forgotten, LiveKeysKnown, TimesInv, Covered
    PROVE  Covered'
<1> SUFFICES ASSUME NEW k \in Key, NEW p \in Price
             PROVE  /\ change'[k][p].at <= wroteAt'[k][p]
                    /\ resetAt'[k] <= wroteAt'[k][p] /\ removedAt'[k] <= wroteAt'[k][p]
                    /\ replacedAt'[KeyEvent[k]] <= wroteAt'[k][p]
  BY DEF Covered
<1> DEFINE e == KeyEvent[k]
<1>1. /\ change[k][p].at <= wroteAt[k][p] /\ resetAt[k] <= wroteAt[k][p]
      /\ removedAt[k] <= wroteAt[k][p] /\ replacedAt[e] <= wroteAt[k][p]
  BY DEF Covered
<1>2. /\ change[k][p].at \in Nat /\ wroteAt[k][p] \in Nat /\ resetAt[k] \in Nat
      /\ removedAt[k] \in Nat /\ replacedAt[e] \in Nat /\ e \in Event
  BY JournalType
<1>3. ASSUME NEW f \in feeder, Commit(f)
      PROVE  /\ change'[k][p].at <= wroteAt'[k][p]
             /\ resetAt'[k] <= wroteAt'[k][p] /\ removedAt'[k] <= wroteAt'[k][p]
             /\ replacedAt'[e] <= wroteAt'[k][p]
  <2>1. /\ f.at \in Nat /\ resetAt[k] < f.at /\ removedAt[k] < f.at /\ replacedAt[e] < f.at
        /\ change[k][p].at < f.at /\ wroteAt[k][p] < f.at
    BY InHandIsNewest
  <2>2. CASE CommitWrites(f, k)
    BY <1>1, <1>2, <2>1, <2>2 DEF CommitWrites
  <2>3. CASE CommitResets(f, k)
    BY <1>2, <2>1, <2>3 DEF CommitResets, NoChange
  <2>4. CASE CommitRemoves(f, k)
    BY <1>2, <2>1, <2>4 DEF CommitRemoves, NoChange
  <2> QED
    BY <1>3, <2>2, <2>3, <2>4, CommitCases
<1>4. CASE ~ApplyUpdate
  <2>1. /\ wroteAt' = wroteAt /\ resetAt'[k] \in {resetAt[k], 0}
        /\ removedAt'[k] \in {removedAt[k], 0} /\ replacedAt'[e] \in {replacedAt[e], 0}
        /\ change'[k][p] \in {change[k][p], NoChange}
    BY <1>2, <1>4, OtherTimes
  <2> QED
    BY <1>1, <1>2, <2>1 DEF NoChange
<1> QED
  BY <1>3, <1>4 DEF ApplyUpdate

-----------------------------------------------------------------------------
(* Selections the cache does not know.                                     *)

\* Every action that makes the cache forget a selection forgets its changes.
LEMMA ForgottenNext ==
    ASSUME TypeOK, [Next]_vars, Forgotten
    PROVE  Forgotten'
<1>1. CASE known' = known /\ change' = change
  BY <1>1 DEF Forgotten
<1>2. ASSUME NEW f \in feeder, Commit(f)
      PROVE  Forgotten'
  <2> DEFINE u == f.update
             g == Resolve(u.body, f.view, u.replace)
             touched == Touched(g)
             resets == {k \in touched : g[k].kind = "reset"}
             gone == IF u.replace THEN (known \cap KeysOf(u.event)) \ touched ELSE {}
  <2>1. known' = (known \ gone) \cup touched
    BY <1>2 DEF Commit
  <2>2. change' = [k \in Key |-> [p \in Price |->
               IF k \in touched /\ g[k].op[p] # Keep
               THEN [at |-> f.at, qty |-> g[k].op[p]]
               ELSE IF k \in gone \cup resets THEN NoChange ELSE change[k][p]]]
    BY <1>2 DEF Commit
  <2> HIDE DEF touched, resets, gone, g, u
  <2>3. ASSUME NEW k \in Key \ known', NEW p \in Price
        PROVE  change'[k][p] = NoChange
    <3>1. k \notin touched /\ (k \in gone \/ k \notin known)
      BY <2>1, <2>3
    <3>2. k \notin known => change[k][p] = NoChange
      BY DEF Forgotten
    <3> QED
      BY <2>2, <3>1, <3>2
  <2> QED
    BY <2>3 DEF Forgotten
<1>3. ASSUME NEW x,
             change' = [k \in Key |-> IF KeyEvent[k] = x
                                      THEN [p \in Price |-> NoChange] ELSE change[k]],
             \A k \in known : KeyEvent[k] # x => k \in known'
      PROVE  Forgotten'
  BY <1>3 DEF Forgotten
<1>4. ASSUME NEW x, ClearEvent(x)
      PROVE  Forgotten'
  BY <1>3, <1>4 DEF ClearEvent, KeysOf
<1>5. ASSUME NEW t \in Thread, ApplyAuthoritative(t)
      PROVE  Forgotten'
  <2> DEFINE j == job[t]
             e == j.current
             rest == Resolve(j.answer[e], j.view, TRUE)
             kept == Kept(e, j.started, rest)
             candidates == (known \cap KeysOf(e))
                           \cup NewResets(e, j.started) \cup NewRemovals(e, j.started)
                           \cup {k \in Key : NewChanges(e, j.started, k) # {}}
             dropped == candidates \ kept
  <2>1. known' = (known \ dropped) \cup kept
    BY <1>5 DEF ApplyAuthoritative
  <2>2. change' = [k \in Key |-> IF KeyEvent[k] = e
                                 THEN [p \in Price |-> NoChange] ELSE change[k]]
    BY <1>5 DEF ApplyAuthoritative
  <2>3. \A k \in Key : KeyEvent[k] # e => k \notin candidates
    BY DEF KeysOf, NewResets, NewRemovals, NewChanges
  <2>4. \A k \in known : k \in Key
    BY DEF TypeOK
  <2> HIDE DEF candidates, kept, rest, e, j
  <2>5. \A k \in known : KeyEvent[k] # e => k \in known'
    BY SMTT(30), <2>1, <2>3, <2>4
  <2> QED
    BY <1>3, <2>2, <2>5
<1>6. \/ known' = known /\ change' = change
      \/ ApplyUpdate
      \/ \E x \in Event : ClearEvent(x)
      \/ \E t \in Thread : ApplyAuthoritative(t)
  BY DEF Next, vars, book, journal, Receive, DropStale, Invalidate, BeginReconcile, Seed,
         Respond, ReadLayout, RefuseSnapshot, Finish, Fail
<1> QED
  BY <1>1, <1>2, <1>4, <1>5, <1>6 DEF ApplyUpdate

-----------------------------------------------------------------------------
(* Layouts and answers.                                                    *)

\* The payloads of updates and answers are payloads.
LEMMA PayloadType ==
    /\ \A u \in Updates : u.body \in Payloads
    /\ \A e \in Event : \A b \in Bodies[e] : b \in Payloads
    /\ \A b \in Payloads : b \in Body
BY PayloadsAssumption DEF PayloadsAssumption, Payloads, Update

\* Where nothing is known no selection is placed.
LEMMA NoLayoutsFrom == FromPayloads(NoLayouts)
BY DEF FromPayloads, NoLayouts, NoLayout

\* Forgetting an event's layouts places nothing.
LEMMA LayoutsWithoutFrom == ASSUME FromPayloads(layout), NEW e PROVE FromPayloads(LayoutsWithout(e))
BY DEF FromPayloads, LayoutsWithout, NoLayout

\* A payload places a selection where it has it, or leaves it where it was.
LEMMA NewLayoutFrom ==
    ASSUME NEW b \in Payloads \cup {NoBody}, NEW lay, FromPayloads(lay)
    PROVE  FromPayloads(NewLayout(b, lay))
<1> SUFFICES ASSUME NEW m \in Market, NEW s \in Slot
             PROVE  LET k == NewLayout(b, lay)[m][s] IN k = NoKey \/ Places(m, s, k)
  BY DEF FromPayloads
<1>1. lay[m][s] = NoKey \/ Places(m, s, lay[m][s])
  BY DEF FromPayloads
<1>2. CASE LinesOf(b, m) = {}
  BY <1>1, <1>2 DEF NewLayout
<1>3. CASE LinesOf(b, m) # {}
  <2> DEFINE l == LastLine(b, m)
  <2>1. b \in Payloads
    BY <1>3 DEF LinesOf, NoBody
  <2>2. LinesOf(b, m) \in SUBSET Line
    BY <2>1, PayloadType DEF LinesOf, Body
  <2>3. \E i \in LinesOf(b, m) : \A j \in LinesOf(b, m) : j <= i
    BY <1>3, <2>2, Lines
  <2>4. l \in b.sent /\ LineMarket[l] = m
    BY <2>3 DEF LastLine, LinesOf
  <2>5. NewLayout(b, lay)[m][s] = IF b.slots[l][s] # NoKey THEN b.slots[l][s] ELSE lay[m][s]
    BY <1>3 DEF NewLayout
  <2> HIDE DEF l
  <2>6. Places(m, s, b.slots[l][s])
    BY <2>1, <2>4 DEF Places
  <2> QED
    BY <1>1, <2>5, <2>6
<1> QED
  BY <1>2, <1>3

\* Every entry of the new layout is one of an old layout or of the payload's.
LEMMA LayoutNext ==
    ASSUME TypeOK, [Next]_vars, PayloadsInv
    PROVE  FromPayloads(layout')
<1>1. FromPayloads(layout)
  BY DEF PayloadsInv
<1>2. ASSUME NEW f \in feeder, Commit(f)
      PROVE  FromPayloads(layout')
  <2> DEFINE kept == IF f.update.replace THEN LayoutsWithout(f.update.event) ELSE layout
             new == NewLayout(f.update.body, f.view)
  <2>1. layout' = [m \in Market |-> IF m \in LaidOut(f.update.body) THEN new[m] ELSE kept[m]]
    BY <1>2 DEF Commit
  <2>2. FromPayloads(kept)
    BY <1>1, LayoutsWithoutFrom
  <2>3. FromPayloads(new)
    BY NewLayoutFrom, PayloadType DEF PayloadsInv
  <2> HIDE DEF kept, new
  <2> QED
    BY <2>1, <2>2, <2>3 DEF FromPayloads
<1>3. ASSUME NEW t \in Thread, ApplyAuthoritative(t)
      PROVE  FromPayloads(layout')
  <2> DEFINE e == job[t].current
             new == NewLayout(job[t].answer[e], job[t].view)
  <2>1. \A m \in Market : layout'[m] \in {layout[m], new[m], LayoutsWithout(e)[m]}
    BY SMTT(30), <1>3 DEF ApplyAuthoritative, InstallLayouts
  <2>2. e \in Event
    BY <1>3, ApplyingType DEF ApplyAuthoritative
  <2>3. job[t].answer[e] \in Payloads \cup {NoBody}
    BY <2>2, PayloadType DEF PayloadsInv
  <2>4. FromPayloads(new)
    BY <2>3, NewLayoutFrom DEF PayloadsInv
  <2>5. FromPayloads(LayoutsWithout(e))
    BY <1>1, LayoutsWithoutFrom
  <2> HIDE DEF e, new
  <2> QED
    BY SMTT(30), <1>1, <2>1, <2>4, <2>5 DEF FromPayloads
<1>4. ASSUME NEW e, ClearEvent(e)
      PROVE  FromPayloads(layout')
  BY SMTT(30), <1>1, <1>4, LayoutsWithoutFrom DEF ClearEvent
<1>5. \/ layout' = layout
      \/ ApplyUpdate
      \/ \E e \in Event : ClearEvent(e)
      \/ \E t \in Thread : ApplyAuthoritative(t)
  BY ZenonT(60) DEF Next, vars, layouts, Receive, DropStale, Invalidate, BeginReconcile, Seed,
         Respond, ReadLayout, RefuseSnapshot, Finish, Fail
<1> QED
  BY <1>1, <1>2, <1>3, <1>4, <1>5 DEF ApplyUpdate

\* Threads and the feed hold layouts and payloads of that kind.
LEMMA PayloadsNext ==
    ASSUME TypeOK, [Next]_vars, PayloadsInv
    PROVE  PayloadsInv'
<1>1. FromPayloads(layout)'
  BY LayoutNext DEF FromPayloads
<1>2. ASSUME NEW f \in feeder'
      PROVE  FromPayloads(f.view) /\ f.update \in Updates
  <2>1. \/ f \in feeder
        \/ \E u \in Updates : f = [update |-> u, at |-> clock + 1, view |-> layout]
    <3>1. \/ feeder' \subseteq feeder
          \/ \E u \in Updates : Receive(u)
      BY ZenonT(60) DEF Next, vars, DropStale, ApplyUpdate, Invalidate, ClearEvent,
             BeginReconcile, Seed, Respond, ReadLayout, RefuseSnapshot, ApplyAuthoritative,
             Finish, Fail
    <3> QED
      BY <1>2, <3>1 DEF Receive
  <2> QED
    BY <2>1 DEF PayloadsInv
<1>3. ASSUME NEW t \in Thread
      PROVE  /\ FromPayloads(job'[t].view)
             /\ \A e \in Event : job'[t].answer[e] \in Bodies[e] \cup {NoBody}
  <2>1. /\ FromPayloads(layout) /\ FromPayloads(job[t].view)
        /\ \A e \in Event : job[t].answer[e] \in Bodies[e] \cup {NoBody}
    BY DEF PayloadsInv
  <2>2. CASE Stays(t) \/ Seeds(t) \/ Begins(t)
    BY <2>1, <2>2, NoLayoutsFrom DEF Stays, Seeds, Begins
  <2>3. CASE Answered(t)
    BY <2>1, <2>3 DEF Answered, Answers
  <2>4. CASE job'[t] = IdleJob
    BY <2>4, NoLayoutsFrom DEF IdleJob
  <2> QED
    BY <2>2, <2>3, <2>4, JobCases
<1> QED
  BY <1>1, <1>2, <1>3 DEF PayloadsInv, FromPayloads

-----------------------------------------------------------------------------
(* The requests that still count.                                          *)

\* A request that a step does not begin was there before, no fresher than now.
LEMMA RequestCases ==
    ASSUME TypeOK, [Next]_vars, NEW t \in Thread, InFlight(t)'
    PROVE  \/ Begins(t)
           \/ /\ InFlight(t) /\ job'[t].ids = job[t].ids /\ job'[t].started = job[t].started
              /\ overtaken[t] \subseteq overtaken'[t] /\ Due(t)' \subseteq Due(t)
<1>1. job'[t].pc \in {"fetch", "apply"}
  BY DEF InFlight
<1>2. \/ overtaken[t] \subseteq overtaken'[t]
      \/ \E ids : BeginReconcile(t, ids)
  <2>1. ASSUME NEW x \in Thread, NEW ids, BeginReconcile(x, ids), x # t
        PROVE  overtaken[t] \subseteq overtaken'[t]
    BY <2>1 DEF BeginReconcile
  <2>2. ASSUME NEW S, Overtake(S)
        PROVE  overtaken[t] \subseteq overtaken'[t]
    BY <2>2 DEF Overtake
  <2>3. \/ overtaken' = overtaken
        \/ \E S : Overtake(S)
        \/ \E x \in Thread : \E ids : BeginReconcile(x, ids)
    BY ZenonT(60) DEF Next, vars, fence, Receive, DropStale, ApplyUpdate, Invalidate, ClearEvent,
           Seed, Respond, ReadLayout, RefuseSnapshot, ApplyAuthoritative, Finish, Fail
  <2> QED
    BY <2>1, <2>2, <2>3
<1>3. ASSUME NEW ids, BeginReconcile(t, ids)
      PROVE  job[t].pc \in {"idle", "seed"} /\ job'[t].pc = "fetch"
  BY <1>3 DEF BeginReconcile, TypeOK
<1>4. CASE Stays(t)
  BY <1>1, <1>2, <1>3, <1>4 DEF Stays, InFlight, Due
<1>5. CASE Answered(t)
  BY <1>1, <1>2, <1>3, <1>5 DEF Answered, InFlight, Due
<1>6. ~Seeds(t) /\ job'[t] # IdleJob
  BY <1>1 DEF Seeds, IdleJob
<1> QED
  BY <1>4, <1>5, <1>6, JobCases

\* A new request overtakes all others for its events.
LEMMA FreshNext ==
    ASSUME TypeOK, [Next]_vars, OneFresh
    PROVE  OneFresh'
<1> SUFFICES ASSUME NEW t \in Thread, NEW x \in Thread, t # x, InFlight(t)', InFlight(x)',
                    NEW e \in job'[t].ids \cap job'[x].ids
             PROVE  e \in overtaken'[t] \/ e \in overtaken'[x]
  BY DEF OneFresh
<1>1. CASE Begins(t) \/ Begins(x)
  BY <1>1 DEF Begins
<1>2. CASE ~Begins(t) /\ ~Begins(x)
  <2>1. /\ InFlight(t) /\ job'[t].ids = job[t].ids /\ overtaken[t] \subseteq overtaken'[t]
        /\ InFlight(x) /\ job'[x].ids = job[x].ids /\ overtaken[x] \subseteq overtaken'[x]
    BY <1>2, RequestCases
  <2> QED
    BY <2>1 DEF OneFresh
<1> QED
  BY <1>1, <1>2

-----------------------------------------------------------------------------
(* The journal tells what was written.                                     *)

\* A commit enters into the journal what it does to a selection.
LEMMA CommitTells ==
    ASSUME TypeOK, TimesInv, Forgotten, LiveKeysKnown, NEW f \in feeder, Commit(f),
           NEW s \in Nat, NEW k \in Key, NEW p \in Price,
           Told(s, p, depth[k], change[k], wroteAt[k],
                resetAt[k], removedAt[k], replacedAt[KeyEvent[k]])
    PROVE  Told(s, p, depth'[k], change'[k], wroteAt'[k],
                resetAt'[k], removedAt'[k], replacedAt'[KeyEvent[k]])
<1> DEFINE a == f.at
           rp == replacedAt[KeyEvent[k]]
<1>1. /\ a \in Nat /\ resetAt[k] < a /\ removedAt[k] < a /\ rp < a
      /\ \A q \in Price : change[k][q].at < a /\ wroteAt[k][q] < a
  BY InHandIsNewest
<1>2. /\ resetAt[k] \in Nat /\ removedAt[k] \in Nat /\ rp \in Nat
      /\ \A q \in Price : change[k][q].at \in Nat /\ wroteAt[k][q] \in Nat
  BY JournalType
<1> SUFFICES ASSUME wroteAt'[k][p] > s
             PROVE  /\ IF Replays(s, change'[k][p].at, resetAt'[k], removedAt'[k])
                       THEN depth'[k][p] = change'[k][p].qty
                       ELSE (replacedAt'[KeyEvent[k]] > s \/ resetAt'[k] > s) /\ depth'[k][p] = 0
                    /\ depth'[k][p] # 0 =>
                          Restores(s, change'[k], resetAt'[k], removedAt'[k],
                                   replacedAt'[KeyEvent[k]])
  BY DEF Told
<1>3. wroteAt'[k][p] \in {wroteAt[k][p], a}
  BY CommitTimes
<1>4. s < a
  BY <1>1, <1>2, <1>3
<1>5. CASE CommitWrites(f, k)
  <2>1. UNCHANGED <<resetAt[k], removedAt[k], replacedAt[KeyEvent[k]]>>
    BY <1>5 DEF CommitWrites
  <2>2. \A q \in Price : change'[k][q] = change[k][q] \/ change'[k][q].at = a
    BY <1>5 DEF CommitWrites
  <2>3. LeftAt(s, removedAt[k], rp) < a
    BY <1>1, <1>2 DEF LeftAt
  <2>4. LeftAt(s, removedAt[k], rp) \in Nat
    BY <1>2 DEF LeftAt
  <2>5. CASE UNCHANGED <<depth[k][p], change[k][p], wroteAt[k][p]>>
    <3>1. /\ IF Replays(s, change[k][p].at, resetAt[k], removedAt[k])
             THEN depth[k][p] = change[k][p].qty
             ELSE (rp > s \/ resetAt[k] > s) /\ depth[k][p] = 0
          /\ depth[k][p] # 0 => Restores(s, change[k], resetAt[k], removedAt[k], rp)
      BY <2>5 DEF Told
    <3>2. ASSUME depth[k][p] # 0
          PROVE  Restores(s, change'[k], resetAt[k], removedAt[k], rp)
      <4>1. CASE resetAt[k] > s /\ resetAt[k] >= LeftAt(s, removedAt[k], rp)
        BY <4>1 DEF Restores
      <4>2. ASSUME NEW q \in Price, change[k][q].at > s,
                   change[k][q].at >= LeftAt(s, removedAt[k], rp)
            PROVE  Restores(s, change'[k], resetAt[k], removedAt[k], rp)
        BY <1>1, <1>2, <1>4, <2>2, <2>3, <2>4, <4>2 DEF Restores
      <4> QED
        BY <3>1, <3>2, <4>1, <4>2 DEF Restores
    <3> QED
      BY <2>1, <2>5, <3>1, <3>2
  <2>6. CASE depth'[k][p] = change'[k][p].qty /\ change'[k][p].at = a
    <3>1. Replays(s, change'[k][p].at, resetAt'[k], removedAt'[k])
      BY <1>1, <1>2, <1>4, <2>1, <2>6 DEF Replays
    <3>2. Restores(s, change'[k], resetAt[k], removedAt[k], rp)
      BY <1>1, <1>4, <2>3, <2>4, <2>6 DEF Restores
    <3> QED
      BY <2>1, <2>6, <3>1, <3>2
  <2> QED
    BY <1>5, <2>5, <2>6 DEF CommitWrites
<1>6. CASE CommitResets(f, k)
  <2>1. /\ resetAt'[k] = a /\ removedAt'[k] = removedAt[k]
        /\ replacedAt'[KeyEvent[k]] \in {rp, a}
        /\ \/ depth'[k][p] = change'[k][p].qty /\ change'[k][p].at = a
           \/ depth'[k][p] = 0 /\ change'[k][p] = NoChange
    BY <1>6 DEF CommitResets
  <2>2. LeftAt(s, removedAt'[k], replacedAt'[KeyEvent[k]]) <= a
    BY <1>1, <1>2, <2>1 DEF LeftAt
  <2>3. Restores(s, change'[k], resetAt'[k], removedAt'[k], replacedAt'[KeyEvent[k]])
    BY <1>4, <2>1, <2>2 DEF Restores
  <2>4. CASE depth'[k][p] = change'[k][p].qty /\ change'[k][p].at = a
    <3>1. Replays(s, change'[k][p].at, resetAt'[k], removedAt'[k])
      BY <1>1, <1>2, <1>4, <2>1, <2>4 DEF Replays
    <3> QED
      BY <2>3, <2>4, <3>1
  <2>5. CASE depth'[k][p] = 0 /\ change'[k][p] = NoChange
    <3>1. ~Replays(s, change'[k][p].at, resetAt'[k], removedAt'[k])
      BY <2>5 DEF Replays, NoChange
    <3>2. resetAt'[k] > s
      BY <1>4, <2>1
    <3> QED
      BY <2>5, <3>1, <3>2
  <2> QED
    BY <2>1, <2>4, <2>5
<1>7. CASE CommitRemoves(f, k)
  <2>1. replacedAt'[KeyEvent[k]] = a /\ change'[k][p] = NoChange /\ depth'[k][p] = 0
    BY <1>7 DEF CommitRemoves
  <2>2. ~Replays(s, change'[k][p].at, resetAt'[k], removedAt'[k])
    BY <2>1 DEF Replays, NoChange
  <2>3. replacedAt'[KeyEvent[k]] > s
    BY <1>4, <2>1
  <2> QED
    BY <2>1, <2>2, <2>3
<1> QED
  BY <1>5, <1>6, <1>7, CommitCases

\* An answer only names selections of its event.
LEMMA AnswerOwn ==
    ASSUME OwnPayloads, TypeOK, PayloadsInv, NEW t \in Thread, Applying(t), NEW k \in Key,
           k \in Touched(Resolve(job[t].answer[job[t].current], job[t].view, TRUE))
    PROVE  KeyEvent[k] = job[t].current
<1> DEFINE e == job[t].current
           b == job[t].answer[e]
           lay == job[t].view
<1>1. e \in Event /\ b \in Body /\ FromPayloads(lay) /\ b \in Bodies[e] \cup {NoBody}
  BY SMTT(30), ApplyingType DEF PayloadsInv
<1>2. \/ k \in EmptiedByPosition(b, lay)
      \/ b.groups[k].kind # "none"
  BY DEF Touched, Resolve
<1>3. CASE b = NoBody
  BY <1>2, <1>3 DEF NoBody, NoGroups, Untouched, EmptiedByPosition
<1>4. CASE b \in Bodies[e] /\ b.groups[k].kind # "none"
  BY <1>1, <1>4 DEF OwnPayloads
<1>5. CASE b \in Bodies[e] /\ k \in EmptiedByPosition(b, lay)
  <2>1. PICK l \in b.sent, s \in Slot : lay[LineMarket[l]][s] = k
    BY <1>5 DEF EmptiedByPosition
  <2>2. l \in Line /\ LineMarket[l] \in Market
    BY <1>1, ConstantsAssumption DEF Body, ConstantsAssumption
  <2>3. k # NoKey
    BY ConstantsAssumption DEF ConstantsAssumption
  <2>4. Places(LineMarket[l], s, k)
    BY <1>1, <2>1, <2>2, <2>3 DEF FromPayloads
  <2>5. KeyEvent[k] = MarketEvent[LineMarket[l]]
    BY <2>3, <2>4 DEF Places, OwnPayloads
  <2> QED
    BY <1>1, <1>5, <2>1, <2>5 DEF OwnPayloads
<1> QED
  BY <1>1, <1>2, <1>3, <1>4, <1>5

\* Installing an answer leaves other events alone.
LEMMA ApplyLeavesOthers ==
    ASSUME OwnPayloads, TypeOK, PayloadsInv, NEW t \in Thread, ApplyAuthoritative(t),
           NEW k \in Key, KeyEvent[k] # job[t].current
    PROVE  /\ UNCHANGED <<depth[k], change[k], wroteAt[k], resetAt[k], removedAt[k]>>
           /\ replacedAt'[KeyEvent[k]] = replacedAt[KeyEvent[k]]
<1> DEFINE j == job[t]
           e == j.current
           rest == Resolve(j.answer[e], j.view, TRUE)
           kept == Kept(e, j.started, rest)
           candidates == (known \cap KeysOf(e))
                         \cup NewResets(e, j.started) \cup NewRemovals(e, j.started)
                         \cup {i \in Key : NewChanges(e, j.started, i) # {}}
           dropped == candidates \ kept
<1>1. k \notin Touched(rest)
  BY AnswerOwn DEF ApplyAuthoritative
<1>2. /\ k \notin KeysOf(e) /\ k \notin NewResets(e, j.started)
      /\ k \notin NewRemovals(e, j.started) /\ NewChanges(e, j.started, k) = {}
  BY DEF KeysOf, NewResets, NewRemovals, NewChanges
<1>3. k \notin kept /\ k \notin dropped
  BY <1>1, <1>2 DEF Kept
<1>4. /\ depth' = [i \in Key |-> IF i \in kept THEN Rebased(e, j.started, rest, i)
                                 ELSE IF i \in dropped THEN Empty ELSE depth[i]]
      /\ change' = [i \in Key |-> IF KeyEvent[i] = e
                                  THEN [p \in Price |-> NoChange] ELSE change[i]]
      /\ resetAt' = [i \in Key |-> IF KeyEvent[i] = e THEN 0 ELSE resetAt[i]]
      /\ removedAt' = [i \in Key |-> IF KeyEvent[i] = e THEN 0 ELSE removedAt[i]]
      /\ replacedAt' = [replacedAt EXCEPT ![e] = 0]
      /\ wroteAt' = wroteAt
  BY DEF ApplyAuthoritative
<1> HIDE DEF dropped, candidates, kept, rest, e, j
<1>5. KeyEvent[k] # e
  BY DEF e, j
<1>6. KeyEvent[k] \in Event
  BY EventOfKey
<1> QED
  BY <1>3, <1>4, <1>5, <1>6 DEF TypeOK

\* A request still counts when its answer is accepted: all others were overtaken.
LEMMA AcceptedCounts ==
    ASSUME TypeOK, FenceInv, NEW t \in Thread, Applying(t), Accepted(t)
    PROVE  /\ InFlight(t) /\ job[t].current \in Event
           /\ job[t].current \in job[t].ids /\ job[t].current \in Due(t) \ overtaken[t]
<1>1. InFlight(t) /\ job[t].pc = "apply" /\ job[t].current \in Event
  BY ApplyingType DEF Applying, InFlight
<1>2. Fenced(t)
  BY <1>1 DEF FenceInv
<1>3. job[t].current \in job[t].todo /\ job[t].todo \subseteq job[t].ids
  BY <1>2 DEF Fenced, Applying
<1> QED
  BY <1>1, <1>2, <1>3 DEF Fenced, Accepted, Current, Due

\* Every action keeps the journal complete for the requests that still count.
LEMMA ToldNext ==
    ASSUME OwnPayloads, TypeOK, [Next]_vars, FenceInv, LiveKeysKnown, Forgotten, TimesInv,
           PayloadsInv, OneFresh, ToldInv
    PROVE  ToldInv'
<1> SUFFICES ASSUME NEW t \in Thread, InFlight(t)', NEW e \in Due(t)' \ overtaken'[t],
                    NEW k \in KeysOf(e), NEW p \in Price
             PROVE  Told(job'[t].started, p, depth'[k], change'[k], wroteAt'[k],
                         resetAt'[k], removedAt'[k], replacedAt'[e])
  BY DEF ToldInv, KeysOf
<1>1. k \in Key /\ KeyEvent[k] = e
  BY DEF KeysOf
<1>2. CASE Begins(t)
  <2>1. wroteAt[k][p] <= clock
    BY <1>1 DEF TimesInv, NotAfter
  <2>2. wroteAt'[k][p] <= job'[t].started
    BY <1>2, <2>1 DEF Begins, journal
  <2>3. wroteAt'[k][p] \in Nat /\ job'[t].started \in Nat
    BY <1>1, <1>2, JournalType DEF Begins, journal, TypeOK
  <2> QED
    BY <2>2, <2>3 DEF Told
<1>3. CASE ~Begins(t)
  <2>1. /\ InFlight(t) /\ job'[t].ids = job[t].ids /\ job'[t].started = job[t].started
        /\ e \in Due(t) \ overtaken[t]
    BY <1>3, RequestCases
  <2>2. Told(job[t].started, p, depth[k], change[k], wroteAt[k],
             resetAt[k], removedAt[k], replacedAt[KeyEvent[k]])
    BY <1>1, <2>1 DEF ToldInv
  <2>3. job[t].started \in Nat
    BY DEF TypeOK, Job
  <2>4. ASSUME NEW f \in feeder, Commit(f)
        PROVE  Told(job[t].started, p, depth'[k], change'[k], wroteAt'[k],
                    resetAt'[k], removedAt'[k], replacedAt'[KeyEvent[k]])
    BY <1>1, <2>2, <2>3, <2>4, CommitTells
  <2>5. ASSUME /\ UNCHANGED <<depth[k], change[k], wroteAt[k], resetAt[k], removedAt[k]>>
               /\ replacedAt'[KeyEvent[k]] = replacedAt[KeyEvent[k]]
        PROVE  Told(job[t].started, p, depth'[k], change'[k], wroteAt'[k],
                    resetAt'[k], removedAt'[k], replacedAt'[KeyEvent[k]])
    BY <2>2, <2>5
  <2>6. ASSUME NEW x \in Event, ClearEvent(x)
        PROVE  Told(job[t].started, p, depth'[k], change'[k], wroteAt'[k],
                    resetAt'[k], removedAt'[k], replacedAt'[KeyEvent[k]])
    <3>1. x # e
      BY <2>6 DEF ClearEvent, Overtake
    <3>2. /\ UNCHANGED <<depth[k], change[k], wroteAt[k], resetAt[k], removedAt[k]>>
          /\ replacedAt'[KeyEvent[k]] = replacedAt[KeyEvent[k]]
      BY <1>1, <2>6, <3>1, EventOfKey DEF ClearEvent, DepthWithout, KeysOf, TypeOK
    <3> QED
      BY <2>5, <3>2
  <2>7. ASSUME NEW x \in Thread, ApplyAuthoritative(x)
        PROVE  Told(job[t].started, p, depth'[k], change'[k], wroteAt'[k],
                    resetAt'[k], removedAt'[k], replacedAt'[KeyEvent[k]])
    <3>1. /\ InFlight(x) /\ job[x].current \in job[x].ids
          /\ job[x].current \in Due(x) \ overtaken[x]
      BY <2>7, AcceptedCounts DEF ApplyAuthoritative
    <3>2. CASE job[x].current = e /\ x = t
      <4>1. job' = Applied(t) /\ job[t].pc = "apply"
        BY <2>7, <3>2 DEF ApplyAuthoritative, Applying
      <4>2. job'[t].todo = job[t].todo \ {e} /\ job'[t].pc = "apply"
        BY <3>2, <4>1 DEF Applied, TypeOK, Job
      <4> QED
        BY <4>2 DEF Due
    <3>3. CASE job[x].current = e /\ x # t
      <4>1. e \in job[t].ids
        BY <2>1 DEF Due, FenceInv, Fenced
      <4>2. e \in overtaken[t] \/ e \in overtaken[x]
        BY <2>1, <3>1, <3>3, <4>1 DEF OneFresh
      <4> QED
        BY <2>1, <3>1, <3>3, <4>2
    <3>4. CASE job[x].current # e
      BY SMTT(30), <1>1, <2>5, <2>7, <3>4, ApplyLeavesOthers
    <3> QED
      BY <3>2, <3>3, <3>4
  <2>8. \/ UNCHANGED <<book, journal>>
        \/ ApplyUpdate
        \/ \E x \in Event : ClearEvent(x)
        \/ \E x \in Thread : ApplyAuthoritative(x)
    BY ZenonT(60) DEF Next, vars, Receive, DropStale, Invalidate, BeginReconcile, Seed, Respond,
           ReadLayout, RefuseSnapshot, Finish, Fail
  <2>9. Told(job[t].started, p, depth'[k], change'[k], wroteAt'[k],
             resetAt'[k], removedAt'[k], replacedAt'[KeyEvent[k]])
    BY <2>4, <2>5, <2>6, <2>7, <2>8 DEF ApplyUpdate, book, journal
  <2> QED
    BY <1>1, <2>1, <2>9
<1> QED
  BY <1>2, <1>3

-----------------------------------------------------------------------------
(* The invariant holds.                                                    *)

ReplayInv == Forgotten /\ TimesInv /\ Covered /\ PayloadsInv /\ OneFresh

\* A new cache has written nothing and asked for nothing.
LEMMA ReplayInit == Init => ReplayInv /\ ToldInv
<1> SUFFICES ASSUME Init PROVE ReplayInv /\ ToldInv
  OBVIOUS
<1>1. /\ clock = 0 /\ feeder = {} /\ layout = NoLayouts
      /\ \A k \in Key : /\ resetAt[k] = 0 /\ removedAt[k] = 0
                        /\ \A p \in Price : change[k][p] = NoChange /\ wroteAt[k][p] = 0
      /\ \A e \in Event : replacedAt[e] = 0
      /\ \A t \in Thread : job[t] = IdleJob
  BY DEF Init
<1>2. \A t \in Thread : ~InFlight(t)
  BY <1>1 DEF InFlight, IdleJob
<1>3. Forgotten /\ TimesInv
  BY <1>1 DEF Forgotten, TimesInv, NotAfter, NoChange, IdleJob
<1>4. Covered
  BY <1>1, EventOfKey DEF Covered, NoChange
<1>5. PayloadsInv
  BY <1>1, NoLayoutsFrom DEF PayloadsInv, IdleJob
<1> QED
  BY <1>2, <1>3, <1>4, <1>5 DEF ReplayInv, OneFresh, ToldInv

\* In every reachable state the journal has no more than was written.
THEOREM ReplayHolds == Spec => []ReplayInv
<1>1. Init => ReplayInv
  BY ReplayInit
<1>2. TypeOK /\ LiveKeysKnown /\ ReplayInv /\ [Next]_vars => ReplayInv'
  BY TimesNext, CoveredNext, ForgottenNext, PayloadsNext, FreshNext DEF ReplayInv
<1> QED
  BY <1>1, <1>2, TypeCorrect, KnownKeys, PTL DEF Spec

\* In every reachable state the journal tells what was written since a request that still
\* counts, if answers only speak of their events.
THEOREM ToldHolds == ASSUME OwnPayloads PROVE Spec => []ToldInv
<1>1. Init => ToldInv
  BY ReplayInit
<1>2. TypeOK /\ LiveKeysKnown /\ FenceInv /\ ReplayInv /\ ToldInv /\ [Next]_vars => ToldInv'
  BY ToldNext DEF ReplayInv
<1> QED
  BY <1>1, <1>2, TypeCorrect, KnownKeys, FenceHolds, ReplayHolds, PTL DEF Spec

-----------------------------------------------------------------------------
(* What installing an answer does.                                         *)

\* The depth an accepted answer leaves to a selection of its event.
LEMMA InstalledDepth ==
    ASSUME TypeOK, NEW t \in Thread, ApplyAuthoritative(t),
           NEW k \in Key, KeyEvent[k] = job[t].current
    PROVE  LET e == job[t].current
               s == job[t].started
               rest == Resolve(job[t].answer[e], job[t].view, TRUE)
           IN  \/ k \in Kept(e, s, rest) /\ depth'[k] = Rebased(e, s, rest, k)
               \/ k \notin Kept(e, s, rest) /\ depth'[k] = Empty
               \/ k \notin Kept(e, s, rest) /\ depth'[k] = depth[k] /\ k \notin known
<1> DEFINE j == job[t]
           e == j.current
           rest == Resolve(j.answer[e], j.view, TRUE)
           kept == Kept(e, j.started, rest)
           candidates == (known \cap KeysOf(e))
                         \cup NewResets(e, j.started) \cup NewRemovals(e, j.started)
                         \cup {i \in Key : NewChanges(e, j.started, i) # {}}
           dropped == candidates \ kept
<1>1. depth' = [i \in Key |-> IF i \in kept THEN Rebased(e, j.started, rest, i)
                              ELSE IF i \in dropped THEN Empty ELSE depth[i]]
  BY DEF ApplyAuthoritative
<1>2. k \in known => k \in candidates
  BY DEF KeysOf
<1> HIDE DEF candidates, kept
<1> QED
  BY <1>1, <1>2 DEF kept

\* A price that the feed wrote after the request began stays as it is.
LEMMA FeedWriteStays ==
    ASSUME TypeOK, FenceInv, ToldInv, NEW t \in Thread, ApplyAuthoritative(t),
           NEW k \in Key, NEW p \in Price, KeyEvent[k] = job[t].current,
           wroteAt[k][p] > job[t].started
    PROVE  depth'[k][p] = depth[k][p]
<1> DEFINE e == job[t].current
           s == job[t].started
           rest == Resolve(job[t].answer[e], job[t].view, TRUE)
           left == LeftAt(s, removedAt[k], replacedAt[e])
<1>1. InFlight(t) /\ e \in Due(t) \ overtaken[t] /\ k \in KeysOf(e)
  BY AcceptedCounts DEF ApplyAuthoritative, KeysOf
<1>2. Told(s, p, depth[k], change[k], wroteAt[k], resetAt[k], removedAt[k], replacedAt[e])
  BY <1>1 DEF ToldInv
<1>3. /\ IF Replays(s, change[k][p].at, resetAt[k], removedAt[k])
         THEN depth[k][p] = change[k][p].qty
         ELSE (replacedAt[e] > s \/ resetAt[k] > s) /\ depth[k][p] = 0
      /\ depth[k][p] # 0 =>
            Restores(s, change[k], resetAt[k], removedAt[k], replacedAt[e])
  BY <1>2 DEF Told
<1>4. /\ NewReplace(e, s) <=> replacedAt[e] > s
      /\ k \in NewResets(e, s) <=> resetAt[k] > s
      /\ k \in NewRemovals(e, s) <=> removedAt[k] > s
      /\ \A q \in Price : q \in NewChanges(e, s, k) <=> change[k][q].at > s
  BY <1>1 DEF NewReplace, NewResets, NewRemovals, NewChanges, KeysOf
<1>5. RemovalTime(e, s, k) = left
  <2>1. /\ s \in Nat /\ removedAt[k] \in Nat /\ replacedAt[e] \in Nat
    BY JournalType, ApplyingType DEF ApplyAuthoritative
  <2> QED
    BY SMTT(30), <1>4, <2>1 DEF RemovalTime, LeftAt
<1>6. CASE k \in Kept(e, s, rest) /\ depth'[k] = Rebased(e, s, rest, k)
  <2>1. depth'[k][p] = IF Replays(s, change[k][p].at, resetAt[k], removedAt[k])
                       THEN change[k][p].qty
                       ELSE IF replacedAt[e] > s \/ resetAt[k] > s THEN 0
                       ELSE Merged(Empty, rest[k])[p]
    <3> HIDE DEF e, s, rest
    <3> QED
      BY <1>4, <1>6 DEF Rebased, Replays
  <2> QED
    BY <1>3, <2>1
<1>7. CASE k \notin Kept(e, s, rest)
  <2>1. ~Restores(s, change[k], resetAt[k], removedAt[k], replacedAt[e])
    <3> HIDE DEF e, s, rest
    <3> QED
      BY <1>4, <1>5, <1>7 DEF Restores, Kept
  <2>2. depth[k][p] = 0
    BY <1>3, <2>1
  <2> QED
    BY <1>7, <2>2, InstalledDepth DEF Empty
<1> QED
  BY <1>6, <1>7, InstalledDepth

\* Installing a REST snapshot changes no price that the feed wrote after the request began
\* (cache.py:381), if answers only speak of their events.
THEOREM FeedWritesCorrect == ASSUME OwnPayloads PROVE Spec => FeedWritesSurvive
<1>1. TypeOK /\ FenceInv /\ ToldInv /\ [Next]_vars =>
          [\A t \in Thread : ApplyAuthoritative(t) =>
              \A k \in Key, p \in Price :
                  KeyEvent[k] = job[t].current /\ wroteAt[k][p] > job[t].started
                      => depth'[k][p] = depth[k][p]]_vars
  BY FeedWriteStays
<1> QED
  BY <1>1, TypeCorrect, FenceHolds, ToldHolds, PTL DEF Spec, FeedWritesSurvive

\* A position that an answer leaves empty was not of a selection it offers.
LEMMA EmptiedNotOffered ==
    ASSUME SteadyPositions, TypeOK, PayloadsInv, NEW t \in Thread, Applying(t),
           NEW k \in EmptiedByPosition(job[t].answer[job[t].current], job[t].view),
           NEW p \in Price
    PROVE  ~(job[t].answer[job[t].current].groups[k].op[p] > 0)
<1> DEFINE e == job[t].current
           b == job[t].answer[e]
           lay == job[t].view
<1> SUFFICES ASSUME b.groups[k].op[p] > 0
             PROVE  FALSE
  OBVIOUS
<1>1. e \in Event /\ b \in Body /\ FromPayloads(lay) /\ b \in Bodies[e] \cup {NoBody}
  BY ApplyingType DEF PayloadsInv
<1>2. PICK l \in b.sent, s \in Slot :
          k \in Key /\ b.slots[l][s] = NoKey /\ lay[LineMarket[l]][s] = k
  BY DEF EmptiedByPosition
<1>3. b \in Payloads
  BY <1>1, <1>2, PayloadType DEF NoBody
<1>4. LineMarket[l] \in Market /\ k # NoKey
  BY <1>1, <1>2, ConstantsAssumption DEF Body, ConstantsAssumption
<1>5. PICK c \in Payloads : \E j \in c.sent : LineMarket[j] = LineMarket[l] /\ c.slots[j][s] = k
  BY <1>1, <1>2, <1>4 DEF FromPayloads, Places
<1>6. PICK j \in c.sent : LineMarket[j] = LineMarket[l] /\ c.slots[j][s] = k
  BY <1>5
<1>7. PICK i \in b.sent, r \in Slot : b.slots[i][r] = k
  BY SMTT(30), <1>2, <1>3 DEF SteadyPositions
<1>8. l = j
  BY <1>3, <1>6 DEF SteadyPositions
<1>9. i = j /\ r = s
  BY SMTT(30), <1>3, <1>4, <1>6, <1>7 DEF SteadyPositions
<1> QED
  BY <1>2, <1>4, <1>7, <1>8, <1>9

\* A price that the feed did not write after the request began is the answer's: of an
\* exchange that keeps a selection in its place, no position of the answer empties what the
\* answer offers.
LEMMA AnswerIsBase ==
    ASSUME SteadyPositions, TypeOK, LiveKeysKnown, ReplayInv,
           NEW t \in Thread, ApplyAuthoritative(t),
           NEW k \in Key, NEW p \in Price, KeyEvent[k] = job[t].current,
           wroteAt[k][p] <= job[t].started
    PROVE  depth'[k][p] = Merged(Empty, job[t].answer[job[t].current].groups[k])[p]
<1> DEFINE e == job[t].current
           s == job[t].started
           b == job[t].answer[e]
           rest == Resolve(b, job[t].view, TRUE)
<1>1. Applying(t) /\ e \in Event /\ b \in Body
  BY ApplyingType DEF ApplyAuthoritative
<1>2. /\ s \in Nat /\ resetAt[k] \in Nat /\ removedAt[k] \in Nat /\ replacedAt[e] \in Nat
      /\ change[k][p].at \in Nat /\ wroteAt[k][p] \in Nat
  BY <1>1, JournalType, ApplyingType
<1>3. /\ ~(resetAt[k] > s) /\ ~(removedAt[k] > s) /\ ~(replacedAt[e] > s)
      /\ ~(change[k][p].at > s)
  <2>1. /\ change[k][p].at <= wroteAt[k][p] /\ resetAt[k] <= wroteAt[k][p]
        /\ removedAt[k] <= wroteAt[k][p] /\ replacedAt[e] <= wroteAt[k][p]
    BY DEF ReplayInv, Covered
  <2>2. wroteAt[k][p] <= s
    OBVIOUS
  <2> HIDE DEF s, e
  <2> QED
    BY <1>2, <2>1, <2>2
<1>4. /\ ~NewReplace(e, s) /\ k \notin NewResets(e, s) /\ k \notin NewRemovals(e, s)
      /\ p \notin NewChanges(e, s, k)
  <2> HIDE DEF s, e
  <2> QED
    BY <1>3 DEF NewReplace, NewResets, NewRemovals, NewChanges
<1>5. rest[k].kind # "none" => k \in Kept(e, s, rest)
  <2> HIDE DEF s, e, rest
  <2> QED
    BY <1>4 DEF Kept, Touched
<1>6. Rebased(e, s, rest, k)[p] = Merged(Empty, rest[k])[p]
  <2> HIDE DEF s, e, rest
  <2> QED
    BY <1>3, <1>4 DEF Rebased
<1>7. b.groups[k] \in Group
  BY <1>1 DEF Body
<1>8. k \notin Kept(e, s, rest) => depth'[k][p] = 0
  <2>1. k \notin Kept(e, s, rest) =>
            depth'[k] = Empty \/ (depth'[k] = depth[k] /\ k \notin known)
    BY InstalledDepth
  <2> HIDE DEF e, s, rest
  <2> QED
    BY <2>1 DEF LiveKeysKnown, Empty
<1>9. k \in Kept(e, s, rest) => depth'[k][p] = Merged(Empty, rest[k])[p]
  BY <1>6, InstalledDepth
<1>10. CASE k \in EmptiedByPosition(b, job[t].view)
  <2>1. rest[k] = Emptied
    BY <1>10 DEF Resolve
  <2>2. Merged(Empty, Emptied)[p] = 0
    BY DEF Merged, Emptied
  <2>3. ~(b.groups[k].op[p] > 0)
    BY <1>1, <1>10, EmptiedNotOffered DEF ReplayInv
  <2>4. Merged(Empty, b.groups[k])[p] = 0
    <3>1. b.groups[k].op[p] # Keep => b.groups[k].op[p] \in Nat
      BY <1>7, OpType
    <3> HIDE DEF b
    <3>2. b.groups[k].op[p] # Keep => b.groups[k].op[p] = 0
      BY <2>3, <3>1
    <3> QED
      BY <3>2 DEF Merged, Empty
  <2> QED
    BY <1>8, <1>9, <2>1, <2>2, <2>4
<1>11. CASE k \notin EmptiedByPosition(b, job[t].view) /\ b.groups[k].kind = "none"
  <2>1. rest[k] = b.groups[k] /\ b.groups[k] = Untouched
    BY <1>7, <1>11 DEF Resolve, Group
  <2>2. Merged(Empty, Untouched)[p] = 0
    BY DEF Merged, Untouched, Empty
  <2> QED
    BY <1>8, <1>9, <2>1, <2>2
<1>12. CASE k \notin EmptiedByPosition(b, job[t].view) /\ b.groups[k].kind # "none"
  <2>1. rest[k].op = b.groups[k].op /\ rest[k].kind # "none"
    BY <1>12 DEF Resolve
  <2>2. Merged(Empty, rest[k])[p] = Merged(Empty, b.groups[k])[p]
    <3> HIDE DEF rest, b
    <3> QED
      BY SMTT(30), <2>1 DEF Merged, Empty
  <2> QED
    BY <1>5, <1>9, <2>1, <2>2
<1> QED
  BY <1>10, <1>11, <1>12

\* Then the whole book is the answer, if the feed wrote nothing of the event.
LEMMA RestBaseStep ==
    ASSUME SteadyPositions, TypeOK, LiveKeysKnown, ReplayInv,
           NEW t \in Thread, ApplyAuthoritative(t),
           NEW k \in KeysOf(job[t].current),
           \A i \in KeysOf(job[t].current), p \in Price : wroteAt[i][p] <= job[t].started
    PROVE  depth'[k] = Merged(Empty, job[t].answer[job[t].current].groups[k])
<1>1. k \in Key /\ KeyEvent[k] = job[t].current
  BY DEF KeysOf
<1>2. depth'[k] \in [Price -> Nat]
  BY <1>1, ApplyType
<1>3. \A p \in Price :
          depth'[k][p] = Merged(Empty, job[t].answer[job[t].current].groups[k])[p]
  BY <1>1, AnswerIsBase
<1>4. Merged(Empty, job[t].answer[job[t].current].groups[k])
      = [p \in Price |-> Merged(Empty, job[t].answer[job[t].current].groups[k])[p]]
  BY DEF Merged
<1> QED
  BY <1>2, <1>3, <1>4

\* If the feed wrote nothing of the event since the request began, the book is the answer
\* (cache.py:381), of an exchange that keeps a selection in its place.
THEOREM RestBaseCorrect == ASSUME SteadyPositions PROVE Spec => RestIsBase
<1>1. TypeOK /\ LiveKeysKnown /\ ReplayInv /\ [Next]_vars =>
          [\A t \in Thread : ApplyAuthoritative(t) =>
              LET e == job[t].current
              IN  (\A k \in KeysOf(e), p \in Price : wroteAt[k][p] <= job[t].started)
                  => \A k \in KeysOf(e) :
                         depth'[k] = Merged(Empty, job[t].answer[e].groups[k])]_vars
  BY RestBaseStep
<1> QED
  BY <1>1, TypeCorrect, KnownKeys, ReplayHolds, PTL DEF Spec, RestIsBase
=============================================================================
