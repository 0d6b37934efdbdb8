---------------------------- MODULE OrdersProofs ----------------------------
(***************************************************************************)
(* What callers are told of their orders is true, and none is placed       *)
(* twice, for every set of batches, every length of answers, pages and     *)
(* searches, and however many orders others place.                         *)
(***************************************************************************)
EXTENDS Orders, TLAPS

\* Intents are there during a submission only; each is placed iff the server
\* has nothing left of it, and was known to be unplaced when it was sent.
Sending ==
    /\ pc \in {"idle", "search"} => intents = <<>> /\ left = {}
    /\ pc = "single" => Len(intents) = 1
    /\ \A i, j \in DOMAIN intents : intents[i] = intents[j] => i = j
    /\ \A i \in DOMAIN intents :
          /\ known[intents[i]] = "unplaced"
          /\ InHistory(intents[i]) <=> i \notin left

\* The pages so far told of orders before the cursor, none of them the wanted.
Searching ==
    pc = "search" =>
        /\ search.wanted \in Ext /\ known[search.wanted] = "unsure"
        /\ search.cursor <= Len(history)
        /\ \A i \in 1..search.cursor : history[i] # search.wanted

OrdersInv == TypeOK /\ Sending /\ Searching /\ KnowledgeTruthful /\ PlacedOnce

-----------------------------------------------------------------------------
(* The answers.                                                            *)

\* What the client takes a rejection for is what the server means by it.
LEMMA ToldMeant ==
    ASSUME TypeOK, NEW item \in Rejected, Meant(item), Agrees(item),
           Told(item) \in Requested
    PROVE  item.about = Told(item)
  <1>1. /\ item.about \in Ext \cup {None} /\ item.external_id \in Ext \cup {Foreign, None}
        /\ Requested \subseteq Ext /\ DOMAIN intents = 1..Len(intents)
    BY DEF Rejected, Requested, TypeOK
  <1>2. CASE item.about # None /\ item.external_id = item.about
    BY <1>2 DEF Told
  <1>3. CASE /\ item.about # None /\ item.index \in 0..(Len(intents) - 1)
             /\ intents[item.index + 1] = item.about
    BY <1>3 DEF Told, Agrees, Indexed
  <1>4. CASE item.external_id \in {None, Foreign} /\ item.index \notin 0..(Len(intents) - 1)
    BY <1>1, <1>4, OrdersAssumption DEF Told, Indexed
  <1> QED  BY <1>2, <1>3, <1>4 DEF Meant

\* An answer without conflicts tells of every order what happened to it.
LEMMA AnswerTrue ==
    ASSUME TypeOK, NEW n \in Nat, NEW m \in Nat,
           NEW succeeded \in [1..n -> Accepted], NEW failed \in [1..m -> Rejected],
           \A i \in 1..m : Meant(failed[i]),
           Honest(succeeded, failed), Tells(succeeded, failed), NEW x \in Requested
    PROVE  /\ Outcome(x, succeeded, failed) = "accepted" => IsPlaced(x)
           /\ Outcome(x, succeeded, failed) = "unplaced" => IsUnplaced(x)
  <1>1. \A i \in 1..m : failed[i].about = Told(failed[i])
    BY ToldMeant DEF Tells
  <1>2. ~(Succeeded(x, succeeded) /\ Failed(x, failed))
    BY DEF Tells, Succeeded, Failed
  <1>3. (\E i \in DOMAIN failed : failed[i].about = x) <=> Failed(x, failed)
    BY <1>1 DEF Failed
  <1>4. Succeeded(x, succeeded) => IsPlaced(x)
    BY <1>2, <1>3 DEF Honest
  <1>5. Failed(x, failed) => IsUnplaced(x)
    BY <1>2, <1>3 DEF Honest
  <1> QED  BY <1>4, <1>5 DEF Outcome

-----------------------------------------------------------------------------
(* The steps of a submission.                                              *)

\* A call ends and tells, of the orders it was for, the truth.
LEMMA LearnKeeps ==
    ASSUME OrdersInv, pc \in {"batch", "single"},
           NEW told \in [Ext -> {"unplaced", "unsure", "accepted"}], Learn(told),
           \A x \in Ext \ Requested : told[x] = known[x],
           \A x \in Requested : /\ told[x] = "accepted" => IsPlaced(x)
                                /\ told[x] = "unplaced" => IsUnplaced(x)
    PROVE  OrdersInv'
  <1>1. /\ known' = told /\ pc' = "idle" /\ intents' = <<>> /\ left' = {}
        /\ UNCHANGED <<history, others, search>>
    BY DEF Learn
  <1>2. TypeOK' /\ Sending' /\ Searching' /\ PlacedOnce'
    BY <1>1 DEF OrdersInv, TypeOK, Sending, Searching, PlacedOnce
  <1>3. \A x \in Ext : InHistory(x)' <=> InHistory(x)
    BY <1>1 DEF InHistory
  <1>4. \A x \in Requested : /\ IsPlaced(x) => InHistory(x)
                             /\ IsUnplaced(x) => ~InHistory(x)
    BY DEF OrdersInv, Sending, IsPlaced, IsUnplaced, TypeOK
  <1>5. KnowledgeTruthful'
    BY <1>1, <1>3, <1>4 DEF OrdersInv, KnowledgeTruthful
  <1> QED  BY <1>2, <1>5 DEF OrdersInv

\* An error that leaves the outcome open tells nothing.
LEMMA UncertainKeeps ==
    ASSUME OrdersInv, pc \in {"batch", "single"}, RaiseUncertain
    PROVE  OrdersInv'
  <1> DEFINE told == [x \in Ext |-> IF x \in Requested THEN "unsure" ELSE known[x]]
  <1>1. /\ told \in [Ext -> {"unplaced", "unsure", "accepted"}]
        /\ \A x \in Ext : told[x] = IF x \in Requested THEN "unsure" ELSE known[x]
        /\ Requested \subseteq Ext
    BY DEF OrdersInv, TypeOK, Requested
  <1>2. Learn(told)
    BY DEF RaiseUncertain
  <1> HIDE DEF told
  <1> QED  BY <1>1, <1>2, LearnKeeps

LEMMA FailsKeeps ==
    ASSUME OrdersInv, Fails
    PROVE  OrdersInv'
  <1>1. CASE RaiseUncertain
    BY <1>1, UncertainKeeps DEF Fails
  <1>2. CASE left = DOMAIN intents /\ Learn(known)
    <2>1. \A x \in Requested : known[x] = "unplaced" /\ IsUnplaced(x)
      BY <1>2 DEF OrdersInv, Sending, Requested, IsUnplaced
    <2> QED  BY <1>2, <2>1, LearnKeeps DEF Fails, OrdersInv, TypeOK
  <1> QED  BY <1>1, <1>2 DEF Fails

LEMMA ReplyKeeps ==
    ASSUME OrdersInv, Reply
    PROVE  OrdersInv'
  <1>1. /\ TypeOK /\ Requested \subseteq Ext
        /\ known \in [Ext -> {"unplaced", "unsure", "accepted"}]
    BY DEF OrdersInv, TypeOK, Requested
  <1>2. ASSUME pc = "batch", NEW n \in Nat, NEW m \in Nat,
               NEW succeeded \in [1..n -> Accepted], NEW failed \in [1..m -> Rejected],
               \A i \in 1..m : Meant(failed[i]),
               Honest(succeeded, failed), Answered(succeeded, failed)
        PROVE  OrdersInv'
    <2> DEFINE told == [x \in Ext |-> IF x \in Requested
                                      THEN Outcome(x, succeeded, failed) ELSE known[x]]
    <2>1. CASE Tells(succeeded, failed) /\ Learn(told)
      <3>1. \A x \in Requested : /\ told[x] = "accepted" => IsPlaced(x)
                                 /\ told[x] = "unplaced" => IsUnplaced(x)
        BY <1>1, <1>2, <2>1, AnswerTrue
      <3>2. told \in [Ext -> {"unplaced", "unsure", "accepted"}]
        BY <1>1 DEF Outcome
      <3>3. \A x \in Ext \ Requested : told[x] = known[x]
        OBVIOUS
      <3> HIDE DEF told
      <3> QED  BY <1>2, <2>1, <3>1, <3>2, <3>3, LearnKeeps
    <2> HIDE DEF told
    <2>2. CASE RaiseUncertain
      BY <1>2, <2>2, UncertainKeeps
    <2> QED  BY <1>2, <2>1, <2>2 DEF Answered, told
  <1>3. ASSUME pc = "single", NEW success \in BOOLEAN, NEW item \in Accepted,
               success /\ item.external_id \in {None, intents[1]} => left = {},
               AnsweredSingle(success, item)
        PROVE  OrdersInv'
    <2>1. CASE RaiseUncertain
      BY <1>3, <2>1, UncertainKeeps
    <2>2. CASE /\ success /\ SingleTells(item)
               /\ Learn([known EXCEPT ![intents[1]] = "accepted"])
      <3> DEFINE x == intents[1]
                 told == [known EXCEPT ![x] = "accepted"]
      <3>1. left = {}
        BY <1>3, <2>2 DEF SingleTells
      <3>2. x \in Ext /\ Requested = {x}
        BY <1>1, <1>3 DEF OrdersInv, TypeOK, Sending, Requested
      <3>3. IsPlaced(x)
        BY <1>1, <1>3, <3>1 DEF OrdersInv, TypeOK, Sending, IsPlaced
      <3> HIDE DEF x
      <3>4. /\ told \in [Ext -> {"unplaced", "unsure", "accepted"}]
            /\ told[x] = "accepted"
            /\ \A y \in Ext \ Requested : told[y] = known[y]
        BY <1>1, <3>2
      <3> HIDE DEF told
      <3>5. Learn(told)
        BY <2>2 DEF told, x
      <3> QED  BY <1>3, <3>2, <3>3, <3>4, <3>5, LearnKeeps
    <2> QED  BY <1>3, <2>1, <2>2 DEF AnsweredSingle
  <1> QED
    BY <1>2, <1>3 DEF Reply, AtMost

LEMMA SubmitKeeps ==
    ASSUME OrdersInv, NEW batch \in Batch, NEW kind \in {"batch", "single"}, Submit(batch, kind)
    PROVE  OrdersInv'
  <1>1. /\ UNCHANGED <<history, others, known, search>> /\ pc = "idle" /\ pc' = kind
        /\ intents' = batch /\ left' = DOMAIN batch
        /\ batch \in Seq(Ext) /\ (kind = "single" => Len(batch) = 1)
        /\ \A i, j \in DOMAIN batch : batch[i] = batch[j] => i = j
        /\ \A i \in DOMAIN batch : known[batch[i]] = "unplaced"
    BY OrdersAssumption DEF Submit, Valid, IsInjective
  <1>2. TypeOK' /\ Searching' /\ PlacedOnce'
    BY <1>1 DEF OrdersInv, TypeOK, Searching, PlacedOnce
  <1>3. \A x \in Ext : InHistory(x)' <=> InHistory(x)
    BY <1>1 DEF InHistory
  <1>4. Requested = {} /\ left = {}
    BY <1>1 DEF OrdersInv, Sending, Requested
  <1>5. \A x \in Ext : known[x] = "unplaced" => ~InHistory(x)
    BY <1>4 DEF OrdersInv, KnowledgeTruthful
  <1>6. Sending'
    BY <1>1, <1>3, <1>5 DEF Sending, InHistory
  <1>7. KnowledgeTruthful'
    BY <1>1, <1>3, <1>5 DEF OrdersInv, KnowledgeTruthful
  <1> QED  BY <1>2, <1>6, <1>7 DEF OrdersInv

\* An order added to the end of the history.
LEMMA Appended ==
    ASSUME TypeOK, NEW x \in Ext \cup {Foreign}, history' = Append(history, x)
    PROVE  /\ history' \in Seq(Ext \cup {Foreign}) /\ Len(history') = Len(history) + 1
           /\ \A i \in 1..Len(history) : history'[i] = history[i]
           /\ history'[Len(history) + 1] = x
           /\ \A y : InHistory(y)' <=> InHistory(y) \/ y = x
  <1>1. /\ history \in Seq(Ext \cup {Foreign}) /\ Len(history) \in Nat
        /\ DOMAIN history = 1..Len(history)
    BY DEF TypeOK
  <1>2. /\ history' \in Seq(Ext \cup {Foreign}) /\ Len(history') = Len(history) + 1
        /\ DOMAIN history' = 1..(Len(history) + 1)
        /\ \A i \in 1..Len(history) : history'[i] = history[i]
        /\ history'[Len(history) + 1] = x
    BY <1>1
  <1>3. 1..(Len(history) + 1) = 1..Len(history) \cup {Len(history) + 1}
    BY <1>1
  <1>4. \A y : InHistory(y)' <=> InHistory(y) \/ y = x
    BY <1>1, <1>2, <1>3 DEF InHistory
  <1> QED  BY <1>2, <1>4

LEMMA PlaceKeeps ==
    ASSUME OrdersInv, NEW i \in left, Place(i)
    PROVE  OrdersInv'
  <1> DEFINE x == intents[i]
  <1>1. /\ UNCHANGED <<others, known, pc, intents, search>>
        /\ pc \in {"batch", "single"} /\ left' = left \ {i} /\ history' = Append(history, x)
    BY DEF Place
  <1>2. /\ TypeOK /\ i \in DOMAIN intents /\ x \in Ext /\ x \in Requested
        /\ known[x] = "unplaced" /\ ~InHistory(x)
    BY DEF OrdersInv, TypeOK, Sending, Requested
  <1>3. \A j \in DOMAIN intents : intents[j] = x <=> j = i
    BY <1>2 DEF OrdersInv, Sending
  <1> HIDE DEF x
  <1>4. /\ history' \in Seq(Ext \cup {Foreign}) /\ Len(history') = Len(history) + 1
        /\ \A k \in 1..Len(history) : history'[k] = history[k]
        /\ history'[Len(history) + 1] = x
        /\ \A y : InHistory(y)' <=> InHistory(y) \/ y = x
    BY <1>1, <1>2, Appended
  <1>5. TypeOK' /\ Searching'
    BY <1>1, <1>4 DEF OrdersInv, TypeOK, Searching
  <1>6. Sending'
    <2>1. \A j \in DOMAIN intents : /\ known[intents[j]] = "unplaced"
                                    /\ InHistory(intents[j]) <=> j \notin left
      BY DEF OrdersInv, Sending
    <2>2. \A j \in DOMAIN intents : InHistory(intents[j])' <=> j \notin left'
      BY <1>1, <1>2, <1>3, <1>4, <2>1
    <2> QED  BY <1>1, <2>1, <2>2 DEF OrdersInv, Sending
  <1>7. KnowledgeTruthful'
    <2>1. Requested' = Requested
      BY <1>1 DEF Requested
    <2> QED  BY <1>1, <1>2, <1>4, <2>1 DEF OrdersInv, KnowledgeTruthful
  <1>8. PlacedOnce'
    <2>1. \A k \in 1..Len(history) : history[k] # x
      BY <1>2 DEF InHistory, TypeOK
    <2>2. \A j, k \in 1..Len(history) :
              history[j] = history[k] /\ history[j] \in Ext => j = k
      BY <1>2 DEF OrdersInv, PlacedOnce, TypeOK
    <2>3. DOMAIN history' = 1..(Len(history) + 1) /\ Len(history) \in Nat
      BY <1>2, <1>4 DEF TypeOK
    <2> QED  BY <1>4, <2>1, <2>2, <2>3 DEF PlacedOnce
  <1> QED  BY <1>5, <1>6, <1>7, <1>8 DEF OrdersInv

-----------------------------------------------------------------------------
(* The steps of a search, and the orders of others.                        *)

LEMMA FindKeeps ==
    ASSUME OrdersInv, NEW x \in Ext, Find(x)
    PROVE  OrdersInv'
  <1>1. /\ UNCHANGED <<history, others, known, intents, left>>
        /\ pc = "idle" /\ pc' = "search" /\ known[x] = "unsure"
        /\ search' = [NoSearch EXCEPT !.wanted = x]
    BY DEF Find
  <1>2. search' = [wanted |-> x, cursor |-> 0, seen |-> {}, pages |-> 0]
    BY <1>1 DEF NoSearch
  <1>3. /\ search' \in [wanted : Ext \cup {None}, cursor : Nat, seen : SUBSET Nat, pages : Nat]
        /\ search'.wanted = x /\ search'.cursor = 0
    BY <1>2
  <1>4. TypeOK'
    BY <1>1, <1>3 DEF OrdersInv, TypeOK
  <1>5. /\ Len(history) \in Nat /\ 1..0 = {}
    BY DEF OrdersInv, TypeOK
  <1>6. Searching'
    BY <1>1, <1>3, <1>5 DEF Searching
  <1>7. Sending' /\ KnowledgeTruthful' /\ PlacedOnce'
    BY <1>1 DEF OrdersInv, Sending, KnowledgeTruthful, PlacedOnce, InHistory, Requested
  <1> QED  BY <1>4, <1>6, <1>7 DEF OrdersInv

\* A search ends and tells the truth of the order it was for.
LEMMA EndKeeps ==
    ASSUME OrdersInv, pc = "search", NEW what \in {"unplaced", "unsure", "accepted"},
           EndSearch(what),
           what = "accepted" => InHistory(search.wanted),
           what = "unplaced" => ~InHistory(search.wanted)
    PROVE  OrdersInv'
  <1>1. /\ UNCHANGED <<history, others, intents, left>> /\ pc' = "idle"
        /\ search' = NoSearch /\ known' = [known EXCEPT ![search.wanted] = what]
    BY DEF EndSearch
  <1>2. search.wanted \in Ext /\ intents = <<>> /\ left = {}
    BY DEF OrdersInv, Searching, Sending
  <1>3. NoSearch \in [wanted : Ext \cup {None}, cursor : Nat, seen : SUBSET Nat, pages : Nat]
    BY DEF NoSearch
  <1>4. TypeOK' /\ Searching' /\ Sending' /\ PlacedOnce'
    BY <1>1, <1>2, <1>3 DEF OrdersInv, TypeOK, Searching, Sending, PlacedOnce
  <1>5. \A x : InHistory(x)' <=> InHistory(x)
    BY <1>1 DEF InHistory
  <1>6. Requested = {} /\ Requested' = {}
    BY <1>1, <1>2 DEF Requested
  <1>7. KnowledgeTruthful'
    BY <1>1, <1>2, <1>5, <1>6 DEF OrdersInv, KnowledgeTruthful, TypeOK
  <1> QED  BY <1>4, <1>7 DEF OrdersInv

\* The numbers of a page, and of the pages before it.
LEMMA PageNumbers ==
    ASSUME NEW n \in Nat, NEW c \in Nat, NEW last \in Nat, c <= last, last <= n
    PROVE  /\ \A i \in 1..last : i \in 1..c \/ i \in (c + 1)..last
           /\ \A i \in (c + 1)..last : i \in 1..n
    OBVIOUS

LEMMA PageKeeps ==
    ASSUME OrdersInv, pc = "search",
           NEW last \in Nat, search.cursor <= last, last <= Len(history),
           NEW next_cursor \in Nat \cup {None},
           IF next_cursor = None THEN last = Len(history) ELSE next_cursor <= last,
           Page(last, next_cursor)
    PROVE  OrdersInv'
  <1> DEFINE wanted == search.wanted
             cursor == search.cursor
             found == \E i \in (cursor + 1)..last : history[i] = wanted
  <1>1. /\ wanted \in Ext /\ known[wanted] = "unsure" /\ TypeOK
        /\ cursor \in Nat /\ Len(history) \in Nat /\ last \in Nat
        /\ cursor <= last /\ last <= Len(history)
        /\ DOMAIN history = 1..Len(history)
        /\ \A i \in 1..cursor : history[i] # wanted
    BY DEF OrdersInv, TypeOK, Searching
  <1> HIDE DEF wanted, cursor
  <1>2. CASE found /\ EndSearch("accepted")
    <2>1. PICK i \in (cursor + 1)..last : history[i] = wanted
      BY <1>2
    <2>2. i \in DOMAIN history
      BY <1>1, PageNumbers
    <2>3. InHistory(wanted)
      BY <2>1, <2>2 DEF InHistory
    <2> QED  BY <1>2, <2>3, EndKeeps DEF wanted
  <1>3. ASSUME ~found, NEW i \in 1..last
        PROVE  history[i] # wanted
    <2>1. i \in 1..cursor \/ i \in (cursor + 1)..last
      BY <1>1, PageNumbers
    <2> QED  BY <1>1, <1>3, <2>1
  <1>4. CASE ~found /\ Ends(next_cursor) /\ EndSearch("unplaced")
    <2>1. ~InHistory(wanted)
      BY <1>1, <1>3, <1>4 DEF InHistory, Ends
    <2> QED  BY <1>4, <2>1, EndKeeps DEF wanted
  <1>5. CASE EndSearch("unsure")
    BY <1>5, EndKeeps
  <1>6. CASE /\ ~found /\ ~Ends(next_cursor)
             /\ search' = [search EXCEPT !.cursor = next_cursor, !.pages = @ + 1,
                                         !.seen = @ \cup {next_cursor}]
             /\ UNCHANGED <<history, others, known, pc, intents, left>>
    <2>1. next_cursor \in Nat /\ next_cursor <= last
      BY <1>1, <1>6 DEF Ends
    <2>2. /\ search' \in [wanted : Ext \cup {None}, cursor : Nat, seen : SUBSET Nat, pages : Nat]
          /\ search'.wanted = wanted /\ search'.cursor = next_cursor
      <3>1. /\ search \in [wanted : Ext \cup {None}, cursor : Nat, seen : SUBSET Nat, pages : Nat]
            /\ search.pages + 1 \in Nat /\ search.seen \cup {next_cursor} \in SUBSET Nat
        <4>1. search \in [wanted : Ext \cup {None}, cursor : Nat, seen : SUBSET Nat,
                           pages : Nat]
          BY <1>1 DEF TypeOK
        <4>2. search.pages \in Nat /\ search.seen \in SUBSET Nat
          BY <4>1
        <4> QED  BY <2>1, <4>1, <4>2
      <3> QED  BY <1>6, <2>1, <3>1 DEF wanted
    <2>3. TypeOK' /\ Searching'
      BY <1>1, <1>3, <1>6, <2>1, <2>2 DEF TypeOK, Searching
    <2>4. Sending' /\ KnowledgeTruthful' /\ PlacedOnce'
      BY <1>6 DEF OrdersInv, Sending, KnowledgeTruthful, PlacedOnce, InHistory, Requested
    <2> QED  BY <2>3, <2>4 DEF OrdersInv
  <1> QED  BY <1>2, <1>4, <1>5, <1>6 DEF Page, wanted, cursor

LEMMA OtherKeeps ==
    ASSUME OrdersInv, PlaceOther
    PROVE  OrdersInv'
  <1>1. /\ history' = Append(history, Foreign) /\ others' = others + 1
        /\ UNCHANGED <<known, pc, intents, left, search>> /\ TypeOK /\ Foreign \notin Ext
    BY OrdersAssumption DEF PlaceOther, OrdersInv
  <1>2. /\ history' \in Seq(Ext \cup {Foreign}) /\ Len(history') = Len(history) + 1
        /\ \A k \in 1..Len(history) : history'[k] = history[k]
        /\ history'[Len(history) + 1] = Foreign
        /\ \A y \in Ext : InHistory(y)' <=> InHistory(y)
    BY <1>1, Appended
  <1>3. TypeOK' /\ Searching'
    BY <1>1, <1>2 DEF OrdersInv, TypeOK, Searching
  <1>4. \A i \in DOMAIN intents : intents[i] \in Ext
    BY <1>1 DEF TypeOK
  <1>5. Sending'
    <2>1. \A j \in DOMAIN intents : InHistory(intents[j])' <=> j \notin left
      BY <1>1, <1>2, <1>4 DEF OrdersInv, Sending
    <2> QED  BY <1>1, <2>1 DEF OrdersInv, Sending
  <1>6. KnowledgeTruthful'
    BY <1>1, <1>2 DEF OrdersInv, KnowledgeTruthful, Requested
  <1>7. PlacedOnce'
    <2>1. DOMAIN history' = 1..(Len(history) + 1) /\ Len(history) \in Nat
          /\ DOMAIN history = 1..Len(history)
      BY <1>1, <1>2 DEF TypeOK
    <2> QED  BY <1>1, <1>2, <2>1 DEF OrdersInv, PlacedOnce
  <1> QED  BY <1>3, <1>5, <1>6, <1>7 DEF OrdersInv

-----------------------------------------------------------------------------
LEMMA OrdersNext ==
    ASSUME OrdersInv, [Next]_vars
    PROVE  OrdersInv'
  <1>1. CASE UNCHANGED vars
    BY <1>1 DEF vars, OrdersInv, TypeOK, Sending, Searching, KnowledgeTruthful, PlacedOnce,
                InHistory, Requested
  <1>2. CASE History
    <2>1. CASE EndSearch("unsure")
      BY <1>2, <2>1, EndKeeps DEF History
    <2>2. ASSUME NEW last \in search.cursor..Len(history),
                 NEW next_cursor \in (0..Len(history)) \cup {None},
                 IF next_cursor = None THEN last = Len(history) ELSE next_cursor <= last,
                 Page(last, next_cursor)
          PROVE  OrdersInv'
      <3>1. search.cursor \in Nat /\ Len(history) \in Nat
        BY DEF OrdersInv, TypeOK
      <3>2. last \in Nat /\ search.cursor <= last /\ last <= Len(history)
        BY <3>1
      <3>3. next_cursor \in Nat \cup {None}
        BY <3>1
      <3> QED  BY <1>2, <2>2, <3>2, <3>3, PageKeeps DEF History
    <2> QED  BY <1>2, <2>1, <2>2 DEF History
  <1> QED
    BY <1>1, <1>2, SubmitKeeps, PlaceKeeps, ReplyKeeps, FailsKeeps, FindKeeps, OtherKeeps
    DEF Next

LEMMA OrdersCorrect == Spec => []OrdersInv
  <1>1. Init => OrdersInv
    BY DEF Init, NoSearch, OrdersInv, TypeOK, Sending, Searching, KnowledgeTruthful,
           PlacedOnce, InHistory, Requested
  <1> QED  BY <1>1, OrdersNext, PTL DEF Spec

\* Whatever is submitted, answered and searched, every variable stays in its
\* range.
THEOREM OrdersTypeCorrect == Spec => []TypeOK
  <1>1. OrdersInv => TypeOK
    BY DEF OrdersInv
  <1> QED  BY <1>1, OrdersCorrect, PTL

\* What callers are told of their orders is true.
THEOREM TellsTruth == Spec => []KnowledgeTruthful
  <1>1. OrdersInv => KnowledgeTruthful
    BY DEF OrdersInv
  <1> QED  BY <1>1, OrdersCorrect, PTL

\* A caller that reconciles before it submits again places no order twice.
THEOREM NeverTwice == Spec => []PlacedOnce
  <1>1. OrdersInv => PlacedOnce
    BY DEF OrdersInv
  <1> QED  BY <1>1, OrdersCorrect, PTL
=============================================================================
