------------------------------- MODULE Orders -------------------------------
(***************************************************************************)
(* Orders of ProphetXClient (client.py): what a caller that follows        *)
(* README.md:144-158 is told of the orders it submits, alone or in a       *)
(* batch, and what a search of the order history tells it of an order      *)
(* whose fate it does not know.                                            *)
(*                                                                         *)
(* The server is outside src/.  It places some of the orders it is sent;   *)
(* its answer may be lost, be in part omitted, repeated, contradictory or  *)
(* about other orders, but does not say of an order only what is false.    *)
(* It places nothing of a request once the request has failed.             *)
(***************************************************************************)
EXTENDS Integers, Sequences, FiniteSets, Functions

CONSTANTS
    Ext,         \* external ids of the caller's orders
    Foreign,     \* the external id of any other order
    None,        \* no external id, no index
    Batch,       \* sequences of external ids that the caller submits
    BatchLimit,  \* orders a batch may have
    PageSize,    \* limit of a page of the history
    max_pages,
    MaxItems,    \* bound: items of an answer in each list
    MaxOthers    \* bound: orders placed by others

ASSUME OrdersAssumption ==
    /\ Foreign \notin Ext /\ None \notin Ext \cup {Foreign} \cup Int
    /\ Batch \subseteq Seq(Ext)
    /\ BatchLimit \in Nat /\ PageSize \in Nat \ {0} /\ max_pages \in Nat \ {0}
    /\ MaxItems \in Nat /\ MaxOthers \in Nat

VARIABLES
    history,  \* the server: external ids of the orders it placed, in their order
    others,   \* orders placed by others
    known,    \* what the caller knows of each order: "unplaced", "unsure" or "accepted"
    pc,       \* the call under way: "idle", "batch", "single" or "search"
    intents,  \* the batch under way
    left,     \* the server: indices of the intents it has not placed
    search    \* iter_order_history under way

vars == <<history, others, known, pc, intents, left, search>>

NoSearch == [wanted |-> None, cursor |-> 0, seen |-> {}, pages |-> 0]

Init ==
    /\ history = <<>> /\ others = 0
    /\ known = [x \in Ext |-> "unplaced"]
    /\ pc = "idle" /\ intents = <<>> /\ left = {} /\ search = NoSearch

-----------------------------------------------------------------------------
(* Submission.                                                             *)

\* Any other batch is refused, or empty, before anything is sent.
Valid(batch) == Len(batch) \in 1..BatchLimit /\ IsInjective(batch)

\* The request is sent; the caller submits no order that may be placed already.
Submit(batch, kind) ==
    /\ pc = "idle"
    /\ Valid(batch) /\ (kind = "single" => Len(batch) = 1)
    /\ \A i \in DOMAIN batch : known[batch[i]] = "unplaced"
    /\ pc' = kind /\ intents' = batch /\ left' = DOMAIN batch
    /\ UNCHANGED <<history, others, known, search>>

\* The server places one of the orders.
Place(i) ==
    /\ pc \in {"batch", "single"} /\ i \in left
    /\ history' = Append(history, intents[i])
    /\ left' = left \ {i}
    /\ UNCHANGED <<others, known, pc, intents, search>>

\* The caller takes in, for every order, what the call told it.
Learn(told) ==
    /\ known' = told
    /\ pc' = "idle" /\ intents' = <<>> /\ left' = {}
    /\ UNCHANGED <<history, others, search>>

Requested == {intents[i] : i \in DOMAIN intents}

\* An error whose outcome_unknown is set.
RaiseUncertain ==
    Learn([x \in Ext |-> IF x \in Requested THEN "unsure" ELSE known[x]])

\* The request fails and the server may have placed orders, or it has not and
\* the error says so.
Fails ==
    /\ pc \in {"batch", "single"}
    /\ \/ RaiseUncertain
       \/ left = DOMAIN intents /\ Learn(known)

-----------------------------------------------------------------------------
(* _parse_order_results.                                                   *)

Accepted == [external_id : Ext \cup {Foreign, None}, order_id : BOOLEAN]

\* about: the order the server means, which the caller cannot see.
Rejected ==
    [about : Ext \cup {None}, external_id : Ext \cup {Foreign, None},
     index : (-1..BatchLimit) \cup {None}]

AtMost(S, n) == UNION {[1..m -> S] : m \in 0..n}

\* Mutant: a negative index counts from the end.
IndexedFromEnd(index) ==
    IF index \in (-Len(intents))..(Len(intents) - 1)
    THEN intents[(index % Len(intents)) + 1] ELSE None

\* The intent that an index, from 0 on, tells.
Indexed(index) == IF index \in 0..(Len(intents) - 1) THEN intents[index + 1] ELSE None

Told(item) == IF item.external_id # None THEN item.external_id ELSE Indexed(item.index)

Agrees(item) == item.external_id # None => item.external_id = Indexed(item.index)

\* Mutant: an order may be told of twice, the later item wins.
TellsAny(succeeded, failed) ==
    /\ \A i \in DOMAIN succeeded : succeeded[i].order_id
    /\ \A i \in DOMAIN failed : Agrees(failed[i]) /\ Told(failed[i]) \in Requested

\* No item is without an order id, without an order of the batch, or about an
\* order that another item is about.
Tells(succeeded, failed) ==
    /\ \A i \in DOMAIN succeeded :
          succeeded[i].order_id /\ succeeded[i].external_id \in Requested
    /\ \A i \in DOMAIN failed : Agrees(failed[i]) /\ Told(failed[i]) \in Requested
    /\ \A i, j \in DOMAIN succeeded :
          succeeded[i].external_id = succeeded[j].external_id => i = j
    /\ \A i, j \in DOMAIN failed : Told(failed[i]) = Told(failed[j]) => i = j
    /\ \A i \in DOMAIN succeeded, j \in DOMAIN failed :
          succeeded[i].external_id # Told(failed[j])

Succeeded(x, items) == \E i \in DOMAIN items : items[i].external_id = x
Failed(x, items) == \E i \in DOMAIN items : Told(items[i]) = x

\* Mutant: an omitted order counts as not placed.
OmittedUnplaced(x, succeeded, failed) ==
    IF Succeeded(x, succeeded) THEN "accepted" ELSE "unplaced"

\* The outcome, as far as the caller may rely on it: an order rejected may be
\* submitted again, one the answer omits is "unknown".
Outcome(x, succeeded, failed) ==
    IF Failed(x, failed) THEN "unplaced"
    ELSE IF Succeeded(x, succeeded) THEN "accepted" ELSE "unsure"

Answered(succeeded, failed) ==
    \/ /\ Tells(succeeded, failed)
       /\ Learn([x \in Ext |-> IF x \in Requested THEN Outcome(x, succeeded, failed)
                               ELSE known[x]])
    \/ ~Tells(succeeded, failed) /\ RaiseUncertain

\* submit_order: an answer that reports success, of this order if of any.
SingleTells(item) == item.external_id \in {None, intents[1]} /\ item.order_id

AnsweredSingle(success, item) ==
    \/ success /\ SingleTells(item) /\ Learn([known EXCEPT ![intents[1]] = "accepted"])
    \/ ~(success /\ SingleTells(item)) /\ RaiseUncertain

-----------------------------------------------------------------------------
(* The answers of the server.                                              *)

IsPlaced(x) == \E i \in DOMAIN intents \ left : intents[i] = x
IsUnplaced(x) == \E i \in left : intents[i] = x

\* An item about an order carries its external id or its index, or no position
\* in the batch at all.
Meant(item) ==
    \/ item.about # None /\ item.external_id = item.about
    \/ /\ item.about # None /\ item.index \in 0..(Len(intents) - 1)
       /\ intents[item.index + 1] = item.about
    \/ item.external_id \in {None, Foreign} /\ item.index \notin 0..(Len(intents) - 1)

\* What an answer says of an order is true, or it says what is true as well.
Honest(succeeded, failed) ==
    \A x \in Requested :
        LET rejects == \E i \in DOMAIN failed : failed[i].about = x
        IN  /\ Succeeded(x, succeeded) => IsPlaced(x) \/ rejects
            /\ rejects => IsUnplaced(x) \/ Succeeded(x, succeeded)

Reply ==
    \/ /\ pc = "batch"
       /\ \E succeeded \in AtMost(Accepted, MaxItems),
             failed \in AtMost({item \in Rejected : Meant(item)}, MaxItems) :
             Honest(succeeded, failed) /\ Answered(succeeded, failed)
    \/ /\ pc = "single"
       /\ \E success \in BOOLEAN, item \in Accepted :
             /\ success /\ item.external_id \in {None, intents[1]} => left = {}
             /\ AnsweredSingle(success, item)

-----------------------------------------------------------------------------
(* find_order_by_external_id, by iter_order_history: a cursor stands for   *)
(* the orders that the pages before it told.                               *)

Find(x) ==
    /\ pc = "idle" /\ known[x] = "unsure"
    /\ pc' = "search"
    /\ search' = [NoSearch EXCEPT !.wanted = x]
    /\ UNCHANGED <<history, others, known, intents, left>>

\* The search returns or raises.
EndSearch(what) ==
    /\ known' = [known EXCEPT ![search.wanted] = what]
    /\ pc' = "idle" /\ search' = NoSearch
    /\ UNCHANGED <<history, others, intents, left>>

\* Mutant: a repeated cursor, or the last page allowed, ends the search.
EndsQuietly(next_cursor) ==
    next_cursor \in search.seen \cup {None} \/ search.pages + 1 = max_pages

\* Mutant: the end is not noticed.
EndsNever(next_cursor) == FALSE

\* There is no further page.
Ends(next_cursor) == next_cursor = None

\* The page tells the orders after its cursor up to the one with number last.
Page(last, next_cursor) ==
    LET found == \E i \in (search.cursor + 1)..last : history[i] = search.wanted
        over == next_cursor \in search.seen \/ search.pages + 1 = max_pages
    IN  \/ found /\ EndSearch("accepted")
        \/ ~found /\ Ends(next_cursor) /\ EndSearch("unplaced")
        \/ ~found /\ ~Ends(next_cursor) /\ over /\ EndSearch("unsure")
        \/ /\ ~found /\ ~Ends(next_cursor) /\ ~over
           /\ search' = [search EXCEPT !.cursor = next_cursor, !.pages = @ + 1,
                                       !.seen = @ \cup {next_cursor}]
           /\ UNCHANGED <<history, others, known, pc, intents, left>>

\* The server may give a short page, and a cursor it gave before; it ends the
\* pages only when it has told every order.
History ==
    /\ pc = "search"
    /\ \/ \E last \in search.cursor..Len(history), next_cursor \in (0..Len(history)) \cup {None} :
             /\ last <= search.cursor + PageSize
             /\ IF next_cursor = None THEN last = Len(history) ELSE next_cursor <= last
             /\ Page(last, next_cursor)
       \/ EndSearch("unsure")

\* An order of somebody else, or of the caller by other means.
PlaceOther ==
    /\ others < MaxOthers
    /\ others' = others + 1
    /\ history' = Append(history, Foreign)
    /\ UNCHANGED <<known, pc, intents, left, search>>

Next ==
    \/ \E batch \in Batch, kind \in {"batch", "single"} : Submit(batch, kind)
    \/ \E i \in left : Place(i)
    \/ Reply \/ Fails
    \/ \E x \in Ext : Find(x)
    \/ History \/ PlaceOther

Spec == Init /\ [][Next]_vars

-----------------------------------------------------------------------------
(* Properties.                                                             *)

\* Every variable stays in its range.
TypeOK ==
    /\ history \in Seq(Ext \cup {Foreign}) /\ others \in Nat
    /\ known \in [Ext -> {"unplaced", "unsure", "accepted"}]
    /\ pc \in {"idle", "batch", "single", "search"}
    /\ intents \in Seq(Ext) /\ left \subseteq DOMAIN intents
    /\ search \in [wanted : Ext \cup {None}, cursor : Nat, seen : SUBSET Nat, pages : Nat]

InHistory(x) == \E i \in DOMAIN history : history[i] = x

\* What a call tells its caller of an order is what happened to it: an order
\* accepted is in the history; one that was rejected, refused before it was
\* sent or not found by a search is not, and may be submitted again
\* (client.py:385-471, 681-730, 1221-1298).
KnowledgeTruthful ==
    \A x \in Ext :
        /\ known[x] = "accepted" => InHistory(x)
        /\ known[x] = "unplaced" /\ x \notin Requested => ~InHistory(x)

\* A caller that reconciles before it submits a replacement places no order
\* twice, whatever answers are lost or contradict themselves and however the
\* history is paged (README.md:146-153, client.py:385-430, 681-730).
PlacedOnce ==
    \A i, j \in DOMAIN history : history[i] = history[j] /\ history[i] \in Ext => i = j
=============================================================================
