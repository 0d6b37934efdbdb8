--------------------------- MODULE ClientRequests ---------------------------
(***************************************************************************)
(* The requests of ProphetXClient (client.py) as threads share one client: *)
(* tokens renewed before they are due or after an answer 401, retries      *)
(* after an answer 429, and what a caller is told of an order or a         *)
(* cancellation that it sent.                                              *)
(*                                                                         *)
(* _auth_lock is reentrant and is held over whole requests: a renewal is a *)
(* request made under it, and so is get_price_ladder, which may itself     *)
(* find its token due or rejected.                                         *)
(***************************************************************************)
EXTENDS Naturals, FiniteSets

CONSTANTS
    Caller,    \* threads; each makes one call
    Call,      \* the calls they make: a subset of Calls
    MaxRetry,  \* max_429_retries
    MaxToken,  \* bound: access tokens that the server issues
    Nobody

Calls == {"read", "ladder", "order", "cancel", "authenticate", "refresh"}

ASSUME CallAssumption ==
    Call \subseteq Calls /\ Nobody \notin Caller /\ MaxRetry \in Nat /\ MaxToken \in Nat

VARIABLES
    access,    \* _access_token, by the number of its issue (0: none); the refresh
               \* token is there as soon as a login gave both
    due,       \* the clock passed _refresh_at
    ladder,    \* _price_ladder is known
    closed,
    auth,      \* who holds _auth_lock
    caller,    \* where each thread is in its call
    issued,    \* the server: tokens issued so far
    accepted,  \* the server: tokens it accepts
    done       \* history, per thread: requests sent for its call, times the server carried
               \* the call out, and tokens of the call that the server rejected

tokens == <<access, due>>
server == <<issued, accepted>>
vars == <<tokens, ladder, closed, auth, caller, server, done>>

NoCall == [pc |-> "idle", op |-> "none", stage |-> "main", token |-> 0, retry_auth |-> TRUE,
           retries |-> 0, renewal |-> "none", why |-> "none", result |-> "none"]

Init ==
    /\ access = 0 /\ due = FALSE /\ ladder = FALSE /\ closed = FALSE
    /\ auth = Nobody
    /\ caller = [c \in Caller |-> NoCall]
    /\ issued = 0 /\ accepted = {}
    /\ done = [c \in Caller |-> [sent |-> 0, carried |-> 0, rejected |-> {}]]

-----------------------------------------------------------------------------
(* Helpers.                                                                *)

At(c, pc) == caller[c].pc = pc
Goto(c, pc) == caller' = [caller EXCEPT ![c].pc = pc]
Fresh == access # 0 /\ ~due

\* The request under way is an order or a cancellation.
Mutates(c) == caller[c].stage = "main" /\ caller[c].op \in {"order", "cancel"}

\* submit_order makes sure of the token itself, before it makes its request.
Preflight(c) == caller[c].stage = "main" /\ caller[c].op = "order"

\* Mutant: a lock that its holder cannot take again.
FreeOnce(c) == auth = Nobody
\* The lock is free or c's own.
Free(c) == auth \in {Nobody, c}

\* get_price_ladder holds the lock until it returns; a renewal gives back what it took.
Release(c) == auth' = IF caller[c].stage = "ladder" THEN auth ELSE Nobody

\* The call ends: it returns or it raises, through every with block.
End(c, result) ==
    /\ caller' = [caller EXCEPT ![c] = [NoCall EXCEPT !.pc = "done", !.op = caller[c].op,
                                           !.stage = caller[c].stage, !.result = result]]
    /\ auth' = IF auth = c THEN Nobody ELSE auth

\* Mutant: outcome_unknown is not set.
RaisePlain(c) == End(c, "failed")
\* An error after which the call may have been carried out (outcome_unknown=mutation).
RaiseUncertain(c) == End(c, IF Mutates(c) THEN "unknown" ELSE "failed")

\* The server carries out n times what c's request asks for.
Carry(c, n) ==
    done' = [done EXCEPT ![c].carried = IF Mutates(c) THEN @ + n ELSE @]

-----------------------------------------------------------------------------
(* The calls.                                                              *)

Begin(c, op) ==
    /\ caller[c] = NoCall
    /\ caller' = [caller EXCEPT ![c].op = op,
           ![c].stage = IF op \in {"order", "ladder"} THEN "ladder" ELSE "main",
           ![c].pc = CASE op \in {"read", "cancel"} -> "begin"
                       [] op \in {"order", "ladder"} -> "ladder"
                       [] OTHER -> "explicit"]
    /\ UNCHANGED <<tokens, ladder, closed, auth, server, done>>

\* authenticate() or refresh_session(), called from outside: no fallback to a login
\* when a refresh is rejected, but a login when there is nothing to refresh with.
Explicit(c) ==
    /\ At(c, "explicit") /\ Free(c)
    /\ auth' = c
    /\ caller' = [caller EXCEPT ![c].pc = "renew", ![c].why = "call",
           ![c].renewal = IF caller[c].op = "refresh" /\ access # 0 THEN "refresh" ELSE "login"]
    /\ UNCHANGED <<tokens, ladder, closed, server, done>>

\* get_price_ladder for an order, and get_price_ladder(refresh=True).
GetLadder(c) ==
    /\ At(c, "ladder") /\ Free(c)
    /\ \/ /\ ladder /\ caller[c].op = "order"
          /\ caller' = [caller EXCEPT ![c].stage = "main", ![c].pc = "ensure"]
          /\ UNCHANGED auth
       \/ /\ ~(ladder /\ caller[c].op = "order")
          /\ auth' = c
          /\ Goto(c, "begin")
    /\ UNCHANGED <<tokens, ladder, closed, server, done>>

\* _request begins, for the first time or after an answer 401.
BeginRequest(c) ==
    /\ At(c, "begin")
    /\ \/ closed /\ End(c, "failed")
       \/ /\ ~closed
          /\ Goto(c, IF caller[c].retry_auth /\ ~Preflight(c) THEN "ensure" ELSE "acquire")
          /\ UNCHANGED auth
    /\ UNCHANGED <<tokens, ladder, closed, server, done>>

-----------------------------------------------------------------------------
(* Tokens.                                                                 *)

\* Where _ensure_access_token returns to.
Ensured(c) == IF Preflight(c) THEN "begin" ELSE "acquire"

\* _ensure_access_token looks without the lock ...
Ensure(c) ==
    /\ At(c, "ensure")
    /\ Goto(c, IF Fresh THEN Ensured(c) ELSE "lock")
    /\ UNCHANGED <<tokens, ladder, closed, auth, server, done>>

Renew(c, renewal, why) ==
    /\ auth' = c
    /\ caller' = [caller EXCEPT ![c].pc = "renew", ![c].renewal = renewal, ![c].why = why,
                                ![c].retries = 0]

\* ... and again with it.
EnsureLocked(c) ==
    /\ At(c, "lock") /\ Free(c)
    /\ \/ Fresh /\ Goto(c, Ensured(c)) /\ UNCHANGED auth
       \/ ~Fresh /\ Renew(c, IF access # 0 THEN "refresh" ELSE "login", "ensure")
    /\ UNCHANGED <<tokens, ladder, closed, server, done>>

\* Mutant: whoever was rejected renews the token.
RenewAlways(c) ==
    /\ At(c, "rejected") /\ Free(c)
    /\ Renew(c, "refresh", "rejected")
    /\ UNCHANGED <<tokens, ladder, closed, server, done>>

\* The request is made once more, with the token of then.
Again(c) == caller' = [caller EXCEPT ![c].pc = "begin", ![c].retry_auth = FALSE,
                           ![c].retries = 0, ![c].renewal = "none", ![c].why = "none"]

\* _refresh_after_401: unless somebody else renewed the token that was rejected.
RenewRejected(c) ==
    /\ At(c, "rejected") /\ Free(c)
    /\ \/ access # caller[c].token /\ Again(c) /\ UNCHANGED auth
       \/ access = caller[c].token /\ Renew(c, "refresh", "rejected")
    /\ UNCHANGED <<tokens, ladder, closed, server, done>>

\* The scheduler let the renewal go: it is sent.
SendRenewal(c) ==
    /\ At(c, "renew")
    /\ \/ closed /\ End(c, "failed")
       \/ ~closed /\ Goto(c, "renewing") /\ UNCHANGED auth
    /\ UNCHANGED <<tokens, ladder, closed, server, done>>

\* The server issues a token: refresh_session and authenticate store it.
Renewed(c) ==
    /\ At(c, "renewing") /\ issued < MaxToken
    /\ issued' = issued + 1 /\ accepted' = accepted \cup {issued'}
    /\ access' = issued' /\ due' = FALSE
    /\ \/ caller[c].why = "call" /\ End(c, "ok")
       \/ caller[c].why = "rejected" /\ Again(c) /\ Release(c)
       \/ /\ caller[c].why = "ensure" /\ Release(c)
          /\ caller' = [caller EXCEPT ![c].pc = Ensured(c), ![c].retries = 0,
                                      ![c].renewal = "none", ![c].why = "none"]
    /\ UNCHANGED <<ladder, closed, done>>

\* The server answers 401 to a renewal: log in, unless that is what was refused.
RenewalRejected(c) ==
    /\ At(c, "renewing")
    /\ IF caller[c].renewal = "refresh" /\ caller[c].why # "call"
       THEN /\ caller' = [caller EXCEPT ![c].pc = "renew", ![c].renewal = "login",
                                        ![c].retries = 0]
            /\ UNCHANGED auth
       ELSE End(c, "failed")
    /\ UNCHANGED <<tokens, ladder, closed, server, done>>

RenewalLimited(c) ==
    /\ At(c, "renewing")
    /\ IF caller[c].retries < MaxRetry
       THEN /\ caller' = [caller EXCEPT ![c].pc = "renew", ![c].retries = @ + 1]
            /\ UNCHANGED auth
       ELSE End(c, "failed")
    /\ UNCHANGED <<tokens, ladder, closed, server, done>>

\* A renewal fails otherwise: the call raises that error.
RenewalFails(c) ==
    /\ At(c, "renewing") /\ End(c, "failed")
    /\ UNCHANGED <<tokens, ladder, closed, server, done>>

-----------------------------------------------------------------------------
(* The request.                                                            *)

\* Mutant: a request made again carries the token it had.
SendSame(c) ==
    /\ At(c, "acquire")
    /\ \/ closed /\ End(c, "failed") /\ UNCHANGED done
       \/ /\ ~closed
          /\ caller' = [caller EXCEPT ![c].pc = "sent",
                                      ![c].token = IF @ = 0 THEN access ELSE @]
          /\ done' = [done EXCEPT ![c].sent = @ + 1]
          /\ UNCHANGED auth
    /\ UNCHANGED <<tokens, ladder, closed, server>>

\* The scheduler let the request go: it is sent with the token of now.
Send(c) ==
    /\ At(c, "acquire")
    /\ \/ closed /\ End(c, "failed") /\ UNCHANGED done
       \/ /\ ~closed
          /\ caller' = [caller EXCEPT ![c].pc = "sent", ![c].token = access]
          /\ done' = [done EXCEPT ![c].sent = @ + 1]
          /\ UNCHANGED auth
    /\ UNCHANGED <<tokens, ladder, closed, server>>

Accepted(c) == caller[c].token \in accepted

\* 200 and a good body.  The ladder is stored, and an order goes on with it.
Succeeds(c) ==
    /\ At(c, "sent") /\ Accepted(c)
    /\ \/ /\ caller[c].op = "order" /\ caller[c].stage = "ladder"
          /\ caller' = [caller EXCEPT ![c] = [NoCall EXCEPT !.pc = "ensure", !.op = "order"]]
          /\ auth' = Nobody
          /\ done' = [done EXCEPT ![c] = [@ EXCEPT !.sent = 0, !.rejected = {}]]
       \/ /\ ~(caller[c].op = "order" /\ caller[c].stage = "ladder")
          /\ End(c, "ok") /\ Carry(c, 1)
    /\ ladder' = (ladder \/ caller[c].stage = "ladder")
    /\ UNCHANGED <<tokens, closed, server>>

\* 200, and a body that is not what it should be.
Unreadable(c) ==
    /\ At(c, "sent") /\ Accepted(c)
    /\ RaiseUncertain(c) /\ Carry(c, 1)
    /\ UNCHANGED <<tokens, ladder, closed, server>>

\* Mutant: the request is made again.
BreaksAndRetries(c) ==
    /\ At(c, "sent")
    /\ \E n \in IF Accepted(c) THEN {0, 1} ELSE {0} : Carry(c, n)
    /\ IF caller[c].retries < MaxRetry
       THEN /\ caller' = [caller EXCEPT ![c].pc = "acquire", ![c].retries = @ + 1]
            /\ UNCHANGED auth
       ELSE RaiseUncertain(c)
    /\ UNCHANGED <<tokens, ladder, closed, server>>

\* The transport fails, or 408 or 5xx: nobody knows how far the request came.
Breaks(c) ==
    /\ At(c, "sent")
    /\ \E n \in IF Accepted(c) THEN {0, 1} ELSE {0} : Carry(c, n)
    /\ RaiseUncertain(c)
    /\ UNCHANGED <<tokens, ladder, closed, server>>

\* Any other status that is no success: the server did nothing.
Refused(c) ==
    /\ At(c, "sent") /\ End(c, "failed")
    /\ UNCHANGED <<tokens, ladder, closed, server, done>>

\* 401: renew the token and make the request again, once.
Rejected(c) ==
    /\ At(c, "sent") /\ ~Accepted(c)
    /\ done' = [done EXCEPT ![c].rejected = @ \cup {caller[c].token}]
    /\ IF caller[c].retry_auth
       THEN Goto(c, "rejected") /\ UNCHANGED auth
       ELSE End(c, "failed")
    /\ UNCHANGED <<tokens, ladder, closed, server>>

\* Mutant: orders and cancellations are retried like everything else.
LimitedForAll(c) ==
    /\ At(c, "sent")
    /\ IF caller[c].retries < MaxRetry
       THEN /\ caller' = [caller EXCEPT ![c].pc = "acquire", ![c].retries = @ + 1]
            /\ UNCHANGED auth
       ELSE End(c, "failed")
    /\ UNCHANGED <<tokens, ladder, closed, server, done>>

\* Mutant: one retry too many.
LimitedOnceMore(c) ==
    /\ At(c, "sent")
    /\ IF ~Mutates(c) /\ caller[c].retries <= MaxRetry
       THEN /\ caller' = [caller EXCEPT ![c].pc = "acquire", ![c].retries = @ + 1]
            /\ UNCHANGED auth
       ELSE End(c, "failed")
    /\ UNCHANGED <<tokens, ladder, closed, server, done>>

\* 429: whatever is no order and no cancellation is sent again, up to MaxRetry times.
Limited(c) ==
    /\ At(c, "sent")
    /\ IF ~Mutates(c) /\ caller[c].retries < MaxRetry
       THEN /\ caller' = [caller EXCEPT ![c].pc = "acquire", ![c].retries = @ + 1]
            /\ UNCHANGED auth
       ELSE End(c, "failed")
    /\ UNCHANGED <<tokens, ladder, closed, server, done>>

-----------------------------------------------------------------------------
(* The surroundings, and the specification.                                *)

\* The clock passes _refresh_at.
Age ==
    /\ access # 0 /\ ~due
    /\ due' = TRUE
    /\ UNCHANGED <<access, ladder, closed, auth, caller, server, done>>

\* The server drops a token, whatever it said of its expiry.
Revoke(t) ==
    /\ t \in accepted
    /\ accepted' = accepted \ {t}
    /\ UNCHANGED <<tokens, ladder, closed, auth, caller, issued, done>>

Close ==
    /\ ~closed
    /\ closed' = TRUE
    /\ UNCHANGED <<tokens, ladder, auth, caller, server, done>>

Renewing(c) == SendRenewal(c) \/ Renewed(c) \/ RenewalRejected(c) \/ RenewalLimited(c) \/ RenewalFails(c)
Answer(c) ==
    \/ Succeeds(c) \/ Unreadable(c) \/ Breaks(c)
    \/ Refused(c) \/ Rejected(c) \/ Limited(c)
Step(c) ==
    \/ Explicit(c) \/ GetLadder(c) \/ BeginRequest(c)
    \/ Ensure(c) \/ EnsureLocked(c) \/ RenewRejected(c) \/ Renewing(c)
    \/ Send(c) \/ Answer(c)

Next ==
    \/ \E c \in Caller, op \in Call : Begin(c, op)
    \/ \E c \in Caller : Step(c)
    \/ Age \/ Close \/ \E t \in accepted : Revoke(t)

Spec == Init /\ [][Next]_vars

\* A call that began goes on: every wait in it, for the lock, for the scheduler or for
\* an answer (the HTTP timeout), ends if nobody holds the lock for ever.
FairSpec == Spec /\ \A c \in Caller : WF_vars(Step(c))

-----------------------------------------------------------------------------
(* Properties.                                                             *)

\* What is known of a thread and its call.
CallState ==
    [pc : {"idle", "explicit", "ladder", "begin", "ensure", "lock", "renew", "renewing",
           "acquire", "sent", "rejected", "done"},
     op : Calls \cup {"none"}, stage : {"ladder", "main"}, token : Nat,
     retry_auth : BOOLEAN, retries : 0..MaxRetry, renewal : {"none", "refresh", "login"},
     why : {"none", "call", "ensure", "rejected"},
     result : {"none", "ok", "failed", "unknown"}]

\* Tokens, the lock and the threads' places in their calls are of the expected kinds;
\* retries stay within max_429_retries.
TypeOK ==
    /\ access \in Nat /\ issued \in 0..MaxToken /\ accepted \subseteq 1..issued
    /\ due \in BOOLEAN /\ ladder \in BOOLEAN /\ closed \in BOOLEAN
    /\ auth \in Caller \cup {Nobody}
    /\ caller \in [Caller -> CallState]
    /\ done \in [Caller -> [sent : Nat, carried : Nat, rejected : SUBSET Nat]]

\* The server carries out an order or a cancellation at most once per call, whatever
\* is renewed and retried on its way (_request: mutations are not retried after an
\* answer that leaves the outcome open).
CarriedOnce == \A c \in Caller : done[c].carried <= 1

\* What the caller is told is true: an error without outcome_unknown means that nothing
\* was carried out, a return means that it was.
OutcomeTruthful ==
    \A c \in Caller : At(c, "done") /\ caller[c].op \in {"order", "cancel"} =>
       /\ caller[c].result = "failed" => done[c].carried = 0
       /\ caller[c].result = "ok" => done[c].carried = 1

\* An order or a cancellation is sent at most twice, the second time only after a 401;
\* anything else at most 1 + max_429_retries times on each side of one.
SendsBounded ==
    \A c \in Caller :
       /\ done[c].sent <= IF Mutates(c) THEN 2 ELSE 2 * (MaxRetry + 1)
       /\ Mutates(c) /\ done[c].sent = 2 => done[c].rejected # {}

\* A request that is made again after a 401 never carries a token that was rejected
\* before, although the token is read outside the lock.
RetryCarriesAnotherToken ==
    \A c \in Caller : At(c, "sent") => caller[c].token \notin done[c].rejected

\* A token is replaced only when there is none, when it is due, when a request that
\* carried it was rejected, or on demand: threads that were rejected together renew it
\* once (_refresh_after_401), threads that find it due together too.
RenewedWhenNeeded ==
    [][access' # access =>
          \/ access = 0 \/ due
          \/ \E c \in Caller : access \in done[c].rejected \/ caller[c].why = "call"]_vars

\* Every call that began ends, though calls make requests while they hold the lock.
EveryCallEnds ==
    \A c \in Caller : caller[c].pc # "idle" ~> At(c, "done")
=============================================================================
