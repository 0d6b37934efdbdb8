---------------------------- MODULE MCMarketCache ----------------------------
(* Values for two runs of MarketCache.                                     *)
(*   journal: one event with the selections "a" and "b" of one market, one *)
(*     thread, and every kind of update: merges and deletions in sequence, *)
(*     a positional container with an empty position, a replacement of the *)
(*     whole event.                                                        *)
(*   fence: two events and two threads that ask for overlapping sets of    *)
(*     them, seed them, and invalidate and clear them.                     *)
EXTENDS MarketCache, TLC

Prices == {100, 120}
NoOps == [p \in Prices |-> Keep]
Grp(kind, p, q) == [kind |-> kind, op |-> [NoOps EXCEPT ![p] = q]]
None == [kind |-> "none", op |-> NoOps]
Msg(s, n, r, b) == [event |-> 1, scope |-> s, seq |-> n, replace |-> r, body |-> b]

-----------------------------------------------------------------------------
JournalKey == {"a", "b"}
JournalKeyEvent == [k \in JournalKey |-> 1]
JournalMarketEvent == [m \in {"m"} |-> 1]
JournalLineMarket == [l \in {1} |-> "m"]
JournalScopeEvent == [s \in {"moneyline", "line"} |-> 1]

Named(k, g) == [j \in JournalKey |-> IF j = k THEN g ELSE None]
At(s, k) == [l \in {1} |-> [i \in {1, 2} |-> IF i = s THEN k ELSE "none"]]
Outright(k, g) == [groups |-> Named(k, g), sent |-> {}, slots |-> At(0, k)]
Container(s, k, g) == [groups |-> Named(k, g), sent |-> {1}, slots |-> At(s, k)]

JournalUpdates ==
    {Msg("moneyline", 1, FALSE, Outright("a", Grp("merge", 100, 1))),
     Msg("moneyline", 2, FALSE, Outright("a", Grp("merge", 100, 0))),
     Msg("line", 1, FALSE, Container(2, "b", Grp("reset", 120, 1))),
     Msg("line", -1, TRUE, Outright("b", Grp("merge", 120, 2)))}

FullBook == [groups |-> [k \in JournalKey |-> Grp("reset", 120, 2)], sent |-> {1},
             slots |-> [l \in {1} |-> [i \in {1, 2} |-> IF i = 1 THEN "a" ELSE "b"]]]
NoMarkets == Outright("no selection", None)

JournalBodies == [e \in {1} |-> {FullBook, NoMarkets}]

-----------------------------------------------------------------------------
FenceKey == {"a", "c"}
FenceKeyEvent == [k \in FenceKey |-> IF k = "a" THEN 1 ELSE 2]
FenceMarketEvent == [m \in {} |-> 1]
FenceLineMarket == [l \in {} |-> "m"]
FenceScopeEvent == [s \in {"moneyline"} |-> 1]

Level(k) == [groups |-> [j \in FenceKey |-> IF j = k THEN [kind |-> "reset", op |-> [p \in {100} |-> 1]]
                                            ELSE [kind |-> "none", op |-> [p \in {100} |-> Keep]]],
             sent |-> {}, slots |-> [l \in {} |-> NoLayout]]

FenceUpdates == {Msg("moneyline", 1, FALSE, Level("a"))}
FenceBodies == [e \in {1, 2} |-> {Level(IF e = 1 THEN "a" ELSE "c")}]

Threads == Permutations(Thread)

\* The payloads above are of the kind that the theorems of MarketCacheReplay are about.
ASSUME PayloadsOfTheRuns == OwnPayloads /\ SteadyPositions
=============================================================================
