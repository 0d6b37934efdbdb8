------------------------------ MODULE MCLiveFeed ------------------------------
(* One event with two selections: on the two positions of one line, or on  *)
(* two lines, of a market each or of the same market.                      *)
EXTENDS LiveFeed, TLC

OneOf(S, v) == [x \in S |-> v]
AllEvent1 == OneOf({"a", "b"}, 1)
MarketsEvent1 == OneOf({"m", "n"}, 1)
ScopesEvent1 == OneOf({1, 2}, 1)

\* Both selections on line 1.
OneLine == [l \in {1} |-> [s \in {1, 2} |-> IF s = 1 THEN "a" ELSE "b"]]
OneLineMarket == OneOf({1}, "m")
\* A line each.
TwoLines == [l \in {1, 2} |-> [s \in {1} |-> IF l = 1 THEN "a" ELSE "b"]]
TwoMarkets == [l \in {1, 2} |-> IF l = 1 THEN "m" ELSE "n"]
SameMarket == OneOf({1, 2}, "m")

SameScope == OneOf({"a", "b"}, 1)
OwnScope == [k \in {"a", "b"} |-> IF k = "a" THEN 1 ELSE 2]

ByPrice == [wholeLines |-> FALSE, reorder |-> FALSE, layoutKnown |-> FALSE]
ByLine == [wholeLines |-> TRUE, reorder |-> TRUE, layoutKnown |-> TRUE]
EitherMode == {ByPrice, ByLine}
JustByPrice == {ByPrice}
LinesInOrder == {[ByLine EXCEPT !.reorder = FALSE]}

Threads == Permutations(Thread)
=============================================================================
