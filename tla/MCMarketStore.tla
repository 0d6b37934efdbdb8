---------------------------- MODULE MCMarketStore ----------------------------
(* Two events with one selection each: unknown or offered.                  *)
EXTENDS MarketStore

Depths == [Sel -> {Unknown, 1}]
\* The answer lists the first event's selection, no selection, or not the
\* event; the second event is always listed.
Listed == [explicit |-> TRUE, listed |-> Sel]
ListedOrNot ==
    [e \in Event |-> IF e = 1 THEN {Listed, [Listed EXCEPT !.listed = {}], NoAnswer}
                     ELSE {Listed}]
CallsMade == {<<"markets", {1}>>, <<"forced", {1}>>, <<"markets", {1, 2}>>}
NothingKnown == [s \in Sel |-> Unknown]
=============================================================================
