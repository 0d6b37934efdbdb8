------------------------------- MODULE MCStream -------------------------------
(* Neither the events nor the calls are told apart.                        *)
EXTENDS Stream, TLC

Interchangeable == Permutations(Caller) \cup Permutations(Event)
=============================================================================
