------------------------------ MODULE MCConverged ------------------------------
(* The exchange and the client for which LiveFeedProofs proves Converged.  *)
EXTENDS MCLiveFeed

\* The hypotheses of the theorem ConvergedCorrect: messages whose order can be told,
\* and a client that refreshes while it believes it is connected.
ASSUME ConvergedAssumption == SteadyExchange /\ "down" \notin RefreshWhen
=============================================================================
