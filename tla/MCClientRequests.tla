-------------------------- MODULE MCClientRequests --------------------------
EXTENDS ClientRequests

\* get_price_ladder is part of an order, and authenticate of a refresh without a token.
MostCalls == {"read", "order", "cancel", "refresh"}
=============================================================================
