------------------------------ MODULE MCOrders ------------------------------
(* Batches of one or two orders, one that names an order twice, and one     *)
(* that is too long.                                                       *)
EXTENDS Orders

Batches == {<<"a">>, <<"a", "b">>, <<"b", "b">>, <<"a", "b", "a">>}
=============================================================================
