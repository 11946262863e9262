----------------------------- MODULE MC_Gateway -----------------------------
(* Model-checking instance of Gateway: the type tags of an add, a cancel  *)
(* and a heartbeat, and declared lengths below the header (5), at the end *)
(* of order_id (19), at the size of MsgAddOrder (44) and above            *)
(* MAX_MESSAGE_SIZE (2000).                                                *)
EXTENDS Gateway

MCTypes == {"A", "X", "H"}
MCLens  == {5, 19, 44, 2000}
=============================================================================
