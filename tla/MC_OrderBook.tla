---------------------------- MODULE MC_OrderBook ----------------------------
(* Model-checking instance of OrderBook: three prices in two bitmap words,  *)
(* three order ids, a pool that must grow once, a batch of two events and a *)
(* ring that holds three.                                                   *)
EXTENDS OrderBook

MCOrderIds == {1, 2, 3}
MCPrices   == 0 .. 2
\* the same prices and MAX_PRICE_LEVELS itself, the first one out of range
MCPricesOOR == 0 .. 3
=============================================================================
