---------------------------- MODULE MCDemoBroker ----------------------------
(***************************************************************************)
(* Small instances of the demo engine for TLC.  Bids are 8 (5 where a      *)
(* position must lose half its margin) and 11 and the spread 1, so a price *)
(* of 10 lies beyond the market on either side.                            *)
(***************************************************************************)
EXTENDS DemoBrokerProperties, TLC

NoBracket == [sl |-> 0, tp |-> 0]

\* A stop and a target inside the price range.
MarketBrackets == {NoBracket, [sl |-> 8, tp |-> 0], [sl |-> 0, tp |-> 12]}
OneBracket == {NoBracket}
TightBracket == {[sl |-> 8, tp |-> 0]}

MarketAmounts == {-5, 4}

\* Entries of the pending runs: zero keeps an order's price on a modify.
NoEntry == [price |-> 0, trigger |-> 0]
RestingEntries == {NoEntry, [price |-> 10, trigger |-> 0], [price |-> 9, trigger |-> 10]}
OneEntry == {[price |-> 10, trigger |-> 0]}

Forever   == [time |-> "gtc", exp |-> 0]
Lifespans == {Forever, [time |-> "day", exp |-> 0], [time |-> "specified", exp |-> 1]}
OneLifespan == {Forever}
=============================================================================
