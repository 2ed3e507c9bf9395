---------------------------- MODULE MCOhlcvCache ----------------------------
(* With five ticks to a day and the bar final after four, the ticks 13 to   *)
(* 15 are the last one at which the bar of day 2 is partial, the first at   *)
(* which it is final, and midnight.  Overseas, where it takes six, the bar  *)
(* is still partial at midnight (15) and final at 16.                       *)
EXTENDS OhlcvCache, TLC
CONSTANTS p, q

MCChains == {<<"yfinance", "alpha_vantage">>, <<"fred", "default">>}

(* The second caller only loads frames, as the verified snapshot does: what *)
(* it does to the cache is what any other call does.                        *)
MCTools ==
  (p :> {"get_indicators", "get_stock_data", "get_fundamentals", "get_macro_indicators"}
         \cup DirectMethods)
  @@ (q :> {"verify"})

MCAges == (p :> {0, 1, 3}) @@ (q :> {0})

(* A step that neither reads nor writes what the calls share is taken as    *)
(* soon as it can be: the order of such steps shows nobody anything.        *)
Private(c) == c.pc \in {"ask", "done"}
PrivateAtOnce == \A c \in Callers : Private(call[c]) => call'[c] # call[c]
=============================================================================
