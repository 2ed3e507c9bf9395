--------------------------- MODULE VendorRouting ---------------------------
(***************************************************************************)
(* The data tools of the agents (dataflows/interface.py): the chain of     *)
(* vendors a method is routed along, what each vendor function makes of    *)
(* its source's response, and the verdict when the chain is exhausted.     *)
(*                                                                         *)
(* A response of a remote source is                                        *)
(*   rows   usable data           empty  nothing for this symbol           *)
(*   stale  rows of long ago      limit  throttled                         *)
(*   nokey  no or a bad API key   fault  network, HTTP or parse failure    *)
(*   unsupported  refused by the vendor function before any request        *)
(* and the outcome of a vendor function for the router is                  *)
(*   data           an answer (possibly "none reported")                   *)
(*   text           an error put into words and returned as an answer      *)
(*   nodata         NoMarketDataError                                      *)
(*   ratelimit      VendorRateLimitError                                   *)
(*   notconfigured  VendorNotConfiguredError                               *)
(*   unsupported    ValueError: not offered by this vendor                 *)
(*   error          any other exception                                    *)
(*   silent         a failure answered as if nothing had been posted       *)
(***************************************************************************)
EXTENDS Naturals, FiniteSets, Functions, Subsequences

Responses == {"rows", "empty", "stale", "limit", "nokey", "fault", "unsupported"}
Outcomes == {"data", "text", "silent", "nodata", "ratelimit", "notconfigured", "unsupported", "error"}
Verdicts == {"", "data", "text", "silent", "NO_DATA", "DATA_UNAVAILABLE", "raised", "guarded"}

Statements == {"get_balance_sheet", "get_cashflow", "get_income_statement"}
NewsMethods == {"get_news", "get_global_news", "get_insider_transactions"}
EquityMethods == {"get_stock_data", "get_indicators", "get_fundamentals"}
                 \cup Statements \cup NewsMethods
Methods == EquityMethods \cup {"get_macro_indicators", "get_prediction_markets"}

(* historical_bist_fundamentals_guard: no vendor is asked for the figures   *)
(* of a BIST company as of a past day, or of no (valid) day at all.         *)
Guarded(m, bist, dated, curr, today) ==
  bist /\ m \in Statements \cup {"get_fundamentals"} /\ (~dated \/ curr < today)

OptionalMethods == {"get_macro_indicators", "get_prediction_markets"}

(* VENDOR_METHODS: the vendors of a method, in the order of the table. *)
VendorMethods(m) ==
  CASE m = "get_macro_indicators"   -> <<"fred">>
    [] m = "get_prediction_markets" -> <<"polymarket">>
    [] m = "get_global_news"        -> <<"yfinance", "alpha_vantage">>
    [] OTHER                        -> <<"alpha_vantage", "yfinance">>

(* The configured list is the chain; "default" alone means every vendor. *)
VendorChain(m, configured) ==
  LET explicit == ElementsAt(configured,
                    {i \in DOMAIN configured : configured[i] \notin {"", "default"}})
  IN  IF explicit = << >> THEN VendorMethods(m)
      ELSE ElementsAt(explicit, {i \in DOMAIN explicit : explicit[i] \in Range(VendorMethods(m))})

-----------------------------------------------------------------------------
(* The vendor functions that keep no state: response |-> outcome.  Each     *)
(* one that catches Exception turns a failure into an answer.               *)

YFinPrices(r) ==
  CASE r = "rows" -> "data" [] r \in {"empty", "stale"} -> "nodata" [] OTHER -> "error"

YFinFundamentals(r) ==
  CASE r \in {"rows", "stale"} -> "data" [] r = "empty" -> "nodata" [] OTHER -> "text"
YFinBalanceSheet(r) ==
  CASE r \in {"rows", "stale"} -> "data" [] r = "empty" -> "nodata" [] OTHER -> "text"
YFinCashflow(r) ==
  CASE r \in {"rows", "stale"} -> "data" [] r = "empty" -> "nodata" [] OTHER -> "text"
YFinIncome(r) ==
  CASE r \in {"rows", "stale"} -> "data" [] r = "empty" -> "nodata" [] OTHER -> "text"

YFinInsider(r) == IF r \in {"rows", "stale", "empty"} THEN "data" ELSE "text"
YFinNews(r) == IF r \in {"rows", "stale", "empty"} THEN "data" ELSE "text"
YFinGlobalNews(r) == IF r \in {"rows", "stale", "empty"} THEN "data" ELSE "text"

(* _make_api_request: a throttled call and a refused key are told apart; a  *)
(* body without rows is an answer like any other.                           *)
AlphaRequest(r) ==
  CASE r = "limit" -> "ratelimit" [] r = "nokey" -> "notconfigured"
    [] r = "fault" -> "error"     [] OTHER -> "data"
AlphaIndicator(r) ==
  CASE r = "nokey" -> "notconfigured" [] r = "unsupported" -> "unsupported"
    [] r \in {"rows", "stale"} -> "data" [] OTHER -> "text"

(* Rows out of the range asked for and reports of a later date are dropped; *)
(* a body the filter cannot read is handed on as it came.                   *)
AlphaStock(r) == AlphaRequest(r)
AlphaFundamentals(r) == AlphaRequest(r)
AlphaNews(r) == AlphaRequest(r)

(* A key that is not set is known before the request; a refused one is an   *)
(* HTTP 400 like any other.                                                 *)
FredOutcomes(r) ==
  CASE r = "nokey" -> {"notconfigured", "error"} [] r \in {"limit", "fault"} -> {"error"}
    [] OTHER -> {"data"}

(* A network failure is answered in words; a body that is no JSON object    *)
(* raises.                                                                  *)
PolymarketOutcomes(r) ==
  CASE r \in {"rows", "stale", "empty"} -> {"data"} [] r = "limit" -> {"text"}
    [] OTHER -> {"text", "error"}

VendorOutcomes(v, m, r) ==
  CASE v = "fred" -> FredOutcomes(r)
    [] v = "polymarket" -> PolymarketOutcomes(r)
    [] v = "alpha_vantage" ->
         {CASE m = "get_indicators" -> AlphaIndicator(r)
            [] m = "get_stock_data" -> AlphaStock(r)
            [] m \in NewsMethods -> AlphaNews(r)
            [] OTHER -> AlphaFundamentals(r)}
    [] OTHER ->
         {CASE m = "get_stock_data" -> YFinPrices(r)
            [] m = "get_fundamentals" -> YFinFundamentals(r)
            [] m = "get_balance_sheet" -> YFinBalanceSheet(r)
            [] m = "get_cashflow" -> YFinCashflow(r)
            [] m = "get_income_statement" -> YFinIncome(r)
            [] m = "get_insider_transactions" -> YFinInsider(r)
            [] m = "get_news" -> YFinNews(r)
            [] OTHER -> YFinGlobalNews(r)}

(* What a source can answer: only the keyed vendors know "nokey", and only  *)
(* one of the two indicator vendors lacks an indicator the other offers.    *)
VendorResponses(v, m) ==
  {r \in Responses : /\ r = "nokey" => v \in {"alpha_vantage", "fred"}
                     /\ r = "unsupported" => v = "alpha_vantage" /\ m = "get_indicators"}

-----------------------------------------------------------------------------
(* The tools that ask their source themselves, some with several requests:  *)
(* the set of the responses that came back |-> outcome.                     *)

Endpoints == {"get_market_snapshot", "get_price_history", "get_ipo_calendar", "get_ipo_detail"}
DirectMethods ==
  Endpoints \cup {"fetch_reddit_posts", "fetch_stocktwits_messages", "get_kap_disclosures"}
Usable(R) == R \cap {"rows", "stale"} # {}
Failing(R) == R \cap {"limit", "fault"} # {}

(* Each instrument fails on its own, one without a close like the others;   *)
(* a list of the calendar that is empty is an answer.                       *)
MarketSnapshot(R) == IF Usable(R) THEN "data" ELSE "text"
IpoCalendar(R) == IF R \subseteq {"limit", "fault"} THEN "text" ELSE "data"

(* The yearly statistics of a chart are optional. *)
PriceHistory(R) ==
  CASE Usable(R) -> "data" [] R = {"empty"} -> "nodata" [] OTHER -> "error"

(* Any HTTP error raises, so "no such page" is only known from a page.      *)
IpoDetail(R) ==
  CASE Usable(R) -> "data" [] R = {"empty"} -> "nodata" [] OTHER -> "error"

(* One feed; a throttled first request is repeated once, r is the last one. *)
(* Its failure is an empty list, and the report says "no posts found".      *)
RedditFeed(r) == IF r \in {"rows", "stale"} THEN "posts" ELSE "none"
RedditPosts(R) ==
  IF \E r \in R : Failing({r}) /\ RedditFeed(r) = "none" THEN "silent" ELSE "data"

(* A body that is no list of messages raises. *)
StockTwitsOutcomes(R) ==
  CASE ~Failing(R) -> {"data"} [] R = {"limit"} -> {"text"} [] OTHER -> {"text", "error"}

(* No disclosure is an answer, no such company a status like any failure.   *)
KapOutcomes(R) ==
  CASE Usable(R) -> {"data"} [] R = {"empty"} -> {"data", "text"} [] OTHER -> {"text"}

(* Sixteen instruments, two lists, three feeds. *)
Requests(m) ==
  CASE m = "get_market_snapshot" -> 16 [] m = "get_ipo_calendar" -> 2
    [] m = "fetch_reddit_posts" -> 3   [] OTHER -> 1
SourceResponses(m) ==
  {R \in SUBSET (Responses \ {"nokey", "unsupported"}) : Cardinality(R) \in 1 .. Requests(m)}

DirectOutcomes(m, R) ==
  CASE m = "get_market_snapshot" -> {MarketSnapshot(R)}
    [] m = "get_ipo_calendar" -> {IpoCalendar(R)}
    [] m = "fetch_reddit_posts" -> {RedditPosts(R)}
    [] m = "get_price_history" -> {PriceHistory(R)}
    [] m = "get_ipo_detail" -> {IpoDetail(R)}
    [] m = "fetch_stocktwits_messages" -> StockTwitsOutcomes(R)
    [] OTHER -> KapOutcomes(R)

-----------------------------------------------------------------------------
(* route_to_vendor: one scan of the chain. *)

Errors == {"notconfigured", "unsupported", "error"}
ValueErrors == {"notconfigured", "unsupported"}   \* the indicator tool answers with their text

Scan(chain) == [left |-> chain, noData |-> FALSE, firstError |-> "", verdict |-> ""]

(* The verdict once no vendor is left.  (ErrorFirst: the wrong order.) *)
ErrorFirst(m, s) ==
  CASE s.firstError # "" /\ m \in OptionalMethods -> "DATA_UNAVAILABLE"
    [] s.firstError = "" /\ s.noData -> "NO_DATA"
    [] OTHER -> "raised"
Exhausted(m, s) ==
  CASE s.noData -> "NO_DATA"
    [] ~s.noData /\ s.firstError # "" /\ m \in OptionalMethods -> "DATA_UNAVAILABLE"
    [] OTHER -> IF m = "get_indicators" /\ s.firstError \in ValueErrors THEN "text" ELSE "raised"

(* The scan after the vendor at its head. *)
AfterVendor(m, s, outcome) ==
  LET t == [s EXCEPT !.left = Tail(@),
                     !.noData = @ \/ outcome = "nodata",
                     !.firstError = IF @ = "" /\ outcome \in Errors THEN outcome ELSE @]
  IN  IF outcome \in {"data", "text", "silent"} THEN [s EXCEPT !.left = << >>, !.verdict = outcome]
      ELSE IF t.left = << >> THEN [t EXCEPT !.verdict = Exhausted(m, t)]
      ELSE t

(* No configured vendor serves the method: ValueError before any call. *)
NoVendor(m) == IF m = "get_indicators" THEN "text" ELSE "raised"
StartScan(m, configured) ==
  LET chain == IF m \in DirectMethods THEN <<m>> ELSE VendorChain(m, configured)
  IN  IF chain = << >> THEN [Scan(chain) EXCEPT !.verdict = NoVendor(m)] ELSE Scan(chain)
=============================================================================
