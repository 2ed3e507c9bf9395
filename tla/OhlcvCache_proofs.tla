-------------------------- MODULE OhlcvCache_proofs --------------------------
(***************************************************************************)
(* What the tool calls answer, for any number of callers, any tools and    *)
(* chains, any length of a day and of the TTL.                             *)
(***************************************************************************)
EXTENDS OhlcvCache, Subsequences_proofs

Sounds == {"rows", "none", "failure"}
Routed == Methods \cup DirectMethods
VendorsOf(m) == IF m \in DirectMethods THEN {m} ELSE Range(VendorMethods(m))
Scans(m) == [left : Seq(VendorsOf(m)), noData : BOOLEAN,
             firstError : {""} \cup Errors, verdict : Verdicts]

-----------------------------------------------------------------------------
(* A scan of the chain and what was heard on the way.                      *)

VerdictFits(m, v, heard) ==
  /\ v = "NO_DATA" => "none" \in heard
  /\ v = "raised" => "none" \notin heard
  /\ v = "raised" /\ m \in OptionalMethods => heard = {}
  /\ v = "data" => heard # {"failure"}
  /\ v = "text" => heard # {"rows"}

\* While vendors are left, "no rows" is remembered, and so is any word of an
\* optional source.
ScanFits(m, s, heard) ==
  /\ s.noData => "none" \in heard
  /\ s.firstError # "" => "failure" \in heard
  /\ s.verdict = "" => /\ s.left # << >>
                       /\ "none" \in heard => s.noData
                       /\ m \in OptionalMethods /\ heard # {} => s.noData \/ s.firstError # ""
  /\ s.verdict # "" => VerdictFits(m, s.verdict, heard)

\* What the outcome of a vendor says about its source.
OutcomeFits(m, noData, o, heard) ==
  /\ o \in Outcomes
  /\ o = "data" => heard # {"failure"}
  /\ o = "text" => heard # {"rows"}
  /\ o = "nodata" => "none" \in heard
  /\ o \in Errors => "failure" \in heard
  /\ o \in Errors \cup {"ratelimit"} /\ "none" \in heard => noData
  /\ m \in OptionalMethods => o # "ratelimit"

LEMMA HeardMore ==
  ASSUME NEW h
  PROVE  /\ "failure" \in h => h # {"rows"}
         /\ "none" \in h => h # {"rows"} /\ h # {"failure"}
         /\ "rows" \in h => h # {"failure"}
<1>1. "failure" # "rows" /\ "none" # "rows" /\ "none" # "failure"
  OBVIOUS
<1> QED
  BY <1>1

LEMMA AfterVendorFits ==
  ASSUME NEW m \in Routed, NEW s \in Scans(m), s.verdict = "", NEW g, ScanFits(m, s, g),
         NEW h \in SUBSET Sounds, g \subseteq h, NEW o, OutcomeFits(m, s.noData, o, h)
  PROVE  AfterVendor(m, s, o) \in Scans(m) /\ ScanFits(m, AfterVendor(m, s, o), h)
<1>0. s.left # << >>
  BY DEF ScanFits
<1>1. PICK tail \in Seq(VendorsOf(m)) : tail = Tail(s.left)
  BY <1>0, HeadTailProperties DEF Scans
<1>2. PICK e \in {""} \cup Errors : e = IF s.firstError = "" /\ o \in Errors THEN o ELSE s.firstError
  BY DEF Scans
<1>3. PICK n \in BOOLEAN : n = (s.noData \/ o = "nodata")
  OBVIOUS
<1>4. PICK t \in Scans(m) : /\ t = [s EXCEPT !.left = tail, !.noData = n, !.firstError = e]
                           /\ t.left = tail /\ t.noData = n /\ t.firstError = e /\ t.verdict = ""
  <2>1. PICK t : t = [s EXCEPT !.left = tail, !.noData = n, !.firstError = e]
    OBVIOUS
  <2>2. t \in Scans(m) /\ t.left = tail /\ t.noData = n /\ t.firstError = e /\ t.verdict = ""
    BY <2>1 DEF Scans
  <2> QED
    BY <2>1, <2>2
<1>5. AfterVendor(m, s, o) =
        IF o \in {"data", "text", "silent"} THEN [s EXCEPT !.left = << >>, !.verdict = o]
        ELSE IF tail = << >> THEN [t EXCEPT !.verdict = Exhausted(m, t)]
        ELSE t
  BY <1>1, <1>2, <1>3, <1>4 DEF AfterVendor, Scans
<1>6. /\ n => "none" \in h
      /\ e # "" => "failure" \in h
      /\ o \notin {"data", "text", "silent"} =>
           /\ "none" \in h => n
           /\ m \in OptionalMethods /\ h # {} => n \/ e # ""
  BY <1>2, <1>3 DEF ScanFits, OutcomeFits, Outcomes, Errors
<1>7. CASE o \in {"data", "text", "silent"}
  <2>1. PICK u : u = [s EXCEPT !.left = << >>, !.verdict = o]
    OBVIOUS
  <2>2. << >> \in Seq(VendorsOf(m)) /\ o \in Verdicts /\ o # ""
    BY <1>7, EmptySeq DEF Verdicts
  <2>3. u \in Scans(m) /\ u.noData = s.noData /\ u.firstError = s.firstError /\ u.verdict = o
    BY <2>1, <2>2 DEF Scans
  <2>4. VerdictFits(m, o, h)
    BY <1>7 DEF VerdictFits, OutcomeFits
  <2>5. ScanFits(m, u, h)
    BY <2>2, <2>3, <2>4 DEF ScanFits
  <2> QED
    BY <1>5, <1>7, <2>1, <2>3, <2>5
<1>8. CASE o \notin {"data", "text", "silent"} /\ tail = << >>
  <2>1. PICK v : v = Exhausted(m, t)
    OBVIOUS
  <2>2. v = IF n THEN "NO_DATA"
            ELSE IF e # "" /\ m \in OptionalMethods THEN "DATA_UNAVAILABLE"
            ELSE IF m = "get_indicators" /\ e \in ValueErrors THEN "text" ELSE "raised"
    BY <1>4, <2>1 DEF Exhausted
  <2>3. v \in Verdicts /\ v # ""
    BY <2>2 DEF Verdicts
  <2>4. VerdictFits(m, v, h)
    <3>1. /\ v = "NO_DATA" => n
          /\ v = "raised" => ~n
          /\ v = "raised" /\ m \in OptionalMethods => ~n /\ e = ""
          /\ v = "text" => e # ""
          /\ v # "data"
      BY <2>2 DEF ValueErrors
    <3>2. "failure" \in h => h # {"rows"}
      BY HeardMore
    <3> QED
      BY <1>6, <1>8, <3>1, <3>2 DEF VerdictFits
  <2>5. PICK u : u = [t EXCEPT !.verdict = v]
    OBVIOUS
  <2>6. u \in Scans(m) /\ u.noData = n /\ u.firstError = e /\ u.verdict = v
    BY <1>4, <2>3, <2>5 DEF Scans
  <2>7. ScanFits(m, u, h)
    BY <1>6, <2>3, <2>4, <2>6 DEF ScanFits
  <2> QED
    BY <1>5, <1>8, <2>1, <2>5, <2>6, <2>7
<1>9. CASE o \notin {"data", "text", "silent"} /\ tail # << >>
  BY <1>4, <1>5, <1>6, <1>9 DEF ScanFits
<1> QED
  BY <1>7, <1>8, <1>9

\* The chain of a method names vendors of that method.
LEMMA StartScanFits ==
  ASSUME NEW m \in Routed, NEW configured \in Seq(STRING)
  PROVE  StartScan(m, configured) \in Scans(m) /\ ScanFits(m, StartScan(m, configured), {})
<1> DEFINE all == VendorMethods(m)
           named == {i \in DOMAIN configured : configured[i] \notin {"", "default"}}
           explicit == ElementsAt(configured, named)
           known == {i \in DOMAIN explicit : explicit[i] \in Range(all)}
           chain == IF m \in DirectMethods THEN <<m>> ELSE VendorChain(m, configured)
<1>1. all \in Seq(Range(all)) /\ "silent" \in Verdicts
  <2>1. all \in {<<"fred">>, <<"polymarket">>, <<"yfinance", "alpha_vantage">>,
                 <<"alpha_vantage", "yfinance">>}
    BY DEF VendorMethods
  <2>2. \A s \in {<<"fred">>, <<"polymarket">>, <<"yfinance", "alpha_vantage">>,
                 <<"alpha_vantage", "yfinance">>} : s \in Seq(Range(s))
    BY DEF Range
  <2> QED
    BY <2>1, <2>2 DEF Verdicts
<1>2. explicit \in Seq(STRING)
  <2>1. named \in SUBSET DOMAIN configured
    OBVIOUS
  <2> HIDE DEF named
  <2> QED
    BY <2>1, ElementsAtProperties
<1>3. ElementsAt(explicit, known) \in Seq(Range(all))
  <2>1. known \in SUBSET DOMAIN explicit
    OBVIOUS
  <2>2. \A i \in known : explicit[i] \in Range(all)
    OBVIOUS
  <2> HIDE DEF known, explicit, all
  <2>3. PICK E : E = ElementsAt(explicit, known)
    OBVIOUS
  <2>4. /\ E \in Seq(STRING) /\ DOMAIN E = 1..Cardinality(known)
        /\ \A n \in 1..Cardinality(known) : Nth(known, n) \in known /\ E[n] = explicit[Nth(known, n)]
    BY <1>2, <2>1, <2>3, ElementsAtProperties
  <2>5. DOMAIN E = 1..Len(E) /\ Len(E) \in Nat /\ E \in [1..Len(E) -> STRING]
    BY <2>4, LenProperties
  <2>6. \A n \in 1..Len(E) : E[n] \in Range(all)
    BY <2>2, <2>4, <2>5
  <2>7. E \in [1..Len(E) -> Range(all)]
    BY <2>4, <2>5, <2>6
  <2> QED
    BY <2>3, <2>5, <2>7, SeqDef
<1>4. chain \in Seq(VendorsOf(m))
  <2>1. CASE m \in DirectMethods
    BY <2>1 DEF VendorsOf
  <2>2. CASE m \notin DirectMethods
    <3>1. chain \in {all, ElementsAt(explicit, known)}
      BY <2>2 DEF VendorChain
    <3> HIDE DEF chain, all, explicit, known
    <3>2. VendorsOf(m) = Range(all)
      BY <2>2 DEF VendorsOf, all
    <3> QED
      BY <1>1, <1>3, <3>1, <3>2
  <2> QED
    BY <2>1, <2>2
<1>5. StartScan(m, configured) =
        IF chain = << >> THEN [Scan(chain) EXCEPT !.verdict = NoVendor(m)] ELSE Scan(chain)
  BY DEF StartScan
<1> HIDE DEF chain
<1>6. PICK s \in Scans(m) : /\ s = Scan(chain) /\ s.noData = FALSE /\ s.firstError = ""
                            /\ s.verdict = "" /\ s.left = chain
  <2>1. PICK s : s = Scan(chain)
    OBVIOUS
  <2>2. s \in Scans(m) /\ s.noData = FALSE /\ s.firstError = "" /\ s.verdict = "" /\ s.left = chain
    BY <1>4, <2>1 DEF Scan, Scans, Verdicts
  <2> QED
    BY <2>1, <2>2
<1>7. CASE chain = << >>
  <2>1. PICK v \in {"text", "raised"} : v = NoVendor(m)
    BY DEF NoVendor
  <2>2. PICK u : u = [s EXCEPT !.verdict = v]
    OBVIOUS
  <2>3. u \in Scans(m) /\ u.noData = FALSE /\ u.firstError = "" /\ u.verdict = v
    BY <1>6, <2>1, <2>2 DEF Scans, Verdicts
  <2>4. ScanFits(m, u, {})
    BY <2>1, <2>3 DEF ScanFits, VerdictFits
  <2> QED
    BY <1>5, <1>6, <1>7, <2>1, <2>2, <2>3, <2>4
<1>8. CASE chain # << >>
  BY <1>5, <1>6, <1>8 DEF ScanFits
<1> QED
  BY <1>7, <1>8

\* What a vendor makes of a response: only an answer hides that it had none.
LEMMA VendorFits ==
  ASSUME NEW m \in Methods, NEW v \in VendorsOf(m), NEW r \in VendorResponses(v, m),
         NEW o \in VendorOutcomes(v, m, r), NEW noData \in BOOLEAN, NEW g \in SUBSET Sounds,
         "none" \in g => noData
  PROVE  OutcomeFits(m, noData, o, g \cup {Saying(r)})
<1>1. m \in OptionalMethods => v \in {"fred", "polymarket"}
  BY DEF OptionalMethods, VendorsOf, DirectMethods, Endpoints, VendorMethods, Range
<1>2. /\ r \in Responses
      /\ r = "unsupported" => v = "alpha_vantage" /\ m = "get_indicators"
  BY DEF VendorResponses
<1>3. PICK a \in Sounds : /\ a = Saying(r)
                           /\ (a = "rows" <=> r = "rows")
                           /\ (a = "none" <=> r \in {"empty", "stale"})
  BY <1>2 DEF Saying, Responses, Sounds
<1>4. /\ o \in Outcomes
      /\ o = "data" => a # "failure"
      /\ o = "text" => a # "rows"
      /\ o = "nodata" => a = "none"
      /\ o \in Errors \cup {"ratelimit"} => a = "failure"
      /\ m \in OptionalMethods => o # "ratelimit"
  <2>0. \/ r = "rows" /\ a = "rows"
        \/ r \in {"empty", "stale"} /\ a = "none"
        \/ r \in {"limit", "nokey", "fault"} /\ a = "failure"
        \/ r = "unsupported" /\ a = "failure" /\ v = "alpha_vantage" /\ m = "get_indicators"
    BY <1>2, <1>3 DEF Responses, Sounds
  <2>1. CASE v = "fred"
    <3>1. o \in FredOutcomes(r)
      BY <2>1 DEF VendorOutcomes
    <3> QED
      BY <2>0, <2>1, <3>1 DEF FredOutcomes, Outcomes, Errors
  <2>2. CASE v = "polymarket"
    <3>1. o \in PolymarketOutcomes(r)
      BY <2>2 DEF VendorOutcomes
    <3> QED
      BY <2>0, <2>2, <3>1 DEF PolymarketOutcomes, Outcomes, Errors
  <2>3. CASE v = "alpha_vantage"
    <3>1. m \notin OptionalMethods
      BY <1>1, <2>3
    <3>2. \/ m = "get_indicators" /\ o = AlphaIndicator(r)
          \/ m # "get_indicators" /\ o = AlphaRequest(r)
      <4>1. CASE m = "get_indicators"
        <5>1. VendorOutcomes("alpha_vantage", "get_indicators", r) = {AlphaIndicator(r)}
          BY DEF VendorOutcomes, NewsMethods, AlphaIndicator
        <5> QED
          BY <2>3, <4>1, <5>1
      <4>2. CASE m # "get_indicators"
        BY <2>3, <4>2 DEF VendorOutcomes, AlphaStock, AlphaNews, AlphaFundamentals
      <4> QED
        BY <4>1, <4>2
    <3> QED
      BY <2>0, <3>1, <3>2 DEF AlphaIndicator, AlphaRequest, Outcomes, Errors
  <2>4. CASE v \notin {"fred", "polymarket", "alpha_vantage"}
    <3>1. m \notin OptionalMethods
      BY <1>1, <2>4
    <3>2. o \in {YFinPrices(r), YFinFundamentals(r), YFinNews(r)}
      BY <2>4 DEF VendorOutcomes, YFinFundamentals, YFinBalanceSheet, YFinCashflow, YFinIncome,
         YFinInsider, YFinNews, YFinGlobalNews
    <3> QED
      BY <2>0, <2>4, <3>1, <3>2 DEF YFinPrices, YFinFundamentals, YFinNews, Outcomes, Errors
  <2> QED
    BY <2>1, <2>2, <2>3, <2>4
<1> QED
  BY <1>3, <1>4 DEF OutcomeFits, Errors, Sounds

\* So does a source that is asked by its own tool or endpoint.
Said(R) == {Saying(r) : r \in R}

LEMMA SourceFits ==
  ASSUME NEW m \in DirectMethods, NEW R \in SourceResponses(m),
         NEW o \in DirectOutcomes(m, R), NEW noData \in BOOLEAN, NEW g \in SUBSET Sounds,
         "none" \in g => noData
  PROVE  OutcomeFits(m, noData, o, g \cup Said(R)) /\ Said(R) \subseteq Sounds
<1>1. R \subseteq {"rows", "empty", "stale", "limit", "fault"} /\ IsFiniteSet(R)
      /\ Cardinality(R) \in 1 .. Requests(m)
  <2>1. R \subseteq {"rows", "empty", "stale", "limit", "fault"}
        /\ Cardinality(R) \in 1 .. Requests(m)
    BY DEF SourceResponses, Responses
  <2>2. IsFiniteSet({"rows", "empty", "stale", "limit", "fault"})
    <3>1. \A S, x : IsFiniteSet(S) => IsFiniteSet(S \cup {x})
      BY FS_AddElement
    <3>2. IsFiniteSet(((({"rows"} \cup {"empty"}) \cup {"stale"}) \cup {"limit"}) \cup {"fault"})
      <4>1. IsFiniteSet({"rows"})
        BY FS_Singleton
      <4> QED
        BY <3>1, <4>1
    <3>3. ((({"rows"} \cup {"empty"}) \cup {"stale"}) \cup {"limit"}) \cup {"fault"} =
              {"rows", "empty", "stale", "limit", "fault"}
      OBVIOUS
    <3> QED
      BY <3>2, <3>3
  <2> QED
    BY <2>1, <2>2, FS_Subset
<1>2. R # {}
  <2>1. Cardinality(R) # 0
    BY <1>1
  <2> QED
    BY <2>1, FS_EmptySet
<1>3. ASSUME m \notin {"get_market_snapshot", "get_ipo_calendar", "fetch_reddit_posts"}
      PROVE  \E r \in {"rows", "empty", "stale", "limit", "fault"} : R = {r}
  <2>1. Cardinality(R) = 1
    <3>1. Requests(m) = 1
      BY <1>3 DEF Requests
    <3> QED
      BY <1>1, <3>1
  <2>2. \E x : R = {x}
    BY <1>1, <2>1, FS_Singleton
  <2> QED
    BY <1>1, <2>2
<1>4. /\ \A r \in R : Saying(r) \in Said(R)
      /\ Saying("rows") = "rows" /\ Saying("empty") = "none" /\ Saying("stale") = "none"
      /\ Saying("limit") = "failure" /\ Saying("fault") = "failure"
  BY DEF Said, Saying
<1>5. Said(R) \subseteq Sounds
  BY <1>1, <1>4 DEF Said, Sounds
<1>6. m \notin OptionalMethods
  BY DEF DirectMethods, Endpoints, OptionalMethods
<1>7. PICK h \in SUBSET Sounds : h = g \cup Said(R)
  BY <1>5
<1>8. /\ \A r \in R : r \in {"rows", "empty", "stale"} => h # {"failure"}
      /\ \A r \in R : r \in {"empty", "stale", "limit", "fault"} => h # {"rows"}
  <2>1. \A r \in R : Saying(r) \in h
    BY <1>4, <1>7
  <2> QED
    BY <1>4, <2>1, HeardMore
<1>9. CASE m \in {"get_market_snapshot", "get_ipo_calendar", "fetch_reddit_posts"}
  <2>1. /\ o \in {"data", "text", "silent"}
        /\ o = "data" => \E r \in R : r \in {"rows", "empty", "stale"}
        /\ o = "text" => \E r \in R : r \in {"empty", "stale", "limit", "fault"}
    <3>1. CASE m = "get_market_snapshot"
      <4>1. o = MarketSnapshot(R)
        BY <3>1 DEF DirectOutcomes
      <4> QED
        BY <1>1, <1>2, <4>1 DEF MarketSnapshot, Usable
    <3>2. CASE m = "get_ipo_calendar"
      <4>1. o = IpoCalendar(R)
        BY <3>2 DEF DirectOutcomes
      <4> QED
        BY <1>1, <1>2, <4>1 DEF IpoCalendar
    <3>3. CASE m = "fetch_reddit_posts"
      <4>1. o = RedditPosts(R)
        BY <3>3 DEF DirectOutcomes
      <4>2. \A r \in {"limit", "fault"} : Failing({r}) /\ RedditFeed(r) = "none"
        BY DEF Failing, RedditFeed
      <4> QED
        BY <1>1, <1>2, <4>1, <4>2 DEF RedditPosts
    <3> QED
      BY <1>9, <3>1, <3>2, <3>3
  <2> QED
    BY <1>6, <1>7, <1>8, <2>1 DEF OutcomeFits, Outcomes, Errors
<1>10. CASE m \notin {"get_market_snapshot", "get_ipo_calendar", "fetch_reddit_posts"}
  <2>1. PICK r \in {"rows", "empty", "stale", "limit", "fault"} : R = {r}
    BY <1>3, <1>10
  <2>2. h = g \cup {Saying(r)}
    BY <1>7, <2>1 DEF Said
  <2>3. /\ r \in {"rows", "stale"} <=> Usable(R)
        /\ r \in {"limit", "fault"} <=> Failing(R)
        /\ \A x : R = {x} <=> r = x
    BY <2>1 DEF Usable, Failing
  <2>4. /\ o \in {"data", "text", "nodata", "error"}
        /\ o = "data" => r \in {"rows", "stale", "empty"}
        /\ o = "text" => r \in {"empty", "limit", "fault"}
        /\ o = "nodata" => r = "empty"
        /\ o = "error" => r \in {"limit", "fault"}
    <3>1. CASE m = "get_price_history"
      <4>1. o = PriceHistory(R)
        BY <3>1 DEF DirectOutcomes
      <4> QED
        BY <2>1, <2>3, <4>1 DEF PriceHistory
    <3>2. CASE m = "get_ipo_detail"
      <4>1. o = IpoDetail(R)
        BY <3>2 DEF DirectOutcomes
      <4> QED
        BY <2>1, <2>3, <4>1 DEF IpoDetail
    <3>3. CASE m = "fetch_stocktwits_messages"
      <4>1. o \in StockTwitsOutcomes(R)
        BY <3>3 DEF DirectOutcomes
      <4> QED
        BY <2>1, <2>3, <4>1 DEF StockTwitsOutcomes
    <3>4. CASE m \notin {"get_price_history", "get_ipo_detail", "fetch_stocktwits_messages"}
      <4>1. o \in KapOutcomes(R)
        BY <1>10, <3>4 DEF DirectOutcomes
      <4> QED
        BY <2>1, <2>3, <4>1 DEF KapOutcomes
    <3> QED
      BY <3>1, <3>2, <3>3, <3>4
  <2>5. /\ o = "data" => h # {"failure"}
        /\ o = "text" => h # {"rows"}
    BY <1>8, <2>1, <2>4
  <2>6. /\ o = "nodata" => "none" \in h
        /\ o = "error" => "failure" \in h
        /\ o = "error" /\ "none" \in h => noData
    <3>1. /\ o = "nodata" => Saying(r) = "none"
          /\ o = "error" => Saying(r) = "failure"
      BY <1>4, <2>4
    <3> QED
      BY <2>2, <3>1
  <2> QED
    BY <1>6, <1>7, <2>4, <2>5, <2>6 DEF OutcomeFits, Outcomes, Errors
<1> QED
  BY <1>5, <1>9, <1>10

-----------------------------------------------------------------------------
(* A call and the frame it holds.                                          *)

ToolNames == Routed \cup {"verify"}
FramesAt(n) == [upto : ZeroBytes .. n \div DayLen, at : Start .. n, torn : BOOLEAN]

\* An answer that keeps what is promised of the rows it was given.
AnswerOK(s) ==
  /\ s.last <= s.want /\ s.want - s.last <= MaxStale
  /\ s.want >= s.day /\ ~s.raced => s.when - s.at <= TTL
  /\ s.want < s.day /\ Final(s.want) <= s.day * DayLen =>
       /\ s.at >= Final(s.want)
       /\ ~s.torn /\ s.upto >= s.at \div DayLen - 1 => s.last = s.want
Answers == {s \in [want : Nat, day : Nat, last : Int, upto : Int, at : Nat, when : Nat,
                   torn : BOOLEAN, raced : BOOLEAN] : AnswerOK(s)}

Calls(m, n) ==
  [pc : {"ask", "open", "judge", "fetch", "store", "storing"}, tool : {m}, curr : Nat,
   scan : Scans(m), mode : {"", "verify", "bulk", "fallback"}, want : Nat, day : Nat,
   frame : FramesAt(n), tries : 0 .. Retries, raced : BOOLEAN, rows : BOOLEAN,
   served : SUBSET Answers, heard : SUBSET Sounds]

HeardOK(m, c) ==
  m \in Routed => /\ ScanFits(m, c.scan, c.heard)
                  /\ c.rows => "rows" \in c.heard
                  /\ c.mode = "fallback" => "failure" \in c.heard
ModeOK(m, mode) ==
  /\ m \in {"verify", "get_indicators"} /\ mode # ""
  /\ mode = "verify" <=> m = "verify"

\* A file is named after a day that has begun, and holds what was downloaded then.
FrameOK(c, n) ==
  /\ Window <= c.day /\ c.day * DayLen <= n
  /\ c.pc \in {"judge", "store", "storing"} => c.day * DayLen <= c.frame.at
  /\ c.pc \in {"store", "storing"} => c.frame.at = n

LiveOK(m, c, n) ==
  /\ c \in Calls(m, n) /\ HeardOK(m, c)
  /\ c.scan.verdict = "" /\ c.scan.left # << >>
  /\ c.pc # "ask" => ModeOK(m, c.mode) /\ FrameOK(c, n)
OverOK(m, c) ==
  /\ c \in [pc : {"done"}, tool : {m}, verdict : Verdicts, served : SUBSET Answers,
            heard : SUBSET Sounds]
  /\ m \in Routed => VerdictFits(m, c.verdict, c.heard)
CallOK(c, n) == c = Idle \/ \E m \in ToolNames : LiveOK(m, c, n) \/ OverOK(m, c)

\* Where a load, or a vendor's answer, leaves a call.
Landed(m, c) == (LiveOK(m, c, now) /\ c.pc \in {"ask", "open"}) \/ OverOK(m, c)

LEMMA Numbers ==
  /\ DayLen \in Nat /\ 0 < DayLen /\ CloseTick \in Nat
  /\ Start \in Nat /\ MaxTime \in Nat /\ TTL \in Nat /\ MaxStale \in Nat /\ Window \in Nat
  /\ Retries \in Nat /\ LookBack \in Nat /\ Window * DayLen <= Start /\ Start <= MaxTime
BY OhlcvAssumption

LEMMA DayOf ==
  ASSUME NEW n \in Nat
  PROVE  /\ n \div DayLen \in Nat /\ (n \div DayLen) * DayLen <= n
         /\ \A d \in Nat : d * DayLen <= n <=> d <= n \div DayLen
         /\ Start <= n => Window <= n \div DayLen
         /\ \A k \in Nat : n <= k => n \div DayLen <= k \div DayLen
<1>0. DayLen \in Nat /\ 0 < DayLen
  BY Numbers
<1>1. ASSUME NEW k \in Nat
      PROVE  k \div DayLen \in Nat /\ (k \div DayLen) * DayLen <= k
             /\ k < (k \div DayLen) * DayLen + DayLen
  BY <1>0
<1>2. ASSUME NEW k \in Nat, NEW d \in Nat
      PROVE  d * DayLen <= k <=> d <= k \div DayLen
  BY <1>0, <1>1
<1>3. Start <= n => Window <= n \div DayLen
  <2>1. Window \in Nat /\ Start \in Nat /\ Window * DayLen <= Start /\ Window * DayLen \in Nat
    BY Numbers
  <2> QED
    BY <1>2, <2>1
<1>4. ASSUME NEW k \in Nat, n <= k
      PROVE  n \div DayLen <= k \div DayLen
  <2>1. (n \div DayLen) * DayLen <= k /\ (n \div DayLen) * DayLen \in Nat
    BY <1>0, <1>1, <1>4
  <2> QED
    BY <1>1, <1>2, <2>1
<1> QED
  BY <1>1, <1>2, <1>3, <1>4

LEMMA NoFrameOK ==
  ASSUME NEW n \in Nat, Start <= n
  PROVE  NoFrame \in FramesAt(n) /\ FramesAt(n) \subseteq FramesAt(n + 1)
<1>1. n \div DayLen \in Nat /\ n \div DayLen <= (n + 1) \div DayLen /\ (n + 1) \div DayLen \in Nat
  BY DayOf
<1>2. Start \in Nat
  BY Numbers
<1>3. NoFrame \in FramesAt(n)
  BY <1>1, <1>2 DEF NoFrame, Contents, FramesAt, ZeroBytes
<1>4. /\ ZeroBytes .. n \div DayLen \subseteq ZeroBytes .. (n + 1) \div DayLen
      /\ Start .. n \subseteq Start .. n + 1
  BY <1>1, <1>2 DEF ZeroBytes
<1> QED
  BY <1>3, <1>4 DEF FramesAt

LEMMA FirstTry == 0 \in 0 .. Retries
<1>1. Retries \in Nat
  BY OhlcvAssumption
<1> QED
  BY <1>1

LEMMA EnterLoadOK ==
  ASSUME now \in Nat, Start <= now, NEW m \in ToolNames, NEW c \in Calls(m, now), HeardOK(m, c),
         c.scan.verdict = "", c.scan.left # << >>, NEW mode, ModeOK(m, mode),
         mode \in {"verify", "bulk", "fallback"},
         m \in Routed /\ mode = "fallback" => "failure" \in c.heard, NEW want \in Nat
  PROVE  Landed(m, EnterLoad(c, mode, want))
<1>1. PICK x : x = EnterLoad(c, mode, want)
  OBVIOUS
<1>2. PICK b \in BOOLEAN : b = (c.rows /\ mode = "fallback")
  OBVIOUS
<1>3. PICK d \in Nat, f \in FramesAt(now) : d = Today /\ f = NoFrame
  BY DayOf, NoFrameOK DEF Today
<1>4. x = [c EXCEPT !.pc = "open", !.mode = mode, !.want = want, !.day = d, !.frame = f,
                    !.tries = 0, !.raced = FALSE, !.rows = b]
  BY <1>1, <1>2, <1>3 DEF EnterLoad, Calls
<1>6. /\ x \in Calls(m, now) /\ x.pc = "open" /\ x.mode = mode /\ x.day = d /\ x.rows = b
      /\ x.scan = c.scan /\ x.heard = c.heard
  BY <1>4, FirstTry DEF Calls
<1>7. Window <= d /\ d * DayLen <= now
  BY <1>3, DayOf DEF Today
<1> QED
  BY <1>1, <1>2, <1>6, <1>7 DEF Landed, LiveOK, HeardOK, FrameOK

LEMMA OverIsOK ==
  ASSUME NEW m \in ToolNames, NEW n, NEW c \in Calls(m, n), NEW v \in Verdicts,
         m \in Routed => VerdictFits(m, v, c.heard)
  PROVE  OverOK(m, Over(c, v))
BY DEF Over, OverOK, Calls

\* The next vendor of the chain is asked, or the chain is over.
LEMMA ProceedOK ==
  ASSUME now \in Nat, Start <= now, NEW m \in Routed, NEW c \in Calls(m, now), HeardOK(m, c)
  PROVE  Landed(m, Proceed(c))
<1>0. m \in ToolNames /\ c.tool = m /\ c.scan.verdict \in Verdicts
  BY DEF ToolNames, Calls, Scans
<1>1. CASE c.scan.verdict # ""
  <2>1. Proceed(c) = Over(c, c.scan.verdict)
    BY <1>1 DEF Proceed
  <2>2. VerdictFits(m, c.scan.verdict, c.heard)
    BY <1>1 DEF HeardOK, ScanFits
  <2> QED
    BY <1>0, <2>1, <2>2, OverIsOK DEF Landed
<1>2. CASE c.scan.verdict = ""
  <2>1. c.scan.left # << >>
    BY <1>2 DEF HeardOK, ScanFits
  <2>2. PICK x : x = [c EXCEPT !.pc = "ask"] /\ x = Proceed(c)
    BY <1>2 DEF Proceed
  <2>3. /\ x \in Calls(m, now) /\ x.pc = "ask" /\ x.scan = c.scan /\ x.heard = c.heard
        /\ x.rows = c.rows /\ x.mode = c.mode
    BY <2>2 DEF Calls
  <2> QED
    BY <1>2, <2>1, <2>2, <2>3 DEF Landed, LiveOK, HeardOK
<1> QED
  BY <1>1, <1>2

\* What a source says beside an outcome.
LEMMA AnsweringOK ==
  ASSUME now \in Nat, Start <= now, NEW m \in Routed, NEW c, LiveOK(m, c, now),
         NEW h \in SUBSET Sounds, c.heard \subseteq h, NEW o, OutcomeFits(m, c.scan.noData, o, h)
  PROVE  Landed(m, Proceed([c EXCEPT !.heard = h, !.scan = AfterVendor(m, @, o)]))
<1>1. PICK s \in Scans(m) : s = AfterVendor(m, c.scan, o) /\ ScanFits(m, s, h)
  BY AfterVendorFits DEF LiveOK, HeardOK, Calls
<1>2. PICK x : x = [c EXCEPT !.heard = h, !.scan = s]
  OBVIOUS
<1>3. x \in Calls(m, now) /\ x.heard = h /\ x.scan = s /\ x.rows = c.rows /\ x.mode = c.mode
  BY <1>2 DEF LiveOK, Calls
<1>4. HeardOK(m, x)
  BY <1>1, <1>3 DEF LiveOK, HeardOK
<1>5. x = [c EXCEPT !.heard = h, !.scan = AfterVendor(m, @, o)]
  BY <1>1, <1>2 DEF LiveOK, Calls
<1> QED
  BY <1>3, <1>4, <1>5, ProceedOK

\* To have heard rows or a failure changes nothing else.
LEMMA HearingOK ==
  ASSUME NEW m \in ToolNames, NEW n, NEW c, LiveOK(m, c, n), NEW what \in {"rows", "failure"},
         m \notin OptionalMethods
  PROVE  /\ LiveOK(m, Hear(c, what), n)
         /\ m \in Routed => what \in Hear(c, what).heard
         /\ Hear(c, what).mode = c.mode /\ Hear(c, what).pc = c.pc
         /\ Hear(c, what).want = c.want /\ Hear(c, what).curr = c.curr
         /\ Hear(c, what).frame = c.frame /\ Hear(c, what).day = c.day
         /\ Hear(c, what).rows = c.rows
<1>1. c.tool = m
  BY DEF LiveOK, Calls
<1>2. CASE m = "verify"
  <2>1. m \notin Routed
    BY <1>2 DEF Routed, Methods, EquityMethods, Statements, NewsMethods, DirectMethods, Endpoints
  <2>2. Hear(c, what) = c
    BY <1>1, <1>2 DEF Hear
  <2> QED
    BY <2>1, <2>2
<1>3. CASE m # "verify"
  <2>1. PICK h \in SUBSET Sounds : h = c.heard \cup {what}
    BY DEF LiveOK, Calls, Sounds
  <2>2. PICK x : x = [c EXCEPT !.heard = h] /\ x = Hear(c, what)
    BY <1>1, <1>3, <2>1 DEF Hear, LiveOK, Calls
  <2>3. x \in Calls(m, n) /\ x.heard = h /\ x.scan = c.scan /\ x.rows = c.rows
        /\ x.mode = c.mode /\ x.pc = c.pc /\ x.day = c.day /\ x.frame = c.frame
        /\ x.want = c.want /\ x.curr = c.curr
    BY <2>2 DEF LiveOK, Calls
  <2>4. HeardOK(m, x)
    <3>1. \A w \in Sounds : w \in c.heard => w \in h
      BY <2>1
    <3>2. "none" \in h => "none" \in c.heard
      BY <2>1
    <3>3. m \in Routed => /\ c.scan.noData => "none" \in h
                          /\ c.scan.firstError # "" => "failure" \in h
                          /\ "none" \in h => c.scan.noData
      BY <2>1, <3>2 DEF LiveOK, HeardOK, ScanFits
    <3> QED
      BY <2>1, <2>3, <3>3 DEF LiveOK, HeardOK, ScanFits
  <2> QED
    BY <2>1, <2>2, <2>3, <2>4 DEF LiveOK, FrameOK
<1> QED
  BY <1>2, <1>3

\* The report of an indicator: with a number when rows were heard.
LEMMA WindowOK ==
  ASSUME now \in Nat, Start <= now, NEW c, LiveOK("get_indicators", c, now), c.pc # "ask",
         NEW h \in SUBSET Sounds, c.heard \subseteq h,
         c.rows \/ "failure" \in h \/ "none" \in h
  PROVE  Landed("get_indicators", IndicatorsWindow([c EXCEPT !.heard = h]))
<1>1. PICK o \in {"data", "text"} : o = IF c.rows THEN "data" ELSE "text"
  OBVIOUS
<1>2. "get_indicators" \in Routed /\ "get_indicators" \notin OptionalMethods
  BY DEF Routed, Methods, EquityMethods, OptionalMethods
<1>3. o = "data" => "rows" \in h
  BY <1>1, <1>2 DEF LiveOK, HeardOK
<1>4. OutcomeFits("get_indicators", c.scan.noData, o, h)
  BY <1>1, <1>2, <1>3, HeardMore DEF OutcomeFits, Outcomes, Errors
<1>5. IndicatorsWindow([c EXCEPT !.heard = h])
         = Proceed([c EXCEPT !.heard = h, !.scan = AfterVendor("get_indicators", @, o)])
  <2>1. PICK x : x = [c EXCEPT !.heard = h]
    OBVIOUS
  <2>2. x.tool = "get_indicators" /\ x.rows = c.rows /\ x.scan = c.scan
        /\ [x EXCEPT !.scan = AfterVendor("get_indicators", @, o)]
             = [c EXCEPT !.heard = h, !.scan = AfterVendor("get_indicators", @, o)]
    BY <2>1 DEF LiveOK, Calls
  <2>3. IndicatorsWindow(x) = Answered(x, o)
    BY <1>1, <2>2 DEF IndicatorsWindow
  <2>4. Answered(x, o) = Proceed([x EXCEPT !.scan = AfterVendor("get_indicators", @, o)])
    BY <2>2 DEF Answered
  <2> QED
    BY <2>1, <2>2, <2>3, <2>4
<1> QED
  BY <1>2, <1>4, <1>5, AnsweringOK

LEMMA NextDayOK ==
  ASSUME now \in Nat, Start <= now, NEW c, LiveOK("get_indicators", c, now), c.pc # "ask",
         c.mode = "fallback"
  PROVE  Landed("get_indicators", NextDay(c))
<1>1. "get_indicators" \in Routed /\ "get_indicators" \in ToolNames
      /\ ModeOK("get_indicators", "fallback")
  BY DEF Routed, Methods, EquityMethods, ToolNames, ModeOK
<1>2. "failure" \in c.heard /\ c.want \in Nat /\ c.heard \in SUBSET Sounds
  BY <1>1 DEF LiveOK, HeardOK, Calls
<1>3. CASE c.want > c.curr - LookBack /\ c.want > 0
  <2>1. NextDay(c) = EnterLoad(c, "fallback", c.want - 1) /\ c.want - 1 \in Nat
    BY <1>2, <1>3 DEF NextDay
  <2> QED
    BY <1>1, <1>2, <2>1, EnterLoadOK DEF LiveOK
<1>4. CASE ~(c.want > c.curr - LookBack /\ c.want > 0)
  <2>1. NextDay(c) = IndicatorsWindow(c) /\ c = [c EXCEPT !.heard = c.heard]
    BY <1>4 DEF NextDay, LiveOK, Calls
  <2> QED
    BY <1>2, <2>1, WindowOK
<1> QED
  BY <1>3, <1>4

LEMMA VerifiedOK ==
  ASSUME NEW n, NEW c, LiveOK("verify", c, n), NEW outcome
  PROVE  OverOK("verify", Verified(c, outcome))
<1>1. PICK v \in Verdicts : v = IF outcome = "data" THEN "data" ELSE "raised"
  BY DEF Verdicts
<1>2. "verify" \in ToolNames /\ "verify" \notin Routed
  BY DEF ToolNames, Routed, Methods, EquityMethods, Statements, NewsMethods, DirectMethods, Endpoints
<1> QED
  BY <1>1, <1>2, OverIsOK DEF Verified, LiveOK

\* A load that fails is one of the fallback loop's days, or its reason.
LEMMA LoadFailsOK ==
  ASSUME now \in Nat, Start <= now, NEW m \in ToolNames, NEW c, LiveOK(m, c, now), c.pc # "ask"
  PROVE  Landed(m, LoadFails(Hear(c, "failure")))
<1>1. ModeOK(m, c.mode) /\ c.mode \in {"", "verify", "bulk", "fallback"}
  BY DEF LiveOK, Calls
<1>2. PICK x : x = Hear(c, "failure")
  OBVIOUS
<1>3. /\ LiveOK(m, x, now) /\ x.mode = c.mode /\ x.pc = c.pc
      /\ m \in Routed => "failure" \in x.heard
  <2>1. m \notin OptionalMethods
    BY <1>1 DEF ModeOK, OptionalMethods
  <2> QED
    BY <1>2, <2>1, HearingOK
<1>4. CASE c.mode = "verify"
  BY <1>1, <1>2, <1>3, <1>4, VerifiedOK DEF LoadFails, Landed, ModeOK
<1>5. CASE c.mode = "bulk"
  <2>1. LoadFails(x) = EnterLoad(x, "fallback", x.curr) /\ m = "get_indicators" /\ x.curr \in Nat
    BY <1>1, <1>3, <1>5 DEF LoadFails, ModeOK, LiveOK, Calls
  <2>2. ModeOK(m, "fallback")
    BY <2>1 DEF ModeOK
  <2> QED
    BY <1>2, <1>3, <2>1, <2>2, EnterLoadOK DEF LiveOK
<1>6. CASE c.mode = "fallback"
  BY <1>1, <1>2, <1>3, <1>6, NextDayOK DEF LoadFails, ModeOK
<1> QED
  BY <1>1, <1>4, <1>5, <1>6 DEF ModeOK

\* No row is left, or none that is recent enough.
LEMMA LoadNoDataOK ==
  ASSUME now \in Nat, Start <= now, NEW m \in ToolNames, NEW c, LiveOK(m, c, now), c.pc # "ask"
  PROVE  Landed(m, LoadNoData(Hear(c, "none")))
<1>1. ModeOK(m, c.mode) /\ c.tool = m
  BY DEF LiveOK, Calls
<1>2. CASE m = "verify"
  <2>1. Hear(c, "none") = c /\ LoadNoData(c) = Verified(c, "nodata")
    BY <1>1, <1>2 DEF Hear, LoadNoData, Answered
  <2> QED
    BY <1>2, <2>1, VerifiedOK DEF Landed
<1>3. CASE m # "verify"
  <2>1. PICK h \in SUBSET Sounds : h = c.heard \cup {"none"}
    BY DEF LiveOK, Calls, Sounds
  <2>2. PICK x : x = Hear(c, "none") /\ x = [c EXCEPT !.heard = h]
    BY <1>1, <1>3, <2>1 DEF Hear, LiveOK, Calls
  <2>3. x.tool = m /\ [x EXCEPT !.scan = AfterVendor(m, @, "nodata")]
             = [c EXCEPT !.heard = h, !.scan = AfterVendor(m, @, "nodata")]
    BY <1>1, <2>2 DEF LiveOK, Calls
  <2>4. LoadNoData(x) = Proceed([c EXCEPT !.heard = h, !.scan = AfterVendor(m, @, "nodata")])
    BY <1>3, <2>3 DEF LoadNoData, Answered
  <2>5. m \in Routed /\ OutcomeFits(m, c.scan.noData, "nodata", h)
    BY <1>3, <2>1 DEF ToolNames, OutcomeFits, Outcomes, Errors
  <2>6. Landed(m, Proceed([c EXCEPT !.heard = h, !.scan = AfterVendor(m, @, "nodata")]))
    <3>1. c.heard \subseteq h
      BY <2>1
    <3> QED
      BY <2>5, <3>1, AnsweringOK
  <2> QED
    BY <2>2, <2>4, <2>6
<1> QED
  BY <1>2, <1>3

\* What is accepted of a frame keeps the promises.
LEMMA AcceptedOK ==
  ASSUME now \in Nat, NEW want \in Nat, NEW day \in Nat, NEW f \in FramesAt(now),
         NEW raced \in BOOLEAN, day * DayLen <= f.at,
         want >= day /\ ~raced => now - f.at <= TTL, ~Stale(Trimmed(f, want), want)
  PROVE  [want |-> want, day |-> day, last |-> Trimmed(f, want), upto |-> f.upto,
          at |-> f.at, when |-> now, torn |-> f.torn, raced |-> raced] \in Answers
<1>1. f.upto \in Int /\ f.at \in Nat /\ f.torn \in BOOLEAN
  <2>1. Start \in Nat /\ now \div DayLen \in Nat
    BY Numbers, DayOf
  <2> QED
    BY <2>1 DEF FramesAt, ZeroBytes
<1>2. PICK last \in Int : last = Trimmed(f, want)
  BY <1>1 DEF Trimmed
<1>3. last <= want /\ want - last <= MaxStale
  <2>1. MaxStale \in Nat
    BY Numbers
  <2> QED
    BY <1>1, <1>2, <2>1 DEF Trimmed, Stale
<1>4. ASSUME want < day, Final(want) <= day * DayLen
      PROVE  f.at >= Final(want) /\ (f.upto >= f.at \div DayLen - 1 => last = want)
  <2>1. Final(want) \in Nat /\ day * DayLen \in Nat
    BY Numbers DEF Final
  <2>2. day <= f.at \div DayLen /\ f.at \div DayLen \in Nat
    BY <1>1, DayOf
  <2>3. f.upto >= f.at \div DayLen - 1 => f.upto >= want
    BY <1>1, <1>4, <2>2
  <2> QED
    BY <1>1, <1>2, <1>4, <2>1, <2>3 DEF Trimmed
<1>5. PICK s : s = [want |-> want, day |-> day, last |-> last, upto |-> f.upto,
                    at |-> f.at, when |-> now, torn |-> f.torn, raced |-> raced]
  OBVIOUS
<1>6. AnswerOK(s)
  BY <1>3, <1>4, <1>5 DEF AnswerOK
<1> QED
  BY <1>1, <1>2, <1>5, <1>6 DEF Answers

LEMMA LoadReturnsOK ==
  ASSUME now \in Nat, Start <= now, NEW m \in ToolNames, NEW c, LiveOK(m, c, now), c.pc # "ask",
         NEW f \in FramesAt(now), c.day * DayLen <= f.at,
         c.want >= c.day /\ ~c.raced => now - f.at <= TTL
  PROVE  \A x \in LoadReturns(c, f) : Landed(m, x)
<1>1. /\ ModeOK(m, c.mode) /\ c.tool = m /\ c.mode \in {"verify", "bulk", "fallback"}
      /\ m \notin OptionalMethods /\ c \in Calls(m, now)
  BY DEF LiveOK, Calls, ModeOK, OptionalMethods
<1>2. Landed(m, NoRowsLeft(c))
  <2>1. CASE c.mode = "verify"
    BY <1>1, <2>1, VerifiedOK DEF NoRowsLeft, Landed, ModeOK
  <2>2. CASE c.mode = "bulk"
    <3>1. PICK h \in SUBSET Sounds : h = c.heard \cup {"none"}
      BY <1>1 DEF Calls, Sounds
    <3>2. m = "get_indicators" /\ Hear(c, "none") = [c EXCEPT !.heard = h]
      BY <1>1, <2>2, <3>1 DEF ModeOK, Hear, Calls
    <3>3. NoRowsLeft(c) = IndicatorsWindow([c EXCEPT !.heard = h])
      BY <2>2, <3>2 DEF NoRowsLeft
    <3> QED
      BY <3>1, <3>2, <3>3, WindowOK
  <2>3. CASE c.mode = "fallback"
    BY <1>1, <2>3, NextDayOK DEF NoRowsLeft, ModeOK
  <2> QED
    BY <1>1, <2>1, <2>2, <2>3
<1>3. Landed(m, LoadNoData(Hear(c, "none"))) /\ Landed(m, LoadFails(Hear(c, "failure")))
  BY LoadNoDataOK, LoadFailsOK
<1> DEFINE s0 == [want |-> c.want, day |-> c.day, last |-> Trimmed(f, c.want), upto |-> f.upto,
                  at |-> f.at, when |-> now, torn |-> f.torn, raced |-> c.raced]
           d0 == [Hear(c, "rows") EXCEPT !.served = {s0}, !.rows = TRUE]
<1>4. ASSUME ~Stale(Trimmed(f, c.want), c.want)
      PROVE  Landed(m, Loaded(d0))
  <2>1. PICK s \in Answers : s = s0
    BY <1>1, <1>4, AcceptedOK DEF Calls
  <2>2. PICK x : /\ x = Hear(c, "rows") /\ LiveOK(m, x, now)
                 /\ m \in Routed => "rows" \in x.heard
                 /\ x.mode = c.mode /\ x.pc = c.pc
    BY <1>1, HearingOK
  <2>3. PICK d : d = [x EXCEPT !.served = {s}, !.rows = TRUE]
    OBVIOUS
  <2>4. /\ d \in Calls(m, now) /\ d.mode = c.mode /\ d.pc = c.pc /\ d.rows = TRUE
        /\ d.scan = x.scan /\ d.heard = x.heard /\ d.day = x.day /\ d.frame = x.frame
    BY <2>1, <2>2, <2>3 DEF LiveOK, Calls
  <2>5. LiveOK(m, d, now)
    BY <2>2, <2>4 DEF LiveOK, HeardOK, FrameOK
  <2>6. d0 = d
    BY <2>1, <2>2, <2>3
  <2> HIDE DEF d0
  <2>7. CASE c.mode = "verify"
    BY <1>1, <2>4, <2>5, <2>6, <2>7, VerifiedOK DEF Loaded, Landed, ModeOK
  <2>8. CASE c.mode = "bulk"
    <3>1. m = "get_indicators" /\ Loaded(d) = IndicatorsWindow(d)
      BY <1>1, <2>4, <2>8 DEF Loaded, ModeOK
    <3>2. d = [d EXCEPT !.heard = d.heard] /\ d.heard \in SUBSET Sounds
      BY <2>4 DEF Calls
    <3>3. LiveOK("get_indicators", d, now) /\ d.pc # "ask" /\ d.rows = TRUE
      BY <2>4, <2>5, <3>1
    <3>4. Landed("get_indicators", IndicatorsWindow([d EXCEPT !.heard = d.heard]))
      BY <3>2, <3>3, WindowOK
    <3> QED
      BY <2>6, <3>1, <3>2, <3>4
  <2>9. CASE c.mode = "fallback"
    BY <1>1, <2>4, <2>5, <2>6, <2>9, NextDayOK DEF Loaded, ModeOK
  <2> QED
    BY <1>1, <2>7, <2>8, <2>9
<1>5. ASSUME NEW x \in LoadReturns(c, f)
      PROVE  \/ x \in {NoRowsLeft(c), LoadNoData(Hear(c, "none")), LoadFails(Hear(c, "failure"))}
             \/ ~Stale(Trimmed(f, c.want), c.want) /\ x = Loaded(d0)
  BY <1>5 DEF LoadReturns
<1> HIDE DEF d0
<1> QED
  BY <1>2, <1>3, <1>4, <1>5

-----------------------------------------------------------------------------
(* The files and the calls.                                                *)

\* A file holds what was downloaded when it was written, on its day or later.
WrittenOK(k, f, mtime) == f = NoFrame \/ (f.at = mtime /\ k * DayLen <= f.at)
FileOK(k) ==
  file[k] # NoFile =>
    /\ file[k] \in [is : {"file"}, c : FramesAt(now), mtime : Start .. now]
    /\ WrittenOK(k, file[k].c, file[k].mtime)

\* Who has read a file that nobody rewrote holds what its mtime says, and a
\* file that is being written was opened at this moment.
ReadOK(p) ==
  call[p].pc = "judge" =>
    /\ file[call[p].day] # NoFile
    /\ ~call[p].raced => call[p].frame.at = file[call[p].day].mtime
StoringOK(p) ==
  call[p].pc = "storing" => file[call[p].day] # NoFile /\ file[call[p].day].mtime = now

CacheInv ==
  /\ now \in Nat /\ Start <= now /\ now <= MaxTime
  /\ DOMAIN file = Days /\ DOMAIN call = Callers
  /\ \A p \in Callers : CallOK(call[p], now) /\ ReadOK(p) /\ StoringOK(p)
  /\ \A k \in Days : FileOK(k)

\* The call that takes a step.
LEMMA Actor ==
  ASSUME CacheInv, NEW p \in Callers,
         call[p].pc \in {"ask", "open", "judge", "fetch", "store", "storing"}
  PROVE  \E m \in ToolNames : LiveOK(m, call[p], now)
<1>1. call[p] # Idle
  BY DEF Idle
<1>2. \A m \in ToolNames : ~OverOK(m, call[p])
  BY DEF OverOK
<1> QED
  BY <1>1, <1>2 DEF CacheInv, CallOK

LEMMA DayOfFile ==
  ASSUME CacheInv, NEW d \in Nat, d * DayLen <= now
  PROVE  d \in Days
<1>1. MaxTime \in Nat /\ d * DayLen \in Nat
  BY Numbers
<1>2. d * DayLen <= MaxTime /\ MaxTime \div DayLen \in Nat
  BY <1>1, DayOf DEF CacheInv
<1>3. d <= MaxTime \div DayLen
  BY <1>1, <1>2, DayOf
<1> QED
  BY <1>2, <1>3 DEF Days

\* A step of one call that writes no file.
LEMMA QuietStep ==
  ASSUME CacheInv, NEW p \in Callers, NEW x, call' = [call EXCEPT ![p] = x], CallOK(x, now),
         x.pc \notin {"judge", "storing"}, UNCHANGED <<now, file>>
  PROVE  CacheInv'
<1>1. DOMAIN call' = Callers /\ call'[p] = x /\ \A q \in Callers \ {p} : call'[q] = call[q]
  BY DEF CacheInv
<1>2. ASSUME NEW q \in Callers
      PROVE  CallOK(call'[q], now) /\ ReadOK(q)' /\ StoringOK(q)'
  <2>1. CASE q = p
    BY <1>1, <2>1 DEF ReadOK, StoringOK
  <2>2. CASE q # p
    BY <1>1, <2>2 DEF CacheInv, ReadOK, StoringOK
  <2> QED
    BY <2>1, <2>2
<1>3. \A k \in Days : FileOK(k)'
  BY DEF CacheInv, FileOK
<1> QED
  BY <1>1, <1>2, <1>3 DEF CacheInv

LEMMA LandedOK ==
  ASSUME NEW m \in ToolNames, NEW x, Landed(m, x)
  PROVE  CallOK(x, now) /\ x.pc \notin {"judge", "storing"}
BY DEF Landed, CallOK, OverOK

LEMMA Clock == CacheInv => now \in Nat /\ Start <= now
BY DEF CacheInv

LEMMA BeginOK ==
  ASSUME CacheInv, NEW p \in Callers, Begin(p)
  PROVE  CacheInv'
<1>1. PICK m \in ToolNames, chain \in Seq(STRING), curr \in Nat, guarded \in BOOLEAN :
        LET c == [pc |-> "ask", tool |-> m, curr |-> IF UsesCache(m) THEN curr ELSE 0,
                  scan |-> Scan(<<"yfinance">>), mode |-> "", want |-> 0, day |-> 0,
                  frame |-> NoFrame, tries |-> 0, raced |-> FALSE,
                  rows |-> FALSE, served |-> {}, heard |-> {}]
        IN  call' = [call EXCEPT ![p] =
              IF m = "verify" THEN EnterLoad(c, "verify", curr)
              ELSE IF guarded THEN Over(c, "guarded")
              ELSE Proceed([c EXCEPT !.scan = StartScan(m, chain)])]
  <2>1. Tools[p] \subseteq ToolNames /\ Ages[p] \subseteq Nat /\ Chains \subseteq Seq(STRING)
    BY OhlcvAssumption DEF ToolNames, Routed
  <2>2. Today \in Nat
    BY DayOf DEF CacheInv, Today
  <2>3. PICK m \in Tools[p], chain \in Chains, curr \in {Today - a : a \in Ages[p]},
             bist \in BOOLEAN, dated \in BOOLEAN :
        /\ curr >= 0
        /\ UsesCache(m) => ~bist /\ dated
        /\ LET c == [pc |-> "ask", tool |-> m, curr |-> IF UsesCache(m) THEN curr ELSE 0,
                       scan |-> Scan(<<"yfinance">>), mode |-> "", want |-> 0, day |-> 0,
                       frame |-> NoFrame, tries |-> 0, raced |-> FALSE,
                       rows |-> FALSE, served |-> {}, heard |-> {}]
             IN  call' = [call EXCEPT ![p] =
                   IF m = "verify" THEN EnterLoad(c, "verify", curr)
                   ELSE IF Guarded(m, bist, dated, curr, Today) THEN Over(c, "guarded")
                   ELSE Proceed([c EXCEPT !.scan = StartScan(m, chain)])]
    BY DEF Begin
  <2>4. m \in ToolNames /\ chain \in Seq(STRING) /\ curr \in Nat
    <3>1. m \in Tools[p] /\ chain \in Chains /\ curr >= 0 /\ \E a \in Ages[p] : curr = Today - a
      BY <2>3
    <3>2. PICK a \in Nat : curr = Today - a
      BY <2>1, <3>1
    <3>3. curr \in Nat
      BY <2>2, <3>1, <3>2
    <3> QED
      BY <2>1, <3>1, <3>3
  <2>5. PICK guarded \in BOOLEAN : guarded = Guarded(m, bist, dated, curr, Today)
    BY DEF Guarded
  <2> QED
    BY <2>3, <2>4, <2>5
<1>2. PICK f \in FramesAt(now) : f = NoFrame
  BY Clock, NoFrameOK
<1>3. PICK day \in Nat : day = IF UsesCache(m) THEN curr ELSE 0
  OBVIOUS
<1> DEFINE Call(s) == [pc |-> "ask", tool |-> m, curr |-> day,
                  scan |-> s, mode |-> "", want |-> 0, day |-> 0,
                  frame |-> f, tries |-> 0, raced |-> FALSE,
                  rows |-> FALSE, served |-> {}, heard |-> {}]
<1>4. PICK x : call' = [call EXCEPT ![p] = x] /\
         x = IF m = "verify" THEN EnterLoad(Call(Scan(<<"yfinance">>)), "verify", curr)
             ELSE IF guarded THEN Over(Call(Scan(<<"yfinance">>)), "guarded")
             ELSE Proceed([Call(Scan(<<"yfinance">>)) EXCEPT !.scan = StartScan(m, chain)])
  BY <1>1, <1>2, <1>3
<1>5. ASSUME NEW s \in Scans(m)
      PROVE  /\ Call(s) \in Calls(m, now) /\ Call(s).scan = s /\ Call(s).heard = {}
             /\ Call(s).rows = FALSE /\ Call(s).mode = "" /\ Call(s).tool = m
  BY FirstTry DEF Calls
<1>6. CASE m = "verify"
  <2>1. PICK s \in Scans(m) : s = Scan(<<"yfinance">>) /\ s.verdict = "" /\ s.left # << >>
    <3>1. PICK s : s = Scan(<<"yfinance">>)
      OBVIOUS
    <3>2. <<"yfinance">> \in Seq(VendorsOf("verify"))
      <4>1. VendorMethods("verify") = <<"alpha_vantage", "yfinance">>
        BY DEF VendorMethods
      <4>2. "yfinance" \in VendorsOf("verify")
        BY <4>1 DEF VendorsOf, Range, DirectMethods, Endpoints
      <4> QED
        BY <4>2
    <3>3. s \in Scans(m) /\ s.verdict = "" /\ s.left # << >>
      BY <1>6, <3>1, <3>2 DEF Scan, Scans, Verdicts
    <3> QED
      BY <3>1, <3>3
  <2>2. PICK c \in Calls(m, now) : c = Call(s) /\ c.scan = s
    BY <1>5
  <2>3. m \notin Routed /\ ModeOK(m, "verify")
    BY <1>6 DEF ModeOK, Routed, Methods, EquityMethods, Statements, NewsMethods, DirectMethods,
       Endpoints
  <2>4. HeardOK(m, c)
    BY <2>3 DEF HeardOK
  <2>5. x = EnterLoad(c, "verify", curr)
    BY <1>4, <1>6, <2>1, <2>2
  <2>6. Landed(m, x)
    BY <2>1, <2>2, <2>3, <2>4, <2>5, Clock, EnterLoadOK
  <2> QED
    BY <1>4, <2>6, LandedOK, QuietStep DEF Begin
<1>7. CASE m # "verify" /\ guarded
  <2>1. PICK c : c = Call(Scan(<<"yfinance">>)) /\ x = Over(c, "guarded")
    BY <1>4, <1>7
  <2>2. x = [pc |-> "done", tool |-> m, verdict |-> "guarded", served |-> {}, heard |-> {}]
    BY <2>1 DEF Over
  <2>3. OverOK(m, x)
    BY <2>2 DEF OverOK, VerdictFits, Verdicts
  <2> QED
    BY <1>4, <2>3, LandedOK, QuietStep DEF Begin, Landed
<1>8. CASE m # "verify" /\ ~guarded
  <2>1. m \in Routed
    BY <1>8 DEF ToolNames
  <2>2. PICK s \in Scans(m) : s = StartScan(m, chain) /\ ScanFits(m, s, {})
    BY <2>1, StartScanFits
  <2>3. PICK c \in Calls(m, now) :
            /\ c = [Call(Scan(<<"yfinance">>)) EXCEPT !.scan = s]
            /\ c.scan = s /\ c.heard = {} /\ c.rows = FALSE /\ c.mode = ""
    <3>1. PICK t : t = Call(Scan(<<"yfinance">>))
      OBVIOUS
    <3>2. PICK c : c = [t EXCEPT !.scan = s]
      OBVIOUS
    <3>3. c \in Calls(m, now) /\ c.scan = s /\ c.heard = {} /\ c.rows = FALSE /\ c.mode = ""
      BY <3>1, <3>2, FirstTry DEF Calls
    <3> QED
      BY <3>1, <3>2, <3>3
  <2>4. HeardOK(m, c)
    BY <2>2, <2>3 DEF HeardOK
  <2>5. x = Proceed(c)
    <3> HIDE DEF Call
    <3> QED
      BY <1>4, <1>8, <2>2, <2>3
  <2>6. Landed(m, x)
    BY <2>1, <2>3, <2>4, <2>5, Clock, ProceedOK
  <2> QED
    BY <1>4, <2>6, LandedOK, QuietStep DEF Begin
<1> QED
  BY <1>6, <1>7, <1>8

\* The frame the indicators are computed from, or a refusal without one.
LEMMA AskIndicatorsOK ==
  ASSUME CacheInv, NEW p \in Callers, AskIndicators(p)
  PROVE  CacheInv'
<1>1. PICK m \in ToolNames : LiveOK(m, call[p], now)
  BY Actor DEF AskIndicators
<1>2. PICK c : c = call[p] /\ LiveOK(m, c, now)
  BY <1>1
<1>3. /\ m = "get_indicators" /\ c.tool = m /\ c \in Calls(m, now) /\ c.curr \in Nat
      /\ HeardOK(m, c) /\ c.scan.verdict = "" /\ c.scan.left # << >>
  BY <1>2 DEF AskIndicators, LoadsFrame, LiveOK, Calls
<1>4. m \in Routed /\ m \notin OptionalMethods /\ ModeOK(m, "bulk")
  BY <1>3 DEF Routed, Methods, EquityMethods, OptionalMethods, ModeOK
<1>5. CASE call' = [call EXCEPT ![p] = EnterLoad(c, "bulk", c.curr)]
  <2>1. PICK x : x = EnterLoad(c, "bulk", c.curr) /\ Landed(m, x)
    BY <1>3, <1>4, Clock, EnterLoadOK
  <2> QED
    BY <1>5, <2>1, LandedOK, QuietStep DEF AskIndicators
<1>6. CASE call' = [call EXCEPT ![p] =
             Proceed([Hear(c, "failure") EXCEPT !.scan = AfterVendor(m, @, "unsupported")])]
  <2>1. PICK h \in SUBSET Sounds : h = c.heard \cup {"failure"}
    BY <1>3 DEF Calls, Sounds
  <2>2. [Hear(c, "failure") EXCEPT !.scan = AfterVendor(m, @, "unsupported")]
           = [c EXCEPT !.heard = h, !.scan = AfterVendor(m, @, "unsupported")]
    BY <1>3, <2>1 DEF Hear, Calls
  <2>3. OutcomeFits(m, c.scan.noData, "unsupported", h)
    <3>1. "none" \in h => c.scan.noData
      BY <1>3, <1>4, <2>1 DEF HeardOK, ScanFits
    <3> QED
      BY <2>1, <3>1 DEF OutcomeFits, Outcomes, Errors
  <2>4. PICK x : x = Proceed([c EXCEPT !.heard = h, !.scan = AfterVendor(m, @, "unsupported")])
    OBVIOUS
  <2>5. Landed(m, x)
    BY <1>2, <1>4, <2>1, <2>3, <2>4, Clock, AnsweringOK
  <2> QED
    BY <1>6, <2>2, <2>4, <2>5, LandedOK, QuietStep DEF AskIndicators
<1> QED
  BY <1>2, <1>3, <1>5, <1>6 DEF AskIndicators

LEMMA AskVendorOK ==
  ASSUME CacheInv, NEW p \in Callers, AskVendor(p)
  PROVE  CacheInv'
<1>1. PICK m \in ToolNames : LiveOK(m, call[p], now) /\ call[p].tool = m /\ m \in Methods
  <2>1. PICK m \in ToolNames : LiveOK(m, call[p], now)
    BY Actor DEF AskVendor
  <2> QED
    BY <2>1 DEF AskVendor, LiveOK, Calls
<1>2. PICK c : c = call[p]
  OBVIOUS
<1>3. c.tool = m /\ m \in Routed /\ c.heard \in SUBSET Sounds /\ c.scan \in Scans(m)
      /\ c.scan.noData \in BOOLEAN /\ HeardOK(m, c)
  BY <1>1, <1>2 DEF LiveOK, Calls, Scans, Routed
<1>4. PICK v \in VendorsOf(m) :
        \E r \in VendorResponses(v, m) : \E o \in VendorOutcomes(v, m, r) :
           call' = [call EXCEPT ![p] =
                      Proceed([Hear(c, Saying(r)) EXCEPT !.scan = AfterVendor(m, @, o)])]
  <2>1. Head(c.scan.left) \in VendorsOf(m)
    <3>1. c.scan.left \in Seq(VendorsOf(m)) /\ c.scan.left # << >>
      BY <1>1, <1>2, <1>3 DEF LiveOK, Scans
    <3> QED
      BY <3>1, HeadTailProperties
  <2>2. PICK v \in {Head(c.scan.left)} :
          \E r \in VendorResponses(v, c.tool) : \E o \in VendorOutcomes(v, c.tool, r) :
             call' = [call EXCEPT ![p] =
                        Proceed([Hear(c, Saying(r)) EXCEPT !.scan = AfterVendor(c.tool, @, o)])]
    BY <1>2 DEF AskVendor
  <2>3. v \in VendorsOf(m)
    BY <2>1, <2>2
  <2> QED
    BY <1>3, <2>2, <2>3
<1>41. PICK r \in VendorResponses(v, m), o \in Outcomes :
        /\ o \in VendorOutcomes(v, m, r)
        /\ call' = [call EXCEPT ![p] =
                      Proceed([Hear(c, Saying(r)) EXCEPT !.scan = AfterVendor(m, @, o)])]
  <2>1. PICK r \in VendorResponses(v, m) : \E o \in VendorOutcomes(v, m, r) :
           call' = [call EXCEPT ![p] =
                      Proceed([Hear(c, Saying(r)) EXCEPT !.scan = AfterVendor(m, @, o)])]
    BY <1>4
  <2>2. PICK o \in VendorOutcomes(v, m, r) :
           call' = [call EXCEPT ![p] =
                      Proceed([Hear(c, Saying(r)) EXCEPT !.scan = AfterVendor(m, @, o)])]
    BY <2>1
  <2>3. o \in Outcomes
    BY <1>1, VendorFits DEF OutcomeFits
  <2> QED
    BY <2>2, <2>3
<1>5. "none" \in c.heard => c.scan.noData
  BY <1>1, <1>2, <1>3 DEF LiveOK, HeardOK, ScanFits
<1>6. PICK h \in SUBSET Sounds : h = c.heard \cup {Saying(r)}
  BY <1>3 DEF Saying, Sounds
<1>7. OutcomeFits(m, c.scan.noData, o, h)
  BY <1>1, <1>3, <1>41, <1>5, <1>6, VendorFits
<1>8. Hear(c, Saying(r)) = [c EXCEPT !.heard = h]
  <2>1. m # "verify"
    BY <1>1 DEF Methods, EquityMethods, Statements, NewsMethods
  <2> QED
    BY <1>1, <1>2, <1>3, <1>6, <2>1 DEF Hear, LiveOK, Calls
<1>9. [Hear(c, Saying(r)) EXCEPT !.scan = AfterVendor(m, @, o)]
         = [c EXCEPT !.heard = h, !.scan = AfterVendor(m, @, o)]
  BY <1>8
<1>10. Landed(m, Proceed([c EXCEPT !.heard = h, !.scan = AfterVendor(m, @, o)]))
  <2>1. c.heard \subseteq h
    BY <1>6
  <2> QED
    BY <1>1, <1>2, <1>3, <1>7, <2>1, Clock, AnsweringOK
<1>11. PICK x : x = Proceed([c EXCEPT !.heard = h, !.scan = AfterVendor(m, @, o)])
  OBVIOUS
<1> QED
  BY <1>41, <1>9, <1>10, <1>11, LandedOK, QuietStep DEF AskVendor

LEMMA AskSourceOK ==
  ASSUME CacheInv, NEW p \in Callers, AskSource(p)
  PROVE  CacheInv'
<1>1. PICK m \in ToolNames : LiveOK(m, call[p], now) /\ call[p].tool = m /\ m \in DirectMethods
  <2>1. PICK m \in ToolNames : LiveOK(m, call[p], now)
    BY Actor DEF AskSource
  <2> QED
    BY <2>1 DEF AskSource, LiveOK, Calls
<1>2. PICK c : c = call[p]
  OBVIOUS
<1>3. c.tool = m /\ m \in Routed /\ c.heard \in SUBSET Sounds /\ c.scan \in Scans(m)
      /\ c.scan.noData \in BOOLEAN /\ HeardOK(m, c)
  BY <1>1, <1>2 DEF LiveOK, Calls, Scans, Routed
<1>4. PICK R \in SourceResponses(m) : \E o \in DirectOutcomes(m, R) :
        call' = [call EXCEPT ![p] = Proceed([HearAll(c, R) EXCEPT !.scan = AfterVendor(m, @, o)])]
  BY <1>1, <1>2 DEF AskSource
<1>41. PICK o \in DirectOutcomes(m, R) :
        call' = [call EXCEPT ![p] = Proceed([HearAll(c, R) EXCEPT !.scan = AfterVendor(m, @, o)])]
  BY <1>4
<1>5. "none" \in c.heard => c.scan.noData
  BY <1>1, <1>2, <1>3 DEF LiveOK, HeardOK, ScanFits
<1>6. PICK h \in SUBSET Sounds : h = c.heard \cup Said(R) /\ OutcomeFits(m, c.scan.noData, o, h)
  BY <1>1, <1>3, <1>5, SourceFits
<1>7. HearAll(c, R) = [c EXCEPT !.heard = h]
  <2>1. m # "verify"
    BY <1>1 DEF DirectMethods, Endpoints
  <2> QED
    BY <1>1, <1>2, <1>3, <1>6, <2>1 DEF HearAll, LiveOK, Calls, Said
<1>8. [HearAll(c, R) EXCEPT !.scan = AfterVendor(m, @, o)]
         = [c EXCEPT !.heard = h, !.scan = AfterVendor(m, @, o)]
  BY <1>7
<1>9. Landed(m, Proceed([c EXCEPT !.heard = h, !.scan = AfterVendor(m, @, o)]))
  <2>1. c.heard \subseteq h
    BY <1>6
  <2> QED
    BY <1>1, <1>2, <1>3, <1>6, <2>1, Clock, AnsweringOK
<1>10. PICK x : x = Proceed([c EXCEPT !.heard = h, !.scan = AfterVendor(m, @, o)])
  OBVIOUS
<1> QED
  BY <1>41, <1>8, <1>9, <1>10, LandedOK, QuietStep DEF AskSource

\* A download is of the moment it ends.
LEMMA FetchOK ==
  ASSUME CacheInv, NEW p \in Callers, Fetch(p)
  PROVE  CacheInv'
<1>1. PICK m \in ToolNames : LiveOK(m, call[p], now)
  BY Actor DEF Fetch
<1>2. PICK c : c = call[p] /\ LiveOK(m, c, now) /\ c.pc = "fetch"
  BY <1>1 DEF Fetch
<1>3. UNCHANGED <<now, file>>
  BY DEF Fetch
<1>4. c \in Calls(m, now) /\ c.tries \in 0 .. Retries /\ c.day \in Nat
  BY <1>2 DEF LiveOK, Calls
<1>5. CASE call' = [call EXCEPT ![p] = Throttled(c)]
  <2>1. CASE c.tries < Retries
    <3>1. PICK x : x = [c EXCEPT !.tries = @ + 1] /\ x = Throttled(c)
      BY <2>1 DEF Throttled
    <3>2. c.tries + 1 \in 0 .. Retries
      <4>1. Retries \in Nat
        BY OhlcvAssumption
      <4> QED
        BY <1>4, <2>1, <4>1
    <3>3. /\ x \in Calls(m, now) /\ x.pc = "fetch" /\ x.scan = c.scan /\ x.heard = c.heard
          /\ x.rows = c.rows /\ x.mode = c.mode /\ x.day = c.day
      BY <1>2, <1>4, <3>1, <3>2 DEF Calls
    <3>4. LiveOK(m, x, now)
      BY <1>2, <3>3 DEF LiveOK, HeardOK, FrameOK
    <3> QED
      BY <1>3, <1>5, <3>1, <3>3, <3>4, QuietStep DEF CallOK
  <2>2. CASE ~(c.tries < Retries)
    <3>1. Throttled(c) = LoadFails(Hear(c, "failure"))
      BY <2>2 DEF Throttled
    <3> QED
      BY <1>2, <1>3, <1>5, <3>1, Clock, LoadFailsOK, LandedOK, QuietStep
  <2> QED
    BY <2>1, <2>2
<1>6. CASE call' = [call EXCEPT ![p] = LoadFails(Hear(c, "failure"))]
  BY <1>2, <1>3, <1>6, Clock, LoadFailsOK, LandedOK, QuietStep
<1>7. CASE call' = [call EXCEPT ![p] = LoadNoData(Hear(c, "none"))]
  BY <1>2, <1>3, <1>7, Clock, LoadNoDataOK, LandedOK, QuietStep
<1>8. ASSUME NEW upto \in {Today, Today - 1, First(c.day)},
             call' = [call EXCEPT ![p].pc = "store", ![p].tries = 0,
                                  ![p].frame = Contents(upto, now, FALSE)]
      PROVE  CacheInv'
  <2>1. /\ Today \in Nat /\ Today = now \div DayLen /\ Window \in Nat
        /\ Window <= c.day /\ c.day * DayLen <= now /\ c.day <= Today
    BY <1>2, <1>4, Clock, DayOf, Numbers DEF Today, LiveOK, FrameOK
  <2>2. upto \in ZeroBytes .. now \div DayLen
    BY <1>4, <2>1 DEF ZeroBytes, First
  <2>3. PICK f \in FramesAt(now) : f = Contents(upto, now, FALSE) /\ f.at = now
    <3>1. now \in Start .. now
      BY Clock, Numbers
    <3>2. PICK f : f = Contents(upto, now, FALSE)
      OBVIOUS
    <3>3. f \in FramesAt(now) /\ f.at = now
      BY <2>2, <3>1, <3>2 DEF Contents, FramesAt
    <3> QED
      BY <3>2, <3>3
  <2>4. PICK x : x = [c EXCEPT !.pc = "store", !.tries = 0, !.frame = f]
    OBVIOUS
  <2>5. call' = [call EXCEPT ![p] = x]
    BY <1>2, <1>4, <1>8, <2>3, <2>4 DEF Calls, CacheInv
  <2>6. /\ x \in Calls(m, now) /\ x.pc = "store" /\ x.frame = f /\ x.scan = c.scan
        /\ x.heard = c.heard /\ x.rows = c.rows /\ x.mode = c.mode /\ x.day = c.day
    BY <1>4, <2>4, FirstTry DEF Calls
  <2>7. LiveOK(m, x, now)
    BY <1>2, <2>1, <2>3, <2>6 DEF LiveOK, HeardOK, FrameOK
  <2> QED
    BY <1>3, <2>5, <2>6, <2>7, QuietStep DEF CallOK
<1> QED
  BY <1>2, <1>5, <1>6, <1>7, <1>8 DEF Fetch

\* What the file is judged by: its mtime, for a request of the current day.
LEMMA JudgeCacheOK ==
  ASSUME CacheInv, NEW p \in Callers, JudgeCache(p)
  PROVE  CacheInv'
<1>1. PICK m \in ToolNames : LiveOK(m, call[p], now)
  BY Actor DEF JudgeCache
<1>2. PICK c : c = call[p] /\ LiveOK(m, c, now) /\ c.pc = "judge"
  BY <1>1 DEF JudgeCache
<1>3. UNCHANGED <<now, file>>
  BY DEF JudgeCache
<1>4. /\ c \in Calls(m, now) /\ c.day \in Nat /\ c.frame \in FramesAt(now)
      /\ Window <= c.day /\ c.day * DayLen <= now /\ c.day * DayLen <= c.frame.at
  BY <1>2 DEF LiveOK, Calls, FrameOK
<1>5. CASE NeedsSameDayRefresh(c)
  <2>1. PICK f \in FramesAt(now) : f = NoFrame
    BY Clock, NoFrameOK
  <2>2. PICK x : x = [c EXCEPT !.pc = "fetch", !.frame = f, !.raced = FALSE]
    OBVIOUS
  <2>3. call' = [call EXCEPT ![p] = x]
    BY <1>2, <1>5, <2>1, <2>2 DEF JudgeCache
  <2>4. /\ x \in Calls(m, now) /\ x.pc = "fetch" /\ x.scan = c.scan /\ x.heard = c.heard
        /\ x.rows = c.rows /\ x.mode = c.mode /\ x.day = c.day
    BY <1>4, <2>2 DEF Calls
  <2>5. LiveOK(m, x, now)
    BY <1>2, <2>4 DEF LiveOK, HeardOK, FrameOK
  <2> QED
    BY <1>3, <2>3, <2>4, <2>5, QuietStep DEF CallOK
<1>6. CASE ~NeedsSameDayRefresh(c)
  <2>1. c.want >= c.day /\ ~c.raced => now - c.frame.at <= TTL
    <3>1. c.day \in Days /\ ReadOK(p)
      BY <1>4, DayOfFile DEF CacheInv
    <3>2. file[c.day] # NoFile /\ (~c.raced => c.frame.at = file[c.day].mtime)
      BY <1>2, <3>1 DEF ReadOK
    <3>3. file[c.day].mtime \in Start .. now /\ Start \in Nat /\ TTL \in Nat /\ now \in Nat
      BY <3>1, <3>2, Numbers, Clock DEF CacheInv, FileOK
    <3> QED
      BY <1>6, <3>2, <3>3 DEF NeedsSameDayRefresh, Key
  <2>2. \A x \in LoadReturns(c, c.frame) : Landed(m, x)
    BY <1>2, <1>4, <2>1, Clock, LoadReturnsOK
  <2>3. PICK x \in LoadReturns(c, c.frame) : call' = [call EXCEPT ![p] = x]
    BY <1>2, <1>6 DEF JudgeCache
  <2> QED
    BY <1>3, <2>2, <2>3, LandedOK, QuietStep
<1> QED
  BY <1>5, <1>6

\* A part of a frame is of the same moment.
LEMMA PartsOfOK ==
  ASSUME now \in Nat, Start <= now, NEW f \in FramesAt(now), NEW g \in PartsOf(f)
  PROVE  g \in FramesAt(now) /\ g.at = f.at
<1>1. CASE g = f
  BY <1>1
<1>2. CASE \E u \in {ZeroBytes, HeaderOnly} \cup (First(Today) .. f.upto - 1) :
             g = Contents(u, f.at, TRUE)
  <2>1. PICK u \in {ZeroBytes, HeaderOnly} \cup (First(Today) .. f.upto - 1) :
             g = Contents(u, f.at, TRUE)
    BY <1>2
  <2>2. /\ Window \in Nat /\ Window <= now \div DayLen /\ now \div DayLen \in Nat
    BY Numbers, DayOf
  <2>3. f.upto \in ZeroBytes .. now \div DayLen /\ f.at \in Start .. now
    BY DEF FramesAt
  <2>4. u \in ZeroBytes .. now \div DayLen
    BY <2>1, <2>2, <2>3 DEF First, Today, ZeroBytes, HeaderOnly
  <2> QED
    BY <2>1, <2>3, <2>4 DEF Contents, FramesAt
<1> QED
  BY <1>1, <1>2 DEF PartsOf

\* What is read of a file is of the moment its mtime tells, if it has a row.
LEMMA ReadableOK ==
  ASSUME CacheInv, NEW d \in Days, file[d] # NoFile, NEW f \in Readable(d)
  PROVE  f \in FramesAt(now) /\ WrittenOK(d, f, file[d].mtime)
<1>1. file[d] \in [is : {"file"}, c : FramesAt(now), mtime : Start .. now]
      /\ WrittenOK(d, file[d].c, file[d].mtime)
  BY DEF CacheInv, FileOK
<1>2. CASE Writing(d) = {}
  <2>1. f = file[d].c
    BY <1>2 DEF Readable
  <2> QED
    BY <1>1, <2>1
<1>3. CASE Writing(d) # {}
  <2>1. PICK q \in Writing(d) : f \in PartsOf(call[q].frame)
    BY <1>3 DEF Readable
  <2>2. q \in Callers /\ call[q].pc = "storing" /\ call[q].day = d
    BY <2>1 DEF Writing, Key
  <2>3. PICK m \in ToolNames : LiveOK(m, call[q], now)
    BY <2>2, Actor
  <2>4. /\ call[q].frame \in FramesAt(now) /\ call[q].frame.at = now
        /\ d * DayLen <= call[q].frame.at
    BY <2>2, <2>3 DEF LiveOK, Calls, FrameOK
  <2>5. file[d].mtime = now
    BY <2>2 DEF CacheInv, StoringOK
  <2>6. f \in FramesAt(now) /\ f.at = call[q].frame.at
    BY <2>1, <2>4, Clock, PartsOfOK
  <2> QED
    BY <2>4, <2>5, <2>6 DEF WrittenOK
<1> QED
  BY <1>2, <1>3

LEMMA ReadCacheOK ==
  ASSUME CacheInv, NEW p \in Callers, ReadCache(p)
  PROVE  CacheInv'
<1>1. call[p].pc = "open" /\ UNCHANGED <<now, file>>
  BY DEF ReadCache, Idle
<1>2. PICK m \in ToolNames : LiveOK(m, call[p], now)
  BY <1>1, Actor
<1>3. PICK c : c = [call[p] EXCEPT !.served = {}]
  OBVIOUS
<1>4. /\ c \in Calls(m, now) /\ c.pc = "open" /\ c.day = call[p].day /\ c.scan = call[p].scan
      /\ c.heard = call[p].heard /\ c.rows = call[p].rows /\ c.mode = call[p].mode
      /\ c.raced = call[p].raced
  BY <1>1, <1>2, <1>3 DEF LiveOK, Calls
<1>5. LiveOK(m, c, now)
  BY <1>1, <1>2, <1>4 DEF LiveOK, HeardOK, FrameOK
<1>6. c.day \in Nat /\ Window <= c.day /\ c.day * DayLen <= now /\ c.day \in Days
  <2>1. c.day \in Nat /\ Window <= c.day /\ c.day * DayLen <= now
    BY <1>4, <1>5 DEF LiveOK, Calls, FrameOK
  <2> QED
    BY <2>1, DayOfFile
<1>7. ASSUME call' = [call EXCEPT ![p] = [c EXCEPT !.pc = "fetch"]]
      PROVE  CacheInv'
  <2>1. PICK x : x = [c EXCEPT !.pc = "fetch"]
    OBVIOUS
  <2>2. /\ x \in Calls(m, now) /\ x.pc = "fetch" /\ x.scan = c.scan /\ x.heard = c.heard
        /\ x.rows = c.rows /\ x.mode = c.mode /\ x.day = c.day
    BY <1>4, <2>1 DEF Calls
  <2>3. LiveOK(m, x, now)
    BY <1>4, <1>5, <2>2 DEF LiveOK, HeardOK, FrameOK
  <2> QED
    BY <1>1, <1>7, <2>1, <2>2, <2>3, QuietStep DEF CallOK
<1>8. ASSUME file[c.day] # NoFile, NEW f \in Readable(c.day), f.upto # ZeroBytes,
             call' = [call EXCEPT ![p] = [c EXCEPT !.pc = "judge", !.frame = f]]
      PROVE  CacheInv'
  <2>1. f \in FramesAt(now) /\ f.at = file[c.day].mtime /\ c.day * DayLen <= f.at
    <3>1. f # NoFrame
      BY <1>8 DEF NoFrame, Contents
    <3> QED
      BY <1>6, <1>8, <3>1, ReadableOK DEF WrittenOK
  <2>2. PICK x : x = [c EXCEPT !.pc = "judge", !.frame = f]
    OBVIOUS
  <2>3. /\ x \in Calls(m, now) /\ x.pc = "judge" /\ x.scan = c.scan /\ x.heard = c.heard
        /\ x.rows = c.rows /\ x.mode = c.mode /\ x.day = c.day /\ x.frame = f
    BY <1>4, <2>1, <2>2 DEF Calls
  <2>4. LiveOK(m, x, now)
    BY <1>4, <1>5, <2>1, <2>3 DEF LiveOK, HeardOK, FrameOK
  <2>5. DOMAIN call' = Callers /\ call'[p] = x /\ \A q \in Callers \ {p} : call'[q] = call[q]
    BY <1>8, <2>2 DEF CacheInv
  <2>6. ASSUME NEW q \in Callers
        PROVE  CallOK(call'[q], now) /\ ReadOK(q)' /\ StoringOK(q)'
    <3>1. CASE q = p
      BY <1>1, <1>8, <2>1, <2>3, <2>4, <2>5, <3>1 DEF ReadOK, StoringOK, CallOK
    <3>2. CASE q # p
      BY <1>1, <2>5, <3>2 DEF CacheInv, ReadOK, StoringOK
    <3> QED
      BY <3>1, <3>2
  <2>7. \A k \in Days : FileOK(k)'
    BY <1>1 DEF CacheInv, FileOK
  <2> QED
    BY <1>1, <2>5, <2>6, <2>7 DEF CacheInv
<1>9. CASE file[c.day] = NoFile /\ call' = [call EXCEPT ![p] = [c EXCEPT !.pc = "fetch"]]
  BY <1>7, <1>9
<1>10. CASE file[c.day] # NoFile /\ \E f \in Readable(c.day) :
             call' = [call EXCEPT ![p] =
               IF f.upto = ZeroBytes THEN LoadFails(Hear(c, "failure"))
               ELSE IF f.upto < First(c.day) THEN [c EXCEPT !.pc = "fetch"]
               ELSE [c EXCEPT !.pc = "judge", !.frame = f]]
  <2>1. PICK f \in Readable(c.day) :
             call' = [call EXCEPT ![p] =
               IF f.upto = ZeroBytes THEN LoadFails(Hear(c, "failure"))
               ELSE IF f.upto < First(c.day) THEN [c EXCEPT !.pc = "fetch"]
               ELSE [c EXCEPT !.pc = "judge", !.frame = f]]
    BY <1>10
  <2>2. CASE f.upto = ZeroBytes
    <3>1. call' = [call EXCEPT ![p] = LoadFails(Hear(c, "failure"))]
      BY <2>1, <2>2
    <3> QED
      BY <1>1, <1>4, <1>5, <3>1, Clock, LoadFailsOK, LandedOK, QuietStep
  <2>3. CASE f.upto # ZeroBytes /\ f.upto < First(c.day)
    BY <1>7, <2>1, <2>3
  <2>4. CASE f.upto # ZeroBytes /\ ~(f.upto < First(c.day))
    BY <1>8, <1>10, <2>1, <2>4
  <2> QED
    BY <2>2, <2>3, <2>4
<1> QED
  BY <1>1, <1>3, <1>9, <1>10 DEF ReadCache, Key

-----------------------------------------------------------------------------
(* Writing the file.                                                       *)

\* A file is written with a frame of this moment, or emptied.
LEMMA StoreStep ==
  ASSUME CacheInv, NEW p \in Callers, NEW k \in Days, NEW f \in FramesAt(now), NEW x,
         f = NoFrame \/ f.at = now, k * DayLen <= now,
         file' = [file EXCEPT ![k] = CacheFile(f, now)], now' = now,
         call' = Overtake(k, [call EXCEPT ![p] = x]), CallOK(x, now), x.pc # "judge",
         x.pc = "storing" => x.day = k
  PROVE  CacheInv'
<1>1. /\ DOMAIN file' = Days /\ file'[k] = CacheFile(f, now)
      /\ \A d \in Days \ {k} : file'[d] = file[d]
  BY DEF CacheInv
<1>2. PICK g : g = CacheFile(f, now)
  OBVIOUS
<1>3. /\ g # NoFile /\ g \in [is : {"file"}, c : FramesAt(now), mtime : Start .. now]
      /\ g.c = f /\ g.mtime = now
  <2>1. now \in Start .. now
    BY Clock, Numbers
  <2> QED
    BY <1>2, <2>1 DEF CacheFile, NoFile
<1>4. ASSUME NEW d \in Days
      PROVE  FileOK(d)'
  <2>1. CASE d = k
    BY <1>1, <1>2, <1>3, <2>1 DEF FileOK, WrittenOK
  <2>2. CASE d # k
    BY <1>1, <2>2 DEF FileOK, CacheInv
  <2> QED
    BY <2>1, <2>2
<1>5. /\ DOMAIN call' = Callers
      /\ \A q \in Callers : call'[q] =
           LET c == IF q = p THEN x ELSE call[q]
           IN  IF c.pc = "judge" /\ c.day = k THEN [c EXCEPT !.raced = TRUE] ELSE c
  BY DEF CacheInv, Overtake, Key
<1>6. call'[p] = x
  BY <1>5
<1>7. ASSUME NEW q \in Callers, q # p
      PROVE  CallOK(call'[q], now) /\ ReadOK(q)' /\ StoringOK(q)'
  <2>0. CallOK(call[q], now) /\ ReadOK(q) /\ StoringOK(q)
    BY DEF CacheInv
  <2>1. CASE call[q].pc = "judge" /\ call[q].day = k
    <3>1. PICK y : y = [call[q] EXCEPT !.raced = TRUE] /\ call'[q] = y
      BY <1>5, <1>7, <2>1
    <3>2. PICK m \in ToolNames : LiveOK(m, call[q], now)
      BY <2>1, Actor
    <3>3. /\ y \in Calls(m, now) /\ y.pc = "judge" /\ y.raced = TRUE /\ y.day = k
          /\ y.scan = call[q].scan /\ y.heard = call[q].heard /\ y.rows = call[q].rows
          /\ y.mode = call[q].mode /\ y.frame = call[q].frame
      BY <2>1, <3>1, <3>2 DEF LiveOK, Calls
    <3>4. LiveOK(m, y, now)
      BY <2>1, <3>2, <3>3 DEF LiveOK, HeardOK, FrameOK
    <3>5. CallOK(call'[q], now)
      BY <3>1, <3>4 DEF CallOK
    <3>6. ReadOK(q)'
      BY <1>1, <1>2, <1>3, <3>1, <3>3 DEF ReadOK
    <3>7. StoringOK(q)'
      BY <3>1, <3>3 DEF StoringOK
    <3> QED
      BY <3>5, <3>6, <3>7
  <2>2. CASE ~(call[q].pc = "judge" /\ call[q].day = k)
    <3>1. call'[q] = call[q]
      BY <1>5, <1>7, <2>2
    <3>2. ASSUME call[q].pc \in {"judge", "storing"}
          PROVE  call[q].day \in Days
      <4>1. PICK m \in ToolNames : LiveOK(m, call[q], now)
        BY <3>2, Actor
      <4>2. call[q].day \in Nat /\ call[q].day * DayLen <= now
        BY <3>2, <4>1 DEF LiveOK, Calls, FrameOK
      <4> QED
        BY <4>2, DayOfFile
    <3>3. ReadOK(q)'
      BY <1>1, <2>0, <2>2, <3>1, <3>2 DEF ReadOK
    <3>4. StoringOK(q)'
      <4>1. CASE call[q].day = k
        BY <1>1, <1>2, <1>3, <3>1, <4>1 DEF StoringOK
      <4>2. CASE call[q].day # k
        BY <1>1, <2>0, <3>1, <3>2, <4>2 DEF StoringOK
      <4> QED
        BY <4>1, <4>2
    <3> QED
      BY <2>0, <3>1, <3>3, <3>4
  <2> QED
    BY <2>1, <2>2
<1>8. CallOK(call'[p], now) /\ ReadOK(p)' /\ StoringOK(p)'
  BY <1>1, <1>2, <1>3, <1>6 DEF ReadOK, StoringOK
<1>9. \A q \in Callers : CallOK(call'[q], now) /\ ReadOK(q)' /\ StoringOK(q)'
  BY <1>7, <1>8
<1> QED
  BY <1>1, <1>4, <1>5, <1>9 DEF CacheInv

LEMMA StoreBeginOK ==
  ASSUME CacheInv, NEW p \in Callers, StoreBegin(p)
  PROVE  CacheInv'
<1>1. PICK m \in ToolNames : LiveOK(m, call[p], now)
  BY Actor DEF StoreBegin
<1>2. PICK c : c = call[p] /\ LiveOK(m, c, now) /\ c.pc = "store"
  BY <1>1 DEF StoreBegin
<1>3. c \in Calls(m, now) /\ c.day \in Nat /\ c.day * DayLen <= now /\ c.day \in Days
  <2>1. c \in Calls(m, now) /\ c.day \in Nat /\ c.day * DayLen <= now
    BY <1>2 DEF LiveOK, Calls, FrameOK
  <2> QED
    BY <2>1, DayOfFile
<1>4. PICK x : x = [c EXCEPT !.pc = "storing"]
  OBVIOUS
<1>5. /\ x \in Calls(m, now) /\ x.pc = "storing" /\ x.scan = c.scan /\ x.heard = c.heard
      /\ x.rows = c.rows /\ x.mode = c.mode /\ x.day = c.day /\ x.frame = c.frame
  BY <1>3, <1>4 DEF Calls
<1>6. LiveOK(m, x, now)
  BY <1>2, <1>5 DEF LiveOK, HeardOK, FrameOK
<1>7. PICK f \in FramesAt(now) : f = NoFrame
  BY Clock, NoFrameOK
<1>8. /\ file' = [file EXCEPT ![c.day] = CacheFile(f, now)] /\ now' = now
      /\ call' = Overtake(c.day, [call EXCEPT ![p] = x])
  BY <1>2, <1>4, <1>7 DEF StoreBegin, Key, CacheInv
<1> QED
  BY <1>3, <1>5, <1>6, <1>7, <1>8, StoreStep DEF CallOK

\* What a writer holds, and where it writes.
LEMMA WriterOK ==
  ASSUME CacheInv, NEW p \in Callers, call[p].pc = "storing"
  PROVE  /\ call[p].day \in Days /\ call[p].day * DayLen <= now
         /\ call[p].frame \in FramesAt(now) /\ call[p].frame.at = now
         /\ file[call[p].day] # NoFile /\ file[call[p].day].mtime = now
         /\ \A f \in PartsOf(call[p].frame) : f \in FramesAt(now) /\ f.at = now
         /\ \E m \in ToolNames : LiveOK(m, call[p], now)
<1>1. PICK m \in ToolNames : LiveOK(m, call[p], now)
  BY Actor
<1>2. /\ call[p].day \in Nat /\ call[p].day * DayLen <= now
      /\ call[p].frame \in FramesAt(now) /\ call[p].frame.at = now
  BY <1>1 DEF LiveOK, Calls, FrameOK
<1>3. file[call[p].day] # NoFile /\ file[call[p].day].mtime = now
  BY DEF CacheInv, StoringOK
<1>4. \A f \in PartsOf(call[p].frame) : f \in FramesAt(now) /\ f.at = now
  BY <1>2, Clock, PartsOfOK
<1> QED
  BY <1>1, <1>2, <1>3, <1>4, DayOfFile

LEMMA StoreEndOK ==
  ASSUME CacheInv, NEW p \in Callers, StoreEnd(p)
  PROVE  CacheInv'
<1>1. call[p].pc = "storing" /\ now' = now
  BY DEF StoreEnd
<1>0. PICK m \in ToolNames : LiveOK(m, call[p], now)
  BY <1>1, WriterOK
<1>2. PICK c : c = call[p] /\ LiveOK(m, c, now)
  BY <1>0
<1>3. /\ c.day \in Days /\ c.day * DayLen <= now /\ c.frame \in FramesAt(now)
      /\ c.frame.at = now /\ file[c.day] # NoFile /\ file[c.day].mtime = now
  BY <1>1, <1>2, WriterOK
<1>4. PICK f \in Written(p, c.day) : file' = [file EXCEPT ![c.day] = CacheFile(f, now)]
  BY <1>2 DEF StoreEnd, Key
<1>5. f \in FramesAt(now) /\ f.at = now
  <2>1. CASE f = file[c.day].c /\ f # NoFrame
    <3>1. FileOK(c.day)
      BY <1>3 DEF CacheInv
    <3> QED
      BY <1>3, <2>1, <3>1 DEF FileOK, WrittenOK
  <2>2. ASSUME NEW q \in Callers, call[q].pc = "storing", f \in Mixed(call[q].frame)
        PROVE  f \in FramesAt(now) /\ f.at = now
    <3>1. PICK g \in PartsOf(call[q].frame) : f = [g EXCEPT !.torn = TRUE]
      BY <2>2 DEF Mixed
    <3>2. g \in FramesAt(now) /\ g.at = now
      BY <2>2, <3>1, WriterOK
    <3> QED
      BY <3>1, <3>2 DEF FramesAt
  <2>3. ASSUME NEW q \in Callers, call[q].pc = "storing", f = call[q].frame
        PROVE  f \in FramesAt(now) /\ f.at = now
    BY <2>3, WriterOK
  <2>4. \/ f = file[c.day].c /\ f # NoFrame
        \/ \E q \in Callers : /\ call[q].pc = "storing"
                              /\ f = call[q].frame \/ f \in Mixed(call[q].frame)
    BY <1>1, <1>4 DEF Written, Writing
  <2> QED
    BY <2>1, <2>2, <2>3, <2>4
<1>6. \A x \in LoadReturns(c, c.frame) : Landed(m, x)
  <2>1. now - c.frame.at <= TTL /\ c.day * DayLen <= c.frame.at
    BY <1>3, Clock, Numbers
  <2> QED
    BY <1>1, <1>2, <1>3, <2>1, Clock, LoadReturnsOK
<1>7. PICK x \in LoadReturns(c, c.frame) : call' = Overtake(c.day, [call EXCEPT ![p] = x])
  BY <1>2 DEF StoreEnd, Key
<1>9. CallOK(x, now) /\ x.pc \notin {"judge", "storing"}
  BY <1>6, <1>7, LandedOK
<1> QED
  BY <1>1, <1>3, <1>4, <1>5, <1>7, <1>9, StoreStep

LEMMA StoreRaisesOK ==
  ASSUME CacheInv, NEW p \in Callers, StoreRaises(p)
  PROVE  CacheInv'
<1>1. call[p].pc = "storing" /\ now' = now
  BY DEF StoreRaises
<1>0. PICK m \in ToolNames : LiveOK(m, call[p], now)
  BY <1>1, WriterOK
<1>2. PICK c : c = call[p] /\ LiveOK(m, c, now)
  BY <1>0
<1>3. c.day \in Days /\ c.day * DayLen <= now
  BY <1>1, <1>2, WriterOK
<1>4. PICK f \in PartsOf(c.frame) : file' = [file EXCEPT ![c.day] = CacheFile(f, now)]
  BY <1>2 DEF StoreRaises, Key
<1>5. f \in FramesAt(now) /\ f.at = now
  BY <1>1, <1>2, <1>4, WriterOK
<1>6. PICK x : x = LoadFails(Hear(c, "failure"))
  OBVIOUS
<1>7. Landed(m, x)
  BY <1>1, <1>2, <1>6, Clock, LoadFailsOK
<1>8. call' = Overtake(c.day, [call EXCEPT ![p] = x])
  BY <1>2, <1>6 DEF StoreRaises, Key
<1>9. CallOK(x, now) /\ x.pc \notin {"judge", "storing"}
  BY <1>7, LandedOK
<1> QED
  BY <1>1, <1>3, <1>4, <1>5, <1>8, <1>9, StoreStep

LEMMA ReturnOK ==
  ASSUME CacheInv, NEW p \in Callers, Return(p)
  PROVE  CacheInv'
<1>1. CallOK(Idle, now) /\ Idle.pc \notin {"judge", "storing"}
  BY DEF CallOK, Idle
<1> QED
  BY <1>1, QuietStep DEF Return

\* A writer that dies leaves a part of its frame, of the moment it was opened.
LEMMA DieOK ==
  ASSUME CacheInv, NEW p \in Callers, Die(p)
  PROVE  CacheInv'
<1>1. CallOK(Idle, now) /\ Idle.pc \notin {"judge", "storing"}
  BY DEF CallOK, Idle
<1>2. CASE call[p].pc # "storing"
  BY <1>1, <1>2, QuietStep DEF Die
<1>3. CASE call[p].pc = "storing"
  <2>1. PICK k \in Days, f \in PartsOf(call[p].frame) :
           k = call[p].day /\ file' = [file EXCEPT ![k] = CacheFile(f, now)]
    <3>1. PICK f \in PartsOf(call[p].frame) :
              file' = [file EXCEPT ![Key(call[p].day)] = CacheFile(f, now)]
      BY <1>3 DEF Die
    <3> QED
      BY <1>3, <3>1, WriterOK DEF Key
  <2>2. /\ f \in FramesAt(now) /\ f.at = now /\ k * DayLen <= now
        /\ file[k] # NoFile /\ file[k].mtime = now
    BY <1>3, <2>1, WriterOK
  <2>3. PICK g : g = CacheFile(f, now)
    OBVIOUS
  <2>4. /\ g # NoFile /\ g \in [is : {"file"}, c : FramesAt(now), mtime : Start .. now]
        /\ g.c = f /\ g.mtime = now
    <3>1. now \in Start .. now
      BY Clock, Numbers
    <3> QED
      BY <2>2, <2>3, <3>1 DEF CacheFile, NoFile
  <2>5. /\ DOMAIN file' = Days /\ file'[k] = g /\ \A d \in Days \ {k} : file'[d] = file[d]
        /\ DOMAIN call' = Callers /\ call'[p] = Idle
        /\ \A q \in Callers \ {p} : call'[q] = call[q]
        /\ now' = now
    BY <2>1, <2>3 DEF Die, CacheInv
  <2>6. ASSUME NEW d \in Days
        PROVE  FileOK(d)'
    <3>1. CASE d = k
      BY <2>2, <2>4, <2>5, <3>1 DEF FileOK, WrittenOK
    <3>2. CASE d # k
      BY <2>5, <3>2 DEF FileOK, CacheInv
    <3> QED
      BY <3>1, <3>2
  <2>7. \A d \in Days : /\ file'[d] = NoFile <=> file[d] = NoFile
                        /\ file'[d].mtime = file[d].mtime
    BY <2>2, <2>4, <2>5
  <2>8. ASSUME NEW q \in Callers
        PROVE  CallOK(call'[q], now) /\ ReadOK(q)' /\ StoringOK(q)'
    <3>1. CASE q = p
      BY <1>1, <2>5, <3>1 DEF ReadOK, StoringOK
    <3>2. CASE q # p
      <4>1. ASSUME call[q].pc \in {"judge", "storing"}
            PROVE  call[q].day \in Days
        <5>1. PICK m \in ToolNames : LiveOK(m, call[q], now)
          BY <4>1, Actor
        <5>2. call[q].day \in Nat /\ call[q].day * DayLen <= now
          BY <4>1, <5>1 DEF LiveOK, Calls, FrameOK
        <5> QED
          BY <5>2, DayOfFile
      <4>2. CallOK(call[q], now) /\ ReadOK(q) /\ StoringOK(q)
        BY DEF CacheInv
      <4> QED
        BY <2>5, <2>7, <3>2, <4>1, <4>2 DEF ReadOK, StoringOK
    <3> QED
      BY <3>1, <3>2
  <2> QED
    BY <2>5, <2>6, <2>8 DEF CacheInv
<1> QED
  BY <1>2, <1>3

-----------------------------------------------------------------------------
(* The clock, and the whole.                                               *)

LEMMA TickOK ==
  ASSUME CacheInv, Tick
  PROVE  CacheInv'
<1>1. PICK n \in Nat : n = now /\ Start <= n /\ n < MaxTime /\ now' = n + 1
  BY Clock DEF Tick
<1>2. FramesAt(n) \subseteq FramesAt(n + 1) /\ MaxTime \in Nat /\ Start \in Nat
  BY <1>1, NoFrameOK, Numbers
<1>3. now' \in Nat /\ Start <= now' /\ now' <= MaxTime
  BY <1>1, <1>2
<1>4. UNCHANGED <<file, call>> /\ \A p \in Callers : call[p].pc \notin {"store", "storing"}
  BY DEF Tick
<1>5. ASSUME NEW p \in Callers
      PROVE  CallOK(call[p], n + 1)
  <2>1. ASSUME NEW m \in ToolNames, LiveOK(m, call[p], n)
        PROVE  LiveOK(m, call[p], n + 1)
    <3>1. PICK c : c = call[p] /\ LiveOK(m, c, n) /\ c.pc \notin {"store", "storing"}
      BY <1>4, <2>1
    <3>2. c \in Calls(m, n + 1)
      BY <1>2, <3>1 DEF LiveOK, Calls
    <3>3. c.pc # "ask" => FrameOK(c, n + 1)
      <4>1. ASSUME c.pc # "ask"
            PROVE  FrameOK(c, n + 1)
        <5>1. FrameOK(c, n) /\ c.day \in Nat
          BY <3>1, <4>1 DEF LiveOK, Calls
        <5>2. c.day * DayLen \in Nat /\ c.day * DayLen <= n
          BY <5>1, Numbers DEF FrameOK
        <5> QED
          BY <3>1, <5>1, <5>2 DEF FrameOK
      <4> QED
        BY <4>1
    <3> QED
      BY <3>1, <3>2, <3>3 DEF LiveOK
  <2>2. CallOK(call[p], n)
    BY <1>1 DEF CacheInv
  <2> QED
    BY <2>1, <2>2 DEF CallOK
<1>6. ASSUME NEW p \in Callers
      PROVE  CallOK(call'[p], now') /\ ReadOK(p)' /\ StoringOK(p)'
  BY <1>1, <1>4, <1>5 DEF CacheInv, ReadOK, StoringOK
<1>7. ASSUME NEW k \in Days
      PROVE  FileOK(k)'
  <2>1. FileOK(k) /\ file'[k] = file[k]
    BY <1>4 DEF CacheInv
  <2>2. Start .. n \subseteq Start .. n + 1
    BY <1>2
  <2> QED
    BY <1>1, <1>2, <2>1, <2>2 DEF FileOK
<1> QED
  BY <1>3, <1>4, <1>6, <1>7 DEF CacheInv

LEMMA InitOK == Init => CacheInv
<1>1. Start \in Nat /\ MaxTime \in Nat /\ Start <= MaxTime
  BY Numbers
<1>2. CallOK(Idle, Start) /\ Idle.pc = "idle"
  BY DEF CallOK, Idle
<1> QED
  BY <1>1, <1>2 DEF Init, CacheInv, FileOK, ReadOK, StoringOK

LEMMA NextOK == CacheInv /\ [Next]_vars => CacheInv'
<1>1. ASSUME CacheInv, NEW p \in Callers,
             \/ Begin(p) \/ AskIndicators(p) \/ AskVendor(p) \/ AskSource(p) \/ ReadCache(p)
             \/ JudgeCache(p) \/ Fetch(p) \/ StoreBegin(p) \/ StoreEnd(p) \/ StoreRaises(p) \/ Return(p) \/ Die(p)
      PROVE  CacheInv'
  BY <1>1, BeginOK, AskIndicatorsOK, AskVendorOK, AskSourceOK, ReadCacheOK, JudgeCacheOK, FetchOK, StoreBeginOK,
     StoreEndOK, StoreRaisesOK, ReturnOK, DieOK
<1>2. ASSUME CacheInv, UNCHANGED vars
      PROVE  CacheInv'
  <2>1. now' = now /\ file' = file /\ call' = call
    BY <1>2 DEF vars
  <2>2. /\ \A p \in Callers : CallOK(call'[p], now') /\ ReadOK(p)' /\ StoringOK(p)'
        /\ \A k \in Days : FileOK(k)'
    BY <1>2, <2>1 DEF CacheInv, ReadOK, StoringOK, FileOK
  <2> QED
    BY <1>2, <2>1, <2>2 DEF CacheInv
<1> QED
  BY <1>1, <1>2, TickOK DEF Next

LEMMA CacheInvAlways == Spec => []CacheInv
<1> QED
  BY InitOK, NextOK, PTL DEF Spec

-----------------------------------------------------------------------------
(* What follows from it.                                                   *)

LEMMA ServedAreAnswers ==
  ASSUME CacheInv
  PROVE  Served \subseteq Answers
<1>1. ASSUME NEW p \in Callers, call[p] # Idle
      PROVE  call[p].served \subseteq Answers
  BY <1>1 DEF CacheInv, CallOK, LiveOK, Calls, OverOK
<1> QED
  BY <1>1 DEF Served

LEMMA TypeOKHolds ==
  ASSUME CacheInv
  PROVE  TypeOK
<1>1. now \in Start .. MaxTime
  BY Numbers DEF CacheInv
<1>2. Frames = FramesAt(now)
  BY DEF Frames, FramesAt, Today
<1>3. ASSUME NEW k \in Days, file[k] # NoFile
      PROVE  file[k].c \in Frames /\ file[k].mtime \in Start .. now
  BY <1>2, <1>3 DEF CacheInv, FileOK
<1>4. ASSUME NEW p \in Callers, call[p] # Idle
      PROVE  \/ call[p].pc = "done" /\ call[p].verdict \in Verdicts
             \/ /\ call[p].pc \in {"ask", "open", "judge", "fetch", "store", "storing"}
                /\ call[p].scan.left # << >>
                /\ call[p].frame \in Frames
                /\ call[p].tries \in 0 .. Retries
  <2>1. PICK m \in ToolNames : LiveOK(m, call[p], now) \/ OverOK(m, call[p])
    BY <1>4 DEF CacheInv, CallOK
  <2>2. CASE LiveOK(m, call[p], now)
    BY <1>2, <2>2 DEF LiveOK, Calls
  <2>3. CASE OverOK(m, call[p])
    BY <2>3 DEF OverOK
  <2> QED
    BY <2>1, <2>2, <2>3
<1> QED
  BY <1>1, <1>3, <1>4 DEF TypeOK

\* No answer holds a row later than the day asked for, or a last row older
\* than MAX_OHLCV_STALE_DAYS, whoever downloaded, tore or rewrote the file
\* (stockstats_utils.py, load_ohlcv: the filter to curr_date and the stale guard).
THEOREM AnswersFitRequests == Spec => []AnswerFitsRequest
<1>1. CacheInv => AnswerFitsRequest
  BY ServedAreAnswers, TypeOKHolds DEF AnswerFitsRequest, Answers, AnswerOK
<1> QED
  BY <1>1, CacheInvAlways, PTL

\* Prices of the current day are at most a TTL old, unless another call
\* rewrote the file between the read and the look at its mtime
\* (stockstats_utils.py, the same-day refresh of load_ohlcv).
THEOREM CurrentDayIsFresh == Spec => []FreshUnlessReplaced
<1>1. CacheInv => FreshUnlessReplaced
  BY ServedAreAnswers DEF FreshUnlessReplaced, Answers, AnswerOK
<1> QED
  BY <1>1, CacheInvAlways, PTL

\* A past day is answered from what was captured after its bar was final,
\* whenever that was before the host's day began, and unless the file is torn
\* or the vendor answered short the bar is in it, for every length of a day
\* and every close, after midnight too (stockstats_utils.py:143, 164).
THEOREM HistoryIsExact == Spec => []HistoricalExact
<1>1. CacheInv => HistoricalExact
  BY ServedAreAnswers DEF HistoricalExact, Answers, AnswerOK
<1> QED
  BY <1>1, CacheInvAlways, PTL

\* What a routed call ends with is what the sources it asked said, along
\* every configured chain (interface.py, route_to_vendor).
THEOREM VerdictsHaveACause == Spec => []VerdictNamesCause
<1>1. ASSUME CacheInv, NEW p \in Callers, call[p].pc = "done", call[p].tool # "verify"
      PROVE  VerdictFits(call[p].tool, call[p].verdict, call[p].heard)
  <2>1. call[p] # Idle
    BY <1>1 DEF Idle
  <2>2. PICK m \in ToolNames : OverOK(m, call[p])
    BY <1>1, <2>1 DEF CacheInv, CallOK, LiveOK, Calls
  <2> QED
    BY <1>1, <2>2 DEF OverOK, ToolNames
<1>2. CacheInv => VerdictNamesCause
  BY <1>1 DEF VerdictNamesCause, VerdictFits
<1> QED
  BY <1>2, CacheInvAlways, PTL

=============================================================================
