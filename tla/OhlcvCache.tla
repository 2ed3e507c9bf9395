----------------------------- MODULE OhlcvCache -----------------------------
(***************************************************************************)
(* Price data (dataflows/stockstats_utils.py, y_finance.py,                *)
(* market_data_validator.py): tool calls of several processes and tool     *)
(* threads share one cache file per day, read, judged by its mtime,        *)
(* downloaded and rewritten in place without a lock.  A call goes through  *)
(* the vendor chain of VendorRouting; the yfinance indicator function and  *)
(* the verified snapshot are the ones that use the cache.                  *)
(*                                                                         *)
(* Time is counted in ticks, DayLen to a day of the host's calendar; the   *)
(* bar of day d is partial until Final(d), which is after the host's       *)
(* midnight where the market or its day ends later (UTC bars, listings     *)
(* overseas).  The rows of a frame are the bars of Window days up to its   *)
(* last day "upto", with the prices of the instant "at".  Every day may    *)
(* have a bar: holidays only widen the gaps that MaxStale forgives.        *)
(***************************************************************************)
EXTENDS Integers, FiniteSets, VendorRouting

CONSTANTS
  Callers,    \* tool calls in flight, in one process or several
  Tools,      \* the methods each of them calls; "verify" is the verified snapshot
  Ages,       \* how many days ago the dates they ask for are
  Chains,     \* configured vendor lists
  DayLen, CloseTick,   \* ticks of a day, and from its start until its bar is final
  Start, MaxTime,      \* the stretch of time observed
  TTL,        \* OHLCV_CACHE_TTL_SECONDS
  MaxStale,   \* MAX_OHLCV_STALE_DAYS
  Window,     \* days a download reaches back (5 years)
  Retries,    \* max_retries of yf_retry
  LookBack    \* look_back_days of an indicator request

ASSUME OhlcvAssumption ==
  /\ {DayLen, CloseTick, Start, MaxTime, TTL, MaxStale, Window, Retries, LookBack} \subseteq Nat
  /\ 0 < DayLen /\ Window * DayLen <= Start /\ Start <= MaxTime
  /\ Tools \in [Callers -> SUBSET (Methods \cup DirectMethods \cup {"verify"})]
  /\ Ages \in [Callers -> SUBSET Nat] /\ Chains \subseteq Seq(STRING)

VARIABLES
  now,    \* the clock
  file,   \* file[k]: the cache file with the key k
  call    \* call[p]: where the tool call of p stands
vars == <<now, file, call>>

Today == now \div DayLen
Days == 0 .. MaxTime \div DayLen
Final(d) == d * DayLen + CloseTick
First(d) == d - Window          \* oldest bar in a file named after day d

KeyBySymbol(day) == Start \div DayLen   \* one file per symbol
Key(day) == day                 \* the date in the file's name

NoFile == [is |-> "absent"]
ZeroBytes == -2
HeaderOnly == -1
Contents(upto, at, torn) == [upto |-> upto, at |-> at, torn |-> torn]
CacheFile(c, mtime) == [is |-> "file", c |-> c, mtime |-> mtime]
Frames == [upto : ZeroBytes .. Today, at : Start .. now, torn : BOOLEAN]
NoFrame == Contents(ZeroBytes, Start, FALSE)

Idle == [pc |-> "idle"]
UsesCache(tool) == tool \in {"get_indicators", "verify"}

(* A call that is over keeps its verdict and what the observers saw. *)
Over(c, verdict) ==
  [pc |-> "done", tool |-> c.tool, verdict |-> verdict, served |-> c.served, heard |-> c.heard]

(* load_ohlcv(symbol, want), entered: the file name is fixed here. *)
EnterLoad(c, mode, want) ==
  [c EXCEPT !.pc = "open", !.mode = mode, !.want = want, !.day = Today,
            !.frame = NoFrame, !.tries = 0, !.raced = FALSE,
            !.rows = @ /\ mode = "fallback"]

(* Observer: what the sources said to a routed call - rows, none (no rows,  *)
(* or none that are recent enough), or a failure, of the source itself or   *)
(* of what is computed from its rows.                                       *)
Hear(c, what) == IF c.tool = "verify" THEN c ELSE [c EXCEPT !.heard = @ \cup {what}]
Saying(r) == CASE r = "rows" -> "rows" [] r \in {"empty", "stale"} -> "none" [] OTHER -> "failure"
HearAll(c, R) == [c EXCEPT !.heard = @ \cup {Saying(r) : r \in R}]

(* The head of the chain is asked next. *)
Proceed(c) == IF c.scan.verdict # "" THEN Over(c, c.scan.verdict) ELSE [c EXCEPT !.pc = "ask"]

Begin(p) ==
  /\ call[p] = Idle
  /\ \E tool \in Tools[p], chain \in Chains, curr \in {Today - a : a \in Ages[p]},
        bist \in BOOLEAN, dated \in BOOLEAN :
       /\ curr >= 0
       /\ UsesCache(tool) => ~bist /\ dated   \* what such a tool does depends on no ticker
       /\ LET c == [pc |-> "ask", tool |-> tool, curr |-> IF UsesCache(tool) THEN curr ELSE 0,
                    scan |-> Scan(<<"yfinance">>), mode |-> "", want |-> 0, day |-> 0,
                    frame |-> NoFrame, tries |-> 0, raced |-> FALSE,
                    rows |-> FALSE, served |-> {}, heard |-> {}]
          IN  call' = [call EXCEPT ![p] =
                IF tool = "verify" THEN EnterLoad(c, "verify", curr)
                ELSE IF Guarded(tool, bist, dated, curr, Today)
                     THEN Over(c, "guarded")
                ELSE Proceed([c EXCEPT !.scan = StartScan(tool, chain)])]
  /\ UNCHANGED <<now, file>>

(* The indicators of yfinance are computed from a frame, if they are known. *)
LoadsFrame(c) == c.tool = "get_indicators" /\ Head(c.scan.left) = "yfinance"
AskIndicators(p) ==
  LET c == call[p] IN
  /\ c.pc = "ask" /\ LoadsFrame(c)
  /\ \/ call' = [call EXCEPT ![p] = EnterLoad(c, "bulk", c.curr)]
     \/ call' = [call EXCEPT ![p] =
          Proceed([Hear(c, "failure") EXCEPT !.scan = AfterVendor(c.tool, @, "unsupported")])]
  /\ UNCHANGED <<now, file>>

(* A vendor function that keeps no state answers at once. *)
AskVendor(p) ==
  LET c == call[p] IN
  /\ c.pc = "ask" /\ c.tool \in Methods /\ ~LoadsFrame(c)
  /\ \E v \in {Head(c.scan.left)} :
     \E r \in VendorResponses(v, c.tool) :
     \E o \in VendorOutcomes(v, c.tool, r) :
       call' = [call EXCEPT ![p] =
         Proceed([Hear(c, Saying(r)) EXCEPT !.scan = AfterVendor(c.tool, @, o)])]
  /\ UNCHANGED <<now, file>>

(* So does a tool, or an endpoint, that asks its own source. *)
AskSource(p) ==
  LET c == call[p] IN
  /\ c.pc = "ask" /\ c.tool \in DirectMethods
  /\ \E R \in SourceResponses(c.tool) :
     \E o \in DirectOutcomes(c.tool, R) :
       call' = [call EXCEPT ![p] = Proceed([HearAll(c, R) EXCEPT !.scan = AfterVendor(c.tool, @, o)])]
  /\ UNCHANGED <<now, file>>
-----------------------------------------------------------------------------
(* How a load ends, for the function that asked for it. *)

Verified(c, outcome) == Over(c, IF outcome = "data" THEN "data" ELSE "raised")

Answered(c, outcome) ==
  IF c.tool = "verify" THEN Verified(c, outcome)
  ELSE Proceed([c EXCEPT !.scan = AfterVendor(c.tool, @, outcome)])

(* The report of an indicator over its window: an answer, with or without a *)
(* number in it.                                                            *)
IndicatorsWindow(c) == Answered(c, IF c.rows THEN "data" ELSE "text")

(* The fallback loop asks for one day after the other, newest first. *)
NextDay(c) ==
  IF c.want > c.curr - LookBack /\ c.want > 0
  THEN EnterLoad(c, "fallback", c.want - 1)
  ELSE IndicatorsWindow(c)

LoadFails(c) ==
  CASE c.mode = "verify"   -> Verified(c, "error")
    [] c.mode = "bulk"     -> EnterLoad(c, "fallback", c.curr)
    [] c.mode = "fallback" -> NextDay(c)

LoadNoData(c) == Answered(c, "nodata")

(* What a loaded frame is used for. *)
Loaded(c) ==
  CASE c.mode = "verify"   -> Verified(c, "data")
    [] c.mode = "bulk"     -> IndicatorsWindow(c)
    [] c.mode = "fallback" -> NextDay(c)

(* Rows after the requested day are dropped, then the age of the last one   *)
(* is judged.  A day before the window, or before the listing, leaves no    *)
(* row at all: an indicator answer without a number, whatever its wording.  *)
TrimNothing(f, want) == f.upto
Trimmed(f, want) == IF f.upto < want THEN f.upto ELSE want
Stale(last, want) == want - last > MaxStale
NoRowsLeft(c) ==
  CASE c.mode = "verify"   -> Verified(c, "error")
    [] c.mode = "bulk"     -> IndicatorsWindow(Hear(c, "none"))
    [] c.mode = "fallback" -> NextDay(c)

(* The calls a loaded frame can lead to; what is computed from it may raise. *)
LoadReturns(c, f) ==
  LET s == [want |-> c.want, day |-> c.day, last |-> Trimmed(f, c.want), upto |-> f.upto,
            at |-> f.at, when |-> now, torn |-> f.torn, raced |-> c.raced]
      \* the accepted rows, kept until the next read for the properties
      d == [Hear(c, "rows") EXCEPT !.served = {s}, !.rows = TRUE]
      failed == LoadFails(Hear(c, "failure"))
      empty == {x \in {NoRowsLeft(c)} : c.want < First(c.day) \/ c.want < f.upto}
  IN  IF c.want < First(c.day) THEN empty \cup {failed}
      ELSE IF Stale(Trimmed(f, c.want), c.want) THEN {LoadNoData(Hear(c, "none"))}
      ELSE empty \cup {Loaded(d), failed}
-----------------------------------------------------------------------------
Writing(d) == {q \in Callers : call[q].pc = "storing" /\ Key(call[q].day) = d}
PartsOf(f) ==
  {f} \cup {Contents(u, f.at, TRUE) : u \in {ZeroBytes, HeaderOnly} \cup (First(Today) .. f.upto - 1)}

(* What a read of the file can return while others write it in place. *)
Readable(d) ==
  IF Writing(d) = {} THEN {file[d].c}
  ELSE UNION {PartsOf(call[q].frame) : q \in Writing(d)}

(* os.path.exists and read_csv: a file without a byte raises. *)
ReadCache(p) ==
  LET c == IF call[p].pc = "open" THEN [call[p] EXCEPT !.served = {}] ELSE Idle IN
  /\ c.pc = "open"
  /\ \/ /\ file[Key(c.day)] = NoFile
        /\ call' = [call EXCEPT ![p] = [c EXCEPT !.pc = "fetch"]]
     \/ /\ file[Key(c.day)] # NoFile
        /\ \E f \in Readable(Key(c.day)) :
             call' = [call EXCEPT ![p] =
               IF f.upto = ZeroBytes THEN LoadFails(Hear(c, "failure"))
               ELSE IF f.upto < First(c.day) THEN [c EXCEPT !.pc = "fetch"]
               ELSE [c EXCEPT !.pc = "judge", !.frame = f]]
  /\ UNCHANGED <<now, file>>

(* Only the file of a current-day request grows old. *)
RefreshIfBarMissing(c) == c.want >= c.day /\ c.frame.upto < c.want
NeedsSameDayRefresh(c) == c.want >= c.day /\ now - file[Key(c.day)].mtime > TTL

JudgeCache(p) ==
  LET c == call[p] IN
  /\ c.pc = "judge"
  /\ \E x \in IF NeedsSameDayRefresh(c)
             THEN {[c EXCEPT !.pc = "fetch", !.frame = NoFrame, !.raced = FALSE]}
             ELSE LoadReturns(c, c.frame) :
       call' = [call EXCEPT ![p] = x]
  /\ UNCHANGED <<now, file>>

(* yf_retry: a throttled download is repeated after a pause. *)
Throttled(c) ==
  IF c.tries < Retries THEN [c EXCEPT !.tries = @ + 1] ELSE LoadFails(Hear(c, "failure"))

(* yf.download: an empty frame is never stored, a stale one is. *)
Fetch(p) ==
  LET c == call[p] IN
  /\ c.pc = "fetch"
  /\ \/ call' = [call EXCEPT ![p] = Throttled(c)]
     \/ call' = [call EXCEPT ![p] = LoadFails(Hear(c, "failure"))]
     \/ call' = [call EXCEPT ![p] = LoadNoData(Hear(c, "none"))]
     \/ \E upto \in {Today, Today - 1, First(c.day)} :
          /\ upto <= c.day
          /\ call' = [call EXCEPT ![p].pc = "store", ![p].tries = 0,
                                  ![p].frame = Contents(upto, now, FALSE)]
  /\ UNCHANGED <<now, file>>

(* Whoever has read the file and not yet asked for its mtime will see the   *)
(* new one.                                                                 *)
Overtake(d, calls) ==
  [q \in Callers |->
     IF calls[q].pc = "judge" /\ Key(calls[q].day) = d
     THEN [calls[q] EXCEPT !.raced = TRUE] ELSE calls[q]]

(* to_csv opens the file, which empties it, ... *)
StoreBegin(p) ==
  LET c == call[p] IN
  /\ c.pc = "store"
  /\ file' = [file EXCEPT ![Key(c.day)] = CacheFile(NoFrame, now)]
  /\ call' = Overtake(Key(c.day), [call EXCEPT ![p].pc = "storing"])
  /\ UNCHANGED now

(* ... and the rows are complete when it is closed.  Writers that overlap   *)
(* leave the rows of one of them, or lines of several.                      *)
Mixed(f) == {[g EXCEPT !.torn = TRUE] : g \in {h \in PartsOf(f) : h.upto # ZeroBytes}}
Written(p, d) ==
  IF Writing(d) = {p} /\ file[d].c = NoFrame THEN {call[p].frame}
  ELSE {g \in {file[d].c} : g # NoFrame}
       \cup UNION {{call[q].frame} \cup Mixed(call[q].frame) : q \in Writing(d)}

StoreEnd(p) ==
  LET c == call[p] IN
  /\ c.pc = "storing"
  /\ \E f \in Written(p, Key(c.day)) : file' = [file EXCEPT ![Key(c.day)] = CacheFile(f, now)]
  /\ \E x \in LoadReturns(c, c.frame) : call' = Overtake(Key(c.day), [call EXCEPT ![p] = x])
  /\ UNCHANGED now

(* A write that raises (a full disk) fails the load, not the process. *)
StoreRaises(p) ==
  LET c == call[p] IN
  /\ c.pc = "storing"
  /\ \E f \in PartsOf(c.frame) : file' = [file EXCEPT ![Key(c.day)] = CacheFile(f, now)]
  /\ call' = Overtake(Key(c.day), [call EXCEPT ![p] = LoadFails(Hear(c, "failure"))])
  /\ UNCHANGED now

Return(p) ==
  /\ call[p].pc = "done"
  /\ call' = [call EXCEPT ![p] = Idle]
  /\ UNCHANGED <<now, file>>

(* The process of p dies; a write it had begun stays where it was. *)
Die(p) ==
  LET c == call[p] IN
  /\ c.pc # "done"
  /\ call' = [call EXCEPT ![p] = Idle]
  /\ IF c.pc = "storing"
     THEN \E f \in PartsOf(c.frame) : file' = [file EXCEPT ![Key(c.day)] = CacheFile(f, now)]
     ELSE UNCHANGED file
  /\ UNCHANGED now

(* A tick is long (the TTL is a few of them): a write takes less. *)
Tick ==
  /\ now < MaxTime
  /\ \A p \in Callers : call[p].pc \notin {"store", "storing"}
  /\ now' = now + 1
  /\ UNCHANGED <<file, call>>

Init ==
  /\ now = Start
  /\ file = [d \in Days |-> NoFile]
  /\ call = [p \in Callers |-> Idle]

Next ==
  \/ \E p \in Callers : Begin(p) \/ AskIndicators(p) \/ AskVendor(p) \/ AskSource(p)
                          \/ ReadCache(p) \/ JudgeCache(p) \/ Fetch(p) \/ StoreBegin(p) \/ StoreEnd(p) \/ StoreRaises(p) \/ Return(p) \/ Die(p)
  \/ Tick

Spec == Init /\ [][Next]_vars
-----------------------------------------------------------------------------
TypeOK ==
  /\ now \in Start .. MaxTime
  /\ \A k \in Days : file[k] # NoFile => file[k].c \in Frames /\ file[k].mtime \in Start .. now
  /\ \A p \in Callers : call[p] # Idle =>
       \/ call[p].pc = "done" /\ call[p].verdict \in Verdicts
       \/ /\ call[p].pc \in {"ask", "open", "judge", "fetch", "store", "storing"}
          /\ call[p].scan.left # << >>
          /\ call[p].frame \in Frames
          /\ call[p].tries \in 0 .. Retries

Served == UNION {IF call[p] = Idle THEN {} ELSE call[p].served : p \in Callers}

(* "Filter to curr_date to prevent look-ahead bias" and the stale guard     *)
(* (stockstats_utils.py:214, 217): however a load was answered - from the   *)
(* file, a half-written file, its own download, in the bulk call or in the  *)
(* fallback loop - no row is later than the day asked for and the last one  *)
(* is at most MaxStale days older.                                          *)
AnswerFitsRequest ==
  /\ TypeOK
  /\ \A s \in Served : s.last <= s.want /\ s.want - s.last <= MaxStale

(* The same-day refresh (#1150): the prices a current-day request is        *)
(* answered with are at most a TTL old, unless another call rewrote the     *)
(* file between this one's read and its look at the mtime.                  *)
FreshUnlessReplaced ==
  \A s \in Served : s.want >= s.day /\ ~s.raced => s.when - s.at <= TTL

(* A past day reused from the cache (stockstats_utils.py:143, 164): if its  *)
(* bar was final when the host's current day began, the file was captured   *)
(* after that, torn or not, and unless it is torn or the vendor itself      *)
(* answered short the bar is in it.  The condition is not one the code      *)
(* checks: a bar that is final only later is kept as it was, partial.       *)
HistoricalExact ==
  \A s \in Served : s.want < s.day /\ Final(s.want) <= s.day * DayLen =>
    /\ s.at >= Final(s.want)
    /\ ~s.torn /\ s.upto >= s.at \div DayLen - 1 => s.last = s.want

(* What a routed call ends with has its cause in what the sources said:     *)
(* NO_DATA only when one of them had no usable rows, an exception only when *)
(* none of them said so (interface.py:223-226), and for an optional method  *)
(* only when its configured vendors do not exist; an answer in words is     *)
(* never given by a chain whose every source had rows.                      *)
VerdictNamesCause ==
  \A p \in Callers : call[p].pc = "done" /\ call[p].tool # "verify" =>
    LET v == call[p].verdict
        heard == call[p].heard
    IN  /\ v = "NO_DATA" => "none" \in heard
        /\ v = "raised" => "none" \notin heard
        /\ v = "raised" /\ call[p].tool \in OptionalMethods => heard = {}
        /\ v = "data" => heard # {"failure"}
        /\ v = "text" => heard # {"rows"}
=============================================================================
