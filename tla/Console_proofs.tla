---------------------------- MODULE Console_proofs ----------------------------
(***************************************************************************)
(* Theorems about the console and its agent graph, for every session, any  *)
(* numbers of rounds and every recursion limit.                            *)
(***************************************************************************)
EXTENDS Console, Subsequences_proofs

(* The invariant of the graph.                                             *)
AnalystNodes == {<<a, k>> : a \in AnalystKeys, k \in {"agent", "tools", "clear"}}
DebateNodes == {Speaker("Bull"), Speaker("Bear")}
RiskNodes == {Speaker("Aggressive"), Speaker("Conservative"), Speaker("Neutral")}
PreDebate == AnalystNodes \cup {Waiting}
PreJudge == PreDebate \cup DebateNodes \cup {Judge("Research Manager")}
PreTrade == PreJudge \cup {Judge("Trader")}
PostDebate == {Judge("Research Manager"), Judge("Trader"), Judge("Portfolio Manager"), End}
              \cup RiskNodes
Nodes == PreJudge \cup PostDebate \cup {Failed}

Messages ==
  [id : Nat, kind : {"human", "placeholder", "call", "result", "answer"},
   by : AnalystKeys \cup {"user", "Trader"}, text : Texts]
Utterances == (Debaters \cup RiskAnalysts) \X Nat
Debates ==
  [history : Seq(Utterances), said : [Debaters -> Seq(Utterances)],
   current : Debaters \cup Texts, judge : Texts, count : Nat]
Risks ==
  [history : Seq(Utterances), said : [RiskAnalysts -> Seq(Utterances)],
   response : [RiskAnalysts -> Utterances \cup {<< >>}],
   latest : RiskAnalysts \cup {"", "Judge"}, judge : Texts, count : Nat]
States ==
  [messages : Seq(Messages), reports : [AnalystKeys -> Texts],
   debate : Debates, risk : Risks, plan : Texts, proposal : Texts, decision : Texts]
Shapes == [plan : Seq(AnalystKeys), debate : Int, risk : Int, bist : BOOLEAN]

GraphTypes ==
  /\ next \in Nodes /\ steps \in 0 .. RecursionLimit /\ st \in States
  /\ toolRounds \in Nat /\ produced \in Seq(Messages) /\ why \in {"", "error", "limit"}
  /\ shape \in Shapes
  /\ \A i, j \in DOMAIN Plan : Plan[i] = Plan[j] => i = j
  /\ next # Waiting => Plan # << >>
  /\ next \in AnalystNodes => \E i \in DOMAIN Plan : next[1] = Plan[i]

\* Nothing happened before the graph is invoked.
Fresh ==
  /\ next = Waiting =>
       /\ steps = 0 /\ toolRounds = 0 /\ st = InitialState /\ produced = <<Human>>
       /\ why = "" /\ Plan = << >>
  /\ why = "limit" => next = Failed

(* Supersteps: two for each analyst and each batch of tools, and one for   *)
(* every other node.                                                       *)
TurnsOf(sides, rounds) == IF rounds <= 0 THEN 1 ELSE sides * rounds
SpentOn(n, i) ==
  CASE n = "agent" -> 2 * (i - 1)
    [] n = "tools" -> 2 * (i - 1) - 1
    [] n = "clear" -> 2 * (i - 1) + 1
StepsSpent ==
  /\ \A i \in DOMAIN Plan : next \in AnalystNodes /\ next[1] = Plan[i] =>
       steps = SpentOn(next[2], i) + 2 * toolRounds
  /\ next \in DebateNodes \cup {Judge("Research Manager")} =>
       steps = 2 * Len(Plan) + 2 * toolRounds + st.debate.count
  /\ next = Judge("Trader") =>
       steps = 2 * Len(Plan) + 2 * toolRounds + st.debate.count + 1
  /\ next \in RiskNodes \cup {Judge("Portfolio Manager")} =>
       steps = 2 * Len(Plan) + 2 * toolRounds + st.debate.count + 2 + st.risk.count
  /\ next = End =>
       steps = 2 * Len(Plan) + 2 * toolRounds + st.debate.count + 3 + st.risk.count

(* The debates, so far and when they are over.                             *)
Spoken(d, sides) ==
  /\ Len(d.history) = d.count
  /\ \A i \in 1 .. d.count : d.history[i] = <<sides[((i - 1) % Len(sides)) + 1], i - 1>>
  /\ \A who \in Range(sides) :
       d.said[who] = ElementsAt(d.history, {i \in DOMAIN d.history : d.history[i][1] = who})
DebateHeld ==
  /\ Spoken(st.debate, <<"Bull", "Bear">>)
  /\ next \in PreDebate => st.debate.count = 0
  /\ next = Speaker("Bull") =>
       st.debate.count % 2 = 0 /\ (st.debate.count = 0 \/ st.debate.count < 2 * shape.debate)
  /\ next = Speaker("Bear") =>
       st.debate.count % 2 = 1 /\ st.debate.count < 2 * shape.debate
  /\ next \in PostDebate => st.debate.count = TurnsOf(2, shape.debate)
RiskHeld ==
  /\ Spoken(st.risk, <<"Aggressive", "Conservative", "Neutral">>)
  /\ next \in PreTrade => st.risk.count = 0
  /\ next = Speaker("Aggressive") =>
       st.risk.count % 3 = 0 /\ (st.risk.count = 0 \/ st.risk.count < 3 * shape.risk)
  /\ next = Speaker("Conservative") =>
       st.risk.count % 3 = 1 /\ st.risk.count < 3 * shape.risk
  /\ next = Speaker("Neutral") =>
       st.risk.count % 3 = 2 /\ st.risk.count < 3 * shape.risk
  /\ next \in {Judge("Portfolio Manager"), End} => st.risk.count = TurnsOf(3, shape.risk)

(* The channel of messages of the analyst at work.                         *)
OwnMessages ==
  \A i \in DOMAIN Plan : next \in AnalystNodes /\ next[1] = Plan[i] =>
    LET ms == st.messages IN
    /\ Len(ms) >= 1 /\ ms[1].kind \in {"human", "placeholder"}
    /\ \A k \in 2 .. Len(ms) : ms[k].by = Plan[i]
    /\ next[2] \in {"agent", "tools"} =>
         /\ Len(ms) % 2 = (IF next[2] = "agent" THEN 1 ELSE 0)
         /\ \A k \in 2 .. Len(ms) : ms[k].kind = IF k % 2 = 0 THEN "call" ELSE "result"

(* All messages: each has its superstep, and an analyst answers once, when *)
(* it is its turn.                                                         *)
Numbered ==
  /\ \A k \in DOMAIN produced : produced[k].id <= steps
  /\ \A k, l \in DOMAIN produced : produced[k].id = produced[l].id => k = l
  /\ \A k \in DOMAIN st.messages : \E l \in DOMAIN produced : produced[l] = st.messages[k]
Answered(i) == AnsweredAt(Plan[i]) # {}
AnswersInTurn ==
  /\ \A i, j \in DOMAIN Plan : \A t \in AnsweredAt(Plan[i]), u \in AnsweredAt(Plan[j]) :
       (i = j => t = u) /\ (i < j => t < u)
  /\ \A i \in DOMAIN Plan : next \in AnalystNodes /\ next[1] = Plan[i] =>
       \A j \in DOMAIN Plan :
          Answered(j) <=> IF next[2] = "clear" THEN j <= i ELSE j < i
  /\ next \notin PreDebate \cup {Failed} => \A j \in DOMAIN Plan : Answered(j)

(* Texts are empty until their node has run.                               *)
TextsInTurn ==
  /\ st.plan = st.debate.judge /\ st.decision = st.risk.judge
  /\ next \in PreJudge => st.debate.judge = ""
  /\ next \in PreTrade => st.proposal = ""
  /\ next \in Nodes \ {End, Failed} => st.risk.judge = ""
  /\ \A a \in AnalystKeys : st.reports[a] # "" => \E i \in DOMAIN Plan : Plan[i] = a /\ Answered(i)

GInv ==
  /\ GraphTypes /\ Fresh /\ StepsSpent /\ DebateHeld /\ RiskHeld
  /\ OwnMessages /\ Numbered /\ AnswersInTurn /\ TextsInTurn

-----------------------------------------------------------------------------
(* The invariant of the console: what the buffer shows is a function of    *)
(* the state of the graph.                                                 *)
Open(s) == {a \in Selected : s.reports[a] = ""}
FirstOpen(s) ==
  {a \in Open(s) : \A c \in Open(s) :
      \E i, j \in DOMAIN chosen : chosen[i] = a /\ chosen[j] = c /\ i <= j}

ShowsAnalysts(b, s) ==
  \A a \in Selected :
    /\ b.sections[a] = IF s.reports[a] # "" THEN s.reports[a] ELSE None
    /\ b.status[AnalystName(a)] =
         IF s.reports[a] # "" THEN "completed"
         ELSE IF a \in FirstOpen(s) THEN "in_progress" ELSE "pending"
ShowsResearch(b, s) ==
  /\ \A x \in ResearchTeam : b.status[x] =
       IF s.debate.judge # "" THEN "completed"
       ELSE IF s.debate.history # << >> \/ (x = "Bull Researcher" /\ Open(s) = {})
       THEN "in_progress" ELSE "pending"
  /\ b.sections["investment_plan"] =
       IF s.debate.judge # "" THEN s.debate.judge
       ELSE IF s.debate.said["Bear"] # << >> THEN "Bear"
       ELSE IF s.debate.said["Bull"] # << >> THEN "Bull" ELSE None
ShowsTrader(b, s) ==
  /\ b.status["Trader"] =
       IF s.proposal # "" THEN "completed"
       ELSE IF s.debate.judge # "" THEN "in_progress" ELSE "pending"
  /\ b.sections["trader_investment_plan"] = IF s.proposal # "" THEN s.proposal ELSE None
ShowsRisk(b, s) ==
  /\ \A x \in RiskAnalysts : b.status[x] =
       IF s.risk.judge # "" THEN "completed"
       ELSE IF s.risk.said[x] # << >> \/ (x = "Aggressive" /\ s.proposal # "")
       THEN "in_progress" ELSE "pending"
  /\ b.status["Portfolio Manager"] = IF s.risk.judge # "" THEN "completed" ELSE "pending"
  /\ b.sections["final_trade_decision"] =
       IF s.risk.judge # "" THEN s.risk.judge
       ELSE IF s.risk.said["Neutral"] # << >> THEN "Neutral"
       ELSE IF s.risk.said["Conservative"] # << >> THEN "Conservative"
       ELSE IF s.risk.said["Aggressive"] # << >> THEN "Aggressive" ELSE None
Shows(b, s) == ShowsAnalysts(b, s) /\ ShowsResearch(b, s) /\ ShowsTrader(b, s) /\ ShowsRisk(b, s)

Agents == {AnalystName(a) : a \in Selected} \cup FixedAgents
SectionNames == Selected \cup Range(TeamSections)
Contents == Texts \cup Debaters \cup RiskAnalysts \cup {None}
Buffers ==
  [status : [Agents -> Statuses], sections : [SectionNames -> Contents],
   seen : SUBSET Nat, log : Seq(Nat), files : [SectionNames -> Contents]]
Timers == [started : [Selected -> Nat \cup {None}], wall : [Selected -> Int \cup {None}]]

Phases == {"asked", "streaming", "done", "saved", "exited", "raised"}
ConsoleTypes ==
  /\ phase \in Phases /\ chosen \in Seq(AnalystKeys) /\ buf \in Buffers /\ timer \in Timers
  /\ Range(Plan) \subseteq Selected
  /\ \A i, j \in DOMAIN chosen : chosen[i] = chosen[j] => i = j
  /\ phase = "asked" => next = Waiting /\ session \in Sessions
  /\ phase = "streaming" => next \notin {Waiting, Failed}
  /\ phase \in {"done", "saved"} => next = End

Transcribed ==
  next # Waiting =>
    /\ buf.seen = {produced[k].id : k \in DOMAIN produced}
    /\ buf.log = Ids(ElementsAt(produced, {k \in DOMAIN produced : Shown(produced[k])}))

Displayed ==
  /\ next = Waiting => \A s \in DOMAIN buf.sections : buf.sections[s] = None
  /\ next = Waiting => \A x \in DOMAIN buf.status : buf.status[x] = "pending"
  /\ next # Waiting /\ phase \notin {"done", "saved"} => Shows(buf, st)
  /\ phase \in {"done", "saved"} =>
       /\ \A x \in DOMAIN buf.status : buf.status[x] = "completed"
       /\ \A s \in DOMAIN buf.sections :
            /\ buf.sections[s] = FinalText(s)
            /\ FinalText(s) # "" => buf.files[s] = FinalText(s)
  /\ phase = "saved" => tree = ReportTree(st)

Timed ==
  /\ \A i \in DOMAIN Plan : timer.wall[Plan[i]] # None <=> st.reports[Plan[i]] # ""
  /\ chosen = Plan => \A i \in DOMAIN Plan :
       /\ (\A j \in 1 .. i - 1 : st.reports[Plan[j]] # "") =>
            IF i = 1 THEN timer.started[Plan[i]] = 0
            ELSE timer.started[Plan[i]] \in AnsweredAt(Plan[i - 1])
       /\ (\E j \in 1 .. i - 1 : st.reports[Plan[j]] = "") /\ st.reports[Plan[i]] = "" =>
            timer.started[Plan[i]] = None
       /\ (\A j \in 1 .. i : st.reports[Plan[j]] # "") =>
            \E t \in AnsweredAt(Plan[i]) : timer.wall[Plan[i]] = t - timer.started[Plan[i]]

CInv ==
  GInv /\ ConsoleTypes /\ Transcribed /\ Displayed /\ Timed /\ LimitOnlyByTools

-----------------------------------------------------------------------------
(* The graph before it is invoked, and its invocation.                     *)
LEMMA InitialTypes ==
    /\ InitialState \in States /\ Human \in Messages
    /\ Spoken(InitialState.debate, <<"Bull", "Bear">>)
    /\ Spoken(InitialState.risk, <<"Aggressive", "Conservative", "Neutral">>)
<1>1. Human \in Messages
  BY DEF Human, Messages, Texts
<1>2. <<Human>> \in Seq(Messages)
  BY <1>1
<1>3. InitialState.debate \in Debates
  BY DEF InitialState, Debates, Texts
<1>4. InitialState.risk \in Risks
  BY DEF InitialState, Risks, Texts
<1>5. InitialState \in States
  BY <1>2, <1>3, <1>4 DEF InitialState, States, Texts
<1>6. ASSUME NEW d, NEW sides, d.history = << >>, d.count = 0,
             \A who \in Range(sides) : d.said[who] = << >>
      PROVE  Spoken(d, sides)
  <2>1. \A who : {i \in DOMAIN d.history : d.history[i][1] = who} = {}
    BY <1>6
  <2>2. Len(d.history) = 0 /\ 1 .. 0 = {}
    BY <1>6
  <2> QED
    BY <1>6, <2>1, <2>2, ElementsAtNone DEF Spoken
<1>7. Spoken(InitialState.debate, <<"Bull", "Bear">>)
  <2>1. Range(<<"Bull", "Bear">>) = Debaters
    BY DEF Range, Debaters
  <2>2. /\ InitialState.debate.history = << >> /\ InitialState.debate.count = 0
        /\ \A who \in Debaters : InitialState.debate.said[who] = << >>
    BY DEF InitialState
  <2> HIDE DEF InitialState
  <2> QED
    BY <1>6, <2>1, <2>2
<1>8. Spoken(InitialState.risk, <<"Aggressive", "Conservative", "Neutral">>)
  <2>1. Range(<<"Aggressive", "Conservative", "Neutral">>) = RiskAnalysts
    BY DEF Range, RiskAnalysts
  <2>2. /\ InitialState.risk.history = << >> /\ InitialState.risk.count = 0
        /\ \A who \in RiskAnalysts : InitialState.risk.said[who] = << >>
    BY DEF InitialState
  <2> HIDE DEF InitialState
  <2> QED
    BY <1>6, <2>1, <2>2
<1> QED
  BY <1>1, <1>5, <1>7, <1>8

LEMMA NodeKinds ==
    /\ \A n \in AnalystNodes : n \notin DebateNodes \cup PostDebate \cup {Waiting, Failed}
    /\ \A n \in DebateNodes : n \notin PostDebate \cup {Waiting, Failed}
    /\ Waiting \notin PostDebate \cup {Failed} /\ Failed \notin PostDebate
    /\ \A a \in AnalystKeys, k \in {"agent", "tools", "clear"} : <<a, k>> \in AnalystNodes
    /\ AnalystKeys = {"market", "social", "news", "kap", "fundamentals"}
<1>1. AnalystKeys = {"market", "social", "news", "kap", "fundamentals"}
  BY DEF AnalystKeys, AnalystOrder, Range
<1>2. \A n \in AnalystNodes : n[2] \in {"agent", "tools", "clear"}
  BY DEF AnalystNodes
<1>3. \A n \in DebateNodes : n[2] = "debate" /\ n[1] \in {"Bull", "Bear"}
  BY DEF DebateNodes, Speaker
<1>4. \A n \in PostDebate :
        n[2] \in {"judge", ""} \/ (n[2] = "debate" /\ n[1] \notin {"Bull", "Bear"})
  <2>1. \A n \in RiskNodes : n[2] = "debate" /\ n[1] \notin {"Bull", "Bear"}
    BY DEF RiskNodes, Speaker
  <2>2. \A n \in {Judge("Research Manager"), Judge("Trader"), Judge("Portfolio Manager"), End} :
          n[2] \in {"judge", ""}
    <3>1. /\ Judge("Research Manager")[2] = "judge" /\ Judge("Trader")[2] = "judge"
          /\ Judge("Portfolio Manager")[2] = "judge" /\ End[2] = ""
      BY DEF Judge, End
    <3> QED
      BY <3>1
  <2> QED
    BY <2>1, <2>2 DEF PostDebate
<1>5. /\ Waiting[2] = "" /\ Failed[2] = "" /\ Waiting # Failed
      /\ Waiting \notin PostDebate /\ Failed \notin PostDebate
  BY DEF PostDebate, RiskNodes, Speaker, Judge, End, Waiting, Failed
<1>6. \A a \in AnalystKeys, k \in {"agent", "tools", "clear"} : <<a, k>> \in AnalystNodes
  BY DEF AnalystNodes
<1>7. \A n \in AnalystNodes : n \notin DebateNodes \cup PostDebate \cup {Waiting, Failed}
  BY <1>2, <1>3, <1>4, <1>5
<1>8. \A n \in DebateNodes : n \notin PostDebate \cup {Waiting, Failed}
  BY <1>3, <1>4, <1>5
<1> QED
  BY <1>1, <1>5, <1>6, <1>7, <1>8

LEMMA InitGraph == GraphInit => GInv
<1> SUFFICES ASSUME GraphInit PROVE GInv
  OBVIOUS
<1>1. shape = Unbuilt /\ next = Waiting
  BY DEF GraphInit
<1>2. steps = 0 /\ toolRounds = 0
  BY DEF GraphInit
<1>3. st = InitialState
  BY DEF GraphInit
<1>4. produced = <<Human>>
  BY DEF GraphInit
<1>5. why = ""
  BY DEF GraphInit
<1>6. Plan = << >>
  BY <1>1 DEF Plan, Unbuilt
<1>7. DOMAIN Plan = {}
  BY <1>6
<1>8. shape \in Shapes
  BY <1>1 DEF Unbuilt, Shapes
<1>9. next \in Nodes /\ next \in PreDebate /\ next \notin AnalystNodes /\ next \notin DebateNodes
      /\ next \notin PostDebate /\ next # Failed
  BY <1>1, NodeKinds DEF Nodes, PreJudge, PreDebate
<1>10. steps \in 0 .. RecursionLimit
  BY <1>2, LimitAssumption
<1>11. DOMAIN produced = {1} /\ produced[1] = Human
  BY <1>4
<1>12. GraphTypes
  <2>1. produced \in Seq(Messages)
    BY <1>4, InitialTypes
  <2>2. st \in States
    BY <1>3, InitialTypes
  <2> QED
    BY <1>1, <1>2, <1>5, <1>7, <1>8, <1>9, <1>10, <2>1, <2>2 DEF GraphTypes
<1>13. Fresh
  BY <1>2, <1>3, <1>4, <1>5, <1>6 DEF Fresh
<1>14. StepsSpent
  BY <1>7, <1>9 DEF StepsSpent, PostDebate
<1>15. DebateHeld /\ RiskHeld
  <2>1. st.debate.count = 0 /\ st.risk.count = 0
    BY <1>3 DEF InitialState
  <2>2. /\ Spoken(st.debate, <<"Bull", "Bear">>)
        /\ Spoken(st.risk, <<"Aggressive", "Conservative", "Neutral">>)
    BY <1>3, InitialTypes
  <2> QED
    BY <1>9, <2>1, <2>2 DEF DebateHeld, RiskHeld, PostDebate, RiskNodes, DebateNodes
<1>16. OwnMessages /\ AnswersInTurn
  BY <1>7, <1>9 DEF OwnMessages, AnswersInTurn
<1>17. Numbered
  <2>1. st.messages = <<Human>> /\ Human.id = 0
    BY <1>3 DEF InitialState, Human
  <2>2. DOMAIN st.messages = {1} /\ st.messages[1] = Human
    BY <2>1
  <2> QED
    BY <1>2, <1>11, <2>1, <2>2 DEF Numbered
<1>18. TextsInTurn
  BY <1>3 DEF TextsInTurn, InitialState
<1> QED
  BY <1>12, <1>13, <1>14, <1>15, <1>16, <1>17, <1>18 DEF GInv

\* Whose turn it is determines the place in the plan.
LEMMA PlaceOf ==
    ASSUME GraphTypes, NEW i \in DOMAIN Plan, NEW j \in DOMAIN Plan, Plan[i] = Plan[j]
    PROVE  i = j
BY DEF GraphTypes

LEMMA InvokeGraph ==
    ASSUME GInv, NEW sh \in Shapes, sh.plan # << >>, Invoke(sh),
           \A i, j \in DOMAIN sh.plan : sh.plan[i] = sh.plan[j] => i = j
    PROVE  GInv' /\ next' \notin {Waiting, Failed} /\ st' = InitialState /\ produced' = <<Human>>
<1>1. next = Waiting /\ shape' = sh
  BY DEF Invoke
<1>2. next' = Agent(Head(sh.plan))
  BY DEF Invoke
<1>3. UNCHANGED <<steps, st, toolRounds, produced, why>>
  BY DEF Invoke
<1>4. steps = 0 /\ toolRounds = 0
  BY <1>1 DEF GInv, Fresh
<1>5. st = InitialState
  BY <1>1 DEF GInv, Fresh
<1>6. produced = <<Human>>
  BY <1>1 DEF GInv, Fresh
<1>a. why = ""
  BY <1>1 DEF GInv, Fresh
<1>7. Plan' = sh.plan /\ sh.plan \in Seq(AnalystKeys)
  BY <1>1 DEF Plan, Shapes
<1>8. 1 \in DOMAIN Plan' /\ Head(sh.plan) = Plan'[1] /\ Plan'[1] \in AnalystKeys
  BY <1>7
<1>9. /\ next' \in AnalystNodes /\ next'[1] = Plan'[1] /\ next'[2] = "agent"
  BY <1>2, <1>8, NodeKinds DEF Agent
<1>10. /\ next' \in Nodes /\ next' \in PreDebate /\ next' \notin DebateNodes
       /\ next' \notin PostDebate /\ next' # Waiting /\ next' # Failed
  BY <1>9, NodeKinds DEF Nodes, PreJudge, PreDebate
<1>11. \A i \in DOMAIN Plan' : next'[1] = Plan'[i] => i = 1
  BY <1>7, <1>8, <1>9
<1>12. \A i \in DOMAIN Plan' : i \in Nat /\ i >= 1
  BY <1>7
<1>13. \A a : AnsweredAt(a)' = {}
  <2>1. DOMAIN produced = {1} /\ produced[1] = Human
    BY <1>6
  <2>2. \A m \in Range(produced) : m.kind = "human"
    BY <2>1 DEF Range, Human
  <2> QED
    BY <1>3, <2>2 DEF AnsweredAt
<1>14. GraphTypes'
  BY <1>1, <1>3, <1>7, <1>8, <1>9, <1>10 DEF GInv, GraphTypes
<1>15. Fresh'
  BY <1>3, <1>10, <1>a DEF Fresh
<1>16. StepsSpent'
  <2>1. \A i \in DOMAIN Plan' : next'[1] = Plan'[i] =>
          steps' = SpentOn(next'[2], i) + 2 * toolRounds'
    BY <1>3, <1>4, <1>9, <1>11 DEF SpentOn
  <2> QED
    BY <1>10, <2>1 DEF StepsSpent, PostDebate
<1>17. DebateHeld' /\ RiskHeld'
  <2>1. st.debate.count = 0 /\ st.risk.count = 0
    BY <1>5 DEF InitialState
  <2>2. /\ Spoken(st.debate, <<"Bull", "Bear">>)
        /\ Spoken(st.risk, <<"Aggressive", "Conservative", "Neutral">>)
    BY <1>5, InitialTypes
  <2> QED
    BY <1>3, <1>10, <2>1, <2>2
    DEF DebateHeld, RiskHeld, PostDebate, RiskNodes, DebateNodes, PreTrade, PreJudge, Spoken
<1>18. OwnMessages'
  <2>1. st'.messages = <<Human>>
    BY <1>3, <1>5 DEF InitialState
  <2>2. Len(st'.messages) = 1 /\ st'.messages[1].kind = "human" /\ 2 .. 1 = {} /\ 1 % 2 = 1
    BY <2>1 DEF Human
  <2> QED
    BY <1>9, <2>2 DEF OwnMessages
<1>19. Numbered'
  BY <1>3 DEF GInv, Numbered
<1>20. AnswersInTurn'
  <2>1. \A j \in DOMAIN Plan' : ~Answered(j)'
    BY <1>13 DEF Answered
  <2>2. \A i \in DOMAIN Plan' : next'[1] = Plan'[i] =>
          \A j \in DOMAIN Plan' : Answered(j)' <=> IF next'[2] = "clear" THEN j <= i ELSE j < i
    BY <1>9, <1>11, <1>12, <2>1
  <2> QED
    BY <1>10, <1>13, <2>2 DEF AnswersInTurn
<1>21. TextsInTurn'
  BY <1>3, <1>5 DEF TextsInTurn, InitialState
<1> QED
  BY <1>3, <1>5, <1>6, <1>10, <1>14, <1>15, <1>16, <1>17, <1>18, <1>19, <1>20, <1>21 DEF GInv

-----------------------------------------------------------------------------
(* The nodes.                                                              *)
LEMMA GraphFacts ==
    ASSUME GInv
    PROVE  /\ steps \in Nat /\ toolRounds \in Nat /\ produced \in Seq(Messages) /\ st \in States
           /\ \A m \in Messages : m.id \in Nat
<1>1. steps \in Nat
  <2>1. steps \in 0 .. RecursionLimit
    BY DEF GInv, GraphTypes
  <2> QED
    BY <2>1
<1>2. produced \in Seq(Messages)
  BY DEF GInv, GraphTypes
<1>3. toolRounds \in Nat
  BY DEF GInv, GraphTypes
<1>4. \A m \in Messages : m.id \in Nat
  BY DEF Messages
<1>5. st \in States
  BY DEF GInv, GraphTypes
<1> QED
  BY <1>1, <1>2, <1>3, <1>4, <1>5

LEMMA MessageType ==
    ASSUME GInv, NEW kind \in {"human", "placeholder", "call", "result", "answer"},
           NEW a \in AnalystKeys \cup {"user", "Trader"}, NEW text \in Texts
    PROVE  /\ Message(kind, a, text) \in Messages /\ Message(kind, a, text).id = steps + 1
           /\ Message(kind, a, text).kind = kind /\ Message(kind, a, text).by = a
BY GraphFacts DEF Message, Messages

LEMMA Growing ==
    ASSUME GInv, steps' = steps + 1, NEW m \in Messages, m.id = steps + 1, Adds(m),
           st'.messages = Append(st.messages, m) \/ st'.messages = <<m>>
    PROVE  /\ Numbered' /\ produced' \in Seq(Messages)
           /\ \A a : IF m.by = a /\ m.kind = "answer"
                    THEN AnsweredAt(a)' = AnsweredAt(a) \cup {steps + 1}
                    ELSE AnsweredAt(a)' = AnsweredAt(a)
           /\ \A a : \A t \in AnsweredAt(a) : t \in Nat /\ t <= steps
<1> DEFINE L == Len(produced)
<1>1. produced \in Seq(Messages) /\ steps \in Nat /\ L \in Nat /\ DOMAIN produced = 1 .. L
  BY GraphFacts, LenProperties
<1>2. /\ produced' \in Seq(Messages) /\ DOMAIN produced' = 1 .. L + 1
      /\ produced'[L + 1] = m /\ \A k \in 1 .. L : produced'[k] = produced[k]
  BY <1>1, AppendProperties DEF Adds
<1>3. /\ \A k \in 1 .. L : produced[k].id <= steps
      /\ \A k, l \in 1 .. L : produced[k].id = produced[l].id => k = l
      /\ \A k \in DOMAIN st.messages : \E l \in 1 .. L : produced[l] = st.messages[k]
  BY <1>1 DEF GInv, Numbered
<1>4. \A k \in 1 .. L : produced[k].id \in Nat
  <2>1. \A k \in 1 .. L : produced[k] \in Messages
    BY <1>1
  <2> QED
    BY <2>1, GraphFacts
<1> HIDE DEF L
<1>5. \A k \in 1 .. L + 1 : k \in 1 .. L \/ k = L + 1
  BY <1>1
<1>6. \A k \in DOMAIN produced' : produced'[k].id <= steps'
  BY <1>1, <1>2, <1>3, <1>4, <1>5
<1>7. \A k, l \in DOMAIN produced' : produced'[k].id = produced'[l].id => k = l
  BY <1>1, <1>2, <1>3, <1>4, <1>5
<1>8. \A k \in DOMAIN st'.messages : \E l \in DOMAIN produced' : produced'[l] = st'.messages[k]
  <2>1. L + 1 \in 1 .. L + 1 /\ \A l \in 1 .. L : l \in 1 .. L + 1
    BY <1>1
  <2>2. CASE st'.messages = <<m>>
    <3>1. \A k \in DOMAIN st'.messages : st'.messages[k] = m
      BY <2>2
    <3> QED
      BY <1>2, <2>1, <3>1
  <2>3. CASE st'.messages = Append(st.messages, m)
    <3>1. st.messages \in Seq(Messages)
      BY DEF GInv, GraphTypes, States
    <3>2. \A k \in DOMAIN st'.messages :
            st'.messages[k] = m \/ (k \in DOMAIN st.messages /\ st'.messages[k] = st.messages[k])
      BY <2>3, <3>1, AppendProperties, LenProperties
    <3> QED
      BY <1>2, <1>3, <2>1, <3>2
  <2> QED
    BY <2>2, <2>3
<1>9. Range(produced)' = Range(produced) \cup {m}
  <2>1. L + 1 \in 1 .. L + 1 /\ \A l \in 1 .. L : l \in 1 .. L + 1
    BY <1>1
  <2>2. \A x : (\E k \in 1 .. L + 1 : x = produced'[k]) <=> (x = m \/ \E k \in 1 .. L : x = produced[k])
    BY <1>2, <1>5, <2>1
  <2>3. Range(produced) = {produced[k] : k \in 1 .. L}
    BY <1>1 DEF Range
  <2>4. Range(produced)' = {produced'[k] : k \in 1 .. L + 1}
    BY <1>2 DEF Range
  <2> QED
    BY <2>2, <2>3, <2>4
<1>10. \A a : IF m.by = a /\ m.kind = "answer"
              THEN AnsweredAt(a)' = AnsweredAt(a) \cup {steps + 1}
              ELSE AnsweredAt(a)' = AnsweredAt(a)
  BY <1>9 DEF AnsweredAt
<1>11. \A a : \A t \in AnsweredAt(a) : t \in Nat /\ t <= steps
  <2>1. \A x \in Range(produced) : x.id \in Nat /\ x.id <= steps
    BY <1>1, <1>3, <1>4 DEF Range
  <2> QED
    BY <2>1 DEF AnsweredAt
<1> QED
  BY <1>2, <1>6, <1>7, <1>8, <1>10, <1>11 DEF Numbered

LEMMA Quietly ==
    ASSUME GInv, steps' = steps + 1, Quiet, st'.messages = st.messages
    PROVE  /\ Numbered' /\ produced' \in Seq(Messages)
           /\ \A a : AnsweredAt(a)' = AnsweredAt(a)
<1>1. produced \in Seq(Messages) /\ steps \in Nat /\ produced' = produced
  BY GraphFacts DEF Quiet
<1>2. \A k \in DOMAIN produced : produced[k].id \in Nat
  <2>1. \A k \in DOMAIN produced : produced[k] \in Messages
    BY <1>1
  <2> QED
    BY <2>1, GraphFacts
<1>3. Numbered'
  BY <1>1, <1>2 DEF GInv, Numbered
<1> QED
  BY <1>1, <1>3 DEF AnsweredAt

LEMMA AfterIs ==
    ASSUME GraphTypes, NEW i \in DOMAIN Plan
    PROVE  After(Plan[i]) = IF i < Len(Plan) THEN Agent(Plan[i + 1]) ELSE Speaker("Bull")
<1>1. (CHOOSE j \in DOMAIN Plan : Plan[j] = Plan[i]) = i
  BY PlaceOf
<1> QED
  BY <1>1 DEF After

\* What every node of an analyst leaves alone.
LEMMA AnalystFrame ==
    ASSUME GInv, next \in AnalystNodes, Goes(next),
           next' \in AnalystNodes \cup {Speaker("Bull")},
           st'.debate = st.debate, st'.risk = st.risk
    PROVE  Fresh' /\ DebateHeld' /\ RiskHeld'
<1>1. Fresh'
  <2>1. why' = why /\ next # Failed /\ next' # Waiting /\ next' # Failed
    BY NodeKinds DEF Goes, DebateNodes
  <2> QED
    BY <2>1 DEF Fresh, GInv
<1>2. st.debate.count = 0 /\ st.risk.count = 0 /\ shape' = shape
  BY DEF GInv, DebateHeld, RiskHeld, PreDebate, PreTrade, PreJudge, Goes
<1>3. next' \notin PostDebate /\ next' # Speaker("Bear")
  <2>1. Speaker("Bull") # Speaker("Bear") /\ Speaker("Bull") \in DebateNodes
        /\ Speaker("Bear") \in DebateNodes
    BY DEF Speaker, DebateNodes
  <2> QED
    BY <2>1, NodeKinds
<1>4. DebateHeld' /\ RiskHeld'
  <2>1. /\ Spoken(st.debate, <<"Bull", "Bear">>)' /\ Spoken(st.debate, <<"Bull", "Bear">>)
        /\ Spoken(st.risk, <<"Aggressive", "Conservative", "Neutral">>)'
    BY DEF GInv, DebateHeld, RiskHeld, Spoken
  <2>2. 0 % 2 = 0
    OBVIOUS
  <2>3. st'.debate.count = 0 /\ st'.risk.count = 0
    BY <1>2
  <2>4. DebateHeld'
    BY <1>3, <2>1, <2>2, <2>3 DEF DebateHeld
  <2>5. RiskHeld'
    BY <1>3, <2>1, <2>3 DEF RiskHeld, PostDebate, RiskNodes
  <2> QED
    BY <2>4, <2>5
<1> QED
  BY <1>1, <1>4

\* What a node never takes back; no node follows the last decision.
Later(s0, s) ==
  /\ \A a \in AnalystKeys : s0.reports[a] # "" => s.reports[a] = s0.reports[a]
  /\ s0.debate.history # << >> => s.debate.history # << >>
  /\ \A d \in Debaters : s0.debate.said[d] # << >> => s.debate.said[d] # << >>
  /\ \A r \in RiskAnalysts : s0.risk.said[r] # << >> => s.risk.said[r] # << >>
  /\ s0.debate.judge # "" => s.debate.judge = s0.debate.judge
  /\ s0.proposal # "" => s.proposal = s0.proposal
  /\ s0.risk.judge = ""

\* And what it adds: at most one message of its own superstep, which answers
\* where a report is new.
Grows ==
  /\ Later(st, st')
  /\ \A a \in AnalystKeys :
       /\ AnsweredAt(a) \subseteq AnsweredAt(a)'
       /\ st'.reports[a] # "" /\ st.reports[a] = "" => steps' \in AnsweredAt(a)'
  /\ steps' = steps + 1 /\ shape' = shape /\ next \notin {Waiting, Failed, End}
  /\ next' \notin {Waiting, Failed}
  /\ \/ produced' = produced /\ st'.messages = st.messages
     \/ \E m \in Messages :
          /\ m.id = steps + 1 /\ produced' = Append(produced, m)
          /\ st'.messages = Append(st.messages, m) \/ st'.messages = <<m>>

LEMMA WhoseTurn ==
    ASSUME GInv, NEW a \in AnalystKeys, NEW k \in {"agent", "tools", "clear"}, Goes(<<a, k>>)
    PROVE  /\ steps' = steps + 1 /\ steps' \in 0 .. RecursionLimit /\ shape' = shape /\ Plan' = Plan
           /\ next \in AnalystNodes /\ next[1] = a /\ next[2] = k
           /\ \E i \in DOMAIN Plan : Plan[i] = a
           /\ DOMAIN Plan = 1 .. Len(Plan) /\ Len(Plan) \in Nat
<1>1. steps' = steps + 1 /\ steps < RecursionLimit /\ shape' = shape
  BY DEF Goes, LimitOf
<1>2. next = <<a, k>>
  BY DEF Goes
<1>3. steps \in 0 .. RecursionLimit
  BY DEF GInv, GraphTypes
<1>4. steps' \in 0 .. RecursionLimit
  BY <1>1, <1>3, LimitAssumption
<1>5. next \in AnalystNodes /\ next[1] = a /\ next[2] = k
  BY <1>2, NodeKinds
<1>6. \E i \in DOMAIN Plan : Plan[i] = a
  BY <1>5 DEF GInv, GraphTypes
<1>7. Plan \in Seq(AnalystKeys)
  BY DEF GInv, GraphTypes, Shapes, Plan
<1> QED
  BY <1>1, <1>4, <1>5, <1>6, <1>7 DEF Plan

\* The agent's node, whether it calls for tools or answers.
Says(a, kind, text) ==
  LET m == Message(kind, a, text) IN
  /\ Goes(Agent(a)) /\ (kind = "call" => text = "") /\ Adds(m)
  /\ st' = [st EXCEPT !.messages = Append(st.messages, m), !.reports[a] = text]
  /\ next' = (IF kind = "call" THEN Tools(a) ELSE Clear(a))
  /\ toolRounds' = toolRounds + (IF kind = "call" THEN 1 ELSE 0)

LEMMA AgentStep ==
    ASSUME GInv, NEW a \in AnalystKeys, NEW kind \in {"call", "answer"}, NEW text \in Texts,
           Says(a, kind, text)
    PROVE  GInv' /\ Grows
<1> DEFINE m == Message(kind, a, text)
<1>a. /\ Goes(<<a, "agent">>) /\ (kind = "call" => text = "") /\ Adds(m)
  BY DEF Says, Agent
<1>b. st' = [st EXCEPT !.messages = Append(st.messages, m), !.reports[a] = text]
  BY DEF Says
<1>c. next' = (IF kind = "call" THEN Tools(a) ELSE Clear(a))
  BY DEF Says
<1>d. toolRounds' = toolRounds + (IF kind = "call" THEN 1 ELSE 0)
  BY DEF Says
<1>1. /\ steps' = steps + 1 /\ steps' \in 0 .. RecursionLimit /\ shape' = shape /\ Plan' = Plan
      /\ next \in AnalystNodes /\ next[1] = a /\ next[2] = "agent"
      /\ DOMAIN Plan = 1 .. Len(Plan) /\ Len(Plan) \in Nat
  BY <1>a, WhoseTurn
<1>2. PICK i \in DOMAIN Plan : Plan[i] = a
  BY <1>a, WhoseTurn
<1>3. m \in Messages /\ m.id = steps + 1 /\ m.by = a /\ m.kind = kind
  BY MessageType
<1>4. /\ st.messages \in Seq(Messages) /\ st.reports \in [AnalystKeys -> Texts]
      /\ st'.messages = Append(st.messages, m) /\ st'.reports = [st.reports EXCEPT ![a] = text]
      /\ st'.debate = st.debate /\ st'.risk = st.risk /\ st'.plan = st.plan
      /\ st'.proposal = st.proposal /\ st'.decision = st.decision
  BY <1>b, GraphFacts DEF States
<1>5. st' \in States
  <2>1. st \in States /\ Append(st.messages, m) \in Seq(Messages)
        /\ [st.reports EXCEPT ![a] = text] \in [AnalystKeys -> Texts]
    BY GraphFacts, <1>3, <1>4, AppendProperties
  <2> HIDE DEF m
  <2>2. st' = [st EXCEPT !.messages = Append(st.messages, m),
                         !.reports = [st.reports EXCEPT ![a] = text]]
    BY <1>b
  <2> QED
    BY <2>1, <2>2 DEF States
<1> HIDE DEF m
<1>6. /\ next' \in AnalystNodes /\ next'[1] = a
      /\ next'[2] = (IF kind = "call" THEN "tools" ELSE "clear")
  BY <1>c, NodeKinds DEF Tools, Clear
<1>7. Fresh' /\ DebateHeld' /\ RiskHeld'
  BY <1>1, <1>4, <1>6, <1>a, AnalystFrame DEF Goes
<1>8. /\ Numbered' /\ produced' \in Seq(Messages)
      /\ \A b : IF m.by = b /\ m.kind = "answer"
               THEN AnsweredAt(b)' = AnsweredAt(b) \cup {steps + 1}
               ELSE AnsweredAt(b)' = AnsweredAt(b)
      /\ \A b : \A t \in AnsweredAt(b) : t \in Nat /\ t <= steps
  BY <1>1, <1>3, <1>4, <1>a, Growing
<1>9. /\ next' \in Nodes /\ next' \in PreDebate /\ next' \notin DebateNodes
      /\ next' \notin PostDebate /\ next' # Waiting /\ next' # Failed
      /\ next # Waiting /\ next # Failed /\ next # End
      /\ next \in PreDebate
  BY <1>1, <1>6, NodeKinds DEF Nodes, PreJudge, PreDebate, PostDebate
<1>10. GraphTypes'
  <2>1. toolRounds' \in Nat
    BY <1>d, GraphFacts
  <2>2. why' = why
    BY <1>a DEF Goes
  <2> QED
    BY <1>1, <1>2, <1>5, <1>6, <1>8, <1>9, <2>1, <2>2 DEF GInv, GraphTypes
<1>11. StepsSpent'
  <2>1. steps = 2 * (i - 1) + 2 * toolRounds
    BY <1>1, <1>2 DEF GInv, StepsSpent, SpentOn
  <2>2. \A j \in DOMAIN Plan : Plan[j] = a => j = i
    BY <1>2 DEF GInv, GraphTypes
  <2>3. steps' = SpentOn(next'[2], i) + 2 * toolRounds'
    BY <1>1, <1>6, <1>d, <2>1, GraphFacts DEF SpentOn
  <2> QED
    BY <1>1, <1>6, <1>9, <2>2, <2>3 DEF StepsSpent, PostDebate
<1>12. OwnMessages'
  <2> DEFINE ms == st.messages
             L == Len(ms)
  <2>1. /\ L \in Nat /\ L >= 1 /\ ms[1].kind \in {"human", "placeholder"} /\ L % 2 = 1
        /\ \A k \in 2 .. L : ms[k].by = a
        /\ \A k \in 2 .. L : ms[k].kind = IF k % 2 = 0 THEN "call" ELSE "result"
    BY <1>1, <1>2, <1>4, LenProperties DEF GInv, OwnMessages
  <2>2. /\ Len(st'.messages) = L + 1 /\ st'.messages[L + 1] = m
        /\ \A k \in 1 .. L : st'.messages[k] = ms[k]
    BY <1>3, <1>4, AppendProperties
  <2> HIDE DEF L, ms
  <2>3. (L + 1) % 2 = 0 /\ \A k \in 2 .. L + 1 : k \in 2 .. L \/ k = L + 1
    BY <2>1
  <2>4. st'.messages[1].kind \in {"human", "placeholder"} /\ Len(st'.messages) >= 1
    BY <2>1, <2>2
  <2>5. \A k \in 2 .. L + 1 : st'.messages[k].by = a
    BY <1>3, <2>1, <2>2, <2>3
  <2>6. kind = "call" =>
          \A k \in 2 .. L + 1 : st'.messages[k].kind = IF k % 2 = 0 THEN "call" ELSE "result"
    BY <1>3, <2>1, <2>2, <2>3
  <2> QED
    BY <1>1, <1>6, <2>2, <2>3, <2>4, <2>5, <2>6 DEF OwnMessages
<1>13. AnswersInTurn'
  <2>1. \A j \in DOMAIN Plan : Answered(j) <=> j < i
    BY <1>1, <1>2 DEF GInv, AnswersInTurn
  <2>2. \A j, l \in DOMAIN Plan : Plan[j] = Plan[l] => j = l
    BY DEF GInv, GraphTypes
  <2>3. \A j \in DOMAIN Plan :
          IF j = i /\ kind = "answer" THEN AnsweredAt(Plan[j])' = AnsweredAt(Plan[j]) \cup {steps + 1}
          ELSE AnsweredAt(Plan[j])' = AnsweredAt(Plan[j])
    <3> SUFFICES ASSUME NEW j \in DOMAIN Plan
                 PROVE  IF j = i /\ kind = "answer"
                        THEN AnsweredAt(Plan[j])' = AnsweredAt(Plan[j]) \cup {steps + 1}
                        ELSE AnsweredAt(Plan[j])' = AnsweredAt(Plan[j])
      OBVIOUS
    <3>1. (m.by = Plan[j]) <=> (j = i)
      BY <1>2, <1>3, <2>2
    <3> QED
      BY <1>1, <1>3, <1>8, <3>1
  <2>4. \A j \in DOMAIN Plan : ~(j < i) => AnsweredAt(Plan[j]) = {}
    BY <2>1 DEF Answered
  <2>5. \A j, l \in DOMAIN Plan : \A t \in AnsweredAt(Plan[j]), u \in AnsweredAt(Plan[l]) :
          (j = l => t = u) /\ (j < l => t < u)
    BY DEF GInv, AnswersInTurn
  <2>6. \A j, l \in DOMAIN Plan : \A t \in AnsweredAt(Plan[j])', u \in AnsweredAt(Plan[l])' :
          (j = l => t = u) /\ (j < l => t < u)
    <3> SUFFICES ASSUME NEW j \in DOMAIN Plan, NEW l \in DOMAIN Plan,
                        NEW t \in AnsweredAt(Plan[j])', NEW u \in AnsweredAt(Plan[l])'
                 PROVE  (j = l => t = u) /\ (j < l => t < u)
      OBVIOUS
    <3>1. /\ (t \in AnsweredAt(Plan[j]) /\ j < i) \/ (t = steps + 1 /\ j = i)
          /\ (u \in AnsweredAt(Plan[l]) /\ l < i) \/ (u = steps + 1 /\ l = i)
      BY <2>3, <2>4
    <3>2. \A b : \A v \in AnsweredAt(b) : v \in Nat /\ v < steps + 1
      BY <1>8, GraphFacts
    <3> QED
      BY <1>1, <2>5, <3>1, <3>2
  <2>7. \A j \in DOMAIN Plan' :
          Answered(j)' <=> IF next'[2] = "clear" THEN j <= i ELSE j < i
    <3>1. ASSUME NEW j \in DOMAIN Plan
          PROVE  Answered(j)' <=> (Answered(j) \/ (j = i /\ kind = "answer"))
      BY <1>1, <2>3 DEF Answered
    <3> QED
      BY <1>1, <1>6, <2>1, <3>1
  <2> QED
    BY <1>1, <1>2, <1>6, <1>9, <2>2, <2>6, <2>7 DEF AnswersInTurn
<1>14. st.reports[a] = "" /\ (text # "" => kind = "answer")
  <2>1. \A j \in DOMAIN Plan : Plan[j] = a => ~Answered(j)
    <3>1. \A j \in DOMAIN Plan : Plan[j] = a => j = i
      BY <1>2 DEF GInv, GraphTypes
    <3>2. ~Answered(i)
      BY <1>1, <1>2 DEF GInv, AnswersInTurn
    <3> QED
      BY <3>1, <3>2
  <2>2. st.reports[a] = ""
    BY <2>1 DEF GInv, TextsInTurn
  <2> QED
    BY <1>a, <2>2
<1>15. \A b \in AnalystKeys :
         /\ AnsweredAt(b) \subseteq AnsweredAt(b)'
         /\ st'.reports[b] # st.reports[b] =>
              (b = a /\ kind = "answer" /\ steps' \in AnsweredAt(b)')
  BY <1>1, <1>3, <1>4, <1>8, <1>14
<1>16. TextsInTurn'
  <2>1. \A b \in AnalystKeys : st'.reports[b] # "" => \E j \in DOMAIN Plan : Plan[j] = b /\ Answered(j)'
    <3> SUFFICES ASSUME NEW b \in AnalystKeys, st'.reports[b] # ""
                 PROVE  \E j \in DOMAIN Plan : Plan[j] = b /\ Answered(j)'
      OBVIOUS
    <3>1. CASE st'.reports[b] = st.reports[b]
      <4>1. PICK j \in DOMAIN Plan : Plan[j] = b /\ Answered(j)
        BY <3>1 DEF GInv, TextsInTurn
      <4> QED
        BY <1>1, <1>15, <4>1 DEF Answered
    <3>2. CASE st'.reports[b] # st.reports[b]
      BY <1>1, <1>2, <1>15, <3>2 DEF Answered
    <3> QED
      BY <3>1, <3>2
  <2>2. next \in PreJudge /\ next \in PreTrade /\ next \in Nodes \ {End, Failed}
    BY <1>9 DEF PreTrade, PreJudge, Nodes
  <2>3. st.debate.judge = "" /\ st.proposal = "" /\ st.risk.judge = ""
        /\ st.plan = st.debate.judge /\ st.decision = st.risk.judge
    BY <2>2 DEF GInv, TextsInTurn
  <2> QED
    BY <1>1, <1>4, <2>1, <2>3 DEF TextsInTurn
<1>17. Grows
  <2>1. st.risk.judge = ""
    BY <1>9 DEF GInv, TextsInTurn, Nodes, PreJudge
  <2>2. produced' = Append(produced, m)
    BY <1>a DEF Adds
  <2> QED
    BY <1>1, <1>3, <1>4, <1>9, <1>14, <1>15, <2>1, <2>2 DEF Grows, Later
<1> QED
  BY <1>7, <1>8, <1>10, <1>11, <1>12, <1>13, <1>16, <1>17 DEF GInv

LEMMA AskToolsStep ==
    ASSUME GInv, NEW a \in AnalystKeys, AskTools(a)
    PROVE  GInv' /\ Grows
<1> DEFINE m == Message("call", a, "")
           ms == Append(st.messages, m)
<1>1. ShouldContinue(a, ms) = Tools(a)
  <2>1. m \in Messages /\ m.kind = "call" /\ st.messages \in Seq(Messages)
    <3>1. steps \in Nat /\ st.messages \in Seq(Messages)
      BY GraphFacts DEF States
    <3>2. "" \in Texts
      BY DEF Texts
    <3>3. m \in Messages
      BY <3>2, MessageType
    <3>4. m.kind = "call"
      BY DEF Message
    <3> QED
      BY <3>1, <3>3, <3>4
  <2> HIDE DEF m
  <2>2. ms[Len(ms)] = m
    BY <2>1, AppendProperties
  <2> QED
    BY <2>1, <2>2 DEF ShouldContinue, Last
<1>2. Says(a, "call", "")
  <2>1. "call" = "call" /\ toolRounds' = toolRounds + 1
    BY DEF AskTools
  <2> QED
    BY <1>1, <2>1 DEF AskTools, Says
<1> QED
  BY <1>2, AgentStep DEF Texts

LEMMA ReportStep ==
    ASSUME GInv, NEW a \in AnalystKeys, Report(a)
    PROVE  GInv' /\ Grows
<1>1. PICK text \in Answers(a) :
         LET m == Message("answer", a, text)
             ms == Append(st.messages, m)
         IN  /\ st' = [st EXCEPT !.messages = ms, !.reports[a] = text]
             /\ next' = ShouldContinue(a, ms) /\ Adds(m)
  BY DEF Report
<1>2. text \in Texts /\ Goes(Agent(a)) /\ toolRounds' = toolRounds
  BY DEF Report, Answers, StructuredOrFreetext, Texts
<1> DEFINE m == Message("answer", a, text)
           ms == Append(st.messages, m)
<1>3. ShouldContinue(a, ms) = Clear(a)
  <2>1. m \in Messages /\ m.kind = "answer" /\ st.messages \in Seq(Messages)
    BY <1>2, GraphFacts DEF Message, Messages, States
  <2> HIDE DEF m
  <2>2. ms[Len(ms)] = m
    BY <2>1, AppendProperties
  <2> QED
    BY <2>1, <2>2 DEF ShouldContinue, Last
<1>4. Says(a, "answer", text)
  <2>1. toolRounds' = toolRounds + 0
    BY <1>2, GraphFacts
  <2> QED
    BY <1>1, <1>2, <1>3, <2>1 DEF Says
<1> QED
  BY <1>2, <1>4, AgentStep

\* A message that answers nothing.
LEMMA OtherMessage ==
    ASSUME GInv, NEW m \in Messages, m.id = steps + 1, m.kind # "answer", steps' = steps + 1,
           st'.messages = Append(st.messages, m) \/ st'.messages = <<m>>, Adds(m)
    PROVE  \A b : AnsweredAt(b)' = AnsweredAt(b)
BY Growing

\* What an analyst's node that answers nothing leaves alone.
LEMMA SameTexts ==
    ASSUME GInv, next \in PreDebate, Plan' = Plan, \A b : AnsweredAt(b)' = AnsweredAt(b),
           st'.reports = st.reports, st'.debate = st.debate, st'.risk = st.risk,
           st'.plan = st.plan, st'.proposal = st.proposal, st'.decision = st.decision
    PROVE  TextsInTurn' /\ st.risk.judge = ""
<1>1. next \in PreJudge /\ next \in PreTrade /\ next \in Nodes \ {End, Failed}
  BY NodeKinds DEF PreTrade, PreJudge, PreDebate, Nodes, PostDebate
<1>2. st.debate.judge = "" /\ st.proposal = "" /\ st.risk.judge = ""
      /\ st.plan = st.debate.judge /\ st.decision = st.risk.judge
  BY <1>1 DEF GInv, TextsInTurn
<1>3. \A b \in AnalystKeys : st'.reports[b] # "" => \E j \in DOMAIN Plan' : Plan'[j] = b /\ Answered(j)'
  <2>1. \A j \in DOMAIN Plan : Answered(j)' <=> Answered(j)
    BY DEF Answered
  <2>2. \A b \in AnalystKeys : st.reports[b] # "" => \E j \in DOMAIN Plan : Plan[j] = b /\ Answered(j)
    BY DEF GInv, TextsInTurn
  <2> QED
    BY <2>1, <2>2
<1> QED
  BY <1>2, <1>3 DEF TextsInTurn

LEMMA RunToolsStep ==
    ASSUME GInv, NEW a \in AnalystKeys, RunTools(a)
    PROVE  GInv' /\ Grows
<1> DEFINE m == Message("result", a, "text")
<1>a. Goes(<<a, "tools">>) /\ Adds(m) /\ toolRounds' = toolRounds
  BY DEF RunTools, Tools
<1>b. st' = [st EXCEPT !.messages = Append(st.messages, m)]
  BY DEF RunTools
<1>1. /\ steps' = steps + 1 /\ steps' \in 0 .. RecursionLimit /\ shape' = shape /\ Plan' = Plan
      /\ next \in AnalystNodes /\ next[1] = a /\ next[2] = "tools"
      /\ DOMAIN Plan = 1 .. Len(Plan) /\ Len(Plan) \in Nat
  BY <1>a, WhoseTurn
<1>2. PICK i \in DOMAIN Plan : Plan[i] = a
  BY <1>a, WhoseTurn
<1>3. m \in Messages /\ m.id = steps + 1 /\ m.by = a /\ m.kind = "result"
  <2>1. "text" \in Texts
    BY DEF Texts
  <2> QED
    BY <2>1, MessageType
<1>4. /\ st.messages \in Seq(Messages) /\ st'.messages = Append(st.messages, m)
      /\ st'.debate = st.debate /\ st'.risk = st.risk /\ st'.plan = st.plan
      /\ st'.reports = st.reports
      /\ st'.proposal = st.proposal /\ st'.decision = st.decision
  BY <1>b, GraphFacts DEF States
<1>5. st' \in States
  <2>1. st \in States /\ Append(st.messages, m) \in Seq(Messages)
    BY GraphFacts, <1>3, <1>4, AppendProperties
  <2> HIDE DEF m
  <2> QED
    BY <1>b, <2>1 DEF States
<1> HIDE DEF m
<1>6. next' \in AnalystNodes /\ next'[1] = a /\ next'[2] = "agent"
  BY NodeKinds DEF RunTools, Agent
<1>7. Fresh' /\ DebateHeld' /\ RiskHeld'
  BY <1>1, <1>4, <1>6, <1>a, AnalystFrame DEF Goes
<1>8. Numbered' /\ produced' \in Seq(Messages)
  BY <1>1, <1>3, <1>4, <1>a, Growing
<1>b1. \A b : AnsweredAt(b)' = AnsweredAt(b)
  BY <1>1, <1>3, <1>4, <1>a, OtherMessage
<1>9. /\ next' \in Nodes /\ next' \in PreDebate /\ next' \notin DebateNodes
      /\ next' \notin PostDebate /\ next' # Waiting /\ next' # Failed
      /\ next # Waiting /\ next # Failed /\ next # End
      /\ next \in PreDebate
  BY <1>1, <1>6, NodeKinds DEF Nodes, PreJudge, PreDebate, PostDebate
<1>10. GraphTypes'
  <2>1. toolRounds' \in Nat
    BY <1>a, GraphFacts
  <2>2. why' = why
    BY <1>a DEF Goes
  <2> QED
    BY <1>1, <1>2, <1>5, <1>6, <1>8, <1>9, <2>1, <2>2 DEF GInv, GraphTypes
<1>11. StepsSpent'
  <2>1. steps = 2 * (i - 1) - 1 + 2 * toolRounds
    BY <1>1, <1>2 DEF GInv, StepsSpent, SpentOn
  <2>2. \A j \in DOMAIN Plan : Plan[j] = a => j = i
    BY <1>2 DEF GInv, GraphTypes
  <2>3. steps' = SpentOn(next'[2], i) + 2 * toolRounds'
    BY <1>1, <1>6, <1>a, <2>1, GraphFacts DEF SpentOn
  <2> QED
    BY <1>1, <1>6, <1>9, <2>2, <2>3 DEF StepsSpent, PostDebate
<1>12. OwnMessages'
  <2> DEFINE ms == st.messages
             L == Len(ms)
  <2>1. /\ L \in Nat /\ L >= 1 /\ ms[1].kind \in {"human", "placeholder"} /\ L % 2 = 0
        /\ \A k \in 2 .. L : ms[k].by = a
        /\ \A k \in 2 .. L : ms[k].kind = IF k % 2 = 0 THEN "call" ELSE "result"
    BY <1>1, <1>2, <1>4, LenProperties DEF GInv, OwnMessages
  <2>2. /\ Len(st'.messages) = L + 1 /\ st'.messages[L + 1] = m
        /\ \A k \in 1 .. L : st'.messages[k] = ms[k]
    BY <1>3, <1>4, AppendProperties
  <2> HIDE DEF L, ms
  <2>3. (L + 1) % 2 = 1 /\ \A k \in 2 .. L + 1 : k \in 2 .. L \/ k = L + 1
    BY <2>1
  <2>4. st'.messages[1].kind \in {"human", "placeholder"} /\ Len(st'.messages) >= 1
    BY <2>1, <2>2
  <2>5. \A k \in 2 .. L + 1 : st'.messages[k].by = a
    <3>1. \A k \in 2 .. L : k \in 1 .. L
      BY <2>1
    <3>2. \A k \in 2 .. L : st'.messages[k].by = a
      BY <2>1, <2>2, <3>1
    <3> QED
      BY <1>3, <2>2, <2>3, <3>2
  <2>6. \A k \in 2 .. L + 1 : st'.messages[k].kind = IF k % 2 = 0 THEN "call" ELSE "result"
    BY <1>3, <2>1, <2>2, <2>3
  <2> QED
    BY <1>1, <1>6, <2>2, <2>3, <2>4, <2>5, <2>6 DEF OwnMessages
<1>13. AnswersInTurn'
  <2>1. \A j \in DOMAIN Plan : Answered(j)' <=> Answered(j)
    BY <1>1, <1>b1 DEF Answered
  <2>2. \A j \in DOMAIN Plan : Answered(j) <=> j < i
    BY <1>1, <1>2 DEF GInv, AnswersInTurn
  <2>3. \A j, l \in DOMAIN Plan : Plan[j] = Plan[l] => j = l
    BY DEF GInv, GraphTypes
  <2>4. \A j, l \in DOMAIN Plan : \A t \in AnsweredAt(Plan[j])', u \in AnsweredAt(Plan[l])' :
          (j = l => t = u) /\ (j < l => t < u)
    BY <1>1, <1>b1 DEF GInv, AnswersInTurn
  <2> QED
    BY <1>1, <1>2, <1>6, <1>9, <2>1, <2>2, <2>3, <2>4 DEF AnswersInTurn
<1>14. TextsInTurn' /\ st.risk.judge = ""
  BY <1>1, <1>4, <1>9, <1>b1, SameTexts
<1>15. Grows
  <2>1. produced' = Append(produced, m)
    BY <1>a DEF Adds
  <2> QED
    BY <1>1, <1>3, <1>4, <1>9, <1>b1, <1>14, <2>1 DEF Grows, Later
<1> QED
  BY <1>7, <1>8, <1>10, <1>11, <1>12, <1>13, <1>14, <1>15 DEF GInv

LEMMA DeleteMessagesStep ==
    ASSUME GInv, NEW a \in AnalystKeys, DeleteMessages(a)
    PROVE  GInv' /\ Grows
<1> DEFINE m == Placeholder
<1>a. Goes(<<a, "clear">>) /\ Adds(m) /\ toolRounds' = toolRounds
  BY DEF DeleteMessages, Clear
<1>b. st' = [st EXCEPT !.messages = <<m>>] /\ next' = After(a)
  BY DEF DeleteMessages
<1>1. /\ steps' = steps + 1 /\ steps' \in 0 .. RecursionLimit /\ shape' = shape /\ Plan' = Plan
      /\ next \in AnalystNodes /\ next[1] = a /\ next[2] = "clear"
      /\ DOMAIN Plan = 1 .. Len(Plan) /\ Len(Plan) \in Nat
  BY <1>a, WhoseTurn
<1>2. PICK i \in DOMAIN Plan : Plan[i] = a
  BY <1>a, WhoseTurn
<1>3. m \in Messages /\ m.id = steps + 1 /\ m.kind = "placeholder"
  <2>1. "text" \in Texts
    BY DEF Texts
  <2> QED
    BY <2>1, MessageType DEF Placeholder
<1> HIDE DEF m
<1>4. /\ st'.messages = <<m>>
      /\ st'.debate = st.debate /\ st'.risk = st.risk /\ st'.plan = st.plan
      /\ st'.reports = st.reports
      /\ st'.proposal = st.proposal /\ st'.decision = st.decision
  BY <1>b, GraphFacts DEF States
<1>5. st' \in States
  <2>1. st \in States /\ <<m>> \in Seq(Messages)
    BY GraphFacts, <1>3
  <2> QED
    BY <1>b, <2>1 DEF States
<1>6. /\ i < Len(Plan) => next' = Agent(Plan[i + 1]) /\ i + 1 \in DOMAIN Plan
      /\ ~(i < Len(Plan)) => next' = Speaker("Bull") /\ i = Len(Plan)
      /\ i \in Nat /\ i >= 1 /\ \A j \in DOMAIN Plan : j \in Nat /\ j <= Len(Plan)
  <2>1. next' = IF i < Len(Plan) THEN Agent(Plan[i + 1]) ELSE Speaker("Bull")
    BY <1>b, <1>2, AfterIs DEF GInv
  <2> QED
    BY <1>1, <2>1
<1>6a. i < Len(Plan) =>
         next' \in AnalystNodes /\ next'[1] = Plan[i + 1] /\ next'[2] = "agent"
  <2>1. Plan \in Seq(AnalystKeys)
    BY DEF GInv, GraphTypes, Shapes, Plan
  <2>2. i < Len(Plan) => Plan[i + 1] \in AnalystKeys
    BY <1>6, <2>1
  <2> QED
    BY <1>6, <2>2, NodeKinds DEF Agent
<1>6b. ~(i < Len(Plan)) => next' = Speaker("Bull") /\ next' \in DebateNodes
  BY <1>6 DEF DebateNodes
<1>7. Fresh' /\ DebateHeld' /\ RiskHeld'
  <2>1. Goes(next) /\ next' \in AnalystNodes \cup {Speaker("Bull")}
    BY <1>1, <1>6a, <1>6b, <1>a DEF Goes
  <2> QED
    BY <1>1, <1>4, <2>1, AnalystFrame
<1>8. Numbered' /\ produced' \in Seq(Messages)
  BY <1>1, <1>3, <1>4, <1>a, Growing
<1>b1. \A b : AnsweredAt(b)' = AnsweredAt(b)
  BY <1>1, <1>3, <1>4, <1>a, OtherMessage
<1>9. /\ next' \in Nodes
      /\ next' \notin PostDebate /\ next' # Waiting /\ next' # Failed
      /\ next # Waiting /\ next # Failed /\ next # End
      /\ next \in PreDebate
  BY <1>1, <1>6a, <1>6b, NodeKinds DEF Nodes, PreJudge, PreDebate, PostDebate
<1>9a. /\ i < Len(Plan) => next' \in PreDebate /\ next' \notin DebateNodes
       /\ ~(i < Len(Plan)) => next' \notin AnalystNodes /\ next' \notin PreDebate
  BY <1>6a, <1>6b, NodeKinds DEF PreDebate
<1>10. GraphTypes'
  <2>1. toolRounds' \in Nat
    BY <1>a, GraphFacts
  <2>2. why' = why
    BY <1>a DEF Goes
  <2>3. next' \in AnalystNodes => \E j \in DOMAIN Plan : next'[1] = Plan[j]
    BY <1>6, <1>6a, <1>9a
  <2> QED
    BY <1>1, <1>5, <1>8, <1>9, <2>1, <2>2, <2>3 DEF GInv, GraphTypes
<1>c. \A j, l \in DOMAIN Plan : Plan[j] = Plan[l] => j = l
  BY DEF GInv, GraphTypes
<1>11. StepsSpent'
  <2>1. steps = 2 * (i - 1) + 1 + 2 * toolRounds
    BY <1>1, <1>2 DEF GInv, StepsSpent, SpentOn
  <2>2. steps' = 2 * i + 2 * toolRounds'
    BY <1>1, <1>6, <1>a, <2>1, GraphFacts
  <2>3. CASE i < Len(Plan)
    <3>1. steps' = SpentOn(next'[2], i + 1) + 2 * toolRounds'
      BY <1>6, <1>6a, <2>2, <2>3 DEF SpentOn
    <3>2. \A j \in DOMAIN Plan : next'[1] = Plan[j] => j = i + 1
      BY <1>6, <1>6a, <1>c, <2>3
    <3> QED
      BY <1>1, <1>9, <1>9a, <2>3, <3>1, <3>2 DEF StepsSpent, PostDebate
  <2>4. CASE ~(i < Len(Plan))
    <3>1. st'.debate.count = 0
      BY <1>4, <1>9 DEF GInv, DebateHeld
    <3>2. steps' = 2 * Len(Plan') + 2 * toolRounds' + st'.debate.count
      <4>1. Plan' = Plan /\ i = Len(Plan) /\ Len(Plan) \in Nat
        BY <1>1, <1>6, <2>4
      <4>2. toolRounds' \in Nat
        BY <1>a, GraphFacts
      <4> QED
        BY <2>2, <3>1, <4>1, <4>2
    <3> QED
      BY <1>1, <1>9, <1>9a, <2>4, <3>2 DEF StepsSpent, PostDebate
  <2> QED
    BY <2>3, <2>4
<1>12. OwnMessages'
  <2>1. Len(st'.messages) = 1 /\ st'.messages[1].kind = "placeholder" /\ 2 .. 1 = {} /\ 1 % 2 = 1
    BY <1>3, <1>4
  <2>2. CASE i < Len(Plan)
    BY <1>6a, <2>1, <2>2 DEF OwnMessages
  <2>3. CASE ~(i < Len(Plan))
    BY <1>9a, <2>3 DEF OwnMessages
  <2> QED
    BY <2>2, <2>3
<1>13. AnswersInTurn'
  <2>1. \A j \in DOMAIN Plan : Answered(j)' <=> Answered(j)
    BY <1>1, <1>b1 DEF Answered
  <2>2. \A j \in DOMAIN Plan : Answered(j) <=> j <= i
    BY <1>1, <1>2 DEF GInv, AnswersInTurn
  <2>3. \A j, l \in DOMAIN Plan : \A t \in AnsweredAt(Plan[j])', u \in AnsweredAt(Plan[l])' :
          (j = l => t = u) /\ (j < l => t < u)
    BY <1>1, <1>b1 DEF GInv, AnswersInTurn
  <2>4. CASE i < Len(Plan)
    <3>1. \A j \in DOMAIN Plan : next'[1] = Plan[j] => j = i + 1
      BY <1>6, <1>6a, <1>c, <2>4
    <3>2. \A j \in DOMAIN Plan : Answered(j)' <=> j < i + 1
      BY <1>6, <2>1, <2>2
    <3> QED
      BY <1>1, <1>6a, <1>9, <1>9a, <2>3, <2>4, <3>1, <3>2 DEF AnswersInTurn
  <2>5. CASE ~(i < Len(Plan))
    <3>1. \A j \in DOMAIN Plan : Answered(j)'
      BY <1>6, <2>1, <2>2, <2>5
    <3> QED
      BY <1>1, <1>9a, <2>3, <2>5, <3>1 DEF AnswersInTurn
  <2> QED
    BY <2>4, <2>5
<1>14. TextsInTurn' /\ st.risk.judge = ""
  BY <1>1, <1>4, <1>9, <1>b1, SameTexts
<1>15. Grows
  <2>1. produced' = Append(produced, m)
    BY <1>a DEF Adds
  <2> QED
    BY <1>1, <1>3, <1>4, <1>9, <1>b1, <1>14, <2>1 DEF Grows, Later
<1> QED
  BY <1>7, <1>8, <1>10, <1>11, <1>12, <1>13, <1>14, <1>15 DEF GInv

(* A turn of the speaker whose turn it is, in a debate of the sides S.     *)
Sides(sides, S) == Range(sides) = S /\ S \subseteq Debaters \cup RiskAnalysts
SpokenTypes(d, S) ==
  d.history \in Seq(Utterances) /\ d.said \in [S -> Seq(Utterances)] /\ d.count \in Nat
TakesTurn(d, e, who) ==
  /\ e.history = Append(d.history, <<who, d.count>>) /\ e.count = d.count + 1
  /\ e.said = [d.said EXCEPT ![who] = Append(@, <<who, d.count>>)]
Keeps(d, e, S) ==
  /\ SpokenTypes(e, S) /\ e.history # << >>
  /\ \A w \in S : d.said[w] # << >> => e.said[w] # << >>

LEMMA HistoryAppend ==
    \A h \in Seq(Utterances), u \in Utterances : \A P \in SUBSET DOMAIN h :
      /\ ElementsAt(Append(h, u), P) = ElementsAt(h, P)
      /\ ElementsAt(Append(h, u), P \cup {Len(h) + 1}) = Append(ElementsAt(h, P), u)
BY ElementsAtAppend

LEMMA TurnSpoken ==
    ASSUME NEW sides, NEW S, NEW d, NEW e, NEW who \in S,
           Sides(sides, S), SpokenTypes(d, S), Spoken(d, sides), TakesTurn(d, e, who),
           who = sides[(d.count % Len(sides)) + 1]
    PROVE  Spoken(e, sides) /\ Keeps(d, e, S)
<1> DEFINE u == <<who, d.count>>
           L == Len(d.history)
           By(s, w) == {i \in DOMAIN s : s[i][1] = w}
<1>a. d.history \in Seq(Utterances)
  BY DEF SpokenTypes
<1>b. d.said \in [S -> Seq(Utterances)]
  BY DEF SpokenTypes
<1>1. u \in Utterances /\ u[1] = who /\ d.count \in Nat
  BY DEF Utterances, Sides, SpokenTypes
<1> HIDE DEF u
<1>c. e.history = Append(d.history, u) /\ e.count = d.count + 1
  BY DEF TakesTurn, u
<1>d. e.said = [d.said EXCEPT ![who] = Append(d.said[who], u)]
  BY DEF TakesTurn, u
<1>2. L = d.count /\ DOMAIN d.history = 1 .. L /\ L \in Nat
  BY <1>a, <1>1, LenProperties DEF Spoken
<1>3. /\ e.history \in Seq(Utterances) /\ Len(e.history) = L + 1 /\ DOMAIN e.history = 1 .. L + 1
      /\ e.history[L + 1] = u /\ \A i \in 1 .. L : e.history[i] = d.history[i]
  BY <1>1, <1>2, <1>a, <1>c, AppendProperties, LenProperties
<1>4. \A i \in 1 .. L : d.history[i] = <<sides[((i - 1) % Len(sides)) + 1], i - 1>>
  BY <1>2 DEF Spoken
<1> HIDE DEF L
<1>5. \A i \in 1 .. e.count : e.history[i] = <<sides[((i - 1) % Len(sides)) + 1], i - 1>>
  <2>1. \A i \in 1 .. e.count : i \in 1 .. L \/ i = L + 1
    BY <1>2, <1>c
  <2>2. (L + 1) - 1 = d.count
    BY <1>2, <1>1
  <2>3. e.history[L + 1] = <<sides[(((L + 1) - 1) % Len(sides)) + 1], (L + 1) - 1>>
    BY <1>3, <2>2 DEF u
  <2> QED
    BY <1>3, <1>4, <2>1, <2>3
<1>6. ASSUME NEW w \in S
      PROVE  By(e.history, w) = IF w = who THEN By(d.history, w) \cup {L + 1} ELSE By(d.history, w)
  <2>1. \A i : i \in 1 .. L + 1 <=> i \in 1 .. L \/ i = L + 1
    BY <1>2
  <2>2. \A i \in 1 .. L : i # L + 1
    BY <1>2
  <2>3. \A i : i \in By(e.history, w) <=> i \in By(d.history, w) \/ (i = L + 1 /\ w = who)
    BY <1>1, <1>2, <1>3, <2>1, <2>2
  <2> QED
    BY <2>3
<1>7. \A w \in S : By(d.history, w) \in SUBSET DOMAIN d.history
  OBVIOUS
<1>8. \A w \in S : d.said[w] = ElementsAt(d.history, By(d.history, w))
  BY DEF Spoken, Sides
<1>9. L + 1 = Len(d.history) + 1
  BY DEF L
<1> HIDE DEF By
<1>10. ASSUME NEW w \in S
       PROVE  e.said[w] = ElementsAt(e.history, By(e.history, w))
  <2>1. By(d.history, w) \in SUBSET DOMAIN d.history
    BY <1>7
  <2>2. /\ ElementsAt(Append(d.history, u), By(d.history, w)) = ElementsAt(d.history, By(d.history, w))
        /\ ElementsAt(Append(d.history, u), By(d.history, w) \cup {Len(d.history) + 1})
             = Append(ElementsAt(d.history, By(d.history, w)), u)
    BY <1>1, <1>a, <2>1, HistoryAppend
  <2>3. /\ ElementsAt(e.history, By(d.history, w)) = d.said[w]
        /\ ElementsAt(e.history, By(d.history, w) \cup {L + 1}) = Append(d.said[w], u)
    BY <1>8, <1>9, <1>c, <2>2
  <2>4. e.said[w] = IF w = who THEN Append(d.said[w], u) ELSE d.said[w]
    BY <1>b, <1>d
  <2> QED
    BY <1>6, <2>3, <2>4
<1>11. Spoken(e, sides)
  <2>1. Len(e.history) = e.count
    BY <1>2, <1>3, <1>c
  <2>2. \A w \in Range(sides) : e.said[w] = ElementsAt(e.history, By(e.history, w))
    BY <1>10 DEF Sides
  <2> QED
    BY <1>5, <2>1, <2>2 DEF Spoken, By
<1>12. e.said \in [S -> Seq(Utterances)]
  <2>1. Append(d.said[who], u) \in Seq(Utterances)
    BY <1>1, <1>b, AppendProperties
  <2> QED
    BY <1>b, <1>d, <2>1
<1>13. e.history # << >> /\ e.count \in Nat
  <2>1. Len(<< >>) = 0 /\ L + 1 # 0 /\ e.count \in Nat
    BY <1>1, <1>2, <1>c
  <2> QED
    BY <1>3, <2>1
<1>14. \A w \in S : d.said[w] # << >> => e.said[w] # << >>
  <2>1. Append(d.said[who], u) # << >>
    <3>1. d.said[who] \in Seq(Utterances)
      BY <1>b
    <3> QED
      BY <1>1, <3>1, AppendProperties
  <2>2. \A w \in S : e.said[w] = IF w = who THEN Append(d.said[w], u) ELSE d.said[w]
    BY <1>b, <1>d
  <2> QED
    BY <2>1, <2>2
<1> QED
  BY <1>3, <1>11, <1>12, <1>13, <1>14 DEF Keeps, SpokenTypes

\* What every node after the analysts leaves alone.
LEMMA TeamFrame ==
    ASSUME GInv, NEW n \in DebateNodes \cup PostDebate, n # End, Goes(n),
           next' \in DebateNodes \cup PostDebate,
           \A b \in AnalystKeys : AnsweredAt(b)' = AnsweredAt(b)
    PROVE  /\ Fresh' /\ OwnMessages' /\ AnswersInTurn' /\ next = n
           /\ steps' = steps + 1 /\ steps' \in 0 .. RecursionLimit /\ shape' = shape /\ Plan' = Plan
           /\ next \notin {Waiting, Failed, End} /\ next' \notin {Waiting, Failed}
           /\ next \notin PreDebate /\ next' \notin PreDebate /\ next' \notin AnalystNodes
           /\ why' = why /\ Plan # << >> /\ Len(Plan) \in Nat
<1>1. steps' = steps + 1 /\ shape' = shape /\ Plan' = Plan /\ why' = why /\ next = n
  BY DEF Goes, Plan
<1>2. steps' \in 0 .. RecursionLimit
  <2>1. steps \in 0 .. RecursionLimit /\ steps < RecursionLimit
    BY DEF GInv, GraphTypes, Goes, LimitOf
  <2> QED
    BY <1>1, <2>1, LimitAssumption
<1>3. /\ next \notin {Waiting, Failed, End} /\ next' \notin {Waiting, Failed}
      /\ next \notin PreDebate /\ next' \notin PreDebate /\ next' \notin AnalystNodes
      /\ next \notin AnalystNodes
  BY <1>1, NodeKinds DEF PreDebate
<1>4. Fresh'
  BY <1>1, <1>3 DEF Fresh, GInv
<1>5. OwnMessages'
  BY <1>3 DEF OwnMessages
<1>6. Plan \in Seq(AnalystKeys) /\ Plan # << >>
  BY <1>3 DEF GInv, GraphTypes, Shapes, Plan
<1>7. \A j \in DOMAIN Plan : AnsweredAt(Plan[j])' = AnsweredAt(Plan[j])
  BY <1>1, <1>6
<1>8. AnswersInTurn'
  <2>1. \A j \in DOMAIN Plan : Answered(j)
    BY <1>3 DEF GInv, AnswersInTurn
  <2>2. \A j \in DOMAIN Plan : Answered(j)'
    BY <1>7, <2>1 DEF Answered
  <2>3. \A j, l \in DOMAIN Plan : \A t \in AnsweredAt(Plan[j])', u \in AnsweredAt(Plan[l])' :
          (j = l => t = u) /\ (j < l => t < u)
    BY <1>7 DEF GInv, AnswersInTurn
  <2> QED
    BY <1>1, <1>3, <2>2, <2>3 DEF AnswersInTurn
<1>9. Len(Plan) \in Nat
  BY <1>6
<1> QED
  BY <1>1, <1>2, <1>3, <1>4, <1>5, <1>6, <1>8, <1>9

\* The nodes after the analysts, apart from each other.
LEMMA TeamNodes ==
    /\ \A n \in DebateNodes : n \in PreJudge /\ n \notin PostDebate /\ n \notin PreDebate
    /\ Judge("Research Manager") \in PreJudge /\ Judge("Research Manager") \notin DebateNodes
    /\ \A n \in PreJudge : n \in PreTrade /\ n # Judge("Trader")
    /\ Judge("Trader") \in PreTrade
    /\ \A n \in PreTrade : n \notin RiskNodes \cup {Judge("Portfolio Manager"), End}
    /\ \A n \in PreTrade \cup RiskNodes \cup {Judge("Portfolio Manager")} :
         n \in Nodes \ {End, Failed}
    /\ RiskNodes \subseteq PostDebate /\ End \in Nodes
    /\ \A n \in RiskNodes : n \notin {Judge("Portfolio Manager"), End}
    /\ Judge("Portfolio Manager") # End
    /\ Speaker("Bull") # Speaker("Bear")
<1>1. Speaker("Bull") # Speaker("Bear")
  BY DEF Speaker
<1>2. \A n \in DebateNodes : n \in PreJudge /\ n \notin PostDebate /\ n \notin PreDebate
  BY NodeKinds DEF PreJudge, PreDebate
<1>3. \A n \in RiskNodes : n[2] = "debate" /\ n[1] \in RiskAnalysts
  BY DEF RiskNodes, Speaker, RiskAnalysts
<1>4. /\ Judge("Research Manager")[2] = "judge" /\ Judge("Research Manager")[1] = "Research Manager"
      /\ Judge("Trader")[2] = "judge" /\ Judge("Trader")[1] = "Trader"
      /\ Judge("Portfolio Manager")[2] = "judge"
      /\ Judge("Portfolio Manager")[1] = "Portfolio Manager" /\ End[2] = ""
  BY DEF Judge, End
<1>5. \A n \in DebateNodes : n[2] = "debate" /\ n[1] \in {"Bull", "Bear"}
  BY DEF DebateNodes, Speaker
<1>6. Judge("Research Manager") \notin DebateNodes /\ Judge("Research Manager") \in PreJudge
      /\ Judge("Trader") \in PreTrade
  BY <1>4, <1>5 DEF PreJudge, PreTrade
<1>7. \A n \in PreDebate : n \notin PostDebate
  BY NodeKinds DEF PreDebate
<1>8. {Judge("Trader"), Judge("Research Manager"), Judge("Portfolio Manager"), End} \subseteq PostDebate
      /\ RiskNodes \subseteq PostDebate
  BY DEF PostDebate
<1>9. \A n \in PreJudge : n \in PreTrade /\ n # Judge("Trader")
  BY <1>2, <1>4, <1>7, <1>8 DEF PreJudge, PreTrade
<1>10. \A n \in RiskNodes : n \notin {Judge("Portfolio Manager"), Judge("Trader"), Judge("Research Manager"), End}
  BY <1>3, <1>4
<1>11. Judge("Portfolio Manager") # End /\ Judge("Trader") # End /\ Judge("Research Manager") # End
       /\ Judge("Portfolio Manager") # Judge("Trader")
       /\ Judge("Portfolio Manager") # Judge("Research Manager")
  BY <1>4
<1>12. \A n \in PreTrade : n \notin RiskNodes \cup {Judge("Portfolio Manager"), End}
  BY <1>2, <1>7, <1>8, <1>10, <1>11 DEF PreJudge, PreTrade
<1>13. \A n \in PostDebate : n # Failed /\ n \in Nodes
  BY NodeKinds DEF Nodes
<1>14. \A n \in PreDebate \cup DebateNodes : n # Failed /\ n \in Nodes
  BY NodeKinds DEF Nodes, PreDebate, PreJudge
<1>15. \A n \in PreTrade \cup RiskNodes \cup {Judge("Portfolio Manager")} : n \in Nodes /\ n # Failed
  BY <1>8, <1>13, <1>14 DEF PreTrade, PreJudge
<1>16. \A n \in PreTrade \cup RiskNodes \cup {Judge("Portfolio Manager")} : n # End
  BY <1>10, <1>11, <1>12
<1> QED
  BY <1>1, <1>2, <1>6, <1>8, <1>9, <1>10, <1>11, <1>12, <1>13, <1>15, <1>16

\* The reports after a node that writes none.
LEMMA SameReports ==
    ASSUME GInv, Plan' = Plan, \A b \in AnalystKeys : AnsweredAt(b)' = AnsweredAt(b),
           st'.reports = st.reports
    PROVE  \A b \in AnalystKeys : st'.reports[b] # "" => \E j \in DOMAIN Plan' : Plan'[j] = b /\ Answered(j)'
<1>1. Plan \in Seq(AnalystKeys)
  BY DEF GInv, GraphTypes, Shapes, Plan
<1>2. \A j \in DOMAIN Plan : Plan[j] \in AnalystKeys
  BY <1>1
<1>3. \A j \in DOMAIN Plan : Answered(j)' <=> Answered(j)
  BY <1>2 DEF Answered
<1>4. \A b \in AnalystKeys : st.reports[b] # "" => \E j \in DOMAIN Plan : Plan[j] = b /\ Answered(j)
  BY DEF GInv, TextsInTurn
<1> QED
  BY <1>3, <1>4

LEMMA SidesOf ==
    /\ Sides(<<"Bull", "Bear">>, Debaters)
    /\ Sides(<<"Aggressive", "Conservative", "Neutral">>, RiskAnalysts)
<1>1. Range(<<"Bull", "Bear">>) = Debaters
  BY DEF Range, Debaters
<1>2. Range(<<"Aggressive", "Conservative", "Neutral">>) = RiskAnalysts
  BY DEF Range, RiskAnalysts
<1> QED
  BY <1>1, <1>2 DEF Sides

LEMMA DebateStep ==
    ASSUME GInv, NEW who \in Debaters, Debate(who)
    PROVE  GInv' /\ Grows
<1> DEFINE d == st.debate
           e == BullOrBear(d, who)
           sides == <<"Bull", "Bear">>
<1>a. Goes(Speaker(who)) /\ Quiet /\ toolRounds' = toolRounds /\ produced' = produced
  BY DEF Debate, Quiet
<1>b. st' = [st EXCEPT !.debate = e] /\ next' = ShouldContinueDebate(e)
  BY DEF Debate
<1>1. d \in Debates /\ st \in States
  BY GraphFacts DEF States
<1>2. SpokenTypes(d, Debaters)
  BY <1>1 DEF SpokenTypes, Debates
<1>3. TakesTurn(d, e, who) /\ e \in Debates /\ e.current = who /\ e.judge = d.judge
  <2> DEFINE h == Append(d.history, <<who, d.count>>)
             s == [d.said EXCEPT ![who] = Append(d.said[who], <<who, d.count>>)]
             c == d.count + 1
  <2>1. h \in Seq(Utterances) /\ s \in [Debaters -> Seq(Utterances)] /\ c \in Nat
    <3>1. <<who, d.count>> \in Utterances
      BY <1>1 DEF Debates, Utterances
    <3>2. d.history \in Seq(Utterances) /\ d.said \in [Debaters -> Seq(Utterances)] /\ d.count \in Nat
      BY <1>1 DEF Debates
    <3> HIDE DEF d
    <3> QED
      BY <3>1, <3>2, AppendProperties
  <2>2. e = [d EXCEPT !.history = h, !.said = s, !.count = c, !.current = who]
    BY <1>1 DEF BullOrBear, Turn, Debates
  <2>3. h = Append(d.history, <<who, d.count>>) /\ c = d.count + 1
        /\ s = [d.said EXCEPT ![who] = Append(@, <<who, d.count>>)]
    OBVIOUS
  <2> HIDE DEF h, s, c, e, d
  <2>4. e.history = h /\ e.said = s /\ e.count = c /\ e.current = who /\ e.judge = d.judge
        /\ e \in Debates
    BY <1>1, <2>1, <2>2 DEF Debates
  <2> QED
    BY <2>3, <2>4 DEF TakesTurn
<1> HIDE DEF e
<1>4. next = Speaker(who) /\ next \in DebateNodes
  BY <1>a DEF Goes, DebateNodes, Debaters
<1>5. /\ d.count \in Nat /\ shape.debate \in Int
      /\ d.count % 2 = (IF who = "Bull" THEN 0 ELSE 1)
      /\ (who = "Bull" /\ d.count = 0) \/ d.count < 2 * shape.debate
  <2>1. d.count \in Nat /\ shape.debate \in Int
    BY <1>1 DEF Debates, GInv, GraphTypes, Shapes
  <2> QED
    BY <1>4, <2>1, TeamNodes DEF Debaters, GInv, DebateHeld
<1>6. Spoken(e, sides) /\ Keeps(d, e, Debaters)
  <2>1. Spoken(d, sides)
    BY DEF GInv, DebateHeld
  <2>2. who = sides[(d.count % Len(sides)) + 1]
    BY <1>5 DEF Debaters
  <2> HIDE DEF sides
  <2> QED
    BY <1>2, <1>3, <2>1, <2>2, SidesOf, TurnSpoken DEF sides
<1>7. /\ st'.messages = st.messages /\ st'.reports = st.reports /\ st'.debate = e
      /\ st'.risk = st.risk /\ st'.plan = st.plan /\ st'.proposal = st.proposal
      /\ st'.decision = st.decision
  BY <1>1, <1>b DEF States
<1>8. st' \in States
  BY <1>1, <1>3, <1>b DEF States
<1>9. e.count = d.count + 1 /\ e.current = who
  BY <1>3 DEF TakesTurn
<1>10. /\ next' \in DebateNodes \cup {Judge("Research Manager")}
       /\ next' = Speaker("Bear") => who = "Bull" /\ e.count < 2 * shape.debate
       /\ next' = Speaker("Bull") => who = "Bear" /\ e.count < 2 * shape.debate
       /\ next' = Judge("Research Manager") => e.count >= 2 * shape.debate
  <2>1. next' = IF e.count >= 2 * shape.debate THEN Judge("Research Manager")
                ELSE IF who = "Bull" THEN Speaker("Bear") ELSE Speaker("Bull")
    BY <1>b, <1>9 DEF ShouldContinueDebate
  <2>2. Judge("Research Manager") \notin {Speaker("Bull"), Speaker("Bear")}
    BY TeamNodes DEF DebateNodes
  <2>3. e.count \in Nat /\ 2 * shape.debate \in Int
    BY <1>5, <1>9
  <2>4. Speaker("Bull") # Speaker("Bear") /\ who \in {"Bull", "Bear"}
    BY TeamNodes DEF Debaters
  <2>5. ~(e.count >= 2 * shape.debate) => e.count < 2 * shape.debate
    BY <2>3
  <2> QED
    BY <2>1, <2>2, <2>4, <2>5 DEF DebateNodes
<1>11. /\ next' \in PreJudge /\ next' \in PreTrade /\ next' # Judge("Trader")
       /\ next' \notin RiskNodes \cup {Judge("Portfolio Manager"), End} /\ next' \in Nodes
       /\ next' \notin PreDebate
       /\ next \in PreJudge /\ next \in PreTrade /\ next \in Nodes \ {End, Failed}
  BY <1>4, <1>10, TeamNodes, NodeKinds DEF PreDebate, PostDebate
<1>12. Numbered' /\ produced' \in Seq(Messages) /\ \A b : AnsweredAt(b)' = AnsweredAt(b)
  BY <1>a, <1>7, Quietly DEF Goes
<1>13. /\ Fresh' /\ OwnMessages' /\ AnswersInTurn'
       /\ steps' = steps + 1 /\ steps' \in 0 .. RecursionLimit /\ shape' = shape /\ Plan' = Plan
       /\ next \notin {Waiting, Failed, End} /\ next' \notin {Waiting, Failed}
       /\ next' \notin AnalystNodes /\ why' = why /\ Plan # << >> /\ Len(Plan) \in Nat
  <2>1. next' \in DebateNodes \cup PostDebate
    BY <1>10 DEF PostDebate
  <2>2. Speaker(who) \in DebateNodes \cup PostDebate /\ Speaker(who) # End
    BY <1>4, <1>11
  <2> QED
    BY <1>a, <1>12, <2>1, <2>2, TeamFrame
<1>14. GraphTypes'
  BY <1>8, <1>11, <1>12, <1>13, <1>a DEF GInv, GraphTypes
<1>15. StepsSpent'
  <2>1. steps = 2 * Len(Plan) + 2 * toolRounds + d.count
    BY <1>4 DEF GInv, StepsSpent
  <2>2. steps' = 2 * Len(Plan') + 2 * toolRounds' + st'.debate.count
    BY <1>5, <1>7, <1>9, <1>13, <1>a, <2>1, GraphFacts
  <2> QED
    BY <1>11, <1>13, <2>2 DEF StepsSpent
<1>16. DebateHeld'
  <2>1. st'.debate = e /\ shape' = shape
    BY <1>7, <1>13
  <2>2. Spoken(st'.debate, sides)
    BY <1>6, <2>1
  <2>a. d.count % 2 = 0 => e.count % 2 = 1
    BY <1>5, <1>9
  <2>b. d.count % 2 = 1 => e.count % 2 = 0
    BY <1>5, <1>9
  <2>c. "Bear" # "Bull"
    OBVIOUS
  <2>3. next' = Speaker("Bull") => e.count % 2 = 0
    BY <1>5, <1>10, <2>b, <2>c
  <2>4. next' = Speaker("Bear") => e.count % 2 = 1
    BY <1>5, <1>10, <2>a
  <2>5. next' \in PostDebate => next' = Judge("Research Manager")
    BY <1>10, TeamNodes
  <2>6. next' = Judge("Research Manager") => e.count = TurnsOf(2, shape.debate)
    <3>1. d.count = 0 \/ d.count < 2 * shape.debate
      BY <1>5
    <3>2. e.count >= 2 * shape.debate => e.count = TurnsOf(2, shape.debate)
      <4> DEFINE c == d.count
                 r == shape.debate
      <4>1. c \in Nat /\ r \in Int /\ (c = 0 \/ c < 2 * r) /\ e.count = c + 1
        BY <1>5, <1>9, <3>1
      <4> HIDE DEF c, r
      <4>2. c + 1 >= 2 * r => c + 1 = IF r <= 0 THEN 1 ELSE 2 * r
        BY <4>1
      <4> QED
        BY <4>1, <4>2 DEF TurnsOf, r
    <3> QED
      BY <1>10, <3>2
  <2> QED
    BY <1>10, <1>11, <2>1, <2>2, <2>3, <2>4, <2>5, <2>6 DEF DebateHeld, Spoken
<1>17. RiskHeld'
  <2>1. Spoken(st.risk, <<"Aggressive", "Conservative", "Neutral">>) /\ st.risk.count = 0
    BY <1>11 DEF GInv, RiskHeld
  <2> QED
    <3>1. Spoken(st'.risk, <<"Aggressive", "Conservative", "Neutral">>) /\ st'.risk.count = 0
      BY <1>7, <2>1
    <3> QED
      BY <1>11, <3>1 DEF RiskHeld, RiskNodes
<1>18. TextsInTurn'
  <2>1. d.judge = "" /\ st.proposal = "" /\ st.risk.judge = ""
        /\ st.plan = d.judge /\ st.decision = st.risk.judge
    BY <1>11 DEF GInv, TextsInTurn
  <2>2. e.judge = d.judge
    BY <1>3
  <2>3. \A b \in AnalystKeys : st'.reports[b] # "" => \E j \in DOMAIN Plan' : Plan'[j] = b /\ Answered(j)'
    BY <1>7, <1>12, <1>13, SameReports
  <2> QED
    BY <1>7, <2>1, <2>2, <2>3 DEF TextsInTurn
<1>19. Grows
  <2>1. st.risk.judge = "" /\ e.judge = d.judge
    BY <1>3, <1>11 DEF GInv, TextsInTurn
  <2>2. e.history # << >> /\ \A w \in Debaters : d.said[w] # << >> => e.said[w] # << >>
    BY <1>6 DEF Keeps
  <2> QED
    BY <1>7, <1>12, <1>13, <1>a, <2>1, <2>2 DEF Grows, Later
<1> QED
  BY <1>12, <1>13, <1>14, <1>15, <1>16, <1>17, <1>18, <1>19 DEF GInv

LEMMA OneTurnMore ==
  ASSUME NEW p \in Int, NEW t \in Int, NEW b \in Int, NEW r \in Int, NEW s
  PROVE  s = 2 * p + 2 * t + b + 2 + r => s + 1 = 2 * p + 2 * t + b + 2 + (r + 1)
  OBVIOUS

LEMMA RiskDebateStep ==
    ASSUME GInv, NEW who \in RiskAnalysts, RiskDebate(who)
    PROVE  GInv' /\ Grows
<1> DEFINE d == st.risk
           e == RiskTurn(d, who)
           sides == <<"Aggressive", "Conservative", "Neutral">>
<1>a. Goes(Speaker(who)) /\ Quiet /\ toolRounds' = toolRounds /\ produced' = produced
  BY DEF RiskDebate, Quiet
<1>b. st' = [st EXCEPT !.risk = e] /\ next' = ShouldContinueRisk(e)
  BY DEF RiskDebate
<1>1. d \in Risks /\ st \in States
  BY GraphFacts DEF States
<1>2. SpokenTypes(d, RiskAnalysts)
  BY <1>1 DEF SpokenTypes, Risks
<1>3. TakesTurn(d, e, who) /\ e \in Risks /\ e.latest = who /\ e.judge = d.judge
  <2> DEFINE h == Append(d.history, <<who, d.count>>)
             s == [d.said EXCEPT ![who] = Append(d.said[who], <<who, d.count>>)]
             r == [d.response EXCEPT ![who] = <<who, d.count>>]
             c == d.count + 1
  <2>1. /\ h \in Seq(Utterances) /\ s \in [RiskAnalysts -> Seq(Utterances)] /\ c \in Nat
        /\ r \in [RiskAnalysts -> Utterances \cup {<< >>}]
    <3>1. <<who, d.count>> \in Utterances
      BY <1>1 DEF Risks, Utterances
    <3>2. /\ d.history \in Seq(Utterances) /\ d.said \in [RiskAnalysts -> Seq(Utterances)]
          /\ d.count \in Nat /\ d.response \in [RiskAnalysts -> Utterances \cup {<< >>}]
      BY <1>1 DEF Risks
    <3> HIDE DEF d
    <3> QED
      BY <3>1, <3>2, AppendProperties
  <2>2. e = [d EXCEPT !.history = h, !.said = s, !.count = c, !.latest = who, !.response = r]
    BY <1>1 DEF RiskTurn, Turn, Risks
  <2>3. h = Append(d.history, <<who, d.count>>) /\ c = d.count + 1
        /\ s = [d.said EXCEPT ![who] = Append(@, <<who, d.count>>)]
    OBVIOUS
  <2> HIDE DEF h, s, c, r, e, d
  <2>4. e.history = h /\ e.said = s /\ e.count = c /\ e.latest = who /\ e.judge = d.judge
        /\ e \in Risks
    BY <1>1, <2>1, <2>2 DEF Risks
  <2> QED
    BY <2>3, <2>4 DEF TakesTurn
<1> HIDE DEF e
<1>4. next = Speaker(who) /\ next \in RiskNodes
  BY <1>a DEF Goes, RiskNodes, RiskAnalysts
<1>5. /\ d.count \in Nat /\ shape.risk \in Int
      /\ d.count = 0 \/ d.count < 3 * shape.risk
      /\ who = "Aggressive" => d.count % 3 = 0
      /\ who = "Conservative" => d.count % 3 = 1
      /\ who = "Neutral" => d.count % 3 = 2
  <2>1. d.count \in Nat /\ shape.risk \in Int
    BY <1>1 DEF Risks, GInv, GraphTypes, Shapes
  <2>2. RiskHeld /\ who \in {"Aggressive", "Conservative", "Neutral"}
    BY DEF GInv, RiskAnalysts
  <2> QED
    BY <1>4, <2>1, <2>2 DEF RiskHeld
<1>6. Spoken(e, sides) /\ Keeps(d, e, RiskAnalysts)
  <2>1. Spoken(d, sides)
    BY DEF GInv, RiskHeld
  <2>2. who = sides[(d.count % Len(sides)) + 1]
    <3>1. who \in {"Aggressive", "Conservative", "Neutral"} /\ Len(sides) = 3
          /\ sides[0 + 1] = "Aggressive" /\ sides[1 + 1] = "Conservative" /\ sides[2 + 1] = "Neutral"
      BY DEF RiskAnalysts
    <3> HIDE DEF sides
    <3> QED
      BY <1>5, <3>1
  <2> HIDE DEF sides
  <2> QED
    BY <1>2, <1>3, <2>1, <2>2, SidesOf, TurnSpoken DEF sides
<1>7. /\ st'.messages = st.messages /\ st'.reports = st.reports /\ st'.debate = st.debate
      /\ st'.risk = e /\ st'.plan = st.plan /\ st'.proposal = st.proposal
      /\ st'.decision = st.decision
  BY <1>1, <1>b DEF States
<1>8. st' \in States
  BY <1>1, <1>3, <1>b DEF States
<1>9. e.count = d.count + 1 /\ e.latest = who
  BY <1>3 DEF TakesTurn
<1>10. /\ next' \in RiskNodes \cup {Judge("Portfolio Manager")}
       /\ next' = Speaker("Aggressive") => who = "Neutral" /\ e.count < 3 * shape.risk
       /\ next' = Speaker("Conservative") => who = "Aggressive" /\ e.count < 3 * shape.risk
       /\ next' = Speaker("Neutral") => who = "Conservative" /\ e.count < 3 * shape.risk
       /\ next' = Judge("Portfolio Manager") => e.count >= 3 * shape.risk
  <2>1. next' = IF e.count >= 3 * shape.risk THEN Judge("Portfolio Manager")
                ELSE CASE who = "Aggressive" -> Speaker("Conservative")
                       [] who = "Conservative" -> Speaker("Neutral")
                       [] OTHER -> Speaker("Aggressive")
    BY <1>b, <1>9 DEF ShouldContinueRisk
  <2>2. Judge("Portfolio Manager") \notin
          {Speaker("Aggressive"), Speaker("Conservative"), Speaker("Neutral")}
    BY TeamNodes DEF RiskNodes
  <2>3. e.count \in Nat /\ 3 * shape.risk \in Int
    BY <1>5, <1>9
  <2>4. /\ Speaker("Aggressive") # Speaker("Conservative")
        /\ Speaker("Conservative") # Speaker("Neutral") /\ Speaker("Neutral") # Speaker("Aggressive")
    BY DEF Speaker
  <2>5. ~(e.count >= 3 * shape.risk) => e.count < 3 * shape.risk
    BY <2>3
  <2>6. who \in {"Aggressive", "Conservative", "Neutral"}
    BY DEF RiskAnalysts
  <2>7. CASE e.count >= 3 * shape.risk
    BY <2>1, <2>2, <2>7
  <2>8. CASE ~(e.count >= 3 * shape.risk)
    <3>1. next' = CASE who = "Aggressive" -> Speaker("Conservative")
                    [] who = "Conservative" -> Speaker("Neutral")
                    [] OTHER -> Speaker("Aggressive")
      BY <2>1, <2>8
    <3> QED
      BY <2>2, <2>4, <2>5, <2>6, <2>8, <3>1 DEF RiskNodes
  <2> QED
    BY <2>7, <2>8
<1>11. /\ next' \in PostDebate /\ next' \notin PreTrade /\ next' \notin PreJudge
       /\ next' \notin {Judge("Trader"), Judge("Research Manager"), End}
       /\ next' \notin DebateNodes /\ next' \in Nodes \ {End, Failed}
       /\ next' \notin PreDebate /\ next \notin {Judge("Trader")}
       /\ next \in PostDebate /\ next \in Nodes \ {End, Failed}
  <2>1. next' \in RiskNodes \cup {Judge("Portfolio Manager")}
    BY <1>10
  <2>2. next' \notin PreTrade /\ next' # End /\ next' \in Nodes \ {End, Failed}
    BY <2>1, TeamNodes
  <2>3. next' \notin PreJudge /\ next' \notin {Judge("Trader"), Judge("Research Manager")}
        /\ next' \notin DebateNodes /\ next' \notin PreDebate
    BY <2>2, TeamNodes DEF PreJudge
  <2>4. next' \in PostDebate
    BY <2>1 DEF PostDebate
  <2>5. next \in PostDebate /\ next \in Nodes \ {End, Failed} /\ next # Judge("Trader")
    BY <1>4, TeamNodes
  <2> QED
    BY <2>2, <2>3, <2>4, <2>5
<1>12. Numbered' /\ produced' \in Seq(Messages) /\ \A b : AnsweredAt(b)' = AnsweredAt(b)
  BY <1>a, <1>7, Quietly DEF Goes
<1>13. /\ Fresh' /\ OwnMessages' /\ AnswersInTurn'
       /\ steps' = steps + 1 /\ steps' \in 0 .. RecursionLimit /\ shape' = shape /\ Plan' = Plan
       /\ next \notin {Waiting, Failed, End} /\ next' \notin {Waiting, Failed}
       /\ next' \notin AnalystNodes /\ why' = why /\ Plan # << >> /\ Len(Plan) \in Nat
  <2>1. next' \in DebateNodes \cup PostDebate
    BY <1>11
  <2>2. Speaker(who) \in DebateNodes \cup PostDebate /\ Speaker(who) # End
    BY <1>4, <1>11
  <2> QED
    BY <1>a, <1>12, <2>1, <2>2, TeamFrame
<1>14. GraphTypes'
  BY <1>8, <1>11, <1>12, <1>13, <1>a DEF GInv, GraphTypes
<1>15. StepsSpent'
  <2>1. steps = 2 * Len(Plan) + 2 * toolRounds + st.debate.count + 2 + d.count
    BY <1>4 DEF GInv, StepsSpent
  <2>2. st.debate.count \in Nat
    BY <1>1 DEF States, Debates
  <2>3. steps' = 2 * Len(Plan') + 2 * toolRounds' + st'.debate.count + 2 + st'.risk.count
    <3>1. st'.debate.count = st.debate.count /\ st'.risk.count = d.count + 1
      BY <1>7, <1>9
    <3>2. Plan' = Plan /\ Len(Plan) \in Nat /\ toolRounds' = toolRounds /\ toolRounds \in Nat
          /\ d.count \in Nat /\ steps' = steps + 1
      BY <1>5, <1>13, <1>a, GraphFacts
    <3> DEFINE turns == st.debate.count
    <3>3. steps = 2 * Len(Plan) + 2 * toolRounds + turns + 2 + d.count
          /\ turns \in Int /\ d.count \in Int /\ Len(Plan) \in Int /\ toolRounds \in Int
      BY <2>1, <2>2, <3>2
    <3> HIDE DEF d, turns
    <3>4. steps + 1 = 2 * Len(Plan) + 2 * toolRounds + turns + 2 + (d.count + 1)
      BY <3>3, OneTurnMore
    <3>5. st'.debate.count = turns
      BY <3>1 DEF turns
    <3> QED
      BY <3>1, <3>2, <3>4, <3>5
  <2> QED
    BY <1>11, <1>13, <2>3 DEF StepsSpent
<1>16. RiskHeld'
  <2>1. st'.risk = e /\ shape' = shape
    BY <1>7, <1>13
  <2>2. Spoken(st'.risk, sides)
    BY <1>6, <2>1
  <2>a. /\ d.count % 3 = 0 => e.count % 3 = 1
        /\ d.count % 3 = 1 => e.count % 3 = 2
        /\ d.count % 3 = 2 => e.count % 3 = 0
    <3> DEFINE c == d.count
    <3>1. c \in Nat /\ e.count = c + 1
      BY <1>5, <1>9
    <3> HIDE DEF c
    <3>2. /\ c % 3 = 0 => (c + 1) % 3 = 1
          /\ c % 3 = 1 => (c + 1) % 3 = 2
          /\ c % 3 = 2 => (c + 1) % 3 = 0
      BY <3>1
    <3> QED
      BY <3>1, <3>2 DEF c
  <2>3. /\ next' = Speaker("Aggressive") => e.count % 3 = 0
        /\ next' = Speaker("Conservative") => e.count % 3 = 1
        /\ next' = Speaker("Neutral") => e.count % 3 = 2
    BY <1>5, <1>10, <2>a
  <2>4. next' = Judge("Portfolio Manager") => e.count = TurnsOf(3, shape.risk)
    <3>2. e.count >= 3 * shape.risk => e.count = TurnsOf(3, shape.risk)
      <4> DEFINE c == d.count
                 r == shape.risk
      <4>1. c \in Nat /\ r \in Int /\ (c = 0 \/ c < 3 * r) /\ e.count = c + 1
        BY <1>5, <1>9
      <4> HIDE DEF c, r
      <4>2. c + 1 >= 3 * r => c + 1 = IF r <= 0 THEN 1 ELSE 3 * r
        BY <4>1
      <4> QED
        BY <4>1, <4>2 DEF TurnsOf, r
    <3> QED
      BY <1>10, <3>2
  <2> QED
    BY <1>10, <1>11, <2>1, <2>2, <2>3, <2>4 DEF RiskHeld, Spoken
<1>17. DebateHeld'
  <2>1. Spoken(st.debate, <<"Bull", "Bear">>) /\ st.debate.count = TurnsOf(2, shape.debate)
    BY <1>11 DEF GInv, DebateHeld
  <2>2. Spoken(st'.debate, <<"Bull", "Bear">>) /\ st'.debate.count = TurnsOf(2, shape'.debate)
    BY <1>7, <1>13, <2>1
  <2> QED
    BY <1>11, <2>2 DEF DebateHeld, DebateNodes
<1>18. TextsInTurn'
  <2>1. st.risk.judge = "" /\ st.plan = st.debate.judge /\ st.decision = st.risk.judge
    BY <1>11 DEF GInv, TextsInTurn
  <2>2. e.judge = d.judge
    BY <1>3
  <2>3. \A b \in AnalystKeys : st'.reports[b] # "" => \E j \in DOMAIN Plan' : Plan'[j] = b /\ Answered(j)'
    BY <1>7, <1>12, <1>13, SameReports
  <2> QED
    BY <1>7, <1>11, <2>1, <2>2, <2>3 DEF TextsInTurn
<1>19. Grows
  <2>1. st.risk.judge = "" /\ e.judge = d.judge
    BY <1>3, <1>11 DEF GInv, TextsInTurn
  <2>2. \A w \in RiskAnalysts : d.said[w] # << >> => e.said[w] # << >>
    BY <1>6 DEF Keeps
  <2> QED
    BY <1>7, <1>12, <1>13, <1>a, <2>1, <2>2 DEF Grows, Later
<1> QED
  BY <1>12, <1>13, <1>14, <1>15, <1>16, <1>17, <1>18, <1>19 DEF GInv

LEMMA ResearchManagerStep ==
    ASSUME GInv, ResearchManager
    PROVE  GInv' /\ Grows
<1> DEFINE n == Judge("Research Manager")
           d == st.debate
<1>1. PICK text \in Texts :
        st' = [st EXCEPT !.debate.judge = text, !.debate.current = text, !.plan = text]
  BY DEF ResearchManager, StructuredOrFreetext
<1>a. Goes(n) /\ Quiet /\ toolRounds' = toolRounds /\ produced' = produced
      /\ next' = Judge("Trader")
  BY DEF ResearchManager, Quiet
<1>2. st \in States /\ d \in Debates
  BY GraphFacts DEF States
<1> DEFINE e == [d EXCEPT !.judge = text, !.current = text]
<1>3. e \in Debates /\ e.history = d.history /\ e.said = d.said /\ e.count = d.count
      /\ e.judge = text
  BY <1>2 DEF Debates
<1>b. st' = [st EXCEPT !.debate = e, !.plan = text]
  BY <1>1, <1>2 DEF States, Debates
<1> HIDE DEF e
<1>4. /\ st'.messages = st.messages /\ st'.reports = st.reports /\ st'.debate = e
      /\ st'.risk = st.risk /\ st'.plan = text /\ st'.proposal = st.proposal
      /\ st'.decision = st.decision
  BY <1>2, <1>b DEF States
<1>5. st' \in States
  BY <1>2, <1>3, <1>b DEF States
<1>6. next = n /\ n \in PreJudge /\ n \in PreTrade /\ n \in PostDebate /\ n \in Nodes \ {End, Failed}
  BY <1>a, TeamNodes DEF Goes, PostDebate
<1>7. /\ next' \in PreTrade /\ next' \notin PreJudge /\ next' \in PostDebate
      /\ next' \notin DebateNodes \cup {Judge("Research Manager")} /\ next' \in Nodes \ {End, Failed}
      /\ next' \notin RiskNodes \cup {Judge("Portfolio Manager"), End} /\ next' \notin PreDebate
  BY <1>a, TeamNodes DEF PostDebate, PreJudge
<1>8. Numbered' /\ produced' \in Seq(Messages) /\ \A b : AnsweredAt(b)' = AnsweredAt(b)
  BY <1>a, <1>4, Quietly DEF Goes
<1>9. /\ Fresh' /\ OwnMessages' /\ AnswersInTurn'
      /\ steps' = steps + 1 /\ steps' \in 0 .. RecursionLimit /\ shape' = shape /\ Plan' = Plan
      /\ next \notin {Waiting, Failed, End} /\ next' \notin {Waiting, Failed}
      /\ next' \notin AnalystNodes /\ why' = why /\ Plan # << >> /\ Len(Plan) \in Nat
  <2>1. next' \in DebateNodes \cup PostDebate /\ n \in DebateNodes \cup PostDebate /\ n # End
    BY <1>6, <1>7
  <2> QED
    BY <1>a, <1>8, <2>1, TeamFrame
<1>10. GraphTypes'
  BY <1>5, <1>7, <1>8, <1>9, <1>a DEF GInv, GraphTypes
<1>11. StepsSpent'
  <2>1. steps = 2 * Len(Plan) + 2 * toolRounds + d.count
    BY <1>6 DEF GInv, StepsSpent
  <2>2. d.count \in Nat
    BY <1>2 DEF Debates
  <2>3. steps' = 2 * Len(Plan') + 2 * toolRounds' + st'.debate.count + 1
    <3>1. st'.debate.count = d.count
      BY <1>3, <1>4
    <3>2. Plan' = Plan /\ Len(Plan) \in Nat /\ toolRounds' = toolRounds /\ toolRounds \in Nat
          /\ steps' = steps + 1
      BY <1>9, <1>a, GraphFacts
    <3> HIDE DEF d
    <3> QED
      BY <2>1, <2>2, <3>1, <3>2
  <2> QED
    BY <1>7, <1>9, <2>3 DEF StepsSpent
<1>12. DebateHeld'
  <2>1. Spoken(d, <<"Bull", "Bear">>) /\ d.count = TurnsOf(2, shape.debate)
    BY <1>6 DEF GInv, DebateHeld
  <2>2. Spoken(e, <<"Bull", "Bear">>)
    BY <1>3, <2>1 DEF Spoken
  <2>3. Spoken(st'.debate, <<"Bull", "Bear">>) /\ st'.debate.count = TurnsOf(2, shape'.debate)
    BY <1>3, <1>4, <1>9, <2>1, <2>2
  <2> QED
    BY <1>7, <2>3 DEF DebateHeld, DebateNodes
<1>13. RiskHeld'
  <2>1. Spoken(st.risk, <<"Aggressive", "Conservative", "Neutral">>) /\ st.risk.count = 0
    BY <1>6 DEF GInv, RiskHeld
  <2>2. Spoken(st'.risk, <<"Aggressive", "Conservative", "Neutral">>) /\ st'.risk.count = 0
    BY <1>4, <2>1
  <2> QED
    BY <1>7, <2>2 DEF RiskHeld, RiskNodes
<1>14. st.proposal = "" /\ st.risk.judge = "" /\ d.judge = "" /\ st.decision = st.risk.judge
  BY <1>6 DEF GInv, TextsInTurn
<1>15. TextsInTurn'
  <2>1. \A b \in AnalystKeys : st'.reports[b] # "" => \E j \in DOMAIN Plan' : Plan'[j] = b /\ Answered(j)'
    BY <1>4, <1>8, <1>9, SameReports
  <2> QED
    BY <1>3, <1>4, <1>7, <1>14, <2>1 DEF TextsInTurn
<1>16. Grows
  BY <1>3, <1>4, <1>8, <1>9, <1>14, <1>a DEF Grows, Later
<1> QED
  BY <1>8, <1>9, <1>10, <1>11, <1>12, <1>13, <1>15, <1>16 DEF GInv

LEMMA TraderStep ==
    ASSUME GInv, Trader
    PROVE  GInv' /\ Grows
<1> DEFINE n == Judge("Trader")
           d == st.debate
<1>1. PICK text \in Texts :
        LET m == Message("answer", "Trader", text) IN
        st' = [st EXCEPT !.messages = Append(@, m), !.proposal = text] /\ Adds(m)
  BY DEF Trader, StructuredOrFreetext
<1> DEFINE m == Message("answer", "Trader", text)
<1>a. Goes(n) /\ Adds(m) /\ toolRounds' = toolRounds /\ next' = Speaker("Aggressive")
  BY <1>1 DEF Trader
<1>b. st' = [st EXCEPT !.messages = Append(st.messages, m), !.proposal = text]
  BY <1>1
<1>2. st \in States
  BY GraphFacts
<1>3. m \in Messages /\ m.id = steps + 1 /\ m.by = "Trader"
  BY MessageType
<1> HIDE DEF m
<1>4. /\ st'.messages = Append(st.messages, m) /\ st'.reports = st.reports /\ st'.debate = d
      /\ st'.risk = st.risk /\ st'.plan = st.plan /\ st'.proposal = text
      /\ st'.decision = st.decision
  BY <1>2, <1>b DEF States
<1>5. st' \in States
  <2>1. Append(st.messages, m) \in Seq(Messages)
    BY <1>2, <1>3, AppendProperties DEF States
  <2> QED
    BY <1>2, <1>b, <2>1 DEF States
<1>6. next = n /\ n \in PreTrade /\ n \in PostDebate /\ n \in Nodes \ {End, Failed}
  BY <1>a, TeamNodes DEF Goes, PostDebate
<1>7. /\ next' \notin PreTrade /\ next' \notin PreJudge /\ next' \in PostDebate
      /\ next' \notin DebateNodes \cup {Judge("Research Manager"), Judge("Trader")}
      /\ next' \in Nodes \ {End, Failed}
      /\ next' \in RiskNodes /\ next' \notin {Judge("Portfolio Manager"), End}
      /\ next' \notin PreDebate
  <2>1. next' \in RiskNodes
    BY <1>a DEF RiskNodes
  <2>2. next' \notin PreTrade
    BY <2>1, TeamNodes
  <2> QED
    BY <2>1, <2>2, TeamNodes DEF PreTrade, PreJudge
<1>8. /\ Numbered' /\ produced' \in Seq(Messages)
      /\ \A b \in AnalystKeys : AnsweredAt(b)' = AnsweredAt(b)
  <2>1. steps' = steps + 1
    BY <1>a DEF Goes
  <2>2. \A b \in AnalystKeys : m.by # b
    BY <1>3, NodeKinds
  <2> QED
    BY <1>3, <1>4, <1>a, <2>1, <2>2, Growing
<1>9. /\ Fresh' /\ OwnMessages' /\ AnswersInTurn'
      /\ steps' = steps + 1 /\ steps' \in 0 .. RecursionLimit /\ shape' = shape /\ Plan' = Plan
      /\ next \notin {Waiting, Failed, End} /\ next' \notin {Waiting, Failed}
      /\ next' \notin AnalystNodes /\ why' = why /\ Plan # << >> /\ Len(Plan) \in Nat
  <2>1. next' \in DebateNodes \cup PostDebate /\ n \in DebateNodes \cup PostDebate /\ n # End
    BY <1>6, <1>7
  <2> QED
    BY <1>a, <1>8, <2>1, TeamFrame
<1>10. GraphTypes'
  BY <1>5, <1>7, <1>8, <1>9, <1>a DEF GInv, GraphTypes
<1>c. st.risk.count = 0 /\ Spoken(st.risk, <<"Aggressive", "Conservative", "Neutral">>)
  BY <1>6 DEF GInv, RiskHeld
<1>11. StepsSpent'
  <2>1. steps = 2 * Len(Plan) + 2 * toolRounds + d.count + 1
    BY <1>6 DEF GInv, StepsSpent
  <2>2. d.count \in Nat
    BY <1>2 DEF Debates, States
  <2>3. steps' = 2 * Len(Plan') + 2 * toolRounds' + st'.debate.count + 2 + st'.risk.count
    <3>1. st'.debate.count = d.count /\ st'.risk.count = 0
      BY <1>4, <1>c
    <3>2. Plan' = Plan /\ Len(Plan) \in Nat /\ toolRounds' = toolRounds /\ toolRounds \in Nat
          /\ steps' = steps + 1
      BY <1>9, <1>a, GraphFacts
    <3> HIDE DEF d
    <3> QED
      BY <2>1, <2>2, <3>1, <3>2
  <2> QED
    BY <1>7, <1>9, <2>3 DEF StepsSpent
<1>12. DebateHeld'
  <2>1. Spoken(d, <<"Bull", "Bear">>) /\ d.count = TurnsOf(2, shape.debate)
    BY <1>6 DEF GInv, DebateHeld
  <2>2. Spoken(st'.debate, <<"Bull", "Bear">>) /\ st'.debate.count = TurnsOf(2, shape'.debate)
    BY <1>4, <1>9, <2>1
  <2> QED
    BY <1>7, <2>2 DEF DebateHeld, DebateNodes
<1>13. RiskHeld'
  <2>1. Spoken(st'.risk, <<"Aggressive", "Conservative", "Neutral">>) /\ st'.risk.count = 0
    BY <1>4, <1>c
  <2>2. 0 % 3 = 0
    OBVIOUS
  <2>3. next' # Speaker("Conservative") /\ next' # Speaker("Neutral")
    BY <1>a DEF Speaker
  <2> QED
    BY <1>7, <2>1, <2>2, <2>3 DEF RiskHeld
<1>14. st.proposal = "" /\ st.risk.judge = "" /\ st.plan = d.judge /\ st.decision = st.risk.judge
  BY <1>6 DEF GInv, TextsInTurn
<1>15. TextsInTurn'
  <2>1. \A b \in AnalystKeys : st'.reports[b] # "" => \E j \in DOMAIN Plan' : Plan'[j] = b /\ Answered(j)'
    BY <1>4, <1>8, <1>9, SameReports
  <2> QED
    BY <1>4, <1>7, <1>14, <2>1 DEF TextsInTurn
<1>16. Grows
  <2>1. produced' = Append(produced, m)
    BY <1>a DEF Adds
  <2> QED
    BY <1>3, <1>4, <1>8, <1>9, <1>14, <2>1 DEF Grows, Later
<1> QED
  BY <1>8, <1>9, <1>10, <1>11, <1>12, <1>13, <1>15, <1>16 DEF GInv

LEMMA PortfolioManagerStep ==
    ASSUME GInv, PortfolioManager
    PROVE  GInv' /\ Grows
<1> DEFINE n == Judge("Portfolio Manager")
           d == st.risk
<1>1. PICK text \in Texts :
        st' = [st EXCEPT !.risk.judge = text, !.risk.latest = "Judge", !.decision = text]
  BY DEF PortfolioManager, StructuredOrFreetext
<1>a. Goes(n) /\ Quiet /\ toolRounds' = toolRounds /\ produced' = produced /\ next' = End
  BY DEF PortfolioManager, Quiet
<1>2. st \in States /\ d \in Risks
  BY GraphFacts DEF States
<1> DEFINE e == [d EXCEPT !.judge = text, !.latest = "Judge"]
<1>3. e \in Risks /\ e.history = d.history /\ e.said = d.said /\ e.count = d.count
      /\ e.judge = text
  BY <1>2 DEF Risks
<1>b. st' = [st EXCEPT !.risk = e, !.decision = text]
  BY <1>1, <1>2 DEF States, Risks
<1> HIDE DEF e
<1>4. /\ st'.messages = st.messages /\ st'.reports = st.reports /\ st'.debate = st.debate
      /\ st'.risk = e /\ st'.plan = st.plan /\ st'.proposal = st.proposal
      /\ st'.decision = text
  BY <1>2, <1>b DEF States
<1>5. st' \in States
  BY <1>2, <1>3, <1>b DEF States
<1>6. next = n /\ n \in PostDebate /\ n \in Nodes \ {End, Failed}
  BY <1>a, TeamNodes DEF Goes, PostDebate
<1>7. /\ next' \notin PreTrade /\ next' \notin PreJudge /\ next' \in PostDebate
      /\ next' \notin DebateNodes \cup {Judge("Research Manager"), Judge("Trader")}
      /\ next' \notin RiskNodes \cup {Judge("Portfolio Manager")} /\ next' \notin PreDebate
      /\ next' \in Nodes
  <2>1. next' \notin PreTrade /\ next' \in Nodes /\ next' \notin RiskNodes
        /\ next' # Judge("Portfolio Manager") /\ next' \in PostDebate
    BY <1>a, TeamNodes DEF PostDebate
  <2> QED
    BY <2>1, TeamNodes DEF PreTrade, PreJudge
<1>8. Numbered' /\ produced' \in Seq(Messages) /\ \A b : AnsweredAt(b)' = AnsweredAt(b)
  BY <1>a, <1>4, Quietly DEF Goes
<1>9. /\ Fresh' /\ OwnMessages' /\ AnswersInTurn'
      /\ steps' = steps + 1 /\ steps' \in 0 .. RecursionLimit /\ shape' = shape /\ Plan' = Plan
      /\ next \notin {Waiting, Failed, End} /\ next' \notin {Waiting, Failed}
      /\ next' \notin AnalystNodes /\ why' = why /\ Plan # << >> /\ Len(Plan) \in Nat
  <2>1. next' \in DebateNodes \cup PostDebate /\ n \in DebateNodes \cup PostDebate /\ n # End
    BY <1>6, <1>7
  <2> QED
    BY <1>a, <1>8, <2>1, TeamFrame
<1>10. GraphTypes'
  BY <1>5, <1>7, <1>8, <1>9, <1>a DEF GInv, GraphTypes
<1>11. StepsSpent'
  <2>1. steps = 2 * Len(Plan) + 2 * toolRounds + st.debate.count + 2 + d.count
    BY <1>6 DEF GInv, StepsSpent
  <2>2. d.count \in Nat /\ st.debate.count \in Nat
    BY <1>2 DEF Debates, Risks, States
  <2>3. steps' = 2 * Len(Plan') + 2 * toolRounds' + st'.debate.count + 3 + st'.risk.count
    <3>1. st'.debate.count = st.debate.count /\ st'.risk.count = d.count
      BY <1>3, <1>4
    <3>2. Plan' = Plan /\ Len(Plan) \in Nat /\ toolRounds' = toolRounds /\ toolRounds \in Nat
          /\ steps' = steps + 1
      BY <1>9, <1>a, GraphFacts
    <3> HIDE DEF d
    <3> QED
      BY <2>1, <2>2, <3>1, <3>2
  <2> QED
    BY <1>7, <1>9, <2>3 DEF StepsSpent
<1>12. RiskHeld'
  <2>1. Spoken(d, <<"Aggressive", "Conservative", "Neutral">>) /\ d.count = TurnsOf(3, shape.risk)
    BY <1>6 DEF GInv, RiskHeld
  <2>2. Spoken(e, <<"Aggressive", "Conservative", "Neutral">>)
    BY <1>3, <2>1 DEF Spoken
  <2>3. /\ Spoken(st'.risk, <<"Aggressive", "Conservative", "Neutral">>)
        /\ st'.risk.count = TurnsOf(3, shape'.risk)
    BY <1>3, <1>4, <1>9, <2>1, <2>2
  <2> QED
    BY <1>7, <2>3 DEF RiskHeld, RiskNodes
<1>13. DebateHeld'
  <2>1. Spoken(st.debate, <<"Bull", "Bear">>) /\ st.debate.count = TurnsOf(2, shape.debate)
    BY <1>6 DEF GInv, DebateHeld
  <2>2. Spoken(st'.debate, <<"Bull", "Bear">>) /\ st'.debate.count = TurnsOf(2, shape'.debate)
    BY <1>4, <1>9, <2>1
  <2> QED
    BY <1>7, <2>2 DEF DebateHeld, DebateNodes
<1>14. st.risk.judge = "" /\ st.plan = st.debate.judge
  BY <1>6 DEF GInv, TextsInTurn
<1>15. TextsInTurn'
  <2>1. \A b \in AnalystKeys : st'.reports[b] # "" => \E j \in DOMAIN Plan' : Plan'[j] = b /\ Answered(j)'
    BY <1>4, <1>8, <1>9, SameReports
  <2> QED
    BY <1>3, <1>4, <1>7, <1>14, <1>a, <2>1 DEF TextsInTurn
<1>16. Grows
  BY <1>3, <1>4, <1>8, <1>9, <1>14, <1>a DEF Grows, Later
<1> QED
  BY <1>8, <1>9, <1>10, <1>11, <1>12, <1>13, <1>15, <1>16 DEF GInv

\* Every node keeps the graph's invariant and takes nothing back.
LEMMA GraphStep ==
    ASSUME GInv, NodeRuns
    PROVE  GInv' /\ Grows
<1>1. ASSUME NEW a \in AnalystKeys, AskTools(a) \/ Report(a) \/ RunTools(a) \/ DeleteMessages(a)
      PROVE  GInv' /\ Grows
  BY <1>1, AskToolsStep, ReportStep, RunToolsStep, DeleteMessagesStep
<1>2. ASSUME NEW d \in Debaters, Debate(d)
      PROVE  GInv' /\ Grows
  BY <1>2, DebateStep
<1>3. ASSUME NEW r \in RiskAnalysts, RiskDebate(r)
      PROVE  GInv' /\ Grows
  BY <1>3, RiskDebateStep
<1> QED
  BY <1>1, <1>2, <1>3, ResearchManagerStep, TraderStep, PortfolioManagerStep DEF NodeRuns

\* A run that raises, and steps that leave the graph alone.
LEMMA RaiseStep ==
    ASSUME GInv, NodeFails \/ OutOfSteps, next # Waiting
    PROVE  GInv' /\ next' = Failed
<1>1. next' = Failed /\ why' \in {"error", "limit"} /\ shape' = shape /\ steps' = steps /\ st' = st
      /\ toolRounds' = toolRounds /\ produced' = produced
  BY DEF NodeFails, OutOfSteps
<1>2. /\ next' \notin AnalystNodes /\ next' \notin DebateNodes /\ next' \notin PostDebate
      /\ next' # Waiting /\ next' \in Nodes /\ next' \notin PreDebate /\ next' \notin PreJudge
      /\ next' \notin PreTrade
  <2>1. Failed \notin AnalystNodes /\ Failed \notin DebateNodes /\ Failed \notin PostDebate
        /\ Failed # Waiting /\ Failed \in Nodes
    BY NodeKinds DEF Nodes
  <2>2. Failed \notin PreDebate
    BY <2>1 DEF PreDebate
  <2> QED
    BY <1>1, <2>1, <2>2 DEF PreJudge, PreTrade, PostDebate
<1>3. Plan' = Plan /\ \A a : AnsweredAt(a)' = AnsweredAt(a)
  BY <1>1 DEF Plan, AnsweredAt
<1>4. GraphTypes'
  BY <1>1, <1>2, <1>3 DEF GInv, GraphTypes
<1>5. Fresh'
  BY <1>1, <1>2 DEF Fresh
<1>6. StepsSpent'
  BY <1>2 DEF StepsSpent, PostDebate
<1>7. DebateHeld'
  <2>1. Spoken(st'.debate, <<"Bull", "Bear">>)
    BY <1>1 DEF GInv, DebateHeld
  <2> QED
    BY <1>2, <2>1 DEF DebateHeld, DebateNodes
<1>8. RiskHeld'
  <2>1. Spoken(st'.risk, <<"Aggressive", "Conservative", "Neutral">>)
    BY <1>1 DEF GInv, RiskHeld
  <2> QED
    BY <1>2, <2>1 DEF RiskHeld, PostDebate, RiskNodes
<1>9. OwnMessages'
  BY <1>2 DEF OwnMessages
<1>10. Numbered'
  BY <1>1 DEF GInv, Numbered
<1>11. AnswersInTurn'
  <2>1. \A i, j \in DOMAIN Plan : \A t \in AnsweredAt(Plan[i])', u \in AnsweredAt(Plan[j])' :
          (i = j => t = u) /\ (i < j => t < u)
    BY <1>3 DEF GInv, AnswersInTurn
  <2> QED
    BY <1>1, <1>2, <1>3, <2>1 DEF AnswersInTurn
<1>12. TextsInTurn'
  <2>1. \A b \in AnalystKeys : st'.reports[b] # "" => \E j \in DOMAIN Plan' : Plan'[j] = b /\ Answered(j)'
    BY <1>1, <1>3, SameReports
  <2>2. st.plan = st.debate.judge /\ st.decision = st.risk.judge
    BY DEF GInv, TextsInTurn
  <2> QED
    BY <1>1, <1>2, <2>1, <2>2 DEF TextsInTurn
<1> QED
  BY <1>1, <1>4, <1>5, <1>6, <1>7, <1>8, <1>9, <1>10, <1>11, <1>12 DEF GInv

LEMMA GraphStutters == GInv /\ UNCHANGED graphVars => GInv'
<1> SUFFICES ASSUME GInv, UNCHANGED graphVars PROVE GInv'
  OBVIOUS
<1> USE DEF graphVars
<1>1. GraphTypes'
  BY DEF GInv, GraphTypes, Plan
<1>2. Fresh'
  BY DEF GInv, Fresh, Plan
<1>3. StepsSpent'
  BY DEF GInv, StepsSpent, Plan
<1>4. DebateHeld'
  BY DEF GInv, DebateHeld
<1>5. RiskHeld'
  BY DEF GInv, RiskHeld
<1>6. OwnMessages'
  BY DEF GInv, OwnMessages, Plan
<1>7. Numbered'
  BY DEF GInv, Numbered
<1>8. AnswersInTurn'
  BY DEF GInv, AnswersInTurn, Plan, Answered, AnsweredAt
<1>9. TextsInTurn'
  BY DEF GInv, TextsInTurn, Plan, Answered, AnsweredAt
<1> QED
  BY <1>1, <1>2, <1>3, <1>4, <1>5, <1>6, <1>7, <1>8, <1>9 DEF GInv

\* The nodes' own supersteps are bounded by the plan and the rounds.
LEMMA OwnStepsBound ==
    ASSUME GInv, next # Failed
    PROVE  OwnSteps + 2 * toolRounds >= steps
<1> DEFINE D == TurnsOf(2, shape.debate)
           R == TurnsOf(3, shape.risk)
           c == st.debate.count
           k == st.risk.count
           L == Len(Plan)
<1>1. /\ c \in Nat /\ k \in Nat /\ L \in Nat /\ shape.debate \in Int /\ shape.risk \in Int
      /\ DOMAIN Plan = 1 .. L /\ steps \in Nat /\ toolRounds \in Nat
  <2>1. st.debate \in Debates /\ st.risk \in Risks
    BY GraphFacts DEF States
  <2>2. Plan \in Seq(AnalystKeys) /\ shape.debate \in Int /\ shape.risk \in Int
    BY DEF GInv, GraphTypes, Shapes, Plan
  <2> QED
    <3>1. c \in Nat /\ k \in Nat
      BY <2>1 DEF Debates, Risks
    <3>2. L \in Nat /\ DOMAIN Plan = 1 .. L
      BY <2>2, LenProperties
    <3> QED
      BY <2>2, <3>1, <3>2, GraphFacts
<1>2. D \in Nat /\ R \in Nat /\ D >= 1 /\ R >= 1
  BY <1>1 DEF TurnsOf
<1>3. OwnSteps = 2 * L + D + R + 3
  BY DEF OwnSteps, TurnsOf
<1>4. next \in Nodes
  BY DEF GInv, GraphTypes
<1>5. next = Waiting => steps = 0
  BY DEF GInv, Fresh
<1>6. next \in AnalystNodes => steps <= 2 * L + 2 * toolRounds
  <2> SUFFICES ASSUME next \in AnalystNodes PROVE steps <= 2 * L + 2 * toolRounds
    OBVIOUS
  <2>1. PICK i \in DOMAIN Plan : next[1] = Plan[i]
    BY DEF GInv, GraphTypes
  <2>2. steps = SpentOn(next[2], i) + 2 * toolRounds
    BY <2>1 DEF GInv, StepsSpent
  <2>3. next[2] \in {"agent", "tools", "clear"}
    BY DEF AnalystNodes
  <2>4. i \in Nat /\ i <= L
    BY <1>1
  <2>5. SpentOn(next[2], i) <= 2 * L /\ SpentOn(next[2], i) \in Int
    BY <1>1, <2>3, <2>4 DEF SpentOn
  <2> HIDE DEF L
  <2> QED
    BY <1>1, <2>2, <2>5
<1>7. next \in DebateNodes \cup {Judge("Research Manager")} =>
        c <= D /\ steps = 2 * L + 2 * toolRounds + c
  <2>1. next = Speaker("Bull") \/ next = Speaker("Bear") => c = 0 \/ c < 2 * shape.debate
    BY DEF GInv, DebateHeld
  <2>2. next = Judge("Research Manager") => c = D
    BY DEF GInv, DebateHeld, PostDebate
  <2>3. c = 0 \/ c < 2 * shape.debate => c <= D
    BY <1>1 DEF TurnsOf
  <2>4. next \in DebateNodes => c <= D
    BY <2>1, <2>3 DEF DebateNodes
  <2>5. c = D => c <= D
    BY <1>1, <1>2
  <2>6. next \in DebateNodes \cup {Judge("Research Manager")} => steps = 2 * L + 2 * toolRounds + c
    BY DEF GInv, StepsSpent
  <2> HIDE DEF D, c
  <2> QED
    BY <2>2, <2>4, <2>5, <2>6
<1>8. next \in PostDebate => c = D
  BY DEF GInv, DebateHeld
<1>9. next = Judge("Trader") => steps = 2 * L + 2 * toolRounds + c + 1
  BY DEF GInv, StepsSpent
<1>10. next \in RiskNodes \cup {Judge("Portfolio Manager")} =>
         k <= R /\ steps = 2 * L + 2 * toolRounds + c + 2 + k
  <2>1. next \in RiskNodes => k = 0 \/ k < 3 * shape.risk
    BY DEF GInv, RiskHeld, RiskNodes
  <2>2. next = Judge("Portfolio Manager") => k = R
    BY DEF GInv, RiskHeld
  <2>3. k = 0 \/ k < 3 * shape.risk => k <= R
    BY <1>1 DEF TurnsOf
  <2>5. k = R => k <= R
    BY <1>1, <1>2
  <2>6. next \in RiskNodes \cup {Judge("Portfolio Manager")} =>
          steps = 2 * L + 2 * toolRounds + c + 2 + k
    BY DEF GInv, StepsSpent
  <2> HIDE DEF R, k
  <2> QED
    BY <2>1, <2>2, <2>3, <2>5, <2>6
<1>11. next = End => k = R /\ steps = 2 * L + 2 * toolRounds + c + 3 + k
  BY DEF GInv, RiskHeld, StepsSpent
<1>12. \/ next = Waiting \/ next \in AnalystNodes
       \/ next \in DebateNodes \cup {Judge("Research Manager")} \/ next = Judge("Trader")
       \/ next \in RiskNodes \cup {Judge("Portfolio Manager")} \/ next = End
  BY <1>4 DEF Nodes, PreJudge, PreDebate, PostDebate
<1>13. next \in {Judge("Trader"), End} \cup RiskNodes \cup {Judge("Portfolio Manager")} => c = D
  BY <1>8 DEF PostDebate
<1>14. \/ steps = 0 \/ steps <= 2 * L + 2 * toolRounds
       \/ c <= D /\ steps = 2 * L + 2 * toolRounds + c
       \/ c = D /\ steps = 2 * L + 2 * toolRounds + c + 1
       \/ c = D /\ k <= R /\ steps = 2 * L + 2 * toolRounds + c + 2 + k
       \/ c = D /\ k = R /\ steps = 2 * L + 2 * toolRounds + c + 3 + k
  <2> HIDE DEF D, R, c, k, L
  <2> QED
    BY <1>5, <1>6, <1>7, <1>9, <1>10, <1>11, <1>12, <1>13
<1>15. toolRounds \in Nat /\ steps \in Nat
  BY <1>1
<1> HIDE DEF D, R, c, k, L
<1> QED
  BY <1>1, <1>2, <1>3, <1>14, <1>15

-----------------------------------------------------------------------------
(* The buffer's operations.                                                *)
LEMMA NamesApart ==
    /\ \A a, c \in AnalystKeys : AnalystName(a) = AnalystName(c) => a = c
    /\ \A a \in AnalystKeys : AnalystName(a) \notin FixedAgents
    /\ Range(TeamSections) = {"investment_plan", "trader_investment_plan", "final_trade_decision"}
    /\ AnalystKeys \cap Range(TeamSections) = {}
<1>1. AnalystKeys = {"market", "social", "news", "kap", "fundamentals"}
  BY NodeKinds
<1>2. /\ AnalystName("market") = "Market Analyst" /\ AnalystName("social") = "Sentiment Analyst"
      /\ AnalystName("news") = "News Analyst" /\ AnalystName("kap") = "KAP Analyst"
      /\ AnalystName("fundamentals") = "Fundamentals Analyst"
  BY DEF AnalystName
<1>3. FixedAgents = {"Bull Researcher", "Bear Researcher", "Research Manager", "Aggressive",
                     "Conservative", "Neutral", "Trader", "Portfolio Manager"}
  BY DEF FixedAgents, ResearchTeam, RiskAnalysts
<1>4. Range(TeamSections) = {"investment_plan", "trader_investment_plan", "final_trade_decision"}
  BY DEF Range, TeamSections
<1> QED
  BY <1>1, <1>2, <1>3, <1>4

\* c is b but for the status of the agents A and the sections S.
Same(b, c, A, S) ==
  /\ c \in Buffers /\ c.seen = b.seen /\ c.log = b.log
  /\ \A x \in Agents \ A : c.status[x] = b.status[x]
  /\ \A x \in SectionNames \ S : c.sections[x] = b.sections[x]

LEMMA StatusUpdate ==
    ASSUME NEW b \in Buffers, NEW A, NEW v \in Statuses
    PROVE  /\ Same(b, UpdateStatus(b, A, v), A, {})
           /\ \A x \in Agents : UpdateStatus(b, A, v).status[x] = IF x \in A THEN v ELSE b.status[x]
           /\ UpdateStatus(b, A, v).sections = b.sections
<1> DEFINE f == [x \in DOMAIN b.status |-> IF x \in A THEN v ELSE b.status[x]]
<1>1. b.status \in [Agents -> Statuses]
  BY DEF Buffers
<1>2. f \in [Agents -> Statuses] /\ \A x \in Agents : f[x] = IF x \in A THEN v ELSE b.status[x]
  BY <1>1
<1>3. UpdateStatus(b, A, v) = [b EXCEPT !.status = f]
  BY DEF UpdateStatus
<1> HIDE DEF f
<1> DEFINE c == UpdateStatus(b, A, v)
<1>4. c.status = f /\ c.sections = b.sections /\ c.seen = b.seen /\ c.log = b.log /\ c \in Buffers
  BY <1>2, <1>3 DEF Buffers
<1> HIDE DEF c
<1> QED
  BY <1>2, <1>4 DEF Same, c

LEMMA SectionUpdate ==
    ASSUME NEW b \in Buffers, NEW x \in SectionNames, NEW text \in Contents
    PROVE  /\ Same(b, UpdateSection(b, x, text), {}, {x})
           /\ UpdateSection(b, x, text).sections[x] = text
           /\ UpdateSection(b, x, text).status = b.status
<1> DEFINE f == [b.sections EXCEPT ![x] = text]
           g == [b.files EXCEPT ![x] = IF text # "" THEN text ELSE b.files[x]]
           c == UpdateSection(b, x, text)
<1>1. b.sections \in [SectionNames -> Contents] /\ b.files \in [SectionNames -> Contents]
  BY DEF Buffers
<1>2. f \in [SectionNames -> Contents] /\ g \in [SectionNames -> Contents]
      /\ f[x] = text /\ \A y \in SectionNames \ {x} : f[y] = b.sections[y]
  BY <1>1
<1>3. c = [b EXCEPT !.sections = f, !.files = g]
  BY DEF UpdateSection
<1> HIDE DEF f, g, c
<1>4. c.status = b.status /\ c.sections = f /\ c.seen = b.seen /\ c.log = b.log /\ c \in Buffers
  BY <1>2, <1>3 DEF Buffers
<1> QED
  BY <1>2, <1>4 DEF Same, c

LEMMA SameChain ==
    ASSUME NEW b, NEW c, NEW d, NEW A, NEW B, NEW S, NEW T, Same(b, c, A, S), Same(c, d, B, T)
    PROVE  Same(b, d, A \cup B, S \cup T)
BY DEF Same

-----------------------------------------------------------------------------
(* The handlers of a chunk, one after the other.                           *)
ChosenTypes ==
  /\ chosen \in Seq(AnalystKeys)
  /\ \A i, j \in DOMAIN chosen : chosen[i] = chosen[j] => i = j

LEMMA SelectedFacts ==
    ASSUME ChosenTypes
    PROVE  /\ Selected \subseteq AnalystKeys
           /\ \A a \in Selected : AnalystName(a) \in Agents /\ a \in SectionNames
           /\ FixedAgents \subseteq Agents /\ Range(TeamSections) \subseteq SectionNames
           /\ \A a \in Selected : AnalystName(a) \notin FixedAgents /\ a \notin Range(TeamSections)
<1>1. Selected \subseteq AnalystKeys
  BY DEF ChosenTypes, Selected, Range
<1> QED
  BY <1>1, NamesApart DEF Agents, SectionNames

\* The analysts' statuses and sections follow the reports.
LEMMA AnalystsUpdate ==
    ASSUME ChosenTypes, NEW b \in Buffers, NEW s0 \in States, NEW s \in States,
           ShowsAnalysts(b, s0), Later(s0, s)
    PROVE  LET c == UpdateAnalystStatuses(b, s) IN
           /\ c \in Buffers /\ ShowsAnalysts(c, s) /\ c.seen = b.seen /\ c.log = b.log
           /\ \A x \in FixedAgents : c.status[x] =
                IF x = "Bull Researcher" /\ Open(s) = {} /\ b.status[x] = "pending"
                THEN "in_progress" ELSE b.status[x]
           /\ \A x \in Range(TeamSections) : c.sections[x] = b.sections[x]
<1> DEFINE got == {a \in Selected : s.reports[a] # ""}
           f == [x \in DOMAIN b.sections |-> IF x \in got THEN s.reports[x] ELSE b.sections[x]]
           g == [x \in DOMAIN b.files |-> IF x \in got THEN s.reports[x] ELSE b.files[x]]
           b1 == CaptureReports(b, s)
<1>1. b.sections \in [SectionNames -> Contents] /\ b.files \in [SectionNames -> Contents]
  BY DEF Buffers
<1>2. \A a \in AnalystKeys : s.reports[a] \in Texts /\ s.reports[a] \in Contents
  BY DEF States, Contents
<1>3. \A a \in got : s.reports[a] \in Contents /\ a \in Selected
  BY <1>2, SelectedFacts
<1> HIDE DEF got
<1>4. /\ f \in [SectionNames -> Contents] /\ g \in [SectionNames -> Contents]
      /\ \A x \in SectionNames : f[x] = IF x \in got THEN s.reports[x] ELSE b.sections[x]
  BY <1>1, <1>3
<1>5. b1 = [b EXCEPT !.sections = f, !.files = g]
  BY DEF CaptureReports, got
<1> HIDE DEF f, g, b1
<1>6. /\ b1 \in Buffers /\ b1.sections = f /\ b1.status = b.status
      /\ b1.seen = b.seen /\ b1.log = b.log
  BY <1>4, <1>5 DEF Buffers
<1>7. \A a \in Selected : b1.sections[a] = IF s.reports[a] # "" THEN s.reports[a] ELSE None
  <2> SUFFICES ASSUME NEW a \in Selected
               PROVE  b1.sections[a] = IF s.reports[a] # "" THEN s.reports[a] ELSE None
    OBVIOUS
  <2>1. a \in SectionNames /\ a \in AnalystKeys
    BY SelectedFacts
  <2>2. s.reports[a] = "" => s0.reports[a] = ""
    BY <2>1 DEF Later
  <2>3. s0.reports[a] = "" => b.sections[a] = None
    BY DEF ShowsAnalysts
  <2> QED
    BY <1>4, <1>6, <2>1, <2>2, <2>3 DEF got
<1>8. \A x \in Range(TeamSections) : b1.sections[x] = b.sections[x]
  <2>1. \A x \in Range(TeamSections) : x \in SectionNames /\ x \notin got
    BY SelectedFacts DEF got
  <2> QED
    BY <1>4, <1>6, <2>1
<1>9. Active(b1) = Open(s)
  <2>1. \A a \in Selected : b1.sections[a] \in {None, ""} <=> s.reports[a] = ""
    <3>1. \A a \in Selected : s.reports[a] \in Texts
      BY <1>2, SelectedFacts
    <3>2. None \notin Texts
      BY TextsAssumption
    <3> QED
      BY <1>7, <3>1, <3>2
  <2> QED
    BY <2>1 DEF Active, Open
<1>10. FirstActive(b1) = FirstOpen(s)
  BY <1>9 DEF FirstActive, FirstOpen
<1> DEFINE N == {AnalystName(a) : a \in Selected \ Open(s)}
           F == {AnalystName(a) : a \in FirstOpen(s)}
           P == {AnalystName(a) : a \in Open(s) \ FirstOpen(s)}
           b2 == UpdateStatus(b1, N, "completed")
           b3 == UpdateStatus(b2, F, "in_progress")
           b4 == UpdateStatus(b3, P, "pending")
           B == {"Bull Researcher"}
           b5 == UpdateStatus(b4, B, "in_progress")
           c == UpdateAnalystStatuses(b, s)
<1>11. c = IF Open(s) = {} /\ b4.status["Bull Researcher"] = "pending" THEN b5 ELSE b4
  BY <1>9, <1>10 DEF UpdateAnalystStatuses, b1
<1>12. "completed" \in Statuses /\ "in_progress" \in Statuses /\ "pending" \in Statuses
  BY DEF Statuses
<1>13. \A a \in Selected :
         /\ AnalystName(a) \in N <=> a \notin Open(s)
         /\ AnalystName(a) \in F <=> a \in FirstOpen(s)
         /\ AnalystName(a) \in P <=> a \in Open(s) /\ a \notin FirstOpen(s)
  <2>1. \A a, e \in Selected : AnalystName(a) = AnalystName(e) => a = e
    BY SelectedFacts, NamesApart
  <2>2. FirstOpen(s) \subseteq Selected /\ Open(s) \subseteq Selected
    BY DEF Open, FirstOpen
  <2>3. \A a \in Selected : \A T \in SUBSET Selected :
          AnalystName(a) \in {AnalystName(e) : e \in T} <=> a \in T
    BY <2>1
  <2>4. Selected \ Open(s) \in SUBSET Selected /\ FirstOpen(s) \in SUBSET Selected
        /\ Open(s) \ FirstOpen(s) \in SUBSET Selected
    BY <2>2
  <2> QED
    BY <2>3, <2>4
<1>14. \A x \in FixedAgents : x \notin N /\ x \notin F /\ x \notin P
  BY SelectedFacts DEF Open, FirstOpen
<1> HIDE DEF N, F, P, B
<1>15. /\ b2 \in Buffers /\ b2.sections = b1.sections /\ b2.seen = b1.seen /\ b2.log = b1.log
       /\ \A x \in Agents : b2.status[x] = IF x \in N THEN "completed" ELSE b1.status[x]
  BY <1>6, <1>12, StatusUpdate DEF Same
<1> HIDE DEF b2
<1>16. /\ b3 \in Buffers /\ b3.sections = b1.sections /\ b3.seen = b1.seen /\ b3.log = b1.log
       /\ \A x \in Agents : b3.status[x] = IF x \in F THEN "in_progress" ELSE b2.status[x]
  BY <1>12, <1>15, StatusUpdate DEF Same
<1> HIDE DEF b3
<1>17. /\ b4 \in Buffers /\ b4.sections = b1.sections /\ b4.seen = b1.seen /\ b4.log = b1.log
       /\ \A x \in Agents : b4.status[x] = IF x \in P THEN "pending" ELSE b3.status[x]
  BY <1>12, <1>16, StatusUpdate DEF Same
<1> HIDE DEF b4
<1>18. /\ b5 \in Buffers /\ b5.sections = b1.sections /\ b5.seen = b1.seen /\ b5.log = b1.log
       /\ \A x \in Agents : b5.status[x] = IF x = "Bull Researcher" THEN "in_progress" ELSE b4.status[x]
  <2>1. /\ b5 \in Buffers /\ b5.sections = b4.sections /\ b5.seen = b4.seen /\ b5.log = b4.log
        /\ \A x \in Agents :
             b5.status[x] = IF x \in B THEN "in_progress" ELSE b4.status[x]
    BY <1>12, <1>17, StatusUpdate DEF Same
  <2> HIDE DEF b5
  <2> QED
    BY <1>17, <2>1 DEF B
<1> HIDE DEF b5, c
<1>19. /\ c \in Buffers /\ c.sections = b1.sections /\ c.seen = b.seen /\ c.log = b.log
       /\ \A x \in Agents : c.status[x] =
            IF x = "Bull Researcher" /\ Open(s) = {} /\ b4.status["Bull Researcher"] = "pending"
            THEN "in_progress" ELSE b4.status[x]
  BY <1>6, <1>11, <1>17, <1>18
<1>20. \A x \in FixedAgents : b4.status[x] = b.status[x]
  BY <1>6, <1>14, <1>15, <1>16, <1>17, SelectedFacts
<1>21. \A x \in FixedAgents : c.status[x] =
         IF x = "Bull Researcher" /\ Open(s) = {} /\ b.status[x] = "pending"
         THEN "in_progress" ELSE b.status[x]
  BY <1>19, <1>20, SelectedFacts
<1>22. \A a \in Selected : c.status[AnalystName(a)] =
         IF s.reports[a] # "" THEN "completed"
         ELSE IF a \in FirstOpen(s) THEN "in_progress" ELSE "pending"
  <2> SUFFICES ASSUME NEW a \in Selected
               PROVE  c.status[AnalystName(a)] =
                        IF s.reports[a] # "" THEN "completed"
                        ELSE IF a \in FirstOpen(s) THEN "in_progress" ELSE "pending"
    OBVIOUS
  <2>1. AnalystName(a) \in Agents /\ AnalystName(a) # "Bull Researcher"
    BY SelectedFacts DEF FixedAgents, ResearchTeam
  <2>2. c.status[AnalystName(a)] = b4.status[AnalystName(a)]
    BY <1>19, <2>1
  <2>3. b4.status[AnalystName(a)] =
          IF a \notin Open(s) THEN "completed"
          ELSE IF a \in FirstOpen(s) THEN "in_progress" ELSE "pending"
    <3>1. FirstOpen(s) \subseteq Open(s)
      BY DEF FirstOpen
    <3> QED
      BY <1>13, <1>15, <1>16, <1>17, <2>1, <3>1
  <2>4. a \in Open(s) <=> s.reports[a] = ""
    BY DEF Open
  <2> QED
    BY <2>2, <2>3, <2>4
<1>23. ShowsAnalysts(c, s)
  BY <1>7, <1>19, <1>22 DEF ShowsAnalysts
<1> QED
  BY <1>8, <1>19, <1>21, <1>23 DEF c

\* The research team's handler, once the analysts' has run.
AlmostResearch(b, s0, s) ==
  /\ \A x \in ResearchTeam : b.status[x] =
       IF s0.debate.judge # "" THEN "completed"
       ELSE IF s0.debate.history # << >> \/ (x = "Bull Researcher" /\ Open(s) = {})
       THEN "in_progress" ELSE "pending"
  /\ b.sections["investment_plan"] =
       IF s0.debate.judge # "" THEN s0.debate.judge
       ELSE IF s0.debate.said["Bear"] # << >> THEN "Bear"
       ELSE IF s0.debate.said["Bull"] # << >> THEN "Bull" ELSE None

LEMMA ResearchUpdate ==
    ASSUME ChosenTypes, NEW b \in Buffers, NEW s0 \in States, NEW s \in States,
           AlmostResearch(b, s0, s), Later(s0, s)
    PROVE  LET c == UpdateResearch(b, s) IN
           /\ Same(b, c, ResearchTeam \cup {"Trader"}, {"investment_plan"}) /\ ShowsResearch(c, s)
           /\ c.status["Trader"] = IF s.debate.judge # "" THEN "in_progress" ELSE b.status["Trader"]
<1> DEFINE ip == "investment_plan"
           T == {"Trader"}
           R == ResearchTeam
           spoke == s.debate.history # << >>
           bull == s.debate.said["Bull"] # << >>
           bear == s.debate.said["Bear"] # << >>
           b1a == UpdateStatus(b, R, "in_progress")
           b1 == IF spoke THEN b1a ELSE b
           b2a == UpdateSection(b1, ip, "Bull")
           b2 == IF bull THEN b2a ELSE b1
           b3a == UpdateSection(b2, ip, "Bear")
           b3 == IF bear THEN b3a ELSE b2
           b4 == UpdateSection(b3, ip, s.debate.judge)
           b5 == UpdateStatus(b4, R, "completed")
           b6 == UpdateStatus(b5, T, "in_progress")
           c == UpdateResearch(b, s)
<1>1. c = IF s.debate.judge = "" THEN b3 ELSE b6
  BY DEF UpdateResearch
<1>2. /\ ip \in SectionNames /\ "Bull" \in Contents /\ "Bear" \in Contents
      /\ s.debate.judge \in Contents /\ "in_progress" \in Statuses /\ "completed" \in Statuses
  <2>1. s.debate.judge \in Texts
    BY DEF States, Debates
  <2>2. "Bull" \in Debaters /\ "Bear" \in Debaters
    BY DEF Debaters
  <2> QED
    BY <2>1, <2>2, NamesApart DEF SectionNames, Contents, Statuses
<1>3. R \subseteq Agents /\ "Trader" \in Agents /\ "Trader" \notin R /\ \A x : x \in T <=> x = "Trader"
  BY SelectedFacts DEF FixedAgents, ResearchTeam
<1> HIDE DEF ip, T, R, spoke, bull, bear, c
<1>4. /\ b1 \in Buffers /\ b1.sections = b.sections /\ b1.seen = b.seen /\ b1.log = b.log
      /\ \A x \in Agents : b1.status[x] = IF spoke /\ x \in R THEN "in_progress" ELSE b.status[x]
  <2>1. /\ b1a \in Buffers /\ b1a.sections = b.sections /\ b1a.seen = b.seen /\ b1a.log = b.log
        /\ \A x \in Agents : b1a.status[x] = IF x \in R THEN "in_progress" ELSE b.status[x]
    BY <1>2, StatusUpdate DEF Same
  <2> HIDE DEF b1a
  <2> QED
    BY <2>1
<1> HIDE DEF b1
<1>5. /\ b2 \in Buffers /\ b2.status = b1.status /\ b2.seen = b.seen /\ b2.log = b.log
      /\ b2.sections[ip] = IF bull THEN "Bull" ELSE b.sections[ip]
      /\ \A x \in SectionNames \ {ip} : b2.sections[x] = b.sections[x]
  <2>1. /\ b2a \in Buffers /\ b2a.status = b1.status /\ b2a.seen = b1.seen /\ b2a.log = b1.log
        /\ b2a.sections[ip] = "Bull" /\ \A x \in SectionNames \ {ip} : b2a.sections[x] = b1.sections[x]
    <3>1. b1 \in Buffers /\ ip \in SectionNames /\ "Bull" \in Contents
      BY <1>2, <1>4
    <3> QED
      BY <3>1, SectionUpdate DEF Same
  <2> HIDE DEF b2a
  <2> QED
    BY <1>4, <2>1
<1> HIDE DEF b2
<1>6. /\ b3 \in Buffers /\ b3.status = b1.status /\ b3.seen = b.seen /\ b3.log = b.log
      /\ b3.sections[ip] = IF bear THEN "Bear" ELSE IF bull THEN "Bull" ELSE b.sections[ip]
      /\ \A x \in SectionNames \ {ip} : b3.sections[x] = b.sections[x]
  <2>1. /\ b3a \in Buffers /\ b3a.status = b2.status /\ b3a.seen = b2.seen /\ b3a.log = b2.log
        /\ b3a.sections[ip] = "Bear" /\ \A x \in SectionNames \ {ip} : b3a.sections[x] = b2.sections[x]
    BY <1>2, <1>5, SectionUpdate DEF Same
  <2> HIDE DEF b3a
  <2> QED
    BY <1>5, <2>1
<1> HIDE DEF b3
<1>7. /\ b4 \in Buffers /\ b4.status = b1.status /\ b4.seen = b.seen /\ b4.log = b.log
      /\ b4.sections[ip] = s.debate.judge /\ \A x \in SectionNames \ {ip} : b4.sections[x] = b.sections[x]
  BY <1>2, <1>6, SectionUpdate DEF Same
<1> HIDE DEF b4
<1>8. /\ b5 \in Buffers /\ b5.sections = b4.sections /\ b5.seen = b.seen /\ b5.log = b.log
      /\ \A x \in Agents : b5.status[x] = IF x \in R THEN "completed" ELSE b1.status[x]
  BY <1>2, <1>7, StatusUpdate DEF Same
<1> HIDE DEF b5
<1>9. /\ b6 \in Buffers /\ b6.sections = b4.sections /\ b6.seen = b.seen /\ b6.log = b.log
      /\ \A x \in Agents : b6.status[x] = IF x \in T THEN "in_progress" ELSE b5.status[x]
  BY <1>2, <1>8, StatusUpdate DEF Same
<1> HIDE DEF b6
<1>10. Same(b, c, R \cup T, {ip})
  <2>1. CASE s.debate.judge = ""
    BY <1>1, <1>4, <1>6, <2>1 DEF Same
  <2>2. CASE s.debate.judge # ""
    BY <1>1, <1>4, <1>7, <1>8, <1>9, <2>2 DEF Same
  <2> QED
    BY <2>1, <2>2
<1>11. c.status["Trader"] = IF s.debate.judge # "" THEN "in_progress" ELSE b.status["Trader"]
  BY <1>1, <1>3, <1>4, <1>6, <1>9
<1>12. \A x \in R : c.status[x] = IF s.debate.judge # "" THEN "completed" ELSE b1.status[x]
  BY <1>1, <1>3, <1>6, <1>8, <1>9
<1>13. c.sections[ip] = IF s.debate.judge # "" THEN s.debate.judge ELSE b3.sections[ip]
  BY <1>1, <1>7, <1>8, <1>9
<1>14. s.debate.judge = "" => s0.debate.judge = ""
  BY DEF Later
<1>15. \A x \in ResearchTeam : c.status[x] =
         IF s.debate.judge # "" THEN "completed"
         ELSE IF s.debate.history # << >> \/ (x = "Bull Researcher" /\ Open(s) = {})
         THEN "in_progress" ELSE "pending"
  <2> SUFFICES ASSUME NEW x \in ResearchTeam, s.debate.judge = ""
               PROVE  c.status[x] = IF spoke \/ (x = "Bull Researcher" /\ Open(s) = {})
                                    THEN "in_progress" ELSE "pending"
    BY <1>12 DEF R, spoke
  <2>1. c.status[x] = IF spoke THEN "in_progress" ELSE b.status[x]
    BY <1>3, <1>4, <1>12 DEF R
  <2>2. ~spoke => s0.debate.history = << >>
    BY DEF Later, spoke
  <2>3. s0.debate.history = << >> => b.status[x] =
          IF x = "Bull Researcher" /\ Open(s) = {} THEN "in_progress" ELSE "pending"
    BY <1>14 DEF AlmostResearch
  <2> QED
    BY <2>1, <2>2, <2>3
<1>16. c.sections["investment_plan"] =
         IF s.debate.judge # "" THEN s.debate.judge
         ELSE IF s.debate.said["Bear"] # << >> THEN "Bear"
         ELSE IF s.debate.said["Bull"] # << >> THEN "Bull" ELSE None
  <2> SUFFICES ASSUME s.debate.judge = ""
               PROVE  c.sections[ip] = IF bear THEN "Bear" ELSE IF bull THEN "Bull" ELSE None
    BY <1>13 DEF ip, bull, bear
  <2>1. c.sections[ip] = IF bear THEN "Bear" ELSE IF bull THEN "Bull" ELSE b.sections[ip]
    BY <1>6, <1>13
  <2>2. /\ ~bear => s0.debate.said["Bear"] = << >>
        /\ ~bull => s0.debate.said["Bull"] = << >>
    <3>1. "Bull" \in Debaters /\ "Bear" \in Debaters
      BY DEF Debaters
    <3> QED
      BY <3>1 DEF Later, bear, bull
  <2>3. s0.debate.said["Bear"] = << >> /\ s0.debate.said["Bull"] = << >> => b.sections[ip] = None
    BY <1>14 DEF AlmostResearch, ip
  <2> QED
    BY <2>1, <2>2, <2>3
<1> QED
  BY <1>10, <1>11, <1>15, <1>16 DEF ShowsResearch, c, R, T, ip

\* The trader's handler: it shows the first risk analyst as running.
AlmostTrader(b, s0, s) ==
  /\ b.status["Trader"] =
       IF s.debate.judge # "" THEN "in_progress"
       ELSE IF s0.proposal # "" THEN "completed"
       ELSE IF s0.debate.judge # "" THEN "in_progress" ELSE "pending"
  /\ b.sections["trader_investment_plan"] = IF s0.proposal # "" THEN s0.proposal ELSE None
  /\ s0.proposal # "" => b.status["Aggressive"] = "in_progress"

LEMMA TraderUpdate ==
    ASSUME ChosenTypes, NEW b \in Buffers, NEW s0 \in States, NEW s \in States,
           AlmostTrader(b, s0, s), Later(s0, s)
    PROVE  LET c == UpdateTrader(b, s) IN
           /\ Same(b, c, {"Trader", "Aggressive"}, {"trader_investment_plan"}) /\ ShowsTrader(c, s)
           /\ c.status["Aggressive"] =
                IF s.proposal # "" THEN "in_progress" ELSE b.status["Aggressive"]
<1> DEFINE tp == "trader_investment_plan"
           T == {"Trader"}
           A == {"Aggressive"}
           b1 == UpdateSection(b, tp, s.proposal)
           b2 == UpdateStatus(b1, T, "completed")
           b3 == UpdateStatus(b2, A, "in_progress")
           c == UpdateTrader(b, s)
<1>1. c = IF s.proposal = "" THEN b ELSE IF b1.status["Trader"] = "completed" THEN b1 ELSE b3
  BY DEF UpdateTrader
<1>2. /\ tp \in SectionNames /\ s.proposal \in Contents
      /\ "in_progress" \in Statuses /\ "completed" \in Statuses
  <2>1. s.proposal \in Texts
    BY DEF States
  <2> QED
    BY <2>1, NamesApart DEF SectionNames, Contents, Statuses
<1>3. "Trader" \in Agents /\ "Aggressive" \in Agents
      /\ (\A x : x \in T <=> x = "Trader") /\ (\A x : x \in A <=> x = "Aggressive")
  BY SelectedFacts DEF FixedAgents, RiskAnalysts
<1>4. T \cup A = {"Trader", "Aggressive"}
  OBVIOUS
<1> HIDE DEF tp, T, A, c
<1>5. /\ b1 \in Buffers /\ b1.status = b.status /\ b1.seen = b.seen /\ b1.log = b.log
      /\ b1.sections[tp] = s.proposal /\ \A x \in SectionNames \ {tp} : b1.sections[x] = b.sections[x]
  BY <1>2, SectionUpdate DEF Same
<1> HIDE DEF b1
<1>6. /\ b2 \in Buffers /\ b2.sections = b1.sections /\ b2.seen = b.seen /\ b2.log = b.log
      /\ \A x \in Agents : b2.status[x] = IF x \in T THEN "completed" ELSE b1.status[x]
  BY <1>2, <1>5, StatusUpdate DEF Same
<1> HIDE DEF b2
<1>7. /\ b3 \in Buffers /\ b3.sections = b1.sections /\ b3.seen = b.seen /\ b3.log = b.log
      /\ \A x \in Agents : b3.status[x] = IF x \in A THEN "in_progress" ELSE b2.status[x]
  BY <1>2, <1>6, StatusUpdate DEF Same
<1> HIDE DEF b3
<1>8. Same(b, c, T \cup A, {tp})
  <2>1. c \in Buffers /\ c.seen = b.seen /\ c.log = b.log
    BY <1>1, <1>5, <1>7
  <2>2. \A x \in Agents \ (T \cup A) : c.status[x] = b.status[x]
    BY <1>1, <1>5, <1>6, <1>7
  <2>3. \A x \in SectionNames \ {tp} : c.sections[x] = b.sections[x]
    BY <1>1, <1>5, <1>7
  <2> QED
    BY <2>1, <2>2, <2>3 DEF Same
<1>9. CASE s.proposal = ""
  <2>1. c = b
    BY <1>1, <1>9
  <2>2. s0.proposal = ""
    BY <1>9 DEF Later
  <2>3. s.debate.judge = "" => s0.debate.judge = ""
    BY DEF Later
  <2>4. b.status["Trader"] = IF s.debate.judge # "" THEN "in_progress" ELSE "pending"
    BY <2>2, <2>3 DEF AlmostTrader
  <2>5. ShowsTrader(c, s)
    BY <1>9, <2>1, <2>2, <2>4 DEF ShowsTrader, AlmostTrader
  <2> QED
    BY <1>4, <1>8, <1>9, <2>1, <2>5 DEF c, tp
<1>10. CASE s.proposal # "" /\ b1.status["Trader"] = "completed"
  <2>1. c = b1
    BY <1>1, <1>10
  <2>2. b.status["Trader"] = "completed"
    BY <1>5, <1>10
  <2>3. s0.proposal # ""
    BY <2>2 DEF AlmostTrader
  <2>4. c.status["Trader"] = "completed" /\ c.status["Aggressive"] = "in_progress"
    BY <1>5, <2>1, <2>2, <2>3 DEF AlmostTrader
  <2>5. ShowsTrader(c, s)
    BY <1>5, <1>10, <2>1, <2>4 DEF ShowsTrader, tp
  <2> QED
    BY <1>4, <1>8, <1>10, <2>4, <2>5 DEF c, tp
<1>11. CASE s.proposal # "" /\ b1.status["Trader"] # "completed"
  <2>1. c = b3
    BY <1>1, <1>11
  <2>2. c.status["Trader"] = "completed" /\ c.status["Aggressive"] = "in_progress"
    BY <1>3, <1>6, <1>7, <2>1
  <2>3. ShowsTrader(c, s)
    BY <1>5, <1>7, <1>11, <2>1, <2>2 DEF ShowsTrader, tp
  <2> QED
    BY <1>4, <1>8, <1>11, <2>2, <2>3 DEF c, tp
<1> QED
  BY <1>9, <1>10, <1>11

\* The risk team's handler.
LEMMA ShowRiskUpdate ==
    ASSUME ChosenTypes, NEW b \in Buffers, NEW s, NEW who \in RiskAnalysts,
           b.status[who] # "completed"
    PROVE  LET c == ShowRisk(b, s, who) IN
           /\ Same(b, c, {who}, {"final_trade_decision"})
           /\ c.status[who] = IF s.risk.said[who] # << >> THEN "in_progress" ELSE b.status[who]
           /\ c.sections["final_trade_decision"] =
                IF s.risk.said[who] # << >> THEN who ELSE b.sections["final_trade_decision"]
<1> DEFINE fp == "final_trade_decision"
           W == {who}
           b1 == UpdateStatus(b, W, "in_progress")
           b2 == UpdateSection(b1, fp, who)
           c == ShowRisk(b, s, who)
<1>1. c = IF s.risk.said[who] = << >> THEN b ELSE b2
  BY DEF ShowRisk
<1>2. fp \in SectionNames /\ who \in Contents /\ "in_progress" \in Statuses
  BY NamesApart DEF SectionNames, Contents, Statuses
<1>3. who \in Agents
  BY SelectedFacts DEF FixedAgents
<1> HIDE DEF fp, W, c
<1>4. /\ b1 \in Buffers /\ b1.sections = b.sections /\ b1.seen = b.seen /\ b1.log = b.log
      /\ \A x \in Agents : b1.status[x] = IF x \in W THEN "in_progress" ELSE b.status[x]
  BY <1>2, StatusUpdate DEF Same
<1>5. /\ b2 \in Buffers /\ b2.status = b1.status /\ b2.seen = b.seen /\ b2.log = b.log
      /\ b2.sections[fp] = who /\ \A x \in SectionNames \ {fp} : b2.sections[x] = b.sections[x]
  <2>1. b1 \in Buffers
    BY <1>4
  <2> HIDE DEF b1
  <2>2. /\ b2 \in Buffers /\ b2.status = b1.status /\ b2.seen = b1.seen /\ b2.log = b1.log
        /\ b2.sections[fp] = who /\ \A x \in SectionNames \ {fp} : b2.sections[x] = b1.sections[x]
    BY <1>2, <2>1, SectionUpdate DEF Same
  <2> HIDE DEF b2
  <2> QED
    BY <1>4, <2>2
<1> HIDE DEF b1, b2
<1>6. Same(b, c, W, {fp})
  BY <1>1, <1>4, <1>5 DEF Same
<1>7. c.status[who] = IF s.risk.said[who] # << >> THEN "in_progress" ELSE b.status[who]
  <2>1. who \in W
    BY DEF W
  <2> QED
    BY <1>1, <1>3, <1>4, <1>5, <2>1
<1>8. c.sections[fp] = IF s.risk.said[who] # << >> THEN who ELSE b.sections[fp]
  BY <1>1, <1>5
<1> QED
  BY <1>6, <1>7, <1>8 DEF c, W, fp

AlmostRisk(b, s0, s) ==
  /\ \A x \in RiskAnalysts : b.status[x] =
       IF s0.risk.said[x] # << >> \/ (x = "Aggressive" /\ s.proposal # "")
       THEN "in_progress" ELSE "pending"
  /\ b.status["Portfolio Manager"] = "pending"
  /\ b.sections["final_trade_decision"] =
       IF s0.risk.said["Neutral"] # << >> THEN "Neutral"
       ELSE IF s0.risk.said["Conservative"] # << >> THEN "Conservative"
       ELSE IF s0.risk.said["Aggressive"] # << >> THEN "Aggressive" ELSE None

LEMMA RiskUpdate ==
    ASSUME ChosenTypes, NEW b \in Buffers, NEW s0 \in States, NEW s \in States,
           AlmostRisk(b, s0, s), Later(s0, s)
    PROVE  LET c == UpdateRisk(b, s) IN
           /\ Same(b, c, RiskAnalysts \cup {"Portfolio Manager"}, {"final_trade_decision"})
           /\ ShowsRisk(c, s)
<1> DEFINE fp == "final_trade_decision"
           pm == "Portfolio Manager"
           W == RiskAnalysts \cup {pm}
           aggressive == s.risk.said["Aggressive"] # << >>
           conservative == s.risk.said["Conservative"] # << >>
           neutral == s.risk.said["Neutral"] # << >>
           b1 == ShowRisk(b, s, "Aggressive")
           b2 == ShowRisk(b1, s, "Conservative")
           b3 == ShowRisk(b2, s, "Neutral")
           b4 == UpdateSection(b3, fp, s.risk.judge)
           b5 == UpdateStatus(b4, W, "completed")
           c == UpdateRisk(b, s)
<1>1. c = IF s.risk.judge = "" \/ b3.status[pm] = "completed" THEN b3 ELSE b5
  BY DEF UpdateRisk
<1>2. fp \in SectionNames /\ s.risk.judge \in Contents /\ "completed" \in Statuses
  <2>1. s.risk.judge \in Texts
    BY DEF States, Risks
  <2> QED
    BY <2>1, NamesApart DEF SectionNames, Contents, Statuses
<1>3. /\ RiskAnalysts = {"Aggressive", "Conservative", "Neutral"} /\ RiskAnalysts \subseteq Agents
      /\ pm \in Agents /\ pm \notin RiskAnalysts
  BY SelectedFacts DEF FixedAgents, RiskAnalysts
<1>4. \A x \in RiskAnalysts : b.status[x] # "completed"
  BY DEF AlmostRisk
<1>5. \A x \in W : x \in Agents
  BY <1>3
<1> HIDE DEF fp, pm, aggressive, conservative, neutral, c
<1>6. /\ b1 \in Buffers /\ b1.seen = b.seen /\ b1.log = b.log
      /\ b1.status["Aggressive"] = IF aggressive THEN "in_progress" ELSE b.status["Aggressive"]
      /\ \A x \in Agents \ {"Aggressive"} : b1.status[x] = b.status[x]
      /\ \A x \in SectionNames \ {fp} : b1.sections[x] = b.sections[x]
      /\ b1.sections[fp] = IF aggressive THEN "Aggressive" ELSE b.sections[fp]
  <2>1. "Aggressive" \in RiskAnalysts /\ b.status["Aggressive"] # "completed"
    BY <1>3, <1>4
  <2>2. /\ Same(b, b1, {"Aggressive"}, {fp})
        /\ b1.status["Aggressive"] = IF aggressive THEN "in_progress" ELSE b.status["Aggressive"]
        /\ b1.sections[fp] = IF aggressive THEN "Aggressive" ELSE b.sections[fp]
    BY <2>1, ShowRiskUpdate DEF aggressive, fp
  <2> QED
    BY <2>2 DEF Same
<1> HIDE DEF b1
<1>7. /\ b2 \in Buffers /\ b2.seen = b1.seen /\ b2.log = b1.log
      /\ b2.status["Conservative"] = IF conservative THEN "in_progress" ELSE b1.status["Conservative"]
      /\ \A x \in Agents \ {"Conservative"} : b2.status[x] = b1.status[x]
      /\ \A x \in SectionNames \ {fp} : b2.sections[x] = b1.sections[x]
      /\ b2.sections[fp] = IF conservative THEN "Conservative" ELSE b1.sections[fp]
  <2>1. b1.status["Conservative"] # "completed"
    BY <1>3, <1>4, <1>6
  <2> QED
    <3>1. b1 \in Buffers /\ "Conservative" \in RiskAnalysts
      BY <1>3, <1>6
    <3>2. /\ Same(b1, b2, {"Conservative"}, {fp})
          /\ b2.status["Conservative"] = IF conservative THEN "in_progress" ELSE b1.status["Conservative"]
          /\ b2.sections[fp] = IF conservative THEN "Conservative" ELSE b1.sections[fp]
      BY <2>1, <3>1, ShowRiskUpdate DEF conservative, fp
    <3> QED
      BY <3>2 DEF Same
<1> HIDE DEF b2
<1>8. /\ b3 \in Buffers /\ b3.seen = b2.seen /\ b3.log = b2.log
      /\ b3.status["Neutral"] = IF neutral THEN "in_progress" ELSE b2.status["Neutral"]
      /\ \A x \in Agents \ {"Neutral"} : b3.status[x] = b2.status[x]
      /\ \A x \in SectionNames \ {fp} : b3.sections[x] = b2.sections[x]
      /\ b3.sections[fp] = IF neutral THEN "Neutral" ELSE b2.sections[fp]
  <2>1. b2.status["Neutral"] # "completed"
    BY <1>3, <1>4, <1>6, <1>7
  <2> QED
    <3>1. b2 \in Buffers /\ "Neutral" \in RiskAnalysts
      BY <1>3, <1>7
    <3>2. /\ Same(b2, b3, {"Neutral"}, {fp})
          /\ b3.status["Neutral"] = IF neutral THEN "in_progress" ELSE b2.status["Neutral"]
          /\ b3.sections[fp] = IF neutral THEN "Neutral" ELSE b2.sections[fp]
      BY <2>1, <3>1, ShowRiskUpdate DEF neutral, fp
    <3> QED
      BY <3>2 DEF Same
<1> HIDE DEF b3, W
<1>9. /\ b4 \in Buffers /\ b4.status = b3.status /\ b4.seen = b3.seen /\ b4.log = b3.log
      /\ b4.sections[fp] = s.risk.judge /\ \A x \in SectionNames \ {fp} : b4.sections[x] = b3.sections[x]
  <2>1. b3 \in Buffers
    BY <1>8
  <2> QED
    BY <1>2, <2>1, SectionUpdate DEF Same
<1> HIDE DEF b4
<1>10. /\ b5 \in Buffers /\ b5.sections = b4.sections /\ b5.seen = b4.seen /\ b5.log = b4.log
       /\ \A x \in Agents : b5.status[x] = IF x \in W THEN "completed" ELSE b4.status[x]
  <2>1. b4 \in Buffers
    BY <1>9
  <2> QED
    BY <1>2, <2>1, StatusUpdate DEF Same
<1> HIDE DEF b5
<1>11. \A x \in RiskAnalysts : b3.status[x] =
         IF s.risk.said[x] # << >> THEN "in_progress" ELSE b.status[x]
  BY <1>3, <1>6, <1>7, <1>8 DEF aggressive, conservative, neutral
<1>12. \A x \in Agents \ RiskAnalysts : b3.status[x] = b.status[x]
  BY <1>3, <1>6, <1>7, <1>8
<1>13. b3.sections[fp] = IF neutral THEN "Neutral" ELSE IF conservative THEN "Conservative"
                         ELSE IF aggressive THEN "Aggressive" ELSE b.sections[fp]
  BY <1>6, <1>7, <1>8
<1>14. \A x \in SectionNames \ {fp} : b3.sections[x] = b.sections[x]
  BY <1>6, <1>7, <1>8
<1>15. b3.status[pm] = "pending"
  <2>1. b3.status[pm] = b.status[pm]
    BY <1>3, <1>12
  <2> QED
    BY <2>1 DEF AlmostRisk, pm
<1>16. c = IF s.risk.judge = "" THEN b3 ELSE b5
  BY <1>1, <1>15
<1>17. Same(b, c, W, {fp})
  <2>1. c \in Buffers /\ c.seen = b.seen /\ c.log = b.log
    BY <1>6, <1>7, <1>8, <1>9, <1>10, <1>16
  <2>2. \A x \in Agents \ W : c.status[x] = b.status[x]
    BY <1>9, <1>10, <1>12, <1>16 DEF W
  <2>3. \A x \in SectionNames \ {fp} : c.sections[x] = b.sections[x]
    BY <1>9, <1>10, <1>14, <1>16
  <2> QED
    BY <2>1, <2>2, <2>3 DEF Same
<1>18. \A x \in RiskAnalysts : c.status[x] =
         IF s.risk.judge # "" THEN "completed"
         ELSE IF s.risk.said[x] # << >> \/ (x = "Aggressive" /\ s.proposal # "")
         THEN "in_progress" ELSE "pending"
  <2> SUFFICES ASSUME NEW x \in RiskAnalysts
               PROVE  c.status[x] =
                        IF s.risk.judge # "" THEN "completed"
                        ELSE IF s.risk.said[x] # << >> \/ (x = "Aggressive" /\ s.proposal # "")
                        THEN "in_progress" ELSE "pending"
    OBVIOUS
  <2>1. s.risk.judge # "" => c.status[x] = "completed"
    BY <1>5, <1>10, <1>16 DEF W
  <2>2. s.risk.judge = "" => c.status[x] = IF s.risk.said[x] # << >> THEN "in_progress" ELSE b.status[x]
    BY <1>11, <1>16
  <2>3. s.risk.said[x] = << >> => s0.risk.said[x] = << >>
    BY DEF Later
  <2>4. b.status[x] = IF s0.risk.said[x] # << >> \/ (x = "Aggressive" /\ s.proposal # "")
                      THEN "in_progress" ELSE "pending"
    BY DEF AlmostRisk
  <2> QED
    BY <2>1, <2>2, <2>3, <2>4
<1>19. c.status[pm] = IF s.risk.judge # "" THEN "completed" ELSE "pending"
  BY <1>3, <1>5, <1>10, <1>15, <1>16 DEF W
<1>20. c.sections[fp] =
         IF s.risk.judge # "" THEN s.risk.judge ELSE IF neutral THEN "Neutral"
         ELSE IF conservative THEN "Conservative" ELSE IF aggressive THEN "Aggressive" ELSE None
  <2>1. s.risk.judge # "" => c.sections[fp] = s.risk.judge
    BY <1>9, <1>10, <1>16
  <2>2. /\ ~neutral => s0.risk.said["Neutral"] = << >>
        /\ ~conservative => s0.risk.said["Conservative"] = << >>
        /\ ~aggressive => s0.risk.said["Aggressive"] = << >>
    BY <1>3 DEF Later, neutral, conservative, aggressive
  <2>3. ~neutral /\ ~conservative /\ ~aggressive => b.sections[fp] = None
    BY <2>2 DEF AlmostRisk, fp
  <2> QED
    BY <1>13, <1>16, <2>1, <2>3
<1> QED
  BY <1>17, <1>18, <1>19, <1>20 DEF ShowsRisk, c, W, fp, pm, aggressive, conservative, neutral

\* The log's handler.
LEMMA IdsOf ==
    ASSUME NEW ms \in Seq(Messages), NEW S \in SUBSET DOMAIN ms
    PROVE  Ids(ElementsAt(ms, S)) \in Seq(Nat)
<1> DEFINE e == ElementsAt(ms, S)
<1>1. e \in Seq(Messages)
  BY ElementsAtProperties
<1> HIDE DEF e
<1>2. DOMAIN e = 1 .. Len(e) /\ Len(e) \in Nat
  BY <1>1, LenProperties
<1>3. \A i \in 1 .. Len(e) : e[i].id \in Nat
  <2>1. \A i \in 1 .. Len(e) : e[i] \in Messages
    BY <1>1, <1>2
  <2> QED
    BY <2>1 DEF Messages
<1>4. Ids(e) = [i \in 1 .. Len(e) |-> e[i].id]
  BY <1>2 DEF Ids
<1>5. Ids(e) \in Seq(Nat)
  BY <1>2, <1>3, <1>4, IsASeq
<1> QED
  BY <1>5 DEF e

LEMMA LogUpdate ==
    ASSUME ChosenTypes, NEW b \in Buffers, NEW ms \in Seq(Messages)
    PROVE  LET c == LogMessages(b, ms)
               new == {i \in DOMAIN ms : ms[i].id \notin b.seen} IN
           /\ c \in Buffers /\ c.status = b.status /\ c.sections = b.sections
           /\ c.seen = b.seen \cup {ms[i].id : i \in new}
           /\ c.log = b.log \o Ids(ElementsAt(ms, {i \in new : Shown(ms[i])}))
<1> DEFINE new == {i \in DOMAIN ms : ms[i].id \notin b.seen}
           shown == {i \in new : Shown(ms[i])}
           added == {ms[i].id : i \in new}
           lines == Ids(ElementsAt(ms, shown))
           c == LogMessages(b, ms)
<1>1. c = [b EXCEPT !.seen = b.seen \cup added, !.log = b.log \o lines]
  BY DEF LogMessages
<1>2. added \subseteq Nat
  <2>1. \A i \in DOMAIN ms : ms[i] \in Messages
    OBVIOUS
  <2> QED
    BY <2>1 DEF Messages
<1>3. shown \in SUBSET DOMAIN ms
  OBVIOUS
<1> HIDE DEF shown, added, c
<1>4. lines \in Seq(Nat)
  BY <1>3, IdsOf
<1> HIDE DEF lines
<1>5. b.log \in Seq(Nat) /\ b.seen \subseteq Nat
  BY DEF Buffers
<1>6. b.log \o lines \in Seq(Nat) /\ b.seen \cup added \subseteq Nat
  BY <1>2, <1>4, <1>5, ConcatProperties
<1>7. c \in Buffers /\ c.status = b.status /\ c.sections = b.sections
      /\ c.seen = b.seen \cup added /\ c.log = b.log \o lines
  BY <1>1, <1>6 DEF Buffers
<1> QED
  BY <1>7 DEF c, added, lines, shown

\* The handlers of a chunk, in their order.
LEMMA ChunkUpdate ==
    ASSUME ChosenTypes, NEW b \in Buffers, NEW s0 \in States, NEW s \in States,
           Shows(b, s0), Later(s0, s), NEW c, Handles(b, s, c)
    PROVE  /\ c \in Buffers /\ Shows(c, s) /\ c.seen = LogMessages(b, s.messages).seen
           /\ c.log = LogMessages(b, s.messages).log
<1> DEFINE b1 == LogMessages(b, s.messages)
           b2 == UpdateAnalystStatuses(b1, s)
           b3 == UpdateResearch(b2, s)
           b4 == UpdateTrader(b3, s)
<1>1. c = UpdateRisk(b4, s)
  BY DEF Handles
<1>2. b1 \in Buffers /\ b1.status = b.status /\ b1.sections = b.sections
  <2>1. s.messages \in Seq(Messages)
    BY DEF States
  <2> QED
    BY <2>1, LogUpdate
<1> HIDE DEF b1
<1>3. Shows(b1, s0)
  <2>1. ShowsAnalysts(b1, s0)
    BY <1>2 DEF Shows, ShowsAnalysts
  <2>2. ShowsResearch(b, s0) <=> ShowsResearch(b1, s0)
    BY <1>2, Zenon DEF ShowsResearch
  <2>3. ShowsTrader(b1, s0)
    BY <1>2 DEF Shows, ShowsTrader
  <2>4. ShowsRisk(b1, s0)
    <3>1. ShowsRisk(b, s0)
      BY DEF Shows
    <3> QED
      BY <3>1, <1>2, ZenonT(60) DEF ShowsRisk
  <2> QED
    BY <2>1, <2>2, <2>3, <2>4 DEF Shows
<1>4. /\ ShowsAnalysts(b1, s0) /\ ShowsResearch(b1, s0) /\ ShowsTrader(b1, s0) /\ ShowsRisk(b1, s0)
  BY <1>3 DEF Shows
<1>5. /\ b2 \in Buffers /\ ShowsAnalysts(b2, s) /\ b2.seen = b1.seen /\ b2.log = b1.log
      /\ \A x \in FixedAgents : b2.status[x] =
           IF x = "Bull Researcher" /\ Open(s) = {} /\ b1.status[x] = "pending"
           THEN "in_progress" ELSE b1.status[x]
      /\ \A x \in Range(TeamSections) : b2.sections[x] = b1.sections[x]
  BY <1>2, <1>4, AnalystsUpdate
<1> HIDE DEF b2
<1>6. /\ ResearchTeam \subseteq FixedAgents /\ RiskAnalysts \subseteq FixedAgents
      /\ "Trader" \in FixedAgents /\ "Portfolio Manager" \in FixedAgents
      /\ "Trader" \notin ResearchTeam \cup RiskAnalysts
      /\ "Portfolio Manager" \notin ResearchTeam \cup RiskAnalysts
      /\ "Aggressive" \in RiskAnalysts
      /\ \A x \in RiskAnalysts : x # "Bull Researcher" /\ x \notin ResearchTeam
  BY DEF FixedAgents, ResearchTeam, RiskAnalysts
<1>7. /\ "investment_plan" \in Range(TeamSections)
      /\ "trader_investment_plan" \in Range(TeamSections)
      /\ "final_trade_decision" \in Range(TeamSections)
  BY NamesApart
<1>8. AlmostResearch(b2, s0, s)
  <2>1. \A x \in ResearchTeam : b2.status[x] =
          IF s0.debate.judge # "" THEN "completed"
          ELSE IF s0.debate.history # << >> \/ (x = "Bull Researcher" /\ Open(s) = {})
          THEN "in_progress" ELSE "pending"
    <3> SUFFICES ASSUME NEW x \in ResearchTeam
                 PROVE  b2.status[x] =
                          IF s0.debate.judge # "" THEN "completed"
                          ELSE IF s0.debate.history # << >> \/ (x = "Bull Researcher" /\ Open(s) = {})
                          THEN "in_progress" ELSE "pending"
      OBVIOUS
    <3>1. b2.status[x] = IF x = "Bull Researcher" /\ Open(s) = {} /\ b1.status[x] = "pending"
                         THEN "in_progress" ELSE b1.status[x]
      BY <1>5, <1>6
    <3>2. b1.status[x] =
            IF s0.debate.judge # "" THEN "completed"
            ELSE IF s0.debate.history # << >> \/ (x = "Bull Researcher" /\ Open(s0) = {})
            THEN "in_progress" ELSE "pending"
      BY <1>4 DEF ShowsResearch
    <3>3. Open(s0) = {} => Open(s) = {}
      <4>1. \A a \in Selected : s0.reports[a] # "" => s.reports[a] # ""
        BY SelectedFacts DEF Later
      <4> QED
        BY <4>1 DEF Open
    <3> QED
      BY <3>1, <3>2, <3>3
  <2>2. b2.sections["investment_plan"] = b1.sections["investment_plan"]
    BY <1>5, <1>7
  <2> QED
    BY <1>4, <2>1, <2>2 DEF AlmostResearch, ShowsResearch
<1>9. /\ Same(b2, b3, ResearchTeam \cup {"Trader"}, {"investment_plan"}) /\ ShowsResearch(b3, s)
      /\ b3.status["Trader"] = IF s.debate.judge # "" THEN "in_progress" ELSE b2.status["Trader"]
  BY <1>5, <1>8, ResearchUpdate
<1> HIDE DEF b3
<1>10. b3 \in Buffers
  BY <1>9 DEF Same
<1>11. \A x \in RiskAnalysts \cup {"Portfolio Manager"} : b3.status[x] = b1.status[x]
  <2>1. \A x \in RiskAnalysts \cup {"Portfolio Manager"} :
          b2.status[x] = b1.status[x] /\ x \in Agents \ (ResearchTeam \cup {"Trader"})
    BY <1>5, <1>6, SelectedFacts DEF ResearchTeam
  <2> QED
    BY <1>9, <2>1 DEF Same
<1>12. b3.sections["trader_investment_plan"] = b1.sections["trader_investment_plan"]
       /\ b3.sections["final_trade_decision"] = b1.sections["final_trade_decision"]
  BY <1>5, <1>7, <1>9, SelectedFacts DEF Same
<1>13. AlmostTrader(b3, s0, s)
  <2>1. b2.status["Trader"] = b1.status["Trader"]
    BY <1>5, <1>6
  <2>2. b3.status["Trader"] =
          IF s.debate.judge # "" THEN "in_progress"
          ELSE IF s0.proposal # "" THEN "completed"
          ELSE IF s0.debate.judge # "" THEN "in_progress" ELSE "pending"
    BY <1>4, <1>9, <2>1 DEF ShowsTrader
  <2>3. b3.sections["trader_investment_plan"] = IF s0.proposal # "" THEN s0.proposal ELSE None
    BY <1>4, <1>12 DEF ShowsTrader
  <2>4. s0.proposal # "" => b3.status["Aggressive"] = "in_progress"
    BY <1>4, <1>6, <1>11 DEF ShowsRisk, Later
  <2> QED
    BY <2>2, <2>3, <2>4 DEF AlmostTrader
<1>14. /\ Same(b3, b4, {"Trader", "Aggressive"}, {"trader_investment_plan"}) /\ ShowsTrader(b4, s)
       /\ b4.status["Aggressive"] = IF s.proposal # "" THEN "in_progress" ELSE b3.status["Aggressive"]
  BY <1>10, <1>13, TraderUpdate
<1> HIDE DEF b4
<1>15. b4 \in Buffers
  BY <1>14 DEF Same
<1>16. AlmostRisk(b4, s0, s)
  <2>1. \A x \in RiskAnalysts : b1.status[x] =
          IF s0.risk.said[x] # << >> \/ (x = "Aggressive" /\ s0.proposal # "")
          THEN "in_progress" ELSE "pending"
    BY <1>4 DEF ShowsRisk, Later
  <2>2. s.proposal = "" => s0.proposal = ""
    BY DEF Later
  <2>3. \A x \in RiskAnalysts : b4.status[x] =
          IF x = "Aggressive" /\ s.proposal # "" THEN "in_progress" ELSE b1.status[x]
    <3>1. \A x \in RiskAnalysts : x # "Aggressive" => x \in Agents \ {"Trader", "Aggressive"}
      BY <1>6, SelectedFacts
    <3>2. \A x \in RiskAnalysts : x # "Aggressive" => b4.status[x] = b1.status[x]
      BY <1>11, <1>14, <3>1 DEF Same
    <3> QED
      BY <1>6, <1>11, <1>14, <3>2
  <2>4. \A x \in RiskAnalysts : b4.status[x] =
          IF s0.risk.said[x] # << >> \/ (x = "Aggressive" /\ s.proposal # "")
          THEN "in_progress" ELSE "pending"
    BY <2>1, <2>2, <2>3
  <2>5. b4.status["Portfolio Manager"] = "pending"
    <3>1. b1.status["Portfolio Manager"] = "pending"
      BY <1>4 DEF ShowsRisk, Later
    <3>2. "Portfolio Manager" \in Agents \ {"Trader", "Aggressive"}
      BY <1>6, SelectedFacts
    <3> QED
      BY <1>11, <1>14, <3>1, <3>2 DEF Same
  <2>6. b4.sections["final_trade_decision"] = b1.sections["final_trade_decision"]
    BY <1>7, <1>12, <1>14, SelectedFacts DEF Same
  <2>7. b1.sections["final_trade_decision"] =
          IF s0.risk.said["Neutral"] # << >> THEN "Neutral"
          ELSE IF s0.risk.said["Conservative"] # << >> THEN "Conservative"
          ELSE IF s0.risk.said["Aggressive"] # << >> THEN "Aggressive" ELSE None
    BY <1>4 DEF ShowsRisk, Later
  <2> QED
    BY <2>4, <2>5, <2>6, <2>7 DEF AlmostRisk
<1>17. /\ Same(b4, c, RiskAnalysts \cup {"Portfolio Manager"}, {"final_trade_decision"})
       /\ ShowsRisk(c, s)
  BY <1>1, <1>15, <1>16, RiskUpdate
<1>18. /\ c \in Buffers /\ c.seen = b1.seen /\ c.log = b1.log
       /\ \A x \in Agents : x \notin ResearchTeam \cup RiskAnalysts \cup {"Trader", "Portfolio Manager"} =>
            c.status[x] = b2.status[x]
       /\ \A x \in ResearchTeam : c.status[x] = b3.status[x]
       /\ c.status["Trader"] = b4.status["Trader"]
       /\ \A x \in SectionNames : x \notin Range(TeamSections) => c.sections[x] = b2.sections[x]
       /\ c.sections["investment_plan"] = b3.sections["investment_plan"]
       /\ c.sections["trader_investment_plan"] = b4.sections["trader_investment_plan"]
  <2>1. c \in Buffers /\ c.seen = b1.seen /\ c.log = b1.log
    BY <1>5, <1>9, <1>14, <1>17 DEF Same
  <2>2. \A x \in Agents : x \notin ResearchTeam \cup RiskAnalysts \cup {"Trader", "Portfolio Manager"} =>
          c.status[x] = b2.status[x]
    BY <1>6, <1>9, <1>14, <1>17 DEF Same
  <2>3. \A x \in ResearchTeam : x \in Agents /\ x \notin {"Trader", "Aggressive"}
                                 /\ x \notin RiskAnalysts \cup {"Portfolio Manager"}
    BY <1>6, SelectedFacts
  <2>4. \A x \in ResearchTeam : c.status[x] = b3.status[x]
    BY <1>14, <1>17, <2>3 DEF Same
  <2>5. c.status["Trader"] = b4.status["Trader"]
    BY <1>6, <1>17, SelectedFacts DEF Same
  <2>6. \A x \in SectionNames : x \notin Range(TeamSections) => c.sections[x] = b2.sections[x]
    BY <1>7, <1>9, <1>14, <1>17 DEF Same
  <2>7. c.sections["investment_plan"] = b3.sections["investment_plan"]
    BY <1>7, <1>14, <1>17, SelectedFacts DEF Same
  <2>8. c.sections["trader_investment_plan"] = b4.sections["trader_investment_plan"]
    BY <1>7, <1>17, SelectedFacts DEF Same
  <2> QED
    BY <2>1, <2>2, <2>4, <2>5, <2>6, <2>7, <2>8
<1>19. ShowsAnalysts(c, s)
  <2>1. \A a \in Selected :
          /\ AnalystName(a) \in Agents /\ a \in SectionNames /\ a \notin Range(TeamSections)
          /\ AnalystName(a) \notin ResearchTeam \cup RiskAnalysts \cup {"Trader", "Portfolio Manager"}
    BY SelectedFacts DEF FixedAgents
  <2>2. \A a \in Selected :
          c.sections[a] = b2.sections[a] /\ c.status[AnalystName(a)] = b2.status[AnalystName(a)]
    BY <1>18, <2>1
  <2> QED
    BY <1>5, <2>2 DEF ShowsAnalysts
<1>20. ShowsResearch(c, s)
  <2>1. \A x \in ResearchTeam : c.status[x] = b3.status[x]
    BY <1>18
  <2>2. c.sections["investment_plan"] = b3.sections["investment_plan"]
    BY <1>18
  <2>3. ShowsResearch(b3, s) <=> ShowsResearch(c, s)
    BY <2>1, <2>2, Zenon DEF ShowsResearch
  <2> QED
    BY <1>9, <2>3
<1>21. ShowsTrader(c, s)
  BY <1>14, <1>18 DEF ShowsTrader
<1> QED
  BY <1>17, <1>18, <1>19, <1>20, <1>21 DEF Shows, b1

-----------------------------------------------------------------------------
(* The start of a run.                                                     *)
LEMMA OrderedFacts ==
    ASSUME NEW A
    PROVE  /\ Ordered(A) \in Seq(AnalystKeys) /\ Range(Ordered(A)) = A \cap AnalystKeys
           /\ \A i, j \in DOMAIN Ordered(A) : Ordered(A)[i] = Ordered(A)[j] => i = j
<1> DEFINE S == {i \in DOMAIN AnalystOrder : AnalystOrder[i] \in A}
           e == ElementsAt(AnalystOrder, S)
           C == Cardinality(S)
<1>1. /\ AnalystOrder \in Seq(AnalystKeys) /\ DOMAIN AnalystOrder = 1 .. 5
      /\ \A i, j \in 1 .. 5 : AnalystOrder[i] = AnalystOrder[j] => i = j
      /\ \A a \in AnalystKeys : \E i \in 1 .. 5 : AnalystOrder[i] = a
  <2>1. DOMAIN AnalystOrder = 1 .. 5
    BY DEF AnalystOrder
  <2>2. \A i, j \in 1 .. 5 : AnalystOrder[i] = AnalystOrder[j] => i = j
    BY DEF AnalystOrder
  <2>3. AnalystKeys = {AnalystOrder[i] : i \in 1 .. 5}
    BY <2>1 DEF AnalystKeys, Range
  <2>4. AnalystOrder \in Seq(AnalystKeys)
    <3>1. AnalystOrder = [i \in 1 .. 5 |-> AnalystOrder[i]]
      BY DEF AnalystOrder
    <3>2. \A i \in 1 .. 5 : AnalystOrder[i] \in AnalystKeys
      BY <2>3
    <3> HIDE DEF AnalystOrder
    <3> QED
      BY <3>1, <3>2, IsASeq
  <2> QED
    BY <2>1, <2>2, <2>3, <2>4
<1>2. S \in SUBSET DOMAIN AnalystOrder
  OBVIOUS
<1>3. /\ e \in Seq(AnalystKeys) /\ DOMAIN e = 1 .. C /\ C \in Nat
      /\ \A n \in 1 .. C : Nth(S, n) \in S /\ e[n] = AnalystOrder[Nth(S, n)]
      /\ \A i \in S : \E n \in 1 .. C : Nth(S, n) = i
      /\ \A m, n \in 1 .. C : m < n => Nth(S, m) < Nth(S, n)
  <2> HIDE DEF S
  <2> QED
    BY <1>1, <1>2, ElementsAtProperties
<1> HIDE DEF e, C
<1>4. \A m, n \in 1 .. C : e[m] = e[n] => m = n
  <2>1. \A m, n \in 1 .. C : e[m] = e[n] => Nth(S, m) = Nth(S, n)
    BY <1>1, <1>3
  <2>2. \A m \in 1 .. C : Nth(S, m) \in 1 .. 5
    BY <1>1, <1>3
  <2> HIDE DEF S
  <2> QED
    BY <1>3, <2>1, <2>2
<1>5. \A a : (\E n \in 1 .. C : e[n] = a) <=> a \in A \cap AnalystKeys
  <2>1. ASSUME NEW n \in 1 .. C PROVE e[n] \in A \cap AnalystKeys
    <3>1. Nth(S, n) \in S /\ e[n] = AnalystOrder[Nth(S, n)]
      BY <1>3
    <3>2. \A i \in S : AnalystOrder[i] \in A
      OBVIOUS
    <3>3. e[n] \in A
      BY <3>1, <3>2
    <3>4. e[n] \in AnalystKeys
      BY <1>3
    <3> QED
      BY <3>3, <3>4
  <2>2. ASSUME NEW a \in A \cap AnalystKeys PROVE \E n \in 1 .. C : e[n] = a
    <3>1. PICK i \in S : AnalystOrder[i] = a
      BY <1>1
    <3> QED
      BY <1>3, <3>1
  <2> QED
    BY <2>1, <2>2
<1>6. Range(e) = A \cap AnalystKeys
  BY <1>3, <1>5 DEF Range
<1> QED
  BY <1>3, <1>4, <1>6 DEF Ordered, e

LEMMA StartShape ==
    ASSUME NEW s \in Sessions, Outcome(s) = "streaming"
    PROVE  LET c == RunConfig(s)
               sh == ShapeOf(c, s.env) IN
           /\ sh \in Shapes /\ sh.plan # << >> /\ Ordered(c.analysts) # << >>
           /\ \A i, j \in DOMAIN sh.plan : sh.plan[i] = sh.plan[j] => i = j
           /\ Range(sh.plan) \subseteq Range(Ordered(c.analysts))
<1> DEFINE c == RunConfig(s)
           F == FilterEnabled(c.analysts, s.env)
           sh == ShapeOf(c, s.env)
<1>1. ~CancelledEarly(s) /\ F # {}
  BY DEF Outcome
<1>2. c.analysts \subseteq AnalystKeys
  <2>1. AnalystKeySet = AnalystKeys
    BY NodeKinds DEF AnalystKeySet
  <2> QED
    BY <2>1 DEF RunConfig, SelectAnalysts, Offered
<1>3. F \subseteq c.analysts
  BY DEF FilterEnabled
<1>4. {s.env.debate, s.env.risk, s.ans.depth} \subseteq Int \cup {None}
  BY SessionsAssumption
<1>5. c.debate \in Int /\ c.risk \in Int
  <2>1. DepthAsked(s) => s.ans.depth # None
    BY <1>1 DEF CancelledEarly
  <2>2. c.debate = FromEnv(s.env.debate, Depth(s)) /\ c.risk = FromEnv(s.env.risk, Depth(s))
    BY DEF RunConfig
  <2> HIDE DEF c
  <2> QED
    BY <1>4, <2>1, <2>2 DEF FromEnv, Depth, DepthAsked
<1> HIDE DEF c, F
<1>6. sh.plan = Ordered(F) /\ sh = [plan |-> Ordered(F), debate |-> c.debate, risk |-> c.risk,
                                    bist |-> c.asset = "bist"]
  BY DEF ShapeOf, F
<1>7. /\ Ordered(F) \in Seq(AnalystKeys) /\ Range(Ordered(F)) = F
      /\ \A i, j \in DOMAIN Ordered(F) : Ordered(F)[i] = Ordered(F)[j] => i = j
  <2>1. F \cap AnalystKeys = F
    BY <1>2, <1>3
  <2> QED
    BY <2>1, OrderedFacts
<1>8. Range(Ordered(c.analysts)) = c.analysts
  <2>1. c.analysts \cap AnalystKeys = c.analysts
    BY <1>2
  <2> QED
    BY <2>1, OrderedFacts
<1>9. Range(<< >>) = {}
  BY DEF Range
<1>10. Ordered(F) # << >> /\ Ordered(c.analysts) # << >>
  BY <1>1, <1>3, <1>7, <1>8, <1>9
<1>11. sh \in Shapes
  BY <1>5, <1>6, <1>7 DEF Shapes
<1> HIDE DEF sh
<1> QED
  BY <1>3, <1>6, <1>7, <1>8, <1>10, <1>11 DEF sh, c

LEMMA EmptyBuffer ==
    /\ InitForAnalysis \in Buffers /\ InitForAnalysis.seen = {} /\ InitForAnalysis.log = << >>
    /\ \A x \in Agents : InitForAnalysis.status[x] = "pending"
    /\ \A x \in SectionNames : InitForAnalysis.sections[x] = None
<1> DEFINE f == [x \in Agents |-> "pending"]
           g == [x \in SectionNames |-> None]
<1>1. InitForAnalysis = [status |-> f, sections |-> g, seen |-> {}, log |-> << >>, files |-> g]
  BY DEF InitForAnalysis, Agents, SectionNames
<1>2. f \in [Agents -> Statuses] /\ g \in [SectionNames -> Contents]
  BY DEF Statuses, Contents
<1>3. (\A x \in Agents : f[x] = "pending") /\ \A x \in SectionNames : g[x] = None
  OBVIOUS
<1>4. << >> \in Seq(Nat)
  OBVIOUS
<1> HIDE DEF f, g
<1> QED
  BY <1>1, <1>2, <1>3, <1>4 DEF Buffers

LEMMA FirstShown ==
    ASSUME ChosenTypes, chosen # << >>
    PROVE  /\ Head(chosen) = chosen[1] /\ Head(chosen) \in Selected
           /\ Open(InitialState) = Selected /\ FirstOpen(InitialState) = {Head(chosen)}
<1>1. /\ DOMAIN chosen = 1 .. Len(chosen) /\ Len(chosen) \in Nat /\ Len(chosen) # 0
      /\ chosen \in Seq(AnalystKeys)
  BY LenProperties, EmptySeq DEF ChosenTypes
<1>2. 1 \in DOMAIN chosen
  BY <1>1
<1>3. Head(chosen) = chosen[1]
  BY <1>1
<1>4. Selected \subseteq AnalystKeys
  BY SelectedFacts
<1>5. Open(InitialState) = Selected
  BY <1>4 DEF Open, InitialState
<1>6. Selected = {chosen[i] : i \in DOMAIN chosen}
  BY DEF Selected, Range
<1>7. \A a \in Selected : (\A c \in Selected : \E i, j \in DOMAIN chosen :
                             chosen[i] = a /\ chosen[j] = c /\ i <= j) <=> a = chosen[1]
  <2>1. ASSUME NEW c \in Selected
        PROVE  \E i, j \in DOMAIN chosen : chosen[i] = chosen[1] /\ chosen[j] = c /\ i <= j
    <3>1. PICK j \in DOMAIN chosen : chosen[j] = c
      BY <1>6
    <3>2. 1 <= j
      BY <1>1
    <3> QED
      BY <1>2, <3>1, <3>2
  <2>2. ASSUME NEW a, \E i, j \in DOMAIN chosen :
                        chosen[i] = a /\ chosen[j] = chosen[1] /\ i <= j
        PROVE  a = chosen[1]
    <3>1. PICK i \in DOMAIN chosen, j \in DOMAIN chosen :
            chosen[i] = a /\ chosen[j] = chosen[1] /\ i <= j
      BY <2>2
    <3>2. j = 1
      BY <1>2, <3>1 DEF ChosenTypes
    <3> QED
      BY <1>1, <3>1, <3>2
  <2>3. chosen[1] \in Selected
    BY <1>2, <1>6
  <2> QED
    BY <2>1, <2>2, <2>3
<1>8. FirstOpen(InitialState) = {chosen[1]}
  <2>1. chosen[1] \in Selected
    BY <1>2, <1>6
  <2>2. \A a : a \in FirstOpen(InitialState) <=>
               a \in Selected /\ \A c \in Selected : \E i, j \in DOMAIN chosen :
                                   chosen[i] = a /\ chosen[j] = c /\ i <= j
    BY <1>5 DEF FirstOpen
  <2>3. \A a : a \in FirstOpen(InitialState) <=> a = chosen[1]
    BY <1>7, <2>1, <2>2
  <2> QED
    BY <2>3
<1> QED
  BY <1>2, <1>3, <1>5, <1>6, <1>8

LEMMA FirstChunk ==
    ASSUME ChosenTypes, chosen # << >>
    PROVE  LET c == UpdateAnalystStatuses(LogMessages(BeforeStream, <<Human>>), InitialState) IN
           /\ c \in Buffers /\ Shows(c, InitialState) /\ c.seen = {0} /\ c.log = <<0>>
<1> DEFINE s == InitialState
           x0 == AnalystName(Head(chosen))
           X == {x0}
           b0 == BeforeStream
           b1 == LogMessages(b0, <<Human>>)
           c == UpdateAnalystStatuses(b1, s)
<1>1. /\ Head(chosen) \in Selected /\ Open(s) = Selected /\ FirstOpen(s) = {Head(chosen)}
  BY FirstShown
<1>2. /\ \A a \in AnalystKeys : s.reports[a] = ""
      /\ s.debate.judge = "" /\ s.debate.history = << >> /\ s.proposal = "" /\ s.risk.judge = ""
      /\ s.debate.said["Bull"] = << >> /\ s.debate.said["Bear"] = << >>
      /\ s.risk.said["Aggressive"] = << >> /\ s.risk.said["Conservative"] = << >>
      /\ s.risk.said["Neutral"] = << >>
      /\ \A d \in Debaters : s.debate.said[d] = << >>
      /\ \A r \in RiskAnalysts : s.risk.said[r] = << >>
  BY DEF InitialState, Debaters, RiskAnalysts
<1>3. s \in States /\ Human \in Messages
  BY InitialTypes
<1> HIDE DEF s
<1>4. Later(s, s)
  BY <1>2 DEF Later
<1>5. /\ b0 \in Buffers /\ b0.seen = {} /\ b0.log = << >>
      /\ \A x \in Agents : b0.status[x] = IF x = x0 THEN "in_progress" ELSE "pending"
      /\ \A x \in SectionNames : b0.sections[x] = None
  <2> HIDE DEF X
  <2>1. b0 = UpdateStatus(InitForAnalysis, X, "in_progress")
    BY DEF BeforeStream, X
  <2>2. "in_progress" \in Statuses /\ InitForAnalysis \in Buffers
    BY EmptyBuffer DEF Statuses
  <2> HIDE DEF b0
  <2>3. /\ Same(InitForAnalysis, b0, X, {}) /\ b0.sections = InitForAnalysis.sections
        /\ \A x \in Agents : b0.status[x] = IF x \in X THEN "in_progress" ELSE InitForAnalysis.status[x]
    BY <2>1, <2>2, StatusUpdate
  <2>4. \A x : x \in X <=> x = x0
    BY DEF X
  <2> QED
    BY <2>3, <2>4, EmptyBuffer DEF Same
<1> HIDE DEF b0
<1>6. <<Human>> \in Seq(Messages)
  BY <1>3
<1>7. /\ b1 \in Buffers /\ b1.status = b0.status /\ b1.sections = b0.sections
      /\ b1.seen = {0} /\ b1.log = <<0>>
  <2> DEFINE ms == <<Human>>
             new == {i \in DOMAIN ms : ms[i].id \notin b0.seen}
             shown == {i \in new : Shown(ms[i])}
  <2>1. DOMAIN ms = {1} /\ ms[1] = Human
    OBVIOUS
  <2>2. Human.id = 0 /\ Shown(Human)
    BY DEF Human, Shown
  <2>3. ms \in Seq(Messages)
    BY <1>6
  <2> HIDE DEF ms
  <2>4. new = {1} /\ shown = {1}
    BY <1>5, <2>1, <2>2
  <2>5. {ms[i].id : i \in new} = {0}
    BY <2>1, <2>2, <2>4
  <2>6. Ids(ElementsAt(ms, shown)) = <<0>>
    <3>1. 1 \in DOMAIN ms
      BY <2>1
    <3>2. ElementsAt(ms, {1}) = <<Human>>
      BY <2>1, <2>3, <3>1, ElementsAtOne
    <3>3. Ids(<<Human>>) = <<0>>
      <4> DEFINE h == <<Human>>
      <4>1. DOMAIN h = 1 .. 1 /\ h[1] = Human
        OBVIOUS
      <4>2. Ids(h) = [i \in 1 .. 1 |-> 0]
        <5> HIDE DEF h
        <5>1. \A i \in 1 .. 1 : h[i].id = 0
          BY <2>2, <4>1
        <5> QED
          BY <4>1, <5>1 DEF Ids
      <4>3. [i \in 1 .. 1 |-> 0] = <<0>>
        OBVIOUS
      <4> QED
        BY <4>2, <4>3
    <3> QED
      BY <2>4, <3>2, <3>3
  <2>7. b0.seen = {} /\ b0.log = << >> /\ b0 \in Buffers
    BY <1>5
  <2> DEFINE d == LogMessages(b0, ms)
  <2>8. /\ d \in Buffers /\ d.status = b0.status /\ d.sections = b0.sections
        /\ d.seen = b0.seen \cup {ms[i].id : i \in new}
        /\ d.log = b0.log \o Ids(ElementsAt(ms, shown))
    <3> HIDE DEF d
    <3> QED
      BY <2>3, <2>7, LogUpdate DEF d
  <2> HIDE DEF d, new, shown
  <2>9. << >> \o <<0>> = <<0>>
    OBVIOUS
  <2> QED
    BY <2>5, <2>6, <2>7, <2>8, <2>9 DEF d, ms
<1> HIDE DEF b1
<1>8. /\ FixedAgents \subseteq Agents /\ Range(TeamSections) \subseteq SectionNames
      /\ Selected \subseteq AnalystKeys
      /\ \A a \in Selected : AnalystName(a) \in Agents /\ a \in SectionNames
      /\ \A a \in Selected : AnalystName(a) \notin FixedAgents
  BY SelectedFacts
<1>9. ShowsAnalysts(b1, s)
  <2>1. \A a \in Selected : AnalystName(a) = x0 <=> a = Head(chosen)
    BY <1>1, <1>8, NamesApart
  <2> HIDE DEF x0
  <2> QED
    <3>1. ASSUME NEW a \in Selected
          PROVE  /\ s.reports[a] = "" /\ b1.sections[a] = None
                 /\ b1.status[AnalystName(a)] = IF a \in FirstOpen(s) THEN "in_progress" ELSE "pending"
      <4>1. a \in AnalystKeys /\ a \in SectionNames /\ AnalystName(a) \in Agents
        BY <1>8
      <4>2. s.reports[a] = "" /\ b1.sections[a] = None
        BY <1>2, <1>5, <1>7, <4>1
      <4>3. b1.status[AnalystName(a)] = IF AnalystName(a) = x0 THEN "in_progress" ELSE "pending"
        BY <1>5, <1>7, <4>1
      <4>4. AnalystName(a) = x0 <=> a \in FirstOpen(s)
        BY <1>1, <2>1
      <4> QED
        BY <4>2, <4>3, <4>4
    <3> QED
      BY <3>1 DEF ShowsAnalysts
<1>10. /\ c \in Buffers /\ ShowsAnalysts(c, s) /\ c.seen = b1.seen /\ c.log = b1.log
       /\ \A x \in FixedAgents : c.status[x] =
            IF x = "Bull Researcher" /\ Open(s) = {} /\ b1.status[x] = "pending"
            THEN "in_progress" ELSE b1.status[x]
       /\ \A x \in Range(TeamSections) : c.sections[x] = b1.sections[x]
  <2>1. b1 \in Buffers
    BY <1>7
  <2> QED
    BY <1>3, <1>4, <1>9, <2>1, AnalystsUpdate
<1> HIDE DEF c
<1>11. Open(s) # {}
  BY <1>1
<1>12. \A x \in FixedAgents : c.status[x] = "pending"
  <2>1. \A x \in FixedAgents : x # x0
    BY <1>1, <1>8
  <2> HIDE DEF x0
  <2> QED
    BY <1>5, <1>7, <1>8, <1>10, <1>11, <2>1
<1>13. \A x \in Range(TeamSections) : c.sections[x] = None
  <2>1. \A x \in SectionNames : b1.sections[x] = None
    BY <1>5, <1>7
  <2>2. \A x \in Range(TeamSections) : x \in SectionNames /\ c.sections[x] = b1.sections[x]
    BY <1>8, <1>10
  <2> QED
    BY <2>1, <2>2
<1>14. /\ ResearchTeam \subseteq FixedAgents /\ RiskAnalysts \subseteq FixedAgents
       /\ {"Trader", "Portfolio Manager"} \subseteq FixedAgents
       /\ Range(TeamSections) = {"investment_plan", "trader_investment_plan", "final_trade_decision"}
  BY NamesApart DEF FixedAgents
<1>15. ShowsResearch(c, s)
  BY <1>2, <1>11, <1>12, <1>13, <1>14 DEF ShowsResearch
<1>16. ShowsTrader(c, s)
  BY <1>2, <1>12, <1>13, <1>14 DEF ShowsTrader
<1>17. ShowsRisk(c, s)
  BY <1>2, <1>12, <1>13, <1>14 DEF ShowsRisk
<1> QED
  BY <1>7, <1>10, <1>15, <1>16, <1>17 DEF Shows, c, b1, b0, s

-----------------------------------------------------------------------------
(* The wall times.                                                         *)
LEMMA TimerUpdate ==
    ASSUME NEW t \in Timers, NEW A, NEW now \in Nat
    PROVE  /\ MarkStarted(t, A, now) \in Timers /\ MarkStarted(t, A, now).wall = t.wall
           /\ \A a \in Selected : MarkStarted(t, A, now).started[a] =
                IF a \in A /\ t.started[a] = None THEN now ELSE t.started[a]
           /\ MarkCompleted(t, A, now) \in Timers
           /\ MarkCompleted(t, A, now).started = t.started
           /\ \A a \in Selected : MarkCompleted(t, A, now).wall[a] =
                IF a \in A /\ t.wall[a] = None /\ t.started[a] # None
                THEN now - t.started[a] ELSE t.wall[a]
<1> DEFINE f == [a \in Selected |-> IF a \in A /\ t.started[a] = None THEN now ELSE t.started[a]]
           g == [a \in Selected |-> IF a \in A /\ t.wall[a] = None /\ t.started[a] # None
                                    THEN now - t.started[a] ELSE t.wall[a]]
<1>1. t.started \in [Selected -> Nat \cup {None}] /\ t.wall \in [Selected -> Int \cup {None}]
  BY DEF Timers
<1>2. f \in [Selected -> Nat \cup {None}]
  BY <1>1
<1>3. g \in [Selected -> Int \cup {None}]
  <2>1. ASSUME NEW a \in Selected, t.started[a] # None PROVE now - t.started[a] \in Int
    <3>1. t.started[a] \in Nat
      BY <1>1, <2>1
    <3> QED
      BY <3>1
  <2>2. \A a \in Selected : t.wall[a] \in Int \cup {None}
    BY <1>1
  <2> QED
    BY <2>1, <2>2
<1>4. MarkStarted(t, A, now) = [t EXCEPT !.started = f]
  BY <1>1 DEF MarkStarted
<1>5. MarkCompleted(t, A, now) = [t EXCEPT !.wall = g]
  BY <1>1 DEF MarkCompleted
<1>6. /\ \A a \in Selected : f[a] = IF a \in A /\ t.started[a] = None THEN now ELSE t.started[a]
      /\ \A a \in Selected : g[a] = IF a \in A /\ t.wall[a] = None /\ t.started[a] # None
                                    THEN now - t.started[a] ELSE t.wall[a]
  OBVIOUS
<1> HIDE DEF f, g
<1> DEFINE c == [t EXCEPT !.started = f]
           d == [t EXCEPT !.wall = g]
<1>7. c \in Timers /\ c.wall = t.wall /\ c.started = f
  BY <1>2 DEF Timers
<1>8. d \in Timers /\ d.started = t.started /\ d.wall = g
  BY <1>3 DEF Timers
<1> HIDE DEF c, d
<1> QED
  BY <1>4, <1>5, <1>6, <1>7, <1>8 DEF c, d

LEMMA TrackerUpdate ==
    ASSUME ChosenTypes, NEW t \in Timers, NEW s, NEW now \in Nat
    PROVE  LET c == SyncTracker(t, s, now) IN
           /\ c \in Timers
           /\ \A a \in Selected :
                /\ c.started[a] =
                     IF (s.reports[a] # "" \/ a \in FirstOpen(s)) /\ t.started[a] = None
                     THEN now ELSE t.started[a]
                /\ c.wall[a] =
                     IF s.reports[a] # "" /\ t.wall[a] = None
                     THEN now - c.started[a] ELSE t.wall[a]
<1> DEFINE done == {a \in Selected : s.reports[a] # ""}
           first == {a \in Selected \ done : \A c \in Selected \ done :
                       \E i, j \in DOMAIN chosen : chosen[i] = a /\ chosen[j] = c /\ i <= j}
           A == done \cup first
           u == MarkStarted(t, A, now)
           c == MarkCompleted(u, done, now)
<1>1. SyncTracker(t, s, now) = c
  BY DEF SyncTracker
<1>2. Selected \ done = Open(s)
  BY DEF Open
<1>3. first = FirstOpen(s)
  BY <1>2 DEF FirstOpen
<1>4. \A a \in Selected : (a \in done <=> s.reports[a] # "")
                       /\ (a \in A <=> s.reports[a] # "" \/ a \in FirstOpen(s))
  <2> HIDE DEF first
  <2> QED
    BY <1>3
<1> HIDE DEF A, done
<1>5. /\ u \in Timers /\ u.wall = t.wall
      /\ \A a \in Selected : u.started[a] =
           IF a \in A /\ t.started[a] = None THEN now ELSE t.started[a]
  BY TimerUpdate
<1> HIDE DEF u
<1>6. /\ c \in Timers /\ c.started = u.started
      /\ \A a \in Selected : c.wall[a] =
           IF a \in done /\ u.wall[a] = None /\ u.started[a] # None
           THEN now - u.started[a] ELSE u.wall[a]
  BY <1>5, TimerUpdate
<1> HIDE DEF c
<1>7. now # None
  BY NoneAssumption
<1>8. ASSUME NEW a \in Selected
      PROVE  /\ c.started[a] = IF (s.reports[a] # "" \/ a \in FirstOpen(s)) /\ t.started[a] = None
                               THEN now ELSE t.started[a]
             /\ c.wall[a] = IF s.reports[a] # "" /\ t.wall[a] = None
                            THEN now - c.started[a] ELSE t.wall[a]
  <2>1. c.started[a] = IF (s.reports[a] # "" \/ a \in FirstOpen(s)) /\ t.started[a] = None
                       THEN now ELSE t.started[a]
    BY <1>4, <1>5, <1>6
  <2>2. s.reports[a] # "" => c.started[a] # None
    BY <1>7, <2>1
  <2>3. c.wall[a] = IF a \in done /\ t.wall[a] = None /\ c.started[a] # None
                    THEN now - c.started[a] ELSE t.wall[a]
    BY <1>5, <1>6
  <2> QED
    BY <1>4, <2>1, <2>2, <2>3
<1> QED
  BY <1>1, <1>6, <1>8

LEMMA FirstTimes ==
  /\ ChosenTypes /\ chosen # << >> /\ st = InitialState
  /\ Plan \in Seq(AnalystKeys) /\ Range(Plan) \subseteq Selected
  /\ timer = SyncTracker(MarkStarted(NotTimed, {Head(chosen)}, 0), InitialState, 0)
  => timer \in Timers /\ Timed
<1> SUFFICES ASSUME ChosenTypes, chosen # << >>, st = InitialState,
                    Plan \in Seq(AnalystKeys), Range(Plan) \subseteq Selected,
                    timer = SyncTracker(MarkStarted(NotTimed, {Head(chosen)}, 0), InitialState, 0)
             PROVE  timer \in Timers /\ Timed
  OBVIOUS
<1> DEFINE h == Head(chosen)
           H == {h}
           u == MarkStarted(NotTimed, H, 0)
           s == InitialState
<1>1. NotTimed \in Timers /\ \A a \in Selected : NotTimed.started[a] = None /\ NotTimed.wall[a] = None
  BY DEF NotTimed, Timers
<1>2. h = chosen[1] /\ h \in Selected /\ FirstOpen(s) = {h}
  BY FirstShown
<1>3. \A a \in AnalystKeys : s.reports[a] = ""
  BY DEF InitialState
<1>4. Selected \subseteq AnalystKeys
  BY SelectedFacts
<1>5. \A a : a \in H <=> a = h
  OBVIOUS
<1>6. 0 \in Nat /\ 0 # None
  BY NoneAssumption
<1>7. timer = SyncTracker(u, s, 0)
  OBVIOUS
<1> HIDE DEF s, h, H
<1>8. /\ u \in Timers /\ u.wall = NotTimed.wall
      /\ \A a \in Selected : u.started[a] = IF a \in H /\ NotTimed.started[a] = None
                                            THEN 0 ELSE NotTimed.started[a]
  BY <1>1, <1>6, TimerUpdate
<1> HIDE DEF u
<1>9. /\ timer \in Timers
      /\ \A a \in Selected :
           /\ timer.started[a] = IF (s.reports[a] # "" \/ a \in FirstOpen(s)) /\ u.started[a] = None
                                 THEN 0 ELSE u.started[a]
           /\ timer.wall[a] = IF s.reports[a] # "" /\ u.wall[a] = None
                              THEN 0 - timer.started[a] ELSE u.wall[a]
  <2> DEFINE c == SyncTracker(u, s, 0)
  <2>1. u \in Timers /\ 0 \in Nat
    BY <1>6, <1>8
  <2>2. /\ c \in Timers
        /\ \A a \in Selected :
             /\ c.started[a] = IF (s.reports[a] # "" \/ a \in FirstOpen(s)) /\ u.started[a] = None
                               THEN 0 ELSE u.started[a]
             /\ c.wall[a] = IF s.reports[a] # "" /\ u.wall[a] = None
                            THEN 0 - c.started[a] ELSE u.wall[a]
    BY <2>1, TrackerUpdate
  <2>3. timer = c
    BY <1>7
  <2> HIDE DEF c
  <2> QED
    BY <2>2, <2>3
<1>10. \A a \in Selected : timer.wall[a] = None /\ timer.started[a] = IF a = h THEN 0 ELSE None
  <2>1. ASSUME NEW a \in Selected
        PROVE timer.wall[a] = None /\ timer.started[a] = IF a = h THEN 0 ELSE None
    <3>1. s.reports[a] = ""
      BY <1>3, <1>4
    <3>2. u.wall[a] = None
      BY <1>1, <1>8
    <3>3. u.started[a] = IF a = h THEN 0 ELSE None
      BY <1>1, <1>5, <1>8
    <3>4. a \in FirstOpen(s) <=> a = h
      BY <1>2
    <3> QED
      BY <1>6, <1>9, <3>1, <3>2, <3>3, <3>4
  <2> QED
    BY <2>1
<1>11. \A i \in DOMAIN Plan : Plan[i] \in Selected /\ st.reports[Plan[i]] = ""
  <2>1. \A i \in DOMAIN Plan : Plan[i] \in Selected
    BY DEF Range
  <2>2. st = s
    BY DEF s
  <2> QED
    BY <1>3, <1>4, <2>1, <2>2
<1>12. DOMAIN Plan = 1 .. Len(Plan) /\ Len(Plan) \in Nat
  BY LenProperties
<1>13. \A i \in DOMAIN Plan : timer.wall[Plan[i]] # None <=> st.reports[Plan[i]] # ""
  BY <1>10, <1>11
<1>14. ASSUME chosen = Plan, NEW i \in DOMAIN Plan
       PROVE  /\ (\A j \in 1 .. i - 1 : st.reports[Plan[j]] # "") =>
                   IF i = 1 THEN timer.started[Plan[i]] = 0
                   ELSE timer.started[Plan[i]] \in AnsweredAt(Plan[i - 1])
              /\ (\E j \in 1 .. i - 1 : st.reports[Plan[j]] = "") /\ st.reports[Plan[i]] = "" =>
                   timer.started[Plan[i]] = None
              /\ (\A j \in 1 .. i : st.reports[Plan[j]] # "") =>
                   \E t \in AnsweredAt(Plan[i]) : timer.wall[Plan[i]] = t - timer.started[Plan[i]]
  <2>1. i \in Nat /\ i >= 1 /\ 1 \in 1 .. i /\ 1 \in DOMAIN Plan
    BY <1>12
  <2>2. st.reports[Plan[1]] = ""
    BY <1>11, <2>1
  <2>3. ~(\A j \in 1 .. i : st.reports[Plan[j]] # "")
    BY <2>1, <2>2
  <2>4. CASE i = 1
    <3>1. Plan[i] = h
      BY <1>2, <1>14, <2>4
    <3>2. timer.started[Plan[i]] = 0
      BY <1>2, <1>10, <3>1
    <3>3. ~(\E j \in 1 .. i - 1 : st.reports[Plan[j]] = "")
      BY <2>4
    <3> QED
      BY <2>3, <2>4, <3>2, <3>3
  <2>5. CASE i # 1
    <3>1. 1 \in 1 .. i - 1
      BY <2>1, <2>5
    <3>2. Plan[i] # Plan[1]
      BY <1>14, <2>1, <2>5 DEF ChosenTypes
    <3>3. timer.started[Plan[i]] = None
      BY <1>2, <1>10, <1>11, <1>14, <3>2
    <3> QED
      BY <2>2, <2>3, <3>1, <3>3
  <2> QED
    BY <2>4, <2>5
<1> QED
  BY <1>9, <1>13, <1>14 DEF Timed

-----------------------------------------------------------------------------
(* The log on a chunk: what the chunk repeats is in the log already, and   *)
(* its new message, if it has one, is at the end of both.                  *)
LEMMA IdsAppend ==
    ASSUME NEW r \in Seq(Messages), NEW m \in Messages
    PROVE  /\ Ids(<< >>) = << >> /\ Ids(<<m>>) = <<m.id>>
           /\ Ids(r) \in Seq(Nat) /\ Ids(Append(r, m)) = Ids(r) \o <<m.id>>
<1> DEFINE q == Append(r, m)
           n == Len(r)
<1>1. /\ DOMAIN r = 1 .. n /\ n \in Nat
      /\ DOMAIN q = 1 .. n + 1 /\ q[n + 1] = m /\ \A i \in 1 .. n : q[i] = r[i]
  BY LenProperties, AppendProperties
<1>2. m.id \in Nat /\ \A i \in 1 .. n : r[i].id \in Nat
  <2>1. \A i \in 1 .. n : r[i] \in Messages
    BY <1>1
  <2> QED
    BY <2>1 DEF Messages
<1> HIDE DEF q, n
<1>3. Ids(r) = [i \in 1 .. n |-> r[i].id]
  BY <1>1 DEF Ids
<1>4. Ids(r) \in Seq(Nat) /\ Len(Ids(r)) = n
  <2> DEFINE f == [i \in 1 .. n |-> r[i].id]
  <2>1. \A i \in 1 .. n : f[i] \in Nat
    BY <1>2
  <2>2. f \in Seq(Nat)
    BY <1>1, <1>2, IsASeq
  <2>3. DOMAIN f = 1 .. n
    OBVIOUS
  <2> HIDE DEF f
  <2>4. Len(f) = n
    BY <1>1, <2>2, <2>3, LenProperties
  <2> QED
    BY <1>3, <2>2, <2>4 DEF f
<1>5. Ids(q) = [i \in 1 .. n + 1 |-> q[i].id]
  BY <1>1 DEF Ids
<1>6. Ids(q) = Ids(r) \o <<m.id>>
  <2> DEFINE f == Ids(q)
             g == Ids(r) \o <<m.id>>
             one == <<m.id>>
  <2>1. one \in Seq(Nat) /\ Len(one) = 1 /\ one[1] = m.id
    BY <1>2
  <2> HIDE DEF one
  <2>2. /\ g \in Seq(Nat) /\ Len(g) = n + 1
        /\ \A i \in 1 .. n + 1 : g[i] = IF i <= n THEN Ids(r)[i] ELSE one[i - n]
    <3> DEFINE rr == Ids(r)
    <3>1. rr \in Seq(Nat) /\ Len(rr) = n
      BY <1>4
    <3> HIDE DEF rr
    <3>2. rr \o one \in Seq(Nat) /\ Len(rr \o one) = n + 1
      <4>1. rr \o one \in Seq(Nat) /\ Len(rr \o one) = Len(rr) + Len(one)
        BY <2>1, <3>1, ConcatProperties
      <4> QED
        BY <2>1, <3>1, <4>1
    <3>3. \A i \in 1 .. Len(rr) + Len(one) :
             (rr \o one)[i] = IF i <= Len(rr) THEN rr[i] ELSE one[i - Len(rr)]
      BY <2>1, <3>1, ConcatProperties
    <3>4. \A i \in 1 .. n + 1 : (rr \o one)[i] = IF i <= n THEN rr[i] ELSE one[i - n]
      BY <2>1, <3>1, <3>3
    <3> QED
      BY <3>2, <3>4 DEF rr, one
  <2> HIDE DEF g
  <2>3. \A i \in 1 .. n : g[i] = r[i].id
    BY <1>1, <1>3, <2>2
  <2>4. g[n + 1] = m.id
    <3>1. (n + 1) - n = 1 /\ n + 1 \in 1 .. n + 1 /\ ~(n + 1 <= n)
      BY <1>1
    <3> QED
      BY <2>1, <2>2, <3>1
  <2>5. DOMAIN g = 1 .. n + 1
    BY <2>2, LenProperties
  <2>6. g = [i \in 1 .. n + 1 |-> g[i]]
    BY <2>2, <2>5, SeqEqual
  <2>7. \A i \in 1 .. n + 1 : g[i] = q[i].id
    <3>1. \A i \in 1 .. n + 1 : i \in 1 .. n \/ i = n + 1
      BY <1>1
    <3> QED
      BY <1>1, <2>3, <2>4, <3>1
  <2> QED
    BY <1>5, <2>6, <2>7 DEF g
<1>7. Ids(<< >>) = << >>
  BY DEF Ids
<1>8. Ids(<<m>>) = <<m.id>>
  <2> DEFINE h == <<m>>
  <2>1. DOMAIN h = 1 .. 1 /\ h[1] = m
    OBVIOUS
  <2>2. Ids(h) = [i \in 1 .. 1 |-> m.id]
    <3> HIDE DEF h
    <3>1. \A i \in 1 .. 1 : h[i].id = m.id
      BY <2>1
    <3> QED
      BY <2>1, <3>1 DEF Ids
  <2>3. [i \in 1 .. 1 |-> m.id] = <<m.id>>
    OBVIOUS
  <2> QED
    BY <2>2, <2>3
<1> QED
  BY <1>4, <1>6, <1>7, <1>8 DEF q

ShownOf(ms) == {k \in DOMAIN ms : Shown(ms[k])}
LEMMA ChunkLogged ==
    ASSUME GInv, Grows, Transcribed, ChosenTypes, buf \in Buffers,
           st'.messages \in Seq(Messages)
    PROVE  LET c == LogMessages(buf, st'.messages) IN
           /\ c.seen = {produced'[k].id : k \in DOMAIN produced'}
           /\ c.log = Ids(ElementsAt(produced', ShownOf(produced')))
<1> DEFINE ms == st'.messages
           c == LogMessages(buf, ms)
           new == {i \in DOMAIN ms : ms[i].id \notin buf.seen}
           shown == {i \in new : Shown(ms[i])}
           added == {ms[i].id : i \in new}
           S == ShownOf(produced)
<1>1. /\ buf.seen = {produced[k].id : k \in DOMAIN produced}
      /\ buf.log = Ids(ElementsAt(produced, S))
  BY DEF Transcribed, ShownOf, Grows
<1>2. produced \in Seq(Messages) /\ steps \in Nat /\ \A m \in Messages : m.id \in Nat
  BY GraphFacts
<1>3. c.seen = buf.seen \cup added /\ c.log = buf.log \o Ids(ElementsAt(ms, shown))
  <2> HIDE DEF ms
  <2> QED
    BY LogUpdate DEF ms
<1> HIDE DEF c
<1>4. st.messages \in Seq(Messages)
  BY GraphFacts DEF States
<1>5. \A k \in DOMAIN st.messages : st.messages[k].id \in buf.seen
  BY <1>1 DEF GInv, Numbered
<1>6. steps + 1 \notin buf.seen
  <2>1. \A k \in DOMAIN produced : produced[k].id <= steps /\ produced[k].id \in Nat
    <3>1. \A k \in DOMAIN produced : produced[k] \in Messages
      BY <1>2
    <3> QED
      BY <1>2, <3>1 DEF GInv, Numbered
  <2> QED
    BY <1>1, <1>2, <2>1
<1>7. S \in SUBSET DOMAIN produced
  BY DEF ShownOf
<1> HIDE DEF S
<1> DEFINE e == ElementsAt(produced, S)
<1>8. e \in Seq(Messages)
  BY <1>2, <1>7, ElementsAtProperties
<1>9. buf.log = Ids(e) /\ Ids(e) \in Seq(Nat)
  BY <1>1, <1>2, <1>7, IdsOf
<1> HIDE DEF e
<1>10. CASE produced' = produced /\ st'.messages = st.messages
  <2>1. new = {}
    BY <1>5, <1>10
  <2>2. added = {} /\ shown = {}
    BY <2>1
  <2> HIDE DEF added, shown
  <2>3. ElementsAt(ms, shown) = << >>
    BY <2>2, ElementsAtNone
  <2>4. Ids(<< >>) = << >>
    BY DEF Ids
  <2>5. c.log = buf.log
    BY <1>3, <1>9, <2>3, <2>4, ConcatEmptySeq
  <2>6. c.seen = buf.seen
    BY <1>3, <2>2
  <2>7. ShownOf(produced') = S
    BY <1>10 DEF S
  <2> QED
    BY <1>1, <1>9, <1>10, <2>5, <2>6, <2>7 DEF e, c
<1>11. ASSUME NEW m \in Messages, m.id = steps + 1, produced' = Append(produced, m),
              ms = Append(st.messages, m) \/ ms = <<m>>
       PROVE  /\ c.seen = {produced'[k].id : k \in DOMAIN produced'}
              /\ c.log = Ids(ElementsAt(produced', ShownOf(produced')))
  <2> DEFINE L == Len(ms)
             N == Len(produced)
             q == Append(produced, m)
             U == ShownOf(q)
  <2>1. /\ L \in DOMAIN ms /\ ms[L] = m
        /\ \A i \in DOMAIN ms : i # L => ms[i].id \in buf.seen
    <3>1. CASE ms = <<m>>
      BY <3>1
    <3>2. CASE ms = Append(st.messages, m)
      <4> DEFINE old == st.messages
      <4>1. old \in Seq(Messages) /\ \A k \in DOMAIN old : old[k].id \in buf.seen
        BY <1>4, <1>5
      <4> HIDE DEF old
      <4>2. /\ DOMAIN old = 1 .. Len(old) /\ Len(old) \in Nat
            /\ Append(old, m) \in Seq(Messages) /\ Len(Append(old, m)) = Len(old) + 1
            /\ DOMAIN Append(old, m) = 1 .. Len(old) + 1
            /\ Append(old, m)[Len(old) + 1] = m
            /\ \A i \in 1 .. Len(old) : Append(old, m)[i] = old[i]
        BY <4>1, LenProperties, AppendProperties
      <4>3. ms = Append(old, m)
        BY <3>2 DEF old
      <4>4. \A i \in 1 .. Len(old) + 1 : i # Len(old) + 1 => i \in 1 .. Len(old)
        BY <4>2
      <4> HIDE DEF ms
      <4>5. L = Len(old) + 1
        BY <4>2, <4>3
      <4> HIDE DEF L
      <4> QED
        BY <4>1, <4>2, <4>3, <4>4, <4>5
    <3> QED
      BY <1>11, <3>1, <3>2
  <2> HIDE DEF L
  <2>2. m.id \notin buf.seen
    BY <1>6, <1>11
  <2>3. new = {L}
    BY <2>1, <2>2
  <2>4. added = {m.id} /\ shown = IF Shown(m) THEN {L} ELSE {}
    BY <2>1, <2>3
  <2> HIDE DEF added, shown, new
  <2>5. /\ DOMAIN produced = 1 .. N /\ N \in Nat /\ q \in Seq(Messages)
        /\ DOMAIN q = 1 .. N + 1 /\ q[N + 1] = m /\ \A i \in 1 .. N : q[i] = produced[i]
    BY <1>2, LenProperties, AppendProperties
  <2>6. produced' = q
    BY <1>11
  <2> HIDE DEF q, N
  <2>7. c.seen = {q[k].id : k \in DOMAIN q}
    <3>1. \A x : x \in c.seen <=> x \in buf.seen \/ x = m.id
      BY <1>3, <2>4
    <3>2. \A x : x \in buf.seen <=> \E k \in 1 .. N : produced[k].id = x
      BY <1>1, <2>5
    <3>3. \A x : x \in {q[k].id : k \in DOMAIN q} <=> \E k \in 1 .. N + 1 : q[k].id = x
      BY <2>5
    <3>4. \A k : k \in 1 .. N + 1 <=> k \in 1 .. N \/ k = N + 1
      BY <2>5
    <3>5. \A x : (\E k \in 1 .. N + 1 : q[k].id = x) <=> (\E k \in 1 .. N : produced[k].id = x) \/ x = m.id
      BY <2>5, <3>4
    <3> QED
      BY <3>1, <3>2, <3>3, <3>5
  <2>8. U = IF Shown(m) THEN S \cup {N + 1} ELSE S
    <3>1. \A k : k \in 1 .. N + 1 <=> k \in 1 .. N \/ k = N + 1
      BY <2>5
    <3>2. \A k : k \in S <=> k \in 1 .. N /\ Shown(produced[k])
      BY <2>5 DEF S, ShownOf
    <3>3. \A k : k \in U <=> k \in 1 .. N + 1 /\ Shown(q[k])
      BY <2>5 DEF ShownOf
    <3>4. N + 1 \notin 1 .. N
      BY <2>5
    <3> HIDE DEF U
    <3>5. \A k : k \in U <=> k \in S \/ (k = N + 1 /\ Shown(m))
      BY <2>5, <3>1, <3>2, <3>3
    <3> QED
      BY <3>5
  <2> HIDE DEF U
  <2>9. CASE Shown(m)
    <3>1. ElementsAt(ms, {L}) = <<m>>
      <4>1. ms \in Seq(Messages)
        OBVIOUS
      <4> HIDE DEF ms
      <4> QED
        BY <2>1, <4>1, ElementsAtOne
    <3>2. ElementsAt(q, U) = Append(e, m)
      <4>1. /\ N = Len(produced) /\ produced \in Seq(Messages) /\ S \in SUBSET DOMAIN produced
            /\ m \in Messages /\ U = S \cup {N + 1}
        BY <1>2, <1>7, <2>8, <2>9 DEF N
      <4>2. ElementsAt(q, S \cup {Len(produced) + 1}) = Append(ElementsAt(produced, S), m)
        BY <4>1, ElementsAtAppend DEF q
      <4> QED
        BY <4>1, <4>2 DEF e
    <3>3. Ids(Append(e, m)) = Ids(e) \o <<m.id>> /\ Ids(<<m>>) = <<m.id>>
      BY <1>8, IdsAppend
    <3>4. c.log = Ids(e) \o <<m.id>>
      BY <1>3, <1>9, <2>4, <2>9, <3>1, <3>3
    <3> QED
      BY <2>6, <2>7, <3>2, <3>3, <3>4 DEF U
  <2>10. CASE ~Shown(m)
    <3>1. ElementsAt(ms, shown) = << >>
      BY <2>4, <2>10, ElementsAtNone
    <3>2. Ids(<< >>) = << >>
      BY DEF Ids
    <3>3. c.log = Ids(e)
      BY <1>3, <1>9, <3>1, <3>2, ConcatEmptySeq
    <3>4. ElementsAt(q, U) = e
      BY <1>2, <1>7, <2>8, <2>10, ElementsAtAppend DEF q, e
    <3> QED
      BY <2>6, <2>7, <3>3, <3>4 DEF U
  <2> QED
    BY <2>9, <2>10
<1>12. QED
  <2>1. \/ produced' = produced /\ st'.messages = st.messages
        \/ \E m \in Messages :
             /\ m.id = steps + 1 /\ produced' = Append(produced, m)
             /\ st'.messages = Append(st.messages, m) \/ st'.messages = <<m>>
    BY DEF Grows
  <2> QED
    BY <1>10, <1>11, <2>1 DEF c

-----------------------------------------------------------------------------
(* The wall times on a chunk.                                              *)
LEMMA AnsweredBefore == GInv => \A a : \A t \in AnsweredAt(a) : t \in Nat /\ t <= steps
<1> SUFFICES ASSUME GInv, NEW a, NEW t \in AnsweredAt(a) PROVE t \in Nat /\ t <= steps
  OBVIOUS
<1>1. PICK k \in DOMAIN produced : t = produced[k].id
  BY DEF AnsweredAt, Range
<1>2. produced[k] \in Messages
  BY GraphFacts
<1> QED
  BY <1>1, <1>2, GraphFacts DEF GInv, Numbered

\* The first analyst without a report, by its place.
LEMMA FirstOpenIs ==
    ASSUME ChosenTypes, NEW s, NEW i \in DOMAIN chosen
    PROVE  chosen[i] \in FirstOpen(s) <=>
             s.reports[chosen[i]] = "" /\ \A j \in 1 .. i - 1 : s.reports[chosen[j]] # ""
<1>1. DOMAIN chosen = 1 .. Len(chosen) /\ Len(chosen) \in Nat
  BY LenProperties DEF ChosenTypes
<1>2. \A a : a \in Open(s) <=> \E j \in DOMAIN chosen : chosen[j] = a /\ s.reports[a] = ""
  BY DEF Open, Selected, Range
<1>3. \A a : a \in FirstOpen(s) <=>
        a \in Open(s) /\ \A c \in Open(s) : \E k, j \in DOMAIN chosen :
                           chosen[k] = a /\ chosen[j] = c /\ k <= j
  BY DEF FirstOpen
<1>4. ASSUME chosen[i] \in FirstOpen(s)
      PROVE  s.reports[chosen[i]] = "" /\ \A j \in 1 .. i - 1 : s.reports[chosen[j]] # ""
  <2>1. ASSUME NEW j \in 1 .. i - 1, s.reports[chosen[j]] = "" PROVE FALSE
    <3>1. j \in DOMAIN chosen /\ ~(i <= j)
      BY <1>1
    <3>2. chosen[j] \in Open(s)
      BY <1>2, <2>1, <3>1
    <3>3. PICK k \in DOMAIN chosen, l \in DOMAIN chosen :
            chosen[k] = chosen[i] /\ chosen[l] = chosen[j] /\ k <= l
      BY <1>3, <1>4, <3>2
    <3>4. k = i /\ l = j
      BY <3>1, <3>3 DEF ChosenTypes
    <3> QED
      BY <3>1, <3>3, <3>4
  <2> QED
    BY <1>2, <1>3, <1>4, <2>1
<1>5. ASSUME s.reports[chosen[i]] = "", \A j \in 1 .. i - 1 : s.reports[chosen[j]] # ""
      PROVE  chosen[i] \in FirstOpen(s)
  <2>1. chosen[i] \in Open(s)
    BY <1>2, <1>5
  <2>2. ASSUME NEW c \in Open(s)
        PROVE  \E k, j \in DOMAIN chosen : chosen[k] = chosen[i] /\ chosen[j] = c /\ k <= j
    <3>1. PICK j \in DOMAIN chosen : chosen[j] = c /\ s.reports[c] = ""
      BY <1>2
    <3>2. j \notin 1 .. i - 1
      BY <1>5, <3>1
    <3>3. i <= j
      BY <1>1, <3>2
    <3> QED
      BY <3>1, <3>3
  <2> QED
    BY <1>3, <2>1, <2>2
<1> QED
  BY <1>4, <1>5

LEMMA ChunkTimed ==
    ASSUME GInv, GInv', Grows, Timed, ChosenTypes, chosen' = chosen, timer \in Timers,
           Range(Plan) \subseteq Selected, timer' = SyncTracker(timer, st', steps')
    PROVE  timer' \in Timers /\ Timed'
<1> DEFINE R(i) == st.reports[Plan[i]] # ""
           R1(i) == st'.reports[Plan[i]] # ""
           A(i) == AnsweredAt(Plan[i])
           A1(i) == AnsweredAt(Plan[i])'
           S(i) == timer.started[Plan[i]]
           S1(i) == timer'.started[Plan[i]]
           W(i) == timer.wall[Plan[i]]
           W1(i) == timer'.wall[Plan[i]]
           D == DOMAIN Plan
           L == Len(Plan)
           now == steps'
<1>1. /\ Plan \in Seq(AnalystKeys) /\ D = 1 .. L /\ L \in Nat
      /\ \A i, j \in D : Plan[i] = Plan[j] => i = j
  <2>1. Plan \in Seq(AnalystKeys)
    BY DEF GInv, GraphTypes, Shapes, Plan
  <2> QED
    BY <2>1, LenProperties DEF GInv, GraphTypes
<1>2. Plan' = Plan /\ now = steps + 1 /\ steps \in Nat /\ now \in Nat
  <2>1. Plan' = Plan
    BY DEF Grows, Plan
  <2> QED
    <3>1. now = steps + 1
      BY DEF Grows
    <3>2. steps \in Nat
      BY GraphFacts
    <3> HIDE DEF now
    <3> QED
      BY <2>1, <3>1, <3>2
<1>3. \A i \in D : Plan[i] \in Selected /\ Plan[i] \in AnalystKeys
  BY <1>1 DEF Range
<1>4. \A i \in D : (R(i) => R1(i)) /\ (R1(i) /\ ~R(i) => now \in A1(i)) /\ A(i) \subseteq A1(i)
  <2>1. \A a \in AnalystKeys : st.reports[a] # "" => st'.reports[a] = st.reports[a]
    BY DEF Grows, Later
  <2>2. ASSUME NEW i \in D
        PROVE (R1(i) /\ ~R(i) => now \in A1(i)) /\ A(i) \subseteq A1(i)
    <3>1. Plan[i] \in AnalystKeys
      BY <1>3
    <3>2. \A a \in AnalystKeys :
       /\ AnsweredAt(a) \subseteq AnsweredAt(a)'
       /\ st'.reports[a] # "" /\ st.reports[a] = "" => steps' \in AnsweredAt(a)'
      BY DEF Grows
    <3>3. AnsweredAt(Plan[i]) \subseteq AnsweredAt(Plan[i])'
      BY <1>2, <3>1, <3>2
    <3>4. R1(i) /\ ~R(i) => now \in AnsweredAt(Plan[i])'
      BY <1>2, <3>1, <3>2
    <3> QED
      BY <3>3, <3>4
  <2> QED
    BY <1>3, <2>1, <2>2
<1>5. \A i \in D : \A t \in A(i) : t \in Nat /\ t <= steps
  BY AnsweredBefore
<1>6. \A i \in D : \A t \in A1(i) : t \in Nat /\ t <= now
  <2>1. (\A a : \A t \in AnsweredAt(a) : t \in Nat /\ t <= steps)'
    BY AnsweredBefore, PTL
  <2> QED
    BY <2>1
<1>7. \A i, j \in D : i < j => \A t \in A1(i), u \in A1(j) : t < u
  <2>1. AnswersInTurn'
    BY DEF GInv
  <2> QED
    BY <1>2, <2>1 DEF AnswersInTurn
<1>8. \A i \in D : R(i) => A(i) # {}
  <2>1. \A a \in AnalystKeys : st.reports[a] # "" => \E i \in DOMAIN Plan : Plan[i] = a /\ Answered(i)
    BY DEF GInv, TextsInTurn
  <2>2. \A i \in D : Answered(i) => A(i) # {}
    BY DEF Answered
  <2> QED
    BY <1>1, <1>3, <2>1, <2>2
<1>9. \A i \in D : R1(i) => A1(i) # {}
  <2>1. TextsInTurn'
    BY DEF GInv
  <2>2. \A a \in AnalystKeys : st'.reports[a] # "" => \E i \in DOMAIN Plan' : Plan'[i] = a /\ Answered(i)'
    BY <2>1 DEF TextsInTurn
  <2>3. \A i \in D : Answered(i)' => A1(i) # {}
    BY <1>2 DEF Answered
  <2> QED
    BY <1>1, <1>2, <1>3, <2>2, <2>3
<1> DEFINE c == SyncTracker(timer, st', now)
<1>10. /\ c \in Timers
       /\ \A a \in Selected :
           /\ c.started[a] = IF (st'.reports[a] # "" \/ a \in FirstOpen(st')) /\ timer.started[a] = None
                                  THEN now ELSE timer.started[a]
           /\ c.wall[a] = IF st'.reports[a] # "" /\ timer.wall[a] = None
                               THEN now - c.started[a] ELSE timer.wall[a]
  <2> DEFINE s1 == st'
  <2>1. timer \in Timers /\ now \in Nat
    BY <1>2
  <2> HIDE DEF s1, now
  <2>2. LET d == SyncTracker(timer, s1, now) IN
        /\ d \in Timers
        /\ \A a \in Selected :
           /\ d.started[a] = IF (s1.reports[a] # "" \/ a \in FirstOpen(s1)) /\ timer.started[a] = None
                                  THEN now ELSE timer.started[a]
           /\ d.wall[a] = IF s1.reports[a] # "" /\ timer.wall[a] = None
                               THEN now - d.started[a] ELSE timer.wall[a]
    BY <2>1, TrackerUpdate
  <2> QED
    BY <2>2 DEF s1
<1>11. timer' = c
  OBVIOUS
<1> HIDE DEF c
<1>12. \A i \in D :
         /\ S1(i) = IF (R1(i) \/ Plan[i] \in FirstOpen(st')) /\ S(i) = None THEN now ELSE S(i)
         /\ W1(i) = IF R1(i) /\ W(i) = None THEN now - S1(i) ELSE W(i)
  BY <1>3, <1>10, <1>11
<1>13. \A i \in D : W(i) # None <=> R(i)
  BY DEF Timed
<1>14. \A i \in D : S1(i) \in Nat \cup {None}
  <2>1. c.started \in [Selected -> Nat \cup {None}]
    BY <1>10 DEF Timers
  <2> QED
    BY <1>3, <1>11, <2>1
<1>15. chosen = Plan => \A i \in D : Plan[i] \in FirstOpen(st') <=> ~R1(i) /\ \A j \in 1 .. i - 1 : R1(j)
  BY FirstOpenIs
<1>16. chosen = Plan => \A i \in D :
         /\ (\A j \in 1 .. i - 1 : R(j)) => IF i = 1 THEN S(i) = 0 ELSE S(i) \in A(i - 1)
         /\ (\E j \in 1 .. i - 1 : ~R(j)) /\ ~R(i) => S(i) = None
         /\ (\A j \in 1 .. i : R(j)) => \E t \in A(i) : W(i) = t - S(i)
  BY DEF Timed
<1>17. \A n \in Int : n # None
  BY NoneAssumption
<1> HIDE DEF R, R1, A, A1, S, S1, W, W1, D, L, now
<1>18. \A i \in D : W1(i) # None <=> R1(i)
  <2>1. ASSUME NEW i \in D, R1(i), ~R(i) PROVE W1(i) # None
    <3>1. S1(i) # None /\ W1(i) = now - S1(i)
      BY <1>2, <1>12, <1>13, <1>17, <2>1
    <3>2. now - S1(i) \in Int
      BY <1>2, <1>14, <3>1
    <3> QED
      BY <1>17, <3>1, <3>2
  <2> QED
    BY <1>4, <1>12, <1>13, <2>1
<1>19. ASSUME chosen = Plan, NEW i \in D
       PROVE  /\ (\A j \in 1 .. i - 1 : R1(j)) => IF i = 1 THEN S1(i) = 0 ELSE S1(i) \in A1(i - 1)
              /\ (\E j \in 1 .. i - 1 : ~R1(j)) /\ ~R1(i) => S1(i) = None
              /\ (\A j \in 1 .. i : R1(j)) => \E t \in A1(i) : W1(i) = t - S1(i)
  <2>1. i \in Nat /\ i >= 1 /\ \A j \in 1 .. i - 1 : j \in D /\ j < i /\ j \in Nat
    BY <1>1
  <2>2. i # 1 => i - 1 \in D /\ i - 1 < i /\ i - 1 \in 1 .. i - 1
    BY <1>1, <2>1
  <2>3. (\A j \in 1 .. i - 1 : R(j)) => S(i) # None /\ IF i = 1 THEN S(i) = 0 ELSE S(i) \in A(i - 1)
    <3>1. 0 # None /\ \A n \in Nat : n # None
      BY <1>17
    <3>2. i # 1 => \A t \in A(i - 1) : t \in Nat
      BY <1>5, <2>2
    <3> QED
      BY <1>16, <1>19, <3>1, <3>2
  <2>4. ASSUME NEW j \in D, j < i, R1(j), ~R(j) PROVE ~R(i) /\ now \in A1(j)
    <3>1. now \in A1(j)
      BY <1>4, <2>4
    <3>2. ASSUME R(i) PROVE FALSE
      <4>1. PICK u \in A(i) : TRUE
        BY <1>8, <3>2
      <4>2. u \in A1(i) /\ u <= steps /\ u \in Nat
        BY <1>4, <1>5, <4>1
      <4>3. now < u
        BY <1>7, <2>4, <3>1, <4>2
      <4> QED
        BY <1>2, <4>2, <4>3
    <3> QED
      BY <3>1, <3>2
  <2>5. (\A j \in 1 .. i - 1 : R1(j)) => IF i = 1 THEN S1(i) = 0 ELSE S1(i) \in A1(i - 1)
    <3>1. CASE \A j \in 1 .. i - 1 : R(j)
      <4>1. S1(i) = S(i)
        BY <1>12, <2>3, <3>1
      <4>2. i # 1 => A(i - 1) \subseteq A1(i - 1)
        BY <1>4, <2>2
      <4> QED
        BY <2>3, <3>1, <4>1, <4>2
    <3>2. ASSUME NEW j \in 1 .. i - 1, ~R(j), \A k \in 1 .. i - 1 : R1(k)
          PROVE  S1(i) \in A1(i - 1) /\ i # 1
      <4>1. j \in D /\ j < i /\ R1(j) /\ i # 1 /\ j <= i - 1
        BY <2>1, <3>2
      <4>2. ~R(i) /\ now \in A1(j)
        BY <2>4, <3>2, <4>1
      <4>3. i - 1 \in D /\ R1(i - 1)
        BY <2>2, <3>2, <4>1
      <4>4. j = i - 1
        <5>1. SUFFICES ASSUME j < i - 1 PROVE FALSE
          BY <2>1, <4>1
        <5>2. PICK u \in A1(i - 1) : TRUE
          BY <1>9, <4>3
        <5>3. now < u
          BY <1>7, <4>1, <4>2, <4>3, <5>1
        <5>4. u \in Nat /\ u <= now
          BY <1>6, <4>3
        <5> QED
          BY <1>2, <5>3, <5>4
      <4>5. S(i) = None
        BY <1>16, <1>19, <3>2, <4>2
      <4>6. R1(i) \/ Plan[i] \in FirstOpen(st')
        BY <1>15, <1>19, <3>2
      <4> QED
        BY <1>12, <4>1, <4>2, <4>4, <4>5, <4>6
    <3> QED
      BY <3>1, <3>2
  <2>6. ASSUME NEW j \in 1 .. i - 1, ~R1(j), ~R1(i) PROVE S1(i) = None
    <3>1. ~R(j) /\ ~R(i)
      BY <1>4, <2>1, <2>6
    <3>2. S(i) = None
      BY <1>16, <1>19, <3>1
    <3>3. Plan[i] \notin FirstOpen(st')
      BY <1>15, <1>19, <2>6
    <3> QED
      BY <1>12, <2>6, <3>2, <3>3
  <2>7. ASSUME \A j \in 1 .. i : R1(j) PROVE \E t \in A1(i) : W1(i) = t - S1(i)
    <3>1. R1(i) /\ \A j \in 1 .. i - 1 : R1(j)
      BY <2>1, <2>7
    <3>2. CASE ~R(i)
      <4>1. now \in A1(i) /\ W1(i) = now - S1(i)
        BY <1>4, <1>12, <1>13, <3>1, <3>2
      <4> QED
        BY <4>1
    <3>3. CASE R(i)
      <4>1. \A j \in 1 .. i - 1 : R(j)
        BY <2>1, <2>4, <3>1, <3>3
      <4>2. \A j \in 1 .. i : j = i \/ j \in 1 .. i - 1
        BY <2>1
      <4>3. PICK t \in A(i) : W(i) = t - S(i)
        BY <1>16, <1>19, <3>3, <4>1, <4>2
      <4>4. W1(i) = W(i) /\ S1(i) = S(i) /\ t \in A1(i)
        BY <1>4, <1>12, <1>13, <2>3, <3>3, <4>1, <4>3
      <4> QED
        BY <4>3, <4>4
    <3> QED
      BY <3>2, <3>3
  <2> QED
    BY <2>5, <2>6, <2>7
<1>20. timer' \in Timers
  BY <1>10, <1>11
<1> QED
  BY <1>2, <1>18, <1>19, <1>20 DEF Timed, R1, A1, S1, W1, D

-----------------------------------------------------------------------------
(* The invariant of the console.                                           *)
LEMMA OneMessage ==
    ASSUME TRUE
    PROVE  LET q == <<Human>> IN
           {q[k].id : k \in DOMAIN q} = {0} /\ Ids(ElementsAt(q, ShownOf(q))) = <<0>>
<1> DEFINE q == <<Human>>
<1>1. DOMAIN q = {1} /\ q[1] = Human
  OBVIOUS
<1>2. Human.id = 0 /\ Shown(Human) /\ Human \in Messages
  BY InitialTypes DEF Human, Shown
<1>3. q \in Seq(Messages)
  BY <1>2
<1> HIDE DEF q
<1>4. ShownOf(q) = {1}
  BY <1>1, <1>2 DEF ShownOf
<1>5. 1 \in DOMAIN q
  BY <1>1
<1>6. ElementsAt(q, {1}) = <<Human>>
  BY <1>1, <1>3, <1>5, ElementsAtOne
<1>7. Ids(<<Human>>) = <<0>>
  <2>1. Ids(<<Human>>) = <<Human.id>>
    BY <1>2, IdsAppend, EmptySeq
  <2> QED
    BY <1>2, <2>1
<1>8. {q[k].id : k \in DOMAIN q} = {0}
  BY <1>1, <1>2
<1> QED
  BY <1>4, <1>6, <1>7, <1>8 DEF q

LEMMA FirstBuffer ==
  /\ ChosenTypes /\ chosen # << >> /\ st = InitialState /\ produced = <<Human>>
  /\ buf = UpdateAnalystStatuses(LogMessages(BeforeStream, <<Human>>), InitialState)
  => buf \in Buffers /\ Shows(buf, st) /\ Transcribed
<1> SUFFICES ASSUME ChosenTypes, chosen # << >>, st = InitialState, produced = <<Human>>,
                    buf = UpdateAnalystStatuses(LogMessages(BeforeStream, <<Human>>), InitialState)
             PROVE  buf \in Buffers /\ Shows(buf, st) /\ Transcribed
  OBVIOUS
<1>1. buf \in Buffers /\ Shows(buf, st) /\ buf.seen = {0} /\ buf.log = <<0>>
  <2> DEFINE c == UpdateAnalystStatuses(LogMessages(BeforeStream, <<Human>>), InitialState)
  <2>1. c \in Buffers /\ Shows(c, InitialState) /\ c.seen = {0} /\ c.log = <<0>>
    BY FirstChunk
  <2> HIDE DEF c
  <2>2. buf = c
    BY DEF c
  <2> QED
    BY <2>1, <2>2
<1> DEFINE q == <<Human>>
<1>2. {q[k].id : k \in DOMAIN q} = {0} /\ Ids(ElementsAt(q, ShownOf(q))) = <<0>>
  BY OneMessage
<1>3. produced = q
  OBVIOUS
<1> HIDE DEF q
<1>4. {k \in DOMAIN produced : Shown(produced[k])} = ShownOf(q)
  BY <1>3 DEF ShownOf
<1> QED
  BY <1>1, <1>2, <1>3, <1>4 DEF Transcribed

\* What only the chosen analysts determine.
LEMMA ChosenFrame ==
    ASSUME chosen' = chosen
    PROVE  /\ Selected' = Selected /\ Agents' = Agents /\ SectionNames' = SectionNames
           /\ Buffers' = Buffers /\ Timers' = Timers
           /\ ChosenTypes => ChosenTypes'
           /\ Shows(buf', st') => Shows(buf, st)'
<1>1. Selected' = Selected
  BY DEF Selected
<1>2. Agents' = Agents /\ SectionNames' = SectionNames
  BY <1>1 DEF Agents, SectionNames
<1>3. Buffers' = Buffers /\ Timers' = Timers
  BY <1>1, <1>2 DEF Buffers, Timers
<1>4. ChosenTypes => ChosenTypes'
  BY DEF ChosenTypes
<1>5. Open(st)' = Open(st')
  BY <1>1 DEF Open
<1>6. FirstOpen(st)' = FirstOpen(st')
  BY <1>5 DEF FirstOpen
<1>7. ShowsAnalysts(buf', st') => ShowsAnalysts(buf, st)'
  BY <1>1, <1>6 DEF ShowsAnalysts
<1>8. ShowsResearch(buf', st') => ShowsResearch(buf, st)'
  BY <1>5 DEF ShowsResearch
<1>9. ShowsTrader(buf', st') => ShowsTrader(buf, st)'
  BY DEF ShowsTrader
<1>10. ShowsRisk(buf', st') => ShowsRisk(buf, st)'
  BY DEF ShowsRisk
<1> QED
  BY <1>1, <1>2, <1>3, <1>4, <1>7, <1>8, <1>9, <1>10 DEF Shows

LEMMA FinalTexts ==
    ASSUME ChosenTypes, st \in States
    PROVE  /\ \A a \in AnalystKeys : FinalText(a) = st.reports[a]
           /\ FinalText("investment_plan") = st.plan
           /\ FinalText("trader_investment_plan") = st.proposal
           /\ FinalText("final_trade_decision") = st.decision
           /\ \A s \in SectionNames : FinalText(s) \in Texts
<1>1. /\ Range(TeamSections) = {"investment_plan", "trader_investment_plan", "final_trade_decision"}
      /\ AnalystKeys \cap Range(TeamSections) = {} /\ Selected \subseteq AnalystKeys
  BY NamesApart, SelectedFacts
<1>2. \A a \in AnalystKeys : FinalText(a) = st.reports[a]
  <2>1. \A a \in AnalystKeys : a \notin Range(TeamSections)
    BY <1>1
  <2> QED
    BY <1>1, <2>1 DEF FinalText
<1>3. /\ "investment_plan" \notin AnalystKeys /\ "trader_investment_plan" \notin AnalystKeys
      /\ "final_trade_decision" \notin AnalystKeys
  BY <1>1
<1>4. /\ FinalText("investment_plan") = st.plan
      /\ FinalText("trader_investment_plan") = st.proposal
      /\ FinalText("final_trade_decision") = st.decision
  BY <1>3 DEF FinalText
<1>5. /\ st.plan \in Texts /\ st.proposal \in Texts /\ st.decision \in Texts
      /\ \A a \in AnalystKeys : st.reports[a] \in Texts
  BY DEF States
<1>6. \A s \in SectionNames : s \in AnalystKeys \/ s \in Range(TeamSections)
  BY <1>1 DEF SectionNames
<1> QED
  BY <1>1, <1>2, <1>4, <1>5, <1>6

LEMMA TimedFrame ==
    ASSUME Timed, chosen' = chosen, timer' = timer, st' = st, produced' = produced, shape' = shape
    PROVE  Timed'
<1>1. Plan' = Plan
  BY DEF Plan
<1>2. \A a : AnsweredAt(a)' = AnsweredAt(a)
  BY DEF AnsweredAt
<1>3. \A i \in DOMAIN Plan :
        AnsweredAt(Plan[i])' = AnsweredAt(Plan[i]) /\ AnsweredAt(Plan[i - 1])' = AnsweredAt(Plan[i - 1])
  BY <1>1, <1>2
<1> QED
  BY <1>1, <1>3 DEF Timed

LEMMA InitStep == Init => CInv
<1> SUFFICES ASSUME Init PROVE CInv
  OBVIOUS
<1>1. GraphInit /\ session \in Sessions /\ chosen = << >> /\ phase = "asked"
      /\ buf = InitForAnalysis /\ timer = NotTimed
  BY DEF Init
<1>2. GInv
  BY <1>1, InitGraph
<1>3. next = Waiting /\ Plan = << >> /\ why = ""
  BY <1>1, <1>2 DEF GraphInit, GInv, Fresh
<1>4. DOMAIN Plan = {} /\ Range(Plan) = {}
  <2>0. Plan = << >>
    BY <1>3
  <2>1. DOMAIN Plan = {}
    BY <2>0
  <2> QED
    BY <2>1 DEF Range
<1>5. Waiting # Failed
  BY NodeKinds
<1>6. buf \in Buffers
  BY <1>1, EmptyBuffer
<1>7. timer \in Timers
  BY <1>1 DEF NotTimed, Timers
<1>8. ConsoleTypes
  <2>1. chosen \in Seq(AnalystKeys) /\ DOMAIN chosen = {}
    BY <1>1
  <2> QED
    BY <1>1, <1>3, <1>4, <1>6, <1>7, <2>1 DEF ConsoleTypes, Phases
<1>9. Transcribed
  BY <1>3 DEF Transcribed
<1>10. Displayed
  <2>1. DOMAIN buf.sections = SectionNames /\ DOMAIN buf.status = Agents
    BY <1>6 DEF Buffers
  <2> QED
    BY <1>1, <1>3, <2>1, EmptyBuffer DEF Displayed
<1>11. Timed
  BY <1>4 DEF Timed
<1>12. LimitOnlyByTools
  BY <1>3 DEF LimitOnlyByTools
<1> QED
  BY <1>2, <1>8, <1>9, <1>10, <1>11, <1>12 DEF CInv

\* The limit's observer outside of the graph's own last step.
LEMMA NoLimit == GInv /\ next # Failed => LimitOnlyByTools
BY DEF GInv, Fresh, LimitOnlyByTools

LEMMA StartStep ==
    ASSUME CInv, Start
    PROVE  CInv'
<1> DEFINE c == RunConfig(session)
           sh == ShapeOf(c, session.env)
<1>1. /\ phase = "asked" /\ Outcome(session) = "streaming" /\ phase' = "streaming"
      /\ chosen' = Ordered(c.analysts) /\ Invoke(sh)
  BY DEF Start
<1>2. /\ buf' = UpdateAnalystStatuses(LogMessages(BeforeStream, <<Human>>), InitialState)'
      /\ timer' = SyncTracker(MarkStarted(NotTimed, {Head(chosen)}, 0), InitialState, 0)'
  BY DEF Start
<1>3. session \in Sessions /\ GInv
  BY <1>1 DEF CInv, ConsoleTypes
<1>4. /\ sh \in Shapes /\ sh.plan # << >> /\ chosen' # << >>
      /\ \A i, j \in DOMAIN sh.plan : sh.plan[i] = sh.plan[j] => i = j
      /\ Range(sh.plan) \subseteq Range(chosen')
  BY <1>1, <1>3, StartShape
<1>5. shape' = sh
  BY <1>1 DEF Invoke
<1>6. ChosenTypes'
  <2>1. /\ chosen' \in Seq(AnalystKeys)
        /\ \A i, j \in DOMAIN chosen' : chosen'[i] = chosen'[j] => i = j
    BY <1>1, OrderedFacts
  <2> QED
    BY <2>1 DEF ChosenTypes
<1> HIDE DEF sh, c
<1>7. GInv' /\ next' \notin {Waiting, Failed} /\ st' = InitialState /\ produced' = <<Human>>
  BY <1>1, <1>3, <1>4, InvokeGraph
<1>8. Plan' = sh.plan
  BY <1>5 DEF Plan
<1>9. (buf \in Buffers)' /\ Shows(buf, st)' /\ Transcribed'
  <2>1. (/\ ChosenTypes /\ chosen # << >> /\ st = InitialState /\ produced = <<Human>>
         /\ buf = UpdateAnalystStatuses(LogMessages(BeforeStream, <<Human>>), InitialState)
         => buf \in Buffers /\ Shows(buf, st) /\ Transcribed)'
    BY FirstBuffer, PTL
  <2> QED
    BY <1>2, <1>4, <1>6, <1>7, <2>1
<1>10. (timer \in Timers)' /\ Timed'
  <2>1. (/\ ChosenTypes /\ chosen # << >> /\ st = InitialState
         /\ Plan \in Seq(AnalystKeys) /\ Range(Plan) \subseteq Selected
         /\ timer = SyncTracker(MarkStarted(NotTimed, {Head(chosen)}, 0), InitialState, 0)
         => timer \in Timers /\ Timed)'
    BY FirstTimes, PTL
  <2>2. Plan' \in Seq(AnalystKeys)
    BY <1>4, <1>8 DEF Shapes
  <2>3. (Range(Plan) \subseteq Selected)'
    BY <1>4, <1>8 DEF Selected
  <2> QED
    BY <1>2, <1>4, <1>6, <1>7, <2>1, <2>2, <2>3
<1>11. (Range(Plan) \subseteq Selected)'
  BY <1>4, <1>8 DEF Selected
<1>12. ConsoleTypes'
  BY <1>1, <1>6, <1>7, <1>9, <1>10, <1>11 DEF ConsoleTypes, ChosenTypes, Phases
<1>13. Displayed'
  BY <1>1, <1>7, <1>9 DEF Displayed
<1>14. LimitOnlyByTools'
  <2>1. (GInv /\ next # Failed => LimitOnlyByTools)'
    BY NoLimit, PTL
  <2> QED
    BY <1>7, <2>1
<1> QED
  BY <1>7, <1>9, <1>10, <1>12, <1>13, <1>14 DEF CInv

LEMMA RefuseStep ==
    ASSUME CInv, Refuse
    PROVE  CInv'
<1>1. /\ phase = "asked" /\ phase' = Outcome(session) /\ Outcome(session) # "streaming"
      /\ UNCHANGED graphVars /\ chosen' = chosen /\ buf' = buf /\ timer' = timer
  BY DEF Refuse
<1>2. phase' \in {"exited", "raised"}
  BY <1>1 DEF Outcome
<1>3. /\ shape' = shape /\ next' = next /\ st' = st /\ produced' = produced /\ why' = why
      /\ toolRounds' = toolRounds /\ steps' = steps
  BY <1>1 DEF graphVars
<1>4. GInv'
  BY <1>1, GraphStutters DEF CInv
<1>5. next = Waiting /\ Plan' = Plan
  BY <1>1, <1>3 DEF CInv, ConsoleTypes, Plan
<1>6. ConsoleTypes'
  <2>1. Selected' = Selected /\ Buffers' = Buffers /\ Timers' = Timers
    BY <1>1, ChosenFrame
  <2> QED
    BY <1>1, <1>2, <1>5, <2>1 DEF CInv, ConsoleTypes, Phases
<1>7. Transcribed'
  BY <1>3, <1>5 DEF Transcribed
<1>8. Displayed'
  BY <1>1, <1>2, <1>3, <1>5 DEF CInv, Displayed
<1>9. Timed'
  BY <1>1, <1>3, TimedFrame DEF CInv
<1>10. LimitOnlyByTools'
  <2>1. (GInv /\ next # Failed => LimitOnlyByTools)'
    BY NoLimit, PTL
  <2>2. Waiting # Failed
    BY NodeKinds
  <2> QED
    BY <1>3, <1>4, <1>5, <2>1, <2>2
<1> QED
  BY <1>4, <1>6, <1>7, <1>8, <1>9, <1>10 DEF CInv

LEMMA ChunkStep ==
    ASSUME CInv, Chunk
    PROVE  CInv' /\ Shows(buf, st) /\ Shows(buf', st') /\ Later(st, st')
<1>1. /\ phase = "streaming" /\ NodeRuns /\ timer' = SyncTracker(timer, st', steps')
      /\ chosen' = chosen /\ phase' = phase /\ \E s \in {st'} : Handles(buf, s, buf')
  BY DEF Chunk
<1>2. Handles(buf, st', buf')
  BY <1>1
<1>3. GInv' /\ Grows
  BY <1>1, GraphStep DEF CInv
<1>4. /\ ChosenTypes /\ buf \in Buffers /\ timer \in Timers /\ Range(Plan) \subseteq Selected
  BY DEF CInv, ConsoleTypes, ChosenTypes
<1>5. next \notin {Waiting, Failed, End} /\ next' \notin {Waiting, Failed} /\ shape' = shape
      /\ Later(st, st')
  BY <1>3 DEF Grows
<1>6. st \in States /\ st' \in States /\ st'.messages \in Seq(Messages)
  <2>1. st \in States
    BY DEF CInv, GInv, GraphTypes
  <2>2. st' \in States
    BY <1>3 DEF GInv, GraphTypes
  <2> QED
    BY <2>1, <2>2 DEF States
<1>7. Shows(buf, st)
  BY <1>1, <1>5 DEF CInv, Displayed
<1>8. /\ buf' \in Buffers /\ Shows(buf', st')
      /\ buf'.seen = LogMessages(buf, st'.messages).seen
      /\ buf'.log = LogMessages(buf, st'.messages).log
  <2> DEFINE s == st'
             c == buf'
  <2>1. s \in States /\ Later(st, s) /\ Handles(buf, s, c)
    BY <1>2, <1>5, <1>6
  <2> HIDE DEF s, c
  <2>2. /\ c \in Buffers /\ Shows(c, s) /\ c.seen = LogMessages(buf, s.messages).seen
        /\ c.log = LogMessages(buf, s.messages).log
    BY <1>4, <1>6, <1>7, <2>1, ChunkUpdate
  <2> QED
    BY <2>2 DEF s, c
<1>9. /\ Selected' = Selected /\ Buffers' = Buffers /\ Timers' = Timers /\ ChosenTypes'
      /\ Shows(buf, st)'
  BY <1>1, <1>4, <1>8, ChosenFrame
<1>10. Transcribed'
  <2> DEFINE d == LogMessages(buf, st'.messages)
  <2>1. /\ d.seen = {produced'[k].id : k \in DOMAIN produced'}
        /\ d.log = Ids(ElementsAt(produced', ShownOf(produced')))
    BY <1>3, <1>4, <1>6, ChunkLogged DEF CInv
  <2> HIDE DEF d
  <2>2. buf'.seen = d.seen /\ buf'.log = d.log
    BY <1>8 DEF d
  <2>3. ShownOf(produced') = {k \in DOMAIN produced' : Shown(produced'[k])}
    BY DEF ShownOf
  <2> QED
    BY <2>1, <2>2, <2>3 DEF Transcribed
<1>11. timer' \in Timers /\ Timed'
  BY <1>1, <1>3, <1>4, ChunkTimed DEF CInv
<1>12. Plan' = Plan
  BY <1>5 DEF Plan
<1>13. ConsoleTypes'
  BY <1>1, <1>4, <1>5, <1>8, <1>9, <1>11, <1>12 DEF ConsoleTypes, ChosenTypes, Phases
<1>14. Displayed'
  BY <1>1, <1>5, <1>9 DEF Displayed
<1>15. LimitOnlyByTools'
  <2>1. (GInv /\ next # Failed => LimitOnlyByTools)'
    BY NoLimit, PTL
  <2> QED
    BY <1>3, <1>5, <2>1
<1> QED
  BY <1>3, <1>5, <1>7, <1>8, <1>10, <1>11, <1>13, <1>14, <1>15 DEF CInv

LEMMA FinishStep ==
    ASSUME CInv, Finish
    PROVE  CInv' /\ \A x \in Agents : buf'.status[x] = "completed"
<1> DEFINE b == UpdateStatus(buf, DOMAIN buf.status, "completed")
           f == [s \in SectionNames |-> FinalText(s)]
           g == [s \in SectionNames |-> IF FinalText(s) # "" THEN FinalText(s) ELSE buf.files[s]]
           d == [b EXCEPT !.sections = f, !.files = g]
<1>1. /\ phase = "streaming" /\ next = End /\ phase' = "done"
      /\ UNCHANGED graphVars /\ chosen' = chosen /\ timer' = timer
      /\ buf' = [b EXCEPT
           !.sections = [s \in DOMAIN @ |-> FinalText(s)],
           !.files = [s \in DOMAIN @ |-> IF FinalText(s) # "" THEN FinalText(s) ELSE @[s]]]
  BY DEF Finish
<1>2. /\ ChosenTypes /\ buf \in Buffers /\ timer \in Timers /\ Range(Plan) \subseteq Selected
  BY DEF CInv, ConsoleTypes, ChosenTypes
<1>3. /\ DOMAIN buf.status = Agents /\ DOMAIN buf.sections = SectionNames
      /\ DOMAIN buf.files = SectionNames
  BY <1>2 DEF Buffers
<1>4. /\ b \in Buffers /\ b.sections = buf.sections /\ b.files = buf.files
      /\ b.seen = buf.seen /\ b.log = buf.log
      /\ \A x \in Agents : b.status[x] = "completed"
  <2> DEFINE e == [x \in DOMAIN buf.status |-> IF x \in DOMAIN buf.status THEN "completed" ELSE buf.status[x]]
  <2>1. b = [buf EXCEPT !.status = e]
    BY DEF UpdateStatus
  <2>2. e \in [Agents -> Statuses] /\ \A x \in Agents : e[x] = "completed"
    BY <1>3 DEF Statuses
  <2> HIDE DEF b, e
  <2> QED
    BY <1>2, <2>1, <2>2 DEF Buffers
<1> HIDE DEF b
<1>5. buf' = d
  BY <1>1, <1>3, <1>4
<1>6. st \in States
  BY DEF CInv, GInv, GraphTypes
<1>7. \A s \in SectionNames : FinalText(s) \in Texts
  BY <1>2, <1>6, FinalTexts
<1>8. f \in [SectionNames -> Contents] /\ g \in [SectionNames -> Contents]
  <2>1. buf.files \in [SectionNames -> Contents]
    BY <1>2 DEF Buffers
  <2> QED
    BY <1>7, <2>1 DEF Contents
<1>9. \A s \in SectionNames : f[s] = FinalText(s) /\ (FinalText(s) # "" => g[s] = FinalText(s))
  OBVIOUS
<1> HIDE DEF f, g
<1>10. /\ d \in Buffers /\ d.status = b.status /\ d.sections = f /\ d.files = g
       /\ d.seen = buf.seen /\ d.log = buf.log
  BY <1>4, <1>8 DEF Buffers
<1> HIDE DEF d
<1>11. /\ shape' = shape /\ next' = next /\ st' = st /\ produced' = produced /\ why' = why
       /\ toolRounds' = toolRounds /\ steps' = steps
  BY <1>1 DEF graphVars
<1>12. GInv' /\ Plan' = Plan
  BY <1>1, <1>11, GraphStutters DEF CInv, Plan
<1>13. Selected' = Selected /\ Buffers' = Buffers /\ Timers' = Timers
  BY <1>1, ChosenFrame
<1>14. buf' \in Buffers
  BY <1>5, <1>10
<1>15. End \notin {Waiting, Failed}
  BY NodeKinds DEF PostDebate
<1>16. ConsoleTypes'
  BY <1>1, <1>2, <1>11, <1>12, <1>13, <1>14, <1>15 DEF ConsoleTypes, ChosenTypes, Phases
<1>17. Transcribed'
  <2>1. buf'.seen = buf.seen /\ buf'.log = buf.log
    BY <1>5, <1>10
  <2> QED
    BY <1>11, <2>1 DEF CInv, Transcribed
<1>18. \A s : FinalText(s)' = FinalText(s)
  BY <1>11 DEF FinalText
<1>19. /\ DOMAIN buf'.status = Agents /\ DOMAIN buf'.sections = SectionNames
  BY <1>14 DEF Buffers
<1>20. Displayed'
  <2>1. \A x \in DOMAIN buf'.status : buf'.status[x] = "completed"
    BY <1>4, <1>5, <1>10, <1>19
  <2>2. \A s \in DOMAIN buf'.sections :
          buf'.sections[s] = FinalText(s)' /\ (FinalText(s)' # "" => buf'.files[s] = FinalText(s)')
    BY <1>5, <1>9, <1>10, <1>18, <1>19
  <2>3. next' # Waiting /\ phase' = "done"
    BY <1>1, <1>11, <1>15
  <2> QED
    BY <2>1, <2>2, <2>3 DEF Displayed
<1>21. Timed'
  BY <1>1, <1>11, TimedFrame DEF CInv
<1>22. LimitOnlyByTools'
  <2>1. (GInv /\ next # Failed => LimitOnlyByTools)'
    BY NoLimit, PTL
  <2> QED
    BY <1>1, <1>11, <1>12, <1>15, <2>1
<1> QED
  BY <1>4, <1>5, <1>10, <1>12, <1>16, <1>17, <1>20, <1>21, <1>22 DEF CInv

LEMMA RaisedStep ==
    ASSUME CInv, Raise
    PROVE  CInv'
<1>1. phase' = "raised" /\ chosen' = chosen /\ buf' = buf /\ timer' = timer
  BY DEF Raise
<1>2. phase = "streaming" /\ (NodeFails \/ OutOfSteps)
  BY DEF Raise
<1>3. next \notin {Waiting, Failed} /\ GInv
  BY <1>2 DEF CInv, ConsoleTypes
<1>4. GInv' /\ next' = Failed
  BY <1>2, <1>3, RaiseStep
<1>5. /\ shape' = shape /\ steps' = steps /\ st' = st /\ toolRounds' = toolRounds
      /\ produced' = produced /\ Plan' = Plan
  BY <1>2 DEF NodeFails, OutOfSteps, Plan
<1>6. Failed # Waiting
  BY NodeKinds
<1>7. /\ Selected' = Selected /\ Buffers' = Buffers /\ Timers' = Timers
  BY <1>1, ChosenFrame
<1>8. ConsoleTypes'
  BY <1>1, <1>2, <1>4, <1>5, <1>7 DEF CInv, ConsoleTypes, Phases
<1>9. Transcribed'
  BY <1>1, <1>3, <1>5 DEF CInv, Transcribed
<1>10. Displayed'
  <2>1. Shows(buf, st)
    BY <1>2, <1>3 DEF CInv, Displayed
  <2>2. Shows(buf', st')
    BY <1>1, <1>5, <2>1
  <2>3. Shows(buf, st)'
    BY <1>1, <2>2, ChosenFrame
  <2> QED
    BY <1>1, <1>4, <1>6, <2>3 DEF Displayed
<1>11. Timed'
  BY <1>1, <1>5, TimedFrame DEF CInv
<1>12. LimitOnlyByTools'
  <2>1. CASE NodeFails
    <3>1. why' = "error"
      BY <2>1 DEF NodeFails
    <3> QED
      BY <3>1 DEF LimitOnlyByTools
  <2>2. CASE OutOfSteps
    <3>1. steps = RecursionLimit
      BY <2>2 DEF OutOfSteps, LimitOf
    <3>2. OwnSteps + 2 * toolRounds >= steps
      BY <1>3, OwnStepsBound
    <3>3. OwnSteps' = OwnSteps
      BY <1>5 DEF OwnSteps
    <3> QED
      BY <1>5, <3>1, <3>2, <3>3 DEF LimitOnlyByTools
  <2> QED
    BY <1>2, <2>1, <2>2
<1> QED
  BY <1>4, <1>8, <1>9, <1>10, <1>11, <1>12 DEF CInv

\* The steps that leave the display and the graph alone.
LEMMA OtherStep ==
    ASSUME CInv, Save \/ UNCHANGED vars
    PROVE  CInv'
<1>1. /\ UNCHANGED graphVars /\ chosen' = chosen /\ buf' = buf /\ timer' = timer /\ session' = session
      /\ \/ phase = "done" /\ phase' = "saved" /\ tree' = ReportTree(st)
         \/ phase' = phase /\ tree' = tree
  BY DEF Save, vars
<1>2. /\ shape' = shape /\ next' = next /\ st' = st /\ produced' = produced /\ why' = why
      /\ toolRounds' = toolRounds /\ steps' = steps /\ Plan' = Plan
  BY <1>1 DEF graphVars, Plan
<1>3. GInv'
  BY <1>1, GraphStutters DEF CInv
<1>4. /\ Selected' = Selected /\ Buffers' = Buffers /\ Timers' = Timers
      /\ Shows(buf', st') => Shows(buf, st)'
  BY <1>1, ChosenFrame
<1>5. ConsoleTypes'
  BY <1>1, <1>2, <1>4 DEF CInv, ConsoleTypes, Phases
<1>6. Transcribed'
  BY <1>1, <1>2 DEF CInv, Transcribed
<1>7. \A s : FinalText(s)' = FinalText(s)
  BY <1>2 DEF FinalText
<1>8. Displayed'
  <2>1. ReportTree(st)' = ReportTree(st)
    BY <1>2 DEF ReportTree
  <2>2. Shows(buf, st) => Shows(buf, st)'
    BY <1>1, <1>2, <1>4
  <2> QED
    BY <1>1, <1>2, <1>7, <2>1, <2>2 DEF CInv, Displayed
<1>9. Timed'
  BY <1>1, <1>2, TimedFrame DEF CInv
<1>10. LimitOnlyByTools'
  <2>1. OwnSteps' = OwnSteps
    BY <1>2 DEF OwnSteps
  <2> QED
    BY <1>2, <2>1 DEF CInv, LimitOnlyByTools
<1> QED
  BY <1>3, <1>5, <1>6, <1>8, <1>9, <1>10 DEF CInv

LEMMA ConsoleInvariant == Spec => []CInv
<1>1. Init => CInv
  BY InitStep
<1>2. CInv /\ [Next]_vars => CInv'
  BY StartStep, RefuseStep, ChunkStep, FinishStep, RaisedStep, OtherStep DEF Next
<1> QED
  BY <1>1, <1>2, PTL DEF Spec

-----------------------------------------------------------------------------
(* What the invariant says of the runs.                                    *)
LEMMA HeldTurns ==
    ASSUME NEW d, NEW sides, NEW rounds \in Int, Len(sides) \in Nat, Spoken(d, sides),
           d.count = TurnsOf(Len(sides), rounds)
    PROVE  Turns(d, sides, rounds)
BY DEF Turns, Spoken, TurnsOf

LEMMA RoundsFact == GInv => RoundsHeld
<1> SUFFICES ASSUME GInv PROVE RoundsHeld
  OBVIOUS
<1> DEFINE two == <<"Bull", "Bear">>
           three == <<"Aggressive", "Conservative", "Neutral">>
<1>1. shape.debate \in Int /\ shape.risk \in Int
  BY DEF GInv, GraphTypes, Shapes
<1>2. Len(two) = 2 /\ Len(three) = 3
  OBVIOUS
<1>3. Spoken(st.debate, two) /\ Spoken(st.risk, three)
  BY DEF GInv, DebateHeld, RiskHeld
<1>4. next \in PostDebate => st.debate.count = TurnsOf(2, shape.debate)
  BY DEF GInv, DebateHeld
<1>5. next \in {Judge("Portfolio Manager"), End} => st.risk.count = TurnsOf(3, shape.risk)
  BY DEF GInv, RiskHeld
<1> HIDE DEF two, three
<1>6. next \in PostDebate => Turns(st.debate, two, shape.debate)
  <2>1. Len(two) \in Nat
    BY <1>2
  <2>2. next \in PostDebate => st.debate.count = TurnsOf(Len(two), shape.debate)
    BY <1>2, <1>4
  <2> QED
    BY <1>1, <1>3, <2>1, <2>2, HeldTurns
<1>7. next \in {Judge("Portfolio Manager"), End} => Turns(st.risk, three, shape.risk)
  <2>1. Len(three) \in Nat
    BY <1>2
  <2>2. next \in {Judge("Portfolio Manager"), End} => st.risk.count = TurnsOf(Len(three), shape.risk)
    BY <1>2, <1>5
  <2> QED
    BY <1>1, <1>3, <2>1, <2>2, HeldTurns
<1> QED
  BY <1>6, <1>7 DEF RoundsHeld, PostDebate, two, three

(* When a judge takes over, each side has spoken its configured number of  *)
(* turns, in turn, and each side's own history is its part of the common   *)
(* one: for any numbers of rounds, zero and negative ones too.             *)
THEOREM DebatesKeepTheirRounds == Spec => []RoundsHeld
<1>1. CInv => RoundsHeld
  BY RoundsFact DEF CInv
<1> QED
  BY <1>1, ConsoleInvariant, PTL

LEMMA AnalystTags ==
    \A n \in Nodes : n \in AnalystNodes \/ n[2] \notin {"agent", "tools", "clear"}
<1>1. \A n \in DebateNodes \cup RiskNodes : n[2] = "debate"
  BY DEF DebateNodes, RiskNodes, Speaker
<1>2. /\ Judge("Research Manager")[2] = "judge" /\ Judge("Trader")[2] = "judge"
      /\ Judge("Portfolio Manager")[2] = "judge"
      /\ End[2] = "" /\ Waiting[2] = "" /\ Failed[2] = ""
  BY DEF Judge, End, Waiting, Failed
<1>3. \A n \in Nodes :
        \/ n \in AnalystNodes \/ n \in DebateNodes \cup RiskNodes
        \/ n \in {Judge("Research Manager"), Judge("Trader"), Judge("Portfolio Manager"),
                  End, Waiting, Failed}
  BY DEF Nodes, PreJudge, PreDebate, PostDebate
<1> QED
  BY <1>1, <1>2, <1>3

LEMMA TypesFact == CInv => TypeOK
<1> SUFFICES ASSUME CInv PROVE TypeOK
  OBVIOUS
<1>1. /\ phase \in Phases /\ steps \in 0 .. RecursionLimit /\ Range(Plan) \subseteq Selected
      /\ why \in {"", "error", "limit"} /\ buf \in Buffers /\ st \in States /\ next \in Nodes
  BY DEF CInv, GInv, GraphTypes, ConsoleTypes
<1>2. next[2] \in {"agent", "tools", "clear"} => next[1] \in Range(Plan)
  <2>1. next \in AnalystNodes \/ next[2] \notin {"agent", "tools", "clear"}
    BY <1>1, AnalystTags
  <2>2. next \in AnalystNodes => \E i \in DOMAIN Plan : next[1] = Plan[i]
    BY DEF CInv, GInv, GraphTypes
  <2> QED
    BY <2>1, <2>2 DEF Range
<1>3. \A x \in DOMAIN buf.status : buf.status[x] \in Statuses
  BY <1>1 DEF Buffers
<1>4. DOMAIN buf.sections = Selected \cup Range(TeamSections)
  BY <1>1 DEF Buffers, SectionNames
<1>5. st.reports \in [AnalystKeys -> Texts]
  BY <1>1 DEF States
<1>6. \A a \in AnalystKeys \ Selected : st.reports[a] = ""
  <2>1. \A a \in AnalystKeys : st.reports[a] # "" => \E i \in DOMAIN Plan : Plan[i] = a
    BY DEF CInv, GInv, TextsInTurn
  <2> QED
    BY <1>1, <2>1 DEF Range
<1> QED
  BY <1>1, <1>2, <1>3, <1>4, <1>5, <1>6 DEF TypeOK, Phases

LEMMA ContextFact == CInv => ContextIsOwn
<1> SUFFICES ASSUME CInv PROVE ContextIsOwn
  OBVIOUS
<1>1. TypeOK
  BY TypesFact
<1>2. ASSUME NEW a \in Range(Plan), next \in {Agent(a), Tools(a), Clear(a)}
      PROVE  LET ms == st.messages IN
             /\ ms[1].kind \in {"human", "placeholder"}
             /\ \A i \in 2 .. Len(ms) : ms[i].by = a
             /\ next = Agent(a) => /\ Len(ms) % 2 = 1
                                   /\ \A i \in 2 .. Len(ms) :
                                        ms[i].kind = IF i % 2 = 0 THEN "call" ELSE "result"
  <2>1. PICK j \in DOMAIN Plan : Plan[j] = a
    BY DEF Range
  <2>2. Plan \in Seq(AnalystKeys)
    BY DEF CInv, GInv, GraphTypes, Shapes, Plan
  <2>3. a \in AnalystKeys
    BY <2>1, <2>2
  <2>4. next \in AnalystNodes /\ next[1] = a /\ (next = Agent(a) => next[2] = "agent")
    BY <1>2, <2>3, NodeKinds DEF Agent, Tools, Clear
  <2>5. OwnMessages
    BY DEF CInv, GInv
  <2> QED
    BY <2>1, <2>4, <2>5 DEF OwnMessages
<1> QED
  BY <1>1, <1>2 DEF ContextIsOwn

(* Each analyst starts from one message of the user, sees its own calls    *)
(* only, each followed by its results, and no model is asked with a call   *)
(* that has no result.  The statement includes the types of the variables. *)
THEOREM AnalystsSeeTheirOwn == Spec => []ContextIsOwn
<1>1. CInv => ContextIsOwn
  BY ContextFact
<1> QED
  BY <1>1, ConsoleInvariant, PTL

(* A run meets the recursion limit only when its batches of tool calls use *)
(* up what the nodes' own supersteps leave.                                *)
THEOREM OnlyToolsMeetTheLimit == Spec => []LimitOnlyByTools
<1>1. CInv => LimitOnlyByTools
  BY DEF CInv
<1> QED
  BY <1>1, ConsoleInvariant, PTL

(* The log shows every message with something to show once, in the order   *)
(* the nodes added it, although each chunk repeats the messages not        *)
(* cleared.                                                                *)
THEOREM LogIsTheTranscript == Spec => []LogIsTranscript
<1>1. CInv => LogIsTranscript
  BY DEF CInv, Transcribed, LogIsTranscript
<1> QED
  BY <1>1, ConsoleInvariant, PTL

\* The places of a completed report.
LEMMA FinalizersOf ==
    ASSUME ChosenTypes
    PROVE  /\ \A a \in Selected : FinalizedBy(a) = AnalystName(a)
           /\ FinalizedBy("investment_plan") = "Research Manager"
           /\ FinalizedBy("trader_investment_plan") = "Trader"
           /\ FinalizedBy("final_trade_decision") = "Portfolio Manager"
           /\ \A s \in SectionNames :
                /\ FinalizedBy(s) \in Agents
                /\ \/ s \in Selected
                   \/ s \in {"investment_plan", "trader_investment_plan", "final_trade_decision"}
<1>1. /\ Range(TeamSections) = {"investment_plan", "trader_investment_plan", "final_trade_decision"}
      /\ AnalystKeys \cap Range(TeamSections) = {} /\ Selected \subseteq AnalystKeys
      /\ \A a \in Selected : AnalystName(a) \in Agents
      /\ FixedAgents \subseteq Agents
  BY NamesApart, SelectedFacts
<1>2. \A a \in Selected : FinalizedBy(a) = AnalystName(a)
  BY <1>1 DEF FinalizedBy
<1>3. /\ "investment_plan" \notin AnalystKeys /\ "trader_investment_plan" \notin AnalystKeys
      /\ "final_trade_decision" \notin AnalystKeys
  BY <1>1
<1>4. /\ FinalizedBy("investment_plan") = "Research Manager"
      /\ FinalizedBy("trader_investment_plan") = "Trader"
      /\ FinalizedBy("final_trade_decision") = "Portfolio Manager"
  BY <1>3 DEF FinalizedBy, Finalizer
<1>5. \A s \in SectionNames :
        s \in Selected \/ s \in {"investment_plan", "trader_investment_plan", "final_trade_decision"}
  BY <1>1 DEF SectionNames
<1>6. {"Research Manager", "Trader", "Portfolio Manager"} \subseteq Agents
  BY <1>1 DEF FixedAgents, ResearchTeam
<1> QED
  BY <1>1, <1>2, <1>4, <1>5, <1>6

LEMMA InterimFact == CInv => InterimNotCounted
<1> SUFFICES ASSUME CInv PROVE InterimNotCounted
  OBVIOUS
<1>1. ChosenTypes /\ buf \in Buffers /\ st \in States
  BY DEF CInv, GInv, GraphTypes, ConsoleTypes, ChosenTypes
<1>2. /\ DOMAIN buf.sections = SectionNames /\ DOMAIN buf.files = SectionNames
      /\ DOMAIN buf.status = Agents
  BY <1>1 DEF Buffers
<1>3. /\ \A a \in AnalystKeys : FinalText(a) = st.reports[a]
      /\ FinalText("investment_plan") = st.plan
      /\ FinalText("trader_investment_plan") = st.proposal
      /\ FinalText("final_trade_decision") = st.decision
      /\ \A s \in SectionNames : FinalText(s) \in Texts
  BY <1>1, FinalTexts
<1>4. Selected \subseteq AnalystKeys
  BY <1>1, SelectedFacts
<1>5. st.plan = st.debate.judge /\ st.decision = st.risk.judge
  BY DEF CInv, GInv, TextsInTurn
<1>6. ASSUME NEW s \in CompletedReports(buf) PROVE buf.sections[s] = FinalText(s)
  <2>1. s \in SectionNames /\ buf.sections[s] # None /\ buf.status[FinalizedBy(s)] = "completed"
    BY <1>2, <1>6 DEF CompletedReports
  <2>2. CASE next = Waiting
    BY <1>2, <2>1, <2>2 DEF CInv, Displayed
  <2>3. CASE phase \in {"done", "saved"}
    BY <1>2, <2>1, <2>3 DEF CInv, Displayed
  <2>4. CASE next # Waiting /\ phase \notin {"done", "saved"}
    <3>1. Shows(buf, st)
      BY <2>4 DEF CInv, Displayed
    <3>2. CASE s \in Selected
      <4>1. buf.status[AnalystName(s)] = "completed"
        BY <1>1, <2>1, <3>2, FinalizersOf
      <4>2. st.reports[s] # "" /\ buf.sections[s] = st.reports[s]
        BY <3>1, <3>2, <4>1 DEF Shows, ShowsAnalysts
      <4> QED
        BY <1>3, <1>4, <3>2, <4>2
    <3>3. CASE s = "investment_plan"
      <4>1. buf.status["Research Manager"] = "completed"
        BY <1>1, <2>1, <3>3, FinalizersOf
      <4>2. "Research Manager" \in ResearchTeam
        BY DEF ResearchTeam
      <4>3. st.debate.judge # "" /\ buf.sections["investment_plan"] = st.debate.judge
        BY <3>1, <4>1, <4>2 DEF Shows, ShowsResearch
      <4> QED
        BY <1>3, <1>5, <3>3, <4>3
    <3>4. CASE s = "trader_investment_plan"
      <4>1. buf.status["Trader"] = "completed"
        BY <1>1, <2>1, <3>4, FinalizersOf
      <4>2. st.proposal # "" /\ buf.sections["trader_investment_plan"] = st.proposal
        BY <3>1, <4>1 DEF Shows, ShowsTrader
      <4> QED
        BY <1>3, <3>4, <4>2
    <3>5. CASE s = "final_trade_decision"
      <4>1. buf.status["Portfolio Manager"] = "completed"
        BY <1>1, <2>1, <3>5, FinalizersOf
      <4>2. st.risk.judge # "" /\ buf.sections["final_trade_decision"] = st.risk.judge
        BY <3>1, <4>1 DEF Shows, ShowsRisk
      <4> QED
        BY <1>3, <1>5, <3>5, <4>2
    <3> QED
      BY <1>1, <2>1, <3>2, <3>3, <3>4, <3>5, FinalizersOf
  <2> QED
    BY <2>2, <2>3, <2>4
<1>7. ASSUME phase = "done"
      PROVE  /\ CompletedReports(buf) = DOMAIN buf.sections
             /\ \A s \in DOMAIN buf.files : FinalText(s) # "" => buf.files[s] = FinalText(s)
  <2>1. /\ \A x \in Agents : buf.status[x] = "completed"
        /\ \A s \in SectionNames : /\ buf.sections[s] = FinalText(s)
                                   /\ FinalText(s) # "" => buf.files[s] = FinalText(s)
    BY <1>2, <1>7 DEF CInv, Displayed
  <2>2. \A s \in SectionNames : FinalizedBy(s) \in Agents
    BY <1>1, FinalizersOf
  <2>3. \A s \in SectionNames : buf.sections[s] # None
    BY <1>3, <2>1, TextsAssumption
  <2>4. CompletedReports(buf) = SectionNames
    BY <1>2, <2>1, <2>2, <2>3 DEF CompletedReports
  <2> QED
    BY <1>2, <2>1, <2>4
<1> QED
  BY <1>6, <1>7 DEF InterimNotCounted

LEMMA SavedFact == CInv => SavedTreeAgrees
<1> SUFFICES ASSUME CInv, phase = "saved",  NEW s \in DOMAIN buf.files
             PROVE  s \in tree <=> FinalText(s) # ""
  BY DEF SavedTreeAgrees
<1>1. ChosenTypes /\ buf \in Buffers /\ st \in States
  BY DEF CInv, GInv, GraphTypes, ConsoleTypes, ChosenTypes
<1>2. s \in SectionNames
  BY <1>1 DEF Buffers
<1>3. /\ \A a \in AnalystKeys : FinalText(a) = st.reports[a]
      /\ FinalText("investment_plan") = st.plan
      /\ FinalText("trader_investment_plan") = st.proposal
      /\ FinalText("final_trade_decision") = st.decision
  BY <1>1, FinalTexts
<1>4. Selected \subseteq AnalystKeys
  BY <1>1, SelectedFacts
<1>5. st.plan = st.debate.judge /\ st.decision = st.risk.judge
  BY DEF CInv, GInv, TextsInTurn
<1>6. tree = ReportTree(st)
  BY DEF CInv, Displayed
<1>7. /\ AnalystKeys = {"market", "social", "news", "kap", "fundamentals"}
  BY NodeKinds
<1> DEFINE x == s
<1>8. x \in ReportTree(st) <=>
        \/ x \in AnalystKeys /\ st.reports[x] # ""
        \/ x \in Debaters /\ st.debate.said[x] # << >>
        \/ x \in RiskAnalysts /\ st.risk.said[x] # << >>
        \/ x = "investment_plan" /\ st.debate.judge # ""
        \/ x = "trader_investment_plan" /\ st.proposal # ""
        \/ x = "final_trade_decision" /\ st.risk.judge # ""
  <2> HIDE DEF x
  <2> QED
    BY DEF ReportTree
<1>9. CASE s \in Selected
  <2>1. s \in AnalystKeys
    BY <1>4, <1>9
  <2>2. s \notin Debaters /\ s \notin RiskAnalysts
    BY <1>7, <2>1 DEF Debaters, RiskAnalysts
  <2>3. s # "investment_plan" /\ s # "trader_investment_plan" /\ s # "final_trade_decision"
    BY <1>7, <2>1
  <2> QED
    BY <1>3, <1>6, <1>8, <2>1, <2>2, <2>3
<1>10. ASSUME s \in {"investment_plan", "trader_investment_plan", "final_trade_decision"}
       PROVE  s \in tree <=> FinalText(s) # ""
  <2>1. s \notin Debaters /\ s \notin RiskAnalysts
    BY <1>10 DEF Debaters, RiskAnalysts
  <2>2. s \notin AnalystKeys
    BY <1>7, <1>10
  <2>3. CASE s = "investment_plan"
    BY <1>3, <1>5, <1>6, <1>8, <2>1, <2>2, <2>3
  <2>4. CASE s = "trader_investment_plan"
    BY <1>3, <1>6, <1>8, <2>1, <2>2, <2>4
  <2>5. CASE s = "final_trade_decision"
    BY <1>3, <1>5, <1>6, <1>8, <2>1, <2>2, <2>5
  <2> QED
    BY <1>10, <2>3, <2>4, <2>5
<1> QED
  BY <1>1, <1>2, <1>9, <1>10, FinalizersOf

(* A report counted as completed, and the report's file once the run is    *)
(* done, is its finalizing agent's own text, never an interim text of a    *)
(* debate, and the saved tree holds the same reports as the files do.      *)
THEOREM ShownReportsAreFinal == Spec => []ReportsAreFinal
<1>1. CInv => ReportsAreFinal
  BY InterimFact, SavedFact DEF ReportsAreFinal
<1> QED
  BY <1>1, ConsoleInvariant, PTL

\* What is completed on a display is completed on a later one.
LEMMA LaterCompleted ==
    ASSUME ChosenTypes, NEW b \in Buffers, NEW c \in Buffers, NEW s0, NEW s,
           Shows(b, s0), Shows(c, s), Later(s0, s), NEW x \in Agents, b.status[x] = "completed"
    PROVE  c.status[x] = "completed"
<1>1. Selected \subseteq AnalystKeys
  BY SelectedFacts
<1>2. CASE \E a \in Selected : x = AnalystName(a)
  <2>1. PICK a \in Selected : x = AnalystName(a)
    BY <1>2
  <2>2. s0.reports[a] # ""
    BY <2>1 DEF Shows, ShowsAnalysts
  <2>3. s.reports[a] # ""
    BY <1>1, <2>2 DEF Later
  <2> QED
    BY <2>1, <2>3 DEF Shows, ShowsAnalysts
<1>3. CASE x \in ResearchTeam
  <2>1. s0.debate.judge # ""
    BY <1>3 DEF Shows, ShowsResearch
  <2>2. s.debate.judge # ""
    BY <2>1 DEF Later
  <2> QED
    BY <1>3, <2>2 DEF Shows, ShowsResearch
<1>4. CASE x = "Trader"
  <2>1. s0.proposal # ""
    BY <1>4 DEF Shows, ShowsTrader
  <2>2. s.proposal # ""
    BY <2>1 DEF Later
  <2> QED
    BY <1>4, <2>2 DEF Shows, ShowsTrader
<1>5. CASE x \in RiskAnalysts \/ x = "Portfolio Manager"
  <2>1. s0.risk.judge # ""
    BY <1>5 DEF Shows, ShowsRisk
  <2> QED
    BY <2>1 DEF Later
<1> QED
  BY <1>2, <1>3, <1>4, <1>5 DEF Agents, FixedAgents

(* An agent that the display shows as completed stays completed.           *)
THEOREM DisplayCompletedStays == Spec => CompletedStays
<1> DEFINE Stays == \A x \in DOMAIN buf.status :
                      buf.status[x] = "completed" => buf'.status[x] = "completed"
<1>1. CInv /\ [Next]_vars => [Stays]_vars
  <2> SUFFICES ASSUME CInv, [Next]_vars, NEW x \in DOMAIN buf.status, buf.status[x] = "completed"
               PROVE  buf'.status[x] = "completed"
    OBVIOUS
  <2>1. ChosenTypes /\ buf \in Buffers
    BY DEF CInv, ConsoleTypes, ChosenTypes
  <2>2. x \in Agents
    BY <2>1 DEF Buffers
  <2>3. CASE Start
    <3>1. next = Waiting
      BY <2>3 DEF Start, CInv, ConsoleTypes
    <3> QED
      BY <3>1 DEF CInv, Displayed
  <2>4. CASE Chunk
    <3>1. CInv' /\ Shows(buf, st) /\ Shows(buf', st') /\ Later(st, st')
      BY <2>4, ChunkStep
    <3>2. chosen' = chosen
      BY <2>4 DEF Chunk
    <3>3. buf' \in Buffers
      BY <3>1, <3>2, ChosenFrame DEF CInv, ConsoleTypes
    <3> DEFINE c == buf'
               s == st'
    <3>4. c \in Buffers /\ Shows(c, s) /\ Later(st, s)
      BY <3>1, <3>3
    <3> HIDE DEF c, s
    <3>5. c.status[x] = "completed"
      BY <2>1, <2>2, <3>1, <3>4, LaterCompleted
    <3> QED
      BY <3>5 DEF c
  <2>5. CASE Finish
    BY <2>2, <2>5, FinishStep
  <2>6. CASE Refuse \/ Raise \/ Save \/ UNCHANGED vars
    <3>1. buf' = buf
      BY <2>6 DEF Refuse, Raise, Save, vars
    <3> QED
      BY <3>1
  <2> QED
    BY <2>3, <2>4, <2>5, <2>6 DEF Next
<1> QED
  BY <1>1, ConsoleInvariant, PTL DEF Spec, CompletedStays

\* The turn of the i-th analyst is the only one its answer allows.
LEMMA WallFact == CInv => WallTimesAreTurns
<1> SUFFICES ASSUME CInv PROVE WallTimesAreTurns
  OBVIOUS
<1>1. \A i \in DOMAIN Plan : timer.wall[Plan[i]] # None <=> st.reports[Plan[i]] # ""
  BY DEF CInv, Timed
<1>2. ASSUME NEW i \in DOMAIN Plan, chosen = Plan, \A j \in 1 .. i : st.reports[Plan[j]] # ""
      PROVE  timer.wall[Plan[i]] = TurnOf(i)
  <2> DEFINE P(d) == \E t \in AnsweredAt(Plan[i]) :
                        IF i = 1 THEN d = t ELSE \E t0 \in AnsweredAt(Plan[i - 1]) : d = t - t0
             w == timer.wall[Plan[i]]
             s == timer.started[Plan[i]]
  <2>1. /\ DOMAIN Plan = 1 .. Len(Plan) /\ Len(Plan) \in Nat /\ steps \in Nat
    <3>1. Plan \in Seq(AnalystKeys)
      BY DEF CInv, GInv, GraphTypes, Shapes, Plan
    <3> QED
      BY <3>1, LenProperties, GraphFacts DEF CInv
  <2>2. \A j \in 1 .. i - 1 : j \in 1 .. i
    BY <2>1
  <2>3. /\ IF i = 1 THEN s = 0 ELSE s \in AnsweredAt(Plan[i - 1])
        /\ \E t \in AnsweredAt(Plan[i]) : w = t - s
    BY <1>2, <2>2 DEF CInv, Timed
  <2>4. \A a : \A t \in AnsweredAt(a) : t \in Nat /\ t <= steps
    BY AnsweredBefore DEF CInv
  <2>5. /\ \A j \in DOMAIN Plan : \A t \in AnsweredAt(Plan[j]), u \in AnsweredAt(Plan[j]) : t = u
        /\ \A j, k \in DOMAIN Plan : \A t \in AnsweredAt(Plan[j]), u \in AnsweredAt(Plan[k]) :
             j < k => t < u
    BY DEF CInv, GInv, AnswersInTurn
  <2>6. i # 1 => i - 1 \in DOMAIN Plan /\ i - 1 < i
    BY <2>1
  <2> HIDE DEF w, s
  <2>7. PICK t \in AnsweredAt(Plan[i]) : w = t - s
    BY <2>3
  <2>8. t \in Nat /\ t <= steps
    BY <2>4
  <2>9. w \in 0 .. steps /\ P(w)
    <3>1. CASE i = 1
      BY <2>1, <2>3, <2>7, <2>8, <3>1
    <3>2. CASE i # 1
      <4>1. s \in AnsweredAt(Plan[i - 1]) /\ s \in Nat
        BY <2>3, <2>4, <3>2
      <4>2. s < t
        BY <2>5, <2>6, <2>7, <3>2, <4>1
      <4>3. w \in 0 .. steps
        BY <2>1, <2>7, <2>8, <4>1, <4>2
      <4> QED
        BY <2>7, <3>2, <4>1, <4>3
    <3> QED
      BY <3>1, <3>2
  <2>10. ASSUME NEW d, P(d) PROVE d = w
    <3>1. CASE i = 1
      <4>1. PICK u \in AnsweredAt(Plan[i]) : d = u
        BY <2>10, <3>1
      <4>2. u = t
        BY <2>5, <2>7, <4>1
      <4>3. w = t
        BY <2>3, <2>7, <2>8, <3>1
      <4> QED
        BY <4>1, <4>2, <4>3
    <3>2. CASE i # 1
      <4>1. PICK u \in AnsweredAt(Plan[i]), t0 \in AnsweredAt(Plan[i - 1]) : d = u - t0
        BY <2>10, <3>2
      <4>2. u = t
        BY <2>5, <2>7, <4>1
      <4>3. t0 = s
        BY <2>3, <2>5, <2>6, <3>2, <4>1
      <4> QED
        BY <2>7, <4>1, <4>2, <4>3
    <3> QED
      BY <3>1, <3>2
  <2>11. TurnOf(i) = CHOOSE d \in 0 .. steps : P(d)
    BY DEF TurnOf
  <2> HIDE DEF P
  <2> QED
    BY <2>9, <2>10, <2>11 DEF w
<1> QED
  BY <1>1, <1>2 DEF WallTimesAreTurns

LEMMA RunningFact == CInv => RunningShown
<1> DEFINE Runs == \/ next[2] \in {"agent", "tools"}
                   \/ next \in {Speaker(who) : who \in Debaters \cup {"Aggressive"}}
                   \/ next \in {Judge("Research Manager"), Judge("Trader")}
<1> SUFFICES ASSUME CInv, phase = "streaming", Filled, Runs
             PROVE  buf.status[ShownAs(next)] = "in_progress"
  BY DEF RunningShown
<1> HIDE DEF Runs
<1>1. /\ ChosenTypes /\ st \in States /\ next \in Nodes /\ next \notin {Waiting, Failed}
      /\ Range(Plan) \subseteq Selected /\ chosen = Plan
  BY DEF CInv, GInv, GraphTypes, ConsoleTypes, ChosenTypes, Filled
<1>2. Shows(buf, st)
  BY <1>1 DEF CInv, Displayed
<1>3. \A i \in DOMAIN Plan : Answered(i) => st.reports[Plan[i]] # ""
  BY DEF Filled, Answered, AnsweredAt
<1>4. \A i \in DOMAIN Plan : st.reports[Plan[i]] # "" => Answered(i)
  <2>1. \A a \in AnalystKeys : st.reports[a] # "" => \E i \in DOMAIN Plan : Plan[i] = a /\ Answered(i)
    BY DEF CInv, GInv, TextsInTurn
  <2>2. \A i \in DOMAIN Plan : Plan[i] \in AnalystKeys
    BY <1>1, SelectedFacts DEF Range
  <2>3. \A i, j \in DOMAIN Plan : Plan[i] = Plan[j] => i = j
    BY DEF CInv, GInv, GraphTypes
  <2>4. ASSUME NEW i \in DOMAIN Plan, st.reports[Plan[i]] # "" PROVE Answered(i)
    <3>1. PICK j \in DOMAIN Plan : Plan[j] = Plan[i] /\ Answered(j)
      BY <2>1, <2>2, <2>4
    <3>2. j = i
      BY <2>3, <3>1
    <3> QED
      BY <3>1, <3>2
  <2> QED
    BY <2>4
<1>5. /\ st.plan = st.debate.judge
      /\ next \in PreJudge => st.debate.judge = ""
      /\ next \in PreTrade => st.proposal = ""
      /\ next \in Nodes \ {End, Failed} => st.risk.judge = ""
  BY DEF CInv, GInv, TextsInTurn
<1>6. CASE next[2] \in {"agent", "tools"}
  <2>1. next \in AnalystNodes
    BY <1>1, <1>6, AnalystTags
  <2>2. PICK i \in DOMAIN Plan : next[1] = Plan[i]
    BY <2>1 DEF CInv, GInv, GraphTypes
  <2>3. \A j \in DOMAIN Plan : Answered(j) <=> j < i
    <3>1. next[2] # "clear"
      BY <1>6
    <3> QED
      BY <2>1, <2>2, <3>1 DEF CInv, GInv, AnswersInTurn
  <2>4. DOMAIN Plan = 1 .. Len(Plan) /\ Len(Plan) \in Nat
    BY <1>1, LenProperties DEF ChosenTypes
  <2>5. \A j \in 1 .. i - 1 : st.reports[Plan[j]] # ""
    <3>1. \A j \in 1 .. i - 1 : j \in DOMAIN Plan /\ j < i
      BY <2>4
    <3> QED
      BY <1>3, <2>3, <3>1
  <2>6. st.reports[Plan[i]] = ""
    <3>1. ~(i < i)
      BY <2>4
    <3> QED
      BY <1>4, <2>3, <3>1
  <2>7. Plan[i] \in FirstOpen(st)
    <3>1. chosen[i] \in FirstOpen(st) <=>
            st.reports[chosen[i]] = "" /\ \A j \in 1 .. i - 1 : st.reports[chosen[j]] # ""
      BY <1>1, FirstOpenIs
    <3> QED
      BY <1>1, <2>5, <2>6, <3>1
  <2>8. Plan[i] \in Selected
    BY <1>1 DEF Range
  <2>9. buf.status[AnalystName(Plan[i])] = "in_progress"
    BY <1>2, <2>6, <2>7, <2>8 DEF Shows, ShowsAnalysts
  <2>10. ShownAs(next) = AnalystName(next[1])
    BY <1>6 DEF ShownAs
  <2> QED
    BY <2>2, <2>9, <2>10
<1>7. ASSUME next \notin PreDebate PROVE Open(st) = {}
  <2>1. \A i \in DOMAIN Plan : st.reports[Plan[i]] # ""
    BY <1>1, <1>3, <1>7 DEF CInv, GInv, AnswersInTurn
  <2>2. \A a \in Selected : \E i \in DOMAIN Plan : Plan[i] = a
    BY <1>1 DEF Selected, Range
  <2> QED
    BY <2>1, <2>2 DEF Open
<1>8. /\ Spoken(st.debate, <<"Bull", "Bear">>) /\ st.debate.count \in Nat
      /\ next = Speaker("Bear") => st.debate.count % 2 = 1
      /\ next = Judge("Research Manager") => st.debate.count = TurnsOf(2, shape.debate)
      /\ shape.debate \in Int
  <2>1. shape.debate \in Int /\ DebateHeld
    BY DEF CInv, GInv, GraphTypes, Shapes
  <2>2. st.debate \in Debates
    BY <1>1 DEF States
  <2> QED
    BY <2>1, <2>2 DEF DebateHeld, PostDebate, Debates
<1>9. st.debate.count # 0 => st.debate.history # << >>
  <2>1. Len(st.debate.history) = st.debate.count
    BY <1>8 DEF Spoken
  <2>2. Len(<< >>) = 0
    OBVIOUS
  <2> QED
    BY <2>1, <2>2
<1>10. CASE next = Speaker("Bull")
  <2>1. next \in PreJudge /\ next \notin PreDebate
    BY <1>10, TeamNodes DEF DebateNodes
  <2>2. ShownAs(next) = "Bull Researcher"
    BY <1>10 DEF ShownAs, Speaker
  <2>3. "Bull Researcher" \in ResearchTeam
    BY DEF ResearchTeam
  <2> QED
    BY <1>2, <1>5, <1>7, <2>1, <2>2, <2>3 DEF Shows, ShowsResearch
<1>11. CASE next = Speaker("Bear")
  <2>1. next \in PreJudge
    BY <1>11, TeamNodes DEF DebateNodes
  <2>2. ShownAs(next) = "Bear Researcher"
    BY <1>11 DEF ShownAs, Speaker
  <2>3. "Bear Researcher" \in ResearchTeam
    BY DEF ResearchTeam
  <2>4. st.debate.history # << >>
    <3>1. 0 % 2 = 0
      OBVIOUS
    <3>2. st.debate.count % 2 = 1
      BY <1>8, <1>11
    <3>3. st.debate.count # 0
      BY <3>1, <3>2
    <3> QED
      BY <1>9, <3>3
  <2> QED
    BY <1>2, <1>5, <2>1, <2>2, <2>3, <2>4 DEF Shows, ShowsResearch
<1>12. CASE next = Judge("Research Manager")
  <2>1. next \in PreJudge
    BY <1>12, TeamNodes
  <2>2. ShownAs(next) = "Research Manager"
    BY <1>12 DEF ShownAs, Judge
  <2>3. "Research Manager" \in ResearchTeam
    BY DEF ResearchTeam
  <2>4. st.debate.history # << >>
    <3>1. st.debate.count = TurnsOf(2, shape.debate) /\ shape.debate \in Int
      BY <1>8, <1>12
    <3>2. TurnsOf(2, shape.debate) # 0
      BY <3>1 DEF TurnsOf
    <3> QED
      BY <1>9, <3>1, <3>2
  <2> QED
    BY <1>2, <1>5, <2>1, <2>2, <2>3, <2>4 DEF Shows, ShowsResearch
<1>13. CASE next = Judge("Trader")
  <2>1. next \in PreTrade
    BY <1>13, TeamNodes
  <2>2. ShownAs(next) = "Trader"
    BY <1>13 DEF ShownAs, Judge
  <2>3. st.debate.judge # ""
    BY <1>5, <1>13 DEF Filled
  <2> QED
    BY <1>2, <1>5, <2>1, <2>2, <2>3 DEF Shows, ShowsTrader
<1>14. CASE next = Speaker("Aggressive")
  <2>1. next \in Nodes \ {End, Failed}
    BY <1>14, TeamNodes DEF RiskNodes
  <2>2. ShownAs(next) = "Aggressive"
    BY <1>14 DEF ShownAs, Speaker
  <2>3. "Aggressive" \in RiskAnalysts
    BY DEF RiskAnalysts
  <2>4. st.proposal # ""
    BY <1>14 DEF Filled
  <2> QED
    BY <1>2, <1>5, <2>1, <2>2, <2>3, <2>4 DEF Shows, ShowsRisk
<1>15. QED
  BY <1>6, <1>10, <1>11, <1>12, <1>13, <1>14 DEF Runs, Debaters

(* While every text so far has content and no analyst was filtered out,    *)
(* the display shows the agent that runs next as running, up to the first  *)
(* risk analyst, and an analyst's wall time is the supersteps from the     *)
(* report before its own to its own; without a report it has none.         *)
THEOREM DisplayShowsTheRun == Spec => []DisplayFollowsRun
<1>1. CInv => DisplayFollowsRun
  BY RunningFact, WallFact DEF DisplayFollowsRun
<1> QED
  BY <1>1, ConsoleInvariant, PTL

\* The providers of the table, one by one.
LEMMA KnownNames ==
    /\ Known = Menu \cup {"qwen-cn", "glm-cn", "minimax-cn"} /\ None \notin Known
    /\ China("qwen") = "qwen-cn" /\ China("glm") = "glm-cn" /\ China("minimax") = "minimax-cn"
<1>1. China("qwen") = "qwen-cn" /\ China("glm") = "glm-cn" /\ China("minimax") = "minimax-cn"
  BY DEF China
<1>2. {China(p) : p \in Regional} = {"qwen-cn", "glm-cn", "minimax-cn"}
  BY <1>1 DEF Regional
<1> QED
  BY <1>1, <1>2, NoneAssumption DEF Known

\* A table's endpoint is the provider's own but for "glm" and "ollama".
LEMMA TableUrls ==
    ASSUME NEW p \in Known, NEW env
    PROVE  /\ p = "glm" => TableUrl(p, env) = "glm-cn"
           /\ p = "ollama" => TableUrl(p, env) = FromEnv(env.ollama, "ollama")
           /\ p \notin {"glm", "ollama"} => TableUrl(p, env) \in {p, None}
BY KnownNames DEF TableUrl

LEMMA ClientFact == ClientAsChosen
<1> SUFFICES ASSUME phase = "asked", Outcome(session) = "streaming"
             PROVE  LET env == session.env
                        c == RunConfig(session)
                        client == LlmClient(c, EnsureApiKey(session), env)
                    IN  /\ c.provider \notin {"azure", "bedrock"} =>
                             ServedBy(client.endpoint, c.provider, env)
                        /\ env.provider # None => c.provider = env.provider
                        /\ c.provider \in Knobs /\ env.effort[c.provider] # None =>
                             client.effort = env.effort[c.provider]
  BY DEF ClientAsChosen
<1> DEFINE s == session
           env == s.env
           c == RunConfig(s)
           keys == EnsureApiKey(s)
           p == Provider(s).provider
           url == Provider(s).url
           client == LlmClient(c, keys, env)
<1>1. c.provider = p /\ c.url = url /\ c.effort = Effort(s)
  BY DEF RunConfig
<1>2. ~CannotBuild(c, keys, env)
  BY DEF Outcome
<1> HIDE DEF s, keys
<1>3. client.endpoint = Endpoint(c, env) /\ client.effort = ProviderEffort(c)
  BY DEF LlmClient
<1> HIDE DEF c, client
<1>4. p \in Known /\ (p \notin Native => Endpoint(c, env) # None)
  BY <1>1, <1>2 DEF CannotBuild
<1>5. None \notin Known
  BY KnownNames
<1> DEFINE row == IF s.ans.provider \in Regional THEN AskRegion(s.ans.provider, s.ans.region)
                  ELSE [provider |-> s.ans.provider, url |-> TableUrl(s.ans.provider, env)]
<1>6. env.provider # None => p = env.provider /\ url = ResolveBackendUrl(p, None, env)
  BY DEF Provider
<1>7. env.provider = None /\ UrlAsked(s) => p = "openai_compatible" /\ env.url = None
  BY DEF Provider, UrlAsked
<1>8. env.provider = None /\ ~UrlAsked(s) =>
        p = row.provider /\ url = ResolveBackendUrl(row.provider, row.url, env)
  <2> DEFINE r == row
  <2>1. SelectProvider(s) = [r EXCEPT !.url = ResolveBackendUrl(r.provider, r.url, s.env)]
    BY DEF SelectProvider
  <2>2. env.provider = None /\ ~UrlAsked(s) => Provider(s) = SelectProvider(s)
    BY DEF Provider
  <2>3. \E u, v : r = [provider |-> u, url |-> v]
    BY DEF AskRegion
  <2> HIDE DEF r
  <2>4. \A w : [r EXCEPT !.url = w].provider = r.provider /\ [r EXCEPT !.url = w].url = w
    BY <2>3
  <2>5. env.provider = None /\ ~UrlAsked(s) =>
          p = r.provider /\ url = ResolveBackendUrl(r.provider, r.url, env)
    BY <2>1, <2>2, <2>4
  <2> QED
    BY <2>5 DEF r
<1>9. \/ row.url = row.provider /\ row.provider # "ollama" /\ row.provider # "glm"
      \/ row.url = TableUrl(row.provider, env) /\ row.provider # "glm"
      \/ row.url = "glm" /\ row.provider = "glm"
  <2>1. CASE s.ans.provider \in Regional
    <3>1. row = AskRegion(s.ans.provider, s.ans.region)
      BY <2>1
    <3>2. row.url = row.provider /\ row.provider \in {s.ans.provider, China(s.ans.provider)}
      BY <3>1 DEF AskRegion
    <3> HIDE DEF row
    <3>3. row.provider # "ollama"
      BY <2>1, <3>2, KnownNames DEF Regional
    <3> QED
      BY <3>2, <3>3
  <2>2. CASE s.ans.provider \notin Regional
    BY <2>2 DEF Regional
  <2> QED
    BY <2>1, <2>2
<1> HIDE DEF row
<1>10. env.url # None => url = env.url
  BY <1>6, <1>7, <1>8 DEF ResolveBackendUrl
<1>11. ASSUME env.url = None, p # "openai_compatible"
       PROVE  /\ url \in {IF env.provider = "glm" THEN "glm-cn" ELSE p, TableUrl(p, env)}
              /\ env.provider # "glm" => url = p \/ p # "glm"
              /\ p = "ollama" => url = FromEnv(env.ollama, "ollama")
              /\ env.provider = "glm" => url = "glm-cn" /\ p = "glm"
  <2>1. CASE env.provider # None
    <3>1. p = env.provider /\ url = TableUrl(p, env)
      BY <1>6, <1>11, <2>1 DEF ResolveBackendUrl
    <3> HIDE DEF p, url
    <3> QED
      BY <1>4, <3>1, TableUrls
  <2>2. CASE env.provider = None
    <3>1. p = row.provider /\ url = IF row.url # None THEN row.url ELSE TableUrl(p, env)
      BY <1>7, <1>8, <1>11, <2>2 DEF ResolveBackendUrl
    <3>2. env.provider # "glm"
      BY <1>5, <2>2, KnownNames DEF Menu, Regional
    <3> HIDE DEF p, url
    <3>3. \/ url = p /\ p # "ollama"
          \/ url = TableUrl(p, env) /\ p # "glm"
      BY <1>4, <1>5, <1>9, <3>1
    <3> QED
      BY <1>4, <3>2, <3>3, TableUrls
  <2> QED
    BY <2>1, <2>2
<1> HIDE DEF p, url
<1>12. p \notin {"azure", "bedrock"} =>
         Endpoint(c, env) = IF url # None \/ p = "openai_compatible" THEN url
                            ELSE IF p = "ollama" THEN FromEnv(env.ollama, "ollama") ELSE p
  BY <1>1 DEF Endpoint
<1>13. ASSUME p \notin {"azure", "bedrock"} PROVE ServedBy(client.endpoint, p, env)
  <2>1. CASE env.url # None
    BY <1>3, <1>10, <1>12, <1>13, <2>1 DEF ServedBy
  <2>2. CASE env.url = None /\ p = "openai_compatible"
    <3>1. p \notin Native
      BY <2>2 DEF Native
    <3> QED
      BY <1>3, <1>4, <2>2, <3>1 DEF ServedBy
  <2>3. CASE env.url = None /\ p = "ollama"
    <3>1. client.endpoint = FromEnv(env.ollama, "ollama")
      BY <1>3, <1>11, <1>12, <2>3
    <3> QED
      BY <2>3, <3>1 DEF ServedBy
  <2>4. CASE env.url = None /\ p \notin {"openai_compatible", "ollama"}
    <3>1. "glm-cn" # None
      BY <1>5, KnownNames
    <3>2. url = None \/ url = IF env.provider = "glm" THEN "glm-cn" ELSE p
      BY <1>4, <1>11, <2>4, TableUrls
    <3>3. url = None => env.provider # "glm"
      BY <1>11, <2>4, <3>1
    <3>4. client.endpoint = IF env.provider = "glm" THEN "glm-cn" ELSE p
      BY <1>3, <1>12, <1>13, <2>4, <3>2, <3>3
    <3>5. China("glm") = "glm-cn"
      BY KnownNames
    <3> QED
      BY <2>4, <3>4, <3>5 DEF ServedBy
  <2> QED
    BY <2>1, <2>2, <2>3, <2>4
<1>14. ASSUME p \in Knobs, env.effort[p] # None PROVE client.effort = env.effort[p]
  <2>1. Effort(s)[p] = env.effort[p]
    BY <1>14 DEF Effort, Asked, p
  <2> QED
    BY <1>1, <1>3, <1>14, <2>1 DEF ProviderEffort
<1> QED
  BY <1>1, <1>6, <1>13, <1>14 DEF s, c, client, keys

(* The client of a run sends to an endpoint of the account whose key it    *)
(* holds, or to the one the environment names, but for glm named by the    *)
(* environment; a provider or an effort of the environment wins over the   *)
(* answers.  For every session, whatever Sessions holds.                   *)
THEOREM ClientsAreAsChosen == Spec => []ClientAsChosen
BY ClientFact, PTL

=============================================================================
