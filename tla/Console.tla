------------------------------- MODULE Console -------------------------------
(***************************************************************************)
(* The interactive console (cli/main.py): a session of questions ends in a *)
(* graph, run_analysis streams it with stream_mode "values", so a chunk is *)
(* the whole state after a superstep, and each chunk updates the message   *)
(* buffer, the analysts' wall times and the report files before the next   *)
(* node runs.  The display thread only draws the layout that the end of a  *)
(* chunk filled, so the states of this module are the displayed ones.      *)
(***************************************************************************)
EXTENDS AgentGraph, Questionnaire, Subsequences

CONSTANT Sessions  \* environments and answers: see Questionnaire
ASSUME TextsAssumption == None \notin Texts \cup Debaters \cup RiskAnalysts
ASSUME SessionsAssumption ==
  \A s \in Sessions : {s.env.debate, s.env.risk, s.ans.depth} \subseteq Int \cup {None}

AnalystName(a) ==
  [market |-> "Market Analyst", social |-> "Sentiment Analyst", news |-> "News Analyst",
   kap |-> "KAP Analyst", fundamentals |-> "Fundamentals Analyst"][a]
ResearchTeam == {"Bull Researcher", "Bear Researcher", "Research Manager"}
FixedAgents == ResearchTeam \cup RiskAnalysts \cup {"Trader", "Portfolio Manager"}
TeamSections == <<"investment_plan", "trader_investment_plan", "final_trade_decision">>
Finalizer ==
  [investment_plan |-> "Research Manager", trader_investment_plan |-> "Trader",
   final_trade_decision |-> "Portfolio Manager"]

VARIABLES
  session,\* the questions' answers, None once they are used
  chosen, \* the analysts run_analysis shows, in their order
  buf,    \* MessageBuffer: status, sections, seen, log; files the reports on disk
  timer,  \* AnalystWallTimeTracker: started and wall, in supersteps
  phase,  \* "asked", "streaming", "done", "saved", "exited" or "raised"
  tree    \* the parts of the report tree saved after the run
vars == <<graphVars, session, chosen, buf, timer, phase, tree>>

(* The graph of a configuration: the analysts in their fixed order, those  *)
(* of a disabled source left out, though the display keeps them.           *)
Ordered(analysts) ==
  ElementsAt(AnalystOrder, {i \in DOMAIN AnalystOrder : AnalystOrder[i] \in analysts})
ShapeOf(c, env) ==
  [plan |-> Ordered(FilterEnabled(c.analysts, env)),
   debate |-> c.debate, risk |-> c.risk, bist |-> c.asset = "bist"]

-----------------------------------------------------------------------------
(* The buffer's operations.                                                *)
Selected == Range(chosen)

InitForAnalysis ==
  [status |-> [x \in {AnalystName(a) : a \in Selected} \cup FixedAgents |-> "pending"],
   sections |-> [s \in Selected \cup Range(TeamSections) |-> None],
   seen |-> {}, log |-> << >>,
   files |-> [s \in Selected \cup Range(TeamSections) |-> None]]

UpdateStatus(b, agents, status) ==
  [b EXCEPT !.status = [x \in DOMAIN @ |-> IF x \in agents THEN status ELSE @[x]]]

(* update_report_section with its decorator: the section's file is written *)
(* over unless the text is empty.                                          *)
UpdateSection(b, section, text) ==
  [b EXCEPT !.sections[section] = text,
            !.files[section] = IF text # "" THEN text ELSE @]

FinalizedBy(section) ==
  IF section \in AnalystKeys THEN AnalystName(section) ELSE Finalizer[section]

(* get_completed_reports_count counts these.                               *)
CompletedReports(b) ==
  {s \in DOMAIN b.sections :
     b.sections[s] # None /\ b.status[FinalizedBy(s)] = "completed"}

-----------------------------------------------------------------------------
(* A message leaves a line in the log if it has content or asks for tools. *)
Shown(m) == m.text # "" \/ m.kind = "call"
Ids(messages) == [i \in DOMAIN messages |-> messages[i].id]

(* One chunk: the messages not seen yet are logged.                        *)
\* Mutant: logs the chunk's messages whether seen or not.
LogAllMessages(b, messages) ==
  [b EXCEPT !.seen = @ \cup Range(Ids(messages)),
            !.log = @ \o Ids(ElementsAt(messages, {i \in DOMAIN messages : Shown(messages[i])}))]
LogMessages(b, messages) ==
  LET new == {i \in DOMAIN messages : messages[i].id \notin b.seen}
  IN  [b EXCEPT !.seen = @ \cup {messages[i].id : i \in new},
                !.log = @ \o Ids(ElementsAt(messages, {i \in new : Shown(messages[i])}))]

(* The first selected analyst without a report is running.                 *)
Active(b) == {a \in Selected : b.sections[a] \in {None, ""}}
FirstActive(b) ==
  {a \in Active(b) : \A c \in Active(b) :
      \E i, j \in DOMAIN chosen : chosen[i] = a /\ chosen[j] = c /\ i <= j}

CaptureReports(b, s) ==
  LET got == {a \in Selected : s.reports[a] # ""} IN
  [b EXCEPT !.sections = [x \in DOMAIN @ |-> IF x \in got THEN s.reports[x] ELSE @[x]],
            !.files = [x \in DOMAIN @ |-> IF x \in got THEN s.reports[x] ELSE @[x]]]

UpdateAnalystStatuses(b0, s) ==
  LET b == CaptureReports(b0, s)
      b1 == UpdateStatus(b, {AnalystName(a) : a \in Selected \ Active(b)}, "completed")
      b2 == UpdateStatus(b1, {AnalystName(a) : a \in FirstActive(b)}, "in_progress")
      b3 == UpdateStatus(b2, {AnalystName(a) : a \in Active(b) \ FirstActive(b)}, "pending")
  IN  IF Active(b) = {} /\ b3.status["Bull Researcher"] = "pending"
      THEN UpdateStatus(b3, {"Bull Researcher"}, "in_progress") ELSE b3

UpdateResearch(b, s) ==
  LET said == s.debate.said
      b1 == IF s.debate.history # << >> THEN UpdateStatus(b, ResearchTeam, "in_progress") ELSE b
      b2 == IF said["Bull"] # << >> THEN UpdateSection(b1, "investment_plan", "Bull") ELSE b1
      b3 == IF said["Bear"] # << >> THEN UpdateSection(b2, "investment_plan", "Bear") ELSE b2
  IN  IF s.debate.judge = "" THEN b3
      ELSE UpdateStatus(
             UpdateStatus(UpdateSection(b3, "investment_plan", s.debate.judge),
                          ResearchTeam, "completed"),
             {"Trader"}, "in_progress")

\* Mutant: handles the proposal once.
UpdateTraderOnce(b, s) ==
  IF s.proposal = "" \/ b.sections["trader_investment_plan"] # None THEN b
  ELSE UpdateStatus(UpdateStatus(UpdateSection(b, "trader_investment_plan", s.proposal),
                                 {"Trader"}, "completed"), {"Aggressive"}, "in_progress")
UpdateTrader(b, s) ==
  IF s.proposal = "" THEN b
  ELSE LET b1 == UpdateSection(b, "trader_investment_plan", s.proposal) IN
       IF b1.status["Trader"] = "completed" THEN b1
       ELSE UpdateStatus(UpdateStatus(b1, {"Trader"}, "completed"),
                         {"Aggressive"}, "in_progress")

(* One analyst of the risk team that has spoken.                           *)
ShowRisk(b, s, who) ==
  IF s.risk.said[who] = << >> THEN b
  ELSE UpdateSection(
         IF b.status[who] = "completed" THEN b ELSE UpdateStatus(b, {who}, "in_progress"),
         "final_trade_decision", who)

UpdateRisk(b, s) ==
  LET b1 == ShowRisk(ShowRisk(ShowRisk(b, s, "Aggressive"), s, "Conservative"), s, "Neutral")
  IN  IF s.risk.judge = "" \/ b1.status["Portfolio Manager"] = "completed" THEN b1
      ELSE UpdateStatus(UpdateSection(b1, "final_trade_decision", s.risk.judge),
                        RiskAnalysts \cup {"Portfolio Manager"}, "completed")

(* The chunk's handlers in their order.                                    *)
Handles(b, s, b9) ==
  \E b1 \in {LogMessages(b, s.messages)} :
  \E b2 \in {UpdateAnalystStatuses(b1, s)} :
  \E b3 \in {UpdateResearch(b2, s)} :
  \E b4 \in {UpdateTrader(b3, s)} : b9 = UpdateRisk(b4, s)

(* The wall times: started at most once, completed at most once.           *)
\* Mutant: starts again at every chunk.
MarkRestarted(t, as, now) ==
  [t EXCEPT !.started = [a \in DOMAIN @ |-> IF a \in as THEN now ELSE @[a]]]
MarkStarted(t, as, now) ==
  [t EXCEPT !.started = [a \in DOMAIN @ |->
     IF a \in as /\ @[a] = None THEN now ELSE @[a]]]
MarkCompleted(t, as, now) ==
  [t EXCEPT !.wall = [a \in DOMAIN @ |->
     IF a \in as /\ @[a] = None /\ t.started[a] # None THEN now - t.started[a] ELSE @[a]]]

(* sync_analyst_tracker_from_chunk looks at the chunk's own reports.       *)
SyncTracker(t, s, now) ==
  LET done == {a \in Selected : s.reports[a] # ""}
      first == {a \in Selected \ done : \A c \in Selected \ done :
                  \E i, j \in DOMAIN chosen : chosen[i] = a /\ chosen[j] = c /\ i <= j}
  IN  MarkCompleted(MarkStarted(t, done \cup first, now), done, now)

-----------------------------------------------------------------------------
NotTimed == [started |-> [a \in Selected |-> None], wall |-> [a \in Selected |-> None]]
BeforeStream ==
  UpdateStatus(InitForAnalysis, {AnalystName(Head(chosen))}, "in_progress")

Init ==
  /\ GraphInit /\ session \in Sessions /\ chosen = << >>
  /\ phase = "asked" /\ buf = InitForAnalysis /\ timer = NotTimed /\ tree = {}

(* The run starts: the stream's first chunk is the graph's input state.    *)
Start ==
  /\ phase = "asked" /\ Outcome(session) = "streaming" /\ phase' = "streaming"
  /\ LET c == RunConfig(session) IN
     chosen' = Ordered(c.analysts) /\ Invoke(ShapeOf(c, session.env))
  /\ buf' = UpdateAnalystStatuses(LogMessages(BeforeStream, <<Human>>), InitialState)'
  /\ timer' = SyncTracker(MarkStarted(NotTimed, {Head(chosen)}, 0), InitialState, 0)'
  /\ session' = None /\ UNCHANGED tree

(* A cancelled prompt, or a client or a graph that cannot be built.        *)
Refuse ==
  /\ phase = "asked" /\ Outcome(session) # "streaming" /\ phase' = Outcome(session)
  /\ session' = None /\ UNCHANGED <<graphVars, chosen, buf, timer, tree>>

Chunk ==
  /\ phase = "streaming" /\ NodeRuns
  /\ \E s \in {st'} : Handles(buf, s, buf')
  /\ timer' = SyncTracker(timer, st', steps')
  /\ UNCHANGED <<session, chosen, phase, tree>>

(* The stream is over: every status is completed and the final texts, the  *)
(* empty ones too, replace what the sections showed.                       *)
FinalText(section) ==
  CASE section \in AnalystKeys -> st.reports[section]
    [] section = "investment_plan" -> st.plan
    [] section = "trader_investment_plan" -> st.proposal
    [] section = "final_trade_decision" -> st.decision

\* Mutant: keeps the sections as the chunks left them.
FinishAsShown ==
  /\ phase = "streaming" /\ next = End /\ phase' = "done"
  /\ buf' = UpdateStatus(buf, DOMAIN buf.status, "completed")
  /\ UNCHANGED <<graphVars, session, chosen, timer, tree>>
Finish ==
  /\ phase = "streaming" /\ next = End /\ phase' = "done"
  /\ LET b == UpdateStatus(buf, DOMAIN buf.status, "completed") IN
     buf' = [b EXCEPT
       !.sections = [s \in DOMAIN @ |-> FinalText(s)],
       !.files = [s \in DOMAIN @ |-> IF FinalText(s) # "" THEN FinalText(s) ELSE @[s]]]
  /\ UNCHANGED <<graphVars, session, chosen, timer, tree>>

(* The stream raises: run_analysis ends with the exception.                *)
Raise ==
  /\ phase = "streaming" /\ (NodeFails \/ OutOfSteps) /\ phase' = "raised"
  /\ UNCHANGED <<session, chosen, buf, timer, tree>>

(* The operator saves the report tree, one part for each text there is.    *)
ReportTree(s) ==
  {a \in AnalystKeys : s.reports[a] # ""}
  \cup {d \in Debaters : s.debate.said[d] # << >>}
  \cup {r \in RiskAnalysts : s.risk.said[r] # << >>}
  \cup (IF s.debate.judge # "" THEN {"investment_plan"} ELSE {})
  \cup (IF s.proposal # "" THEN {"trader_investment_plan"} ELSE {})
  \cup (IF s.risk.judge # "" THEN {"final_trade_decision"} ELSE {})
Save ==
  /\ phase = "done" /\ phase' = "saved" /\ tree' = ReportTree(st)
  /\ UNCHANGED <<graphVars, session, chosen, buf, timer>>

Next == Start \/ Refuse \/ Chunk \/ Finish \/ Raise \/ Save
Spec == Init /\ [][Next]_vars
-----------------------------------------------------------------------------
(* The variables keep their types: one status per shown agent, one section *)
(* and one file per report, message channels of the selected analysts.     *)
Statuses == {"pending", "in_progress", "completed"}
TypeOK ==
  /\ phase \in {"asked", "streaming", "done", "saved", "exited", "raised"} /\ steps \in 0 .. RecursionLimit
  /\ next[2] \in {"agent", "tools", "clear"} => next[1] \in Range(Plan)
  /\ Range(Plan) \subseteq Selected
  /\ why \in {"", "error", "limit"}
  /\ \A x \in DOMAIN buf.status : buf.status[x] \in Statuses
  /\ DOMAIN buf.sections = Selected \cup Range(TeamSections)
  /\ st.reports \in [AnalystKeys -> Texts]
  /\ \A a \in AnalystKeys \ Selected : st.reports[a] = ""

(* When a judge takes over, every side has spoken its configured number of *)
(* turns (the opening one even without any rounds), in turn, and each      *)
(* side's own history is its part of the common one.                       *)
Turns(d, sides, rounds) ==
  LET n == IF rounds <= 0 THEN 1 ELSE Len(sides) * rounds IN
  /\ d.count = n /\ Len(d.history) = n
  /\ \A i \in 1 .. n : d.history[i] = <<sides[((i - 1) % Len(sides)) + 1], i - 1>>
  /\ \A who \in Range(sides) :
       d.said[who] = ElementsAt(d.history, {i \in DOMAIN d.history : d.history[i][1] = who})
RoundsHeld ==
  /\ next \in {Judge("Research Manager"), Judge("Trader"), End} =>
       Turns(st.debate, <<"Bull", "Bear">>, shape.debate)
  /\ next \in {Judge("Portfolio Manager"), End} =>
       Turns(st.risk, <<"Aggressive", "Conservative", "Neutral">>, shape.risk)

(* Each analyst starts from one message of the user and sees its own calls *)
(* only, each followed by its results: nothing of another analyst's reaches*)
(* it, and no model is asked with a call that has no result.               *)
ContextIsOwn ==
  TypeOK /\ \A a \in Range(Plan) : next \in {Agent(a), Tools(a), Clear(a)} =>
    LET ms == st.messages IN
    /\ ms[1].kind \in {"human", "placeholder"}
    /\ \A i \in 2 .. Len(ms) : ms[i].by = a
    /\ next = Agent(a) => /\ Len(ms) % 2 = 1
                          /\ \A i \in 2 .. Len(ms) :
                               ms[i].kind = IF i % 2 = 0 THEN "call" ELSE "result"

(* The nodes' own supersteps leave the recursion limit to the tools: a run *)
(* only meets it when its batches of tool calls use up the rest.           *)
OwnSteps ==
  LET turns(sides, rounds) == IF rounds <= 0 THEN 1 ELSE sides * rounds IN
  2 * Len(Plan) + turns(2, shape.debate) + turns(3, shape.risk) + 3
LimitOnlyByTools == why = "limit" => OwnSteps + 2 * toolRounds >= RecursionLimit

(* Every message with something to show is logged once, in the order the   *)
(* nodes added it, although each chunk repeats the messages not cleared.   *)
LogIsTranscript ==
  next # Waiting =>
    buf.log = Ids(ElementsAt(produced, {i \in DOMAIN produced : Shown(produced[i])}))

(* A report counted as completed, and the report file once the run is done,*)
(* is its finalizing agent's own text, never an interim debate text; only  *)
(* an empty final text leaves what the file had.                           *)
InterimNotCounted ==
  /\ \A s \in CompletedReports(buf) : buf.sections[s] = FinalText(s)
  /\ phase = "done" =>
       /\ CompletedReports(buf) = DOMAIN buf.sections
       /\ \A s \in DOMAIN buf.files : FinalText(s) # "" => buf.files[s] = FinalText(s)

(* The saved tree, which takes the decisions from the debates, and the     *)
(* section files, which take them from their own channels, hold the same   *)
(* reports: every final text has its part and no part lacks its text.      *)
SavedTreeAgrees ==
  phase = "saved" =>
    \A s \in DOMAIN buf.files : s \in tree <=> FinalText(s) # ""
ReportsAreFinal == InterimNotCounted /\ SavedTreeAgrees

(* While every text so far has content and no analyst was filtered out,    *)
(* the display shows as running the agent that runs next, up to the first  *)
(* risk analyst.                                                           *)
Filled ==
  /\ chosen = Plan
  /\ \A i \in DOMAIN Plan : (\E m \in Range(produced) : m.by = Plan[i] /\ m.kind = "answer")
                              => st.reports[Plan[i]] # ""
  /\ next = Judge("Trader") => st.plan # ""
  /\ next = Speaker("Aggressive") => st.plan # "" /\ st.proposal # ""
ShownAs(node) ==
  CASE node[2] \in {"agent", "tools"} -> AnalystName(node[1])
    [] node[2] = "debate" /\ node[1] = "Bull" -> "Bull Researcher"
    [] node[2] = "debate" /\ node[1] = "Bear" -> "Bear Researcher"
    [] OTHER -> node[1]
RunningShown ==
  phase = "streaming" /\ Filled
    /\ (next[2] \in {"agent", "tools"}
         \/ next \in {Speaker(who) : who \in Debaters \cup {"Aggressive"}}
         \/ next \in {Judge("Research Manager"), Judge("Trader")})
  => buf.status[ShownAs(next)] = "in_progress"

(* With none filtered out, an analyst whose report came after reports with *)
(* content is timed from the chunk with the report before it to its own;   *)
(* an analyst without a report has no time.                                *)
AnsweredAt(a) == {m.id : m \in {m \in Range(produced) : m.by = a /\ m.kind = "answer"}}
TurnOf(i) ==
  CHOOSE d \in 0 .. steps :
    \E t \in AnsweredAt(Plan[i]) :
      IF i = 1 THEN d = t ELSE \E t0 \in AnsweredAt(Plan[i - 1]) : d = t - t0
WallTimesAreTurns ==
  \A i \in DOMAIN Plan :
    /\ (timer.wall[Plan[i]] # None) <=> (st.reports[Plan[i]] # "")
    /\ chosen = Plan /\ (\A j \in 1 .. i : st.reports[Plan[j]] # "") =>
         timer.wall[Plan[i]] = TurnOf(i)
DisplayFollowsRun == RunningShown /\ WallTimesAreTurns

(* The client of a run sends to an endpoint of the account whose key it    *)
(* holds, unless the environment names the endpoint, which then wins; a    *)
(* provider or an effort of the environment wins as well.  "glm" is the    *)
(* exception: named by the environment it gets the table's China endpoint  *)
(* with the international key.  Azure and Bedrock have no such endpoint.   *)
ServedBy(endpoint, p, env) ==
  CASE env.url # None -> endpoint = env.url
    [] env.url = None /\ p = "openai_compatible" -> endpoint # None
    [] env.url = None /\ p = "ollama" -> endpoint = FromEnv(env.ollama, p)
    [] OTHER -> endpoint = IF env.provider = "glm" THEN China("glm") ELSE p
ClientAsChosen ==
  phase = "asked" /\ Outcome(session) = "streaming" =>
    LET env == session.env
        c == RunConfig(session)
        client == LlmClient(c, EnsureApiKey(session), env)
    IN  /\ c.provider \notin {"azure", "bedrock"} =>
             ServedBy(client.endpoint, c.provider, env)
        /\ env.provider # None => c.provider = env.provider
        /\ c.provider \in Knobs /\ env.effort[c.provider] # None =>
             client.effort = env.effort[c.provider]

(* What the display shows as completed stays completed.                    *)
CompletedStays ==
  [][\A x \in DOMAIN buf.status :
       buf.status[x] = "completed" => buf'.status[x] = "completed"]_vars
=============================================================================
