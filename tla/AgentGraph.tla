----------------------------- MODULE AgentGraph -----------------------------
(***************************************************************************)
(* One run of the agent graph (tradingagents/graph/setup.py): the selected *)
(* analysts in turn, each looping over its tools, the bull/bear debate,    *)
(* the research manager, the trader, the risk debate and the portfolio     *)
(* manager.  One step is one LangGraph superstep: exactly one node runs    *)
(* and the next one is chosen by the edge or the router that follows it.   *)
(*                                                                         *)
(* A text a model returns is "text" or "" (a provider may answer with an   *)
(* empty content); what it says is abstracted.  A message stands for what  *)
(* one node adds: the results of one batch of tool calls are one message.  *)
(***************************************************************************)
EXTENDS Integers, FiniteSets, SequencesExt

CONSTANT RecursionLimit  \* Propagator.max_recur_limit
ASSUME LimitAssumption == RecursionLimit \in Nat

AnalystOrder == <<"market", "social", "news", "kap", "fundamentals">>
AnalystKeys == Range(AnalystOrder)
Debaters == {"Bull", "Bear"}
RiskAnalysts == {"Aggressive", "Conservative", "Neutral"}

(* The nodes.  An analyst has three: its agent, its tools, its clear node. *)
Agent(a) == <<a, "agent">>
Tools(a) == <<a, "tools">>
Clear(a) == <<a, "clear">>
Speaker(who) == <<who, "debate">>
Judge(who) == <<who, "judge">>
End == <<"END", "">>
Failed == <<"raised", "">>
Waiting == <<"START", "">>

VARIABLES
  shape,     \* the compiled graph: [plan, debate, risk, bist]
  next,      \* the node the next superstep runs
  steps,     \* supersteps executed
  st,        \* AgentState: the channels of the graph
  toolRounds,\* observer: batches of tool calls the models asked for
  produced,  \* observer: every message ever added, in order
  why        \* observer: why the run raised: "", "error" or "limit"
graphVars == <<shape, next, steps, st, toolRounds, produced, why>>

Texts == {"text", ""}
Plan == shape.plan
After(a) ==
  LET i == CHOOSE j \in DOMAIN Plan : Plan[j] = a
  IN  IF i < Len(Plan) THEN Agent(Plan[i + 1]) ELSE Speaker("Bull")

Message(kind, by, has) == [id |-> steps + 1, kind |-> kind, by |-> by, text |-> has]
Human == [id |-> 0, kind |-> "human", by |-> "user", text |-> "text"]

InitialState ==
  [messages |-> <<Human>>, reports |-> [a \in AnalystKeys |-> ""],
   debate |-> [history |-> << >>, said |-> [d \in Debaters |-> << >>],
               current |-> "", judge |-> "", count |-> 0],
   risk |-> [history |-> << >>, said |-> [r \in RiskAnalysts |-> << >>],
             response |-> [r \in RiskAnalysts |-> << >>],
             latest |-> "", judge |-> "", count |-> 0],
   plan |-> "", proposal |-> "", decision |-> ""]

Unbuilt == [plan |-> << >>, debate |-> 0, risk |-> 0, bist |-> FALSE]
GraphInit ==
  /\ shape = Unbuilt /\ next = Waiting /\ steps = 0 /\ st = InitialState
  /\ toolRounds = 0 /\ produced = <<Human>> /\ why = ""

(* A graph is compiled and invoked on its initial state.                   *)
Invoke(sh) ==
  /\ next = Waiting /\ shape' = sh /\ next' = Agent(Head(sh.plan))
  /\ UNCHANGED <<steps, st, toolRounds, produced, why>>

-----------------------------------------------------------------------------
(* The routers (conditional_logic.py).                                     *)
ShouldContinue(a, messages) ==
  IF Last(messages).kind = "call" THEN Tools(a) ELSE Clear(a)

\* Mutant: one turn too many.
DebateOneMore(d) ==
  IF d.count > 2 * shape.debate THEN Judge("Research Manager")
  ELSE IF d.current = "Bull" THEN Speaker("Bear") ELSE Speaker("Bull")

ShouldContinueDebate(d) ==
  IF d.count >= 2 * shape.debate THEN Judge("Research Manager")
  ELSE IF d.current = "Bull" THEN Speaker("Bear") ELSE Speaker("Bull")

ShouldContinueRisk(r) ==
  IF r.count >= 3 * shape.risk THEN Judge("Portfolio Manager")
  ELSE CASE r.latest = "Aggressive" -> Speaker("Conservative")
         [] r.latest = "Conservative" -> Speaker("Neutral")
         [] OTHER -> Speaker("Aggressive")

(* The recursion limit LangGraph is given.  A run that has used it up and  *)
(* is not at its end raises; one that ends with its last superstep may be  *)
(* refused as well, so both are allowed.                                   *)
\* Mutant: an off-by-one.
LimitLess == RecursionLimit - 1
LimitOf == RecursionLimit

Goes(node) ==
  /\ steps < LimitOf /\ next = node
  /\ steps' = steps + 1 /\ UNCHANGED <<shape, why>>

(* A node that adds message m to the channel of messages.                  *)
Adds(m) == produced' = Append(produced, m)
Quiet == UNCHANGED <<toolRounds, produced>>

-----------------------------------------------------------------------------
(* A debate turn: the history, the speaker's own history and the count     *)
(* grow together, the other speakers' histories are carried over.          *)
Turn(d, who) ==
  [d EXCEPT !.history = Append(@, <<who, d.count>>),
            !.said[who] = Append(@, <<who, d.count>>),
            !.count = @ + 1]

BullOrBear(d, who) == [Turn(d, who) EXCEPT !.current = who]
RiskTurn(r, who) ==
  [Turn(r, who) EXCEPT !.latest = who, !.response[who] = <<who, r.count>>]

(* A structured answer, or on any failure one free-text retry, whose       *)
(* content may be empty (or which may raise: NodeFails).                   *)
StructuredOrFreetext == Texts

-----------------------------------------------------------------------------
HasTools(a) == a # "social" /\ (a = "kap" => shape.bist)

(* What an analyst may answer; the KAP analyst answers for itself off      *)
(* Borsa Istanbul.                                                         *)
Answers(a) == IF a = "kap" /\ ~shape.bist THEN {"text"} ELSE StructuredOrFreetext

(* A tool-bound analyst asks for a batch of tools: its report stays empty. *)
AskTools(a) ==
  /\ HasTools(a) /\ Goes(Agent(a))
  /\ LET m == Message("call", a, "")
         ms == Append(st.messages, m)
     IN  /\ st' = [st EXCEPT !.messages = ms, !.reports[a] = ""]
         /\ next' = ShouldContinue(a, ms) /\ Adds(m)
  /\ toolRounds' = toolRounds + 1

(* ... or answers.                                                         *)
Report(a) ==
  /\ Goes(Agent(a))
  /\ \E text \in Answers(a) :
       LET m == Message("answer", a, text)
           ms == Append(st.messages, m)
       IN  /\ st' = [st EXCEPT !.messages = ms, !.reports[a] = text]
           /\ next' = ShouldContinue(a, ms) /\ Adds(m)
  /\ UNCHANGED toolRounds

RunTools(a) ==
  /\ Goes(Tools(a))
  /\ LET m == Message("result", a, "text") IN
       st' = [st EXCEPT !.messages = Append(@, m)] /\ Adds(m)
  /\ next' = Agent(a) /\ UNCHANGED toolRounds

(* Msg Clear: every message is removed, one placeholder takes their place. *)
Placeholder == Message("placeholder", "user", "text")
\* Mutant: adds the placeholder without removing.
DeleteNothing(a) ==
  /\ Goes(Clear(a))
  /\ st' = [st EXCEPT !.messages = Append(@, Placeholder)]
  /\ next' = After(a) /\ Adds(Placeholder) /\ UNCHANGED toolRounds

DeleteMessages(a) ==
  /\ Goes(Clear(a))
  /\ st' = [st EXCEPT !.messages = <<Placeholder>>]
  /\ next' = After(a) /\ Adds(Placeholder) /\ UNCHANGED toolRounds

Debate(who) ==
  /\ Goes(Speaker(who)) /\ Quiet
  /\ LET d == BullOrBear(st.debate, who) IN
       st' = [st EXCEPT !.debate = d] /\ next' = ShouldContinueDebate(d)

ResearchManager ==
  /\ Goes(Judge("Research Manager")) /\ Quiet
  /\ \E text \in StructuredOrFreetext :
       st' = [st EXCEPT !.debate.judge = text, !.debate.current = text, !.plan = text]
  /\ next' = Judge("Trader")

Trader ==
  /\ Goes(Judge("Trader")) /\ UNCHANGED toolRounds
  /\ \E text \in StructuredOrFreetext :
       LET m == Message("answer", "Trader", text) IN
       /\ st' = [st EXCEPT !.messages = Append(@, m), !.proposal = text]
       /\ Adds(m)
  /\ next' = Speaker("Aggressive")

RiskDebate(who) ==
  /\ Goes(Speaker(who)) /\ Quiet
  /\ LET r == RiskTurn(st.risk, who) IN
       st' = [st EXCEPT !.risk = r] /\ next' = ShouldContinueRisk(r)

PortfolioManager ==
  /\ Goes(Judge("Portfolio Manager")) /\ Quiet
  /\ \E text \in StructuredOrFreetext :
       st' = [st EXCEPT !.risk.judge = text, !.risk.latest = "Judge", !.decision = text]
  /\ next' = End

-----------------------------------------------------------------------------
(* Any node may raise: a provider error, a tool that raises.               *)
NodeFails ==
  /\ next \notin {Waiting, End, Failed} /\ steps < LimitOf
  /\ next' = Failed /\ why' = "error"
  /\ UNCHANGED <<shape, steps, st, toolRounds, produced>>

OutOfSteps ==
  /\ next # Failed /\ steps = LimitOf
  /\ next' = Failed /\ why' = "limit"
  /\ UNCHANGED <<shape, steps, st, toolRounds, produced>>

NodeRuns ==
  \/ \E a \in AnalystKeys : AskTools(a) \/ Report(a) \/ RunTools(a) \/ DeleteMessages(a)
  \/ \E d \in Debaters : Debate(d)
  \/ \E r \in RiskAnalysts : RiskDebate(r)
  \/ ResearchManager \/ Trader \/ PortfolioManager

GraphNext == NodeRuns \/ NodeFails \/ OutOfSteps
=============================================================================
