---------------------------- MODULE Questionnaire ----------------------------
(***************************************************************************)
(* What the console asks before a run (cli/main.py get_user_selections),   *)
(* the run configuration made of the answers and the environment, and the  *)
(* model client built from it (llm_clients).  A session s is the pair of   *)
(* the environment s.env and the operator's answers s.ans; None is an      *)
(* unset variable or a cancelled prompt.                                   *)
(*                                                                         *)
(* An endpoint is named by the provider key whose accounts it serves, and  *)
(* an API key by the provider whose environment variable holds it: the     *)
(* international and the China accounts of a provider share neither.  A    *)
(* model is named by the provider whose catalogue lists it, or "typed".    *)
(***************************************************************************)
EXTENDS Integers, Sequences

CONSTANT None

AnalystKeySet == {"market", "social", "news", "kap", "fundamentals"}
Regional == {"qwen", "glm", "minimax"}
Knobs == {"google", "openai", "anthropic"}
Native == {"anthropic", "google", "azure", "bedrock"}
Menu == Regional \cup Native \cup
  {"openai", "xai", "deepseek", "openrouter", "mistral", "kimi", "groq", "nvidia",
   "ollama", "openai_compatible"}
China(p) == [qwen |-> "qwen-cn", glm |-> "glm-cn", minimax |-> "minimax-cn"][p]
Known == Menu \cup {China(p) : p \in Regional}
ASSUME NoneAssumption == None \notin Known \cup Int

FromEnv(value, default) == IF value # None THEN value ELSE default
Asked(value, env) == IF env # None THEN env ELSE value

(* What the operator types, or the default ticker, and its asset type.     *)
GetTicker(s) == IF s.ans.ticker = "" THEN "bist" ELSE s.ans.ticker

(* A crypto asset has no fundamentals and no KAP.                          *)
Offered(asset) ==
  IF asset = "crypto" THEN AnalystKeySet \ {"fundamentals", "kap"} ELSE AnalystKeySet
SelectAnalysts(s) == s.ans.analysts \cap Offered(GetTicker(s))

(* The depth is asked unless the environment sets both numbers of rounds.  *)
DepthAsked(s) == s.env.debate = None \/ s.env.risk = None
Depth(s) == IF DepthAsked(s) THEN s.ans.depth ELSE s.env.debate

-----------------------------------------------------------------------------
(* The provider and its endpoint.                                          *)
TableUrl(p, env) ==
  CASE p = "glm" -> China("glm")
    [] p = "ollama" -> FromEnv(env.ollama, "ollama")
    [] p \in Menu \ {"glm", "ollama", "google", "azure", "bedrock", "openai_compatible"} -> p
    [] OTHER -> None

\* Mutant: the chosen region changes the endpoint and not the account.
AskRegionUrl(p, region) ==
  [provider |-> p, url |-> IF region = "cn" THEN China(p) ELSE p]
AskRegion(p, region) ==
  LET account == IF region = "cn" THEN China(p) ELSE p
  IN  [provider |-> account, url |-> account]

ResolveBackendUrl(p, menu, env) ==
  IF env.url # None THEN env.url ELSE IF menu # None THEN menu ELSE TableUrl(p, env)

(* The menu's row, or the region's, with the endpoint that follows.        *)
SelectProvider(s) ==
  LET row == IF s.ans.provider \in Regional THEN AskRegion(s.ans.provider, s.ans.region)
             ELSE [provider |-> s.ans.provider, url |-> TableUrl(s.ans.provider, s.env)]
  IN  [row EXCEPT !.url = ResolveBackendUrl(row.provider, row.url, s.env)]

UrlAsked(s) ==
  s.env.provider = None /\ s.ans.provider = "openai_compatible" /\ s.env.url = None

Provider(s) ==
  IF s.env.provider # None
  THEN [provider |-> s.env.provider,
        url |-> ResolveBackendUrl(s.env.provider, None, s.env)]
  ELSE IF UrlAsked(s) THEN [provider |-> s.ans.provider, url |-> s.ans.url]
  ELSE SelectProvider(s)

(* The keys the process has after the prompt for a missing one, which the  *)
(* operator may skip.                                                      *)
NoKey == {"ollama", "bedrock"}
KeyVar(p) == IF p \in Known \ NoKey THEN {p} ELSE {}
KeyOptional == {"ollama", "openai_compatible"}
EnsureApiKey(s) ==
  LET p == Provider(s).provider
  IN  s.env.keys \cup (IF s.ans.key /\ p \notin KeyOptional THEN KeyVar(p) ELSE {})

(* The models: asked only when the environment sets neither.               *)
ModelsAsked(s) == s.env.quick = None /\ s.env.deep = None
SelectModel(s, answer) ==
  IF Provider(s).provider \in {"azure", "openrouter"} \/ answer = "custom" THEN "typed"
  ELSE Provider(s).provider
Model(s, value, answer) ==
  IF ModelsAsked(s) THEN SelectModel(s, answer) ELSE FromEnv(value, "openai")

(* The effort of the provider: its variable, or its prompt.                *)
Effort(s) ==
  [k \in Knobs |->
     IF s.env.provider # None THEN s.env.effort[k]
     ELSE IF k = Provider(s).provider THEN Asked(s.ans.effort, s.env.effort[k])
     ELSE None]

-----------------------------------------------------------------------------
(* A cancelled required prompt ends the session; a cancelled region prompt *)
(* returns nothing to unpack.                                              *)
CancelledEarly(s) ==
  \/ s.ans.ticker = None \/ SelectAnalysts(s) = {}
  \/ DepthAsked(s) /\ s.ans.depth = None
  \/ s.env.provider = None /\ s.ans.provider = None
RegionCancelled(s) ==
  s.env.provider = None /\ s.ans.provider \in Regional /\ s.ans.region = None
CancelledLate(s) ==
  \/ UrlAsked(s) /\ s.ans.url = None
  \/ ModelsAsked(s) /\ (s.ans.quick = None \/ s.ans.deep = None)

(* The configuration of the run and the analysts its graph keeps.          *)
RunConfig(s) ==
  [asset |-> GetTicker(s), analysts |-> SelectAnalysts(s),
   debate |-> FromEnv(s.env.debate, Depth(s)), risk |-> FromEnv(s.env.risk, Depth(s)),
   provider |-> Provider(s).provider, url |-> Provider(s).url,
   quick |-> Model(s, s.env.quick, s.ans.quick), deep |-> Model(s, s.env.deep, s.ans.deep),
   effort |-> Effort(s)]

FilterEnabled(analysts, env) ==
  {a \in analysts : a # "kap" \/ env.kap}

(* The client: where it sends, with whose key, which effort it is given     *)
(* (the clients leave it out for models that do not accept it).             *)
ProviderEffort(c) == IF c.provider \in Knobs THEN c.effort[c.provider] ELSE None
Endpoint(c, env) ==
  IF c.provider \in {"azure", "bedrock"} THEN c.provider
  ELSE IF c.url # None \/ c.provider = "openai_compatible" THEN c.url
  ELSE IF c.provider = "ollama" THEN FromEnv(env.ollama, "ollama") ELSE c.provider
LlmClient(c, keys, env) ==
  [endpoint |-> Endpoint(c, env), key |-> KeyVar(c.provider) \cap keys,
   effort |-> ProviderEffort(c)]

(* Building the clients raises for an unknown provider, and for one of the *)
(* OpenAI-compatible registry without its endpoint or its required key.    *)
CannotBuild(c, keys, env) ==
  \/ c.provider \notin Known
  \/ c.provider \notin Native /\ Endpoint(c, env) = None
  \/ c.provider \notin Native \cup KeyOptional /\ KeyVar(c.provider) \cap keys = {}

Outcome(s) ==
  LET c == RunConfig(s)
      unbuilt == FilterEnabled(c.analysts, s.env) = {} \/ CannotBuild(c, EnsureApiKey(s), s.env)
  IN  IF CancelledEarly(s) THEN "exited"
      ELSE IF RegionCancelled(s) THEN "raised"
      ELSE IF CancelledLate(s) THEN "exited"
      ELSE IF unbuilt THEN "raised" ELSE "streaming"
=============================================================================
