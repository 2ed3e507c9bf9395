----------------------------- MODULE MCConsole ------------------------------
(* Console on two families of sessions.  Eleven run sessions answer every  *)
(* asset, every source of the rounds and a disabled KAP; the 24 steps of   *)
(* the limit leave between 0 and 7 batches of tools beside the nodes' own, *)
(* as the 100 of the code leave 31 and more beside at most 38.  The client *)
(* sessions answer every question about the provider in every way.         *)
EXTENDS Console

CONSTANTS none

MCEnv ==
  [debate |-> none, risk |-> none, provider |-> none, url |-> none, ollama |-> none,
   quick |-> none, deep |-> none, effort |-> [k \in Knobs |-> none],
   keys |-> {"openai"}, kap |-> TRUE]
MCAns ==
  [ticker |-> "stock", analysts |-> {"market"}, depth |-> 1, provider |-> "openai",
   region |-> none, url |-> none, key |-> FALSE, quick |-> "listed",
   deep |-> "listed", effort |-> none]

Run(analysts, asset, depth, debate, risk, kap) ==
  [env |-> [MCEnv EXCEPT !.debate = debate, !.risk = risk, !.kap = kap],
   ans |-> [MCAns EXCEPT !.analysts = analysts, !.ticker = asset, !.depth = depth]]
MCRuns ==
  {Run({"market"}, "stock", 1, none, none, TRUE),
   Run({"market"}, "", 3, 2, 0, TRUE),
   Run({"social", "news"}, "crypto", 3, none, none, TRUE),
   Run({"kap", "social"}, "bist", 3, -1, none, TRUE),
   Run({"kap", "news"}, "stock", 1, 2, 1, TRUE),
   Run({"market", "kap", "fundamentals"}, "bist", 3, none, 0, TRUE),
   Run({"social", "news", "kap", "fundamentals"}, "stock", 1, none, none, TRUE),
   Run(AnalystKeys, "bist", 1, 0, none, TRUE),
   Run({"market", "kap", "fundamentals"}, "bist", 1, none, none, FALSE),
   Run({"kap"}, "bist", 1, none, none, FALSE),
   Run({}, none, none, none, none, TRUE)}

MCProviders ==
  {"openai", "google", "qwen", "glm", "ollama", "openai_compatible", "azure", "xai"}
MCUrls == {<<none, none>>, <<none, "remote">>, <<"own", none>>}
MCClients ==
  {[env |-> [MCEnv EXCEPT !.provider = p, !.url = u[1], !.ollama = u[2],
                          !.quick = IF set THEN "google" ELSE none,
                          !.effort["google"] = IF set THEN "high" ELSE none, !.keys = k],
    ans |-> [MCAns EXCEPT !.provider = a, !.region = r, !.url = t, !.key = g,
                          !.deep = IF set THEN none ELSE "custom", !.effort = "minimal"]] :
     p \in {none, "openai", "glm", "qwen-cn", "ollama", "openai_compatible", "mistyped"},
     u \in MCUrls, set \in BOOLEAN, k \in {{}, {"openai", "glm"}},
     a \in MCProviders \cup {none}, r \in {none, "intl", "cn"}, t \in {none, "typed"},
     g \in BOOLEAN}
MCSessions == MCRuns \cup MCClients
=============================================================================
