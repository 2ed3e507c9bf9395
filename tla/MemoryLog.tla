---------------------------- MODULE MemoryLog ----------------------------
(***************************************************************************)
(* The decision log of tradingagents/agents/utils/memory.py: one markdown  *)
(* file of entries, each with a tag line that says "pending" until the     *)
(* outcome of the decision is known.  This module holds what the methods   *)
(* compute from the text they have read; RunRecords holds the file and the *)
(* order of reads and writes.                                              *)
(*                                                                         *)
(* An entry is [key, run, days]: the ticker and date of its tag, the run   *)
(* whose decision it holds, and the holding days of its outcome, 0 while   *)
(* the tag says pending.                                                   *)
(***************************************************************************)
EXTENDS Subsequences, SequencesExt

CONSTANTS
    MaxEntries, \* memory_log_max_entries; 0 stands for None
    NSame,      \* get_past_context: entries of the same ticker (5)
    NCross      \* get_past_context: entries of other tickers (3)

ASSUME LogAssumption == MaxEntries \in Nat /\ NSame \in Nat /\ NCross \in Nat

IsPending(e) == e.days = 0

\* store_decision scans the raw text for a pending tag of the date and ticker.
HasPending(text, k) == \E i \in DOMAIN text : text[i].key = k /\ IsPending(text[i])

PendingOf(text, ticker) == {text[i].key : i \in {j \in DOMAIN text :
                              IsPending(text[j]) /\ text[j].key[1] = ticker}}

Entry(k, r) == [key |-> k, run |-> r, days |-> 0]

\* An update is used up by the first pending entry it matches.
Outcomes(text, updates) ==
    [i \in DOMAIN text |->
        LET k == text[i].key IN
        IF /\ IsPending(text[i]) /\ k \in DOMAIN updates
           /\ ~HasPending(SubSeq(text, 1, i - 1), k)
        THEN [text[i] EXCEPT !.days = updates[k]]
        ELSE text[i]]

\* _apply_rotation drops the oldest resolved entries beyond the cap.
Resolved(text) == {i \in DOMAIN text : ~IsPending(text[i])}
RotatedAnyEntry(text) == IF MaxEntries = 0 \/ Len(text) <= MaxEntries THEN text
                         ELSE SubSeq(text, Len(text) - MaxEntries + 1, Len(text))
Rotated(text) ==
    LET surplus == Cardinality(Resolved(text)) - MaxEntries
        oldest == {i \in Resolved(text) :
                      Cardinality({j \in Resolved(text) : j < i}) < surplus}
    IN IF MaxEntries = 0 THEN text ELSE ElementsAt(text, DOMAIN text \ oldest)
Rewritten(text, updates) == Rotated(Outcomes(text, updates))

\* get_past_context: one pass from the newest resolved entry to the oldest.
PastContextOldest(text, ticker) ==
    LET done == SelectSeq(text, LAMBDA e : ~IsPending(e))
        same == SelectSeq(done, LAMBDA e : e.key[1] = ticker)
        cross == SelectSeq(done, LAMBDA e : e.key[1] # ticker)
        First(s, n) == SubSeq(s, 1, IF Len(s) < n THEN Len(s) ELSE n)
    IN [same |-> First(same, NSame), cross |-> First(cross, NCross)]
Take(c, e, ticker) ==
    IF IsPending(e) THEN c
    ELSE IF e.key[1] = ticker
    THEN IF Len(c.same) < NSame THEN [c EXCEPT !.same = Append(@, e)] ELSE c
    ELSE IF Len(c.cross) < NCross THEN [c EXCEPT !.cross = Append(@, e)] ELSE c
PastContext(text, ticker) ==
    LET seen[n \in 0..Len(text)] ==
            IF n = 0 THEN [same |-> <<>>, cross |-> <<>>]
            ELSE Take(seen[n - 1], text[Len(text) - n + 1], ticker)
    IN seen[Len(text)]

=============================================================================
