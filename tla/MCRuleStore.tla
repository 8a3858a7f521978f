----------------------------- MODULE MCRuleStore -----------------------------
(* TLC instances of RuleStore. *)
EXTENDS RuleStore

CONSTANTS s1, s2

TwoStores == {s1, s2}

\* The text of "b" is part of "ab", which only other programs write; both inputs are
\* formatted as "b".
TwoRules == {"ab", "b"}
TwoInputs == {"b", " b "}
Trim == [i \in TwoInputs |-> "b"]
PartOf == [r \in TwoRules |-> IF r = "b" THEN {"ab"} ELSE {}]
==============================================================================
