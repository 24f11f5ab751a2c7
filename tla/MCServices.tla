----------------------------- MODULE MCServices -----------------------------
(* The services, one at a time, on small instances.                         *)
EXTENDS Services

Found(pii, keyword, quasi) == [pii |-> pii, keyword |-> keyword, quasi |-> quasi, short |-> FALSE]
Clean == Found({}, 0, 0)
Text(raw, masked) == [raw |-> raw, masked |-> masked]
Plain(found) == Text(found, found)

\* A phone number whose masking leaves what looks like an SSN ("13800138000123-45-6789").
JoinedSsn == Text(Found({"phone"}, 0, 0), Found({"ssn"}, 0, 0))
MCBodies == {JoinedSsn, Text(Found({"medical_record"}, 0, 0), Clean)}

MCFile(state, audit, sanitize) == [industry |-> "medical", state |-> state, audit |-> audit, sanitize |-> sanitize]
MCTemplates == {[exists |-> FALSE, files |-> <<>>],
                [exists |-> TRUE, files |-> <<MCFile("ok", TRUE, TRUE), MCFile("ok", FALSE, FALSE), MCFile("skipped", TRUE, TRUE)>>],
                [exists |-> TRUE, files |-> <<MCFile("ok", TRUE, TRUE), MCFile("raises", TRUE, TRUE)>>]}

MCUsers == {<<"acme", "ann">>}
MCPrompts == {Plain([Found({}, 0, 10) EXCEPT !.short = TRUE]),
              JoinedSsn, Text(Found({"credit_card"}, 0, 0), Clean), Plain(Found({}, CONFIDENTIAL, 12))}
MCPolicies == {[maxClass |-> REGULATED, requireConsent |-> TRUE, providers |-> {}]}

MCQueries == {Plain(Clean), Plain(Found({}, 1, 0)), Text(Found({"email"}, 0, 1), Clean)}

MCKeyOf(text) == IF text = "hi" THEN "hi" ELSE "long"
MCDifficulty(text) == CASE text = "hi" -> "low" [] text = "long1" -> "high" [] OTHER -> "mid"
MCCostOf(model) == IF model = "big" THEN 3 ELSE 1

MCServiceNames == {"server", "hybrid", "sandbox", "mom", "frequency", "cache", "arena"}
=============================================================================
