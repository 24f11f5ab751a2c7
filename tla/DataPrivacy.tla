---------------------------- MODULE DataPrivacy ----------------------------
(***************************************************************************)
(* The privacy engine: the class of a text, what sanitizing leaves of it,  *)
(* its re-identification risk and the verdict under a tenant's policy.     *)
(* A text is what the detectors find in it, and in what one masking pass   *)
(* leaves: the PII categories, the level of the strongest keyword and the  *)
(* number of quasi-identifiers.                                            *)
(***************************************************************************)
EXTENDS Integers, FiniteSets, FiniteSetsExt

\* CLASS_LEVEL: PUBLIC, INTERNAL, CONFIDENTIAL, RESTRICTED, REGULATED.
CONFIDENTIAL == 2
RESTRICTED == 3
REGULATED == 4

\* short: the tenths of the quasi-identifiers, added as floats, fall just short of 1 or 2.
Findings == [pii : SUBSET STRING, keyword : 0 .. REGULATED, quasi : Nat, short : BOOLEAN]
\* Masking may leave, join together or cut off anything that is found.
TextShape == [raw : Findings, masked : Findings]

\* The categories with a class of their own; every other one is CONFIDENTIAL.
MappedClass(category) ==
  CASE category \in {"medical_record", "credit_card"} -> REGULATED
    [] category \in {"passport", "ssn", "bank_account", "chinese_id"} -> RESTRICTED
    [] OTHER -> CONFIDENTIAL

\* classify: the highest class of a category or a keyword, in the text or the hint.
ClassOf(text, hint) == Max({MappedClass(c) : c \in text.raw.pii} \cup {text.raw.keyword, hint})

RequiresSanitization(level) == level >= CONFIDENTIAL
CanUseCloud(level) == level < CONFIDENTIAL

\* Sanitizer.sanitize: one pass, and none over a text in which nothing is found.
Sanitized(text) == IF text.raw.pii = {} THEN text.raw ELSE text.masked

\* ReIDRisk as its order, from the score in tenths.
Reaches(found, least) == found.quasi > least \/ (found.quasi = least /\ (least = 3 \/ ~found.short))
RiskOf(found, originals) ==
  IF found.pii # {} THEN 4
  ELSE LET risk == Cardinality({least \in {3, 10, 20} : Reaches(found, least)})
       IN IF originals > 10 /\ found.quasi < 5 THEN Max({risk, 1}) ELSE risk

SafeForCloud(risk, threshold) == risk <= threshold

\* Whether evaluate sanitizes in this mode.
Sanitizes(mode, level) == mode \in {"strict", "force"} \/ (mode = "auto" /\ RequiresSanitization(level))

\* PrivacyEngine.evaluate. known: a user id is given; local, cloud: that user's consents.
Evaluate(text, hint, policy, known, local, cloud, mode, requireCloud) ==
  LET level   == ClassOf(text, hint)
      input   == IF Sanitizes(mode, level) THEN Sanitized(text) ELSE text.raw
      risk    == RiskOf(input, Cardinality(text.raw.pii))
      safe    == SafeForCloud(risk, IF requireCloud THEN 1 ELSE 2)
      onCloud == /\ requireCloud /\ CanUseCloud(level) /\ safe
                 /\ known => cloud
      onLocal == ~requireCloud /\ (known => local)
  IN [class |-> level, input |-> input, cloud |-> onCloud, local |-> onLocal,
      passed |-> /\ level <= policy.maxClass
                 /\ policy.requireConsent => known
                 /\ onLocal \/ onCloud]

\* The policy of a tenant that has none: DataGovernancePolicy's defaults.
DefaultPolicy == [maxClass |-> CONFIDENTIAL, requireConsent |-> FALSE, providers |-> {"openai", "anthropic"}]
=============================================================================
