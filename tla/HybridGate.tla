----------------------------- MODULE HybridGate -----------------------------
(***************************************************************************)
(* The HybridExecutor behind the PrivacyGatekeeper: from a prompt and its  *)
(* user to the text a model is called with, while consents are granted,    *)
(* revoked and expire, and the tenant's policy is set, saved and loaded.   *)
(***************************************************************************)
EXTENDS ConsentLedger, DataPrivacy

CONSTANTS Prompts,     \* the texts that come in
          Policies,    \* the policies that may be set
          Jobs         \* requests under way at once

ASSUME PromptsAssumption == Prompts \subseteq TextShape

VARIABLES job, policy,
          policyFile   \* what PolicyStore saved: a policy, NotSaved or HalfWritten

hybridVars == <<records, clock, willed, job, policy, policyFile>>

NoUser == <<"", "">>
NotSaved == [maxClass |-> -1, requireConsent |-> FALSE, providers |-> {}]
HalfWritten == [maxClass |-> -2, requireConsent |-> FALSE, providers |-> {}]
Nothing == [pii |-> {}, keyword |-> 0, quasi |-> 0, short |-> FALSE]
NoText == [raw |-> Nothing, masked |-> Nothing]
Unused == [phase |-> "idle", target |-> "none", user |-> NoUser, text |-> NoText, class |-> 0,
           input |-> Nothing, permitted |-> TRUE]

HybridInit ==
  /\ ConsentInit
  /\ job = [j \in Jobs |-> Unused] /\ policy = DefaultPolicy /\ policyFile = NotSaved

EvaluateFor(u, text, hint, mode, requireCloud) ==
  Evaluate(text, hint, policy, u # NoUser,
           u # NoUser /\ Consents(u, "local"), u # NoUser /\ Consents(u, "cloud"), mode, requireCloud)

ProviderAllowed(provider) == provider = "none" \/ provider \in policy.providers

\* PrivacyGatekeeper.decide: the target and the verdict it goes by; passed is not looked at.
Decision(u, text, hint, provider) ==
  LET verdict == EvaluateFor(u, text, hint, "auto", FALSE)
      strict  == EvaluateFor(u, text, hint, "strict", TRUE)
      To(target, v) == [target |-> target, class |-> v.class, input |-> v.input]
  IN IF verdict.class >= RESTRICTED
     THEN IF strict.cloud /\ ProviderAllowed(provider) THEN To("cloud", strict) ELSE To("rejected", verdict)
     ELSE IF verdict.cloud /\ verdict.local /\ provider # "none" THEN To("local_with_cloud_fallback", verdict)
     ELSE IF verdict.local THEN To("local", verdict) ELSE To("rejected", verdict)

\* Whether the user's last word allows this use now.
Wanted(u, use) == u # NoUser => willed[<<u, use>>] > clock

\* execute, up to the call of the model; a rejected request is answered at once. permitted, the text
\* and its class are kept for the properties.
Submit(j, u, text, hint, provider) ==
  /\ job[j] = Unused
  /\ LET d     == Decision(u, text, hint, provider)
         where == IF d.target = "cloud" THEN "cloud" ELSE "local"
     IN /\ d.target # "rejected"
        /\ job' = [job EXCEPT ![j] =
             [phase |-> where, target |-> d.target, user |-> u, text |-> text, class |-> d.class,
              input |-> d.input, permitted |-> Wanted(u, where)]]
  /\ UNCHANGED <<records, clock, willed, policy, policyFile>>

\* The model answers, reports an error or raises; only an error of the local one falls back, to a
\* cloud that no consent is looked up for again.
ModelEnds(j, outcome) ==
  /\ job[j] # Unused
  /\ job' = [job EXCEPT ![j] =
       IF @.phase = "local" /\ outcome = "error" /\ @.target = "local_with_cloud_fallback"
       THEN [@ EXCEPT !.phase = "cloud", !.permitted = Wanted(@.user, "cloud")] ELSE Unused]
  /\ UNCHANGED <<records, clock, willed, policy, policyFile>>

\* PolicyStore.set: the memory, then write_text, which a crash may cut off.
SetPolicy(p) ==
  /\ p # policy /\ policy' = p
  /\ \E written \in {p, HalfWritten} : policyFile' = written
  /\ UNCHANGED <<records, clock, willed, job>>

\* The process ends and starts again: the consents and the jobs were in memory only. A file that
\* does not parse raises in _load, and nothing starts until an operator puts it right.
RestartGate ==
  /\ policy' = (IF policyFile \in {NotSaved, HalfWritten} THEN DefaultPolicy ELSE policyFile)
  /\ policyFile' = (IF policyFile = HalfWritten THEN NotSaved ELSE policyFile)
  /\ records' = <<>> /\ willed' = [p \in Users \X Uses |-> 0]
  /\ job' = [j \in Jobs |-> Unused]
  /\ UNCHANGED clock

HybridNext ==
  \/ ConsentNext /\ UNCHANGED <<job, policy, policyFile>>
  \/ \E j \in Jobs, u \in Users \cup {NoUser}, text \in Prompts, hint \in {0, RESTRICTED},
        provider \in {"none", "openai", "google"} : Submit(j, u, text, hint, provider)
  \/ \E j \in Jobs, outcome \in {"ok", "error", "raises"} : ModelEnds(j, outcome)
  \/ \E p \in Policies : SetPolicy(p)
  \/ RestartGate

HybridSpec == HybridInit /\ [][HybridNext]_hybridVars

-----------------------------------------------------------------------------
(* Properties *)

\* A prompt in which personal data is found reaches a model only masked, and one of a restricted or
\* regulated class, by its hint too, reaches none, whatever policy, consents and provider say; and
\* classification, verdict and decision never agree on a cloud (engine.py:57, gatekeeper.py:54, executor.py:65).
InputMasked ==
  \A j \in Jobs : job[j] # Unused =>
    /\ job[j].text.raw.pii # {} => job[j].input = job[j].text.masked
    /\ job[j].class < RESTRICTED
    /\ job[j].phase = "local"

\* A model is called for a user only if the user's last word on that use was a grant that has not run
\* out, however grants, revocations and expiries were mixed (consent.py:71).
WillFollowed == \A j \in Jobs : job[j].permitted

\* What a model is called with is masked, and the user wants it to be called.
CallsPermitted == InputMasked /\ WillFollowed
=============================================================================
