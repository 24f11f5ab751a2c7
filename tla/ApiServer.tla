----------------------------- MODULE ApiServer -----------------------------
(***************************************************************************)
(* The HTTP server: keys and tenants, the sliding-window rate limiter, the *)
(* privacy check in front of the router, industry workflows with their     *)
(* templates, and the audit trail that compliance reports are made from.   *)
(* The code between two awaits is a step: a request runs from the          *)
(* middleware to the call of the router, and from its answer to the end.   *)
(***************************************************************************)
EXTENDS DataPrivacy, Sequences, SequencesExt

CONSTANTS
  Requests,        \* handlers that may be under way at once
  Clients,         \* addresses; those of LocalClients are on the server's machine
  LocalClients,
  Tenants,         \* what X-Tenant-ID may say
  ValidTenants,    \* those that match the tenant pattern
  BoundTenant,     \* the tenant of the one bound key
  Bodies,          \* the texts that come in
  Industries,
  TemplateDirs,    \* what ZILLI_INDUSTRY_CONFIG may name: a directory and its files by name
  MaxRequests,     \* admissions of a client in a window
  Window,
  CleanupInterval,
  DequeLength,     \* maxlen of the times kept for a client
  MaxTime,         \* bound: the end of time
  MaxEvents        \* bound: events in the audit log, and a tenant's answered streams, before the last request

ASSUME LimiterAssumption ==
  /\ MaxRequests \in Nat \ {0} /\ Window \in Nat \ {0} /\ CleanupInterval \in Nat /\ DequeLength \in Nat
  /\ MaxRequests <= DequeLength
ASSUME BodiesAssumption == Bodies \subseteq TextShape

VARIABLES
  now,
  times,        \* RateLimiter.requests: for a client, the times it was admitted
  lastCleanup,
  admitted,     \* history: the times of every admission of each client
  keysSet,      \* whether ZILLI_API_KEYS is set
  request,      \* what each handler is doing
  workflows,    \* industry_registry: Unbuilt until the first industry request
  templates,    \* the directory of templates
  auditLog,
  owed,         \* history: the events each tenant's answered requests should have left
  streamed      \* history: each tenant's answered streams

apiVars == <<now, times, lastCleanup, admitted, keysSet, request, workflows, templates, auditLog, owed, streamed>>

Unbuilt == <<>>
Missing == [audit |-> FALSE, sanitize |-> FALSE, present |-> FALSE]
Builtin == [i \in Industries |-> [audit |-> TRUE, sanitize |-> TRUE, present |-> TRUE]]
Free == [phase |-> "free"]

ApiInit ==
  /\ now = 0 /\ times = [c \in Clients |-> <<>>] /\ lastCleanup = 0
  /\ admitted = [c \in Clients |-> <<>>]
  /\ keysSet \in BOOLEAN /\ templates \in TemplateDirs
  /\ request = [r \in Requests |-> Free]
  /\ workflows = Unbuilt /\ auditLog = <<>> /\ owed = [t \in Tenants |-> 0] /\ streamed = [t \in Tenants |-> 0]

-----------------------------------------------------------------------------
(* The middleware *)

\* verify_api_key: without keys only the machine itself; an open key for any tenant, the bound key for its own.
Authorised(client, key, tenant) ==
  IF keysSet THEN key = "open" \/ (key = "bound" /\ tenant = BoundTenant) ELSE client \in LocalClients

InWindow(t) == t > now - Window

CleanupDue == now - lastCleanup >= CleanupInterval

Cleaned_FirstOld(table) ==
  IF CleanupDue THEN [c \in Clients |-> IF table[c] # <<>> /\ ~InWindow(Head(table[c])) THEN <<>> ELSE table[c]]
  ELSE table
\* _periodic_cleanup: a client whose last admission has left the window is forgotten.
Cleaned(table) ==
  IF CleanupDue THEN [c \in Clients |-> IF table[c] # <<>> /\ ~InWindow(Last(table[c])) THEN <<>> ELSE table[c]]
  ELSE table

\* check: old times are popped from the left until one is in the window; then the deque is full or takes now.
PopsFirst(n, s) == /\ \A i \in 1 .. n : ~InWindow(s[i])
                   /\ n < Len(s) => InWindow(s[n + 1])
Popped(s) == CHOOSE n \in 0 .. Len(s) : PopsFirst(n, s)
Recent(table, c) == SubSeq(table[c], Popped(table[c]) + 1, Len(table[c]))
Admits(table, c) == Len(Recent(table, c)) < MaxRequests
Appended(s) == IF Len(s) = DequeLength THEN Append(Tail(s), now) ELSE Append(s, now)
Checked(table, c) ==
  [table EXCEPT ![c] = IF Admits(table, c) THEN Appended(Recent(table, c)) ELSE Recent(table, c)]

\* The limiter's part of a request that was authorised.
Limits(c) ==
  LET table == Cleaned(times) IN
  /\ times' = Checked(table, c)
  /\ lastCleanup' = IF CleanupDue THEN now ELSE lastCleanup
  /\ admitted' = [admitted EXCEPT ![c] = IF Admits(table, c) THEN Append(@, now) ELSE @]

-----------------------------------------------------------------------------
(* The handlers, up to the router *)

\* The text for the router: route and chat evaluate it first (a stream under the tenant default) and
\* answer 403; every tenant has the default policy, and no user is given.
Verdict(text) == Evaluate(text, 0, DefaultPolicy, FALSE, FALSE, FALSE, "auto", FALSE)

\* reload_templates: the last file, by name, of each industry that is not skipped; the rest have no
\* workflow any more. Without the directory the built-in ones stay.
Loaded(dir) ==
  LET Of(i) == {n \in DOMAIN dir.files : dir.files[n].state = "ok" /\ dir.files[n].industry = i} IN
  IF ~dir.exists THEN Builtin
  ELSE [i \in Industries |->
          IF Of(i) = {} THEN Missing
          ELSE [audit |-> dir.files[Max(Of(i))].audit, sanitize |-> dir.files[Max(Of(i))].sanitize, present |-> TRUE]]

\* The registry is built at the first industry request, or listing; a template that is not UTF-8, or
\* no mapping, raises out of its constructor, and the request is answered 500 with none built.
Registry == IF workflows = Unbuilt THEN Loaded(templates) ELSE workflows
RegistryBuilds ==
  workflows = Unbuilt /\ templates.exists => \A n \in DOMAIN templates.files : templates.files[n].state # "raises"

\* What an industry's router gets: no policy judges the text.
IndustryInput(i, text, sanitize) == IF sanitize /\ Registry[i].sanitize THEN Sanitized(text) ELSE text.raw

RouteAccepts_Unjudged(tenant, text) == tenant \in ValidTenants
\* Does a handler get as far as the router?
RouteAccepts(tenant, text) == tenant \in ValidTenants /\ Verdict(text).passed
ChatAccepts(text) == Verdict(text).passed
StreamAccepts(text) == Verdict(text).passed
IndustryAccepts(i) == RegistryBuilds /\ Registry[i].present
\* A POST of /v1/industry/reload is taken by /v1/industry/{industry_type}, which is declared before it
\* and knows no such industry; the listing answers at once.
ReloadAccepts == FALSE
ListAccepts == FALSE

Accepts(endpoint, tenant, text, industry) ==
  CASE endpoint = "route" -> RouteAccepts(tenant, text)
    [] endpoint = "chat" -> ChatAccepts(text)
    [] endpoint = "stream" -> StreamAccepts(text)
    [] endpoint = "industry" -> IndustryAccepts(industry)
    [] endpoint = "reload" -> ReloadAccepts
    [] endpoint = "list" -> ListAccepts

Arrive(r, c, key, tenant, endpoint, text, industry, sanitize) ==
  /\ request[r] = Free /\ Len(auditLog) < MaxEvents /\ \A t \in Tenants : streamed[t] < MaxEvents
  /\ Authorised(c, key, tenant)
  /\ Limits(c)
  /\ LET admittedNow == Admits(Cleaned(times), c) IN
     /\ request' = [request EXCEPT ![r] =
          IF admittedNow /\ Accepts(endpoint, tenant, text, industry)
          THEN [phase |-> "running", endpoint |-> endpoint, key |-> key, client |-> c, tenant |-> tenant,
                text |-> text, sanitize |-> sanitize, industry |-> industry,
                input |-> IF endpoint = "industry" THEN IndustryInput(industry, text, sanitize)
                          ELSE Verdict(text).input]
          ELSE Free]
     /\ workflows' = IF admittedNow /\ endpoint \in {"industry", "list"} /\ RegistryBuilds THEN Registry
                     ELSE workflows
  /\ UNCHANGED <<now, keysSet, templates, auditLog, owed, streamed>>

-----------------------------------------------------------------------------
(* The handlers, from the router's answer on *)

RouteEvents_Untenanted(q) == <<[tenant |-> "default", type |-> "route_decision"]>>
\* What a request writes to the audit log: a decision, a call, and for an industry whose result
\* carries an error that too; a stream writes nothing.
RouteEvents(q) == <<[tenant |-> q.tenant, type |-> "route_decision"]>>
ChatEvents(q) == <<[tenant |-> q.tenant, type |-> "model_call"]>>
StreamEvents == <<>>
IndustryEvents(q, outcome) ==
  IF ~workflows[q.industry].audit THEN <<>>
  ELSE IF outcome = "error" THEN Append(RouteEvents(q), [tenant |-> q.tenant, type |-> "industry_error"])
  ELSE RouteEvents(q)
Events(r, outcome) ==
  LET q == request[r] IN
  CASE outcome = "raises" -> <<>>
    [] outcome # "raises" /\ q.endpoint = "route" -> RouteEvents(q)
    [] outcome # "raises" /\ q.endpoint = "chat" -> ChatEvents(q)
    [] outcome # "raises" /\ q.endpoint = "stream" -> StreamEvents
    [] outcome # "raises" /\ q.endpoint = "industry" -> IndustryEvents(q, outcome)

\* The events an answered request should leave: one, a stream too, and one more for an industry's error.
Due(q, outcome) ==
  LET answered == outcome # "raises" IN
  CASE answered /\ q.endpoint \in {"route", "chat", "stream"} -> 1
    [] answered /\ q.endpoint = "industry" /\ workflows[q.industry].audit -> IF outcome = "error" THEN 2 ELSE 1
    [] OTHER -> 0

\* What an answered stream owes of them, and does not write.
Streams(q, outcome) == IF q.endpoint = "stream" THEN Due(q, outcome) ELSE 0

\* The router returns a result, a result with an error, or raises (answered 500, or as an event of the
\* stream). kept: the events that reach the file: AuditLogger.log swallows an OSError, and text that the
\* file's encoding lacks raises, so that the rest is not written and the client is answered 500.
RouterEnds(r, outcome) ==
  /\ request[r] # Free
  /\ LET q == request[r] IN
     \E kept \in SUBSET DOMAIN Events(r, outcome) :
       /\ auditLog' = auditLog \o [n \in 1 .. Cardinality(kept) |-> Events(r, outcome)[CHOOSE i \in kept :
                                     Cardinality({j \in kept : j <= i}) = n]]
       /\ owed' = [owed EXCEPT ![q.tenant] =
                     @ + Due(q, outcome) - Cardinality(DOMAIN Events(r, outcome) \ kept)]
       /\ streamed' = [streamed EXCEPT ![q.tenant] = @ + Streams(q, outcome)]
  /\ request' = [request EXCEPT ![r] = Free]
  /\ UNCHANGED <<now, times, lastCleanup, admitted, keysSet, workflows, templates>>

SecondPasses ==
  /\ now < MaxTime /\ now' = now + 1
  /\ UNCHANGED <<times, lastCleanup, admitted, keysSet, request, workflows, templates, auditLog, owed, streamed>>

ApiNext ==
  \/ \E r \in Requests, c \in Clients, key \in {"none", "open", "bound"}, tenant \in Tenants,
        text \in Bodies :
       \/ \E endpoint \in {"route", "chat", "stream", "reload", "list"} :
            Arrive(r, c, key, tenant, endpoint, text, CHOOSE i \in Industries : TRUE, TRUE)
       \/ \E i \in Industries, sanitize \in BOOLEAN : Arrive(r, c, key, tenant, "industry", text, i, sanitize)

  \/ \E r \in Requests, outcome \in {"ok", "error", "raises"} : RouterEnds(r, outcome)
  \/ SecondPasses

ApiSpec == ApiInit /\ [][ApiNext]_apiVars

-----------------------------------------------------------------------------
(* Reports and properties *)

\* ComplianceReporter.generate for a tenant: what it counts, and whether it passes. No event of the
\* server carries the flags that its critical findings are made of.
Counted(tenant, Flagged(_)) == Cardinality({i \in DOMAIN auditLog : auditLog[i].tenant = tenant /\ Flagged(auditLog[i])})
Report(tenant) ==
  LET violations == Counted(tenant, LAMBDA e : e.type = "consent_violation")
      cloud      == Counted(tenant, LAMBDA e : e.type = "cloud")
      sanitized  == Counted(tenant, LAMBDA e : e.type = "sanitized")
  IN [total |-> Counted(tenant, LAMBDA e : TRUE), passed |-> violations = 0 /\ sanitized >= cloud]

\* No window holds more than MaxRequests admissions of a client, whenever it begins; and forgetting idle
\* clients, popping old times and bounding what is kept never lose an admission that still counts, so
\* that no client is refused while it has one left (app.py:58, 68).
LimitExact ==
  \A c \in Clients :
    /\ \A i \in DOMAIN admitted[c] :
         i + MaxRequests \in DOMAIN admitted[c] => admitted[c][i + MaxRequests] - admitted[c][i] >= Window
    /\ \E n \in 0 .. Len(admitted[c]) :
         /\ times[c] = SubSeq(admitted[c], n + 1, Len(admitted[c]))
         /\ \A i \in 1 .. n : ~InWindow(admitted[c][i])

\* What the router works on: a text with personal data only masked, whatever the way in, save for an
\* industry whose caller or workflow waived that; from route, chat and stream one that is within the
\* policy (industry requests are judged by none); and under a bound key, that tenant's (app.py:300,
\* 496, 590; workflows.py:319).
OnlyAllowedCalls ==
  \A r \in Requests : request[r] # Free =>
    LET q == request[r] IN
    /\ q.text.raw.pii # {} =>
         \/ q.input = q.text.masked
         \/ q.endpoint = "industry" /\ ~(q.sanitize /\ workflows[q.industry].sanitize)
    /\ q.endpoint # "industry" => ClassOf(q.text, 0) <= DefaultPolicy.maxClass
    /\ keysSet /\ q.key = "bound" => q.tenant = BoundTenant

\* A tenant's compliance report counts the events of its own answered requests, no more and no less,
\* but for its streams, which leave none (compliance.py:45, app.py:323, 513, workflows.py:332).
TrailComplete == \A t \in Tenants : Report(t).total + streamed[t] = owed[t]

\* What docs/reference-server-tenancy.md:247 says: every route or chat request is written to the audit log.
EveryRequestAudited == \A t \in Tenants : Report(t).total = owed[t]

\* What docs/reference-server-tenancy.md:228-232 says of every request: it is evaluated, and regulated
\* data is rejected.
RegulatedRejected == \A r \in Requests : request[r] # Free => ClassOf(request[r].text, 0) # REGULATED
=============================================================================
