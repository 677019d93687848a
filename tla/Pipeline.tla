------------------------------ MODULE Pipeline ------------------------------
(***************************************************************************)
(* A request on its way through a host: inward through the host's layers   *)
(* (api's app.rs and middleware.rs; the Catalog host has authentication    *)
(* only), routing, the layers of the route (shared-kernel's endpoints.rs), *)
(* the extractors and the handler, and its answer back outward through     *)
(* the layers that were entered.  A handler may panic, which unwinds to    *)
(* the layer that catches panics, if the host has one.                     *)
(*                                                                         *)
(* An answer is its status, the kind of its content, the trace a problem   *)
(* document names, and the headers the layers add.  Whether the window has *)
(* a permit left for the request is chosen as it arrives: other requests   *)
(* spend the window (module RateLimiter).                                  *)
(***************************************************************************)
EXTENDS Endpoints, HostEnvironment, Users, FiniteSetsExt

CONSTANTS
    Hosts,     \* [name : {"monolith", "catalog-host"}, environment : STRING]
    InMemoryUsers, \* the logins the hosts are configured with: module Users
    Incoming,  \* [method, path, scheme, token, tenant, body, traceparent,
               \*  credentials : [username, password, userId : STRING]]
    NoTrace,   \* no identifier in scope, or named
    Minted,    \* the identifier request_id makes
    Fresh,     \* an identifier made outside a request's scope: none other is equal to it
    None       \* no request, endpoint or answer

ASSUME PipelineAssumption ==
    /\ NoTrace # Minted /\ Fresh \notin {NoTrace, Minted}
    /\ \A h \in Hosts : h.name \in {"monolith", "catalog-host"}
    /\ DOMAIN InMemoryUsers = 1..Len(InMemoryUsers)
    /\ \A r \in Incoming :
          /\ r.body \in {"valid", "invalid", "garbled", "untyped", "mistyped", "large"}
          /\ r.token.claims.exp \in Int /\ r.token.claims.nbf \in Int
          /\ r.traceparent.wellFormed => r.traceparent.id # NoTrace

VARIABLES
    host,      \* what serves
    request,
    way,       \* "idle", "in", "out" or "panic"
    todo,      \* the layers ahead of the request
    entered,   \* the layers around it, outermost first
    endpoint,  \* the endpoint routing chose
    scope,     \* REQUEST_TRACE_ID
    user,      \* the AuthenticatedUser extension
    left,      \* permits left in the window, as far as one request can tell
    answer,
    ran,       \* the handler was called
    counted    \* the status the module's meter counted

pipelineVars == <<host, request, way, todo, entered, endpoint, scope, user, left, answer, ran, counted>>

-----------------------------------------------------------------------------
(* The hosts *)

IsMonolith == host.name = "monolith"

Served(h) ==
    IF h.name = "monolith"
    THEN UNION {RootEndpoints, AdministrationEndpoints, CatalogEndpoints, IdentityEndpoints,
                OrdersEndpoints, ReportingEndpoints,
                IF ExposesOperationalMetadata(h.environment) THEN SwaggerEndpoints ELSE {}}
    ELSE CatalogEndpoints \cup {Mapped("Host", "GET", <<"healthz">>, "HealthZ")}

\* Mutant: panics are caught outside the request's trace.
MonolithLayers_CaughtOutside(environment) ==
    (IF environment = "Development" THEN <<>> ELSE <<"hsts">>)
        \o <<"catch_panic", "request_id", "status_code_pages", "json_charset",
             "security_headers", "cors", "authenticate">>

\* pipeline, outermost first.
MonolithLayers(environment) ==
    (IF environment = "Development" THEN <<>> ELSE <<"hsts">>)
        \o <<"request_id", "catch_panic", "status_code_pages", "json_charset",
             "security_headers", "cors", "authenticate">>

HostLayers(h) ==
    (IF h.name = "monolith" THEN MonolithLayers(h.environment) ELSE <<"authenticate">>)
        \o <<"routing">>

\* The groups of the modules and of the root endpoint; /healthz and Swagger have no limiter.
RateLimited(e) ==
    e.tag \in {"Administration", "Catalog", "Identity", "Orders", "Reporting"} \/ e.name = "Root"

\* What RouteGroup::drop wraps around a handler, outermost first.
RouteLayers(e) ==
    (IF Constraints(e.path) # {} THEN <<"constraints">> ELSE <<>>)
        \o (IF RateLimited(e) THEN <<"rate_limit">> ELSE <<>>)
        \o (IF e.authorized THEN <<"authorize">> ELSE <<>>)
        \o (IF RateLimited(e) /\ e.name # "Root" THEN <<"metrics">> ELSE <<>>)
        \o (IF e.validates THEN <<"validator">> ELSE <<>>)
        \o <<"handler">>

-----------------------------------------------------------------------------
(* Answers *)

\* A trace's identifier is no header's name.
Traces      == {NoTrace, Minted, Fresh} \cup {r.traceparent.id : r \in Incoming}
HeaderNames == {"strict-transport-security", "www-authenticate", "security", "vary"}

Kinds       == {"none", "problem", "json", "json; charset=utf-8", "text", "html"}

Answer ==
    [status : Nat, content : Kinds, trace : Traces, headers : SUBSET (Traces \cup HeaderNames)]

ASSUME NamesAssumption ==
    /\ Traces \cap HeaderNames = {}
    /\ None \notin Answer
    /\ \A h \in Hosts : None \notin Served(h)

Bare(status)          == [status |-> status, content |-> "none", trace |-> NoTrace, headers |-> {}]
Content(status, kind) == [Bare(status) EXCEPT !.content = kind]

CurrentTraceId == IF scope = NoTrace THEN Fresh ELSE scope

ProblemDetails(status) ==
    [status |-> status, content |-> "problem", trace |-> CurrentTraceId, headers |-> {}]

\* ApiError::into_response.
ApiError(status) ==
    [ProblemDetails(status) EXCEPT !.headers = IF status = 401 THEN {"www-authenticate"} ELSE {}]

\* What a handler's status is written as.
HandlerAnswer(e, status) ==
    IF e.name = "HealthZ"
    THEN Content(status, IF e.tag = "Root" THEN "json" ELSE "text")
    ELSE CASE status \in {200, 201, 202} ->
                Content(status, IF e.tag = "Swagger" /\ Param \notin Range(e.path)
                                THEN "html" ELSE "json")
           [] status = 204 -> Bare(status)
           [] OTHER -> ProblemDetails(status)  \* unauthorized(), too: no challenge

\* JsonBody and Validated, before the handler is called.
Rejected(body) ==
    CASE body = "garbled"  -> {ApiError(400)}
      [] body = "untyped"  -> {ApiError(415)}
      [] body = "mistyped" -> {ApiError(422)}
      [] body = "large"    -> {ApiError(413)}
      [] body = "invalid"  -> {ApiError(400)}
      [] OTHER             -> {}

-----------------------------------------------------------------------------
(* The caller *)

CLOCK_SKEW_SECONDS   == 30
ACCESS_TOKEN_MINUTES == 15

\* A claim is a string when it has one value, a list when it has several.
FromValues(values) ==
    CASE Len(values) = 0 -> [kind |-> "none"]
      [] Len(values) = 1 -> [kind |-> "one", value |-> values[1]]
      [] OTHER           -> [kind |-> "many", values |-> values]

ValuesOf(claim) ==
    CASE claim.kind = "none" -> {}
      [] claim.kind = "one"  -> {claim.value}
      [] claim.kind = "many" -> Range(claim.values)

\* issue_at, for a user of the store.
AccessTokenClaims(record) ==
    [sub |-> record.userId, iss |-> "issuer", aud |-> {"audience"},
     exp |-> ACCESS_TOKEN_MINUTES * 60, nbf |-> 0,
     permissions |-> FromValues(record.permissions), roles |-> FromValues(record.roles),
     tenant |-> IF record.tenant = "" THEN NoTenant ELSE record.tenant]

IntoUser(claims) ==
    [subject |-> claims.sub, permissions |-> ValuesOf(claims.permissions),
     roles |-> ValuesOf(claims.roles), tenant |-> claims.tenant]

\* A doubled prefix is tolerated; the Catalog host wants the second's capital.
StripBearer(scheme) == scheme \in {"Bearer", "Bearer Bearer", "Bearer bearer"}
Bearer(scheme)      == scheme \in {"Bearer", "Bearer Bearer"}

\* Times are in seconds from now.
Validate(token) ==
    /\ token.signed
    /\ token.claims.iss = "issuer" /\ "audience" \in token.claims.aud
    /\ token.claims.exp >= -CLOCK_SKEW_SECONDS
    /\ token.claims.nbf <= CLOCK_SKEW_SECONDS
    /\ token.claims.sub # "blank"

\* Only the Catalog host reads the header's type.
ValidateRemotely(token) == token.typ \in {"none", "JWT", "at+jwt"} /\ Validate(token)

\* A token that is missing, or refused, is nobody's.
Authenticated(scheme, token) ==
    LET valid == IF IsMonolith THEN StripBearer(scheme) /\ Validate(token)
                               ELSE Bearer(scheme) /\ ValidateRemotely(token)
    IN  IF valid THEN IntoUser(token.claims) ELSE Anonymous

-----------------------------------------------------------------------------
PipelineInit ==
    /\ host \in Hosts
    /\ request = None /\ way = "idle" /\ todo = <<>> /\ entered = <<>> /\ endpoint = None
    /\ scope = NoTrace /\ user = Anonymous /\ left = 0 /\ answer = None
    /\ ran = FALSE /\ counted = None

Receive ==
    /\ way = "idle"
    /\ request' \in Incoming
    /\ left' \in {0, 1}
    /\ way' = "in"
    /\ todo' = HostLayers(host)
    /\ UNCHANGED <<host, entered, endpoint, scope, user, answer, ran, counted>>

At(layer) == way = "in" /\ todo # <<>> /\ Head(todo) = layer

\* next.run: the layer stays around the request.
Entered ==
    /\ todo' = Tail(todo)
    /\ entered' = Append(entered, Head(todo))
    /\ UNCHANGED <<host, request, way, answer>>

\* The layer answers itself; what is ahead is never reached.
Answered(a) ==
    /\ answer' = a /\ way' = "out" /\ todo' = <<>>
    /\ UNCHANGED <<host, request, entered>>

\* A caller's own trace is continued when it is one.
RequestId ==
    /\ At("request_id")
    /\ scope' = IF request.traceparent.wellFormed THEN request.traceparent.id ELSE Minted
    /\ Entered
    /\ UNCHANGED <<endpoint, user, left, ran, counted>>

Wrap ==
    /\ \E layer \in {"hsts", "catch_panic", "status_code_pages", "json_charset",
                     "security_headers", "metrics", "validator"} : At(layer)
    /\ Entered
    /\ UNCHANGED <<endpoint, scope, user, left, ran, counted>>

\* Every OPTIONS request is taken for a preflight.
Cors ==
    /\ At("cors")
    /\ IF request.method = "OPTIONS" THEN Answered(Bare(200)) ELSE Entered
    /\ UNCHANGED <<endpoint, scope, user, left, ran, counted>>

Authenticate ==
    /\ At("authenticate")
    /\ user' = Authenticated(request.scheme, request.token)
    /\ Entered
    /\ UNCHANGED <<endpoint, scope, left, ran, counted>>

\* The fallback answers an unknown path, the method router an unknown method.
Unrouted ==
    LET routed == Routed(Served(host), request.path)
    IN  /\ At("routing")
        /\ \A e \in routed : e.method # request.method
        /\ Answered(IF routed # {} THEN Bare(405)
                    ELSE IF IsMonolith THEN Bare(404) ELSE ApiError(404))
        /\ UNCHANGED <<endpoint, scope, user, left, ran, counted>>

Route ==
    /\ At("routing")
    /\ \E e \in Routed(Served(host), request.path) :
          /\ e.method = request.method
          /\ endpoint' = e
          /\ todo' = RouteLayers(e)
    /\ UNCHANGED <<host, request, way, entered, scope, user, left, answer, ran, counted>>

\* The values at the constrained positions parse.
Accepted(e, path) ==
    \A i \in Constraints(e.path) : path[i] = (IF e.path[i] = IntId THEN "1" ELSE "guid")

EnforceConstraints ==
    /\ At("constraints")
    /\ IF Accepted(endpoint, request.path) THEN Entered ELSE Answered(ApiError(404))
    /\ UNCHANGED <<endpoint, scope, user, left, ran, counted>>

RateLimit ==
    /\ At("rate_limit")
    /\ \/ left > 0 /\ left' = left - 1 /\ Entered
       \/ left = 0 /\ UNCHANGED left /\ Answered(Bare(429))
    /\ UNCHANGED <<endpoint, scope, user, ran, counted>>

\* Mutant: the last policy decides alone.
Refusals_LastPolicy(policies) ==
    IF user = Anonymous THEN {401}
    ELSE IF policies = <<>> THEN {}
    ELSE LET decision == Evaluate(Last(policies), user, request.tenant)
         IN  IF decision = "allowed" THEN {} ELSE IF decision = "denied" THEN {403} ELSE {500}

\* The first policy that does not allow the caller decides.
Refusals(policies) ==
    LET Decision(i) == Evaluate(policies[i], user, request.tenant)
        refusing == {i \in DOMAIN policies : Decision(i) # "allowed"}
    IN  IF user = Anonymous THEN {401}
        ELSE IF refusing = {} THEN {}
        ELSE {IF Decision(Min(refusing)) = "denied" THEN 403 ELSE 500}

Authorize ==
    /\ At("authorize")
    /\ LET refusals == Refusals(endpoint.policies)
       IN  \/ refusals = {} /\ Entered
           \/ \E status \in refusals : Answered(ApiError(status))
    /\ UNCHANGED <<endpoint, scope, user, left, ran, counted>>

\* Validated fails closed: no validator is a fault.
Unreadable ==
    IF ~endpoint.validates THEN {}
    ELSE Rejected(request.body) \cup (IF "validator" \in Range(entered) THEN {} ELSE {ApiError(500)})

Extract ==
    /\ At("handler")
    /\ \E a \in Unreadable : Answered(a)
    /\ UNCHANGED <<endpoint, scope, user, left, ran, counted>>

\* Whom login and refresh find.
Found ==
    LET store == UserStore(host.environment, InMemoryUsers)
        asked == request.credentials
    IN  IF endpoint.name = "IdentityLogin"
        THEN ValidateCredentials(store, asked.username, asked.password)
        ELSE FindById(store, asked.userId)

\* A refresh needs its user, but its token, too (module RefreshTokens); a caller
\* logs itself out only.
Decided ==
    {status \in Answers(endpoint) :
        CASE endpoint.name = "IdentityLogin"   -> status = 401 <=> Found = {}
          [] endpoint.name = "IdentityRefresh" -> status = 200 => Found # {}
          [] endpoint.name = "IdentityLogout"  ->
                status = 204 <=> user.subject = request.credentials.userId
          [] OTHER                             -> TRUE}

Handle ==
    /\ At("handler")
    /\ Unreadable = {}
    /\ \E status \in Decided : Answered(HandlerAnswer(endpoint, status))
    /\ ran' = TRUE
    /\ UNCHANGED <<endpoint, scope, user, left, counted>>

Panic ==
    /\ At("handler")
    /\ Unreadable = {}
    /\ way' = "panic" /\ todo' = <<>> /\ ran' = TRUE
    /\ UNCHANGED <<host, request, entered, endpoint, scope, user, left, answer, counted>>

-----------------------------------------------------------------------------
(* Outward *)

\* A bodiless error becomes a problem document; the headers stay.
StatusCodePages(a) ==
    IF a.status >= 400 /\ a.content = "none"
    THEN [ProblemDetails(a.status) EXCEPT !.headers = a.headers]
    ELSE a

JsonCharset(a) == IF a.content = "json" THEN [a EXCEPT !.content = "json; charset=utf-8"] ELSE a

With(name, a) == [a EXCEPT !.headers = @ \cup {name}]

\* What a layer makes of the answer that comes back to it.
Passed(layer, a) ==
    CASE layer = "hsts"              -> With("strict-transport-security", a)
      [] layer = "request_id"        -> With(scope, a)  \* x-trace-id, by its value
      [] layer = "status_code_pages" -> StatusCodePages(a)
      [] layer = "json_charset"      -> JsonCharset(a)
      [] layer = "security_headers"  -> With("security", a)
      [] layer = "cors"              -> With("vary", a)
      [] OTHER                       -> a

Leaving(layer) ==
    /\ entered # <<>> /\ Last(entered) = layer
    /\ entered' = Front(entered)
    /\ scope' = IF layer = "request_id" THEN NoTrace ELSE scope
    /\ UNCHANGED <<host, request, todo, endpoint, user, left, ran>>

Leave ==
    /\ way = "out"
    /\ entered # <<>>
    /\ Leaving(Last(entered))
    /\ answer' = Passed(Last(entered), answer)
    /\ counted' = IF Last(entered) = "metrics" THEN answer.status ELSE counted
    /\ UNCHANGED way

\* Every layer that awaited the handler is dropped, up to the one that catches.
Unwind ==
    /\ way = "panic"
    /\ entered # <<>>
    /\ Leaving(Last(entered))
    /\ IF Last(entered) = "catch_panic"
       THEN way' = "out" /\ answer' = ProblemDetails(500)
       ELSE UNCHANGED <<way, answer>>
    /\ UNCHANGED counted

Finished == way \in {"out", "panic"} /\ entered = <<>>

\* The answer is sent, or the connection closed without one.
Finish ==
    /\ Finished
    /\ way' = "idle" /\ request' = None /\ endpoint' = None /\ user' = Anonymous /\ left' = 0
    /\ answer' = None /\ ran' = FALSE /\ counted' = None
    /\ UNCHANGED <<host, todo, entered, scope>>

PipelineNext ==
    \/ Receive
    \/ RequestId \/ Wrap \/ Cors \/ Authenticate \/ Route \/ Unrouted
    \/ EnforceConstraints \/ RateLimit \/ Authorize \/ Extract \/ Handle \/ Panic
    \/ Leave \/ Unwind \/ Finish

PipelineSpec == PipelineInit /\ [][PipelineNext]_pipelineVars

-----------------------------------------------------------------------------
(* Properties *)

Fault == answer = None \/ answer.status = 500

\* The documents of each host that serves them.
Published ==
    [h \in Hosts |-> IF h.name = "monolith" /\ ExposesOperationalMetadata(h.environment)
                     THEN Documents(Served(h) \ SwaggerEndpoints) ELSE <<>>]

\* The documents that have an operation where e is.
Describing(e) ==
    {name \in DOMAIN Published[host] :
        <<OpenApiPath(e.path), e.method>> \in DOMAIN Published[host][name]}

\* An endpoint's descriptor declares every status a well-formed request can be
\* answered with, besides a fault of the server's: its policies' refusals, the
\* rate limit's, its handler's own, whichever layer answers.  Where OpenAPI is
\* served, v1 and the module's own document say so, and no other document has
\* the endpoint.  (The endpoints that name a policy: the others declare neither
\* 429 nor, for userinfo, 403.)
AnswersAreDeclared ==
    Finished /\ endpoint # None /\ ~Fault =>
        (endpoint.policies # <<>>
            /\ Accepted(endpoint, request.path)
            /\ request.body \notin {"untyped", "mistyped", "large"}
         => /\ answer.status \in endpoint.responses
            /\ \A name \in Describing(endpoint) :
                  LET operation == Published[host][name][OpenApiPath(endpoint.path), endpoint.method]
                  IN  /\ name # "v1" => MODULE_DOCUMENTS[name] = endpoint.tag
                      /\ answer.status \in operation.responses
                      /\ answer.status \in {401, 403} => ~operation.anonymous
            /\ Published[host] # <<>> => Cardinality(Describing(endpoint)) = 2)

\* Whatever answered on the monolith, every answer carries the request's one
\* trace: in the header, and in the problem document every error but
\* /healthz's is, with the identifier the caller brought if it brought one.
\* Only authorization challenges, JSON says its charset, and only a panic's
\* answer has not passed the security headers.
EveryAnswerIsWrapped ==
    Finished /\ IsMonolith =>
        LET trace == IF request.traceparent.wellFormed THEN request.traceparent.id ELSE Minted
            panicked == ran /\ counted = None /\ answer.status = 500
        IN  /\ answer # None
            /\ trace \in answer.headers
            /\ answer.status >= 400 /\ ~(endpoint # None /\ endpoint.name = "HealthZ") =>
                  answer.content = "problem" /\ answer.trace = trace
            /\ answer.content # "json"
            /\ ("www-authenticate" \in answer.headers) <=>
                  (answer.status = 401 /\ user = Anonymous /\ ~ran)
            /\ ("security" \in answer.headers) \/ panicked

\* A handler runs for a caller every policy of its endpoint allows, whose token
\* is signed, meant for this host and no more than the skew out of date, with a
\* value its constraint accepts, a body its validator passed, and the permit
\* its group's limiter took; a refused caller has spent the permit too, and a
\* request no route takes has not.  Nobody logs in to a host in production, and
\* elsewhere only with the password of the last usable record of that name; a
\* caller logs out only itself.
OnlyTheEntitledRun ==
    Finished \/ ran =>
        LET routable == endpoint # None /\ Accepted(endpoint, request.path)
        IN  /\ ran => /\ routable
                      /\ endpoint.authorized =>
                            LET claims == request.token.claims
                            IN  /\ user # Anonymous /\ request.token.signed
                                /\ claims.iss = "issuer" /\ "audience" \in claims.aud
                                /\ claims.nbf - 30 <= 0 /\ 0 <= claims.exp + 30
                      /\ \A policy \in Range(endpoint.policies) :
                            Evaluate(policy, user, request.tenant) = "allowed"
                      /\ endpoint.validates => request.body = "valid"
            /\ (Finished /\ answer # None /\ answer.status \in {401, 403} /\ ~ran)
                  => routable /\ (RateLimited(endpoint) => left = 0)
            /\ ~routable => ~ran /\ counted = None
            /\ Finished /\ ~routable => answer.status \in {200, 404, 405}
            /\ Finished /\ ran /\ endpoint.name = "IdentityLogout"
                 /\ answer # None /\ answer.status = 204 =>
                  request.token.claims.sub = request.credentials.userId
            /\ Finished /\ ran /\ endpoint.name = "IdentityLogin"
                 /\ answer # None /\ answer.status = 200 =>
                  /\ host.environment # "Production"
                  /\ \E i \in DOMAIN InMemoryUsers :
                        /\ InMemoryUsers[i].password = request.credentials.password
                        /\ LoginName(InMemoryUsers[i]) = ToLowercase(request.credentials.username)
                        /\ \A j \in DOMAIN InMemoryUsers :
                              j > i /\ LoginName(InMemoryUsers[j]) = LoginName(InMemoryUsers[i])
                                => ~IsUsable(InMemoryUsers[j])
=============================================================================
