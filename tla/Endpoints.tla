----------------------------- MODULE Endpoints -----------------------------
(***************************************************************************)
(* The endpoints the modules map, the policies they name, and the routing  *)
(* of a request to one of them.                                            *)
(*                                                                         *)
(* A path is the sequence of its segments, without the trailing slash that *)
(* every route answers with and without.  IntId and GuidId stand for the   *)
(* segments {id:int} and {id:guid}; Param for a parameter the router sees, *)
(* which knows no constraints.                                             *)
(***************************************************************************)
EXTENDS Integers, Sequences, FiniteSets, SequencesExt

IntId  == "{id:int}"
GuidId == "{id:guid}"
Param  == "{id}"

CONSTANT Anonymous  \* no authenticated user

NoTenant == "no tenant"  \* no tenant: no claim, no header, or a blank one

-----------------------------------------------------------------------------
(* Policies *)

Permissions == {"catalog.read", "catalog.write", "orders.read", "orders.write",
                "admin.users.manage", "administration.read", "administration.write",
                "report.view"}

ADMIN         == "role.admin"
TENANT_SCOPED == "tenant.scoped"

IsRegistered(policy) == policy \in Permissions \cup {ADMIN, TENANT_SCOPED}

\* The claim is the tenant's own, and the header, if there is one, names it.
TenantScopeSatisfied(user, tenant) ==
    /\ user.tenant # NoTenant
    /\ tenant \in {NoTenant, user.tenant}

\* PolicyRegistry, and RemotePolicies on the Catalog host.
Evaluate(policy, user, tenant) ==
    LET decided(allowed) == IF allowed THEN "allowed" ELSE "denied"
    IN  IF user = Anonymous THEN "denied"
        ELSE IF policy \in Permissions THEN decided(policy \in user.permissions)
        ELSE IF policy = ADMIN THEN decided("Admin" \in user.roles)
        ELSE IF policy = TENANT_SCOPED THEN decided(TenantScopeSatisfied(user, tenant))
        ELSE "unknown"

-----------------------------------------------------------------------------
(* Conventions: what a module chains onto a route *)

Mapped(tag, method, path, name) ==
    [tag |-> tag, method |-> method, path |-> path, name |-> name,
     policies |-> <<>>, authorized |-> FALSE, responses |-> {}, validates |-> FALSE]

RequireAuthorization(policies, e) == [e EXCEPT !.authorized = TRUE, !.policies = @ \o policies]
Produces(statuses, e)             == [e EXCEPT !.responses = @ \cup statuses]
WithValidation(e)                 == [e EXCEPT !.validates = TRUE]

\* Mutant: the shared list forgets the rate limit.
BY_ID_Unthrottled == {200, 401, 403, 404}

BY_ID == {200, 401, 403, 404, 429}

LIST  == {200, 401, 403, 429}

HealthEndpoints(tag, prefix) ==
    {Produces({200}, Mapped(tag, "GET", prefix \o <<path>>, path)) : path \in {"health", "data-health"}}

CatalogEndpoints ==
    LET Get(path, name, statuses) ==
            Produces(statuses, RequireAuthorization(<<"catalog.read", TENANT_SCOPED>>,
                Mapped("Catalog", "GET", <<"api", "catalog">> \o path, name)))
    IN  HealthEndpoints("Catalog", <<"api", "catalog">>) \cup
        {Get(<<"albums", IntId>>, "CatalogGetAlbumById", BY_ID),
         Get(<<"albums">>, "GetAllAlbums", LIST),
         Get(<<"albums", "artist", IntId>>, "GetAlbumsByArtistId", LIST),
         Get(<<"artists", IntId>>, "CatalogGetArtistById", BY_ID),
         Get(<<"artists">>, "GetAllArtists", LIST),
         Get(<<"tracks", IntId>>, "CatalogGetTrackById", BY_ID),
         Get(<<"tracks", IntId, "sales">>, "CatalogGetTrackSales", BY_ID),
         Get(<<"tracks">>, "GetAllTracks", LIST),
         Get(<<"tracks", "artist", IntId>>, "GetTracksByArtistId", LIST),
         Get(<<"tracks", "playlist", IntId>>, "GetTracksByPlaylistId", LIST),
         Get(<<"tracks", "album", IntId>>, "GetTracksByAlbumId", LIST),
         Get(<<"tracks", "genre", IntId>>, "GetTracksByGenreId", LIST),
         Get(<<"tracks", "mediatype", IntId>>, "GetTracksByMediaTypeId", LIST),
         Get(<<"playlists", IntId>>, "CatalogGetPlaylistById", BY_ID),
         Get(<<"playlists">>, "GetAllPlaylists", LIST)}

AdministrationEndpoints ==
    LET At(method, path, name) ==
            Mapped("Administration", method, <<"api", "admin">> \o path, name)
        Get(path, name, statuses) ==
            Produces(statuses, RequireAuthorization(<<ADMIN, "administration.read", TENANT_SCOPED>>,
                At("GET", path, name)))
        Write(method, path, name, statuses) ==
            Produces(statuses, RequireAuthorization(<<ADMIN, "administration.write", TENANT_SCOPED>>,
                At(method, path, name)))
    IN  HealthEndpoints("Administration", <<"api", "admin">>) \cup
        {Get(<<"customers", IntId>>, "AdministrationGetCustomerById", BY_ID),
         Get(<<"customers", IntId, "purchases">>, "AdministrationGetCustomerPurchases", BY_ID),
         Get(<<"customers">>, "GetAllCustomers", LIST),
         Get(<<"customers", "support-rep", IntId>>, "GetCustomersBySupportRepId", LIST),
         Get(<<"employees", IntId>>, "AdministrationGetEmployeeById", BY_ID),
         Get(<<"employees">>, "GetAllEmployees", LIST),
         Get(<<"employees", IntId, "direct-reports">>, "GetEmployeeDirectReports", LIST),
         Get(<<"employees", IntId, "reports-to">>, "GetEmployeeReportsTo", BY_ID),
         Get(<<"genres", IntId>>, "AdministrationGetGenreById", BY_ID),
         Get(<<"genres">>, "GetAllGenres", LIST),
         WithValidation(Write("POST", <<"genres">>, "CreateGenre", {201, 400, 401, 403, 429})),
         WithValidation(Write("PUT", <<"genres", IntId>>, "UpdateGenre",
                              {200, 400, 401, 403, 404, 429})),
         Write("DELETE", <<"genres", IntId>>, "DeleteGenre", {204, 401, 403, 404, 429}),
         Get(<<"media-types", IntId>>, "AdministrationGetMediaTypeById", BY_ID),
         Get(<<"media-types">>, "GetAllMediaTypes", LIST)}

OrdersEndpoints ==
    LET At(method, path, name, policies, statuses) ==
            Produces(statuses, RequireAuthorization(policies,
                Mapped("Orders", method, <<"api", "orders">> \o path, name)))
        Get(path, name, statuses) == At("GET", path, name, <<"orders.read", TENANT_SCOPED>>, statuses)
    IN  HealthEndpoints("Orders", <<"api", "orders">>) \cup
        {Get(<<"invoices", IntId>>, "OrdersGetInvoiceById", BY_ID),
         Get(<<"invoices">>, "GetAllInvoices", LIST),
         Get(<<"invoices", "customer", IntId>>, "GetInvoicesByCustomerId", LIST),
         At("POST", <<"invoices", IntId, "finalize">>, "OrdersFinalizeInvoice",
            <<"orders.write", TENANT_SCOPED>>, {202, 401, 403, 404, 409, 429}),
         Get(<<"invoice-lines", IntId>>, "OrdersGetInvoiceLineById", BY_ID),
         Get(<<"invoice-lines">>, "GetAllInvoiceLines", LIST),
         Get(<<"invoice-lines", "invoice", IntId>>, "GetInvoiceLinesByInvoiceId", LIST),
         Get(<<"invoice-lines", "track", IntId>>, "GetInvoiceLinesByTrackId", LIST),
         At("GET", <<"outbox", "dead-letters">>, "OrdersListDeadLetters", <<ADMIN>>, LIST),
         At("POST", <<"outbox", "dead-letters", GuidId, "retry">>, "OrdersRetryDeadLetter",
            <<ADMIN>>, {204, 401, 403, 404, 429})}

ReportingEndpoints ==
    LET At(method, path, name, policies, statuses) ==
            Produces(statuses, RequireAuthorization(policies,
                Mapped("Reporting", method, <<"api", "reporting">> \o path, name)))
        VIEW == <<"report.view", TENANT_SCOPED>>
    IN  HealthEndpoints("Reporting", <<"api", "reporting">>) \cup
        {At("GET", <<"sales-by-genre">>, "ReportingSalesByGenre", VIEW, LIST),
         At("GET", <<"invoices", IntId, "lines">>, "ReportingInvoiceLines", VIEW, BY_ID),
         At("POST", <<"integrity", "run">>, "ReportingRunIntegrityCheck", <<ADMIN>>, LIST),
         At("GET", <<"integrity", "findings">>, "ReportingIntegrityFindings", <<ADMIN>>, LIST)}

IdentityEndpoints ==
    LET At(method, path, name, statuses) ==
            Produces(statuses, Mapped("Identity", method, <<"api", "identity">> \o path, name))
    IN  HealthEndpoints("Identity", <<"api", "identity">>) \cup
        {WithValidation(At("POST", <<"login">>, "IdentityLogin", {200, 400, 401, 429})),
         WithValidation(At("POST", <<"refresh">>, "IdentityRefresh", {200, 400, 401, 429})),
         WithValidation(RequireAuthorization(<<>>,
             At("POST", <<"logout">>, "IdentityLogout", {204, 400, 401, 403, 429}))),
         RequireAuthorization(<<>>, At("GET", <<"userinfo">>, "IdentityUserInfo", {200, 401})),
         At("GET", <<".well-known", "jwks.json">>, "IdentityJWKS", {200})}

RootEndpoints ==
    {Produces({200, 429}, Mapped("Root", "GET", <<>>, "Root")),
     Produces({200, 503}, Mapped("Root", "GET", <<"healthz">>, "HealthZ"))}

\* Unlisted: no descriptor, no layers of their own.
SwaggerEndpoints ==
    {Mapped("Swagger", "GET", path, "Swagger") :
        path \in {<<"swagger">>, <<"swagger", "index.html">>, <<"swagger", Param, "swagger.json">>}}

-----------------------------------------------------------------------------
(* The OpenAPI documents, made from the descriptors *)

\* The document each module's tag selects; v1 holds every endpoint.
MODULE_DOCUMENTS ==
    [name \in {"catalog", "orders", "admin", "identity", "reporting"} |->
        CASE name = "catalog"   -> "Catalog"
          [] name = "orders"    -> "Orders"
          [] name = "admin"     -> "Administration"
          [] name = "identity"  -> "Identity"
          [] name = "reporting" -> "Reporting"]

OpenApiPath(path) == [i \in DOMAIN path |-> IF path[i] \in {IntId, GuidId} THEN Param ELSE path[i]]

Parameters(path) ==
    [i \in {j \in DOMAIN path : path[j] \in {IntId, GuidId}} |->
        IF path[i] = IntId THEN "integer" ELSE "string"]

\* No declared status is published as 200.
Operation(e) ==
    [operationId |-> e.name, parameters |-> Parameters(e.path), body |-> e.validates,
     anonymous |-> ~e.authorized, policies |-> Range(e.policies),
     responses |-> IF e.responses = {} THEN {200} ELSE e.responses]

\* Operations by path and method: one that has another's is not seen beside it.
Document(endpoints) ==
    [at \in {<<OpenApiPath(e.path), e.method>> : e \in endpoints} |->
        Operation(CHOOSE e \in endpoints : <<OpenApiPath(e.path), e.method>> = at)]

Documents(endpoints) ==
    [name \in {"v1"} \cup DOMAIN MODULE_DOCUMENTS |->
        Document({e \in endpoints : name = "v1" \/ e.tag = MODULE_DOCUMENTS[name]})]

-----------------------------------------------------------------------------
(* What the handlers answer, when the database does not fail them: 500, too. *)

CatalogAnswers(name) ==
    IF name \in {"CatalogGetAlbumById", "CatalogGetArtistById", "CatalogGetTrackById",
                 "CatalogGetTrackSales", "CatalogGetPlaylistById"}
    THEN {200, 404} ELSE {200}

AdministrationAnswers(name) ==
    CASE name \in {"AdministrationGetCustomerById", "AdministrationGetCustomerPurchases",
                   "AdministrationGetEmployeeById", "GetEmployeeReportsTo",
                   "AdministrationGetGenreById", "AdministrationGetMediaTypeById"} -> {200, 404}
      [] name = "CreateGenre" -> {201, 400}
      [] name = "UpdateGenre" -> {200, 400, 404}
      [] name = "DeleteGenre" -> {204, 404}
      [] OTHER                -> {200}

OrdersAnswers(name) ==
    CASE name \in {"OrdersGetInvoiceById", "OrdersGetInvoiceLineById"} -> {200, 404}
      [] name = "OrdersFinalizeInvoice" -> {202, 404, 409}
      [] name = "OrdersRetryDeadLetter" -> {204, 404}
      [] OTHER                          -> {200}

ReportingAnswers(name) == IF name = "ReportingInvoiceLines" THEN {200, 404} ELSE {200}

IdentityAnswers(name) ==
    CASE name \in {"IdentityLogin", "IdentityRefresh"} -> {200, 401}
      [] name = "IdentityLogout"                       -> {204, 403}
      [] OTHER                                         -> {200}

\* DatabaseHealthCheck, one for each module that has a database.
Checked == {"Administration", "Catalog", "Orders", "Reporting"}

CheckDatabase(module, reachable) == IF module \in reachable THEN "Healthy" ELSE "Unhealthy"

\* One unreachable database is enough.
HealthZAnswers ==
    LET Unhealthy(reachable) == \E module \in Checked : CheckDatabase(module, reachable) = "Unhealthy"
    IN  {IF Unhealthy(reachable) THEN 503 ELSE 200 : reachable \in SUBSET Checked}

\* The one page, or a document, which may be unknown.
SwaggerAnswers(path) == IF Param \in Range(path) THEN {200, 404} ELSE {200}

Answers(e) ==
    IF e.name \in {"health", "data-health", "Root"} THEN {200}
    ELSE CASE e.name = "HealthZ"          -> HealthZAnswers
           [] e.tag = "Swagger"           -> SwaggerAnswers(e.path)
           [] e.tag = "Catalog"           -> CatalogAnswers(e.name) \cup {500}
           [] e.tag = "Administration"    -> AdministrationAnswers(e.name) \cup {500}
           [] e.tag = "Orders"            -> OrdersAnswers(e.name) \cup {500}
           [] e.tag = "Reporting"         -> ReportingAnswers(e.name) \cup {500}
           [] e.name = "IdentityLogin"    -> IdentityAnswers(e.name) \cup {500}
           [] OTHER                       -> IdentityAnswers(e.name)

-----------------------------------------------------------------------------
(* Routing *)

\* parse_route: the router's pattern has no constraints.
Pattern(path) == [i \in DOMAIN path |-> IF path[i] \in {IntId, GuidId} THEN Param ELSE path[i]]

\* What the value must parse as, by position.
Constraints(path) == {i \in DOMAIN path : path[i] \in {IntId, GuidId}}

Fits(pattern, path) ==
    /\ Len(pattern) = Len(path)
    /\ \A i \in DOMAIN path : pattern[i] \in {Param, path[i]}

\* Static before parameter, from the left.
MoreStatic(p, q) ==
    \E i \in DOMAIN p : /\ p[i] # Param /\ q[i] = Param
                        /\ \A j \in 1..(i - 1) : p[j] = q[j]

\* The patterns that route a path: one or none.
Matched(endpoints, path) ==
    LET fitting == {p \in {Pattern(e.path) : e \in endpoints} : Fits(p, path)}
    IN  {p \in fitting : \A q \in fitting : ~MoreStatic(q, p)}

Routed(endpoints, path) == {e \in endpoints : Pattern(e.path) \in Matched(endpoints, path)}
=============================================================================
