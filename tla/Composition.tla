---------------------------- MODULE Composition ----------------------------
(***************************************************************************)
(* How a host is put together (api's host_composition.rs and               *)
(* module_composition.rs, shared-kernel's module.rs and events/mod.rs, and *)
(* register_services of the five modules): every module registers, in the  *)
(* order of the list, then every module maps its endpoints, then the       *)
(* startup check runs where the environment asks for it.                   *)
(*                                                                         *)
(* The list is checked in every order: a dispatcher built by one module    *)
(* must see what the modules after it register.  Mistakes are the          *)
(* endpoints that a module could map by mistake, at most one at a time.    *)
(***************************************************************************)
EXTENDS Endpoints, HostEnvironment

CONSTANTS
    Environments,  \* a set of environment names
    Orderings,     \* sequences of all five modules
    Mistakes,      \* endpoints a module might map beside its own
    Lowered        \* the segments written with capitals, and what they are without

Modules == {"Administration", "Identity", "Catalog", "Orders", "Reporting"}

\* get_modules lists every module once; a module maps under its own tag.
ASSUME CompositionAssumption ==
    /\ \A list \in Orderings :
          /\ list \in Seq(Modules) /\ Range(list) = Modules
          /\ \A i, j \in DOMAIN list : list[i] = list[j] => i = j
    /\ \A e \in Mistakes : e.tag \in Modules /\ e.path \in Seq(Range(e.path))

VARIABLES
    environment,
    unregistered,  \* the modules that have not registered yet, in order
    registered,    \* those that have
    services,      \* what they registered
    mapped,        \* the endpoints mapped so far
    mistake,       \* a set: the endpoint mapped by mistake, if any
    phase          \* "registering", "mapping", "checking", "serving" or "refused"

compositionVars == <<environment, unregistered, registered, services, mapped, mistake, phase>>

INVOICE_FINALIZED == "InvoiceFinalized"

-----------------------------------------------------------------------------
(* Services *)

NoServices ==
    [hosted |-> <<>>, subscriptions |-> <<>>, databases |-> {}, checks |-> <<>>, meters |-> {},
     caches |-> {}, queues |-> {}, gates |-> {}, limiters |-> {}, identity |-> FALSE,
     dispatchers |-> <<>>]

AddHostedService(service, s) == [s EXCEPT !.hosted = Append(@, service)]
AddModuleMeter(module, s)    == [s EXCEPT !.meters = @ \cup {module}]
AddRateLimitPolicy(name, s)  == [s EXCEPT !.limiters = @ \cup {name}]
AddModuleGate(module, s)     == [s EXCEPT !.gates = @ \cup {module}]
AddIdentity(s)               == [s EXCEPT !.identity = TRUE]

AddModuleDatabase(module, s) ==
    [s EXCEPT !.databases = @ \cup {module}, !.checks = Append(@, module)]

AddModuleCache(module, s) == AddModuleMeter(module, [s EXCEPT !.caches = @ \cup {module}])

\* The queue, created once and hosted as it is created.
AddModuleWorkQueue(module, s) ==
    IF module \in s.queues THEN s
    ELSE AddHostedService([kind |-> "queue", module |-> module],
            AddModuleMeter(module, [s EXCEPT !.queues = @ \cup {module}]))

AddIntegrationEventHandler(event, module, s) ==
    [s EXCEPT !.subscriptions = Append(@, [event |-> event, module |-> module])]

AddEventPublisher(module, s) == AddModuleMeter(module, s)

\* A dispatcher shares the lists; seen is how long the subscriptions were then.
AddOutboxDispatcher(module, events, s) ==
    LET queued     == AddModuleMeter(module, AddModuleWorkQueue(module, s))
        dispatcher == [kind |-> "dispatcher", module |-> module, publishes |-> events,
                       seen |-> Len(queued.subscriptions)]
    IN  AddHostedService([kind |-> "dispatcher", module |-> module],
            [queued EXCEPT !.dispatchers = Append(@, dispatcher)])

\* Mutant: the subscriptions there were when the dispatcher was built.
ForEvent_Snapshot(event, dispatcher, s) ==
    {i \in 1..dispatcher.seen : s.subscriptions[i].event = event}

\* EventSubscriptions.for_event, read per batch: the positions of the handlers.
ForEvent(event, dispatcher, s) ==
    {i \in DOMAIN s.subscriptions : s.subscriptions[i].event = event}

-----------------------------------------------------------------------------
(* register_services, by module *)

RegisterAdministration(s) ==
    AddIntegrationEventHandler(INVOICE_FINALIZED, "Administration",
        AddModuleMeter("Administration", AddRateLimitPolicy("Administration",
            AddModuleCache("Administration", AddModuleDatabase("Administration", s)))))

RegisterIdentity(s) == AddModuleMeter("Identity", AddRateLimitPolicy("Identity", AddIdentity(s)))

RegisterCatalog(s) ==
    AddIntegrationEventHandler(INVOICE_FINALIZED, "Catalog",
        AddModuleMeter("Catalog", AddRateLimitPolicy("Catalog",
            AddModuleCache("Catalog", AddModuleDatabase("Catalog", s)))))

RegisterOrders(s) ==
    AddOutboxDispatcher("Orders", {INVOICE_FINALIZED}, AddEventPublisher("Orders",
        AddModuleMeter("Orders", AddRateLimitPolicy("Orders",
            AddModuleCache("Orders", AddModuleDatabase("Orders", s))))))

RegisterReporting(s) ==
    AddHostedService([kind |-> "job", module |-> "Reporting"],
        AddModuleWorkQueue("Reporting", AddModuleGate("Reporting",
            AddRateLimitPolicy("Reporting", AddModuleMeter("Reporting",
                AddModuleDatabase("Reporting", s))))))

RegisterServices(module, s) ==
    CASE module = "Administration" -> RegisterAdministration(s)
      [] module = "Identity"       -> RegisterIdentity(s)
      [] module = "Catalog"        -> RegisterCatalog(s)
      [] module = "Orders"         -> RegisterOrders(s)
      [] module = "Reporting"      -> RegisterReporting(s)

MapEndpoints(module) ==
    CASE module = "Administration" -> AdministrationEndpoints
      [] module = "Identity"       -> IdentityEndpoints
      [] module = "Catalog"        -> CatalogEndpoints
      [] module = "Orders"         -> OrdersEndpoints
      [] module = "Reporting"      -> ReportingEndpoints

-----------------------------------------------------------------------------
(* The startup check *)

\* The constraints are dropped, and routes compare without case.
NormalizedRoute(e) ==
    [i \in DOMAIN e.path |->
        IF e.path[i] \in DOMAIN Lowered THEN Lowered[e.path[i]] ELSE Pattern(e.path)[i]]

FindDuplicateRoutes(endpoints) ==
    {e \in endpoints : \E f \in endpoints \ {e} :
        NormalizedRoute(e) = NormalizedRoute(f) /\ e.method = f.method}

\* Two handlers for one method of one pattern.
Overlap(endpoints) ==
    \E e \in endpoints : \E f \in endpoints \ {e} :
        Pattern(e.path) = Pattern(f.path) /\ e.method = f.method

\* NoPolicies, on a host without Identity, knows none.
FindUnknownPolicies(endpoints, s) ==
    {policy \in UNION {Range(e.policies) : e \in endpoints} : ~(s.identity /\ IsRegistered(policy))}

-----------------------------------------------------------------------------
CompositionInit ==
    /\ environment \in Environments
    /\ unregistered \in Orderings
    /\ registered = {}
    \* configure_services adds the root endpoint's policy.
    /\ services = AddRateLimitPolicy("Root", NoServices)
    /\ mapped = {}
    /\ mistake \in {{}} \cup {{e} : e \in Mistakes}
    /\ phase = "registering"

Register ==
    /\ phase = "registering"
    /\ unregistered # <<>>
    /\ services' = RegisterServices(Head(unregistered), services)
    /\ registered' = registered \cup {Head(unregistered)}
    /\ unregistered' = Tail(unregistered)
    /\ UNCHANGED <<environment, mapped, mistake, phase>>

\* A connection string is missing, or the key provider is unusable.
RegisterFails ==
    /\ phase = "registering"
    /\ unregistered # <<>>
    /\ phase' = "refused"
    /\ UNCHANGED <<environment, unregistered, registered, services, mapped, mistake>>

\* What module HostStart models in full: done, or failed.
MigrateAndSeed ==
    /\ phase = "registering"
    /\ unregistered = <<>>
    /\ \/ phase' = "mapping"
       \/ MigratesOnStartup(environment) /\ phase' = "refused"
    /\ UNCHANGED <<environment, unregistered, registered, services, mapped, mistake>>

\* The router panics on an overlap.
Map ==
    /\ phase = "mapping"
    /\ mapped' = RootEndpoints \cup mistake \cup (UNION {MapEndpoints(m) : m \in registered})
    /\ phase' = IF Overlap(mapped') THEN "refused" ELSE "checking"
    /\ UNCHANGED <<environment, unregistered, registered, services, mistake>>

Check ==
    /\ phase = "checking"
    /\ phase' = IF ValidatesEndpoints(environment)
                      /\ FindDuplicateRoutes(mapped) \cup FindUnknownPolicies(mapped, services) # {}
                THEN "refused" ELSE "serving"
    /\ UNCHANGED <<environment, unregistered, registered, services, mapped, mistake>>

CompositionNext == Register \/ RegisterFails \/ MigrateAndSeed \/ Map \/ Check

CompositionSpec == CompositionInit /\ [][CompositionNext]_compositionVars

-----------------------------------------------------------------------------
(* Properties *)

Submitters(module) == {i \in DOMAIN services.hosted : services.hosted[i].module = module
                                                      /\ services.hosted[i].kind # "queue"}
Queues(module)     == {i \in DOMAIN services.hosted : services.hosted[i].module = module
                                                      /\ services.hosted[i].kind = "queue"}

\* Whatever order the modules register in, a host that serves is whole.  A
\* dispatcher delivers to every module that subscribed and finds the database
\* its inbox is in; a queue runs once, started before what submits to it;
\* every database has its one health check; every limiter an endpoint names is
\* there; each endpoint is reached at its own path, shadowed by none; and
\* where the startup check runs no caller can meet an unknown policy, nor two
\* endpoints that differ in the case of their routes.
WiringIsComplete ==
    phase = "serving" =>
        /\ \A i \in DOMAIN services.dispatchers :
              LET dispatcher == services.dispatchers[i]
              IN  \A event \in dispatcher.publishes :
                    LET reached == {services.subscriptions[n].module :
                                       n \in ForEvent(event, dispatcher, services)}
                    IN  /\ reached = {"Administration", "Catalog"}
                        /\ reached \subseteq services.databases
        /\ \A module \in services.queues :
              /\ Cardinality(Queues(module)) = 1
              /\ \A q \in Queues(module), i \in Submitters(module) : q < i
        /\ \A module \in services.databases :
              Cardinality({i \in DOMAIN services.checks : services.checks[i] = module}) = 1
        /\ \A e \in mapped :
              /\ e.tag \in services.limiters
              /\ {f \in Routed(mapped, Pattern(e.path)) : f.method = e.method} = {e}
              /\ ValidatesEndpoints(environment) =>
                    /\ \A policy \in Range(e.policies) :
                          Evaluate(policy, [permissions |-> {}, roles |-> {}, tenant |-> NoTenant],
                                   NoTenant) # "unknown"
                    /\ \A f \in mapped \ {e} :
                          e.method = f.method => NormalizedRoute(e) # NormalizedRoute(f)
=============================================================================
