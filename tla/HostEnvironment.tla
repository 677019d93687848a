-------------------------- MODULE HostEnvironment --------------------------
(***************************************************************************)
(* The kinds of environment a host runs in, and what a host does in which  *)
(* (shared-kernel's environment.rs).  A name is what from_name makes of the*)
(* process's variable, "Production" where that is unset; a name the code   *)
(* does not know is kept, and "Test" is such a name.                       *)
(***************************************************************************)

IsDevelopment(name) == name = "Development"
IsTest(name)        == name = "Test"

\* Migrate and seed before serving.
MigratesOnStartup(name) == IsDevelopment(name) \/ IsTest(name) \/ name = "Demo"

\* Refuse to start on an endpoint problem.
ValidatesEndpoints(name) == IsDevelopment(name) \/ IsTest(name)

\* Swagger, the users in memory, the development key.
ExposesOperationalMetadata(name) == name \in {"Development", "Demo"}
=============================================================================
