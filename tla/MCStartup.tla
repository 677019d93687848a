----------------------------- MODULE MCStartup ------------------------------
(***************************************************************************)
(* Instances of Config, Composition and HostStart small enough for TLC, side *)
(* by side: part says whose steps a behaviour takes, so that one run       *)
(* explores the three, one after the other.  The fairness is HostStart's: a *)
(* behaviour of another part is none of a host's.                          *)
(***************************************************************************)
EXTENDS HostStart, Composition, Config, TLC

CONSTANTS h1, h2, h3

VARIABLE part

StartupInit ==
    /\ HostInit /\ CompositionInit /\ ConfigInit
    /\ part \in {"hosts", "composition", "configuration"}
    \* One initial state of the parts that take no step.
    /\ part # "hosts" => setting[h3].provider = "Dev"
    /\ part # "composition" =>
          environment = "Production" /\ mistake = {} /\ unregistered[1] = "Reporting"
              /\ \A i \in 1..3 : unregistered[i + 1] = <<"Orders", "Catalog", "Identity">>[i]
    /\ part # "configuration" => hostEnvironment = "Production"

StartupNext ==
    /\ UNCHANGED part
    /\ \/ part = "hosts" /\ HostNext /\ UNCHANGED <<compositionVars, configVars>>
       \/ part = "composition" /\ CompositionNext /\ UNCHANGED <<hostVars, configVars>>
       \/ part = "configuration" /\ ConfigNext /\ UNCHANGED <<hostVars, compositionVars>>

StartupSpec == StartupInit /\ [][StartupNext]_<<hostVars, compositionVars, configVars, part>>

StartupFairSpec == StartupSpec /\ HostFairness

-----------------------------------------------------------------------------
(* HostStart *)

Order == <<"administration", "catalog", "reporting">>

TwoOfCatalog == [s \in Range(Order) |-> IF s = "catalog" THEN 2 ELSE 1]

ReportingReadsTheRest ==
    [s \in Range(Order) |-> IF s = "reporting" THEN Range(Order) \ {s} ELSE {}]

Dev  == [environment |-> "Development", migrates |-> TRUE, provider |-> "Dev",
         connection |-> TRUE]
Prod == [Dev EXCEPT !.environment = "Production", !.provider = "Pem"]

StartedAs == h1 :> {Dev} @@ h2 :> {[Dev EXCEPT !.environment = "Demo"]}
               @@ h3 :> {Prod, [Prod EXCEPT !.provider = "Dev"]}

OnePort == [h \in Hosts |-> IF h = h3 THEN 1 ELSE IF h = h2 THEN 2 ELSE 1]

-----------------------------------------------------------------------------
(* Composition *)

MCOrderings == {f \in [1..5 -> {"Administration", "Identity", "Catalog", "Orders", "Reporting"}] :
                   \A i, j \in 1..5 : f[i] = f[j] => i = j}

Albums == <<"api", "catalog", "albums">>

MCMistakes ==
    {Mapped("Catalog", "GET", Albums, "Twice"),
     Mapped("Catalog", "GET", [Albums EXCEPT ![3] = "Albums"], "Cased"),
     RequireAuthorization(<<"music.read">>, Mapped("Catalog", "POST", Albums, "Renamed"))}

MCLowered == [segment \in {"Albums"} |-> "albums"]

-----------------------------------------------------------------------------
(* Config *)

MCIndex == [k \in {"0", "1"} |-> IF k = "0" THEN 0 ELSE 1]

MCLower == [k \in {"0", "1", "Users", "USERS", "users", "Name", "name", "Password", "password"} |->
               CASE k \in {"Users", "USERS"} -> "users"
                 [] k = "Name"               -> "name"
                 [] k = "Password"           -> "password"
                 [] OTHER                    -> k]

Flat(section, author) ==
    {[path |-> p, value |-> Scalar(author)] :
        p \in {<<section, "0", "Name">>, <<section, "0", "Password">>, <<section, "1", "Password">>}}

Login(members, author) == Object([m \in members |-> Scalar(author)])

\* One array, of two logins or of one.
Listed(author) ==
    {{[path |-> <<"Users">>,
       value |-> Array(<<Login({"Name", "Password"}, author), Login({"Name"}, author)>>)]},
     {[path |-> <<"Users">>, value |-> Array(<<Login({"Name"}, author)>>)]}}

MCFiles ==
    [layer \in {"appsettings.json", "appsettings.{environment}.json", "secrets.json"} |->
        (SUBSET Flat("Users", layer) \ {{}}) \cup Listed(layer)]

\* And a variable that names the section itself.
MCVariables == SUBSET (Flat("USERS", "variable") \cup {[path |-> <<"USERS">>, value |-> Scalar("none")]})
=============================================================================
