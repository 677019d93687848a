----------------------------- MODULE MCTraffic ------------------------------
(***************************************************************************)
(* Instances of RateLimiter and Pipeline small enough for TLC, side by side: *)
(* part says whose steps a behaviour takes, so that one run explores the   *)
(* two, one after the other.                                               *)
(***************************************************************************)
EXTENDS RateLimiter, Pipeline, TLC

VARIABLE part

TrafficInit ==
    /\ Init /\ PipelineInit
    /\ part \in {"limiter", "pipeline"}
    \* One initial state of the part that takes no step.
    /\ part = "limiter" => host.name = "catalog-host"

TrafficNext ==
    /\ UNCHANGED part
    /\ \/ part = "limiter" /\ Next /\ UNCHANGED pipelineVars
       \/ part = "pipeline" /\ PipelineNext /\ UNCHANGED vars

TrafficSpec == TrafficInit /\ [][TrafficNext]_<<vars, pipelineVars, part>>

-----------------------------------------------------------------------------
(* RateLimiter *)

CONSTANTS here, there, h1, h2, h3, h4, h5, t1

\* Five requests from one address, and one from another, which may sweep.
TwoAddresses == (h1 :> here) @@ (h2 :> here) @@ (h3 :> here) @@ (h4 :> here)
                @@ (h5 :> here)
                @@ (t1 :> there)

HereSymmetry == Permutations({h1, h2, h3, h4, h5})

-----------------------------------------------------------------------------
(* Pipeline *)

MCHosts == [name : {"monolith"}, environment : {"Development", "Production"}]
             \cup [name : {"catalog-host"}, environment : {"Production"}]

Signed(claims) == [signed |-> TRUE, typ |-> "JWT", claims |-> claims]

All == <<"catalog.read", "catalog.write", "orders.read", "orders.write", "admin.users.manage",
         "administration.read", "administration.write", "report.view">>

Login(username, password, userId, permissions, roles, tenant) ==
    [username |-> username, password |-> password, userId |-> userId,
     permissions |-> permissions, roles |-> roles, tenant |-> tenant]

\* Ann three times: the second is the one kept, the third has no password.
MCUsers ==
    <<Login("ann", "old", "1", All, <<"Admin">>, "t1"),
      Login(" Ann ", "new", "1", All, <<"Admin", " ">>, "t1"),
      Login("ann", " ", "1", <<>>, <<>>, ""),
      Login("bob", "secret", "2", <<"catalog.read", " report.view">>, <<>>, "t1"),
      Login("eve", "secret", "3", All, <<"Admin", "Clerk">>, " "),
      Login("nobody", "secret", "", All, <<"Admin">>, "t1")>>

MCTrimmed == " Ann " :> "Ann" @@ " " :> "" @@ " report.view" :> "report.view"

MCLowercase == [name \in {"Ann", "ANN", "BOB"} |-> IF name = "BOB" THEN "bob" ELSE "ann"]

Issued(name) == Signed(AccessTokenClaims(FromRecords(MCUsers)[name]))

Everything == Issued("ann").claims

Forged == [Issued("ann") EXCEPT !.signed = FALSE]

Tokens == {Forged} \cup {Issued(name) : name \in {"ann", "bob", "eve"}}

\* At the edges of the skew, for another audience, about nobody, of another type.
OddTokens == {Signed([Everything EXCEPT !.exp = -30]), Signed([Everything EXCEPT !.exp = -31]),
              Signed([Everything EXCEPT !.nbf = 30]), Signed([Everything EXCEPT !.nbf = 31]),
              Signed([Everything EXCEPT !.aud = {"another"}]),
              Signed([Everything EXCEPT !.sub = "blank"]),
              [Signed(Everything) EXCEPT !.typ = "other"]}

Trace(id, ok) == [id |-> id, wellFormed |-> ok]

\* A path that fits the template, and one a constraint rejects.
Paths(path) ==
    {[i \in DOMAIN path |-> CASE path[i] = IntId  -> "1"
                              [] path[i] = GuidId -> "guid"
                              [] path[i] = Param  -> "v1"
                              [] OTHER            -> path[i]],
     [i \in DOMAIN path |-> IF path[i] \in {IntId, GuidId} THEN "abc" ELSE path[i]]}

Asked(username, password, userId) ==
    [username |-> username, password |-> password, userId |-> userId]

\* In another case, with a password that was replaced or is another's, untrimmed.
Credentials ==
    {Asked("ANN", "new", "1"), Asked("ann", "old", "1"), Asked("BOB", "secret", "2"),
     Asked("bob", "new", "4"), Asked(" Ann ", "new", "2")}

Plain(method, path) ==
    [method |-> method, path |-> path, scheme |-> "none", token |-> Forged,
     tenant |-> NoTenant, body |-> "valid", traceparent |-> Trace("caller", TRUE),
     credentials |-> Asked("nobody", "secret", "1")]

Bodies(e) == IF e.validates
             THEN {"valid", "invalid", "garbled", "untyped", "mistyped", "large"} ELSE {"valid"}

MCRequests ==
    LET served  == UNION {Served(h) : h \in Hosts}
        junk(r) == [r EXCEPT !.traceparent = Trace("junk", FALSE)]
        looked  == {e \in served : e.name \in {"IdentityLogin", "IdentityRefresh"}}
        odd     == {e \in served : e.name \in {"GetAllAlbums", "IdentityUserInfo"}}
    IN  {Plain("GET", <<"nowhere">>)}
        \cup UNION {{Plain(method, path) : method \in {"OPTIONS", "PATCH"}, path \in Paths(e.path)} :
                        e \in served}
        \cup UNION {{junk([Plain(e.method, path) EXCEPT !.scheme = "Bearer", !.token = token,
                                                       !.tenant = tenant, !.body = body]) :
                        path \in Paths(e.path), token \in Tokens,
                        tenant \in {NoTenant, "t1", "t2"}, body \in Bodies(e)} : e \in served}
        \cup UNION {{[Plain(e.method, path) EXCEPT !.scheme = scheme, !.token = token] :
                        path \in Paths(e.path), token \in OddTokens \cup {Signed(Everything)},
                        scheme \in {"none", "Bearer", "Bearer Bearer", "Bearer bearer"}} : e \in odd}
        \cup UNION {{[Plain(e.method, e.path) EXCEPT !.credentials = credentials] :
                        credentials \in Credentials} : e \in looked}
=============================================================================
