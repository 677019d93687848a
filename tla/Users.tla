------------------------------- MODULE Users --------------------------------
(***************************************************************************)
(* Identity's store of users (module-identity: options.rs, stores.rs and   *)
(* runtime.rs): what it makes of the logins a host is configured with, and *)
(* whom it finds.  It does not change while the host runs.                 *)
(*                                                                         *)
(* A record is a login as it is configured:                                *)
(*   [username, password, userId, tenant : STRING,                         *)
(*    permissions, roles : Seq(STRING)].                                   *)
(* "" is a member that is missing.  Two records may name one user, or one  *)
(* username in another case.                                               *)
(***************************************************************************)
EXTENDS Integers, Sequences, FiniteSetsExt, SequencesExt, HostEnvironment

CONSTANTS
    Trimmed,   \* the strings with space around them, and what they are without
    Lowercase  \* the strings with capitals, and what they are without

Trim(text)        == IF text \in DOMAIN Trimmed THEN Trimmed[text] ELSE text
ToLowercase(text) == IF text \in DOMAIN Lowercase THEN Lowercase[text] ELSE text
IsBlank(text)     == Trim(text) = ""

IsUsable(record) ==
    ~IsBlank(record.username) /\ ~IsBlank(record.password) /\ ~IsBlank(record.userId)

NonBlank(values) ==
    LET trimmed == [i \in DOMAIN values |-> Trim(values[i])]
        Kept(value) == value # ""
    IN  SelectSeq(trimmed, Kept)

\* What lookups are by: without case, and as loaded without space.
LoginName(record) == ToLowercase(Trim(record.username))

\* The password is left as it is written.
Loaded(record) ==
    [username |-> Trim(record.username), password |-> record.password,
     userId |-> Trim(record.userId), permissions |-> NonBlank(record.permissions),
     roles |-> NonBlank(record.roles), tenant |-> Trim(record.tenant)]

\* InMemoryUserStore::from_records.  Of two records of one name the later is kept.
FromRecords(records) ==
    LET usable == {i \in DOMAIN records : IsUsable(records[i])}
    IN  [name \in {LoginName(records[i]) : i \in usable} |->
            Loaded(records[Max({i \in usable : LoginName(records[i]) = name})])]

\* DisabledUserStore holds nobody.
Disabled == FromRecords(<<>>)

\* build_user_store.
UserStore(environment, records) ==
    IF ExposesOperationalMetadata(environment) THEN FromRecords(records) ELSE Disabled

\* At most one user; the username in the request is not trimmed.
ValidateCredentials(store, username, password) ==
    {store[name] : name \in {n \in DOMAIN store \cap {ToLowercase(username)} :
                                store[n].password = password}}

\* One of these, in the order of a hash map, if there are any.
FindById(store, userId) == {user \in Range(store) : user.userId = userId}
=============================================================================
