------------------------------- MODULE Config -------------------------------
(***************************************************************************)
(* How a host's configuration is loaded (shared-kernel's config.rs): the   *)
(* JSON files, in Development and Demo the user secrets, and then the      *)
(* environment's variables, each read into a value and laid over what was  *)
(* merged before.  A later layer overrides one member of one element of an *)
(* array and leaves the rest.                                              *)
(*                                                                         *)
(* A value is a scalar, an object (a function from keys), an array or      *)
(* null.  A document is a set of entries [path, value] that are written    *)
(* under distinct keys; a path of several keys is one key joined by colons *)
(* (in a file) or double underscores (in a variable's name).  The          *)
(* variables come in an arbitrary order, the one the process got them in.  *)
(***************************************************************************)
EXTENDS Integers, Sequences, FiniteSets, SequencesExt, Folds, HostEnvironment

CONSTANTS
    HostEnvironments,
    Files,      \* of each JSON layer, the documents it may hold
    Variables,  \* documents the environment may hold, of scalars
    Lower,      \* the keys, and what each is without capitals
    Index       \* the keys that are numbers, and the numbers

Scalar(text)    == [kind |-> "scalar", text |-> text]
Object(members) == [kind |-> "object", members |-> members]
Array(items)    == [kind |-> "array", items |-> items]
Null            == [kind |-> "null"]
Empty           == Object(<<>>)

VARIABLES
    hostEnvironment,
    ahead,       \* the layers still to read
    documents,   \* what was read, lowest layer first
    variables,   \* the entries of the environment not inserted yet
    inserted,    \* the environment's layer so far
    merged,
    progress     \* "reading", "variables", "loaded" or "failed"

configVars == <<hostEnvironment, ahead, documents, variables, inserted, merged, progress>>

-----------------------------------------------------------------------------
(* Values *)

Put(members, key, value) ==
    [k \in DOMAIN members \cup {key} |-> IF k = key THEN value ELSE members[k]]

Members(value) == IF value.kind = "object" THEN value.members ELSE <<>>

\* insert_at: what is in the way of a longer path is replaced by an object.
RECURSIVE InsertPath(_, _, _)
InsertPath(members, path, value) ==
    IF Len(path) = 1 THEN Put(members, Head(path), value)
    ELSE LET child == IF Head(path) \in DOMAIN members THEN Members(members[Head(path)]) ELSE <<>>
         IN  Put(members, Head(path), Object(InsertPath(child, Tail(path), value)))

\* merge_at: two objects that meet at the end of the path are merged.
RECURSIVE MergeAt(_, _, _)
MergeAt(members, path, value) ==
    LET key   == Head(path)
        child == IF key \in DOMAIN members THEN members[key] ELSE Null
    IN  IF Len(path) > 1
        THEN Put(members, key, Object(MergeAt(Members(child), Tail(path), value)))
        ELSE IF child.kind = "object" /\ value.kind = "object"
        THEN Put(members, key,
                 Object([k \in DOMAIN child.members \cup DOMAIN value.members |->
                     MergeAt(child.members, <<k>>,
                             IF k \in DOMAIN value.members THEN value.members[k]
                                                           ELSE child.members[k])[k]]))
        ELSE Put(members, key, value)

\* The keys are 0..n-1, each once.
AsIndexSequence(members) ==
    /\ DOMAIN members # {}
    /\ DOMAIN members \subseteq DOMAIN Index
    /\ {Index[k] : k \in DOMAIN members} = 0..(Cardinality(DOMAIN members) - 1)

RECURSIVE NumericMapsToArrays(_)
NumericMapsToArrays(value) ==
    CASE value.kind = "object" ->
            LET converted == [k \in DOMAIN value.members |-> NumericMapsToArrays(value.members[k])]
                At(i)     == CHOOSE k \in DOMAIN converted : Index[k] = i - 1
            IN  IF AsIndexSequence(converted)
                THEN Array([i \in 1..Cardinality(DOMAIN converted) |-> converted[At(i)]])
                ELSE Object(converted)
      [] value.kind = "array" ->
            Array([i \in DOMAIN value.items |-> NumericMapsToArrays(value.items[i])])
      [] OTHER -> value

LowerPath(path) == [i \in DOMAIN path |-> Lower[path[i]]]

RECURSIVE LowercaseKeys(_)
LowercaseKeys(value) ==
    CASE value.kind = "object" ->
            LET keys == SetToSeq(DOMAIN value.members)
                AddKey(members, key) == MergeAt(members, LowerPath(<<key>>),
                                                LowercaseKeys(value.members[key]))
            IN  NumericMapsToArrays(Object(FoldLeft(AddKey, <<>>, keys)))
      [] value.kind = "array" -> Array([i \in DOMAIN value.items |-> LowercaseKeys(value.items[i])])
      [] OTHER -> value

\* read_json_layer: the top level's keys may be joined by colons.
ReadJsonLayer(document) ==
    LET Entry(members, entry) == MergeAt(members, LowerPath(entry.path), LowercaseKeys(entry.value))
    IN  NumericMapsToArrays(Object(FoldLeft(Entry, <<>>, SetToSeq(document))))

\* Mutant: a section, or an array, replaces the one below it.
MergeLayer_Shallow(base, layer) ==
    IF base.kind = "object" /\ layer.kind = "object"
    THEN Object([k \in DOMAIN base.members \cup DOMAIN layer.members |->
             IF k \in DOMAIN layer.members THEN layer.members[k] ELSE base.members[k]])
    ELSE layer

\* merge_layer: member by member, element by element, and a sparse map of
\* indices addresses the elements of an array.
RECURSIVE MergeLayer(_, _)
MergeLayer(base, layer) ==
    LET Item(value, i) == IF i \in DOMAIN value.items THEN value.items[i] ELSE Null
    IN  CASE base.kind = "object" /\ layer.kind = "object" ->
                Object([k \in DOMAIN base.members \cup DOMAIN layer.members |->
                    IF k \notin DOMAIN layer.members THEN base.members[k]
                    ELSE IF k \notin DOMAIN base.members THEN layer.members[k]
                    ELSE MergeLayer(base.members[k], layer.members[k])])
          [] base.kind = "array" /\ layer.kind = "array" ->
                Array([i \in DOMAIN base.items \cup DOMAIN layer.items |->
                    IF i \notin DOMAIN layer.items THEN base.items[i]
                    ELSE IF i \notin DOMAIN base.items THEN layer.items[i]
                    ELSE MergeLayer(base.items[i], layer.items[i])])
          [] base.kind = "array" /\ layer.kind = "object"
                /\ DOMAIN layer.members # {} /\ DOMAIN layer.members \subseteq DOMAIN Index ->
                LET named == {Index[k] + 1 : k \in DOMAIN layer.members}
                    At(i) == layer.members[CHOOSE k \in DOMAIN layer.members : Index[k] + 1 = i]
                    length == CHOOSE n \in named \cup {Len(base.items)} :
                                  \A m \in named \cup {Len(base.items)} : m <= n
                IN  Array([i \in 1..length |->
                        IF i \in named THEN MergeLayer(Item(base, i), At(i)) ELSE Item(base, i)])
          [] OTHER -> layer

\* value_at: a key of a section, or an index of an array; "absent" if neither.
RECURSIVE ValueAt(_, _)
ValueAt(value, path) ==
    IF path = <<>> THEN value
    ELSE CASE value.kind = "object" /\ Head(path) \in DOMAIN value.members ->
                 ValueAt(value.members[Head(path)], Tail(path))
           [] value.kind = "array" /\ Head(path) \in DOMAIN Index
                 /\ Index[Head(path)] < Len(value.items) ->
                 ValueAt(value.items[Index[Head(path)] + 1], Tail(path))
           [] OTHER -> Null

\* A section is no string.
GetString(value, key) ==
    LET found == ValueAt(value, LowerPath(key))
    IN  IF found.kind = "scalar" THEN found ELSE Null

-----------------------------------------------------------------------------
\* load_layers.
Layers(name) ==
    <<"appsettings.json", "appsettings.{environment}.json">>
        \o IF ExposesOperationalMetadata(name) THEN <<"secrets.json">> ELSE <<>>

ConfigInit ==
    /\ hostEnvironment \in HostEnvironments
    /\ ahead = Layers(hostEnvironment)
    /\ documents = <<>> /\ merged = Empty
    /\ variables = {} /\ inserted = <<>>
    /\ progress = "reading"

\* A file that is not there is no layer.
ReadLayer ==
    /\ progress = "reading"
    /\ ahead # <<>>
    /\ \/ UNCHANGED <<documents, merged>>
       \/ \E document \in Files[Head(ahead)] :
             /\ documents' = Append(documents, document)
             /\ merged' = MergeLayer(merged, ReadJsonLayer(document))
    /\ ahead' = Tail(ahead)
    /\ UNCHANGED <<hostEnvironment, variables, inserted, progress>>

\* The file cannot be read, or is no JSON.
ReadFails ==
    /\ progress = "reading"
    /\ ahead # <<>>
    /\ progress' = "failed"
    /\ UNCHANGED <<hostEnvironment, ahead, documents, variables, inserted, merged>>

ReadVariables ==
    /\ progress = "reading"
    /\ ahead = <<>>
    /\ \E document \in Variables :
          /\ variables' = document
          /\ documents' = Append(documents, document)
    /\ progress' = "variables"
    /\ UNCHANGED <<hostEnvironment, ahead, inserted, merged>>

Insert ==
    /\ progress = "variables"
    /\ \E entry \in variables :
          /\ inserted' = InsertPath(inserted, LowerPath(entry.path), entry.value)
          /\ variables' = variables \ {entry}
    /\ UNCHANGED <<hostEnvironment, ahead, documents, merged, progress>>

LayVariables ==
    /\ progress = "variables"
    /\ variables = {}
    /\ merged' = MergeLayer(merged, NumericMapsToArrays(Object(inserted)))
    /\ progress' = "loaded"
    /\ UNCHANGED <<hostEnvironment, ahead, documents, variables, inserted>>

ConfigNext == ReadLayer \/ ReadFails \/ ReadVariables \/ Insert \/ LayVariables

ConfigSpec == ConfigInit /\ [][ConfigNext]_configVars

-----------------------------------------------------------------------------
(* What the layers mean: the scalars of each document, by their whole path *)

RECURSIVE Leaves(_, _)
Leaves(path, value) ==
    CASE value.kind = "scalar" -> {[path |-> path, value |-> value]}
      [] value.kind = "object" ->
            UNION {Leaves(Append(path, Lower[k]), value.members[k]) : k \in DOMAIN value.members}
      [] value.kind = "array" ->
            UNION {Leaves(Append(path, CHOOSE k \in DOMAIN Index : Index[k] = i - 1), value.items[i]) :
                       i \in DOMAIN value.items}
      [] OTHER -> {}

Flattened(document) == UNION {Leaves(LowerPath(entry.path), entry.value) : entry \in document}

Paths(document) == {leaf.path : leaf \in Flattened(document)}

\* The sections whose members a document writes by index, and the indices it has there.
Indices(document, section) ==
    {Index[p[Len(section) + 1]] :
        p \in {q \in Paths(document) : /\ Len(q) > Len(section)
                                       /\ SubSeq(q, 1, Len(section)) = section
                                       /\ q[Len(section) + 1] \in DOMAIN Index}}

Dense(indices) == indices = 0..(Cardinality(indices) - 1)

\* The lowest layer that writes elements of an array writes a whole prefix of it.
ArraysComeFirst ==
    LET all      == UNION {Paths(d) : d \in ToSet(documents)}
        sections == UNION {{SubSeq(p, 1, n) : n \in 0..(Len(p) - 1)} : p \in all}
    IN  \A section \in sections :
            LET writing == SelectSeq(documents, LAMBDA d : Indices(d, section) # {})
            IN  writing # <<>> => Dense(Indices(Head(writing), section))

\* A path that one layer gives a value is no section of another.
NoPathIsASection ==
    LET all == UNION {Paths(d) : d \in ToSet(documents)}
    IN  \A p, q \in all : ~IsStrictPrefix(p, q)

\* Once loaded, a key reads as the last layer that gives its whole path a
\* value, however the layers write it (an array, a sparse map of indices, a
\* key joined by colons), whatever the case, and in whatever order the
\* variables came.
LayersResolve ==
    progress = "loaded" /\ ArraysComeFirst /\ NoPathIsASection =>
        \A p \in UNION {Paths(d) : d \in ToSet(documents)} :
            LET writing == SelectSeq(documents, LAMBDA d : p \in Paths(d))
            IN  \A leaf \in Flattened(Last(writing)) :
                    leaf.path = p => GetString(merged, p) = leaf.value
=============================================================================
