------------------------------- MODULE Contract -------------------------------
(***************************************************************************)
(* benzene-core and the client generator: the Contract Document derived    *)
(* from the types of a service's topics (contract_schema.py, contract.py), *)
(* the projection its hashes are taken of (contract_hash.py) and the part  *)
(* of it a topic's client is generated from (topic_scope.py,               *)
(* schema_closure.py).                                                     *)
(*                                                                         *)
(* A type is a dataclass ("record"), a pydantic model, a RootModel or an   *)
(* enum, with the component name it claims and one field (of a RootModel:  *)
(* its root).  A hash is the projection itself.                            *)
(***************************************************************************)
EXTENDS Naturals, Sequences, SequencesExt, FiniteSets

CONSTANTS TypeOrder,        \* the types, by qualified name
          Worlds,           \* their declarations: type -> [kind, name, field]
          TopicsOf          \* the topics: topic -> [member, type]

VARIABLES world,
          components,       \* _components: type -> schema, its references by type (tokens)
          entries,          \* topic -> the schema that schema() returned for it
          document,         \* [entries, schemas], its references by name
          contractPhase,    \* "deriving", "derived" or "collision"
          client            \* topic_projection's document, for one topic

contractVars == <<world, components, entries, document, contractPhase, client>>

Types == ToSet(TypeOrder)
Topics == DOMAIN TopicsOf
NoSchemas == [t \in {} |-> t]

\* A Schema Object; via says which keyword holds the schemas inside.
Schema(type, via, inside) ==
    [type |-> type, format |-> "", nullable |-> FALSE, ref |-> "", via |-> via, inside |-> inside]
Open == Schema("", "", <<>>)
Ref(target) == [Open EXCEPT !.ref = target]
NoClient == [topic |-> "", entry |-> Open, schemas |-> NoSchemas]

Put(map, key, value) == [k \in DOMAIN map \cup {key} |-> IF k = key THEN value ELSE map[k]]

-----------------------------------------------------------------------------
(* Derivation. *)

\* Fault: a dataclass inside a model is named like any other.
NoOneShapeNever(t, inModel) == FALSE

\* pydantic dumps it under the model's own aliases.
NoOneShape(t, inModel) == inModel /\ world[t].kind = "record"

\* _ref_type; a RootModel is inline.
RefType(t) == CASE world[t].kind = "enum" -> "string" [] world[t].kind = "root" -> ""
                [] world[t].kind \in {"record", "model"} -> "object"

\* _nullable: a reference is wrapped, the open schema admits null already.
Nullable(schema, refType) ==
    CASE schema = Open -> Open
      [] schema # Open /\ refType # "" /\ schema.ref # "" -> [Schema(refType, "allOf", <<schema>>) EXCEPT !.nullable = TRUE]
      [] OTHER -> [schema EXCEPT !.nullable = TRUE]

Primitive(shape) == CASE shape = "date" -> [Schema("string", "", <<>>) EXCEPT !.format = "date"]
                      [] shape = "str" -> Schema("string", "", <<>>)

\* _derive of a field, and _component, _root_model and the records of the type it names:
\* [schema, components].  A component is entered before its own fields are derived, a
\* RootModel that is being expanded is cut where it occurs again.
RECURSIVE Derive(_, _, _, _)
Derive(field, comps, inModel, roots) ==
    LET t == field.of
        Named == IF t \in DOMAIN comps THEN [schema |-> Ref(t), components |-> comps]
                 ELSE IF world[t].kind = "enum"
                 THEN [schema |-> Ref(t), components |-> Put(comps, t, Schema("string", "enum", <<>>))]
                 ELSE LET r == Derive(world[t].field, Put(comps, t, Open), inModel \/ world[t].kind = "model", roots)
                      IN  [schema |-> Ref(t),
                           components |-> Put(r.components, t, Schema("object", "properties", <<r.schema>>))]
        Type == CASE world[t].kind = "root" ->
                       IF t \in roots THEN [schema |-> Open, components |-> comps]
                       ELSE Derive(world[t].field, comps, TRUE, roots \cup {t})
                  [] NoOneShape(t, inModel) -> [schema |-> Open, components |-> comps]
                  [] world[t].kind # "root" /\ ~NoOneShape(t, inModel) -> Named
    IN  CASE field.shape \in {"date", "str"} -> [schema |-> Primitive(field.shape), components |-> comps]
          [] field.shape = "ref" -> Type
          [] field.shape = "list" -> [Type EXCEPT !.schema = Schema("array", "items", <<@>>)]
          [] field.shape = "optional" -> [Type EXCEPT !.schema = Nullable(@, RefType(t))]

ContractStart ==
    /\ components = NoSchemas /\ entries = NoSchemas
    /\ document = [entries |-> NoSchemas, schemas |-> NoSchemas]
    /\ contractPhase = "deriving" /\ client = NoClient

ContractInit == world \in Worlds /\ ContractStart

\* SchemaCatalogue.schema: the requests in the order they were registered, then the
\* events, then the sends, each in the order it was declared.
Precedence == <<"requests", "events", "sends">>
Turn(topic) == CHOOSE i \in DOMAIN Precedence : Precedence[i] = TopicsOf[topic].member

DeriveEntry(topic) ==
    /\ contractPhase = "deriving" /\ topic \notin DOMAIN entries
    /\ \A other \in Topics : Turn(other) < Turn(topic) => other \in DOMAIN entries
    /\ LET r == Derive([shape |-> "ref", of |-> TopicsOf[topic].type], components, FALSE, {}) IN
       entries' = Put(entries, topic, r.schema) /\ components' = r.components
    /\ UNCHANGED <<world, document, contractPhase, client>>

-----------------------------------------------------------------------------
(* Normal forms, and names. *)

\* _is_cut_nullable_reference
CutNullable(schema, expanding) ==
    schema.via = "allOf" /\ schema.nullable /\ schema.inside[1].ref \in expanding

\* _normalize: dereferenced, cut where a reference is being expanded, without formats.
RECURSIVE Normalize(_, _, _)
Normalize(schema, catalogue, expanding) ==
    CASE schema.ref # "" ->
            IF schema.ref \in expanding THEN Open
            ELSE IF schema.ref \notin DOMAIN catalogue THEN Open
            ELSE Normalize(catalogue[schema.ref], catalogue, expanding \cup {schema.ref})
      [] schema.ref = "" /\ CutNullable(schema, expanding) -> Open
      [] OTHER -> [schema EXCEPT !.format = "",
                                 !.inside = [i \in DOMAIN @ |-> Normalize(@[i], catalogue, expanding)]]

Members(name) == SelectSeq(TypeOrder, LAMBDA t : t \in DOMAIN components /\ world[t].name = name)
Names == {world[t].name : t \in DOMAIN components}

\* Fault: the schemas are compared as they were derived.
CollidedVerbatim ==
    \E name \in Names : \E i \in DOMAIN Members(name) :
        components[Members(name)[i]] # components[Members(name)[1]]

\* finish: a name is shared by types with one normal form, and the first's schema kept.
Collided ==
    \E name \in Names : \E i \in DOMAIN Members(name) :
        Normalize(components[Members(name)[i]], components, {})
            # Normalize(components[Members(name)[1]], components, {})

RECURSIVE Rename(_)
Rename(schema) ==
    IF schema.ref # "" THEN [schema EXCEPT !.ref = world[@].name]
    ELSE [schema EXCEPT !.inside = [i \in DOMAIN @ |-> Rename(@[i])]]

Finish ==
    /\ contractPhase = "deriving" /\ DOMAIN entries = Topics
    /\ IF Collided THEN contractPhase' = "collision" /\ UNCHANGED document
       ELSE /\ contractPhase' = "derived"
            /\ document' = [entries |-> [t \in Topics |-> Rename(entries[t])],
                            schemas |-> [n \in Names |-> Rename(components[Members(n)[1]])]]
    /\ UNCHANGED <<world, components, entries, client>>

-----------------------------------------------------------------------------
(* The client of one topic. *)

\* Fault: the wrapper of a nullable reference is not looked into.
RECURSIVE ReachableOutsideAllOf(_, _, _)
ReachableOutsideAllOf(schema, catalogue, reached) ==
    IF schema.ref # ""
    THEN IF schema.ref \in reached \/ schema.ref \notin DOMAIN catalogue THEN reached
         ELSE ReachableOutsideAllOf(catalogue[schema.ref], catalogue, reached \cup {schema.ref})
    ELSE IF schema.via = "allOf" THEN reached
    ELSE FoldLeft(LAMBDA acc, s : ReachableOutsideAllOf(s, catalogue, acc), reached, schema.inside)

\* reachable_names
RECURSIVE reachable_names(_, _, _)
reachable_names(schema, catalogue, reached) ==
    IF schema.ref # ""
    THEN IF schema.ref \in reached \/ schema.ref \notin DOMAIN catalogue THEN reached
         ELSE reachable_names(catalogue[schema.ref], catalogue, reached \cup {schema.ref})
    ELSE FoldLeft(LAMBDA acc, s : reachable_names(s, catalogue, acc), reached, schema.inside)

\* topic_projection: of a request, with the schemas it reaches.
GenerateClient(topic) ==
    /\ contractPhase = "derived" /\ client = NoClient /\ TopicsOf[topic].member = "requests"
    /\ client' = [topic |-> topic, entry |-> document.entries[topic],
                  schemas |-> LET reached == reachable_names(document.entries[topic], document.schemas, {})
                              IN  [n \in reached |-> document.schemas[n]]]
    /\ UNCHANGED <<world, components, entries, document, contractPhase>>

ContractNext == Finish \/ \E topic \in Topics : DeriveEntry(topic) \/ GenerateClient(topic)

-----------------------------------------------------------------------------
(* What the types say, without tokens, names or an order of derivation. *)

After(t) == IF world[t].kind # "enum" /\ world[t].field.shape \notin {"date", "str"} THEN {world[t].field.of} ELSE {}
Beyond(t) == LET one == After(t)
                 two == UNION {After(x) : x \in one}
             IN  one \cup two \cup UNION {After(x) : x \in two}
OnCycle(t) == t \in Beyond(t)
Used == UNION {{TopicsOf[topic].type} \cup Beyond(TopicsOf[topic].type) : topic \in Topics}

\* The JSON that is written for a field, followed through depth named types.
RECURSIVE Written(_, _, _)
Written(field, inModel, depth) ==
    LET t == field.of
        Inside == CASE world[t].kind = "root" -> Written(world[t].field, TRUE, depth)
                    [] inModel /\ world[t].kind = "record" -> Open
                    [] world[t].kind = "enum" -> Schema("string", "enum", <<>>)
                    [] OTHER -> IF depth = 0 THEN Open
                                ELSE Schema("object", "properties",
                                            <<Written(world[t].field, inModel \/ world[t].kind = "model", depth - 1)>>)
        InsideNamed == world[t].kind # "root" /\ ~(inModel /\ world[t].kind = "record")
    IN  CASE field.shape \in {"date", "str"} -> Primitive(field.shape)
          [] field.shape = "ref" -> Inside
          [] field.shape = "list" -> Schema("array", "items", <<Inside>>)
          [] field.shape = "optional" /\ InsideNamed ->
                [Schema(RefType(t), "allOf", <<Inside>>) EXCEPT !.nullable = TRUE]
          [] field.shape = "optional" /\ ~InsideNamed -> IF Inside = Open THEN Open ELSE [Inside EXCEPT !.nullable = TRUE]

\* What a reader of the document makes of a schema, as deep.
RECURSIVE Read(_, _)
Read(schema, depth) ==
    IF schema.ref # ""
    THEN LET target == document.schemas[schema.ref] IN
         IF target.via # "properties" THEN target
         ELSE IF depth = 0 THEN Open
         ELSE [target EXCEPT !.inside = [i \in DOMAIN @ |-> Read(@[i], depth - 1)]]
    ELSE [schema EXCEPT !.inside = [i \in DOMAIN @ |-> Read(@[i], depth)]]

RECURSIVE Plain(_)
Plain(schema) == [schema EXCEPT !.format = "", !.inside = [i \in DOMAIN @ |-> Plain(@[i])]]

NamesDistinct == \A t, u \in DOMAIN components : t # u => world[t].name # world[u].name
RootsUnfold == \A t \in Used : world[t].kind = "root" => ~OnCycle(t)
Depth == 4
Payload(topic) == [shape |-> "ref", of |-> TopicsOf[topic].type]

\* An optional field of a RootModel that stands for a named type gets "nullable" beside
\* "$ref", where no reader of OpenAPI 3.0 and not the hash looks.
NullBesideRef == \E t \in Used : /\ After(t) # {} /\ world[t].field.shape = "optional"
                                 /\ world[world[t].field.of].kind = "root"
                                 /\ world[world[t].field.of].field.shape = "ref"

Described(topic) == Read(document.entries[topic], Depth) = Written(Payload(topic), FALSE, Depth)
DescribedPlainly(topic) ==
    Plain(Read(document.entries[topic], Depth)) = Plain(Written(Payload(topic), FALSE, Depth))

\* Whatever order the topics were registered in and however types share components, the
\* document describes the JSON that is written for each of them, formats included unless
\* a name is shared.  Excepted are a RootModel that contains itself, whose derivation
\* depends on the order, types that share a name and are recursive, and NullBesideRef.
DocumentDescribesPayloads ==
    contractPhase = "derived" /\ RootsUnfold /\ ~NullBesideRef =>
        \A topic \in Topics :
            IF NamesDistinct THEN Described(topic)
            ELSE (\A t \in Used : ~OnCycle(t)) => DescribedPlainly(topic)

\* A component name is refused just when two types that claim it are written
\* differently: no type is described by another one's schema, and none is refused for a
\* difference that is not one of the JSON.
CollisionsExact ==
    contractPhase # "deriving" /\ ~NullBesideRef /\ (\A t \in Used : ~OnCycle(t)) =>
        (contractPhase = "collision") =
            (\E t, u \in DOMAIN components :
                 /\ world[t].name = world[u].name
                 /\ Plain(Written([shape |-> "ref", of |-> t], FALSE, Depth))
                        # Plain(Written([shape |-> "ref", of |-> u], FALSE, Depth)))

\* The document a topic's client is generated from has the hash of that topic in the
\* service's own: every schema that the hash is taken of is in it, and its drift check
\* compares like with like.
ClientHashAgrees ==
    client # NoClient =>
        Normalize(client.entry, client.schemas, {}) =
            Normalize(document.entries[client.topic], document.schemas, {})

\* ContractDocument.derive tells the truth about the JSON of every topic, refuses just
\* the names that would not, and a generated client's part of it has the same hash.
ContractFaithful == CollisionsExact /\ DocumentDescribesPayloads /\ ClientHashAgrees
=============================================================================
