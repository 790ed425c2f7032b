----------------------- MODULE AttributeSpecification -----------------------
(***************************************************************************)
(* JSON schemas of attributes (attributes/specification.py), and which     *)
(* JSON data a schema accepts.  A schema is a record: its type, what the   *)
(* type is about, the schemas it is made of, and its $id.                  *)
(***************************************************************************)
EXTENDS AttributeAnnotations

Schema(type, of, items) == [type |-> type, of |-> of, items |-> items, id |-> <<>>]
NoSchema == Schema("no", <<>>, <<>>)
Basic(type) == Schema(type, <<>>, <<>>)
Reference(name) == Schema("$ref", name, <<>>)

\* properties: the key of each and its schema; a closed object with no others.
ObjectSchema(keys, schemas, required) ==
    Schema("object", [keys |-> keys, required |-> required], schemas)
EmptyObject == ObjectSchema(<<>>, <<>>, {})

RECURSIVE TypeName(_, _)
TypeName(h, a) ==
    CASE a.class = "Union" -> <<"|">> \o [i \in DOMAIN a.items |-> TypeName(h, a.items[i])]
      [] a.class = "Validable" -> TypeName(h, a.items[1])
      [] a.class = "Alias" -> <<a.base>>
      [] a.class \in {"Object", "TypedDict", "Custom"} -> <<a.base>>
      [] OTHER -> <<a.class>>

(***************************************************************************)
(* The schemas of the attributes that have no others inside.               *)
(***************************************************************************)
TextFormats == [UUID |-> "uuid", date |-> "date", datetime |-> "date-time",
                time |-> "time", Path |-> "path"]
BasicTypes == [None |-> "null", Missing |-> "null", bool |-> "boolean", int |-> "integer",
               float |-> "number", str |-> "string", Any |-> "any", Meta |-> "any"]

LiteralSchema(a) ==
    LET values == Literals[a.base]
    IN CASE \A v \in values : IsText(v) -> Schema("string enum", values, <<>>)
         [] \A v \in values : IsInt(v) -> Schema("integer enum", values, <<>>)
         [] OTHER -> Basic("error")

\* A defect: the names of the members instead of their texts.
StrEnumSchema_Names == Schema("string enum", {Str(m) : m \in DOMAIN StrMembers}, <<>>)
StrEnumSchema == Schema("string enum", {Str(StrMembers[m]) : m \in DOMAIN StrMembers}, <<>>)
IntEnumSchema == Schema("integer enum", {<<"int", IntMembers[m]>> : m \in DOMAIN IntMembers}, <<>>)

(***************************************************************************)
(* The schemas of the others.  "g" is the recursion guard: the attributes  *)
(* it holds and which of them a reference was made to.  A class that is    *)
(* being made still has the schema that it inherits.                       *)
(***************************************************************************)
RECURSIVE _specification(_, _, _)
RECURSIVE _all(_, _, _)
_all(h, attributes, g) ==
    LET With(schemas, r) == [schemas |-> Append(schemas, r.schema), g |-> r.g]
    IN FoldLeft(LAMBDA done, a : With(done.schemas, _specification(h, a, done.g)),
                [schemas |-> <<>>, g |-> g], attributes)

\* A schema of schemas, unless one of them is missing.
Composed(r, schema) ==
    LET missing == \E i \in DOMAIN r.schemas : r.schemas[i].type = "no"
    IN [schema |-> IF missing THEN NoSchema ELSE schema, g |-> r.g]

\* Alternatives that are no more than a type are one schema with those types.
UnionSchema(schemas) ==
    IF \A i \in DOMAIN schemas :
           schemas[i].type \in {"null", "string", "number", "integer", "boolean"}
           /\ schemas[i].id = <<>>
    THEN Schema("types", {schemas[i].type : i \in DOMAIN schemas}, <<>>)
    ELSE Schema("oneOf", <<>>, schemas)

TypedDictSchema(h, name, schemas) ==
    LET keys == h.typeddicts[name]
    IN ObjectSchema([i \in DOMAIN keys |-> keys[i].name], schemas,
                    {keys[i].name : i \in {j \in DOMAIN keys :
                                               RequiredOf(h, keys[j].annotation)}})

ComposedOf(h, a, r) ==
    Composed(r, CASE a.class = "Sequence" -> Schema("array", <<>>, r.schemas)
                  [] a.class = "Tuple" -> Schema("tuple", <<>>, r.schemas)
                  [] a.class = "Union" -> UnionSchema(r.schemas)
                  [] a.class = "Validable" -> r.schemas[1]
                  [] a.class = "Mapping" -> Schema("map", <<>>, r.schemas)
                  [] a.class = "TypedDict" -> TypedDictSchema(h, a.base, r.schemas))

Prepared(h, a, g) ==
    CASE a.class \in {"Sequence", "Tuple", "Union", "Validable", "Mapping", "TypedDict"} ->
           ComposedOf(h, a,
               _all(h, CASE a.class = "Mapping" -> <<a.items[2]>>
                         [] a.class = "TypedDict" -> [i \in DOMAIN h.typeddicts[a.base] |->
                                                         h.typeddicts[a.base][i].annotation]
                         [] OTHER -> a.items, g))
      [] a.class \in DOMAIN BasicTypes -> [schema |-> Basic(BasicTypes[a.class]), g |-> g]
      [] a.class \in DOMAIN TextFormats ->
           [schema |-> Schema("format", TextFormats[a.class], <<>>), g |-> g]
      [] a.class = "Literal" -> [schema |-> LiteralSchema(a), g |-> g]
      [] a.class = "StrEnum" -> [schema |-> StrEnumSchema, g |-> g]
      [] a.class = "IntEnum" -> [schema |-> IntEnumSchema, g |-> g]
      [] OTHER -> [schema |-> NoSchema, g |-> g]  \* bytes, sets, functions, objects

BaseClass(a) == IF a.class = "Validable" /\ a.items[1].class = "Object" THEN a.items[1].base
                ELSE IF a.class = "Object" THEN a.base ELSE NoName

Identified(r, a, name) ==
    IF a \in r.g.referenced /\ r.schema.type # "no"
    THEN [r EXCEPT !.schema.id = name] ELSE r

Left(a, r) == IF a \in r.g.referenced THEN r ELSE [r EXCEPT !.g.known = @ \ {a}]

\* What is in the guard is referred to.  A placeholder and a State class stay in
\* the guard for good, any other attribute only when it was referred to.
_specification(h, a, g) ==
    LET name == TypeName(h, a)
        entered == [g EXCEPT !.known = @ \cup {a}]
        target == Annotated(h.aliases[a.base], a.annotations)
        class == h.classes[BaseClass(a)].schema
    IN CASE a \in g.known ->
              [schema |-> Reference(name), g |-> [g EXCEPT !.referenced = @ \cup {a}]]
         [] a.class = "Alias" /\ ~a.resolved -> [schema |-> Basic("error"), g |-> g]
         [] a.class = "Alias" ->
              Identified(_specification(h, target, entered), a, name)
         [] BaseClass(a) # NoName /\ class.type # "no" -> [schema |-> class, g |-> entered]
         [] OTHER -> Identified(Left(a, Prepared(h, a, entered)), a, name)

\* A field has the schema its annotation was given, or the one of its type.
type_specification(h, a) ==
    IF SpecificationOf(h, a) # NoName THEN Schema("given", SpecificationOf(h, a), <<>>)
    ELSE _specification(h, a, [known |-> {}, referenced |-> {}]).schema

(***************************************************************************)
(* JSON Schema: the references of a schema and the data it accepts.        *)
(***************************************************************************)
RECURSIVE Within(_)
Within(s) == {s} \cup UNION {Within(s.items[i]) : i \in DOMAIN s.items}
Identifiers(s) == {t.id : t \in Within(s)} \ {<<>>}
References(s) == {t.of : t \in {u \in Within(s) : u.type = "$ref"}}

HasType(type, v) ==
    CASE type = "null" -> v = None
      [] type = "boolean" -> TypeOf(v) = "bool"
      [] type = "string" -> TypeOf(v) = "str"
      [] type = "integer" -> TypeOf(v) \in {"int", "float"} /\ Number(v) % 2 = 0
      [] type = "number" -> TypeOf(v) \in {"int", "float"}

RECURSIVE Accepts(_, _, _)
Accepts(root, s, v) ==
    CASE s.type \in {"null", "boolean", "string", "integer", "number"} -> HasType(s.type, v)
      [] s.type = "types" -> \E type \in s.of : HasType(type, v)
      [] s.type = "format" -> HasType("string", v)
      [] s.type = "string enum" -> \E e \in s.of : Equal(e, v)
      [] s.type = "integer enum" -> HasType("integer", v) /\ \E e \in s.of : Equal(e, v)
      [] s.type = "given" -> TRUE
      [] s.type = "any" -> IsMapping(v)
      [] s.type = "array" -> IsSequence(v) /\ \A i \in DOMAIN v[2] : Accepts(root, s.items[1], v[2][i])
      [] s.type = "tuple" ->
           /\ IsSequence(v) /\ Len(v[2]) <= Len(s.items)
           /\ \A i \in DOMAIN v[2] : Accepts(root, s.items[i], v[2][i])
      [] s.type = "map" -> IsMapping(v) /\ \A k \in DOMAIN v[2] : Accepts(root, s.items[1], v[2][k])
      [] s.type = "object" ->
           /\ IsMapping(v)
           /\ \A k \in s.of.required : Str(k) \in DOMAIN v[2]
           /\ \A k \in DOMAIN v[2] : \E i \in DOMAIN s.of.keys :
                  Str(s.of.keys[i]) = k /\ Accepts(root, s.items[i], v[2][k])
      [] s.type = "oneOf" ->
           Cardinality({i \in DOMAIN s.items : Accepts(root, s.items[i], v)}) = 1
      [] s.type = "$ref" ->
           \E t \in Within(root) : t.id = s.of /\ Accepts(root, t, v)
=============================================================================
