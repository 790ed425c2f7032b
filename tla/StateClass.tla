----------------------------- MODULE StateClass -----------------------------
(***************************************************************************)
(* State classes and their instances (attributes/state.py).  A program     *)
(* defines its classes in order; an instance is then made by a call, from  *)
(* a mapping or from JSON, and replaced by updated, remapped and decoded   *)
(* ones.  "call" is the last operation: what it was given and returned.    *)
(***************************************************************************)
EXTENDS AttributeResolution, AttributeSpecification

CONSTANTS
    Program,   \* the names of the classes in the order of their definitions
    Inputs,    \* for each class, the mappings that instances are made from
    Updates,   \* for each class, the keyword arguments of an update, in order
    MaxCalls   \* how many operations follow the first

VARIABLES
    heap,      \* the classes that are defined, the TypedDicts, the aliases
    pending,   \* the classes that are not defined yet
    instance,  \* the State that the last operation that succeeded returned
    call,      \* the last operation, its arguments and its result
    calls      \* how many operations there were

vars == <<heap, pending, instance, call, calls>>

NoCall == [op |-> "none", class |-> NoName, given |-> None, before |-> None,
           result |-> Returns(None)]

Init ==
    /\ heap = [classes |-> <<>>, typeddicts |-> <<>>, aliases |-> <<>>]
    /\ pending = Program
    /\ instance = None
    /\ call = NoCall
    /\ calls = 0

(***************************************************************************)
(* StateMeta: resolution of the attributes, fields, JSON schema.           *)
(***************************************************************************)
Inherited(h, c) ==
    LET class == Classes[c]
        parent == IF class.parent = NoName THEN NoName ELSE class.parent
        from == IF parent = NoName
                THEN [fields |-> <<>>, schema |-> EmptyObject, origin |-> NoName, args |-> <<>>]
                ELSE h.classes[parent]
        specialized == class.origin # NoName
    IN [parent |-> parent, fields |-> from.fields, schema |-> from.schema,
        origin |-> IF specialized THEN class.origin ELSE from.origin,
        args |-> IF specialized THEN class.args ELSE from.args]

\* One more field of the schema: one that has none is left out, or, when it is
\* required, leaves the class without a schema.
WithField(built, key, required, schema) ==
    IF built.type = "no" \/ \E s \in Within(schema) : s.type = "error"
    THEN [built EXCEPT !.type = IF built.type # "no" THEN "error" ELSE @]
    ELSE IF schema.type = "no" THEN IF required THEN NoSchema ELSE built
    ELSE ObjectSchema(Append(built.of.keys, key), Append(built.items, schema),
                      built.of.required \cup IF required THEN {key} ELSE {})

ClassSchema(h, fields) ==
    FoldLeft(LAMBDA built, field :
                 WithField(built, FieldKey(h, field), FieldRequired(h, field),
                           type_specification(h, field.annotation)),
             EmptyObject, fields)

\* Two fields of one name, or one with the alias of another.
Ambiguous(names) == \E i, j \in DOMAIN names : i < j /\ names[i] = names[j]
NamesAndAliases(h, fields) ==
    LET With(name, alias) == IF alias = NoName THEN <<name>> ELSE <<name, alias>>
    IN FlattenSeq([i \in DOMAIN fields |-> With(fields[i].name, FieldAlias(h, fields[i]))])

Fields(c, attributes) ==
    [i \in DOMAIN attributes |->
        [name |-> attributes[i].name, annotation |-> attributes[i].annotation,
         default |-> IF attributes[i].name \in DOMAIN Classes[c].defaults
                     THEN Classes[c].defaults[attributes[i].name] ELSE NoDefault]]

\* The class is made, or refused, which leaves what was there.
Accepted(h, known, c, fields, schema) ==
    IF \/ Ambiguous(NamesAndAliases(known, fields))
       \/ schema.type = "error" \/ (schema.type = "no" /\ Classes[c].serializable)
    THEN h
    ELSE [known EXCEPT !.classes[c] = [@ EXCEPT !.fields = fields, !.schema = schema]]

WithAttributes(h, making, c, s) ==
    LET known == [making EXCEPT !.typeddicts = s.typeddicts, !.aliases = s.aliases]
        fields == Fields(c, s.attributes)
    IN IF s.failed THEN h ELSE Accepted(h, known, c, fields, ClassSchema(known, fields))

Defined(h, c) ==
    LET making == [h EXCEPT !.classes = (c :> Inherited(h, c)) @@ @]
    IN WithAttributes(h, making, c, resolve_self_attribute(making, c))

Define ==
    /\ pending # <<>>
    /\ heap' = Defined(heap, Head(pending))
    /\ pending' = Tail(pending)
    /\ UNCHANGED <<instance, call, calls>>

(***************************************************************************)
(* Mappings of an instance and its update.                                 *)
(***************************************************************************)
Keys(h) == [c \in DOMAIN h.classes |->
               [name \in {h.classes[c].fields[i].name : i \in DOMAIN h.classes[c].fields} |->
                    LET i == CHOOSE i \in DOMAIN h.classes[c].fields :
                                 h.classes[c].fields[i].name = name
                    IN FieldKey(h, h.classes[c].fields[i])]]

RECURSIVE _recursive_mapping(_, _)

\* A mapping by alias, without what is missing.
to_mapping(h, v, recursive) ==
    LET keys == Keys(h)[v[2]]
        present == {f \in DOMAIN v[3] : v[3][f] # MISSING}
        Under(k) == v[3][CHOOSE f \in present : Str(keys[f]) = k]
    IN <<"dict", [k \in {Str(keys[f]) : f \in present} |->
             IF recursive THEN _recursive_mapping(h, Under(k)) ELSE Under(k)]>>

_recursive_mapping(h, v) ==
    CASE TypeOf(v) = "state" -> to_mapping(h, v, TRUE)
      [] IsMapping(v) -> <<"dict", [k \in DOMAIN v[2] |-> _recursive_mapping(h, v[2][k])]>>
      [] IsIterable(v) /\ ~IsMapping(v) ->
           <<"list", [i \in DOMAIN Elements(v) |-> _recursive_mapping(h, Elements(v)[i])]>>
      [] OTHER -> v

to_json(h, v) ==
    IF Encodable(v) THEN Returns(Decoded(Keys(h), v)) ELSE Raises("ValueError")
AsValueError(r) == IF r.ok THEN r ELSE Raises("ValueError")
from_json(h, c, r) ==
    IF r.ok THEN AsValueError(ValidState(h, c, r.value)) ELSE Raises("ValueError")

\* All the instances, or the ValueError that the first failure is turned into.
from_json_array(h, c, json) ==
    IF TypeOf(json) # "list" THEN Raises("ValueError")
    ELSE AsValueError(Collected([i \in DOMAIN json[2] |-> ValidState(h, c, json[2][i])]))

\* A defect: an update is a call with what the instance wrote and the updates.
Updated_Rebuilt(h, v, kwargs) ==
    LET written == to_mapping(h, v, FALSE)[2]
        named == {kwargs[i][1] : i \in DOMAIN kwargs}
    IN Constructed(h, v[2],
           [k \in named |-> kwargs[Max({i \in DOMAIN kwargs : kwargs[i][1] = k})][2]] @@ written)

\* Of the keys that a class knows the last one for a field counts; MISSING keeps
\* what the field has.
Updated(h, v, kwargs) ==
    LET fields == h.classes[v[2]].fields
        Named(field) == {i \in DOMAIN kwargs :
                             kwargs[i][1] \in {Str(field.name), Str(FieldKey(h, field))}}
        update(field) == IF Named(field) = {} THEN MISSING ELSE kwargs[Max(Named(field))][2]
    IN InstanceOf(h, v[2], Collected([i \in DOMAIN fields |->
           IF update(fields[i]) = MISSING THEN Returns(v[3][fields[i].name])
           ELSE In(<<"field", fields[i].name>>, ValidField(h, fields[i], update(fields[i])))]))

(***************************************************************************)
(* Operations.                                                             *)
(***************************************************************************)
Called(op, c, given, r) ==
    /\ pending = <<>>
    /\ calls <= MaxCalls
    /\ calls' = calls + 1
    /\ call' = [op |-> op, class |-> c, given |-> given, before |-> instance, result |-> r]
    /\ instance' = IF r.ok THEN r.value ELSE instance
    /\ UNCHANGED <<heap, pending>>

\* cls(**mapping)
Construct ==
    /\ calls = 0
    /\ \E c \in DOMAIN heap.classes : \E m \in Inputs[c] :
           Called("construct", c, m, Constructed(heap, c, m[2]))

\* cls.from_mapping(mapping)
FromMapping ==
    /\ calls = 0
    /\ \E c \in DOMAIN heap.classes : \E m \in Inputs[c] :
           Called("from_mapping", c, m, ValidState(heap, c, m))

\* cls.from_json(text of the mapping)
FromJSON ==
    /\ calls = 0
    /\ \E c \in DOMAIN heap.classes : \E m \in Inputs[c] :
           Encodable(m) /\ LET json == Decoded(Keys(heap), m)
                           IN Called("from_json", c, json, from_json(heap, c, Returns(json)))

Updating ==
    /\ instance # None
    /\ \E kwargs \in Updates[instance[2]] :
           Called("updating", instance[2], <<"kwargs", kwargs>>, Updated(heap, instance, kwargs))

\* cls.from_mapping(instance.to_mapping(recursive))
Remap ==
    /\ instance # None
    /\ \E recursive \in BOOLEAN :
           LET mapping == to_mapping(heap, instance, recursive)
           IN Called("remap", instance[2], mapping, ValidState(heap, instance[2], mapping))

\* cls.from_json(instance.to_json())
Decode ==
    /\ instance # None
    /\ LET json == to_json(heap, instance)
       IN Called("decode", instance[2], IF json.ok THEN json.value ELSE None,
                 from_json(heap, instance[2], json))

\* cls.from_json_array(an array of twice the same), of which the last is taken
DecodeArray ==
    /\ instance # None
    /\ Encodable(instance)
    /\ LET json == to_json(heap, instance).value
           LastOne(r) == IF r.ok THEN Returns(Last(r.value)) ELSE r
       IN Called("decode_array", instance[2], json,
                 LastOne(from_json_array(heap, instance[2], <<"list", <<json, json>>>>)))

Next == Define \/ Construct \/ FromMapping \/ FromJSON
            \/ Updating \/ Remap \/ Decode \/ DecodeArray
Spec == Init /\ [][Next]_vars

(***************************************************************************)
(* Properties.                                                             *)
(***************************************************************************)
FieldsOf(c) == ToSet(heap.classes[c].fields)

\* What a value of an annotated type is made of, each part with its annotation.
Parts(a, v) ==
    CASE a.class = "Tuple" -> {<<a.items[i], v[2][i]>> : i \in DOMAIN a.items}
      [] a.class \in {"Sequence", "Set"} -> {<<a.items[1], e>> : e \in ToSet(Elements(v))}
      [] a.class = "Mapping" ->
           UNION {{<<a.items[1], k>>, <<a.items[2], v[2][k]>>} : k \in DOMAIN v[2]}
      [] a.class = "Meta" /\ IsMapping(v) -> {<<a, v[2][k]>> : k \in DOMAIN v[2]}
      [] a.class = "Meta" /\ IsSequence(v) -> {<<a, e>> : e \in ToSet(v[2])}
      [] a.class = "TypedDict" ->
           {<<n.annotation, v[2][Str(n.name)]>> :
                n \in {n \in ToSet(heap.typeddicts[a.base]) : Str(n.name) \in DOMAIN v[2]}}
      [] a.class = "Object" -> {<<field.annotation, v[3][field.name]>> : field \in FieldsOf(v[2])}
      [] a.class = "Validable" -> {<<a.items[1], v>>}
      [] a.class = "Alias" -> {<<heap.aliases[a.base], v>>}
      [] OTHER -> {}

\* Nothing that can be changed is left in it, but in what the annotation calls
\* Any; a value of a union is so by one of the alternatives that it is of.
RECURSIVE Frozen(_, _)
Frozen(a, v) ==
    CASE a.class = "Any" -> TRUE
      [] a.class = "Union" ->
           \E i \in DOMAIN a.items : Checked(heap, a.items[i], v) /\ Frozen(a.items[i], v)
      [] OTHER ->
           /\ TypeOf(v) \notin {"list", "set", "dict"}
           /\ \A part \in Parts(a, v) : Frozen(part[1], part[2])


(***************************************************************************)
(* What comes back from JSON.  A value survives unless its type gives way: *)
(* MISSING is not written, so a default takes its place; an alternative    *)
(* that comes first takes what was written for a later one; a datetime in  *)
(* a date does not read as a date; keys become texts; Any keeps what JSON  *)
(* made of a value; and an object that is not behind validate, as Self is, *)
(* keeps an attribute by its alias as by its name.                         *)
(***************************************************************************)
RECURSIVE Survives(_, _)
Survives(a, v) ==
    CASE a.class = "Any" -> TypeOf(v) \in {"none", "bool", "int", "float", "str"}
      [] a.class = "date" -> TypeOf(v) = "date"
      [] a.class = "Union" ->
           LET json == Decoded(Keys(heap), v)
               fits == {i \in DOMAIN a.items : Checked(heap, a.items[i], v)}
               first == Min({i \in DOMAIN a.items : Validated(heap, a.items[i], json).ok}
                            \cup {Len(a.items) + 1})
           IN first \in fits /\ Survives(a.items[first], v)
      [] a.class \in {"Sequence", "Set"} ->
           \A i \in DOMAIN Elements(v) : Survives(a.items[1], Elements(v)[i])
      [] a.class = "Tuple" -> \A i \in DOMAIN v[2] : Survives(a.items[i], v[2][i])
      [] a.class = "Mapping" ->
           \A k \in DOMAIN v[2] : TypeOf(k) = "str" /\ Survives(a.items[2], v[2][k])
      [] a.class = "Meta" -> \A k \in DOMAIN v[2] : TypeOf(k) = "str"
      [] a.class = "TypedDict" ->
           \A n \in ToSet(heap.typeddicts[a.base]) :
               Str(n.name) \in DOMAIN v[2] => Survives(n.annotation, v[2][Str(n.name)])
      [] a.class = "Object" ->
           /\ v[2] = a.base
           /\ \A field \in FieldsOf(v[2]) :
                  IF v[3][field.name] = MISSING THEN Default(field) = MISSING
                  ELSE Survives(field.annotation, v[3][field.name])
      [] a.class = "Validable" -> Survives(a.items[1], v)
      [] a.class = "Alias" -> Survives(heap.aliases[a.base], v)
      [] OTHER -> TRUE

(* Of an instance that can be written, every attribute that survives comes *)
(* back as it was from its mapping, plain or recursive, and from its JSON. *)
RoundTrip ==
    /\ call.op \in {"remap", "decode", "decode_array"}
    /\ Encodable(call.before)
    /\ Survives(ObjectAttribute(call.class), call.before)
    => call.result.ok /\ Equal(call.result.value, call.before)

(***************************************************************************)
(* The schema of a class and its validation are two readings of the same   *)
(* annotations, by different code.  They agree on attributes that say all  *)
(* about themselves in their type: not on what a function verifies, on the *)
(* format of texts, on numbers of an enum, which JSON may write as 1.0, on  *)
(* MISSING, which the schema calls null, on a tuple                        *)
(* that is too short, nor on Any, which the schema calls an object.        *)
(***************************************************************************)
RECURSIVE Plain(_)
Plain(a) ==
    /\ a.class \in {"None", "bool", "int", "float", "str", "Literal", "StrEnum",
                     "Sequence", "Mapping", "Union", "Validable"}
    /\ a.verifying = NoName
    /\ a.class = "Mapping" => a.items[1].class = "str"
    /\ a.class = "Validable" =>
           /\ a.base \in DOMAIN heap.classes
           /\ \A field \in FieldsOf(a.base) : Plain(field.annotation)
    /\ a.class # "Validable" => \A i \in DOMAIN a.items : Plain(a.items[i])

Schematic(field, schema, json) ==
    \E i \in DOMAIN schema.of.keys :
        /\ schema.of.keys[i] = FieldKey(heap, field)
        /\ Accepts(schema, schema.items[i], json[2][Str(FieldKey(heap, field))])

(* What an instance writes for a plain attribute is accepted by the schema *)
(* of its class, and JSON that the schema accepts makes an instance unless *)
(* it fails at an attribute that is not plain.                             *)
SchemaAgrees ==
    LET schema == heap.classes[call.class].schema
        reading == ValidState(heap, call.class, call.given)
    IN /\ call.op = "decode" /\ Encodable(call.before) /\ schema.type # "no" =>
              \A field \in FieldsOf(call.class) :
                  Plain(field.annotation) => Schematic(field, schema, call.given)
       /\ /\ call.op = "from_json" /\ ~call.result.ok /\ schema.type # "no"
          /\ Accepts(schema, schema, call.given)
          => /\ reading.path # <<>>
             /\ \E field \in FieldsOf(call.class) :
                    reading.path[1] = <<"field", field.name>> /\ ~Plain(field.annotation)

(***************************************************************************)
(* An update changes the attributes that it names and no others, whatever  *)
(* else is among its arguments, and an instance is never changed by what   *)
(* fails.                                                                  *)
(***************************************************************************)
NamesOf(kwargs) == {kwargs[i][1] : i \in DOMAIN kwargs}
UpdateTouchesOnlyNamed ==
    [][call'.op = "updating" =>
        \A field \in FieldsOf(instance[2]) :
            LET names == {Str(field.name), Str(FieldKey(heap, field))}
            IN \/ instance'[3][field.name] = instance[3][field.name]
               \/ /\ names \cap NamesOf(call'.given[2]) # {}
                  /\ call'.result.ok
                  /\ \E i \in DOMAIN call'.given[2] :
                        /\ call'.given[2][i][1] \in names
                        /\ Constructed(heap, instance[2],
                               (Str(FieldKey(heap, field)) :> call'.given[2][i][2])
                               @@ to_mapping(heap, instance, FALSE)[2]).value[3][field.name]
                           = instance'[3][field.name]]_vars
=============================================================================
