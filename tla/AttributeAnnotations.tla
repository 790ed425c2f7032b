------------------------ MODULE AttributeAnnotations ------------------------
(***************************************************************************)
(* The attributes that annotations resolve to (attributes/annotations.py): *)
(* how each class of attribute validates a value, converting it when it    *)
(* can, and what its check says of a value.                                *)
(*                                                                         *)
(* An attribute is a record.  The attributes it is made of are its items;  *)
(* its base is the name of the class, the Literal or the like that it is   *)
(* about; its id tells apart what is equal but not the same object.  What  *)
(* attributes share by reference, and so the recursive ones, is in a heap  *)
(* "h": the definition of every State class, the attributes of every       *)
(* TypedDict, the target of every type alias.                              *)
(***************************************************************************)
EXTENDS AttributeValues

CONSTANTS
    Literals,    \* the values of each Literal
    Rejected,    \* for each Verifier, the values for which it raises
    Validators,  \* for each Validator, the values it replaces and by what
    Environment  \* the environment variables that are set, and their texts

NoName == ""

(***************************************************************************)
(* The classes of attributes: their fields, and what they start with.      *)
(* Each class has its own copy of the same method annotated, which is the  *)
(* operator Annotated below.                                               *)
(***************************************************************************)
Attribute(class, base, items) ==
    [class |-> class, base |-> base, items |-> items, id |-> 0, alias |-> NoName,
     verifying |-> NoName, required |-> TRUE, specification |-> NoName]

AnyAttribute == Attribute("Any", NoName, <<>>)
MissingAttribute == [Attribute("Missing", NoName, <<>>) EXCEPT !.required = FALSE]
NoneAttribute == Attribute("None", NoName, <<>>)
BoolAttribute == Attribute("bool", NoName, <<>>)
IntegerAttribute == Attribute("int", NoName, <<>>)
FloatAttribute == Attribute("float", NoName, <<>>)
BytesAttribute == Attribute("bytes", NoName, <<>>)
UUIDAttribute == Attribute("UUID", NoName, <<>>)
StringAttribute == Attribute("str", NoName, <<>>)
DatetimeAttribute == Attribute("datetime", NoName, <<>>)
DateAttribute == Attribute("date", NoName, <<>>)
TimeAttribute == Attribute("time", NoName, <<>>)
PathAttribute == Attribute("Path", NoName, <<>>)
MetaAttribute == Attribute("Meta", NoName, <<>>)
StrEnumAttribute == Attribute("StrEnum", NoName, <<>>)
IntEnumAttribute == Attribute("IntEnum", NoName, <<>>)
FunctionAttribute == Attribute("Function", NoName, <<>>)
LiteralAttribute(name) == Attribute("Literal", name, <<>>)
TupleAttribute(values) == Attribute("Tuple", NoName, values)
SequenceAttribute(values) == Attribute("Sequence", NoName, <<values>>)
SetAttribute(values) == Attribute("Set", NoName, <<values>>)
MappingAttribute(keys, values) == Attribute("Mapping", NoName, <<keys, values>>)
UnionAttribute(alternatives) == Attribute("Union", NoName, alternatives)
ObjectAttribute(class) == Attribute("Object", class, <<>>)
TypedDictAttribute(name) == Attribute("TypedDict", name, <<>>)
CustomAttribute(class) == Attribute("Custom", class, <<>>)
ValidableAttribute(validating, attribute) ==
    Attribute("Validable", validating, <<attribute>>)

\* The placeholder of a type alias, before the alias is resolved.
AliasAttribute(alias, name) ==
    [class |-> "Alias", base |-> alias, type_alias |-> name, items |-> <<>>,
     annotations |-> <<>>, resolved |-> FALSE]

(***************************************************************************)
(* Annotated[...]: the last annotation of a kind wins; a Validator wraps   *)
(* the annotated attribute.  A Validable hands the annotations on to what  *)
(* it wraps, a placeholder keeps them, instead of the ones it had, for the *)
(* target it does not have yet.                                            *)
(***************************************************************************)
Annotation(kind, value) == [kind |-> kind, value |-> value]
NOT_REQUIRED == Annotation("required", FALSE)
LastOf(kind, annotations, otherwise) ==
    LET those == SelectSeq(annotations, LAMBDA n : n.kind = kind)
    IN IF those = <<>> THEN otherwise ELSE those[Len(those)].value

RECURSIVE Annotated(_, _)
Annotated(a, annotations) ==
    CASE a.class = "Alias" -> [a EXCEPT !.annotations = annotations]
      [] annotations = <<>> -> a
      [] a.class = "Validable" -> [a EXCEPT !.items = <<Annotated(@[1], annotations)>>]
      [] OTHER ->
           LET annotated ==
                   [a EXCEPT !.alias = LastOf("alias", annotations, @),
                             !.verifying = LastOf("verifier", annotations, @),
                             !.required = LastOf("required", annotations, @),
                             !.specification = LastOf("specification", annotations, @)]
               validating == LastOf("validator", annotations, NoName)
           IN IF validating = NoName THEN annotated
              ELSE ValidableAttribute(validating, annotated)

Verified(a, v) ==
    IF a.verifying # NoName /\ \E w \in Rejected[a.verifying] : Equal(v, w)
    THEN Raises("ValueError") ELSE Returns(v)

\* Of keys that become equal the first stays, with the last value.
Paired(pairs) ==
    LET Same(k) == {i \in DOMAIN pairs : Equal(pairs[i][1], k)}
        firsts == {i \in DOMAIN pairs : i = Min(Same(pairs[i][1]))}
    IN [k \in {pairs[i][1] : i \in firsts} |-> pairs[Max(Same(k))][2]]

\* What a verifier does with what another attribute, or the items, returned.
Reverified(a, r) == IF r.ok THEN Verified(a, r.value) ELSE r
Rebuilt(a, type, r) ==
    IF ~r.ok THEN r
    ELSE Verified(a, <<type, CASE type = "tuple" -> r.value
                               [] type = "frozenset" -> Distinct(r.value)
                               [] type = "map" -> Paired(r.value)>>)

\* The properties that a Validable takes from what it wraps, and a placeholder
\* from its annotations or from its target.  A placeholder is never without an
\* alias: it falls back on its own name.
RECURSIVE AliasOf(_, _)
AliasOf(h, a) ==
    CASE a.class = "Validable" -> AliasOf(h, a.items[1])
      [] a.class = "Alias" ->
           LET target == IF a.resolved THEN AliasOf(h, h.aliases[a.base]) ELSE NoName
               own == LastOf("alias", a.annotations, target)
           IN IF own = NoName THEN a.type_alias ELSE own
      [] OTHER -> a.alias

RECURSIVE SpecificationOf(_, _)
SpecificationOf(h, a) ==
    CASE a.class = "Validable" -> SpecificationOf(h, a.items[1])
      [] a.class = "Alias" ->
           LastOf("specification", a.annotations,
                  IF a.resolved THEN SpecificationOf(h, h.aliases[a.base]) ELSE NoName)
      [] OTHER -> a.specification

RECURSIVE RequiredOf(_, _)
RequiredOf(h, a) ==
    CASE a.class = "Validable" -> RequiredOf(h, a.items[1])
      [] a.class = "Alias" ->
           /\ LastOf("required", a.annotations, TRUE)
           /\ a.resolved => RequiredOf(h, h.aliases[a.base])
      [] OTHER -> a.required

(***************************************************************************)
(* Validation, one operator for each class: validate and what it returns   *)
(* or raises.                                                              *)
(***************************************************************************)
ValidMissing(a, v) == IF v = MISSING THEN Returns(v) ELSE Raises("TypeError")
ValidNone(a, v) == IF v = None THEN Verified(a, v) ELSE Raises("TypeError")

LiteralOf(a, v) == \E w \in Literals[a.base] : Equal(v, w)
ValidLiteral(a, v) == IF LiteralOf(a, v) THEN Verified(a, v) ELSE Raises("ValueError")

ValidBool(a, v) ==
    CASE TypeOf(v) = "bool" -> Verified(a, v)
      [] IsInt(v) /\ TypeOf(v) # "bool" -> Verified(a, Bool(Number(v) # 0))
      [] IsText(v) /\ Reads("bool", v) -> Verified(a, Bool(Read("bool", v)))
      [] OTHER -> Raises(IF IsText(v) THEN "ValueError" ELSE "TypeError")

ValidInteger(a, v) ==
    CASE TypeOf(v) # "bool" /\ IsInt(v) -> Verified(a, v)
      [] TypeOf(v) = "float" /\ Number(v) % 2 = 0 -> Verified(a, <<"int", Number(v)>>)
      [] OTHER -> Raises("TypeError")

ValidFloat(a, v) ==
    CASE TypeOf(v) = "float" -> Verified(a, v)
      [] TypeOf(v) # "bool" /\ IsInt(v) -> Verified(a, <<"float", Number(v)>>)
      [] OTHER -> Raises("TypeError")

ValidBytes(a, v) == IF TypeOf(v) = "bytes" THEN Verified(a, v) ELSE Raises("TypeError")
ValidString(a, v) == IF IsText(v) THEN Verified(a, v) ELSE Raises("TypeError")

\* A text is read as "type"; whatever fails on the way is a ValueError.
FromText(a, type, v) ==
    CASE IsText(v) /\ Reads(type, v) -> Verified(a, <<type, Read(type, v)>>)
      [] OTHER -> Raises(IF IsText(v) THEN "ValueError" ELSE "TypeError")

ValidUUID(a, v) == IF TypeOf(v) = "uuid" THEN Verified(a, v) ELSE FromText(a, "uuid", v)
ValidDatetime(a, v) ==
    IF TypeOf(v) = "datetime" THEN Verified(a, v) ELSE FromText(a, "datetime", v)
IsDate(v) == TypeOf(v) \in {"date", "datetime"}  \* a datetime is a date
ValidDate(a, v) == IF IsDate(v) THEN Verified(a, v) ELSE FromText(a, "date", v)
ValidTime(a, v) == IF TypeOf(v) = "time" THEN Verified(a, v) ELSE FromText(a, "time", v)

\* Every text is a path, some are written in another way than they were.
ValidPath(a, v) ==
    CASE TypeOf(v) = "path" -> Verified(a, v)
      [] IsText(v) ->
           Verified(a, <<"path", IF Reads("path", v) THEN Read("path", v) ELSE TextOf(v)>>)
      [] OTHER -> Raises("TypeError")

\* By value, else by name.
ValidStrEnum(a, v) ==
    LET named == {m \in DOMAIN StrMembers : m = TextOf(v)}
        valued == {m \in DOMAIN StrMembers :
                       /\ StrMembers[m] = TextOf(v)
                       /\ Verified(a, <<"strenum", m>>).ok}
        found == IF valued # {} THEN valued ELSE named
    IN CASE TypeOf(v) = "strenum" -> Verified(a, v)
         [] IsText(v) /\ found # {} -> Verified(a, <<"strenum", CHOOSE m \in found : TRUE>>)
         [] OTHER -> Raises(IF IsText(v) THEN "ValueError" ELSE "TypeError")

\* A number by value; a text by name, else as the number that it reads as.
ValidIntEnum(a, v) ==
    LET named == IF IsText(v) THEN {TextOf(v)} \cap DOMAIN IntMembers ELSE {}
        number == IF IsInt(v) THEN {Number(v)}
                  ELSE IF IsText(v) /\ Reads("int", v) THEN {Read("int", v)} ELSE {}
        valued == {m \in DOMAIN IntMembers : IntMembers[m] \in number}
        found == IF named # {} THEN named ELSE valued
    IN CASE TypeOf(v) = "intenum" -> Verified(a, v)
         [] TypeOf(v) # "intenum" /\ found # {} ->
              Verified(a, <<"intenum", CHOOSE m \in found : TRUE>>)
         [] OTHER -> Raises(IF IsInt(v) \/ IsText(v) THEN "ValueError" ELSE "TypeError")

ValidFunction(a, v) == IF TypeOf(v) = "callable" THEN Verified(a, v) ELSE Raises("TypeError")
IsCustom(a, v) == TypeOf(v) = "custom" /\ v[2] = a.base
ValidCustom(a, v) == IF IsCustom(a, v) THEN Verified(a, v) ELSE Raises("TypeError")

\* What a Meta may hold, and what it makes of it.
MetaOf(type, r) == IF r.ok THEN Returns(<<type, r.value>>) ELSE r
MetaEntries(results) ==
    LET failed == {k \in DOMAIN results : ~results[k].ok}
    IN IF failed = {} THEN Returns([k \in DOMAIN results |-> results[k].value])
       ELSE results[CHOOSE k \in failed : TRUE]

RECURSIVE MetaValue(_)
MetaValue(v) ==
    CASE TypeOf(v) \in {"none", "bool", "float"} \/ IsInt(v) \/ IsText(v) -> Returns(v)
      [] IsSequence(v) ->
           MetaOf("tuple", Collected([i \in DOMAIN v[2] |-> MetaValue(v[2][i])]))
      [] IsMapping(v) ->
           MetaOf("map", MetaEntries([k \in DOMAIN v[2] |-> MetaValue(v[2][k])]))
      [] OTHER -> Raises("TypeError")

ValidMeta(a, v) ==
    CASE TypeOf(v) = "meta" -> Verified(a, v)
      [] TypeOf(v) \in {"dict", "map"} ->
           Reverified(a, MetaOf("meta", MetaEntries([k \in DOMAIN v[2] |-> MetaValue(v[2][k])])))
      [] OTHER -> Raises("TypeError")

(***************************************************************************)
(* Instances of State classes.  A specialised generic class has an origin  *)
(* and arguments, which the subclasses of it inherit; an instance is       *)
(* checked by its attributes as soon as one of the two has an origin.      *)
(***************************************************************************)
RECURSIVE Checked(_, _, _)

RECURSIVE Ancestors(_, _)
Ancestors(h, c) ==
    {c} \cup IF h.classes[c].parent = NoName THEN {}
             ELSE Ancestors(h, h.classes[c].parent)

ArgumentAccepts(arg, of) ==
    arg = of \/ "Any" \in {arg, of} \/ (arg = "int" /\ of = "bool")

IsSubclass(h, c, sub) ==
    LET class == h.classes[c]
        args == h.classes[sub].args
    IN IF class.origin \in {NoName, c} \/ c = sub
       THEN c \in Ancestors(h, sub)
       ELSE /\ class.origin = (IF h.classes[sub].origin = NoName THEN sub
                               ELSE h.classes[sub].origin)
            /\ \A i \in DOMAIN class.args :
                   args # <<>> => ArgumentAccepts(class.args[i], args[i])

IsInstance(h, v, c) ==
    /\ TypeOf(v) = "state"
    /\ IsSubclass(h, c, v[2])
    /\ NoName # h.classes[c].origin \/ NoName # h.classes[v[2]].origin =>
         \A i \in DOMAIN h.classes[c].fields :
             LET field == h.classes[c].fields[i]
             IN Checked(h, field.annotation, v[3][field.name])

(***************************************************************************)
(* Check: no conversion, the type only.  A text is a sequence here, which  *)
(* it is not where a tuple or a sequence is validated.                     *)
(***************************************************************************)
CheckTuple(h, a, v) ==
    /\ IsSequence(v) \/ IsText(v)
    /\ Len(Elements(v)) = Len(a.items)
    /\ \A i \in DOMAIN a.items : Checked(h, a.items[i], Elements(v)[i])
CheckSequence(h, a, v) ==
    /\ IsSequence(v) \/ IsText(v)
    /\ \A i \in DOMAIN Elements(v) : Checked(h, a.items[1], Elements(v)[i])
CheckSet(h, a, v) == IsSet(v) /\ \A e \in v[2] : Checked(h, a.items[1], e)
CheckMapping(h, a, v) ==
    /\ IsMapping(v)
    /\ \A k \in DOMAIN v[2] :
           Checked(h, a.items[1], k) /\ Checked(h, a.items[2], v[2][k])
CheckTypedDict(h, a, v) ==
    /\ IsMapping(v)
    /\ \A i \in DOMAIN h.typeddicts[a.base] :
           LET key == Str(h.typeddicts[a.base][i].name)
               attribute == h.typeddicts[a.base][i].annotation
           IN \/ key \in DOMAIN v[2] /\ Checked(h, attribute, v[2][key])
              \/ ~RequiredOf(h, attribute)
CheckUnion(h, a, v) == \E i \in DOMAIN a.items : Checked(h, a.items[i], v)

Checked(h, a, v) ==
    CASE a.class = "Any" -> TRUE
      [] a.class = "Missing" -> v = MISSING
      [] a.class = "None" -> v = None
      [] a.class = "Literal" -> LiteralOf(a, v)
      [] a.class = "int" -> IsInt(v)
      [] a.class = "str" -> IsText(v)
      [] a.class \in {"bool", "float", "bytes", "datetime", "time"} -> TypeOf(v) = a.class
      [] a.class = "UUID" -> TypeOf(v) = "uuid"
      [] a.class = "date" -> IsDate(v)
      [] a.class = "Path" -> TypeOf(v) = "path"
      [] a.class = "Meta" -> TypeOf(v) = "meta"
      [] a.class = "StrEnum" -> TypeOf(v) = "strenum"
      [] a.class = "IntEnum" -> TypeOf(v) = "intenum"
      [] a.class = "Function" -> TypeOf(v) = "callable"
      [] a.class = "Custom" -> IsCustom(a, v)
      [] a.class = "Tuple" -> CheckTuple(h, a, v)
      [] a.class = "Sequence" -> CheckSequence(h, a, v)
      [] a.class = "Set" -> CheckSet(h, a, v)
      [] a.class = "Mapping" -> CheckMapping(h, a, v)
      [] a.class = "TypedDict" -> CheckTypedDict(h, a, v)
      [] a.class = "Union" -> CheckUnion(h, a, v)
      [] a.class = "Object" -> IsInstance(h, v, a.base)
      [] a.class = "Validable" -> Checked(h, a.items[1], v)
      [] a.class = "Alias" -> a.resolved /\ Checked(h, h.aliases[a.base], v)

(***************************************************************************)
(* Validation of what is made of other values.                             *)
(***************************************************************************)
RECURSIVE Validated(_, _, _)

ValidTuple(h, a, v) ==
    CASE IsSequence(v) /\ Len(v[2]) = Len(a.items) ->
           Rebuilt(a, "tuple", Collected([i \in DOMAIN v[2] |->
                          In(<<"item", i>>, Validated(h, a.items[i], v[2][i]))]))
      [] OTHER -> Raises(IF IsSequence(v) THEN "ValueError" ELSE "TypeError")

\* The items of a sequence or of a set, whatever the order a set has.
ValidItems(h, a, v) ==
    Collected([i \in DOMAIN Elements(v) |->
                   In(<<"item", i>>, Validated(h, a.items[1], Elements(v)[i]))])

ValidSequence(h, a, v) ==
    IF IsSequence(v) THEN Rebuilt(a, "tuple", ValidItems(h, a, v))
    ELSE Raises("TypeError")

AllHashed(r) == IF r.ok => \A i \in DOMAIN r.value : Hashable(r.value[i]) THEN r
                ELSE Raises("TypeError")
Pair(k, e) == IF ~k.ok THEN k ELSE IF ~e.ok THEN e ELSE Returns(<<k.value, e.value>>)

\* Any iterable but a text; an item that is not hashable fails the set.
ValidSet(h, a, v) ==
    IF ~IsIterable(v) THEN Raises("TypeError")
    ELSE Rebuilt(a, "frozenset", AllHashed(ValidItems(h, a, v)))

ValidEntry(h, a, key, element) ==
    In(<<"key", key>>,
       Pair(Validated(h, a.items[1], key), Validated(h, a.items[2], element)))

ValidMapping(h, a, v) ==
    IF ~IsMapping(v) THEN Raises("TypeError")
    ELSE Rebuilt(a, "map", Collected([i \in DOMAIN Elements(v) |->
                        ValidEntry(h, a, Elements(v)[i], v[2][Elements(v)[i]])]))

\* Only the keys that the type names; a required one that is absent fails.
ValidTypedDict(h, a, v) ==
    LET keys == SelectSeq(h.typeddicts[a.base],
                          LAMBDA n : Str(n.name) \in DOMAIN v[2] \/ RequiredOf(h, n.annotation))
        Entry(n) == IF Str(n.name) \notin DOMAIN v[2] THEN Raises("KeyError")
                    ELSE Pair(Returns(Str(n.name)),
                              Validated(h, n.annotation, v[2][Str(n.name)]))
    IN IF ~IsMapping(v) THEN Raises("TypeError")
       ELSE Rebuilt(a, "map", Collected([i \in DOMAIN keys |->
                           In(<<"key", Str(keys[i].name)>>, Entry(keys[i]))]))

\* The first alternative that accepts the value; the errors of all of them
\* are one, at the place of the union.
FirstAccepted(results) ==
    LET accepting == {i \in DOMAIN results : results[i].ok}
    IN IF accepting = {} THEN Raises("ExceptionGroup") ELSE results[Min(accepting)]

ValidUnion(h, a, v) ==
    FirstAccepted([i \in DOMAIN a.items |-> Reverified(a, Validated(h, a.items[i], v))])

(***************************************************************************)
(* Fields of a State class and their defaults (attributes/attribute.py,    *)
(* types/default.py).  A default from the environment is available even    *)
(* when the variable is not set.                                           *)
(***************************************************************************)
NoDefault == [kind |-> "none", value |-> MISSING]
Default(field) ==
    IF field.default.kind # "env" THEN field.default.value
    ELSE IF field.default.value \in DOMAIN Environment
         THEN Str(Environment[field.default.value]) ELSE MISSING
DefaultAvailable(field) == field.default.kind = "env" \/ field.default.value # MISSING

FieldAlias(h, field) == AliasOf(h, field.annotation)
FieldRequired(h, field) == RequiredOf(h, field.annotation) /\ ~DefaultAvailable(field)
FieldKey(h, field) ==
    IF FieldAlias(h, field) # NoName THEN FieldAlias(h, field) ELSE field.name


\* An update with MISSING is the default.
ValidField(h, field, v) ==
    Validated(h, field.annotation, IF v = MISSING THEN Default(field) ELSE v)

\* A defect: what is given by alias is not seen.
ValidFrom_NameOnly(h, field, mapping) ==
    Validated(h, field.annotation,
              IF Str(field.name) \in DOMAIN mapping THEN mapping[Str(field.name)]
              ELSE Default(field))

\* What a class is called with, by alias before name: MISSING stays MISSING.
ValidFrom(h, field, mapping) ==
    LET alias == Str(FieldAlias(h, field))
        name == Str(field.name)
    IN Validated(h, field.annotation,
                 IF alias \in DOMAIN mapping THEN mapping[alias]
                 ELSE IF name \in DOMAIN mapping THEN mapping[name]
                 ELSE Default(field))

\* An instance of a class with what its fields, in order, returned.
InstanceOf(h, c, r) ==
    LET fields == h.classes[c].fields
        index(name) == CHOOSE i \in DOMAIN fields : fields[i].name = name
    IN IF ~r.ok THEN r
       ELSE Returns(<<"state", c, [name \in {fields[i].name : i \in DOMAIN fields} |->
                                       r.value[index(name)]]>>)

\* A call of the class: every field in order, keys it does not know ignored.
Constructed(h, c, mapping) ==
    LET fields == h.classes[c].fields
    IN IF \E k \in DOMAIN mapping : ~IsText(k) THEN Raises("TypeError")
       ELSE InstanceOf(h, c, Collected([i \in DOMAIN fields |->
                In(<<"field", fields[i].name>>, ValidFrom(h, fields[i], mapping))]))

AllowedFields(h, c) ==
    {Str(h.classes[c].fields[i].name) : i \in DOMAIN h.classes[c].fields}
        \cup {Str(FieldKey(h, h.classes[c].fields[i])) : i \in DOMAIN h.classes[c].fields}

\* validate of a class, which knows its keys and refuses a field given twice.
ValidState(h, c, v) ==
    LET fields == h.classes[c].fields
    IN CASE IsInstance(h, v, c) -> Returns(v)
         [] IsMapping(v) ->
              IF \/ ~(DOMAIN v[2] \subseteq AllowedFields(h, c))
                 \/ \E i \in DOMAIN fields :
                        /\ FieldAlias(h, fields[i]) # NoName
                        /\ Str(FieldAlias(h, fields[i])) \in DOMAIN v[2]
                        /\ Str(fields[i].name) \in DOMAIN v[2]
              THEN Raises("TypeError") ELSE Constructed(h, c, v[2])
         [] OTHER -> Raises("TypeError")

\* An object that is not behind validate: any mapping goes to its class.
ValidObject(h, a, v) ==
    CASE IsInstance(h, v, a.base) -> Verified(a, v)
      [] IsMapping(v) -> Reverified(a, Constructed(h, a.base, v[2]))
      [] OTHER -> Raises("TypeError")

\* validate of the class, or the Validator of the annotation, and then what is
\* wrapped.
ValidWrapped(h, a, r) == IF r.ok THEN Validated(h, a.items[1], r.value) ELSE r

ValidValidable(h, a, v) ==
    ValidWrapped(h, a,
        IF a.base \in DOMAIN h.classes THEN ValidState(h, a.base, v)
        ELSE Returns(IF v \in DOMAIN Validators[a.base] THEN Validators[a.base][v] ELSE v))

\* A placeholder that was never resolved fails whatever the value.
ValidAlias(h, a, v) ==
    IF a.resolved THEN Validated(h, Annotated(h.aliases[a.base], a.annotations), v)
    ELSE Raises("RuntimeError")

Validated(h, a, v) ==
    CASE a.class = "Any" -> Verified(a, v)
      [] a.class = "Missing" -> ValidMissing(a, v)
      [] a.class = "None" -> ValidNone(a, v)
      [] a.class = "Literal" -> ValidLiteral(a, v)
      [] a.class = "bool" -> ValidBool(a, v)
      [] a.class = "int" -> ValidInteger(a, v)
      [] a.class = "float" -> ValidFloat(a, v)
      [] a.class = "bytes" -> ValidBytes(a, v)
      [] a.class = "str" -> ValidString(a, v)
      [] a.class = "UUID" -> ValidUUID(a, v)
      [] a.class = "datetime" -> ValidDatetime(a, v)
      [] a.class = "date" -> ValidDate(a, v)
      [] a.class = "time" -> ValidTime(a, v)
      [] a.class = "Path" -> ValidPath(a, v)
      [] a.class = "StrEnum" -> ValidStrEnum(a, v)
      [] a.class = "IntEnum" -> ValidIntEnum(a, v)
      [] a.class = "Function" -> ValidFunction(a, v)
      [] a.class = "Custom" -> ValidCustom(a, v)
      [] a.class = "Meta" -> ValidMeta(a, v)
      [] a.class = "Tuple" -> ValidTuple(h, a, v)
      [] a.class = "Sequence" -> ValidSequence(h, a, v)
      [] a.class = "Set" -> ValidSet(h, a, v)
      [] a.class = "Mapping" -> ValidMapping(h, a, v)
      [] a.class = "TypedDict" -> ValidTypedDict(h, a, v)
      [] a.class = "Union" -> ValidUnion(h, a, v)
      [] a.class = "Object" -> ValidObject(h, a, v)
      [] a.class = "Validable" -> ValidValidable(h, a, v)
      [] a.class = "Alias" -> ValidAlias(h, a, v)
=============================================================================
