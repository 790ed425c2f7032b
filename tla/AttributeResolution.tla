------------------------- MODULE AttributeResolution -------------------------
(***************************************************************************)
(* From annotations to attributes (attributes/annotations.py from          *)
(* resolve_self_attribute on).  An annotation is a record: what it is,     *)
(* the name or the data that goes with that, and its arguments.  A         *)
(* resolution carries a state along: the recursion guard, the TypedDicts   *)
(* and the type aliases it has met, the type parameters, how many objects  *)
(* it has made for State classes, and whether it has failed.  Attributes   *)
(* that the code shares by reference, and changes in place, are changed    *)
(* here wherever the state or the attribute has them.                      *)
(***************************************************************************)
EXTENDS AttributeAnnotations

CONSTANTS
    Aliases,     \* the type statements, each by module and name: name and target
    TypedDicts,  \* the keys of each TypedDict, with annotation and requirement
    Classes      \* the State classes: parent, origin, args, annotations, defaults

Type(is, of, args) == [is |-> is, of |-> of, args |-> args]
Simple(is) == Type(is, NoName, <<>>)

Resolved(a, s) == [attribute |-> a, s |-> s]
Failed(s) == Resolved(AnyAttribute, [s EXCEPT !.failed = TRUE])
Guards(s, k) == k \in DOMAIN s.guard
Guarded(s, k) == Resolved(s.guard[k], s)
Guard(s, k, a) == [s EXCEPT !.guard = (k :> a) @@ @]
Kept(k, r) == Resolved(r.attribute, Guard(r.s, k, r.attribute))
NotRequired(r) == IF RequiredOf(r.s, r.attribute)
                  THEN [r EXCEPT !.attribute = Annotated(@, <<NOT_REQUIRED>>)] ELSE r

RECURSIVE Resolve(_, _)

_resolve_parameters(s, args) ==
    LET With(items, r) == [items |-> Append(items, r.attribute), s |-> r.s]
    IN FoldLeft(LAMBDA done, arg : With(done.items, Resolve(done.s, arg)),
                [items |-> <<>>, s |-> s], args)

(***************************************************************************)
(* Once an alias has its target, every placeholder of it in the target     *)
(* gets it, unless an annotation gave the placeholder another alias.       *)
(***************************************************************************)
RECURSIVE Finalized(_, _)
Finalized(a, alias) ==
    IF a.class = "Alias"
    THEN [a EXCEPT !.resolved =
              @ \/ (a.base = alias /\ LastOf("alias", a.annotations, a.type_alias) = a.type_alias)]
    ELSE [a EXCEPT !.items = [i \in DOMAIN @ |-> Finalized(@[i], alias)]]

_finalize_alias_resolution(s, alias) ==
    [s EXCEPT !.guard = [k \in DOMAIN @ |-> Finalized(@[k], alias)],
              !.aliases = [k \in DOMAIN @ |-> Finalized(@[k], alias)],
              !.typeddicts = [n \in DOMAIN @ |-> [i \in DOMAIN @[n] |->
                  [@[n][i] EXCEPT !.annotation = Finalized(@, alias)]]]]

AliasResolved(alias, r) ==
    LET known == Guard(Guard(r.s, alias, r.attribute), Aliases[alias].name, r.attribute)
    IN Resolved(Finalized(r.attribute, alias),
                _finalize_alias_resolution(
                    [known EXCEPT !.aliases = (alias :> r.attribute) @@ @], alias))

\* The guard knows an alias with its module, and by its name alone.
_resolve_type_alias(s, alias) ==
    LET name == Aliases[alias].name
        placeholder == AliasAttribute(alias, name)
    IN IF Guards(s, alias) THEN Guarded(s, alias)
       ELSE IF Guards(s, name) THEN Guarded(s, name)
       ELSE AliasResolved(alias, Resolve(Guard(Guard(s, alias, placeholder), name, placeholder),
                                         Aliases[alias].target))

(***************************************************************************)
(* A subscripted type with a type variable among its arguments.  A generic *)
(* State becomes the class specialised by what the variables stand for;    *)
(* any other type is resolved bare, without the arguments, once for each   *)
(* name that the guard keeps.                                              *)
(***************************************************************************)
_resolve_type_argument(s, arg) ==
    IF arg.is # "TypeVar" THEN arg.is
    ELSE IF arg.of \in DOMAIN s.parameters THEN s.parameters[arg.of].class
    ELSE IF arg.args # <<>> THEN arg.args[1].is ELSE "Any"

_resolve_generic_alias(s, t) ==
    LET args == [i \in DOMAIN t.args |-> _resolve_type_argument(s, t.args[i])]
        specialized == CHOOSE c \in DOMAIN Classes :
                           Classes[c].origin = t.of /\ Classes[c].args = args
    IN IF t.is = "Generic" THEN Resolved(ObjectAttribute(specialized), s)
       ELSE IF Guards(s, t.is) THEN Guarded(s, t.is)
       ELSE Kept(t.is, Resolve(s, Simple(t.is)))

(***************************************************************************)
(* A TypedDict stands for Self in its own keys.  Its attribute is known to *)
(* the guard before its keys are resolved.                                 *)
(***************************************************************************)
WithKey(name, key, r) ==
    [r.s EXCEPT !.typeddicts[name] = Append(@, [name |-> key.name, annotation |-> r.attribute])]
SelfAs(s, left) == IF Guards(s, "Self") THEN Guard(left, "Self", s.guard["Self"]) ELSE left

_resolve_typeddict(s, name) ==
    LET attribute == TypedDictAttribute(name)
        entered == Guard(Guard(s, name, attribute), "Self", attribute)
        Key(r, key) == WithKey(name, key, IF key.required THEN r ELSE NotRequired(r))
    IN IF Guards(s, name) THEN Guarded(s, name)
       ELSE Resolved(attribute,
                SelfAs(s, FoldLeft(LAMBDA done, key : Key(Resolve(done, key.type), key),
                                   [entered EXCEPT !.typeddicts = (name :> <<>>) @@ @],
                                   TypedDicts[name])))

(***************************************************************************)
(* Types proper.                                                           *)
(***************************************************************************)
Scalars ==
    [None |-> NoneAttribute, Missing |-> MissingAttribute, Any |-> AnyAttribute,
     Meta |-> MetaAttribute, str |-> StringAttribute, int |-> IntegerAttribute,
     float |-> FloatAttribute, bool |-> BoolAttribute, bytes |-> BytesAttribute,
     UUID |-> UUIDAttribute, datetime |-> DatetimeAttribute, date |-> DateAttribute,
     time |-> TimeAttribute, Path |-> PathAttribute, StrEnum |-> StrEnumAttribute,
     IntEnum |-> IntEnumAttribute]

Ellipsis == Simple("...")

IsVariadic(t) == t.is = "tuple" /\ Len(t.args) = 2 /\ t.args[2] = Ellipsis

\* The arguments of a container: Any for those that it is without.
Arguments(t) ==
    LET n == CASE t.is = "Mapping" -> 2 [] t.is = "tuple" -> Len(t.args) [] OTHER -> 1
    IN IF IsVariadic(t) THEN <<t.args[1]>>
       ELSE IF Len(t.args) = n THEN t.args ELSE [i \in 1..n |-> Simple("Any")]

ContainerOf(t, r) ==
    Resolved(CASE t.is = "Mapping" -> MappingAttribute(r.items[1], r.items[2])
               [] t.is = "Set" -> SetAttribute(r.items[1])
               [] t.is = "Sequence" \/ IsVariadic(t) -> SequenceAttribute(r.items[1])
               [] OTHER -> TupleAttribute(r.items), r.s)

_resolve_type(s, t) ==
    CASE t.is \in DOMAIN Scalars -> Resolved(Scalars[t.is], s)
      [] t.is = "TypedDict" -> _resolve_typeddict(s, t.of)
      [] t.is \in {"Mapping", "Set", "Sequence", "tuple"} ->
           ContainerOf(t, _resolve_parameters(s, Arguments(t)))
      [] t.is = "State" ->
           Resolved([ValidableAttribute(t.of, ObjectAttribute(t.of)) EXCEPT !.id = s.made],
                    [s EXCEPT !.made = @ + 1])
      [] t.is = "custom" ->
           IF Guards(s, t.of) THEN Guarded(s, t.of) ELSE Resolved(CustomAttribute(t.of), s)
      [] OTHER -> Failed(s)

\* A name: what it refers to is resolved once for the guard's key of it.
_evaluate_forward_ref(s, t) ==
    IF t.args = <<>> THEN Failed(s)
    ELSE IF Guards(s, t.args[1].of) THEN Guarded(s, t.args[1].of)
    ELSE Kept(t.args[1].of, Resolve(s, t.args[1]))

IsGeneric(t) ==
    /\ t.is \in {"Generic", "Mapping", "Set", "Sequence", "tuple"}
    /\ \E i \in DOMAIN t.args : t.args[i].is = "TypeVar"

UnionOf(r) == Resolved(UnionAttribute(r.items), r.s)

\* What a type around another one makes of the attribute of that.
Around(t, r) ==
    CASE t.is = "Optional" -> UnionOf([items |-> <<r.attribute, NoneAttribute>>, s |-> r.s])
      [] t.is = "Annotated" -> [r EXCEPT !.attribute = Annotated(@, t.of)]
      [] t.is = "NotRequired" -> NotRequired(r)
      [] OTHER -> r

Resolve(s, t) ==
    CASE IsGeneric(t) -> _resolve_generic_alias(s, t)
      [] t.is = "Union" -> UnionOf(_resolve_parameters(s, t.args))
      [] t.is \in {"Optional", "Annotated", "Required", "NotRequired", "Final"} ->
           Around(t, Resolve(s, t.args[1]))
      [] t.is = "TypeAlias" -> _resolve_type_alias(s, t.of)
      [] t.is = "TypeVar" ->
           IF t.of \in DOMAIN s.parameters THEN Resolved(s.parameters[t.of], s)
           ELSE IF t.args = <<>> THEN Resolved(AnyAttribute, s) ELSE Resolve(s, t.args[1])
      [] t.is = "Literal" -> Resolved(LiteralAttribute(t.of), s)
      [] t.is = "Callable" -> Resolved(FunctionAttribute, s)
      [] t.is = "Self" -> IF Guards(s, "Self") THEN Guarded(s, "Self") ELSE Failed(s)
      [] t.is = "ForwardRef" -> _evaluate_forward_ref(s, t)
      [] OTHER -> _resolve_type(s, t)

(***************************************************************************)
(* The attributes of a State class.  Its own name and Self stand for it    *)
(* from the start; an attribute with a value in the class is not required. *)
(***************************************************************************)
WithAttribute(name, r) ==
    [r.s EXCEPT !.attributes = Append(@, [name |-> name, annotation |-> r.attribute])]

resolve_self_attribute(h, c) ==
    LET class == Classes[c]
        empty == [guard |-> <<>>, typeddicts |-> h.typeddicts, aliases |-> h.aliases,
                  parameters |-> <<>>, failed |-> FALSE, attributes |-> <<>>, made |-> 1]
        parameters == [n \in DOMAIN class.parameters |->
                           Resolve(empty, class.parameters[n]).attribute]
        start == Guard(Guard([empty EXCEPT !.parameters = parameters],
                             "Self", ObjectAttribute(c)), c, ObjectAttribute(c))
        Attributed(n, r) ==
            WithAttribute(n.name, IF n.name \in DOMAIN class.defaults THEN NotRequired(r) ELSE r)
    IN FoldLeft(LAMBDA s, n : Attributed(n, Resolve(s, n.type)), start, class.annotations)
=============================================================================
