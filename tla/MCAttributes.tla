---------------------------- MODULE MCAttributes ----------------------------
(* A program of State classes for TLC that uses every kind of annotation,  *)
(* and inputs that give one attribute of a class at a time every value.    *)
EXTENDS AttributeRequirements

MCStrMembers == [LOW |-> "low", HIGH |-> "high"]
MCIntMembers == [ONE |-> 2, TWO |-> 4]
MCTexts ==
    [bool |-> ("true" :> TRUE) @@ ("false" :> FALSE),
     int |-> ("1" :> 2) @@ ("2" :> 4),
     uuid |-> ("U1" :> "u-1") @@ ("u-1" :> "u-1"),
     date |-> ("2024-01-01" :> "2024-01-01"),
     datetime |-> ("2024-01-01" :> "2024-01-01T00")
               @@ ("2024-01-01T00" :> "2024-01-01T00"),
     time |-> ("T10" :> "10:00") @@ ("10:00" :> "10:00"),
     path |-> ("a//b" :> "a/b")]
MCLiterals == [modes |-> {Str("low"), Str("fast")}, codes |-> {<<"int", 2>>}]
MCRejected == [positive |-> {<<"int", 0>>, <<"int", 4>>}]
MCValidators == [upper |-> (Str("low") :> Str("LOW")) @@ (<<"strenum", "LOW">> :> Str("LOW"))]
MCEnvironment == [HOST |-> "local"]

Of(is, args) == Type(is, NoName, args)
Named(name, type) == [name |-> name, type |-> type]
Alias(name) == Type("TypeAlias", name, <<>>)
With(type, annotations) == Type("Annotated", annotations, <<type>>)
Self == Simple("Self")
T == Type("TypeVar", "T", <<>>)

MCAliases ==
    ("m.Json" :> [name |-> "Json", target |->
        Of("Union", <<Simple("str"), Of("Sequence", <<Alias("m.Json")>>)>>)])
 @@ ("m.Pt" :> [name |-> "Pt", target |-> Type("State", "Point", <<>>)])

MCTypedDicts ==
    [Options |-> <<[name |-> "a", type |-> Simple("int"), required |-> TRUE],
                   [name |-> "b", type |-> Of("NotRequired", <<Simple("str")>>),
                    required |-> FALSE],
                   [name |-> "c", type |-> Of("Optional", <<Self>>), required |-> FALSE]>>]

Class(annotations, defaults) ==
    [parent |-> NoName, origin |-> NoName, args |-> <<>>, parameters |-> <<>>,
     serializable |-> FALSE, annotations |-> annotations, defaults |-> defaults]
Value(v) == [kind |-> "value", value |-> v]

BoxFields == <<Named("item", T), Named("items", Of("Sequence", <<T>>))>>

PointFields ==
    <<Named("x", With(Simple("int"), <<Annotation("verifier", "positive")>>)),
      Named("y", With(Simple("float"), <<Annotation("alias", "why")>>))>>

MCClasses ==
    ("Point" :> Class(PointFields, [y |-> Value(<<"float", 0>>)]))
 @@ ("Child" :> [Class(PointFields \o
        <<Named("z", Of("ForwardRef", <<Type("State", "Point", <<>>)>>)),
          Named("n", Of("NotRequired", <<Type("TypeVar", "N", <<Simple("int")>>)>>))>>,
        [y |-> Value(<<"float", 2>>), n |-> Value(<<"int", 2>>)]) EXCEPT !.parent = "Point"])
 @@ ("Refused" :> Class(<<Named("a", With(Simple("int"), <<Annotation("alias", "b")>>)),
                          Named("b", Simple("int"))>>, <<>>))
 @@ ("Scalars" :> Class(
        <<Named("b", Simple("bool")), Named("i", Simple("int")), Named("f", Simple("float")),
          Named("s", With(Simple("str"), <<Annotation("validator", "upper")>>)),
          Named("u", Simple("UUID")), Named("d", Simple("date")),
          Named("dt", Simple("datetime")), Named("t", Simple("time")),
          Named("p", Simple("Path")), Named("l", Type("Literal", "modes", <<>>)),
          Named("se", Simple("StrEnum")), Named("ie", Simple("IntEnum")),
          Named("m", Simple("Meta")),
          Named("o", Of("Union", <<Simple("int"), Simple("Missing")>>)),
          Named("e", Simple("str"))>>,
        [o |-> Value(MISSING), e |-> [kind |-> "env", value |-> "HOST"]]))
 @@ ("Opaque" :> Class(
        <<Named("by", Simple("bytes")), Named("fn", Simple("Callable")),
          Named("cu", Type("custom", "Socket", <<>>)), Named("an", Simple("Any"))>>, <<>>))
 @@ ("Containers" :> Class(
        <<Named("tu", Of("tuple", <<Simple("int"), Simple("str")>>)),
          Named("tv", Of("tuple", <<Simple("int"), Ellipsis>>)),
          Named("se", Of("Set", <<Of("Union", <<Simple("int"), Simple("str")>>)>>)),
          Named("ma", Of("Mapping", <<Simple("str"), Simple("float")>>)),
          Named("td", Type("TypedDict", "Options", <<>>))>>, <<>>))
 @@ ("Node" :> Class(
        <<Named("value", Of("Union", <<Simple("bool"), Simple("int")>>)),
          Named("next", Of("Optional", <<Self>>)),
          Named("data", Of("Union", <<Alias("m.Pt"), Alias("m.Json")>>))>>,
        [next |-> Value(None), data |-> Value(Str("low"))]))
 @@ ("Box" :> [Class(BoxFields, <<>>) EXCEPT !.parameters = [n \in {} |-> n]])
 @@ ("Box[int]" :> [Class(BoxFields, <<>>) EXCEPT
        !.parent = "Box", !.origin = "Box", !.args = <<"int">>,
        !.parameters = [T |-> Simple("int")]])
 @@ ("Board" :> Class(
        <<Named("main", Type("State", "Point", <<>>)),
          Named("spare", Of("Optional", <<Type("State", "Point", <<>>)>>)),
          Named("points", Of("Sequence", <<Type("State", "Point", <<>>)>>)),
          Named("named", Of("Mapping", <<Simple("str"), Type("State", "Point", <<>>)>>)),
          Named("pair", Of("Optional", <<Of("tuple", <<Simple("int"), Simple("str")>>)>>)),
          Named("tags", Of("Set", <<Simple("str")>>)),
          Named("mode", Type("Literal", "modes", <<>>)),
          Named("pt", Alias("m.Pt"))>>,
        [spare |-> Value(None), pair |-> Value(None), mode |-> Value(Str("low"))]))
 @@ ("Holder" :> Class(<<Named("box", Type("State", "Box[int]", <<>>)),
                         Named("any", Of("Optional", <<Type("State", "Box", <<>>)>>))>>,
                       [any |-> Value(None)]))

MCProgram == <<"Point", "Refused", "Child", "Scalars", "Opaque", "Containers", "Node", "Box", "Box[int]", "Board", "Holder">>

Dict(f) == <<"dict", [k \in {Str(n) : n \in DOMAIN f} |-> f[k[2]]]>>
One == <<"int", 2>>
Two == <<"int", 4>>

Values ==
    {None, MISSING, Bool(TRUE), <<"int", 0>>, One, Two, <<"float", 2>>, <<"float", 3>>,
     Str("1"), Str("low"), Str("true"), Str("HIGH"), Str("ONE"), Str("U1"), Str("2024-01-01"),
     Str("T10"), Str("a//b"), <<"uuid", "u-1">>, <<"date", "2024-01-01">>,
     <<"datetime", "2024-01-01T00">>, <<"time", "10:00">>, <<"path", "a/b">>,
     <<"strenum", "LOW">>, <<"intenum", "TWO">>, <<"bytes", "x">>, <<"callable", "f">>,
     <<"custom", "Socket">>,
     <<"list", <<>>>>, <<"list", <<One, Bool(TRUE)>>>>, <<"list", <<Two, Str("low")>>>>,
     <<"tuple", <<<<"float", 2>>, Str("1")>>>>, <<"set", {One, Str("low")}>>,
     <<"list", <<Str("low"), <<"list", <<Str("1")>>>>>>>>,
     Dict([a |-> One]), Dict([a |-> One, c |-> Dict([a |-> Str("low")])]),
     Dict([a |-> One, b |-> Str("low"), c |-> Dict([a |-> Two])]),
     Dict([x |-> One]), Dict([x |-> One, why |-> Two, z |-> None]),
     <<"dict", (<<"int", 2>> :> One)>>,
     Dict([value |-> One, next |-> Dict([value |-> Str("true"), extra |-> One])]),
     Dict([item |-> One, items |-> <<"list", <<One>>>>]),
     Dict([item |-> Str("low"), items |-> <<"list", <<Str("low")>>>>]),
     <<"state", "Point", [x |-> One, y |-> <<"float", 0>>]>>,
     <<"state", "Child", [x |-> One, y |-> <<"float", 0>>, n |-> One,
                          z |-> <<"state", "Point", [x |-> One, y |-> <<"float", 0>>]>>]>>,
     <<"state", "Box", [item |-> One, items |-> <<"tuple", <<Str("low")>>>>]>>,
     <<"state", "Box", [item |-> Str("low"), items |-> <<"tuple", <<One>>>>]>>}

Bases ==
    ("Point" :> [x |-> One])
 @@ ("Child" :> [x |-> One, z |-> Dict([x |-> One])])
 @@ ("Refused" :> [a |-> One])
 @@ ("Scalars" :> [b |-> Bool(TRUE), i |-> One, f |-> One, s |-> Str("low"),
                   u |-> Str("U1"), d |-> Str("2024-01-01"), dt |-> Str("2024-01-01T00"),
                   t |-> Str("T10"), p |-> Str("a//b"), l |-> Str("fast"), se |-> Str("low"),
                   ie |-> One, m |-> Dict([a |-> One])])
 @@ ("Opaque" :> [by |-> <<"bytes", "x">>, fn |-> <<"callable", "f">>,
                  cu |-> <<"custom", "Socket">>, an |-> None])
 @@ ("Containers" :> [tu |-> <<"tuple", <<One, Str("low")>>>>, tv |-> <<"list", <<One>>>>,
                      se |-> <<"set", {One}>>, ma |-> Dict([a |-> One]),
                      td |-> Dict([a |-> One])])
 @@ ("Node" :> [value |-> One])
 @@ ("Box" :> [item |-> One, items |-> <<"list", <<One>>>>])
 @@ ("Box[int]" :> [item |-> One, items |-> <<"list", <<One>>>>])
 @@ ("Board" :> [main |-> Dict([x |-> One]), points |-> <<"list", <<Dict([x |-> One]), Dict([x |-> One, y |-> One])>>>>,
                 named |-> Dict([a |-> Dict([x |-> One])]), pair |-> <<"tuple", <<Two, Str("low")>>>>,
                 tags |-> <<"set", {Str("low"), Str("1")}>>, pt |-> Dict([x |-> One])])
 @@ ("Holder" :> [box |-> Dict([item |-> One, items |-> <<"list", <<>>>>])])

NamesIn(c) == {MCClasses[c].annotations[i].name : i \in DOMAIN MCClasses[c].annotations}
MCInputs ==
    [c \in DOMAIN MCClasses |->
        {Dict([Bases[c] EXCEPT ![k] = v]) : k \in DOMAIN Bases[c], v \in Values}
          \cup {Dict((k :> v) @@ Bases[c]) :
                    k \in (NamesIn(c) \cup {"why", "extra"}) \ DOMAIN Bases[c], v \in Values}
          \cup {Dict([k \in DOMAIN Bases[c] \ {j} |-> Bases[c][k]]) : j \in DOMAIN Bases[c]}]

MCUpdates ==
    [[c \in DOMAIN MCClasses |-> {<<>>, <<<<Str("extra"), One>>>>}] EXCEPT
        !["Point"] = {<<<<Str("y"), One>>, <<Str("why"), Two>>>>,
                      <<<<Str("why"), MISSING>>, <<Str("x"), <<"float", 2>>>>>>,
                      <<<<Str("x"), Two>>>>},
        !["Node"] = {<<<<Str("next"), Dict([value |-> Two])>>>>,
                     <<<<Str("value"), MISSING>>, <<Str("data"), Dict([x |-> One])>>>>}]

Attr(names) == [i \in DOMAIN names |-> AttributeStep(names[i])]
ItemX(name, i) == <<AttributeStep(name), ItemStep(i), AttributeStep("x")>>
KeyA == KeyStep(Str("a"))
MCSteps ==
    [[c \in DOMAIN MCClasses |-> {<<AttributeStep(name)>> : name \in NamesIn(c)} \cup {<<>>}] EXCEPT
        !["Scalars"] = {<<>>} \cup {<<AttributeStep(name)>> : name \in {"s", "i", "l", "o"}},
        !["Board"] = @ \cup
            {Attr(<<"main", "x">>), Attr(<<"main", "y">>), Attr(<<"spare", "x">>),
             Attr(<<"pt", "x">>), ItemX("points", 0), ItemX("points", 1), ItemX("points", -1),
             ItemX("points", 2),
             <<AttributeStep("points"), ItemStep(0), AttributeStep("y")>>,
             <<AttributeStep("points"), ItemStep(1), AttributeStep("y")>>, <<AttributeStep("points"), KeyA>>,
             <<AttributeStep("named"), KeyA, AttributeStep("x")>>,
             <<AttributeStep("named"), KeyA>>, <<AttributeStep("named"), KeyStep(Str("b"))>>,
             <<AttributeStep("pair"), ItemStep(0)>>, <<AttributeStep("pair"), ItemStep(-1)>>,
             <<AttributeStep("pair"), ItemStep(2)>>, <<AttributeStep("tags"), KeyA>>},
        !["Containers"] = @ \cup
            {<<AttributeStep("tv"), ItemStep(0)>>, <<AttributeStep("ma"), KeyA>>,
             <<AttributeStep("td"), KeyA>>},
        !["Node"] = @ \cup {Attr(<<"next", "value">>), <<AttributeStep("data"), ItemStep(0)>>},
        !["Holder"] = @ \cup {Attr(<<"box", "item">>)}]
MCAssignments ==
    {None, One, Two, Bool(TRUE), <<"float", 3>>, Str("low"), <<"strenum", "LOW">>,
     <<"tuple", <<One, Str("low")>>>>, <<"map", <<>>>>,
     <<"state", "Point", [x |-> One, y |-> <<"float", 2>>]>>}

MCWords == [low |-> {"low"}, true |-> {"true"}] @@ [t \in {"1", "HIGH", "LOW"} |-> {t}]
MCRequirements ==
    [[c \in DOMAIN MCClasses |-> {}] EXCEPT
        !["Board"] =
            LET X == Attr(<<"main", "x">>)
                Lone == {equal(<<"float", 2>>, X), not_equal(Bool(TRUE), X),
                         equal(One, ItemX("points", 2)), equal(None, <<AttributeStep("spare")>>),
                         text_match(Str("low"), <<AttributeStep("pair"), ItemStep(1)>>),
                         text_match(Str("low"), X),
                         contains(Str("ow"), <<AttributeStep("pair"), ItemStep(1)>>),
                         contains(Str("wo"), <<AttributeStep("mode")>>),
                         contains_any(Str("wolf"), <<AttributeStep("mode")>>),
                         contained_in(Str("lowest"), <<AttributeStep("pair"), ItemStep(1)>>),
                         contained_in(Str("lowest"), X),
                         contains(Str("low"), <<AttributeStep("tags")>>),
                         contains(<<"list", <<>>>>, <<AttributeStep("tags")>>),
                         contains(One, <<AttributeStep("pair")>>),
                         contains_any(<<"list", <<Str("HIGH"), Str("1")>>>>, <<AttributeStep("tags")>>),
                         contains_any(<<"list", <<>>>>, <<AttributeStep("tags")>>),
                         contained_in(<<"set", {One, Str("low")}>>, X),
                         contained_in(<<"tuple", <<Two>>>>, X)}
                Few == {not_equal(Bool(TRUE), X), equal(<<"float", 2>>, X),
                        equal(None, <<AttributeStep("spare")>>),
                        equal(One, <<AttributeStep("pair"), ItemStep(0)>>)}
                Pairs == {__and__(l, r) : l, r \in Few} \cup {__or__(l, r) : l, r \in Few}
                Astray == equal(One, ItemX("points", 2))
            IN Lone \cup Pairs \cup {__or__(p, equal(One, X)) : p \in Pairs}
                    \cup {__or__(Astray, f) : f \in Few} \cup {__or__(f, Astray) : f \in Few}
                    \cup {__and__(Astray, f) : f \in Few} \cup {__and__(f, Astray) : f \in Few}]
=============================================================================
