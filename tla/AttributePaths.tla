--------------------------- MODULE AttributePaths ---------------------------
(***************************************************************************)
(* Paths to the attributes of a State, and to what is in them              *)
(* (attributes/path.py).  A path is built a step at a time from the        *)
(* annotations alone; it is then used to read from an instance, or to make *)
(* an instance with another value at its end.  A path that cannot be built *)
(* is the exception that the last step raised.                             *)
(***************************************************************************)
EXTENDS StateClass

CONSTANTS
    Steps,       \* for each class, paths from it, as sequences of steps
    Assignments  \* the values that are assigned at the end of a path

AttributeStep(name) == <<"attribute", name>>
ItemStep(i) == <<"item", i>>     \* from 0, or from -1 backwards
KeyStep(key) == <<"key", key>>

(***************************************************************************)
(* Types: what an alias or an annotation stands for, and isinstance, which *)
(* takes classes and unions of them, and raises for any other type.        *)
(***************************************************************************)
RECURSIVE _unaliased(_)
_unaliased(t) == CASE t.is = "TypeAlias" -> _unaliased(Aliases[t.of].target)
                   [] t.is = "Annotated" -> _unaliased(t.args[1])
                   [] OTHER -> t

Alternatives(t) == IF t.is = "Optional" THEN <<t.args[1], Simple("None")>> ELSE t.args

\* Whichever first is true, or raises, decides.
AnyTrue(results) ==
    LET decided == {i \in DOMAIN results : results[i] # Returns(FALSE)}
    IN IF decided = {} THEN Returns(FALSE) ELSE results[Min(decided)]

RECURSIVE IsInstanceOf(_, _)
IsInstanceOf(v, type) ==
    LET t == _unaliased(type)
    IN CASE t.is \in {"Union", "Optional"} ->
              AnyTrue([i \in DOMAIN Alternatives(t) |-> IsInstanceOf(v, Alternatives(t)[i])])
         [] t.is \in {"Any", "Literal", "Self", "TypeVar", "TypedDict", "ForwardRef",
                      "Required", "NotRequired", "Final"} -> Raises("TypeError")
         [] t.is = "State" -> Returns(IsInstance(heap, v, t.of))
         [] t.is = "custom" -> Returns(v = <<"custom", t.of>>)
         [] t.is = "Sequence" -> Returns(IsSequence(v) \/ IsText(v))
         [] t.is = "tuple" -> Returns(TypeOf(v) = "tuple")
         [] t.is = "Set" -> Returns(IsSet(v))
         [] t.is = "Mapping" -> Returns(IsMapping(v))
         [] t.is = "Callable" -> Returns(TypeOf(v) = "callable")
         [] t.is = "float" -> Returns(TypeOf(v) = "float")
         [] OTHER -> Returns(Checked(heap, Scalars[t.is], v))

\* assert isinstance(v, type), then what follows; a failed assertion raises.
Assertion(r, then) == IF ~r.ok THEN r ELSE IF r.value THEN then ELSE Raises("AssertionError")
Asserted(v, type, then) == Assertion(IsInstanceOf(v, type), then)

(***************************************************************************)
(* Building: the type and the components after each step.                  *)
(***************************************************************************)
Component(kind, root, attribute, at) ==
    [kind |-> kind, root |-> root, attribute |-> attribute, at |-> at]
Extended(path, kind, attribute, at) ==
    Returns([path EXCEPT !.attribute = attribute,
                         !.components = Append(@, Component(kind, path.attribute, attribute, at))])

\* The annotations of a class itself, not the ones it inherits.
OwnAnnotations(c) ==
    LET parent == Classes[c].parent
    IN IF parent = NoName THEN ToSet(Classes[c].annotations)
       ELSE ToSet(Classes[c].annotations) \ ToSet(Classes[parent].annotations)

\* path.name: of a class only, neither of an alias nor of a union.
__getattr__(path, name) ==
    LET t == path.attribute
        named == IF t.is # "State" THEN {} ELSE {n \in OwnAnnotations(t.of) : n.name = name}
    IN IF named = {} THEN Raises("AttributeError")
       ELSE Extended(path, "property", (CHOOSE n \in named : TRUE).type, name)

\* path[key]: of the only alternative that is not None.
__getitem__(path, key) ==
    LET t == _unaliased(path.attribute)
        others == SelectSeq(Alternatives(t), LAMBDA u : u.is # "None")
        of == IF t.is \notin {"Union", "Optional"} THEN t ELSE _unaliased(others[1])
        index == IF key[2] < 0 THEN Len(of.args) + key[2] + 1 ELSE key[2] + 1
    IN CASE t.is \in {"Union", "Optional"} /\ Len(others) # 1 -> Raises("TypeError")
         [] of.is = "Mapping" ->
              IF Len(of.args) = 2 /\ of.args[1].is \in {"str", "int"}
              THEN Extended(path, "key", of.args[2], key[2]) ELSE Raises("TypeError")
         [] of.is = "tuple" /\ key[1] = "item" ->
              IF Len(of.args) = 2 /\ of.args[2] = Ellipsis
              THEN Extended(path, "item", of.args[1], key[2])
              ELSE IF index \in DOMAIN of.args
                   THEN Extended(path, "item", of.args[index], key[2]) ELSE Raises("IndexError")
         [] of.is = "Sequence" /\ key[1] = "item" /\ Len(of.args) = 1 ->
              Extended(path, "item", of.args[1], key[2])
         [] OTHER -> Raises("TypeError")

Path(c, steps) ==
    FoldLeft(LAMBDA path, step :
                 IF ~path.ok THEN path
                 ELSE IF step[1] = "attribute" THEN __getattr__(path.value, step[2])
                      ELSE __getitem__(path.value, step),
             Returns([root |-> Type("State", c, <<>>), components |-> <<>>,
                      attribute |-> Type("State", c, <<>>)]),
             steps)

(***************************************************************************)
(* Components: access of what is there, assigning of another value to a    *)
(* copy of the subject.                                                    *)
(***************************************************************************)
Position(v, i) == IF i < 0 THEN Len(v[2]) + i + 1 ELSE i + 1

AccessProperty(component, subject) ==
    Asserted(subject, component.root,
        Asserted(subject[3][component.at], component.attribute,
                 Returns(subject[3][component.at])))
AccessItem(component, subject) ==
    LET i == Position(subject, component.at)
    IN Asserted(subject, component.root,
           IF subject = None THEN Raises("AttributeError")
           ELSE IF i \notin DOMAIN subject[2] THEN Raises("IndexError")
           ELSE Asserted(subject[2][i], component.attribute, Returns(subject[2][i])))
AccessKey(component, subject) ==
    LET key == component.at
    IN Asserted(subject, component.root,
           IF subject = None THEN Raises("AttributeError")
           ELSE IF key \notin DOMAIN subject[2] THEN Raises("KeyError")
           ELSE Asserted(subject[2][key], component.attribute, Returns(subject[2][key])))
Access(component, subject) ==
    CASE component.kind = "property" -> AccessProperty(component, subject)
      [] component.kind = "item" -> AccessItem(component, subject)
      [] component.kind = "key" -> AccessKey(component, subject)

AssignProperty(component, subject, v) ==
    Asserted(subject, component.root, Asserted(v, component.attribute,
        Updated(heap, subject, <<<<Str(component.at), v>>>>)))
\* A defect: always the first item.
AssignItem_First(component, subject, v) ==
    Asserted(subject, component.root, Asserted(v, component.attribute,
        Returns([subject EXCEPT ![2][1] = v])))
AssignItem(component, subject, v) ==
    Asserted(subject, component.root, Asserted(v, component.attribute,
        Returns([subject EXCEPT ![2][Position(subject, component.at)] = v])))
AssignKey(component, subject, v) ==
    Asserted(subject, component.root, Asserted(v, component.attribute,
        Returns([subject EXCEPT ![2] = (component.at :> v) @@ @])))
Assign(component, subject, v) ==
    CASE component.kind = "property" -> AssignProperty(component, subject, v)
      [] component.kind = "item" -> AssignItem(component, subject, v)
      [] component.kind = "key" -> AssignKey(component, subject, v)

(***************************************************************************)
(* Use.  Access visits what the components lead through; an assignment     *)
(* goes back over it from the last component to the first.                 *)
(***************************************************************************)
Visited(path, root) ==
    LET Then(done, r) == IF r.ok THEN Returns(Append(done, r.value)) ELSE r
    IN FoldLeft(LAMBDA done, component :
                    IF done.ok THEN Then(done.value, Access(component, Last(done.value)))
                    ELSE done,
                Returns(<<root>>), path.components)

\* The last that was visited has the type of the path.
Ending(path, visited) ==
    IF ~visited.ok THEN visited
    ELSE Asserted(Last(visited.value), path.attribute, Returns(Last(visited.value)))
ReadAt(path, root) == Asserted(root, path.root, Ending(path, Visited(path, root)))

Backwards(path, visited, updated) ==
    LET Back(i, r) == IF r.ok THEN Assign(path.components[i], visited.value[i], r.value) ELSE r
    IN IF ~visited.ok THEN visited
       ELSE FoldRight(Back, [i \in DOMAIN path.components |-> i], Returns(updated))
AssignAt(path, root, updated) ==
    Asserted(root, path.root, Asserted(updated, path.attribute,
        Backwards(path, Visited(path, root), updated)))

\* Class._.steps(instance, updated): MISSING is no update but a reading.
Assigning ==
    /\ instance # None
    /\ \E steps \in Steps[instance[2]], v \in Assignments \ {MISSING} :
           LET Through(path) == IF path.ok THEN AssignAt(path.value, instance, v) ELSE path
           IN Called("assigning", instance[2], <<"path", steps, v>>, Through(Path(instance[2], steps)))

\* The reading of Class._.steps(instance).
ReadBy(steps, v) ==
    LET Through(path) == IF path.ok THEN ReadAt(path.value, v) ELSE path
    IN Through(Path(v[2], steps))

\* Two items of which one is counted from the end may be the same.
Apart(p, q) ==
    \E i \in DOMAIN p \cap DOMAIN q :
        /\ p[i] # q[i]
        /\ p[i][1] = "item" /\ q[i][1] = "item" => (p[i][2] < 0 <=> q[i][2] < 0)

\* What an attribute at the end of a path makes of a value.
MadeOf(steps, root, v) ==
    LET HeldBy(holder) == CHOOSE f \in FieldsOf(holder[2]) : f.name = Last(steps)[2]
    IN IF steps # <<>> /\ Last(steps)[1] = "attribute"
       THEN Validated(heap, HeldBy(ReadBy(Front(steps), root).value).annotation, v).value ELSE v

(***************************************************************************)
(* What an assignment does is a matter of the whole path: the annotations  *)
(* on the way, the components in both directions and the validation of     *)
(* every State that is copied.  The value that was assigned, as the        *)
(* attribute it ends in makes it, is read back at the end of the path, and *)
(* every path that leaves this one before its end reads what it read       *)
(* before.                                                                 *)
(***************************************************************************)
AssignmentIsLocal ==
    call.op = "assigning" /\ call.result.ok =>
        LET steps == call.given[2]
            after == call.result.value
            written == MadeOf(steps, call.before, call.given[3])
        IN /\ ReadBy(steps, after).ok /\ Equal(ReadBy(steps, after).value, written)
           /\ \A other \in Steps[call.class] :
                  Apart(steps, other) => ReadBy(other, after) = ReadBy(other, call.before)
=============================================================================
