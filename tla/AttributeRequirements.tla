------------------------ MODULE AttributeRequirements ------------------------
(***************************************************************************)
(* Requirements on States (attributes/requirement.py): comparisons of what *)
(* is at a path with a value, joined by and, or.  A check returns, or      *)
(* raises what the path, the comparison or the requirement itself raises.  *)
(***************************************************************************)
EXTENDS AttributePaths

CONSTANTS
    Requirements,  \* for each class, the requirements on its instances
    Words          \* the words that a text is split into

Passed == Returns(TRUE)
Required(condition) == IF condition THEN Passed ELSE Raises("ValueError")

(***************************************************************************)
(* A requirement is a record: its operator with either a path and a value, *)
(* or the two requirements that it joins.                                  *)
(***************************************************************************)
Requirement(operator, steps, value) ==
    [operator |-> operator, steps |-> steps, value |-> value, joined |-> <<>>]
equal(value, steps) == Requirement("equal", steps, value)
not_equal(value, steps) == Requirement("not_equal", steps, value)
text_match(value, steps) == Requirement("text_match", steps, value)
contains(value, steps) == Requirement("contains", steps, value)
contains_any(value, steps) == Requirement("contains_any", steps, value)
contained_in(value, steps) == Requirement("contained_in", steps, value)
Joined(operator, lhs, rhs) ==
    [operator |-> operator, steps |-> <<>>, value |-> None, joined |-> <<lhs, rhs>>]
__and__(lhs, rhs) == Joined("and", lhs, rhs)
__or__(lhs, rhs) == Joined("or", lhs, rhs)

\* A text is in another when the other goes on with it from some place.
PartOf(text, whole) ==
    \E i \in 1..(Len(whole) - Len(text) + 1) : text = SubSeq(whole, i, i + Len(text) - 1)

\* element in collection: an error when the collection is none, when a set or a
\* mapping is asked for what has no hash, or a text for what is not one.
IsIn(collection, element) ==
    CASE IsSequence(collection) ->
           Returns(\E i \in DOMAIN collection[2] : Equal(collection[2][i], element))
      [] IsText(collection) ->
           IF ~IsText(element) THEN Raises("TypeError")
           ELSE Returns(PartOf(TextOf(element), TextOf(collection)))
      [] IsSet(collection) \/ IsMapping(collection) ->
           IF ~Hashable(element) THEN Raises("TypeError")
           ELSE Returns(\E e \in ToSet(Elements(collection)) : Equal(e, element))
      [] OTHER -> Raises("TypeError")

check_equal(checked, value) == Required(Equal(checked, value))
check_not_equal(checked, value) == Required(~Equal(checked, value))
check_text_match(checked, value) ==
    Required(IsText(checked) /\ Words[TextOf(value)] \subseteq Words[TextOf(checked)])
RequiredTrue(r) == IF r.ok THEN Required(r.value) ELSE r
check_contains(checked, value) ==
    RequiredTrue(IsIn(checked, value))
check_contained_in(checked, value) == check_contains(value, checked)

\* any(): the first element that is in it, or for which asking raises, decides.
check_contains_any(checked, value) ==
    RequiredTrue(AnyTrue([i \in DOMAIN Elements(value) |-> IsIn(checked, Elements(value)[i])]))

Compared(requirement, checked) ==
    LET value == requirement.value
    IN IF ~checked.ok THEN checked
       ELSE CASE requirement.operator = "equal" -> check_equal(checked.value, value)
              [] requirement.operator = "not_equal" -> check_not_equal(checked.value, value)
              [] requirement.operator = "text_match" -> check_text_match(checked.value, value)
              [] requirement.operator = "contains" -> check_contains(checked.value, value)
              [] requirement.operator = "contains_any" -> check_contains_any(checked.value, value)
              [] requirement.operator = "contained_in" -> check_contained_in(checked.value, value)

RECURSIVE check(_, _)
check_and(first, second) == IF first.ok THEN second ELSE first
\* A defect: the second one decides whatever the first one said.
check_or_Second(first, second) == second
\* Only a ValueError of the first one lets the second one decide.
check_or(first, second) ==
    IF ~first.ok /\ first.error = "ValueError" THEN second ELSE first
check(requirement, root) ==
    CASE requirement.operator = "and" ->
           check_and(check(requirement.joined[1], root), check(requirement.joined[2], root))
      [] requirement.operator = "or" ->
           check_or(check(requirement.joined[1], root), check(requirement.joined[2], root))
      [] OTHER -> Compared(requirement, ReadBy(requirement.steps, root))

filter(requirement, values) == SelectSeq(values, LAMBDA v : check(requirement, v).ok)

\* The instance that is there is kept by the filter, or there is none left.
Filtering ==
    /\ instance # None
    /\ \E requirement \in Requirements[instance[2]] :
           LET Tried(kept) == IF kept = <<>> THEN check(requirement, instance) ELSE Returns(kept[1])
           IN Called("filtering", instance[2], <<"requirement", requirement>>,
                     Tried(filter(requirement, <<instance>>)))

AttributesNext == Next \/ Assigning \/ Filtering
AttributesSpec == Init /\ [][AttributesNext]_vars

(***************************************************************************)
(* Properties.                                                             *)
(***************************************************************************)
\* What a comparison means.
Meets(requirement, checked) ==
    LET value == requirement.value
        Among(e, collection) ==
            IF IsText(collection) THEN PartOf(TextOf(e), TextOf(collection))
            ELSE \E x \in ToSet(Elements(collection)) : Canonical(x) = Canonical(e)
    IN CASE requirement.operator = "equal" -> Canonical(checked) = Canonical(value)
         [] requirement.operator = "not_equal" -> Canonical(checked) # Canonical(value)
         [] requirement.operator = "text_match" ->
              /\ IsText(checked)
              /\ \A word \in Words[TextOf(value)] : word \in Words[TextOf(checked)]
         [] requirement.operator = "contains" -> Among(value, checked)
         [] requirement.operator = "contained_in" -> Among(checked, value)
         [] requirement.operator = "contains_any" ->
              \E e \in ToSet(Elements(value)) : Among(e, checked)

\* What a requirement means for an instance, and whether it is decided: the path
\* of each comparison that is made leads somewhere, and what is there can be
\* compared.
Judged(requirement, found) ==
    LET Decides(answer) == answer.ok \/ answer.error = "ValueError"
    IN IF found.ok /\ Decides(Compared(requirement, found))
       THEN [decided |-> TRUE, holds |-> Meets(requirement, found.value)]
       ELSE [decided |-> FALSE, holds |-> FALSE]

\* With "or" the second one is not asked once the first one holds, with "and" once
\* it does not.
Jointly(operator, first, second) ==
    [decided |-> first.decided /\ (first.holds = (operator = "and") => second.decided),
     holds |-> IF operator = "and" THEN first.holds /\ second.holds ELSE first.holds \/ second.holds]

RECURSIVE Meaning(_, _)
Meaning(requirement, root) ==
    IF requirement.joined = <<>> THEN Judged(requirement, ReadBy(requirement.steps, root))
    ELSE Jointly(requirement.operator,
                 Meaning(requirement.joined[1], root), Meaning(requirement.joined[2], root))

(* A filter keeps only instances that satisfy the requirement, however     *)
(* requirements are joined and whatever they raise, and it keeps all of    *)
(* them for which no path in what is asked leads nowhere and no comparison *)
(* is one that cannot be made: an "or" whose first side raises something   *)
(* else than ValueError drops the instance, whatever its second side says. *)
FilterKeepsSatisfying ==
    LET Agrees(meaning) == call.result.ok <=> meaning.holds /\ meaning.decided
    IN call.op = "filtering" => Agrees(Meaning(call.given[2], call.before))
=============================================================================
