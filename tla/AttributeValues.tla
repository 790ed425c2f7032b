-------------------------- MODULE AttributeValues --------------------------
(***************************************************************************)
(* The Python values that State attributes are built from, and what their  *)
(* own types do with them: equality, hashing, JSON.  A value is a tuple    *)
(* whose first element names its type, so that values of different types   *)
(* are never compared by what they hold.  Numbers count halves: <<"int",2>>*)
(* is 1 and <<"float",3>> is 1.5.  Bytes are never looked into, a text     *)
(* only where it stands for the sequence of its characters.                *)
(***************************************************************************)
EXTENDS Integers, Sequences, FiniteSets, SequencesExt

CONSTANTS
    StrMembers,  \* the StrEnum: its member names and the text of each
    IntMembers,  \* the IntEnum: its member names and the number of each
    Texts        \* for "uuid", "datetime", "date", "time", "int" and "bool", the
                 \* texts Python reads as one, each with what it reads

None == <<"none">>
MISSING == <<"missing">>
Bool(b) == <<"bool", IF b THEN 2 ELSE 0>>
Str(text) == <<"str", text>>

TypeOf(v) == v[1]
IsInt(v) == TypeOf(v) \in {"bool", "int", "intenum"}
IsText(v) == TypeOf(v) \in {"str", "strenum"}
IsSequence(v) == TypeOf(v) \in {"list", "tuple"}
IsSet(v) == TypeOf(v) \in {"set", "frozenset"}
IsMapping(v) == TypeOf(v) \in {"dict", "map", "meta"}
IsIterable(v) == IsSequence(v) \/ IsSet(v) \/ IsMapping(v)

Number(v) == IF TypeOf(v) = "intenum" THEN IntMembers[v[2]] ELSE v[2]
TextOf(v) == IF TypeOf(v) = "strenum" THEN StrMembers[v[2]] ELSE v[2]
Reads(type, v) == TextOf(v) \in DOMAIN Texts[type]
Read(type, v) == Texts[type][TextOf(v)]

\* The elements of an iterable in the order that a loop over it meets them; of
\* a text its characters, which are texts.
Elements(v) ==
    IF IsSequence(v) THEN v[2]
    ELSE IF IsText(v)
         THEN [i \in 1..Len(TextOf(v)) |-> Str(SubSeq(TextOf(v), i, i))]
    ELSE SetToSeq(IF IsSet(v) THEN v[2] ELSE DOMAIN v[2])

(***************************************************************************)
(* Values that Python calls equal have the same canonical form: numbers of *)
(* any type, texts and their enum members, sets, mappings.                 *)
(***************************************************************************)
RECURSIVE Canonical(_)
Canonical(v) ==
    LET Whole(f) == [k \in DOMAIN f |-> Canonical(f[k])]
    IN CASE IsInt(v) \/ TypeOf(v) = "float" -> <<"number", Number(v)>>
         [] IsText(v) -> <<"str", TextOf(v)>>
         [] IsSequence(v) -> <<TypeOf(v), Whole(v[2])>>
         [] IsSet(v) -> <<"set", {Canonical(e) : e \in v[2]}>>
         [] IsMapping(v) ->
              <<"mapping", {<<Canonical(k), Canonical(v[2][k])>> : k \in DOMAIN v[2]}>>
         [] TypeOf(v) = "state" -> <<"state", v[2], Whole(v[3])>>
         [] OTHER -> v

Equal(v, w) == Canonical(v) = Canonical(w)

\* A State skips the attributes it cannot hash, so it is always hashable.
RECURSIVE Hashable(_)
Hashable(v) ==
    /\ TypeOf(v) \notin {"list", "set", "dict", "map", "meta"}
    /\ TypeOf(v) = "tuple" => \A i \in DOMAIN v[2] : Hashable(v[2][i])

\* A frozenset keeps the first of the elements that are equal.
Distinct(s) ==
    {s[i] : i \in {j \in DOMAIN s : \A k \in 1..(j - 1) : ~Equal(s[k], s[j])}}

(***************************************************************************)
(* What validation returns: a value, or an exception with the path of the  *)
(* scopes it has left.  A scope turns an exception into a ValidationError  *)
(* that carries its path; one that has a path already passes through.      *)
(***************************************************************************)
Returns(v) == [ok |-> TRUE, value |-> v]
Raises(error) == [ok |-> FALSE, error |-> error, path |-> <<>>]
In(step, r) == IF r.ok THEN r ELSE [r EXCEPT !.path = <<step>> \o @]

\* All results in order, or the first exception among them.
Collected(results) ==
    IF \A i \in DOMAIN results : results[i].ok
    THEN Returns([i \in DOMAIN results |-> results[i].value])
    ELSE results[CHOOSE i \in DOMAIN results :
                     ~results[i].ok /\ \A j \in 1..(i - 1) : results[j].ok]

(***************************************************************************)
(* JSON: what json.dumps with the attributes encoder writes of a mapping   *)
(* that to_mapping made, read again with json.loads.  "keys" says, for each *)
(* class, under which key to_mapping puts each of its attributes.          *)
(***************************************************************************)
Printed(v) == CASE IsText(v) -> TextOf(v)
                [] TypeOf(v) = "bool" -> IF v = Bool(TRUE) THEN "true" ELSE "false"
                [] TypeOf(v) = "none" -> "null"
                [] OTHER -> CHOOSE t \in DOMAIN Texts["int"] : Texts["int"][t] = Number(v)

RECURSIVE Encodable(_)
Encodable(v) ==
    CASE IsIterable(v) ->
           /\ ~IsMapping(v) => \A i \in DOMAIN Elements(v) : Encodable(Elements(v)[i])
           /\ IsMapping(v) => \A k \in DOMAIN v[2] :
                  /\ IsText(k) \/ IsInt(k) \/ TypeOf(k) = "none"
                  /\ Encodable(v[2][k])
      [] TypeOf(v) = "state" ->
           \A f \in DOMAIN v[3] : v[3][f] = MISSING \/ Encodable(v[3][f])
      [] OTHER -> TypeOf(v) \notin {"missing", "bytes", "callable", "custom"}

RECURSIVE Decoded(_, _)
Decoded(keys, v) ==
    CASE TypeOf(v) \in {"none", "bool", "float"} -> v
      [] IsInt(v) -> <<"int", Number(v)>>
      [] IsMapping(v) ->
           LET printed == {Printed(k) : k \in DOMAIN v[2]}
           IN <<"dict", [s \in {Str(t) : t \in printed} |->
                  Decoded(keys, v[2][CHOOSE k \in DOMAIN v[2] : Printed(k) = s[2]])]>>
      [] IsIterable(v) ->
           <<"list", [i \in DOMAIN Elements(v) |-> Decoded(keys, Elements(v)[i])]>>
      [] TypeOf(v) = "state" ->
           LET present == {f \in DOMAIN v[3] : v[3][f] # MISSING}
           IN <<"dict", [s \in {Str(keys[v[2]][f]) : f \in present} |->
                  Decoded(keys, v[3][CHOOSE f \in present : keys[v[2]][f] = s[2]])]>>
      [] OTHER -> Str(TextOf(v))
=============================================================================
