----------------------------- MODULE ConfigBind -----------------------------
(***************************************************************************)
(* internal/maputils/bind.go: how Config.Bind fills a struct from the tree *)
(* of values, and how SetDefaults turns a struct into such a tree.         *)
(*                                                                         *)
(* A type is a record with a kind and its parts; a struct is a sequence of *)
(* fields and its value a sequence of theirs; a pointer is << >> or <<x>>. *)
(* A value of the tree is a record with a kind: int, uint, float (counted  *)
(* in halves), dur, bool, text, list, slice (a typed one), map or nil. A   *)
(* text is a sequence of tokens, the parts between its commas. 64-bit      *)
(* integers have Wide bits here. Keys are spellings, in their Go order.    *)
(***************************************************************************)
EXTENDS Integers, SequencesExt

CONSTANTS
    Structs,    \* types bound to: sequences of fields [name, tag, embed, exported, type]
    Documents,  \* contents a Load may give the tree: key -> value
    RawMaps,    \* values given to Set as they are: sets of <<key, value>>
    Spellings,  \* every key, in ascending order
    ToLower,    \* [key -> its lower case]
    NoTag,      \* a field without a json tag
    Wide,       \* bits of int64 and uint64
    MaxBindSteps

ASSUME BindAssumption ==
    /\ Structs # {} /\ Documents # {} /\ Wide \in Nat \ {0} /\ MaxBindSteps \in Nat
    /\ \A key \in Range(Spellings) : ToLower[key] \in Range(Spellings)

VARIABLES
    type,    \* the struct type in play
    dest,    \* the struct
    doc,     \* the tree Bind reads
    cast,    \* the bits a float that is out of range is converted to
    before,  \* dest and doc at the last Bind
    outcome, \* "none" before the first Bind, "ok", or "error"
    steps
bindVars == <<type, dest, doc, cast, before, outcome, steps>>

Place(key) == CHOOSE i \in DOMAIN Spellings : Spellings[i] = key
InOrder(keys) == SelectSeq(Spellings, LAMBDA key : key \in keys)
Scalar(form, halves) == [form |-> form, halves |-> halves]
Nil == [kind |-> "nil"]
Failed(d) == [ok |-> FALSE, val |-> d]
Done(x) == [ok |-> TRUE, val |-> x]

RECURSIVE ZeroOf(_)
ZeroOf(T) ==
    CASE T.kind \in {"int", "uint", "dur", "float"} -> 0
      [] T.kind = "bool" -> FALSE
      [] T.kind \in {"ptr", "slice", "string"} -> << >>
      [] T.kind = "array" -> [i \in 1..T.len |-> ZeroOf(T.elem)]
      [] T.kind = "map" -> [key \in {} |-> 0]
      [] T.kind = "any" -> Nil
      [] T.kind = "struct" -> [i \in DOMAIN T.fields |-> ZeroOf(T.fields[i].type)]

(***************************************************************************)
(* Which key binds to which field                                          *)
(***************************************************************************)
\* The struct an embedded field stands for, through a pointer.
Embedded(T) == IF T.kind = "ptr" THEN T.elem ELSE T
IsEmbedded(f) == f.embed /\ Embedded(f.type).kind = "struct"

\* The exported fields, those of embedded structs in their place.
RECURSIVE Exposed(_, _)
Exposed(fields, path) ==
    FoldLeft(LAMBDA acc, i :
                LET f == fields[i] IN
                IF ~f.exported THEN acc
                ELSE IF IsEmbedded(f)
                THEN acc \o Exposed(Embedded(f.type).fields, Append(path, i))
                ELSE Append(acc, [field |-> f, path |-> Append(path, i)]),
             << >>, [i \in DOMAIN fields |-> i])

\* buildStructFieldMap: a tag takes its key over, a name only a free one.
buildStructFieldMap(fields) ==
    FoldLeft(LAMBDA acc, e :
                LET tag == IF e.field.tag = NoTag THEN {} ELSE {e.field.tag}
                    name == {ToLower[e.field.name]} \ (DOMAIN acc \cup tag)
                IN [key \in DOMAIN acc \cup tag \cup name |->
                       IF key \in tag \cup name THEN [path |-> e.path, tagged |-> e.field.tag # NoTag
                                                                           /\ key \in tag]
                       ELSE acc[key]],
             [key \in {} |-> << >>], Exposed(fields, << >>))

\* A key's field and rank; lower ranks win. Fault: a name is as good as a tag.
Rank_flat(info, exact) == IF exact THEN 0 ELSE 1
Rank(info, exact) == (IF exact THEN 0 ELSE 1) + (IF info.tagged THEN 0 ELSE 2)

Match(fieldMap, key, foldCase) ==
    IF key \in DOMAIN fieldMap
    THEN {[key |-> key, path |-> fieldMap[key].path, rank |-> Rank(fieldMap[key], TRUE)]}
    ELSE IF foldCase /\ ToLower[key] \in DOMAIN fieldMap
    THEN LET info == fieldMap[ToLower[key]]
         IN {[key |-> key, path |-> info.path, rank |-> Rank(info, FALSE)]}
    ELSE {}

\* Only a strictly better rank replaces the match a smaller key made.
matchFields(m, fieldMap, foldCase) ==
    FoldLeft(LAMBDA acc, key :
                FoldLeft(LAMBDA a, match :
                            LET i == SelectInSeq(a, LAMBDA old : old.path = match.path) IN
                            IF i = 0 THEN Append(a, match)
                            ELSE IF match.rank < a[i].rank THEN ReplaceAt(a, i, match) ELSE a,
                         acc, SetToSeq(Match(fieldMap, key, foldCase))),
             << >>, InOrder(DOMAIN m))

(***************************************************************************)
(* Scalars. Each conversion returns the set of its results: none is an     *)
(* error.                                                                  *)
(***************************************************************************)
Pow2(n) == 2 ^ n
IntRange(bits) == -Pow2(bits - 1)..Pow2(bits - 1) - 1
UintRange(bits) == 0..Pow2(bits) - 1
\* Go truncates towards zero.
TowardZero(halves) == IF halves >= 0 THEN halves \div 2 ELSE -((-halves) \div 2)
\* The number a text spells, when it spells one whole.
Spelled(v) ==
    IF Len(v.parts) = 1 /\ v.parts[1].form = "number" /\ v.parts[1].halves % 2 = 0
    THEN {v.parts[1].halves \div 2} ELSE {}

toInt64(v) ==
    CASE v.kind \in {"int", "dur"} -> {v.n}
      [] v.kind = "uint" -> {v.n} \cap IntRange(Wide)
      [] v.kind = "float" ->
            IF TowardZero(v.halves) \in IntRange(Wide) THEN {TowardZero(v.halves)}
            ELSE {IF cast < Pow2(Wide - 1) THEN cast ELSE cast - Pow2(Wide)}
      [] v.kind = "text" -> Spelled(v) \cap IntRange(Wide)
      [] OTHER -> {}

toUint64(v) ==
    CASE v.kind = "uint" -> {v.n}
      [] v.kind = "int" -> {v.n} \cap Nat
      [] v.kind = "float" ->
            IF v.halves < 0 THEN {}
            ELSE IF TowardZero(v.halves) \in UintRange(Wide) THEN {TowardZero(v.halves)}
            ELSE {cast}
      [] v.kind = "text" -> Spelled(v) \cap UintRange(Wide)
      [] OTHER -> {}

\* A number without a unit is a duration only when it is 0.
toDuration(v) ==
    CASE v.kind = "dur" -> {v.n}
      [] v.kind \in {"int", "uint"} -> {v.n} \cap {0}
      [] v.kind = "float" -> {v.halves} \cap {0}
      [] v.kind = "text" ->
            {p.halves \div 2 : p \in {x \in Range(v.parts) :
                /\ Len(v.parts) = 1
                /\ x.form = "unit" \/ (x.form = "number" /\ x.halves = 0)}}
      [] OTHER -> {}

toFloat64(v) ==
    CASE v.kind \in {"int", "uint"} -> {2 * v.n}
      [] v.kind = "float" -> {v.halves}
      [] v.kind = "text" ->
            IF Len(v.parts) = 1 /\ v.parts[1].form = "number" THEN {v.parts[1].halves} ELSE {}
      [] OTHER -> {}

toBool(v) ==
    CASE v.kind = "bool" -> {v.b}
      [] v.kind \in {"int", "uint"} -> {v.n # 0}
      [] v.kind = "float" -> {v.halves # 0}
      [] v.kind = "text" -> {h = 2 : h \in {p.halves : p \in {x \in Range(v.parts) :
                /\ Len(v.parts) = 1
                /\ x.form \in {"bool", "number"} /\ x.halves \in {0, 2}}}}
      [] OTHER -> {}

\* The text of a value: a scalar is formatted.
toString(v) ==
    CASE v.kind = "text" -> v.parts
      [] v.kind \in {"int", "uint"} -> <<Scalar("number", 2 * v.n)>>
      [] v.kind = "float" -> <<Scalar("number", v.halves)>>
      [] v.kind = "dur" -> <<Scalar("unit", 2 * v.n)>>
      [] v.kind = "bool" -> <<Scalar("bool", IF v.b THEN 2 ELSE 0)>>
      [] OTHER -> <<Scalar("word", 0)>>

withinIntRange(n, bits) == n \in IntRange(bits)
withinUintRange(n, bits) == n \in UintRange(bits)

setBasicKind(T, d, v) ==
    LET set(results) == IF results = {} THEN Failed(d) ELSE Done(CHOOSE x \in results : TRUE)
    IN CASE T.kind = "int" -> set({n \in toInt64(v) : withinIntRange(n, T.bits)})
         [] T.kind = "uint" -> set({n \in toUint64(v) : withinUintRange(n, T.bits)})
         [] T.kind = "dur" -> set(toDuration(v))
         [] T.kind = "float" -> set(toFloat64(v))
         [] T.kind = "bool" -> set(toBool(v))
         [] T.kind = "string" -> Done(toString(v))

(***************************************************************************)
(* Values                                                                  *)
(***************************************************************************)
RECURSIVE setValue(_, _, _)

\* The elements of a new slice or array, and whether all could be set.
NewElements(T, zeros, items) ==
    FoldLeft(LAMBDA acc, i :
                IF ~acc.ok THEN acc
                ELSE LET r == setValue(T, acc.val[i], items[i])
                     IN [ok |-> r.ok, val |-> [acc.val EXCEPT ![i] = r.val]],
             Done(zeros), [i \in DOMAIN items |-> i])

\* A list is built apart.
Rebuilt(d, r) == IF r.ok THEN r ELSE Failed(d)

Zeros(T, n) == [i \in 1..n |-> ZeroOf(T)]

\* A comma separated text is written over the old elements.
setSliceFromCSV(T, d, parts) ==
    NewElements(T, IF Len(d) < Len(parts) THEN d \o Zeros(T, Len(parts) - Len(d)) ELSE d,
                [i \in DOMAIN parts |-> [kind |-> "text", parts |-> <<parts[i]>>]])

setSliceValue(T, d, v) ==
    CASE v.kind \in {"list", "slice"} ->
            Rebuilt(d, NewElements(T.elem, Zeros(T.elem, Len(v.items)), v.items))
      [] v.kind = "text" -> setSliceFromCSV(T.elem, d, v.parts)
      [] OTHER -> Failed(d)

setArrayValue(T, d, v) ==
    IF v.kind = "list" /\ Len(v.items) <= T.len
    THEN Rebuilt(d, NewElements(T.elem, Zeros(T.elem, T.len), v.items)) ELSE Failed(d)

\* Every key is a text here, so none fails to convert.
setMapValue(T, d, v) ==
    IF v.kind # "map" THEN Failed(d)
    ELSE LET r == [key \in DOMAIN v.at |-> setValue(T.elem, ZeroOf(T.elem), v.at[key])]
         IN IF \E key \in DOMAIN r : ~r[key].ok THEN Failed(d)
            ELSE Done([key \in DOMAIN r |-> r[key].val])

\* getFieldByPath and setValue: the pointers on the way are allocated.
RECURSIVE SetAt(_, _, _, _)
SetAt(T, d, path, v) ==
    IF T.kind = "ptr"
    THEN LET r == SetAt(T.elem, IF d = << >> THEN ZeroOf(T.elem) ELSE d[1], path, v)
         IN [ok |-> r.ok, val |-> <<r.val>>]
    ELSE IF path = << >> THEN setValue(T, d, v)
    ELSE LET i == Head(path)
             r == SetAt(T.fields[i].type, d[i], Tail(path), v)
         IN [ok |-> r.ok, val |-> [d EXCEPT ![i] = r.val]]

\* The fields are written in key order until one fails; what was written
\* stays.
setStructFromMap(T, d, m, foldCase) ==
    FoldLeft(LAMBDA acc, match :
                IF acc.ok THEN SetAt(T, acc.val, match.path, m[match.key]) ELSE acc,
             Done(d), matchFields(m, buildStructFieldMap(T.fields), foldCase))

setStructValue(T, d, v) ==
    IF v.kind = "map" THEN setStructFromMap(T, d, v.at, TRUE) ELSE Failed(d)

setValue(T, d, v) ==
    IF T.kind = "ptr" THEN SetAt(T, d, << >>, v)
    ELSE IF v = Nil THEN Done(ZeroOf(T))
    ELSE CASE T.kind = "struct" -> setStructValue(T, d, v)
           [] T.kind = "map" -> setMapValue(T, d, v)
           [] T.kind = "slice" -> setSliceValue(T, d, v)
           [] T.kind = "array" -> setArrayValue(T, d, v)
           [] T.kind = "any" -> Done(v)
           [] OTHER -> setBasicKind(T, d, v)

Bind(fields, d, m) == setStructFromMap([kind |-> "struct", fields |-> fields], d, m, FALSE)

(***************************************************************************)
(* Unbind                                                                  *)
(***************************************************************************)
RECURSIVE getAnyFromValue(_, _), setMapFromStruct(_, _)
getAnyFromValue(T, d) ==
    CASE T.kind = "ptr" -> IF d = << >> THEN Nil ELSE getAnyFromValue(T.elem, d[1])
      [] T.kind = "struct" -> [kind |-> "map", at |-> setMapFromStruct(T.fields, d)]
      [] T.kind = "map" ->
            [kind |-> "map", at |-> [key \in DOMAIN d |-> getAnyFromValue(T.elem, d[key])]]
      [] T.kind \in {"slice", "array"} ->
            [kind |-> "list", items |-> [i \in DOMAIN d |-> getAnyFromValue(T.elem, d[i])]]
      [] T.kind = "float" -> [kind |-> "float", halves |-> d]
      [] T.kind = "bool" -> [kind |-> "bool", b |-> d]
      [] T.kind = "string" -> [kind |-> "text", parts |-> d]
      [] T.kind = "any" -> d
      [] OTHER -> [kind |-> T.kind, n |-> d]

\* handleEmbeddedField: its fields become keys of the struct around it, a nil
\* pointer none. A later field of a key wins.
setMapFromStruct(fields, d) ==
    LET own(i) ==
            LET f == fields[i]
                key == ToLower[IF f.tag = NoTag THEN f.name ELSE f.tag]
            IN IF ~f.exported THEN [k \in {} |-> Nil]
               ELSE IF ~IsEmbedded(f) THEN [k \in {key} |-> getAnyFromValue(f.type, d[i])]
               ELSE IF f.type.kind # "ptr" THEN setMapFromStruct(f.type.fields, d[i])
               ELSE IF d[i] = << >> THEN [k \in {} |-> Nil]
               ELSE setMapFromStruct(f.type.elem.fields, d[i][1])
    IN FoldLeft(LAMBDA acc, i :
                   [k \in DOMAIN acc \cup DOMAIN own(i) |->
                       IF k \in DOMAIN own(i) THEN own(i)[k] ELSE acc[k]],
                [k \in {} |-> Nil], [i \in DOMAIN fields |-> i])

(***************************************************************************)
(* Calls                                                                   *)
(***************************************************************************)
BindInit ==
    /\ type \in Structs
    /\ dest = ZeroOf([kind |-> "struct", fields |-> type])
    /\ doc = [k \in {} |-> Nil]
    /\ cast \in UintRange(Wide)
    /\ before = [dest |-> dest, doc |-> doc]
    /\ outcome = "none" /\ steps = 0

Step ==
    /\ steps < MaxBindSteps /\ steps' = steps + 1
    /\ UNCHANGED <<type, cast>>

\* maputils.Merge: of two values that are not both maps, the one of `over`
\* stays. The keys are lower case already.
RECURSIVE MergeMaps(_, _)
MergeMaps(m, over) ==
    [k \in DOMAIN m \cup DOMAIN over |->
        IF k \notin DOMAIN over THEN m[k]
        ELSE IF k \in DOMAIN m /\ m[k].kind = "map" /\ over[k].kind = "map"
        THEN [kind |-> "map", at |-> MergeMaps(m[k].at, over[k].at)]
        ELSE over[k]]

Loads ==
    /\ Step /\ UNCHANGED <<dest, before, outcome>>
    /\ \E d \in Documents : doc' = MergeMaps(doc, d)

\* Set lowers its key, not the keys of a map it is given.
SetsRaw ==
    /\ Step /\ UNCHANGED <<dest, before, outcome>>
    /\ \E kv \in RawMaps :
          doc' = [k \in DOMAIN doc \cup {ToLower[kv[1]]} |->
                     IF k = ToLower[kv[1]] THEN kv[2] ELSE doc[k]]

\* SetDefaults with the struct as it is: MergeWithoutOverride, what is there
\* stays.
SetsDefaults ==
    /\ Step /\ UNCHANGED <<dest, before, outcome>>
    /\ doc' = MergeMaps(setMapFromStruct(type, dest), doc)

Binds ==
    /\ Step /\ UNCHANGED doc
    /\ before' = [dest |-> dest, doc |-> doc]
    /\ LET r == Bind(type, dest, doc)
       IN dest' = r.val /\ outcome' = IF r.ok THEN "ok" ELSE "error"

BindNext == Loads \/ SetsRaw \/ SetsDefaults \/ Binds

BindSpec == BindInit /\ [][BindNext]_bindVars

(***************************************************************************)
(* Properties                                                              *)
(***************************************************************************)
\* The keys of m that answer to field f, by its tag and by its name.
ByTag(m, f) == IF f.tag = NoTag THEN {} ELSE {f.tag} \cap DOMAIN m
ByName(m, f) == {ToLower[f.name]} \cap DOMAIN m

\* A top level field no other field of the struct answers for.
Alone(i) == \A j \in DOMAIN type : LET f == type[i] g == type[j] IN
    i # j => /\ ~IsEmbedded(f) /\ ~IsEmbedded(g)
             /\ {f.tag, ToLower[f.name]} \cap {g.tag, ToLower[g.name]} \subseteq {NoTag}

\* "It is matched by its json tag, then by its lowercased name", whatever the
\* order of the keys; "a field with no key keeps its value".
TagBeforeName ==
    outcome = "ok" =>
        \A i \in DOMAIN type : LET f == type[i] m == before.doc old == before.dest[i] IN
            Alone(i) /\ f.exported =>
                dest[i] = IF ByTag(m, f) # {} THEN setValue(f.type, old, m[f.tag]).val
                          ELSE IF ByName(m, f) # {}
                          THEN setValue(f.type, old, m[ToLower[f.name]]).val
                          ELSE old

\* The whole number a value stands for, if it is one.
Number(v) == CASE v.kind \in {"int", "uint"} -> {v.n} [] v.kind = "text" -> Spelled(v)
               [] OTHER -> {}

\* An integer field that was bound holds the very number the tree holds, which
\* fits it.
NumbersAreKept ==
    outcome = "ok" =>
        \A i \in DOMAIN type : LET f == type[i] m == before.doc IN
            Alone(i) /\ f.exported /\ f.type.kind \in {"int", "uint"} =>
                \A key \in (IF ByTag(m, f) # {} THEN {f.tag} ELSE ByName(m, f)) :
                    \A n \in Number(m[key]) :
                        dest[i] = n /\ n \in IF f.type.kind = "int" THEN IntRange(f.type.bits)
                                             ELSE UintRange(f.type.bits)

\* "The destination keeps its previous contents if an element fails to
\* convert": of a list, an array and a map; a comma separated text is written
\* in place.
FailedListIsKept ==
    outcome = "error" =>
        \A i \in DOMAIN type : LET f == type[i] m == before.doc IN
            /\ Alone(i) /\ f.exported /\ f.type.kind \in {"slice", "array", "map"}
            /\ \E key \in (IF ByTag(m, f) # {} THEN {f.tag} ELSE ByName(m, f)) :
                  /\ m[key].kind # "text"
                  /\ ~setValue(f.type, before.dest[i], m[key]).ok
            => dest[i] = before.dest[i]

\* Bind fills the field that is meant, with what is there, or leaves it.
BindHolds == TagBeforeName /\ NumbersAreKept /\ FailedListIsKept
=============================================================================
