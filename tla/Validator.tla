----------------------------- MODULE Validator -----------------------------
(***************************************************************************)
(* validate() of src/app/Helpers/validator.ts: the fields of a payload are *)
(* checked one after another against their rules, in the order in which    *)
(* the rule set names them, each against the payload as the fields before  *)
(* it have converted it.  A rule that asks the database waits for it, so   *)
(* requests interleave between the fields.                                 *)
(*                                                                         *)
(* A payload is a tree of values.  A string is one of a few texts whose    *)
(* readings (as a number, a date, JSON, a list) are tables.  Messages are  *)
(* left out: an error is the path that has it.                             *)
(***************************************************************************)
EXTENDS Integers, Sequences, FiniteSets, SequencesExt

(* --- values --- *)

Missing == [k |-> "missing"]
Nul == [k |-> "null"]
Str(s) == [k |-> "str", s |-> s]
Num(n) == [k |-> "num", n |-> n]
Bool(b) == [k |-> "bool", b |-> b]
Day(d) == [k |-> "date", d |-> d]
Tree(f) == [k |-> "obj", f |-> f]
Index == <<"0", "1", "2">>
Arr(vs) == [k |-> "arr", f |-> [i \in {Index[j] : j \in DOMAIN vs} |-> vs[CHOOSE j \in DOMAIN vs : Index[j] = i]]]
Items(v) == [j \in 1..Cardinality(DOMAIN v.f) |-> v.f[Index[j]]]

\* What JavaScript makes of the texts: their length, Number(), the date, the
\* JSON array or the comma-separated list they hold, their characters.
Size(s) == Len(s)
NumberOf(s) == CASE s = "5" -> Num(5) [] s = "10" -> Num(10) [] s = "1" -> Num(1) [] OTHER -> Missing
IntOf(s) == CASE s = "5,10" -> Num(5) [] s = "2025-01-02" -> Num(2025) [] s = "03/01/2025" -> Num(3)
              [] OTHER -> NumberOf(s)
DateOf(v) == CASE v.k = "date" -> v
               [] v.k = "num" -> Day(v.n - 20)                \* months of 2001
               [] v.k = "str" /\ NumberOf(v.s) # Missing -> Day(NumberOf(v.s).n - 20)
               [] v.k = "str" /\ v.s = "2025-01-02" -> Day(2)
               [] v.k = "str" /\ v.s = "03/01/2025" -> Day(3)
               [] OTHER -> Missing
JsonOf(s) == CASE s = "[5,10]" -> Arr(<<Num(5), Num(10)>>)
               [] NumberOf(s) # Missing -> NumberOf(s)
               [] OTHER -> Missing
ListOf(s) == IF s = "5,10" THEN Arr(<<Str("5"), Str("10")>>) ELSE Missing
Chars(s) == CASE s = "5,10" -> <<"5", ",", "1">>
              [] s = "[5,10]" -> <<"[", "5", ",">>
              [] OTHER -> <<>>
Emails == {"a@x.y", "b@x.y"}
Truths == {"yes", "1"}
Falsehoods == {"no"}

RECURSIVE TextOf(_)
TextOf(v) == CASE v.k = "str" -> v.s
               [] v.k = "num" -> ToString(v.n)
               [] v.k = "bool" -> IF v.b THEN "true" ELSE "false"
               [] v.k = "arr" -> FoldLeft(LAMBDA t, i : (IF t = "" THEN "" ELSE t \o ",") \o TextOf(i), "", Items(v))
               [] v.k \in {"missing", "null"} -> ""
               [] v.k = "date" -> "Thu"
               [] OTHER -> "[object]"
AsNumber(v) == CASE v.k = "num" -> v
                 [] v.k = "str" -> NumberOf(v.s)
                 [] v.k = "bool" -> Num(IF v.b THEN 1 ELSE 0)
                 [] v.k = "null" -> Num(0)
                 [] v.k = "date" -> Num(1000 * v.d)
                 [] OTHER -> Missing
Present(v) == v.k \notin {"missing", "null"} /\ v # Str("")
\* ===: two arrays, objects or dates are never the same one
Identical(x, y) == x = y /\ x.k \notin {"arr", "obj", "date"}

(* --- paths --- *)

Inner(v) == v.k \in {"arr", "obj"}
Child(v, seg) ==
    CASE Inner(v) -> IF seg \in DOMAIN v.f THEN v.f[seg] ELSE Missing
      [] v.k = "str" -> IF \E j \in DOMAIN Chars(v.s) : Index[j] = seg
                          THEN Str(Chars(v.s)[CHOOSE j \in DOMAIN Chars(v.s) : Index[j] = seg]) ELSE Missing
      [] OTHER -> Missing
getAtPath(v, path) == FoldLeft(Child, v, path)

\* setAtPath: only into a container; into a missing value a container is put.
RECURSIVE setAtPath(_, _, _)
setAtPath(v, path, val) ==
    IF path = <<>> THEN val
    ELSE LET new == setAtPath(Child(v, Head(path)), Tail(path), val)
             held == IF Inner(v) THEN v.f ELSE <<>>
             kind == IF Inner(v) THEN v.k ELSE "obj"
         IN [k |-> kind, f |-> [s \in DOMAIN held \union {Head(path)} |->
                                  IF s = Head(path) THEN new ELSE held[s]]]
\* TypeError: a property of a string, a number or a boolean is assigned
CannotSet(v, path) == \E i \in 1..(Len(path) - 1) :
    getAtPath(v, SubSeq(path, 1, i)).k \in {"str", "num", "bool", "date"}

\* normalizePattern runs a wildcard into the name before it: "l.*" is the name
\* "l*" and "l.*.x" the path "l*.x", which no payload has.
Normalized(field) ==
    FoldLeft(LAMBDA path, seg : IF seg = "*" /\ path # <<>> THEN Append(Front(path), Last(path) \o "*")
                                ELSE Append(path, seg), <<>>, field)

\* The paths that an entry of the rule set is about.  Only a wildcard at the
\* end finds its parent again, and only the elements of a list, given as such
\* or as a text, are its fields: over an object or no value at all it stays
\* the name that nothing has.
Elements(v) == CASE v.k = "arr" -> v
                 [] v.k = "str" /\ JsonOf(v.s).k = "arr" -> JsonOf(v.s)
                 [] v.k = "str" -> ListOf(v.s)
                 [] OTHER -> Missing
expandFieldPaths(out, field) ==
    LET parent == Normalized(Front(field))
        parts == IF Last(field) = "*" THEN Elements(getAtPath(out, parent)) ELSE Missing
    IN IF parts = Missing THEN <<Normalized(field)>>
       ELSE [j \in 1..Cardinality(DOMAIN parts.f) |-> Append(parent, Index[j])]

(* --- rules --- *)

\* A rule: its name and its argument, a number, a field, texts or nested rules.
Rule(is, arg) == [is |-> is, arg |-> arg]
Has(rules, is) == \E i \in DOMAIN rules : rules[i].is = is

\* required_if, required_with and the others
AsksFor(out, rule) ==
    LET Is(f) == TextOf(getAtPath(out, <<f>>))
        On(f) == Present(getAtPath(out, <<f>>))
    IN \/ rule.is = "required"
       \/ rule.is = "required_if" /\ Is(rule.arg.field) \in rule.arg.values
       \/ rule.is = "required_unless" /\ Is(rule.arg.field) \notin rule.arg.values
       \/ rule.is = "required_with" /\ \E f \in rule.arg : On(f)
       \/ rule.is = "required_with_all" /\ \A f \in rule.arg : On(f)
       \/ rule.is = "required_without" /\ \E f \in rule.arg : ~On(f)
       \/ rule.is = "required_without_all" /\ \A f \in rule.arg : ~On(f)

\* What a rule that converts makes of a value; Missing: it cannot.
Converted(val, rule) ==
    CASE rule.is \in {"string", "email"} -> Str(TextOf(val))
      [] rule.is = "int" -> IntOf(TextOf(val))
      [] rule.is = "numeric" -> AsNumber(val)
      [] rule.is = "boolean" -> CASE val.k = "bool" -> val
                                  [] val.k = "str" /\ val.s \in Truths -> Bool(TRUE)
                                  [] val.k = "str" /\ val.s \in Falsehoods -> Bool(FALSE)
                                  [] OTHER -> Missing
      [] rule.is = "array" -> CASE val.k = "arr" -> val
                                [] val.k = "str" /\ JsonOf(val.s).k = "arr" -> JsonOf(val.s)
                                [] OTHER -> Missing
      [] rule.is = "json" -> IF val.k = "str" THEN JsonOf(val.s) ELSE val
      [] rule.is \in {"date", "datetime"} -> DateOf(val)
      [] OTHER -> val

\* min, max, size and between measure a number, or how long a text or a list is.
Measure(val) == CASE val.k = "num" -> val.n [] val.k = "str" -> Size(val.s)
                  [] val.k = "arr" -> Cardinality(DOMAIN val.f)
Measured(val) == val.k \in {"num", "str", "arr"}

Ordered(is, x, y) == CASE is \in {"gt", "after"} -> x > y
                       [] is \in {"gte", "after_or_equal"} -> x >= y
                       [] is \in {"lt", "before"} -> x < y
                       [] is \in {"lte", "before_or_equal"} -> x =< y
                       [] is = "date_equals" -> x = y
\* The texts in the order in which JavaScript compares them.
Sorted == <<"", ",", "03/01/2025", "1", "10", "2025", "2025-01-02", "3", "5", "5,10", "Thu", "[", "[5,10]",
            "[object]", "a@x.y", "abc", "b@x.y", "false", "no", "true", "yes">>
Place(s) == CHOOSE i \in DOMAIN Sorted : Sorted[i] = s

\* gt, gte, lt, lte with another field
Compares(val, other, is) ==
    LET n == AsNumber(val) m == AsNumber(other)
    IN \/ other = Missing
       \/ IF n # Missing /\ m # Missing THEN Ordered(is, n.n, m.n)
          ELSE IF DateOf(val) # Missing /\ DateOf(other) # Missing
            THEN Ordered(is, DateOf(val).d, DateOf(other).d)
          ELSE Ordered(is, Place(TextOf(val)), Place(TextOf(other)))

\* before, after and the others, with another field or a literal date
ComparesDates(val, other, is) ==
    /\ DateOf(val) # Missing
    /\ DateOf(other) = Missing \/ Ordered(is, DateOf(val).d, DateOf(other).d)

\* in, not_in
Listing(rule, text) == IF rule.is = "in" THEN text \in rule.arg ELSE text \notin rule.arg
\* regex, starts_with and the others: arg is the set of texts that they match.
Matching == {"regex", "starts_with", "ends_with", "contains", "uuid", "url", "phone", "timezone"}
Matches(rule, text) == text \in rule.arg
\* date_format looks at what the field held before it was converted.
InFormat(rule, raw) == TextOf(raw) \in rule.arg
\* exists and unique, against the column that `taken` holds
InTable(rule, text, taken) == IF rule.is = "exists" THEN text \in taken[rule.arg] ELSE text \notin taken[rule.arg]
\* confirmed, same and different, with another field; accepted and declined
Agrees(rule, val, other) ==
    CASE rule.is \in {"confirmed", "same"} -> Identical(other, val)
      [] rule.is = "different" -> ~Identical(other, val)
Answer(is, val) == IF is = "accepted" THEN val \in {Bool(TRUE), Num(1), Str("1"), Str("yes"), Str("on")}
                   ELSE val \in {Bool(FALSE), Num(0), Str("0"), Str("no"), Str("off")}

\* Does a value, converted so far, of a field that held `raw` pass a rule?  taken
\* is what the tables hold.
Passes(out, raw, val, rule, taken) ==
    LET arg == rule.arg
        is == rule.is
        Other(f) == Child(out, f)
    IN CASE is = "email" -> TextOf(val) \in Emails
         [] is = "min" -> Measured(val) => Measure(val) >= arg
         [] is = "max" -> Measured(val) => Measure(val) =< arg
         [] is = "size" -> Measured(val) => Measure(val) = arg
         [] is = "between" -> Measured(val) => Measure(val) \in arg
         [] is \in {"in", "not_in"} -> Listing(rule, TextOf(val))
         [] is \in Matching -> Matches(rule, TextOf(val))
         [] is = "time" -> val.k = "str" /\ val.s \in arg
         [] is = "date_format" -> InFormat(rule, raw)
         [] is \in {"exists", "unique"} -> InTable(rule, TextOf(val), taken)
         [] is \in {"gt", "gte", "lt", "lte"} -> Compares(val, Other(arg), is)
         [] is \in {"before", "before_or_equal", "after", "after_or_equal", "date_equals"} ->
              ComparesDates(val, IF arg.field = "none" THEN Day(arg.date) ELSE Other(arg.field), is)
         [] is \in {"accepted", "declined"} -> Answer(is, val)
         [] is \in {"confirmed", "same", "different"} -> Agrees(rule, val, Other(arg))
         [] OTHER -> TRUE

\* Rules whose failure ends the field; the others only report theirs.
Ends == {"email", "url", "uuid", "phone", "time", "timezone", "accepted", "declined", "confirmed", "same",
         "different"}
NoValue == {"required", "nullable", "sometimes", "present", "required_if", "required_unless",
            "required_with", "required_with_all", "required_without", "required_without_all"}

(* --- the fields of a payload --- *)

\* A check under way: the payload as converted so far, the paths with errors, and
\* whether a TypeError ended it.
Begun(payload) == [out |-> payload, errors |-> {}, threw |-> FALSE]
Refused(res, path) == [res EXCEPT !.errors = @ \union {path}]
Stored(res, path, val) == IF CannotSet(res.out, path) THEN [res EXCEPT !.threw = TRUE]
                          ELSE [res EXCEPT !.out = setAtPath(@, path, val)]

\* The rules of a field one after another, on the value as the ones before made it.
Rules(res, path, rules, raw, taken) ==
    LET Apply(acc, rule) ==
          IF acc.failed \/ rule.is \in NoValue THEN acc
          ELSE LET val == Converted(acc.val, rule)
               IN IF val = Missing THEN [acc EXCEPT !.failed = TRUE, !.wrong = TRUE]
                  ELSE IF Passes(res.out, raw, val, rule, taken) THEN [acc EXCEPT !.val = val]
                  ELSE [acc EXCEPT !.wrong = TRUE, !.failed = rule.is \in Ends, !.val = val]
        end == FoldLeft(Apply, [val |-> raw, failed |-> FALSE, wrong |-> FALSE], rules)
        told == IF end.wrong THEN Refused(res, path) ELSE res
    IN IF end.failed THEN told ELSE Stored(told, path, end.val)

\* A field with string rules
CheckRules(res, path, rules, taken) ==
    LET raw == getAtPath(res.out, path)
    IN IF Has(rules, "sometimes") /\ ~Present(raw) THEN res
       ELSE IF Has(rules, "present") /\ raw = Missing THEN Refused(res, path)
       ELSE IF Present(raw) THEN Rules(res, path, rules, raw, taken)
       ELSE IF \E i \in DOMAIN rules : AsksFor(res.out, rules[i]) THEN Refused(res, path)
       ELSE res

\* An entry of a rule set: the pattern of its fields, string rules or a function.
Entry(field, rules) == [field |-> field, fn |-> "none", rules |-> rules]
FnEntry(field, fn, rules) == [field |-> field, fn |-> fn, rules |-> rules]

\* imagesRule and amenitiesRule make a list of what they get, arrayOfObjectsRule
\* of one object or of JSON; Missing: it cannot.
Listed(fn, raw) ==
    CASE raw.k = "arr" \/ (raw.k = "obj" /\ fn = "images") -> raw
      [] raw.k = "str" /\ JsonOf(raw.s).k = "arr" -> JsonOf(raw.s)
      [] raw.k = "str" /\ fn = "images" -> IF ListOf(raw.s) # Missing THEN ListOf(raw.s) ELSE Arr(<<raw>>)
      [] raw.k = "str" -> IF JsonOf(raw.s) = Missing THEN Missing ELSE Arr(<<JsonOf(raw.s)>>)
      [] OTHER -> Arr(<<IF fn = "images" THEN Str(TextOf(raw)) ELSE raw>>)

\* requiredIf, requiredUnless
RequiredByOther(entry, out) ==
    entry.fn = "requiredIf" <=> Identical(Child(out, entry.rules[1].field), entry.rules[1].value)

\* A function for a rule: those, and nestedRule, which checks an object with
\* rules of its own and keeps nothing of what they convert.
RECURSIVE Validated(_, _, _)
Clean(res) == res.errors = {} /\ ~res.threw
CheckFunction(res, path, entry, taken) ==
    LET raw == getAtPath(res.out, path)
        list == Listed(entry.fn, raw)
        inside == IF entry.fn = "nested" THEN {raw} ELSE ToSet(Items(list))
    IN CASE entry.fn \in {"requiredIf", "requiredUnless"} ->
              IF RequiredByOther(entry, res.out) /\ ~Present(raw) THEN Refused(res, path) ELSE res
         [] entry.fn = "images" -> IF Present(raw) THEN Stored(res, path, list) ELSE res
         [] raw.k \in {"missing", "null"} -> res
         [] OTHER ->
              IF \/ entry.fn = "objects" /\ list = Missing
                 \/ \E v \in inside : v.k # "obj" \/ ~Clean(Validated(v, entry.rules, taken))
                THEN Refused(res, path)
              ELSE IF entry.fn = "nested" THEN res ELSE Stored(res, path, list)

\* One entry: its paths in the payload as it is by now.
CheckField(res, entry, taken) ==
    LET One(r, path) == IF r.threw THEN r
                        ELSE IF entry.fn = "none" THEN CheckRules(r, path, entry.rules, taken)
                        ELSE CheckFunction(r, path, entry, taken)
    IN FoldLeft(One, res, expandFieldPaths(res.out, entry.field))

Validated(payload, spec, taken) ==
    FoldLeft(LAMBDA res, entry : IF res.threw THEN res ELSE CheckField(res, entry, taken), Begun(payload), spec)

-----------------------------------------------------------------------------
(* What it should come to: the rules of every field, whatever their order, *)
(* hold of the payload in which every field is converted by its rules.     *)

ConvertedBy(entry, raw) ==
    CASE entry.fn = "images" -> IF Present(raw) THEN Listed("images", raw) ELSE raw
      [] entry.fn = "objects" -> IF raw.k \in {"missing", "null"} THEN raw ELSE Listed("objects", raw)
      [] entry.fn = "none" /\ Present(raw) ->
           FoldLeft(LAMBDA v, rule : IF v = Missing THEN v ELSE Converted(v, rule), raw, entry.rules)
      [] OTHER -> raw
EntryOf(spec, path) == spec[CHOOSE i \in DOMAIN spec : spec[i].field = path]
Names(spec, path) == \E i \in DOMAIN spec : spec[i].field = path
Ideal(payload, spec) ==
    LET Top(f) == IF Names(spec, <<f>>) THEN ConvertedBy(EntryOf(spec, <<f>>), payload.f[f]) ELSE payload.f[f]
        Each(f, v) == IF v.k = "arr" /\ Names(spec, <<f, "*">>)
                        THEN [v EXCEPT !.f = [i \in DOMAIN v.f |-> ConvertedBy(EntryOf(spec, <<f, "*">>), v.f[i])]]
                        ELSE v
    IN [payload EXCEPT !.f = [f \in DOMAIN payload.f |-> Each(f, Top(f))]]

RECURSIVE Valid(_, _, _)
Meets(ideal, entry, raw, val, taken) ==
    LET rules == entry.rules
        inside == IF entry.fn = "nested" THEN {raw} ELSE ToSet(Items(val))
    IN CASE entry.fn = "images" -> TRUE
         [] entry.fn \in {"requiredIf", "requiredUnless"} -> Present(val) \/ ~RequiredByOther(entry, ideal)
         [] entry.fn \in {"nested", "objects"} ->
              \/ raw.k \in {"missing", "null"}
              \/ /\ entry.fn = "objects" => val # Missing
                 /\ \A v \in inside : v.k = "obj" /\ Valid(v, rules, taken)
         [] entry.fn = "none" ->
              /\ Has(rules, "present") => raw # Missing
              /\ IF Present(raw)
                   THEN /\ val # Missing
                        /\ \A i \in DOMAIN rules :
                             rules[i].is \notin NoValue => Passes(ideal, raw, val, rules[i], taken)
                   ELSE Has(rules, "sometimes") \/ \A i \in DOMAIN rules : ~AsksFor(ideal, rules[i])

\* For fields and the elements of a list: what each held and what it became.  A
\* wildcard over anything but a list is one field that is missing.
Valid(payload, spec, taken) ==
    LET ideal == Ideal(payload, spec)
        Held(entry) ==
          LET f == entry.field[1]
              raw == getAtPath(payload, <<f>>)
              val == getAtPath(ideal, <<f>>)
              given == IF Names(spec, <<f>>) THEN ConvertedBy(EntryOf(spec, <<f>>), raw) ELSE raw
          IN IF Len(entry.field) = 1 THEN {<<raw, val>>}
             ELSE IF val.k = "arr" THEN {<<given.f[i], val.f[i]>> : i \in DOMAIN val.f}
             ELSE {<<Missing, Missing>>}
    IN \A i \in DOMAIN spec : \A at \in Held(spec[i]) : Meets(ideal, spec[i], at[1], at[2], taken)
=============================================================================
