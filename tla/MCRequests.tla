----------------------------- MODULE MCRequests -----------------------------
(* The application's requests for users and roles (Users); validate() on   *)
(* its own: every payload of two or three fields against every rule set of *)
(* a collection, in both orders of the fields where the first refers to no *)
(* later one that is converted; and the CSV reader on tables as a writer   *)
(* would write them.  A behaviour is about one of these, or about a part   *)
(* of the application outside its controllers (MCApp), whose variables are *)
(* 0 otherwise.                                                            *)
EXTENDS Users, TLC

CONSTANTS Abouts, Calls, Pages, MaxCalls, welcome, audit, Notify  \* of the application

VARIABLES about,
          form,    \* the rule set, the payload, the check and where it is
          sheet,   \* a table, how it is written and to be read, and what is read
          part,    \* of the application
          stack, phase, frames, scope, routes, written, budget, before, models, registered, visit,
          app, box, boot, state, missed, calls,
          buses, current, facade, fakes, call, jobs, working, ran, left
userVars == <<users, profiles, pivots, roles, perms, req, free, bare, sent>>

C == INSTANCE CSV
App == INSTANCE MCApp
appVars == <<part, stack, phase, frames, scope, routes, written, budget, before, models, registered, visit,
             app, box, boot, state, missed, calls,
             buses, current, facade, fakes, call, jobs, working, ran, left>>
mcVars == <<userVars, about, form, sheet, appVars>>

R(is) == Rule(is, 0)
Values == {Missing, Nul, Num(5), Bool(TRUE), Arr(<<Num(5)>>)}
            \union {Str(s) : s \in {"", "5", "10", "yes", "no", "abc", "5,10", "[5,10]", "2025-01-02", "03/01/2025"}}

Plain == { <<>>, <<R("required")>>, <<R("sometimes"), R("required"), Rule("in", {"5", "yes"})>>,
           <<R("nullable"), Rule("min", 2)>> }
Converting == { <<R("int")>>, <<R("numeric"), Rule("between", 5..7)>>, <<R("boolean")>>, <<R("date")>>,
                <<R("string"), Rule("size", 2)>>, <<R("array"), Rule("max", 1)>>, <<R("present"), R("json")>> }
OfOther ==
    { <<Rule("required_if", [field |-> "a", values |-> {"5", "true"}]), R("int")>>,
      <<Rule("required_unless", [field |-> "a", values |-> {"yes"}])>>,
      <<Rule("required_with", {"a"}), Rule("not_in", {"5"})>>, <<Rule("required_without", {"a"}), R("accepted")>>,
      <<Rule("required_with_all", {"a"}), R("boolean"), R("declined")>>, <<Rule("required_without_all", {"a"})>>,
      <<Rule("same", "a")>>, <<R("int"), Rule("same", "a")>>, <<Rule("different", "a")>>,
      <<R("string"), Rule("confirmed", "a")>>, <<Rule("gt", "a")>>, <<R("int"), Rule("lte", "a")>>,
      <<R("date"), Rule("after", [field |-> "a", date |-> 0])>>,
      <<Rule("before_or_equal", [field |-> "none", date |-> 2]), Rule("date_format", {"2025-01-02"})>>,
      <<R("required"), Rule("email", 0), Rule("unique", "emails")>> }
ForList == { Entry(<<"l">>, <<R("nullable"), R("array")>>), Entry(<<"l">>, <<R("required")>>),
             FnEntry(<<"l">>, "images", <<>>) }
OfItems == { <<R("nullable"), Rule("exists", "roles")>>, <<R("required"), R("int"), Rule("max", 5)>>, <<R("int")>> }

A(rules) == Entry(<<"a">>, rules)
B(rules) == Entry(<<"b">>, rules)
Pairs == {<<A(x), B(y)>> : x \in Plain \union Converting, y \in OfOther} \union {<<B(y), A(x)>> : x \in Plain, y \in OfOther}
          \union {<<A(x), FnEntry(<<"b">>, fn, <<[field |-> "a", value |-> v]>>)>> :
                    x \in Plain \union Converting, fn \in {"requiredIf", "requiredUnless"}, v \in {Str("5"), Bool(TRUE)}}
Lists == {<<x, Entry(<<"l", "*">>, y)>> : x \in ForList, y \in OfItems}
Objects == {<<FnEntry(<<"l">>, fn, <<A(<<R("required"), R("int")>>), B(y)>>)>> :
              fn \in {"nested", "objects"}, y \in {<<Rule("gt", "a")>>, <<Rule("required_with", {"a"})>>}}
Payloads == {Tree([a |-> x, b |-> y]) : x \in Values, y \in Values}
Small == {Tree([a |-> x, b |-> y]) : x \in {Num(5), Str("abc"), Missing}, y \in {Missing, Num(1), Str("10")}}
ListPayloads == {Tree([l |-> v]) : v \in Values \union Small \union {Arr(<<x, y>>) : x, y \in Small}
                                          \union {Arr(<<Num(5), Str("10")>>), Arr(<<Nul>>), Arr(<<>>)}}

NoForm == 0
Form(spec, payload) == [spec |-> spec, payload |-> payload, at |-> 1, check |-> Begun(payload)]
\* Cells, tables of one or two rows and columns, and ways to write and to read them.
Cells == { <<>>, <<"a">>, <<C!Blank>>, <<"a", C!Quote, C!Quote>>, <<",">>, <<C!Hash, ";">>, <<"b", C!CR, C!LF>> }
Few == { <<>>, <<"a">>, <<C!Quote, ",">>, <<C!Blank, ";">>, <<C!LF>> }
Sheets == {<<row>> : row \in {<<c>> : c \in Cells} \union {<<c, d>> : c \in Cells, d \in Cells}}
            \union {<<<<c>>, <<d>>>> : c \in Cells, d \in Cells}
            \union {<<<<a, b>>, <<c, d>>>> : a \in Few, b \in Few, c \in Few, d \in Few}
Unbounded == 9
Reading(trim, skipEmpty, comment, lines, rows, objects) ==
    [trim |-> trim, skipEmpty |-> skipEmpty, comment |-> comment, skipLines |-> lines, maxRows |-> rows,
     columns |-> objects, validate |-> objects]
Readings == { Reading(TRUE, TRUE, FALSE, 0, Unbounded, TRUE), Reading(FALSE, FALSE, FALSE, 0, Unbounded, FALSE),
              Reading(FALSE, TRUE, TRUE, 1, Unbounded, TRUE), Reading(TRUE, FALSE, TRUE, 0, 1, FALSE) }
Writing(sep, always, eol, final, named) ==
    [sep |-> sep, always |-> always, eol |-> eol, final |-> final, named |-> named]
Writings == { Writing(",", FALSE, <<C!LF>>, TRUE, FALSE), Writing(";", FALSE, <<C!CR, C!LF>>, FALSE, FALSE),
              Writing(";", TRUE, <<C!LF>>, FALSE, TRUE), Writing(",", TRUE, <<C!CR, C!LF>>, TRUE, FALSE) }
\* Comments are written where they are read: after them the loop leaves the second
\* character of a CRLF, an empty row.
Style(w, o) == w @@ [junk |-> o.skipLines,
                     notes |-> IF o.comment /\ (w.eol = <<C!LF>> \/ o.skipEmpty) THEN 1 ELSE 0]
NoSheet == 0
Sheet(table, w, o) == [done |-> FALSE, table |-> table, w |-> w, o |-> o, read |-> <<>>]

MCInit == /\ Init
          /\ about \in {"users", "rules", "csv", "app"}
          /\ IF about = "app" THEN App!Init ELSE part = "none" /\ App!Nothing
          /\ IF about # "rules" THEN form = NoForm
             ELSE \/ \E spec \in Pairs, payload \in Payloads : form = Form(spec, payload)
                  \/ \E spec \in Lists \union Objects, payload \in ListPayloads : form = Form(spec, payload)
          /\ IF about # "csv" THEN sheet = NoSheet
             ELSE \E table \in Sheets, w \in Writings, o \in Readings : sheet = Sheet(table, w, o)
CheckForm == /\ about = "rules" /\ form.at <= Len(form.spec) /\ ~form.check.threw
             /\ form' = [form EXCEPT !.at = @ + 1,
                            !.check = CheckField(@, form.spec[form.at], Tables(users, roles))]
             /\ UNCHANGED <<userVars, about, sheet, appVars>>
ReadSheet == /\ about = "csv" /\ ~sheet.done
             /\ sheet' = [sheet EXCEPT !.done = TRUE,
                             !.read = C!ParseCSV(C!Text(Style(sheet.w, sheet.o), sheet.table),
                                                 sheet.w.named, sheet.w.sep, sheet.o)]
             /\ UNCHANGED <<userVars, about, form, appVars>>
MCNext == \/ about = "users" /\ Next /\ UNCHANGED <<about, form, sheet, appVars>>
          \/ about = "app" /\ App!Next /\ UNCHANGED <<userVars, about, form, sheet>>
          \/ CheckForm
          \/ ReadSheet
Symmetry == Permutations(Requests) \union App!Symmetry
MCSpec == MCInit /\ [][MCNext]_mcVars

\* A payload is accepted exactly when all rules of all fields hold of it as
\* converted, whatever the order in which the fields were checked, and what is
\* returned is the payload with every field converted.
AcceptedIffValid ==
    about = "rules" /\ form.at > Len(form.spec) /\ ~form.check.threw =>
        LET valid == Valid(form.payload, form.spec, Tables(users, roles))
        IN /\ (form.check.errors = {}) <=> valid
           /\ valid => form.check.out = Ideal(form.payload, form.spec)

\* A table written after RFC 4180 is read back as it was, trimmed and without its
\* empty rows if the options say so, whatever its separator, quotes and line ends,
\* as far as max_rows, and the objects made of it have its cells under its
\* header's names.  The last row needs its line end if it is empty, and the
\* separator must be named if a cell has line ends.
ParsesAsWritten ==
    about = "csv" /\ sheet.done =>
        LET o == sheet.o  w == sheet.w
            last == C!Expected(<<Last(sheet.table)>>, [o EXCEPT !.skipEmpty = FALSE])[1]
            told == \A i \in DOMAIN sheet.table : \A j \in DOMAIN sheet.table[i] :
                       ToSet(sheet.table[i][j]) \intersect {C!CR, C!LF} = {}
            rows == C!Expected(sheet.table, o)
            whole == Len(rows) < o.maxRows
            objects == SelectSeq(Tail(rows), LAMBDA row : row[1] # <<>>)
            data == sheet.read.result.data
        IN (w.named \/ told) /\ (w.final \/ ~C!Empty(last)) =>
             /\ whole => sheet.read.rows = rows
             /\ ~whole => SubSeq(sheet.read.rows, 1, o.maxRows) = SubSeq(rows, 1, o.maxRows)
             /\ o.columns /\ rows # <<>> /\ IsInjective(rows[1]) /\ <<>> \notin ToSet(rows[1]) =>
                  /\ Len(data) = Len(objects)
                  /\ \A i \in DOMAIN objects : \A j \in DOMAIN rows[1] : data[i][rows[1][j]] = objects[i][j]

InputRead == AcceptedIffValid /\ ParsesAsWritten

StartsInTurn == about = "app" => App!StartsInTurn
GuardedAsWritten == about = "app" => App!GuardedAsWritten
RequestsAnswered == about = "app" => App!RequestsAnswered
ListenersHear == App!ListenersHear
=============================================================================
