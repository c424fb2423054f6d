----------------------------- MODULE Blueprint -----------------------------
(***************************************************************************)
(* The table builder of migrations: src/eloquent/Database/Schema.ts.       *)
(*                                                                         *)
(* A migration calls the builder (column types, keys, drops, renames); the *)
(* builder sorts the calls by kind and turns them into one CREATE TABLE,   *)
(* into a row of ALTER TABLE statements, or into MongoDB operations.       *)
(* Columns are names; types, defaults and lengths do not matter to whether *)
(* a statement succeeds and are left out.                                  *)
(***************************************************************************)
EXTENDS Sequences, FiniteSets, SequencesExt

NoTable == [cols |-> {}, keys |-> {}, fks |-> {}]
Table(cols, keys, fks) == [cols |-> cols, keys |-> keys, fks |-> fks]

(* What a migration asks for.  Every column type of the builder adds one   *)
(* column; a flag the column carries (unique, primary) is not a key.       *)
Column(c) == <<[call |-> "column", col |-> c]>>
Typed(c) == Column(c)       \* integer, string, decimal, date ...
Increments(c) == Column(c) \o <<[call |-> "primary", col |-> c]>>
Timestamps == Column("created_at") \o Column("updated_at")
SoftDeletes == Column("deleted_at")
\* An index is named after its columns and its kind and keeps the name.
IndexName(cols, unique) == <<cols, IF unique THEN "uniq" ELSE "idx">>
Index(cols, unique) == [name |-> IndexName(cols, unique), on |-> cols, unique |-> unique]
Key(cols, unique) == <<[call |-> "index", key |-> Index(cols, unique)]>>
Morphs(c) == LET type == c \o "_type"
                 id == c \o "_id"
             IN Column(type) \o Column(id) \o Key({type, id}, FALSE)
Unique(c) == <<[call |-> "unique", col |-> c]>>
Foreign(c) == <<[call |-> "foreign", fk |-> [on |-> {c}]]>>
DropKey(cols, unique) == <<[call |-> "dropIndex", name |-> IndexName(cols, unique)]>>
DropForeign(c) == <<[call |-> "dropForeign", fk |-> [on |-> {c}]]>>
DropColumn(c) == <<[call |-> "drop", col |-> c]>>
Rename(from, to) == <<[call |-> "rename", from |-> from, to |-> to]>>
Change(from, to) == <<[call |-> "change", from |-> from, to |-> to]>>

Of(calls, kind) == SelectSeq(calls, LAMBDA c : c.call = kind)

(* The statements, in the order of toSQL.  CREATE holds the columns and    *)
(* all keys; ALTER knows neither unique(column) nor primary(column).       *)
CreateSQL(calls) == <<[call |-> "create", calls |-> calls]>>
\* Mutant: the columns to drop are forgotten.
AlterSQLKeepsDrops(calls) ==
    Of(calls, "column") \o Of(calls, "index") \o Of(calls, "dropIndex") \o Of(calls, "foreign")
    \o Of(calls, "dropForeign") \o Of(calls, "rename") \o Of(calls, "change")
AlterSQL(calls) ==
    Of(calls, "column") \o Of(calls, "index") \o Of(calls, "dropIndex") \o Of(calls, "foreign")
    \o Of(calls, "dropForeign") \o Of(calls, "drop") \o Of(calls, "rename") \o Of(calls, "change")

(* What MySQL does with one of them.                                       *)
Columns(calls) == {c.col : c \in Range(Of(calls, "column"))}
\* MySQL names the key of unique(column) after the column alone.
KeysOf(calls) == {c.key : c \in Range(Of(calls, "index"))}
               \union {[Index({c.col}, TRUE) EXCEPT !.name[2] = ""] : c \in Range(Of(calls, "unique"))}
Renamed(S, from, to) == {IF c = from THEN to ELSE c : c \in S}

\* Whether the statement succeeds on a table.
Runs(t, s) ==
    CASE s.call = "create" ->
            \/ t # NoTable
            \/ /\ \A k \in KeysOf(s.calls) : k.on \subseteq Columns(s.calls)
               /\ Len(Of(s.calls, "column")) = Cardinality(Columns(s.calls))
               /\ IsInjective(Of(s.calls, "index"))
      [] s.call = "dropTable" -> TRUE
      [] s.call = "column" -> t # NoTable /\ s.col \notin t.cols
      [] s.call = "index" -> s.key.on \subseteq t.cols /\ ~\E k \in t.keys : k.name = s.key.name
      [] s.call = "dropIndex" -> /\ \E k \in t.keys : k.name = s.name
                                 /\ \A f \in t.fks : (\E k \in t.keys : k.name = s.name /\ k.on = f.on)
                                                       => \E k \in t.keys : k.name # s.name /\ k.on = f.on
      [] s.call = "foreign" -> s.fk.on \subseteq t.cols /\ s.fk \notin t.fks
      [] s.call = "dropForeign" -> s.fk \in t.fks
      [] s.call = "drop" -> s.col \in t.cols /\ t.cols # {s.col} /\ ~\E f \in t.fks : s.col \in f.on
      [] s.call \in {"rename", "change"} ->
            s.from \in t.cols /\ (s.to \notin t.cols \/ (s.call = "change" /\ s.to = s.from))
      [] OTHER -> t # NoTable      \* unique, primary: not in an ALTER

Without(t, c) == {k \in {[k EXCEPT !.on = @ \ {c}] : k \in t.keys} : k.on # {}}
After(t, s) ==
    CASE s.call = "create" -> IF t # NoTable THEN t
                             ELSE Table(Columns(s.calls), KeysOf(s.calls), {f.fk : f \in Range(Of(s.calls, "foreign"))})
      [] s.call = "dropTable" -> NoTable
      [] s.call = "column" -> [t EXCEPT !.cols = @ \union {s.col}]
      [] s.call = "index" -> [t EXCEPT !.keys = @ \union {s.key}]
      [] s.call = "dropIndex" -> [t EXCEPT !.keys = {k \in @ : k.name # s.name}]
      [] s.call = "foreign" -> [t EXCEPT !.fks = @ \union {s.fk}]
      [] s.call = "dropForeign" -> [t EXCEPT !.fks = @ \ {s.fk}]
      [] s.call = "drop" -> [t EXCEPT !.cols = @ \ {s.col}, !.keys = Without(t, s.col)]
      [] s.call \in {"rename", "change"} ->
            Table(Renamed(t.cols, s.from, s.to),
                  {[k EXCEPT !.on = Renamed(@, s.from, s.to)] : k \in t.keys},
                  {[f EXCEPT !.on = Renamed(@, s.from, s.to)] : f \in t.fks})
      [] OTHER -> t

\* A row of statements stops at the first that fails.
RunAll(t, stmts) ==
    FoldLeft(LAMBDA r, s : IF r.ok /\ Runs(r.t, s) THEN [ok |-> TRUE, t |-> After(r.t, s)]
                                                   ELSE [r EXCEPT !.ok = FALSE],
             [ok |-> TRUE, t |-> t], stmts)

(* MongoDB: the collection and its indexes; a failing index is swallowed,  *)
(* as is a second one on the same fields, whatever its name and kind.      *)
(* A renamed or unset field leaves the indexes on the old name.            *)
MongoAdd(keys, key) == IF \E k \in keys : k.on = key.on THEN keys ELSE keys \union {key}
MongoKeys(keys, calls) == FoldLeft(LAMBDA ks, c : MongoAdd(ks, c.key), keys, Of(calls, "index"))
MongoCreate(t, calls) ==
    LET uniques == FoldLeft(LAMBDA ks, c : MongoAdd(ks, Index({c.col}, TRUE)), t.keys, Of(calls, "unique"))
    IN Table({"_id"}, MongoKeys(uniques, calls), {})
MongoAlter(t, calls) ==
    Table({"_id"}, {k \in MongoKeys(t.keys, calls) :
                        k.name \notin {c.name : c \in Range(Of(calls, "dropIndex"))}}, {})

(* Properties of the builder, for every sheet of calls.                    *)

\* An alterTable that succeeds leaves the table that the same calls would
\* leave one at a time: sorting them by kind fails rather than changes what
\* is built (TableBuilder.toSQL).
AlterAsCalled(t, calls) ==
    LET sorted == RunAll(t, AlterSQL(calls))
        single == RunAll(t, calls)
    IN sorted.ok /\ single.ok => sorted.t = single.t

\* One migration gives the same columns a key of the same kind in MySQL and
\* MongoDB, as long as it neither drops nor renames columns nor has, with the
\* table, two kinds of key on the same columns (toSQL, MongoSchema.apply).
Reshapes(calls) == \E c \in Range(calls) : c.call \in {"drop", "rename", "change"}
TwoKinds(keys) == \E k \in keys, x \in keys : k.on = x.on /\ k.unique # x.unique
Covered(t) == {<<k.on, k.unique>> : k \in t.keys}
KeysAgree(t, calls) ==
    /\ LET sql == RunAll(t, AlterSQL(calls))
       IN sql.ok /\ ~Reshapes(calls) /\ ~TwoKinds(t.keys \union KeysOf(calls)) =>
            Covered(MongoAlter(t, calls)) = Covered(sql.t)
    /\ LET sql == RunAll(NoTable, CreateSQL(calls))
       IN sql.ok /\ ~TwoKinds(KeysOf(calls)) => Covered(MongoCreate(NoTable, calls)) = Covered(sql.t)
=============================================================================
