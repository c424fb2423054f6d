---------------------------- MODULE QueryBuilder ----------------------------
(***************************************************************************)
(* The query builder: a chain of where, whereHas and trash-scope calls is  *)
(* turned into an SQL WHERE clause or a MongoDB filter, run by one of the  *)
(* terminal operations, and possibly reused afterwards.  A user table with *)
(* related posts stands for the data; another process may write between    *)
(* the pages of chunk() and chunkById().  Rows come in primary-key order.  *)
(***************************************************************************)
EXTENDS Integers, FiniteSets, SequencesExt

CONSTANTS Null,        \* the SQL NULL
          MaxId,       \* primary keys of the user table are 1 .. MaxId
          UserTables,  \* the user tables a behaviour may start from, each with
                       \* whether the model soft-deletes
          PostTables,  \* the post tables a behaviour may start from
          WhereCalls,  \* clauses that where(), orWhere(), whereIn()... may add
          HasCalls,    \* conditions that whereHas() and its variants may add
          PageSizes,   \* sizes given to paginate(), chunk() and chunkById()
          MaxCalls,    \* bound on the calls made on the builder
          MaxWrites,   \* bound on the other process's writes
          MaxPages     \* bound on the pages of a walk, more than a sound one needs

VARIABLES dialect, soft,   \* the connection and whether users soft-delete
          users, posts,    \* the tables: functions from primary key to row
          q,               \* the builder
          calls, writes,   \* how many calls and foreign writes so far
          result,          \* what the last terminal operation returned
          walk             \* the chunk() or chunkById() in progress

vars == <<dialect, soft, users, posts, q, calls, writes, result, walk>>

NewBuilder == [where |-> <<>>, has |-> <<>>, limit |-> Null, offset |-> 0,
               includeTrashed |-> FALSE, onlyTrashed |-> FALSE, applied |-> FALSE]

Clause(bool, col, op, value) == [bool |-> bool, op |-> op, col |-> col, value |-> value]
NoWalk == [kind |-> "none", size |-> 1, page |-> 1, last |-> Null,
           seen |-> <<>>, must |-> {}, disturbed |-> FALSE]
Result(op, rows, total) == [op |-> op, rows |-> rows, total |-> total]

------------------------------------------------------------------------------
(* What the WHERE clause means *)

\* Whether a row meets a leaf clause; a comparison with NULL is never true in
\* SQL, while MongoDB's $ne and $nin accept a null field.
Meets(row, c, d) ==
  LET v == row[c.col] IN
  CASE c.op = "="      -> v = c.value
    [] c.op = "!="     -> v # c.value /\ (d = "sql" => v # Null \/ c.value = Null)
    [] c.op = ">"      -> v # Null /\ v > c.value
    [] c.op = "in"     -> v \in c.value
    [] c.op = "not in" -> v \notin c.value /\ (d = "sql" => v # Null)

IsLive == Clause("and", "deleted_at", "=", Null)
Owned(row) == Clause("and", "user_id", "=", row.id)
Names(s, col) == \E i \in DOMAIN s : s[i].col = col
HasOr(s) == \E i \in DOMAIN s : s[i].bool = "or"
Compared(n, h) == CASE h.op = ">=" -> n >= h.count [] h.op = "=" -> n = h.count


\* The soft-delete filter goes in once, when a clause is first built; in SQL
\* the conditions are wrapped in a group if one of them is an OR.
Injected(b, softDeletes, d) ==
  IF b.applied \/ ~softDeletes \/ b.includeTrashed \/ b.onlyTrashed \/ Names(b.where, "deleted_at")
  THEN b
  ELSE [b EXCEPT !.applied = TRUE,
                 !.where = IF d = "sql" /\ HasOr(@)
                           THEN <<IsLive, Clause("and", "", "nested", @)>>
                           ELSE Append(@, IsLive)]

\* The clause a constraint callback leaves on a builder of the posts.
Callback(h, d) ==
  IF h.callback = <<>> THEN <<>>
  ELSE Injected([NewBuilder EXCEPT !.where = h.callback], TRUE, d).where

\* A flat list of conditions as SQL reads it: AND binds tighter than OR, and
\* the boolean of the first condition is not written.  A has condition counts,
\* in a subquery, the posts that match the foreign key, the soft-delete
\* fragment and the callback's clause, all in one flat list too.
RECURSIVE SqlAccepts(_, _), SqlMeets(_, _)
SqlAccepts(row, s) ==
  \E i \in DOMAIN s : /\ i = 1 \/ s[i].bool = "or"
                      /\ \A j \in i .. Len(s) :
                           (\A k \in (i + 1) .. j : s[k].bool = "and") => SqlMeets(row, s[j])
SqlMeets(row, c) ==
  CASE c.op = "true"   -> TRUE
    [] c.op = "nested" -> SqlAccepts(row, c.value)
    [] c.op = "has"    -> LET s == <<Owned(row), IsLive>> \o Callback(c.value, "sql") IN
                          Compared(Cardinality({ p \in DOMAIN posts : SqlAccepts(posts[p], s) }), c.value)
    [] OTHER           -> Meets(row, c, "sql")

\* A nested group is written by a second routine that knows IN but neither
\* NOT IN nor BETWEEN, so the server rejects those; so it does an empty list.
RECURSIVE Rejected(_, _)
Rejected(s, nested) ==
  \E i \in DOMAIN s : \/ s[i].op = "nested" /\ Rejected(s[i].value, TRUE)
                      \/ s[i].op = "not in" /\ nested
                      \/ s[i].op \in {"in", "not in"} /\ s[i].value = {}

\* The MongoDB filter: every AND part and one of the OR parts; a null test
\* followed by an OR on the same column counts as an OR part.  A nested group
\* goes through a builder of its own, which injects the filter again.
RECURSIVE MongoAccepts(_, _, _)
MongoAccepts(row, s, softDeletes) ==
  LET nested(g) == Injected([NewBuilder EXCEPT !.where = g], softDeletes, "mongodb").where
      meets(i) == IF s[i].op = "nested" THEN MongoAccepts(row, nested(s[i].value), softDeletes)
                  ELSE Meets(row, s[i], "mongodb")
      ors == { i \in DOMAIN s : \/ s[i].bool = "or"
                                \/ /\ s[i].op = "=" /\ s[i].value = Null
                                   /\ i < Len(s) /\ s[i + 1].col = s[i].col
                                   /\ s[i + 1].bool = "or" }
  IN /\ \A i \in DOMAIN s \ ors : meets(i)
     /\ ors # {} => \E i \in ors : meets(i)

------------------------------------------------------------------------------
(* The whole query; users have many posts, which soft-delete *)

\* Mutant: without a callback the count includes trashed posts.
MongoHasTrashed(row, h) ==
  Compared(Cardinality({ p \in DOMAIN posts : /\ MongoAccepts(posts[p], <<Owned(row)>>, TRUE)
                                              /\ MongoAccepts(posts[p], Callback(h, "mongodb"), TRUE) }), h)

MongoHas(row, h) ==
  Compared(Cardinality({ p \in DOMAIN posts : /\ MongoAccepts(posts[p], <<Owned(row), IsLive>>, TRUE)
                                              /\ MongoAccepts(posts[p], Callback(h, "mongodb"), TRUE) }), h)

\* The has conditions follow the WHERE clause without parentheses, or follow
\* WHERE 1=1 when there is none.
SqlSelects(row, b) ==
  SqlAccepts(row, (IF b.where = <<>> THEN <<Clause("and", "", "true", Null)>> ELSE b.where) \o b.has)

\* The documents fetched before the has conditions are applied: an orWhereHas
\* beside other clauses widens the fetch by the owners of matching posts.
SetAside(b) == HasOr(b.has) /\ b.where # <<>>
MongoFetches(row, b) ==
  \/ MongoAccepts(row, b.where, soft)
  \/ SetAside(b) /\ \E i \in DOMAIN b.has, p \in DOMAIN posts :
       /\ b.has[i].bool = "or" /\ posts[p].user_id = row.id
       /\ MongoAccepts(posts[p], Callback(b.has[i].value, "mongodb"), TRUE)

\* The fold over the has conditions, left to right; the first one replaces the
\* initial value unless the where filter was set aside for it.
MongoSelects(row, b) ==
  LET step(acc, i) == LET ok == MongoHas(row, b.has[i].value) IN
                      IF i = 1 /\ ~SetAside(b) THEN ok
                      ELSE IF b.has[i].bool = "or" THEN acc \/ ok ELSE acc /\ ok
  IN /\ MongoFetches(row, b)
     /\ FoldLeft(step, SetAside(b) => MongoAccepts(row, b.where, soft), [i \in DOMAIN b.has |-> i])

\* executeQuery without its LIMIT: the rows a builder selects in a dialect.
Selects(row, b, d) == LET built == Injected(b, soft, d) IN
                      IF d = "sql" THEN SqlSelects(row, built) ELSE MongoSelects(row, built)
SelectedFrom(t, b, d) == { u \in DOMAIN t : Selects(t[u], b, d) }
Selected(b, d) == SelectedFrom(users, b, d)

\* buildWhereClause writes SQL the server cannot parse.
Broken(b) == dialect = "sql" /\ Rejected(Injected(b, soft, dialect).where, FALSE)

InOrder(rows) == SelectSeq([i \in 1 .. MaxId |-> i], LAMBDA u : u \in rows)
Cut(s, limit, offset) == SubSeq(s, offset + 1, IF limit = Null \/ offset + limit > Len(s)
                                               THEN Len(s) ELSE offset + limit)
Fetch(b) == Cut(InOrder(Selected(b, dialect)), b.limit, b.offset)

------------------------------------------------------------------------------
Init ==
  /\ dialect \in {"sql", "mongodb"} /\ posts \in PostTables
  /\ \E t \in UserTables : soft = t.soft /\ users = t.rows
  /\ q = NewBuilder /\ calls = 0 /\ writes = 0
  /\ result = Result("none", <<>>, 0) /\ walk = NoWalk

Call(b) ==
  /\ walk.kind = "none" /\ calls < MaxCalls
  /\ calls' = calls + 1 /\ q' = b
  /\ result' = IF result.op = "none" THEN result ELSE Result("past", <<>>, 0)
  /\ UNCHANGED <<dialect, soft, users, posts, writes, walk>>

\* where, orWhere, whereIn, whereNull, a closure's nested group...  A builder that
\* has run is only narrowed: after the trash filter went in, orWhere widens past it.
AddWhere ==
  \E c \in WhereCalls :
    /\ c.bool = "or" => result.op = "none"
    /\ Call([q EXCEPT !.where = Append(@, c)])

\* whereHas, orWhereHas and whereDoesntHave.
AddHas == \E h \in HasCalls : Call([q EXCEPT !.has = Append(@, h)])

WithTrashed    == Call([q EXCEPT !.includeTrashed = TRUE, !.onlyTrashed = FALSE])
WithoutTrashed == Call([q EXCEPT !.includeTrashed = FALSE, !.onlyTrashed = FALSE])
OnlyTrashed ==
  Call([q EXCEPT !.includeTrashed = TRUE, !.onlyTrashed = TRUE,
                 !.where = Append(SelectSeq(@, LAMBDA c : c.col # "deleted_at"),
                                  Clause("and", "deleted_at", "!=", Null))])

\* A terminal operation builds the clause on the builder itself.
Terminal(op, b, rows, total) ==
  /\ walk.kind = "none" /\ calls < MaxCalls
  /\ calls' = calls + 1 /\ q' = Injected(b, soft, dialect)
  /\ result' = IF Broken(b) THEN Result("error", <<>>, 0) ELSE Result(op, rows, total)
  /\ UNCHANGED <<dialect, soft, posts, writes, walk>>

Get   == Terminal("get", q, Fetch(q), 0) /\ UNCHANGED users
First == LET b == [q EXCEPT !.limit = 1]
         IN Terminal("get", b, Fetch(b), 0) /\ UNCHANGED users

\* count() goes through aggregate(), which ignores limit and offset.
Count == Terminal("count", q, <<>>, Cardinality(Selected(q, dialect))) /\ UNCHANGED users

\* paginate counts first, then leaves the page's limit and offset behind.
Paginate ==
  \E n \in PageSizes, page \in {1, 2} :
    LET b == [q EXCEPT !.limit = n, !.offset = (page - 1) * n]
    IN Terminal("page", b, Fetch(b), Cardinality(Selected(q, dialect))) /\ UNCHANGED users

\* update and delete use the WHERE clause alone: no limit, no has conditions.
Written == Selected([q EXCEPT !.has = <<>>], dialect)
Update ==
  /\ writes < MaxWrites
  /\ Terminal("update", q, InOrder(Written), Cardinality(Written))
  /\ users' = IF Broken(q) THEN users
              ELSE [u \in DOMAIN users |-> IF u \in Written THEN [users[u] EXCEPT !.a = 2] ELSE users[u]]
Delete ==
  /\ writes < MaxWrites
  /\ Terminal("delete", q, InOrder(Written), Cardinality(Written))
  /\ users' = IF Broken(q) THEN users
              ELSE IF soft THEN [u \in DOMAIN users |-> IF u \in Written THEN [users[u] EXCEPT !.deleted_at = 1] ELSE users[u]]
              ELSE [u \in DOMAIN users \ Written |-> users[u]]

------------------------------------------------------------------------------
(* chunk, chunkById and the other process *)

StartWalk ==
  \E kind \in {"chunk", "chunkById"}, n \in PageSizes :
    /\ walk.kind = "none" /\ ~Broken(q)
    /\ walk' = [NoWalk EXCEPT !.kind = kind, !.size = n, !.must = Selected(q, dialect)]
    /\ result' = Result("past", <<>>, 0)
    /\ UNCHANGED <<dialect, soft, users, posts, q, calls, writes>>

\* Mutant: the next page starts at the last row, not after it.
PageQueryAtLast ==
  IF walk.kind = "chunk"
  THEN [q EXCEPT !.limit = walk.size, !.offset = (walk.page - 1) * walk.size]
  ELSE [q EXCEPT !.limit = walk.size,
                 !.where = IF walk.last = Null THEN @
                           ELSE Append(@, Clause("and", "id", ">", walk.last - 1))]

\* One page, read through a clone, with its callback.
PageQuery ==
  IF walk.kind = "chunk"
  THEN [q EXCEPT !.limit = walk.size, !.offset = (walk.page - 1) * walk.size]
  ELSE [q EXCEPT !.limit = walk.size,
                 !.where = IF walk.last = Null THEN @
                           ELSE Append(@, Clause("and", "id", ">", walk.last))]
NextPage ==
  /\ walk.kind \in {"chunk", "chunkById"} /\ walk.page <= MaxPages
  /\ \E rows \in {Fetch(PageQuery)} :
       walk' = [walk EXCEPT !.page = @ + 1,
                            !.seen = @ \o rows,
                            !.last = IF rows = <<>> THEN @ ELSE rows[Len(rows)],
                            !.kind = IF Len(rows) < walk.size THEN @ \o "-done" ELSE @]
  /\ UNCHANGED <<dialect, soft, users, posts, q, calls, writes, result>>

Finish == /\ walk.kind \in {"chunk-done", "chunkById-done"} \/ walk.page > MaxPages
          /\ walk' = NoWalk /\ calls' = MaxCalls
          /\ UNCHANGED <<dialect, soft, users, posts, q, writes, result>>

\* Another process inserts a row, trashes one or gives one another value.
Rewritten ==
  { [v \in DOMAIN users \cup {u} |-> IF v = u THEN [id |-> u, a |-> 1, deleted_at |-> Null] ELSE users[v]] :
      u \in (1 .. MaxId) \ DOMAIN users }
  \cup (IF soft THEN { [users EXCEPT ![u].deleted_at = 1] : u \in DOMAIN users } ELSE {})
  \cup { [users EXCEPT ![u].a = 2] : u \in DOMAIN users }
ForeignWrite ==
  /\ walk.kind \in {"chunk", "chunkById"} /\ writes < MaxWrites
  /\ \E t \in Rewritten :
       /\ users' = t
       /\ walk' = [walk EXCEPT !.disturbed = TRUE, !.must = @ \cap SelectedFrom(t, q, dialect)]
  /\ writes' = writes + 1
  /\ UNCHANGED <<dialect, soft, posts, q, calls, result>>

Done == calls = MaxCalls /\ walk.kind = "none" /\ UNCHANGED vars

Next == \/ AddWhere \/ AddHas \/ WithTrashed \/ WithoutTrashed \/ OnlyTrashed
        \/ Get \/ First \/ Count \/ Paginate \/ Update \/ Delete
        \/ StartWalk \/ NextPage \/ Finish \/ ForeignWrite \/ Done

Spec == Init /\ [][Next]_vars /\ WF_vars(NextPage)

------------------------------------------------------------------------------
(* Properties *)

AllAnd(b) == ~HasOr(b.where) /\ ~HasOr(b.has)

\* A query that was never given a trash scope of its own shows a trashed row
\* only where an or'ed has condition lets it in: buildWhereClause's filter is
\* one alternative beside that condition, which the row then meets.  ORs in
\* the where list, nested groups, and'ed has conditions and reuses of the
\* builder never get around the filter; and onlyTrashed with AND conditions
\* shows trashed rows only.
Scoped(b) == \E i \in DOMAIN b.where : b.where[i].col = "deleted_at" /\ b.where[i].op = "!="
MeetsHas(row, c) == IF dialect = "sql" THEN SqlMeets(row, c) ELSE MongoHas(row, c.value)
LetIn(row, b) == \E i \in DOMAIN b.has : b.has[i].bool = "or" /\ MeetsHas(row, b.has[i])

\* Both dialects select the same rows from the same tables when the chain has
\* no OR, no negated comparison and no nested group under a trash scope: the two
\* translations of one builder agree on the language they share.
Plain(s) == \A i \in DOMAIN s : s[i].bool = "and" /\ s[i].op \in {"=", ">", "in"}
DialectsAgree ==
  (/\ walk.kind = "none"
   /\ \A i \in DOMAIN q.where :
        IF q.where[i].op = "nested" THEN Plain(q.where[i].value) /\ ~q.includeTrashed /\ ~Scoped(q)
        ELSE Plain(<<q.where[i]>>) \/ q.where[i].value = Null
   /\ AllAnd(q) /\ \A i \in DOMAIN q.has : ~HasOr(q.has[i].value.callback))
    => Selected(q, "sql") = Selected(q, "mongodb")

\* chunkById over AND conditions, with no offset set, shows no row twice and, however the table
\* changes between pages, every row that matched throughout.
ChunkByIdComplete ==
  walk.kind \in {"chunkById", "chunkById-done"} /\ AllAnd(q) /\ q.offset = 0 =>
    /\ IsInjective(walk.seen)
    /\ walk.kind = "chunkById-done" => walk.must \subseteq ToSet(walk.seen)

\* chunk pages by offset: complete as long as nobody writes in between.
ChunkComplete ==
  walk.kind \in {"chunk", "chunk-done"} /\ ~walk.disturbed =>
    /\ IsInjective(walk.seen)
    /\ walk.kind = "chunk-done" => walk.must = ToSet(walk.seen)

\* A walk over AND conditions, and every walk by offset, ends.
WalkEnds == (walk.kind # "none" /\ (AllAnd(q) \/ walk.kind = "chunk")) ~> (walk.kind \in {"none", "chunk-done", "chunkById-done"})

\* Every walk shows each row it must, once, and ends.
WalksComplete == [](ChunkByIdComplete /\ ChunkComplete) /\ WalkEnds
=============================================================================
