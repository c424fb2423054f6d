--------------------------- MODULE MCQueryBuilder ---------------------------
(* Small tables and a small language of calls for QueryBuilder. *)
EXTENDS QueryBuilder

User(u, a, gone) == [id |-> u, a |-> a, deleted_at |-> IF gone THEN 1 ELSE Null]
Post(p, u, a, gone) == [id |-> p, user_id |-> u, a |-> a, deleted_at |-> IF gone THEN 1 ELSE Null]

MCUserTables == { [soft |-> TRUE,  rows |-> <<User(1, 1, FALSE), User(2, 2, TRUE), User(3, 2, FALSE)>>],
                  [soft |-> FALSE, rows |-> <<User(1, 1, FALSE), User(2, Null, FALSE), User(3, 2, FALSE)>>] }
MCPostTables == { <<Post(1, 1, 1, FALSE), Post(2, 2, 1, FALSE), Post(3, 2, 2, FALSE), Post(4, 3, 2, TRUE)>> }

MCWhereCalls ==
  { Clause("and", "a", "=", 1), Clause("or", "a", "=", 2), Clause("and", "a", "not in", {1}),
    Clause("and", "", "nested", <<Clause("and", "a", "=", 2), Clause("and", "id", ">", 1)>>),
    Clause("and", "", "nested", <<Clause("and", "a", "=", 1), Clause("or", "a", "!=", 1)>>) }

Has(bool, op, count, callback) ==
  Clause(bool, "", "has", [op |-> op, count |-> count, callback |-> callback])
MCHasCalls ==
  { Has("and", ">=", 1, <<>>), Has("and", "=", 0, <<>>), Has("or", ">=", 1, <<>>),
    Has("and", ">=", 1, <<Clause("and", "a", "=", 1), Clause("or", "a", "=", 2)>>) }
=============================================================================
