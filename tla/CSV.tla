-------------------------------- MODULE CSV --------------------------------
(***************************************************************************)
(* The CSV reader (csvParser.ts): how it guesses the separator, the loop   *)
(* over the characters of a text, and the objects made of the rows.  And,  *)
(* beside it, a writer after RFC 4180, whose tables it should read back.   *)
(*                                                                         *)
(* A text is a sequence of characters, of which only the few are told      *)
(* apart that the loop does; other characters are letters.  Casting of     *)
(* the cells and the caller's transforms are left out.                     *)
(***************************************************************************)
EXTENDS Integers, SequencesExt, FiniteSets

Quote == "q"  CR == "cr"  LF == "lf"  Blank == "blank"  Hash == "#"
Separators == <<",", ";">>  \* detect_delimiters, in order
Spaces == {Blank, CR, LF}

\* Options: [trim : BOOLEAN, skipEmpty : BOOLEAN, comment : BOOLEAN, skipLines : Nat,
\*           maxRows : Nat, columns : BOOLEAN, validate : BOOLEAN]
Trimmed(s) ==
    LET kept == {i \in DOMAIN s : s[i] \notin Spaces}
    IN IF kept = {} THEN <<>>
       ELSE SubSeq(s, CHOOSE i \in kept : \A j \in kept : i <= j, CHOOSE i \in kept : \A j \in kept : i >= j)
Cell(o, s) == IF o.trim THEN Trimmed(s) ELSE s
Empty(row) == \A i \in DOMAIN row : row[i] = <<>>

-----------------------------------------------------------------------------
(* detectDelimiter                                                         *)

EndsLine(text, k) == \/ text[k] = LF
                     \/ (text[k] = CR /\ k < Len(text) /\ text[k + 1] = LF)
\* Where the line that k is in ends, one past the text if it is the last.
LineEnd(text, k) ==
    LET ends == {j \in k .. Len(text) : EndsLine(text, j)}
    IN IF ends = {} THEN Len(text) + 1 ELSE CHOOSE j \in ends : \A i \in ends : j <= i
AfterEnd(text, k) == k + (IF text[k] = CR THEN 2 ELSE 1)

StartsLine(text, k) == \/ k = 1
                       \/ (k > 1 /\ text[k - 1] = LF)
Lines(text) ==
    LET starts == SelectSeq([k \in DOMAIN text |-> k], LAMBDA k : StartsLine(text, k))
    IN SelectSeq([i \in DOMAIN starts |-> SubSeq(text, starts[i], LineEnd(text, starts[i]) - 1)],
                 LAMBDA line : Trimmed(line) # <<>>)

\* How often d stands in a line outside of quotes.
\* Mutant: inside quotes, too.
CountAll(line, d) == Cardinality({k \in DOMAIN line : line[k] = d})
Count(line, d) ==
    Cardinality({k \in DOMAIN line : /\ line[k] = d
                                     /\ Cardinality({j \in 1 .. k : line[j] = Quote}) % 2 = 0})

\* The score of a separator is the mean of its counts over one more than their
\* variance, here as a fraction <<numerator, denominator>>.
Score(counts) ==
    LET n == Len(counts)
        total == FoldSeq(+, 0, counts)
        squares == FoldSeq(+, 0, [i \in 1 .. n |-> counts[i] * counts[i]])
    IN <<total * n, n * n + n * squares - total * total>>

DetectDelimiter(text) ==
    LET lines == SelectSeq(Lines(text), LAMBDA s : Trimmed(s)[1] # Hash)
        score == [d \in ToSet(Separators) |-> Score([i \in DOMAIN lines |-> Count(lines[i], d)])]
        beats(d, e) == score[d][1] * score[e][2] > score[e][1] * score[d][2]
    IN IF lines = <<>> \/ ~beats(Separators[2], Separators[1]) THEN Separators[1] ELSE Separators[2]

-----------------------------------------------------------------------------
(* parseCSVSync: the loop over the characters.  at is the next it looks    *)
(* at, and it looks no further once it is done.                            *)

Begin == [at |-> 1, rows |-> <<>>, row |-> <<>>, field |-> <<>>, inQuotes |-> FALSE, escaped |-> FALSE,
          skipped |-> 0, done |-> FALSE]

\* A row ends: it is kept unless it is empty, and past max_rows the loop breaks
\* where it is.
EndRow(text, o, p) ==
    LET row == Append(p.row, Cell(o, p.field))
        kept == IF o.skipEmpty /\ Empty(row) THEN p.rows ELSE Append(p.rows, row)
    IN IF kept # p.rows /\ Len(kept) >= o.maxRows THEN [p EXCEPT !.row = row, !.rows = kept, !.done = TRUE]
       ELSE [p EXCEPT !.row = <<>>, !.field = <<>>, !.rows = kept, !.at = AfterEnd(text, p.at)]

Step(text, sep, o, p) ==
    LET ch == text[p.at]
        on == [p EXCEPT !.at = @ + 1]
    IN IF p.skipped < o.skipLines
       THEN IF EndsLine(text, p.at) THEN [p EXCEPT !.skipped = @ + 1, !.at = AfterEnd(text, p.at)] ELSE on
       ELSE IF o.comment /\ ~p.inQuotes /\ ch = Hash /\ p.row = <<>> /\ p.field = <<>>
       THEN [p EXCEPT !.at = LineEnd(text, p.at) + 1]
       ELSE IF ch = Quote /\ ~p.escaped /\ p.inQuotes /\ p.at < Len(text) /\ text[p.at + 1] = Quote
       THEN [on EXCEPT !.escaped = TRUE]
       ELSE IF p.escaped THEN [on EXCEPT !.field = Append(@, ch), !.escaped = FALSE]
       ELSE IF ch = Quote THEN [on EXCEPT !.inQuotes = ~@]
       ELSE IF ~p.inQuotes /\ ch = sep THEN [on EXCEPT !.row = Append(@, Cell(o, p.field)), !.field = <<>>]
       ELSE IF ~p.inQuotes /\ EndsLine(text, p.at) THEN EndRow(text, o, p)
       ELSE [on EXCEPT !.field = Append(@, ch)]

\* What is left over after the last terminator is a row of its own.
Parse(text, sep, o) ==
    LET end == FoldLeft(LAMBDA p, k : IF p.done \/ p.at # k THEN p ELSE Step(text, sep, o, p), Begin,
                        [k \in DOMAIN text |-> k])
    IN IF end.field = <<>> /\ end.row = <<>> THEN end.rows
       ELSE Append(end.rows, Append(end.row, Cell(o, end.field)))

-----------------------------------------------------------------------------
(* The rows made objects: an object is its keys and their cells.           *)

Default == <<"default">>
Object(header, row) ==
    [j \in {header[i] : i \in DOMAIN header} |->
        LET last == CHOOSE i \in DOMAIN header : header[i] = j /\ \A h \in DOMAIN header : header[h] = j => h <= i
        IN IF last <= Len(row) THEN row[last] ELSE Default]

\* The caller's validate refuses rows here whose first cell is empty.
Result(rows, o) ==
    LET header == IF o.columns /\ rows # <<>> THEN rows[1] ELSE <<>>
        keys == [j \in DOMAIN header |-> IF header[j] = <<>> THEN <<"column", j>> ELSE header[j]]
        body == IF o.columns /\ rows # <<>> THEN Tail(rows) ELSE rows
        made == [i \in DOMAIN body |-> IF header = <<>> THEN body[i] ELSE Object(keys, body[i])]
        refused == {i \in DOMAIN body : o.validate /\ made[i][IF header = <<>> THEN 1 ELSE keys[1]] = <<>>}
        valid == SelectSeq([i \in DOMAIN body |-> i], LAMBDA i : i \notin refused)
    IN [data |-> [i \in DOMAIN valid |-> made[valid[i]]],
        errors |-> {i - 1 : i \in refused}]

ParseCSV(text, named, sep, o) == LET d == IF named THEN sep ELSE DetectDelimiter(text)
                                     rows == Parse(text, d, o)
                                 IN [done |-> TRUE, rows |-> rows, result |-> Result(rows, o)]

-----------------------------------------------------------------------------
(* A writer after RFC 4180: w is [sep, always, eol, final, notes, junk],   *)
(* the separator, whether all cells are quoted, how lines end, whether the *)
(* last one does, and how many comments and other lines come first.        *)

Quoted(s) == <<Quote>> \o FlattenSeq([i \in DOMAIN s |-> IF s[i] = Quote THEN <<Quote, Quote>> ELSE <<s[i]>>]) \o <<Quote>>
Written(w, s) ==
    IF w.always \/ \E i \in DOMAIN s : s[i] \in {Quote, CR, LF, Hash} \union ToSet(Separators)
    THEN Quoted(s) ELSE s

Joined(w, row) ==
    FlattenSeq([j \in DOMAIN row |-> (IF j = 1 THEN <<>> ELSE <<w.sep>>) \o Written(w, row[j])])
Text(w, table) ==
    LET lines == [i \in 1 .. w.junk |-> <<"junk">>] \o [i \in 1 .. w.notes |-> <<Hash, Quote, ",">>]
                   \o [i \in DOMAIN table |-> Joined(w, table[i])]
    IN FlattenSeq([i \in DOMAIN lines |-> lines[i] \o (IF i = Len(lines) /\ ~w.final THEN <<>> ELSE w.eol)])

\* The table as the options want it.
Expected(table, o) ==
    LET cells == [i \in DOMAIN table |-> [j \in DOMAIN table[i] |-> Cell(o, table[i][j])]]
    IN SelectSeq(cells, LAMBDA row : ~(o.skipEmpty /\ Empty(row)))
=============================================================================
