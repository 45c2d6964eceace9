-------------------------------- MODULE Csv --------------------------------
(***************************************************************************)
(* algo/CSV.cpp: a fresh object is loaded from memory or from a file,      *)
(* block by block and character by character, and then changed with        *)
(* appendRow and setAt, and saved.  What parseData computes is compared    *)
(* with ReferenceRows, which says it without a loop.                       *)
(*                                                                         *)
(* The two line ends (10 and 13) are one character here.  Texts are        *)
(* shorter than MAX_FIELD_SIZE, which parseData does not test.  Nothing    *)
(* loads an object twice; only the tests' API uses the files.              *)
(***************************************************************************)
EXTENDS Naturals, Sequences, FiniteSets

CONSTANTS
    Letters,            \* characters that are part of fields
    MaxText,            \* bound on the length of a text
    READ_BLOCK_SIZE,
    MaxRows,            \* bound on the rows of an object after appendRow
    MaxCols             \* bound on the argument of setColNum

Chars == Letters \cup {",", "\n"}

ASSUME CsvAssumption ==
    /\ Letters \cap {",", "\n"} = {}
    /\ MaxText \in Nat /\ MaxRows \in Nat /\ MaxCols \in Nat
    /\ READ_BLOCK_SIZE \in Nat \ {0}

VARIABLES
    phase,       \* "new", "parsing" or "loaded"
    blocks,      \* readed_data that is still to be parsed
    text,        \* history: the text that was loaded
    cur_field,
    rw,
    cur_col,
    rowsDeque_,
    rowsCount_,
    colsCount_,
    loadedRows   \* history: rows that came from the text

vars == <<phase, blocks, text, cur_field, rw, cur_col, rowsDeque_, rowsCount_,
          colsCount_, loadedRows>>

counts == <<rowsCount_, colsCount_, loadedRows>>

Init ==
    /\ phase = "new"
    /\ blocks = <<>>
    /\ text = <<>>
    /\ cur_field = <<>>
    /\ rw = <<>>
    /\ cur_col = 0
    /\ rowsDeque_ = <<>>
    /\ rowsCount_ = 0
    /\ colsCount_ = 0
    /\ loadedRows = 0

\* row(rowsCount_): a row of that many empty fields.
NewRow == [k \in 1..rowsCount_ |-> <<>>]

\* The sequences of seqs, one behind the other.
Concat(seqs) ==
    LET upTo[k \in 1..Len(seqs)] == IF k = 1 THEN seqs[k] ELSE upTo[k - 1] \o seqs[k]
    IN IF Len(seqs) = 0 THEN <<>> ELSE upTo[Len(seqs)]

Blocks(data) ==
    LET n == (Len(data) + READ_BLOCK_SIZE - 1) \div READ_BLOCK_SIZE
        LastOf(k) == IF k * READ_BLOCK_SIZE < Len(data) THEN k * READ_BLOCK_SIZE ELSE Len(data)
    IN [k \in 1..n |-> SubSeq(data, (k - 1) * READ_BLOCK_SIZE + 1, LastOf(k))]

\* parseData starts with readed_data, the blocks of a text.
ParseStarts(readed_data, whole) ==
    /\ phase = "new"
    /\ phase' = "parsing"
    /\ text' = whole
    /\ blocks' = readed_data
    /\ rowsDeque_' = Append(rowsDeque_, <<>>)
    /\ rw' = NewRow
    /\ UNCHANGED <<cur_field, cur_col, counts>>

loadFromMemory(data) == ParseStarts(Blocks(data), data)

MutLoadFile(file, junk) == <<junk>>     \* goes to the end for the size, and stays there

\* The size is taken at the start of the file, so one block is read, and all of
\* buffer is used: behind a shorter file it is what was on the stack.
loadFile(file, junk) == <<SubSeq(file \o junk, 1, READ_BLOCK_SIZE)>>

loadFromFile(file, junk) == ParseStarts(loadFile(file, junk), Concat(loadFile(file, junk)))

\* The next character of the current block is c.
ReadChar(c) ==
    /\ phase = "parsing"
    /\ blocks # <<>> /\ blocks[1] # <<>>
    /\ c = Head(blocks[1])
    /\ blocks' = [blocks EXCEPT ![1] = Tail(@)]
    /\ UNCHANGED <<phase, text, counts>>

MutFieldChar(c) ==          \* tests for the line end only
    /\ c \in Letters
    /\ \E d \in Letters \cup {","} : ReadChar(d) /\ cur_field' = Append(cur_field, d)
    /\ UNCHANGED <<rw, cur_col, rowsDeque_>>

FieldChar(c) ==
    /\ c \in Letters
    /\ ReadChar(c)
    /\ cur_field' = Append(cur_field, c)
    /\ UNCHANGED <<rw, cur_col, rowsDeque_>>

\* The row with the field that ends here; there are no empty fields.
RowWithField == IF cur_field # <<>> THEN Append(rw, cur_field) ELSE rw

Delimiter ==
    /\ ReadChar(",")
    /\ rw' = RowWithField
    /\ cur_field' = <<>>
    /\ UNCHANGED <<cur_col, rowsDeque_>>

EndOfLineWith(row) ==
    /\ ReadChar("\n")
    /\ cur_field' = <<>>
    /\ IF row # <<>>
       THEN /\ rowsDeque_' = [Append(rowsDeque_, <<>>) EXCEPT ![cur_col + 1] = row]
            /\ cur_col' = cur_col + 1
            /\ rw' = NewRow
       ELSE rw' = row /\ UNCHANGED <<rowsDeque_, cur_col>>

MutEndOfLine == EndOfLineWith(rw)       \* forgets the field before the line end

\* There are no empty rows either.
EndOfLine == EndOfLineWith(RowWithField)

NextBlockWith(field) ==
    /\ phase = "parsing"
    /\ blocks # <<>> /\ blocks[1] = <<>>
    /\ blocks' = Tail(blocks)
    /\ cur_field' = field
    /\ UNCHANGED <<phase, text, rw, cur_col, rowsDeque_, counts>>

MutNextBlock == NextBlockWith(<<>>)     \* starts every block with an empty field

NextBlock == NextBlockWith(cur_field)

\* The end of parseData: what follows the last line end is dropped.
ParseEndsWith(rows) ==
    /\ phase = "parsing"
    /\ blocks = <<>>
    /\ phase' = "loaded"
    /\ rowsDeque_' = rows
    /\ rowsCount_' = Len(rows)
    /\ loadedRows' = Len(rows)
    /\ colsCount_' = IF rows # <<>> THEN Len(rows[1]) ELSE colsCount_
    /\ rw' = <<>> /\ cur_field' = <<>>
    /\ UNCHANGED <<blocks, text, cur_col>>

MutParseEnds == ParseEndsWith(rowsDeque_)       \* forgets pop_back

ParseEnds == ParseEndsWith(SubSeq(rowsDeque_, 1, Len(rowsDeque_) - 1))

\* An object that is filled by appendRow alone: setRowNum(0) and setColNum(num).
setColNum(num) ==
    /\ phase = "new"
    /\ phase' = "loaded"
    /\ rowsCount_' = 0
    /\ colsCount_' = num
    /\ UNCHANGED <<blocks, text, cur_field, rw, cur_col, rowsDeque_, loadedRows>>

AppendIf(r, accepted) ==
    /\ phase = "loaded"
    /\ Len(rowsDeque_) < MaxRows
    /\ accepted
    /\ rowsDeque_' = Append(rowsDeque_, r)
    /\ rowsCount_' = Len(rowsDeque_')
    /\ UNCHANGED <<phase, blocks, text, cur_field, rw, cur_col, colsCount_, loadedRows>>

MutAppendRow(r) == AppendIf(r, TRUE)    \* does not compare the width

appendRow(r) == AppendIf(r, Len(r) = colsCount_)

\* getAtRef throws unless both indexes are below the counts; a row that is shorter
\* than the first one is not noticed; what happens then is not modelled.
IndexAllowed(row_n, col_n) == row_n < rowsCount_ /\ col_n < colsCount_

setAt(row_n, col_n, data) ==
    /\ phase = "loaded"
    /\ IndexAllowed(row_n, col_n)
    /\ col_n < Len(rowsDeque_[row_n + 1])
    /\ rowsDeque_' = [rowsDeque_ EXCEPT ![row_n + 1][col_n + 1] = data]
    /\ UNCHANGED <<phase, blocks, text, cur_field, rw, cur_col, counts>>

Join(seqs, sep) ==
    Concat([k \in DOMAIN seqs |-> IF k < Len(seqs) THEN Append(seqs[k], sep) ELSE seqs[k]])

\* The fields that saveToFile writes, if no row is shorter than the first one ...
SavedRows == [i \in DOMAIN rowsDeque_ |-> SubSeq(rowsDeque_[i], 1, colsCount_)]

\* ... and the file.  There is no line end behind the last row.
saveToFile == Join([i \in DOMAIN SavedRows |-> Join(SavedRows[i], ",")], "\n")

\* saveToFile throws unless there are rows and columns.
SaveAllowed ==
    /\ phase = "loaded"
    /\ rowsCount_ > 0 /\ colsCount_ > 0
    /\ \A i \in DOMAIN rowsDeque_ : Len(rowsDeque_[i]) >= colsCount_

Texts == UNION {[1..n -> Chars] : n \in 0..MaxText}

Junk == [1..READ_BLOCK_SIZE -> Chars]

Next ==
    \/ phase = "new" /\ \E data \in Texts : loadFromMemory(data)
    \/ phase = "new" /\ \E file \in Texts, junk \in Junk : loadFromFile(file, junk)
    \/ \E num \in 0..MaxCols : setColNum(num)
    \/ \E c \in Letters : FieldChar(c)
    \/ Delimiter \/ EndOfLine \/ NextBlock \/ ParseEnds
    \/ \E n \in 0..MaxText, c \in Letters : appendRow([k \in 1..n |-> <<c>>])
    \/ \E i \in 0..MaxRows, j \in 0..MaxText, c \in Letters : setAt(i, j, <<c, c>>)

Spec == Init /\ [][Next]_vars

-----------------------------------------------------------------------------
\* The reference: rows are the lines that are ended and contain a field; fields
\* are the longest runs of letters in them.

Separator(c) == c \in {",", "\n"}

\* The elements of a finite set of numbers, in ascending order.
Ascending(S) ==
    [k \in 1..Cardinality(S) |-> CHOOSE x \in S : Cardinality({y \in S : y < x}) = k - 1]

\* Where the fields of the line that ends at position e start.
Starts(t, e) ==
    {a \in 1..(e - 1) :
        /\ ~Separator(t[a])
        /\ a = 1 \/ Separator(t[a - 1])
        /\ \A b \in a..(e - 1) : t[b] # "\n"}

FieldFrom(t, a) ==
    CHOOSE f \in {SubSeq(t, a, b) : b \in a..Len(t)} :
        /\ \A k \in DOMAIN f : ~Separator(f[k])
        /\ a + Len(f) > Len(t) \/ Separator(t[a + Len(f)])

RowEndedAt(t, e) ==
    LET starts == Ascending(Starts(t, e))
    IN [k \in DOMAIN starts |-> FieldFrom(t, starts[k])]

ReferenceRows(t) ==
    LET ends == Ascending({e \in DOMAIN t : t[e] = "\n" /\ Starts(t, e) # {}})
    IN [k \in DOMAIN ends |-> RowEndedAt(t, ends[k])]

-----------------------------------------------------------------------------
\* Types.
TypeOK ==
    /\ phase \in {"new", "parsing", "loaded"}
    /\ blocks \in Seq(Seq(Chars))
    /\ text \in Seq(Chars)
    /\ cur_field \in Seq(Letters)
    /\ rw \in Seq(Seq(Letters))
    /\ rowsDeque_ \in Seq(Seq(Seq(Letters)))
    /\ {cur_col, rowsCount_, colsCount_, loadedRows} \subseteq Nat

\* The part of the text that is no longer in the blocks.
TextSoFar == SubSeq(text, 1, Len(text) - Len(Concat(blocks)))

\* After every character, in whatever blocks the text comes, the rows parseData
\* has stored are those of the text read so far.
RowsSoFar == phase = "parsing" => SubSeq(rowsDeque_, 1, cur_col) = ReferenceRows(TextSoFar)

\* When parseData returns the rows are those of the whole text, its last and
\* shorter block included, and the counts are theirs.
LoadedAsReference ==
    [][phase = "parsing" /\ phase' = "loaded" =>
          /\ rowsDeque_' = ReferenceRows(text)
          /\ rowsCount_' = Len(ReferenceRows(text))]_vars

LineEnds(t, n) == Cardinality({e \in DOMAIN t : e <= n /\ t[e] = "\n"})

\* A saved file that is loaded again gives back, first and in order, the rows whose
\* line end is in the first block, whatever follows in loadFile's buffer.  (Of the
\* last row, which has no line end, nothing is promised.)
SavedRowsLoad ==
    SaveAllowed =>
        LET file == saveToFile
            kept == SubSeq(SavedRows, 1, LineEnds(file, READ_BLOCK_SIZE))
            gap == {k \in 1..READ_BLOCK_SIZE : k + Len(file) <= READ_BLOCK_SIZE}
        IN kept # <<>> =>
             \A junk \in [gap -> Chars] :
                 LET rows == ReferenceRows(Concat(loadFile(file, junk)))
                 IN Len(kept) <= Len(rows) /\ SubSeq(rows, 1, Len(kept)) = kept

\* Rows added after the load have as many fields as colsCount_ says, and rowsCount_
\* follows, so getAt is safe on them.
AppendedRowsFit ==
    phase = "loaded" =>
        /\ rowsCount_ = Len(rowsDeque_)
        /\ \A i \in (loadedRows + 1)..rowsCount_ : Len(rowsDeque_[i]) = colsCount_
=============================================================================
