----------------------------- MODULE Csv_proofs -----------------------------
(***************************************************************************)
(* Proofs about Csv, for every set of letters, every text and every        *)
(* READ_BLOCK_SIZE: parseData stores the rows of the reference, whatever   *)
(* the blocks are in which the text comes; rows added later are as wide as *)
(* the counts say; and a saved file gives its rows back when it is loaded. *)
(*                                                                         *)
(* IInv relates the variables of parseData to the reference of the text    *)
(* read so far; CsvText_proofs has what one more character does to it.     *)
(***************************************************************************)
EXTENDS CsvText_proofs

\* Types of what is loaded.
LEMMA TextsType == ASSUME NEW data \in Texts PROVE data \in Seq(Chars)
  <1>1. PICK n \in 0..MaxText : data \in [1..n -> Chars]
    BY DEF Texts
  <1>2. n \in Nat
    <2>1. MaxText \in Nat
      BY CsvAssumption, Zenon
    <2> QED
      BY <1>1, <2>1
  <1> QED
    BY <1>1, <1>2

LEMMA BlocksType == ASSUME NEW data \in Seq(Chars) PROVE Blocks(data) \in Seq(Seq(Chars))
  <1> DEFINE B == READ_BLOCK_SIZE
             n == (Len(data) + B - 1) \div B
             LastOf(k) == IF k * B < Len(data) THEN k * B ELSE Len(data)
  <1>1. B \in Nat \ {0} /\ Len(data) \in Nat /\ n \in Nat
    <2>1. B \in Nat \ {0}
      BY CsvAssumption, Zenon
    <2>2. Len(data) + B - 1 \in Nat
      BY <2>1
    <2> HIDE DEF B
    <2>3. \A x \in Nat : x \div B \in Nat
      BY <2>1
    <2> QED
      BY <2>1, <2>2, <2>3
  <1>2. ASSUME NEW k \in 1..n PROVE SubSeq(data, (k - 1) * B + 1, LastOf(k)) \in Seq(Chars)
    <2>1. k - 1 \in Nat /\ k \in Nat
      BY <1>1
    <2>2. (k - 1) * B \in Nat /\ k * B \in Nat
      BY <1>1, <2>1
    <2> DEFINE a == (k - 1) * B + 1
               b == LastOf(k)
    <2>3. a \in Int /\ a >= 1 /\ b \in Int /\ b <= Len(data)
      BY <1>1, <2>2
    <2> HIDE DEF a, b
    <2>4. \A i \in a..b : data[i] \in Chars
      BY <1>1, <2>3, ElementOfSeq
    <2>5. SubSeq(data, a, b) \in Seq(Chars)
      BY <2>3, <2>4, SubSeqProperties
    <2> QED
      BY <2>5 DEF a, b
  <1>3. Blocks(data) = [k \in 1..n |-> SubSeq(data, (k - 1) * B + 1, LastOf(k))]
    BY DEF Blocks
  <1> HIDE DEF n, LastOf
  <1> QED
    BY <1>1, <1>2, <1>3

LEMMA DivFacts ==
    ASSUME NEW x \in Nat, NEW b \in Nat \ {0}
    PROVE  LET q == x \div b IN q \in Nat /\ q * b <= x /\ x < q * b + b
  OBVIOUS

\* The blocks are the text, no character lost or read twice, the last one shorter.
LEMMA BlocksWhole == ASSUME NEW data \in Seq(Chars) PROVE Concat(Blocks(data)) = data
  <1> DEFINE B == READ_BLOCK_SIZE
             L == Len(data)
             n == (L + B - 1) \div B
             LastOf(k) == IF k * B < L THEN k * B ELSE L
             s == Blocks(data)
  <1>1. B \in Nat \ {0} /\ L \in Nat
    <2>1. B \in Nat \ {0}
      BY CsvAssumption, Zenon
    <2> QED
      BY <2>1
  <1>2. s = [k \in 1..n |-> SubSeq(data, (k - 1) * B + 1, LastOf(k))]
    BY DEF Blocks
  <1> HIDE DEF B, L, s
  <1>3. n \in Nat /\ n * B <= L + B - 1 /\ L + B - 1 < n * B + B
    <2>1. L + B - 1 \in Nat
      BY <1>1
    <2> QED
      BY <1>1, <2>1, DivFacts
  <1> HIDE DEF n
  <1>4. Len(s) = n /\ \A k \in 1..n : s[k] = SubSeq(data, (k - 1) * B + 1, LastOf(k))
    <2> DEFINE E(k) == SubSeq(data, (k - 1) * B + 1, LastOf(k))
    <2>1. s = [k \in 1..n |-> E(k)]
      BY <1>2
    <2> HIDE DEF E
    <2>2. Len(s) = n /\ \A k \in 1..n : s[k] = E(k)
      BY <1>3, <2>1
    <2> QED
      BY <2>2 DEF E
  <1>5. CASE n = 0
    <2>1. L = 0
      BY <1>1, <1>3, <1>5
    <2>2. data = <<>> /\ s = <<>>
      BY <1>2, <1>5, <2>1 DEF L
    <2> QED
      BY <2>2, ConcatOfNone DEF s
  <1>6. CASE n # 0
    <2> DEFINE f == CHOOSE g : IsFlat(g, s, n)
    <2>1. IsFlat(f, s, n)
      BY <1>3, FlatExists
    <2>2. Concat(s) = f[n]
      BY <1>4, <1>6, ConcatIsFlat
    <2> HIDE DEF f
    <2>3. f[1] = s[1] /\ \A k \in 1..n : k # 1 => f[k] = f[k - 1] \o s[k]
      BY <1>3, <1>6, <2>1, FlatEnds, Zenon
    <2>4. \A k \in Nat : k * B \in Nat /\ (k + 1) * B = k * B + B
      BY <1>1
    <2>5. \A k \in Nat : k <= n - 1 => k * B < L
      <3> SUFFICES ASSUME NEW k \in Nat, k <= n - 1 PROVE k * B < L
        OBVIOUS
      <3>1. (k + 1) * B <= n * B
        BY <1>1, <1>3
      <3> QED
        BY <1>1, <1>3, <2>4, <3>1
    <2> DEFINE P(k) == k + 1 \in 1..n => f[k + 1] = SubSeq(data, 1, LastOf(k + 1))
               T == {k \in Nat : P(k)}
    <2>6. P(0)
      <3>1. 1 \in 1..n /\ (1 - 1) * B + 1 = 1 /\ 0 + 1 = 1
        BY <1>1, <1>3, <1>6
      <3>2. s[1] = SubSeq(data, (1 - 1) * B + 1, LastOf(1))
        BY <1>4, <3>1
      <3> HIDE DEF LastOf
      <3> QED
        BY <2>3, <3>1, <3>2
    <2>7. ASSUME NEW k \in Nat, P(k) PROVE P(k + 1)
      <3> SUFFICES ASSUME k + 1 + 1 \in 1..n PROVE f[k + 1 + 1] = SubSeq(data, 1, LastOf(k + 1 + 1))
        OBVIOUS
      <3> DEFINE j == k + 1
                 p == j * B
                 q == LastOf(j + 1)
      <3>1. j \in Nat /\ j \in 1..n /\ j + 1 \in 1..n /\ j <= n - 1 /\ j + 1 # 1 /\ (j + 1) - 1 = j
        BY <1>3
      <3>2. f[j] = SubSeq(data, 1, LastOf(j))
        BY <2>7, <3>1
      <3> HIDE DEF j
      <3>3. LastOf(j) = p /\ p \in Nat /\ p < L
        BY <2>4, <2>5, <3>1
      <3>4. q \in Nat /\ p <= q /\ q <= L
        BY <1>1, <2>4, <3>1, <3>3
      <3>5. s[j + 1] = SubSeq(data, p + 1, q)
        BY <1>4, <3>1
      <3>6. f[j + 1] = f[j] \o s[j + 1]
        BY <2>3, <3>1, Zenon
      <3> HIDE DEF p, q, LastOf
      <3>7. SubSeq(data, 1, p) \o SubSeq(data, p + 1, q) = SubSeq(data, 1, q)
        <4>1. 1 \in 1..(Len(data) + 1) /\ p \in (1 - 1)..Len(data) /\ q \in p..Len(data)
          BY <1>1, <3>3, <3>4 DEF L
        <4> QED
          BY <4>1, ConcatAdjacentSubSeq
      <3>8. f[j + 1] = SubSeq(data, 1, q)
        BY <3>2, <3>3, <3>5, <3>6, <3>7, Zenon
      <3> QED
        BY <3>8 DEF j, q
    <2> HIDE DEF P
    <2>8. 0 \in T /\ T \in SUBSET Nat /\ \A k \in T : k + 1 \in T
      BY <2>6, <2>7
    <2> HIDE DEF T
    <2>9. T = Nat
      BY <2>8, NatInduct
    <2>10. P(n - 1)
      <3>1. n - 1 \in Nat
        BY <1>3, <1>6
      <3> QED
        BY <2>9, <3>1 DEF T
    <2>11. LastOf(n) = L
      BY <1>1, <1>3
    <2>12. n - 1 + 1 = n /\ n \in 1..n
      BY <1>3, <1>6
    <2>13. f[n] = SubSeq(data, 1, L)
      BY <2>10, <2>11, <2>12 DEF P
    <2> QED
      BY <2>2, <2>13, SubSeqFull DEF s, L
  <1> QED
    BY <1>5, <1>6

LEMMA LoadFileType ==
    ASSUME NEW file \in Seq(Chars), NEW junk \in Junk
    PROVE  loadFile(file, junk) \in Seq(Seq(Chars))
  <1> DEFINE B == READ_BLOCK_SIZE
  <1>1. B \in Nat \ {0} /\ junk \in Seq(Chars) /\ Len(junk) = B
    <2>1. B \in Nat \ {0}
      BY CsvAssumption, Zenon
    <2>2. junk \in [1..B -> Chars]
      BY DEF Junk
    <2> HIDE DEF B
    <2> QED
      BY <2>1, <2>2
  <1>2. file \o junk \in Seq(Chars) /\ Len(file \o junk) = Len(file) + B /\ Len(file) \in Nat
    <2>1. /\ file \o junk \in Seq(Chars) /\ Len(file \o junk) = Len(file) + Len(junk)
      BY <1>1, ConcatProperties, Zenon
    <2>2. Len(file) \in Nat
      OBVIOUS
    <2> QED
      BY <1>1, <2>1, <2>2
  <1> DEFINE s == file \o junk
             z == SubSeq(s, 1, B)
  <1>3. loadFile(file, junk) = <<z>>
    BY DEF loadFile
  <1> HIDE DEF s
  <1>4. SubSeq(s, 1, B) \in Seq(Chars)
    <2>1. 1 \in 1..(Len(s) + 1) /\ B \in (1 - 1)..Len(s)
      BY <1>1, <1>2 DEF s
    <2>2. s \in Seq(Chars)
      BY <1>2 DEF s
    <2> QED
      BY <2>1, <2>2, SubSeqFacts
  <1> HIDE DEF z
  <1>5. <<z>> \in Seq(Seq(Chars))
    BY <1>4 DEF z
  <1> QED
    BY <1>3, <1>5

-----------------------------------------------------------------------------
\* The parser.  Between two characters cur_field is the field that is not yet ended, rw
\* the fields before it of the same line, and rowsDeque_ the rows, with an empty one
\* behind them.
NewInv ==
    phase = "new" =>
        /\ blocks = <<>> /\ cur_field = <<>> /\ rw = <<>> /\ rowsDeque_ = <<>>
        /\ cur_col = 0 /\ rowsCount_ = 0 /\ loadedRows = 0

ParseInv ==
    phase = "parsing" =>
        /\ rowsCount_ = 0
        /\ Len(rowsDeque_) = cur_col + 1
        /\ text = TextSoFar \o Concat(blocks)
        /\ IsOpenField(TextSoFar, cur_field)
        /\ RowWithField = Line(TextSoFar)
        /\ SubSeq(rowsDeque_, 1, cur_col) = ReferenceRows(TextSoFar)

IInv == TypeOK /\ NewInv /\ ParseInv /\ AppendedRowsFit

LEMMA InitIInv == ASSUME Init PROVE IInv
  <1>1. TypeOK
    BY DEF Init, TypeOK
  <1> QED
    BY <1>1 DEF Init, IInv, NewInv, ParseInv, AppendedRowsFit

LEMMA TextSoFarType == ASSUME TypeOK, phase = "parsing", ParseInv PROVE TextSoFar \in Seq(Chars)
  <1> DEFINE B == Concat(blocks)
             k == Len(text) - Len(B)
  <1>1. B \in Seq(Chars) /\ text \in Seq(Chars)
    BY ConcatType DEF TypeOK
  <1> HIDE DEF B
  <1>2. Len(B) \in Nat /\ Len(text) \in Nat /\ k \in Int /\ k <= Len(text)
    BY <1>1
  <1> HIDE DEF k
  <1>3. \A i \in 1..k : text[i] \in Chars
    BY <1>1, <1>2, ElementOfSeq
  <1>4. SubSeq(text, 1, k) \in Seq(Chars)
    BY <1>2, <1>3, SubSeqProperties
  <1> QED
    BY <1>4 DEF TextSoFar, k, B

LEMMA ReadStep ==
    ASSUME IInv, NEW c, ReadChar(c)
    PROVE  /\ TextSoFar \in Seq(Chars) /\ c \in Chars
           /\ TextSoFar' = Append(TextSoFar, c)
           /\ text' = TextSoFar' \o Concat(blocks')
           /\ blocks' \in Seq(Seq(Chars))
  <1> DEFINE t == TextSoFar
             B == Concat(blocks)
             D == Concat(blocks')
  <1>1. phase = "parsing" /\ text = t \o B /\ t \in Seq(Chars)
    BY TextSoFarType DEF IInv, ReadChar, ParseInv
  <1>2. /\ blocks \in Seq(Seq(Chars)) /\ blocks # <<>> /\ blocks[1] # <<>> /\ c = Head(blocks[1])
        /\ blocks' = [blocks EXCEPT ![1] = Tail(@)] /\ text' = text
    BY DEF IInv, TypeOK, ReadChar
  <1>3. blocks' \in Seq(Seq(Chars)) /\ B = <<c>> \o D /\ c \in Chars
    BY <1>2, ConcatTakesChar, Zenon
  <1>4. D \in Seq(Chars)
    BY <1>3, ConcatType
  <1> HIDE DEF t, B, D
  <1>5. Append(t, c) \o D = t \o (<<c>> \o D)
    <2>1. t \in Seq(Chars) /\ c \in Chars /\ D \in Seq(Chars)
      BY <1>1, <1>3, <1>4
    <2> QED
      BY <2>1, AppendThenConcat
  <1>6. text' = Append(t, c) \o D
    BY <1>1, <1>2, <1>3, <1>5, Zenon
  <1>7. Append(t, c) \in Seq(Chars)
    BY <1>1, <1>3
  <1>8. SubSeq(Append(t, c) \o D, 1, Len(Append(t, c) \o D) - Len(D)) = Append(t, c)
    BY <1>4, <1>7, PrefixOfConcat
  <1>9. TextSoFar' = SubSeq(text', 1, Len(text') - Len(D))
    BY DEF TextSoFar, D
  <1>10. TextSoFar' = Append(t, c)
    BY <1>6, <1>8, <1>9
  <1> QED
    BY <1>1, <1>3, <1>6, <1>10 DEF t, D

\* cur_field and rw behind the character c.
LEMMA FieldFacts ==
    ASSUME IInv, phase = "parsing"
    PROVE  /\ cur_field \in Seq(Letters) /\ cur_field \in Seq(Chars)
           /\ rw \in Seq(Seq(Letters)) /\ rw \in Seq(Seq(Chars))
           /\ RowWithField \in Seq(Seq(Letters))
           /\ NewRow = <<>>
           /\ rowsDeque_ \in Seq(Seq(Seq(Letters))) /\ cur_col \in Nat
  <1>1. /\ cur_field \in Seq(Letters) /\ rw \in Seq(Seq(Letters))
        /\ rowsDeque_ \in Seq(Seq(Seq(Letters))) /\ cur_col \in Nat
    BY DEF IInv, TypeOK
  <1>2. Seq(Letters) \subseteq Seq(Chars)
    BY CharTypes, SeqMonotonic, Zenon
  <1>3. cur_field \in Seq(Chars) /\ rw \in Seq(Seq(Chars))
    BY <1>1, <1>2, SeqMonotonic
  <1>4. RowWithField \in Seq(Seq(Letters))
    BY <1>1 DEF RowWithField
  <1>5. NewRow = <<>>
    BY DEF IInv, ParseInv, NewRow
  <1> QED
    BY <1>1, <1>3, <1>4, <1>5

LEMMA FieldCharStep ==
    ASSUME IInv, NEW c \in Letters, FieldChar(c)
    PROVE  TypeOK' /\ ParseInv'
  <1> DEFINE t == TextSoFar
             g == Append(cur_field, c)
  <1>1. /\ t \in Seq(Chars) /\ c \in Chars /\ TextSoFar' = Append(t, c)
        /\ text' = TextSoFar' \o Concat(blocks') /\ blocks' \in Seq(Seq(Chars))
    BY ReadStep DEF FieldChar
  <1>2. /\ phase = "parsing" /\ phase' = phase /\ cur_field' = g
        /\ UNCHANGED <<text, counts, rw, cur_col, rowsDeque_>>
    BY DEF FieldChar, ReadChar
  <1>3. /\ cur_field \in Seq(Letters) /\ cur_field \in Seq(Chars) /\ rw \in Seq(Seq(Chars))
    BY <1>2, FieldFacts
  <1>4. ~Separator(c)
    BY CharTypes, Zenon
  <1>5. /\ rowsCount_ = 0 /\ Len(rowsDeque_) = cur_col + 1
        /\ IsOpenField(t, cur_field) /\ RowWithField = Line(t)
        /\ SubSeq(rowsDeque_, 1, cur_col) = ReferenceRows(t)
    BY <1>2 DEF IInv, ParseInv
  <1> HIDE DEF t
  <1>6. IsOpenField(Append(t, c), g)
    BY <1>1, <1>3, <1>4, <1>5, OpenFieldStep
  <1>7. Line(t) = IF cur_field # <<>> THEN Append(rw, cur_field) ELSE rw
    BY <1>5 DEF RowWithField
  <1>8. Line(Append(t, c)) = Append(rw, g)
    BY <1>1, <1>3, <1>4, <1>5, <1>7, LineAtLetter
  <1>9. ReferenceRows(Append(t, c)) = ReferenceRows(t)
    BY <1>1, <1>4, ReferenceStep, Zenon DEF Separator
  <1>10. g # <<>> /\ g \in Seq(Letters)
    BY <1>3
  <1>11. RowWithField' = Append(rw, g)
    BY <1>2, <1>10 DEF RowWithField
  <1>12. TypeOK'
    BY <1>1, <1>2, <1>10 DEF IInv, TypeOK, counts
  <1> HIDE DEF g
  <1> QED
    BY <1>1, <1>2, <1>5, <1>6, <1>8, <1>9, <1>11, <1>12 DEF ParseInv, counts

LEMMA DelimiterStep ==
    ASSUME IInv, Delimiter
    PROVE  TypeOK' /\ ParseInv'
  <1> DEFINE t == TextSoFar
  <1>1. /\ t \in Seq(Chars) /\ "," \in Chars /\ TextSoFar' = Append(t, ",")
        /\ text' = TextSoFar' \o Concat(blocks') /\ blocks' \in Seq(Seq(Chars))
    BY ReadStep, Zenon DEF Delimiter
  <1>2. /\ phase = "parsing" /\ phase' = phase /\ cur_field' = <<>> /\ rw' = RowWithField
        /\ UNCHANGED <<text, counts, cur_col, rowsDeque_>>
    BY Zenon DEF Delimiter, ReadChar
  <1>3. cur_field \in Seq(Chars) /\ RowWithField \in Seq(Seq(Letters))
    BY <1>2, FieldFacts
  <1>4. Separator(",")
    BY CharTypes, Zenon
  <1>5. /\ rowsCount_ = 0 /\ Len(rowsDeque_) = cur_col + 1
        /\ IsOpenField(t, cur_field) /\ RowWithField = Line(t)
        /\ SubSeq(rowsDeque_, 1, cur_col) = ReferenceRows(t)
    BY <1>2 DEF IInv, ParseInv
  <1> HIDE DEF t
  <1>6. IsOpenField(Append(t, ","), <<>>)
    BY <1>1, <1>3, <1>4, <1>5, OpenFieldStep, Zenon
  <1>7. Line(Append(t, ",")) = Line(t)
    BY <1>1, <1>4, LineAtSeparator, Zenon
  <1>8. ReferenceRows(Append(t, ",")) = ReferenceRows(t)
    BY <1>1, ReferenceStep, Zenon
  <1>9. RowWithField' = RowWithField
    BY <1>2 DEF RowWithField
  <1>10. TypeOK'
    <2>1. rw' \in Seq(Seq(Letters)) /\ cur_field' \in Seq(Letters)
      BY <1>2, <1>3
    <2> QED
      BY <1>1, <1>2, <2>1, Zenon DEF IInv, TypeOK, counts
  <1> QED
    BY <1>1, <1>2, <1>5, <1>6, <1>7, <1>8, <1>9, <1>10, Zenon DEF ParseInv, counts

LEMMA StoreRow ==
    ASSUME NEW V, NEW d \in Seq(V), NEW n \in Nat, Len(d) = n + 1, NEW e \in V, NEW row \in V
    PROVE  LET r == [Append(d, e) EXCEPT ![n + 1] = row]
           IN  /\ r \in Seq(V) /\ Len(r) = (n + 1) + 1
               /\ SubSeq(r, 1, n + 1) = Append(SubSeq(d, 1, n), row)
  <1> DEFINE x == Append(d, e)
             r == [x EXCEPT ![n + 1] = row]
             y == SubSeq(d, 1, n)
             z == SubSeq(r, 1, n + 1)
  <1>1. x \in Seq(V) /\ Len(x) = (n + 1) + 1 /\ n + 1 \in 1..Len(x) /\ \A i \in 1..(n + 1) : x[i] = d[i]
    BY AppendFacts
  <1> HIDE DEF x
  <1>2. /\ r \in Seq(V) /\ Len(r) = (n + 1) + 1
        /\ \A i \in 1..((n + 1) + 1) : r[i] = IF i = n + 1 THEN row ELSE x[i]
    BY <1>1, ExceptSeq
  <1> HIDE DEF r
  <1>3. /\ y \in Seq(V) /\ Len(y) = n - 1 + 1 /\ \A i \in 1..(n - 1 + 1) : y[i] = d[1 + i - 1]
    <2>1. 1 \in 1..(Len(d) + 1) /\ n \in (1 - 1)..Len(d)
      OBVIOUS
    <2> QED
      BY <2>1, SubSeqFacts
  <1>4. /\ z \in Seq(V) /\ Len(z) = (n + 1) - 1 + 1
        /\ \A i \in 1..((n + 1) - 1 + 1) : z[i] = r[1 + i - 1]
    <2> DEFINE m == n + 1
    <2>1. 1 \in 1..(Len(r) + 1) /\ m \in (1 - 1)..Len(r)
      BY <1>2
    <2> HIDE DEF m
    <2>2. /\ SubSeq(r, 1, m) \in Seq(V) /\ Len(SubSeq(r, 1, m)) = m - 1 + 1
          /\ \A i \in 1..(m - 1 + 1) : SubSeq(r, 1, m)[i] = r[1 + i - 1]
      BY <1>2, <2>1, SubSeqFacts
    <2> QED
      BY <2>2 DEF m
  <1> HIDE DEF y, z
  <1>5. /\ Append(y, row) \in Seq(V) /\ Len(Append(y, row)) = n + 1
        /\ Append(y, row)[n + 1] = row /\ \A i \in 1..n : Append(y, row)[i] = d[i]
    <2>1. Len(y) = n /\ \A i \in 1..n : y[i] = d[i]
      BY <1>3
    <2> QED
      BY <1>3, <2>1, AppendFacts
  <1>6. Len(z) = n + 1 /\ \A i \in 1..(n + 1) : z[i] = IF i = n + 1 THEN row ELSE d[i]
    BY <1>1, <1>2, <1>4
  <1>7. z = Append(y, row)
    BY <1>4, <1>5, <1>6, SeqEqual
  <1> QED
    BY <1>2, <1>7 DEF z, y, r, x

LEMMA EndOfLineStep ==
    ASSUME IInv, EndOfLine
    PROVE  TypeOK' /\ ParseInv'
  <1> DEFINE t == TextSoFar
             row == RowWithField
  <1>0. ReadChar("\n")
    BY DEF EndOfLine, EndOfLineWith
  <1>1. /\ t \in Seq(Chars) /\ "\n" \in Chars /\ TextSoFar' = Append(t, "\n")
        /\ text' = TextSoFar' \o Concat(blocks') /\ blocks' \in Seq(Seq(Chars))
    BY <1>0, ReadStep
  <1>2. phase = "parsing" /\ phase' = phase /\ cur_field' = <<>> /\ UNCHANGED <<text, counts>>
    BY <1>0 DEF EndOfLine, EndOfLineWith, ReadChar
  <1>3. /\ cur_field \in Seq(Chars) /\ row \in Seq(Seq(Letters)) /\ NewRow = <<>>
        /\ rowsDeque_ \in Seq(Seq(Seq(Letters))) /\ cur_col \in Nat
    BY <1>2, FieldFacts
  <1>4. Separator("\n")
    BY CharTypes, Zenon
  <1>5. /\ rowsCount_ = 0 /\ Len(rowsDeque_) = cur_col + 1
        /\ IsOpenField(t, cur_field) /\ row = Line(t)
        /\ SubSeq(rowsDeque_, 1, cur_col) = ReferenceRows(t)
    BY <1>2 DEF IInv, ParseInv
  <1>6. \/ /\ row # <<>>
           /\ rowsDeque_' = [Append(rowsDeque_, <<>>) EXCEPT ![cur_col + 1] = row]
           /\ cur_col' = cur_col + 1 /\ rw' = <<>>
        \/ row = <<>> /\ rw' = <<>> /\ UNCHANGED <<rowsDeque_, cur_col>>
    BY <1>3 DEF EndOfLine, EndOfLineWith
  <1> HIDE DEF t, row
  <1>7. IsOpenField(Append(t, "\n"), <<>>)
    BY <1>1, <1>3, <1>4, <1>5, OpenFieldStep
  <1>8. Line(Append(t, "\n")) = <<>>
    BY <1>1, <1>4, LineAtSeparator, Zenon
  <1>9. row # <<>> <=> Starts(t, Len(t) + 1) # {}
    BY <1>1, <1>5, LineEmpty
  <1>10. ReferenceRows(Append(t, "\n")) =
            IF row # <<>> THEN Append(ReferenceRows(t), row) ELSE ReferenceRows(t)
    BY <1>1, <1>5, <1>9, ReferenceStep, Zenon DEF Line
  <1>11. RowWithField' = <<>>
    BY <1>2, <1>6 DEF RowWithField
  <1>12. /\ rowsDeque_' \in Seq(Seq(Seq(Letters))) /\ Len(rowsDeque_') = cur_col' + 1
         /\ SubSeq(rowsDeque_', 1, cur_col') = ReferenceRows(Append(t, "\n")) /\ cur_col' \in Nat
    <2>1. CASE row = <<>>
      BY <1>3, <1>5, <1>6, <1>10, <2>1
    <2>2. CASE row # <<>>
      <3> DEFINE V == Seq(Seq(Letters))
      <3>1. <<>> \in V /\ row \in V /\ rowsDeque_ \in Seq(V)
        BY <1>3
      <3> HIDE DEF V
      <3>2. /\ rowsDeque_' \in Seq(V) /\ Len(rowsDeque_') = (cur_col + 1) + 1
            /\ SubSeq(rowsDeque_', 1, cur_col + 1) = Append(SubSeq(rowsDeque_, 1, cur_col), row)
        <4> DEFINE e == <<>>
                   n == cur_col
        <4>1. rowsDeque_' = [Append(rowsDeque_, e) EXCEPT ![n + 1] = row]
          BY <1>6, <2>2
        <4>2. e \in V /\ n \in Nat /\ Len(rowsDeque_) = n + 1
          BY <1>3, <1>5, <3>1
        <4> HIDE DEF e, n
        <4>3. LET r == [Append(rowsDeque_, e) EXCEPT ![n + 1] = row]
              IN  /\ r \in Seq(V) /\ Len(r) = (n + 1) + 1
                  /\ SubSeq(r, 1, n + 1) = Append(SubSeq(rowsDeque_, 1, n), row)
          BY <3>1, <4>2, StoreRow
        <4> QED
          BY <4>1, <4>3, Zenon DEF n
      <3>3. cur_col' = cur_col + 1
        BY <1>6, <2>2
      <3>4. SubSeq(rowsDeque_', 1, cur_col') = ReferenceRows(Append(t, "\n"))
        BY <1>5, <1>10, <2>2, <3>2, <3>3, Zenon
      <3>5. rowsDeque_' \in Seq(Seq(Seq(Letters)))
        BY <3>2 DEF V
      <3> QED
        BY <1>3, <3>2, <3>3, <3>4, <3>5
    <2> QED
      BY <2>1, <2>2
  <1>13. TypeOK'
    <2>0. rw' = <<>>
      BY <1>6
    <2>1. rw' \in Seq(Seq(Letters)) /\ cur_field' \in Seq(Letters)
      BY <1>2, <2>0
    <2> QED
      BY <1>1, <1>2, <1>12, <2>1, Zenon DEF IInv, TypeOK, counts
  <1> QED
    BY <1>1, <1>2, <1>5, <1>7, <1>8, <1>11, <1>12, <1>13, Zenon DEF ParseInv, counts

LEMMA NextBlockStep ==
    ASSUME IInv, NextBlock
    PROVE  TypeOK' /\ ParseInv'
  <1>1. /\ blocks \in Seq(Seq(Chars)) /\ blocks # <<>> /\ blocks[1] = <<>> /\ blocks' = Tail(blocks)
        /\ phase = "parsing"
        /\ UNCHANGED <<phase, text, cur_field, rw, cur_col, rowsDeque_, counts>>
    BY DEF IInv, TypeOK, NextBlock, NextBlockWith
  <1>2. blocks' \in Seq(Seq(Chars)) /\ Concat(blocks') = Concat(blocks)
    BY <1>1, ConcatDropsEmpty
  <1>3. TextSoFar' = TextSoFar /\ RowWithField' = RowWithField
    BY <1>1, <1>2 DEF TextSoFar, RowWithField
  <1>4. TypeOK'
    BY <1>1, <1>2 DEF IInv, TypeOK, counts
  <1> QED
    BY <1>1, <1>2, <1>3, <1>4 DEF IInv, ParseInv, counts

LEMMA StartStep ==
    ASSUME IInv, NEW b \in Seq(Seq(Chars)), ParseStarts(b, Concat(b))
    PROVE  TypeOK' /\ ParseInv'
  <1> DEFINE F == Concat(b)
  <1>1. /\ cur_field = <<>> /\ rowsDeque_ = <<>> /\ cur_col = 0 /\ rowsCount_ = 0
        /\ phase' = "parsing" /\ text' = F /\ blocks' = b /\ rowsDeque_' = Append(rowsDeque_, <<>>)
        /\ rw' = NewRow /\ UNCHANGED <<cur_field, cur_col, counts>>
    BY DEF IInv, NewInv, ParseStarts
  <1>2. F \in Seq(Chars)
    BY ConcatType
  <1>3. NewRow = <<>>
    BY <1>1 DEF NewRow
  <1>4. rowsDeque_' = << <<>> >> /\ Len(rowsDeque_') = 1
    BY <1>1
  <1>5. Concat(blocks') = F
    BY <1>1
  <1> HIDE DEF F
  <1>6. SubSeq(<<>> \o F, 1, Len(<<>> \o F) - Len(F)) = <<>> /\ <<>> \o F = F
    <2> DEFINE e == <<>>
    <2>1. e \in Seq(Chars) /\ e \o F = F
      BY <1>2, ConcatEmptySeq
    <2> HIDE DEF e
    <2>2. SubSeq(e \o F, 1, Len(e \o F) - Len(F)) = e
      BY <1>2, <2>1, PrefixOfConcat
    <2> QED
      BY <2>1, <2>2 DEF e
  <1>7. TextSoFar' = <<>>
    BY <1>1, <1>5, <1>6 DEF TextSoFar
  <1>8. IsOpenField(<<>>, <<>>)
    BY DEF IsOpenField
  <1>9. RowWithField' = <<>>
    BY <1>1, <1>3 DEF RowWithField
  <1>10. SubSeq(rowsDeque_', 1, cur_col') = <<>>
    <2>1. cur_col' = 0
      BY <1>1
    <2>2. SubSeq(rowsDeque_', 1, 0) = <<>>
      BY <1>4
    <2> QED
      BY <2>1, <2>2
  <1>11. TypeOK'
    <2>1. rw' \in Seq(Seq(Letters)) /\ rowsDeque_' \in Seq(Seq(Seq(Letters)))
      BY <1>1, <1>3, <1>4
    <2> QED
      BY <1>1, <1>2, <2>1 DEF IInv, TypeOK, counts
  <1>12. ParseInv'
    <2>1. rowsCount_' = 0 /\ Len(rowsDeque_') = cur_col' + 1
      BY <1>1, <1>4 DEF counts
    <2>2. text' = TextSoFar' \o Concat(blocks')
      BY <1>1, <1>5, <1>6, <1>7, Zenon
    <2>3. cur_field' = <<>>
      BY <1>1
    <2>4. /\ IsOpenField(TextSoFar', cur_field') /\ RowWithField' = Line(TextSoFar')
          /\ SubSeq(rowsDeque_', 1, cur_col') = ReferenceRows(TextSoFar')
      BY <1>7, <1>8, <1>9, <1>10, <2>3, ReferenceOfEmpty, Zenon
    <2> QED
      BY <2>1, <2>2, <2>4 DEF ParseInv
  <1> QED
    BY <1>11, <1>12

LEMMA LastDropped ==
    ASSUME NEW V, NEW d \in Seq(V), NEW n \in Nat, Len(d) = n + 1
    PROVE  /\ SubSeq(d, 1, Len(d) - 1) = SubSeq(d, 1, n)
           /\ SubSeq(d, 1, n) \in Seq(V) /\ Len(SubSeq(d, 1, n)) = n
  <1>1. Len(d) - 1 = n /\ 1 \in 1..(Len(d) + 1) /\ n \in (1 - 1)..Len(d) /\ n - 1 + 1 = n
    OBVIOUS
  <1> QED
    BY <1>1, SubSeqFacts

LEMMA EndStep ==
    ASSUME IInv, ParseEnds
    PROVE  /\ TypeOK' /\ AppendedRowsFit'
           /\ rowsDeque_' = ReferenceRows(text) /\ rowsCount_' = Len(ReferenceRows(text))
  <1>1. /\ phase = "parsing" /\ blocks = <<>> /\ phase' = "loaded"
        /\ rowsDeque_' = SubSeq(rowsDeque_, 1, Len(rowsDeque_) - 1)
        /\ rowsCount_' = Len(rowsDeque_')
        /\ loadedRows' = Len(rowsDeque_') /\ rw' = <<>> /\ cur_field' = <<>>
        /\ colsCount_' = IF rowsDeque_' # <<>> THEN Len(rowsDeque_'[1]) ELSE colsCount_
        /\ UNCHANGED <<blocks, text, cur_col>>
    BY DEF ParseEnds, ParseEndsWith
  <1>2. /\ text \in Seq(Chars) /\ rowsDeque_ \in Seq(Seq(Seq(Letters))) /\ cur_col \in Nat
        /\ colsCount_ \in Nat
    BY DEF IInv, TypeOK
  <1>3. TextSoFar = text
    <2>1. Concat(blocks) = <<>>
      BY <1>1, ConcatOfNone
    <2>2. text = TextSoFar \o <<>> /\ TextSoFar \in Seq(Chars)
      BY <1>1, <2>1, TextSoFarType, Zenon DEF IInv, ParseInv
    <2> QED
      BY <2>2, ConcatEmptySeq
  <1>4. Len(rowsDeque_) = cur_col + 1 /\ SubSeq(rowsDeque_, 1, cur_col) = ReferenceRows(text)
    BY <1>1, <1>3 DEF IInv, ParseInv
  <1>5. /\ rowsDeque_' = ReferenceRows(text) /\ rowsDeque_' \in Seq(Seq(Seq(Letters)))
        /\ Len(rowsDeque_') = cur_col
    BY <1>1, <1>2, <1>4, LastDropped
  <1>6. colsCount_' \in Nat
    <2>1. CASE rowsDeque_' # <<>>
      <3>1. rowsDeque_'[1] \in Seq(Seq(Letters))
        BY <1>5, <2>1
      <3> QED
        BY <1>1, <2>1, <3>1
    <2>2. CASE rowsDeque_' = <<>>
      BY <1>1, <1>2, <2>2
    <2> QED
      BY <2>1, <2>2
  <1>7. TypeOK'
    <2>1. rw' \in Seq(Seq(Letters)) /\ cur_field' \in Seq(Letters)
      BY <1>1
    <2>2. rowsCount_' \in Nat /\ loadedRows' \in Nat
      BY <1>1, <1>2, <1>5
    <2> QED
      BY <1>1, <1>2, <1>5, <1>6, <2>1, <2>2, Zenon DEF IInv, TypeOK
  <1>8. AppendedRowsFit'
    BY <1>1, <1>2, <1>5 DEF AppendedRowsFit
  <1> QED
    BY <1>1, <1>5, <1>7, <1>8

LEMMA Bounds == MaxText \in Nat /\ MaxRows \in Nat /\ MaxCols \in Nat
  BY CsvAssumption, Zenon

LEMMA SetColNumStep ==
    ASSUME IInv, NEW num \in 0..MaxCols, setColNum(num)
    PROVE  TypeOK' /\ AppendedRowsFit'
  <1>0. num \in Nat
    BY Bounds
  <1>1. /\ phase' = "loaded" /\ rowsCount_' = 0 /\ colsCount_' = num
        /\ rowsDeque_ = <<>> /\ loadedRows = 0
        /\ UNCHANGED <<blocks, text, cur_field, rw, cur_col, rowsDeque_, loadedRows>>
    BY DEF IInv, NewInv, setColNum
  <1>2. TypeOK'
    BY <1>0, <1>1 DEF IInv, TypeOK
  <1>3. AppendedRowsFit'
    BY <1>1 DEF AppendedRowsFit
  <1> QED
    BY <1>2, <1>3

LEMMA AppendRowStep ==
    ASSUME IInv, NEW r \in Seq(Seq(Letters)), appendRow(r)
    PROVE  TypeOK' /\ AppendedRowsFit'
  <1>1. /\ phase = "loaded" /\ phase' = "loaded" /\ Len(r) = colsCount_
        /\ rowsDeque_' = Append(rowsDeque_, r) /\ rowsCount_' = Len(rowsDeque_')
        /\ UNCHANGED <<blocks, text, cur_field, rw, cur_col, colsCount_, loadedRows>>
    BY DEF appendRow, AppendIf
  <1>2. /\ rowsDeque_ \in Seq(Seq(Seq(Letters))) /\ loadedRows \in Nat
        /\ rowsCount_ = Len(rowsDeque_)
        /\ \A i \in (loadedRows + 1)..rowsCount_ : Len(rowsDeque_[i]) = colsCount_
    BY <1>1 DEF IInv, TypeOK, AppendedRowsFit
  <1> DEFINE V == Seq(Seq(Letters))
  <1>3. rowsDeque_ \in Seq(V) /\ r \in V
    BY <1>2
  <1> HIDE DEF V
  <1>4. /\ rowsDeque_' \in Seq(V) /\ rowsCount_' = Len(rowsDeque_) + 1
        /\ Len(rowsDeque_) \in Nat /\ rowsDeque_'[Len(rowsDeque_) + 1] = r
        /\ \A i \in 1..Len(rowsDeque_) : rowsDeque_'[i] = rowsDeque_[i]
    BY <1>1, <1>3, AppendFacts
  <1>5. TypeOK'
    <2>1. rowsDeque_' \in Seq(Seq(Seq(Letters))) /\ rowsCount_' \in Nat
      BY <1>4 DEF V
    <2> QED
      BY <1>1, <2>1 DEF IInv, TypeOK
  <1>6. ASSUME NEW i \in (loadedRows + 1)..rowsCount_' PROVE Len(rowsDeque_'[i]) = colsCount_
    <2>1. \/ i \in 1..Len(rowsDeque_) /\ i \in (loadedRows + 1)..rowsCount_
          \/ i = Len(rowsDeque_) + 1
      BY <1>2, <1>4
    <2>2. CASE i = Len(rowsDeque_) + 1
      BY <1>1, <1>4, <2>2
    <2>3. CASE i \in 1..Len(rowsDeque_) /\ i \in (loadedRows + 1)..rowsCount_
      BY <1>2, <1>4, <2>3
    <2> QED
      BY <2>1, <2>2, <2>3
  <1>7. AppendedRowsFit'
    BY <1>1, <1>6, Zenon DEF AppendedRowsFit
  <1> QED
    BY <1>5, <1>7

LEMMA SetAtStep ==
    ASSUME IInv, NEW i \in Nat, NEW j \in Nat, NEW data \in Seq(Letters), setAt(i, j, data)
    PROVE  TypeOK' /\ AppendedRowsFit'
  <1> DEFINE old == rowsDeque_[i + 1]
             new == [old EXCEPT ![j + 1] = data]
  <1>1. /\ phase = "loaded" /\ phase' = "loaded" /\ i < rowsCount_ /\ j < Len(old)
        /\ rowsDeque_' = [rowsDeque_ EXCEPT ![i + 1] = new]
        /\ UNCHANGED <<blocks, text, cur_field, rw, cur_col, rowsCount_, colsCount_, loadedRows>>
    BY DEF setAt, IndexAllowed, counts
  <1>2. /\ rowsDeque_ \in Seq(Seq(Seq(Letters))) /\ loadedRows \in Nat
        /\ rowsCount_ = Len(rowsDeque_)
        /\ \A k \in (loadedRows + 1)..rowsCount_ : Len(rowsDeque_[k]) = colsCount_
    BY <1>1 DEF IInv, TypeOK, AppendedRowsFit
  <1>3. i + 1 \in 1..Len(rowsDeque_) /\ old \in Seq(Seq(Letters))
    BY <1>1, <1>2
  <1>4. new \in Seq(Seq(Letters)) /\ Len(new) = Len(old)
    <2> DEFINE V == Seq(Letters)
               o == old
    <2>1. o \in Seq(V) /\ j + 1 \in 1..Len(o) /\ data \in V
      BY <1>1, <1>3
    <2> HIDE DEF V, o
    <2>2. [o EXCEPT ![j + 1] = data] \in Seq(V) /\ Len([o EXCEPT ![j + 1] = data]) = Len(o)
      BY <2>1, ExceptSeq
    <2> QED
      BY <2>2 DEF V, o
  <1> HIDE DEF new
  <1>5. /\ rowsDeque_' \in Seq(Seq(Seq(Letters))) /\ Len(rowsDeque_') = Len(rowsDeque_)
        /\ \A k \in 1..Len(rowsDeque_) : Len(rowsDeque_'[k]) = Len(rowsDeque_[k])
    <2> DEFINE V == Seq(Seq(Letters))
    <2>1. rowsDeque_ \in Seq(V) /\ new \in V
      BY <1>2, <1>4
    <2> HIDE DEF V
    <2>2. /\ rowsDeque_' \in Seq(V) /\ Len(rowsDeque_') = Len(rowsDeque_)
          /\ \A k \in 1..Len(rowsDeque_) : rowsDeque_'[k] = IF k = i + 1 THEN new ELSE rowsDeque_[k]
      BY <1>1, <1>3, <2>1, ExceptSeq
    <2>3. \A k \in 1..Len(rowsDeque_) : Len(rowsDeque_'[k]) = Len(rowsDeque_[k])
      BY <1>4, <2>2, SMTT(20)
    <2> QED
      BY <2>2, <2>3 DEF V
  <1>6. TypeOK'
    BY <1>1, <1>5 DEF IInv, TypeOK
  <1>7. \A k \in (loadedRows + 1)..rowsCount_ : k \in 1..Len(rowsDeque_)
    BY <1>2
  <1>8. AppendedRowsFit'
    BY <1>1, <1>2, <1>5, <1>7 DEF AppendedRowsFit
  <1> QED
    BY <1>6, <1>8

LEMMA StepIInv == ASSUME IInv, [Next]_vars PROVE IInv'
  <1> DEFINE Parsing == phase' = "parsing" /\ TypeOK' /\ ParseInv'
             Loaded == phase' = "loaded" /\ TypeOK' /\ AppendedRowsFit'
  <1>1. ASSUME NEW data \in Texts, loadFromMemory(data) PROVE Parsing
    <2>1. Blocks(data) \in Seq(Seq(Chars))
      BY TextsType, BlocksType
    <2>2. ParseStarts(Blocks(data), Concat(Blocks(data))) /\ phase' = "parsing"
      BY <1>1, TextsType, BlocksWhole DEF loadFromMemory, ParseStarts
    <2> QED
      BY <2>1, <2>2, StartStep
  <1>2. ASSUME NEW file \in Texts, NEW junk \in Junk, loadFromFile(file, junk) PROVE Parsing
    <2>1. loadFile(file, junk) \in Seq(Seq(Chars))
      BY TextsType, LoadFileType
    <2>2. ParseStarts(loadFile(file, junk), Concat(loadFile(file, junk))) /\ phase' = "parsing"
      BY <1>2 DEF loadFromFile, ParseStarts
    <2> QED
      BY <2>1, <2>2, StartStep
  <1>3. ASSUME NEW num \in 0..MaxCols, setColNum(num) PROVE Loaded
    BY <1>3, SetColNumStep DEF setColNum
  <1>4. ASSUME NEW c \in Letters, FieldChar(c) PROVE Parsing
    BY <1>4, FieldCharStep DEF FieldChar, ReadChar
  <1>5. ASSUME Delimiter PROVE Parsing
    BY <1>5, DelimiterStep, Zenon DEF Delimiter, ReadChar
  <1>6. ASSUME EndOfLine PROVE Parsing
    BY <1>6, EndOfLineStep DEF EndOfLine, EndOfLineWith, ReadChar
  <1>7. ASSUME NextBlock PROVE Parsing
    BY <1>7, NextBlockStep DEF NextBlock, NextBlockWith
  <1>8. ASSUME ParseEnds PROVE Loaded
    BY <1>8, EndStep DEF ParseEnds, ParseEndsWith
  <1>9. ASSUME NEW n \in 0..MaxText, NEW c \in Letters, appendRow([k \in 1..n |-> <<c>>])
        PROVE  Loaded
    <2> DEFINE r == [k \in 1..n |-> <<c>>]
    <2>1. n \in Nat
      BY Bounds
    <2>2. r \in Seq(Seq(Letters))
      BY <2>1
    <2>3. phase' = "loaded"
      BY <1>9 DEF appendRow, AppendIf
    <2> HIDE DEF r
    <2>4. appendRow(r)
      BY <1>9 DEF r
    <2> QED
      BY <2>2, <2>3, <2>4, AppendRowStep
  <1>10. ASSUME NEW i \in 0..MaxRows, NEW j \in 0..MaxText, NEW c \in Letters, setAt(i, j, <<c, c>>)
         PROVE  Loaded
    <2> DEFINE d == <<c, c>>
    <2>1. i \in Nat /\ j \in Nat
      BY Bounds
    <2>2. d \in Seq(Letters)
      OBVIOUS
    <2>3. phase' = "loaded"
      BY <1>10 DEF setAt
    <2> HIDE DEF d
    <2>4. setAt(i, j, d)
      BY <1>10 DEF d
    <2> QED
      BY <2>1, <2>2, <2>3, <2>4, SetAtStep
  <1>11. CASE Next
    <2>1. Parsing \/ Loaded
      BY <1>1, <1>2, <1>3, <1>4, <1>5, <1>6, <1>7, <1>8, <1>9, <1>10, <1>11, Zenon DEF Next
    <2>2. Parsing => NewInv' /\ AppendedRowsFit'
      BY DEF NewInv, AppendedRowsFit
    <2>3. Loaded => NewInv' /\ ParseInv'
      BY DEF NewInv, ParseInv
    <2> QED
      BY <2>1, <2>2, <2>3 DEF IInv
  <1>12. CASE UNCHANGED vars
    <2>1. TypeOK' /\ NewInv' /\ AppendedRowsFit'
      BY <1>12 DEF vars, IInv, TypeOK, NewInv, AppendedRowsFit
    <2>2. TextSoFar' = TextSoFar /\ RowWithField' = RowWithField
      BY <1>12 DEF vars, TextSoFar, RowWithField
    <2>3. ParseInv'
      BY <1>12, <2>2 DEF vars, IInv, ParseInv
    <2> QED
      BY <2>1, <2>3 DEF IInv
  <1> QED
    BY <1>11, <1>12

\* What parseData has read and stored always fits together: a fresh object is empty,
\* while it parses the stored rows, the open row and the open field are those of the
\* text read so far, and afterwards the counts are those of the rows.
THEOREM ParseFollowsText == Spec => []IInv
  <1>1. Init => IInv
    BY InitIInv
  <1>2. IInv /\ [Next]_vars => IInv'
    BY StepIInv
  <1> QED
    BY <1>1, <1>2, PTL DEF Spec

\* The fields of a CSV object have their types at every step of loading and changing it.
THEOREM TypeCorrect == Spec => []TypeOK
  <1>1. IInv => TypeOK
    BY DEF IInv
  <1> QED
    BY <1>1, ParseFollowsText, PTL

\* After every character, and wherever the block boundaries fall, the rows parseData
\* has stored are those that ReferenceRows finds in the text read so far.
THEOREM StoredRows == Spec => []RowsSoFar
  <1>1. IInv => RowsSoFar
    BY DEF IInv, ParseInv, RowsSoFar
  <1> QED
    BY <1>1, ParseFollowsText, PTL

\* When parseData returns, the spare row popped, rowsDeque_ and rowsCount_ are those
\* of the whole text, for every text and every READ_BLOCK_SIZE.
THEOREM LoadsAllRows == Spec => LoadedAsReference
  <1> DEFINE A == phase = "parsing" /\ phase' = "loaded" =>
                     /\ rowsDeque_' = ReferenceRows(text)
                     /\ rowsCount_' = Len(ReferenceRows(text))
  <1>1. IInv /\ [Next]_vars => [A]_vars
    <2> SUFFICES ASSUME IInv, [Next]_vars, phase = "parsing", phase' = "loaded"
                 PROVE  /\ rowsDeque_' = ReferenceRows(text)
                        /\ rowsCount_' = Len(ReferenceRows(text))
      OBVIOUS
    <2>1. ParseEnds
      BY DEF Next, vars, loadFromMemory, loadFromFile, ParseStarts, setColNum, FieldChar, Delimiter,
             EndOfLine, EndOfLineWith, ReadChar, NextBlock, NextBlockWith, appendRow, AppendIf, setAt
    <2> QED
      BY <2>1, EndStep
  <1>2. [][A]_vars <=> LoadedAsReference
    BY DEF LoadedAsReference
  <1> QED
    BY <1>1, <1>2, ParseFollowsText, PTL DEF Spec, LoadedAsReference

\* appendRow and setAt keep every row that was added after the load as wide as
\* colsCount_ and rowsCount_ equal to the number of rows: getAt is safe on them.
THEOREM AppendedFit == Spec => []AppendedRowsFit
  <1>1. IInv => AppendedRowsFit
    BY DEF IInv
  <1> QED
    BY <1>1, ParseFollowsText, PTL

-----------------------------------------------------------------------------
\* The buffer of loadFile: the file, cut or with whatever was on the stack behind it.
Gap(file) == {k \in 1..READ_BLOCK_SIZE : k + Len(file) <= READ_BLOCK_SIZE}

LEMMA LoadedBuffer ==
    ASSUME NEW file \in Seq(Chars),
           NEW junk \in [Gap(file) -> Chars]
    PROVE  LET u == Concat(loadFile(file, junk))
           IN  /\ u \in Seq(Chars) /\ Len(u) = READ_BLOCK_SIZE
               /\ \A e \in 1..Len(file) : e <= READ_BLOCK_SIZE => u[e] = file[e]
  <1> DEFINE B == READ_BLOCK_SIZE
             L == Len(file)
             d == IF L < B THEN B - L ELSE 0
             x == file \o junk
             u == SubSeq(x, 1, B)
  <1>1. B \in Nat \ {0} /\ L \in Nat
    <2>1. B \in Nat \ {0}
      BY CsvAssumption, Zenon
    <2> QED
      BY <2>1
  <1>2. junk \in [{k \in 1..B : k + L <= B} -> Chars] /\ loadFile(file, junk) = <<u>>
    BY DEF loadFile, Gap
  <1> HIDE DEF B, L
  <1>3. d \in Nat /\ {k \in 1..B : k + L <= B} = 1..d /\ L + d >= B
    BY <1>1
  <1> HIDE DEF d
  <1>4. junk \in Seq(Chars) /\ Len(junk) = d
    <2>1. junk \in [1..d -> Chars]
      BY <1>2, <1>3, Zenon
    <2> QED
      BY <1>3, <2>1
  <1>5. /\ x \in Seq(Chars) /\ Len(x) = L + d
        /\ \A e \in 1..(L + d) : x[e] = IF e <= L THEN file[e] ELSE junk[e - L]
    BY <1>4, ConcatProperties, Zenon DEF L
  <1> HIDE DEF x
  <1>6. 1 \in 1..(Len(x) + 1) /\ B \in (1 - 1)..Len(x) /\ B - 1 + 1 = B
    BY <1>1, <1>3, <1>5
  <1>7. /\ u \in Seq(Chars) /\ Len(u) = B - 1 + 1
        /\ \A i \in 1..(B - 1 + 1) : u[i] = x[1 + i - 1]
    BY <1>5, <1>6, SubSeqFacts
  <1> HIDE DEF u
  <1>8. Concat(<<u>>) = u
    <2> DEFINE s == <<u>>
    <2>1. s \in Seq(Seq(Chars)) /\ Len(s) = 1 /\ s[1] = u
      BY <1>7
    <2> HIDE DEF s
    <2> DEFINE f == CHOOSE g : IsFlat(g, s, Len(s))
    <2>2. Len(s) \in Nat /\ Len(s) # 0
      BY <2>1
    <2>3. IsFlat(f, s, Len(s)) /\ Concat(s) = f[Len(s)]
      BY <2>2, FlatExists, ConcatIsFlat, Zenon
    <2> HIDE DEF f
    <2>4. f[1] = s[1]
      BY <2>2, <2>3, FlatEnds, ZenonT(30)
    <2> QED
      BY <2>1, <2>3, <2>4 DEF s
  <1>9. \A e \in 1..L : e <= B => u[e] = file[e]
    <2> SUFFICES ASSUME NEW e \in 1..L, e <= B PROVE u[e] = file[e]
      OBVIOUS
    <2>1. e \in 1..(B - 1 + 1) /\ 1 + e - 1 = e /\ e \in 1..(L + d) /\ e <= L
      BY <1>1, <1>3
    <2> QED
      BY <1>5, <1>7, <2>1
  <1> QED
    BY <1>2, <1>6, <1>7, <1>8, <1>9, SMTT(20) DEF B, L

LoadsFirst(kept, file, junk) ==
    LET rows == ReferenceRows(Concat(loadFile(file, junk)))
    IN Len(kept) <= Len(rows) /\ SubSeq(rows, 1, Len(kept)) = kept

LEMMA SavedPrefix ==
    ASSUME NEW rows \in Seq(Row), rows # <<>>,
           NEW file, file = Join(Lines(rows), "\n"),
           NEW i, i = LineEnds(file, READ_BLOCK_SIZE), SubSeq(rows, 1, i) # <<>>,
           NEW junk \in [Gap(file) -> Chars]
    PROVE  LoadsFirst(SubSeq(rows, 1, i), file, junk)
  <1> DEFINE B == READ_BLOCK_SIZE
             m == Len(rows)
             S == {e \in DOMAIN file : e <= B /\ file[e] = "\n"}
             u == Concat(loadFile(file, junk))
             R == ReferenceRows(u)
             kept == SubSeq(rows, 1, i)
  <1>0. B \in Nat \ {0}
    BY CsvAssumption, Zenon
  <1>1. m \in Nat /\ m # 0 /\ m \in 1..m
    OBVIOUS
  <1>2. Lines(rows) \in Seq(Seq(Chars)) /\ Len(Lines(rows)) = m /\ Lines(rows) # <<>>
    BY <1>1, LinesType, Zenon
  <1>3. PICK f : IsJoin(f, Lines(rows), "\n", Chars)
    BY <1>2, CharTypes, JoinExists, Zenon
  <1>4. file = f[m] /\ file \in Seq(Chars)
    BY <1>1, <1>2, <1>3 DEF IsJoin
  <1>5. /\ \A k \in 1..(m - 1) : Reads(f[k], SubSeq(rows, 1, k), <<>>, <<>>) /\ EndsLine(f[k])
        /\ IsFiniteSet(NewLines(file)) /\ Cardinality(NewLines(file)) = m - 1
    BY <1>3, <1>4, ReadsFile, SMTT(20)
  <1>6. S \subseteq NewLines(file) /\ i = Cardinality(S)
    BY <1>4 DEF NewLines, LineEnds
  <1> HIDE DEF S, m
  <1>7. IsFiniteSet(S) /\ i \in Nat /\ i <= m - 1
    BY <1>5, <1>6, FS_Subset, FS_CardinalityType
  <1>8. i # 0
    <2>1. SubSeq(rows, 1, 0) = <<>>
      OBVIOUS
    <2> QED
      BY <2>1
  <1>9. i \in 1..(m - 1) /\ i \in 1..m
    BY <1>1, <1>7, <1>8
  <1> DEFINE t == f[i]
             q == Len(t)
  <1>10. Reads(t, kept, <<>>, <<>>) /\ EndsLine(t)
    BY <1>5, <1>9
  <1>11. Extends(t, file)
    BY <1>2, <1>3, <1>4, <1>9, JoinExtends, SMTT(20)
  <1> HIDE DEF t
  <1>12. Len(kept) = i /\ kept \in Seq(Row)
    <2>1. 1 \in 1..(Len(rows) + 1) /\ i \in (1 - 1)..Len(rows) /\ i - 1 + 1 = i
      BY <1>9 DEF m
    <2> QED
      BY <2>1, SubSeqFacts
  <1> HIDE DEF kept
  <1>13. /\ t \in Seq(Chars) /\ ReferenceRows(t) = kept /\ IsFiniteSet(NewLines(t))
         /\ Cardinality(NewLines(t)) = i
    BY <1>10, <1>12 DEF Reads
  <1>14. q \in Nat /\ Len(file) \in Nat /\ DOMAIN file = 1..Len(file)
    BY <1>4, <1>13
  <1>15. q <= B
    <2> SUFFICES ASSUME ~(q <= B) PROVE FALSE
      OBVIOUS
    <2>1. q \in NewLines(t)
      BY <1>10, <1>14 DEF EndsLine, NewLines
    <2>2. S \subseteq NewLines(t) \ {q}
      <3> SUFFICES ASSUME NEW e \in S PROVE e \in NewLines(t) \ {q}
        OBVIOUS
      <3>1. e \in 1..Len(file) /\ e <= B /\ file[e] = "\n"
        BY <1>14 DEF S
      <3>2. e \in 1..q /\ e # q
        BY <1>0, <1>14, <3>1
      <3>3. file[e] = t[e]
        BY <1>11, <3>2 DEF Extends
      <3> QED
        BY <3>1, <3>2, <3>3, SMTT(20) DEF NewLines
    <2> DEFINE N == NewLines(t)
    <2>3. IsFiniteSet(N) /\ Cardinality(N) = i /\ q \in N
      BY <1>13, <2>1
    <2> HIDE DEF N, q
    <2>4. IsFiniteSet(N \ {q}) /\ Cardinality(N \ {q}) = i - 1
      BY <2>3, FS_RemoveElement
    <2>5. S \subseteq N \ {q}
      BY <2>2 DEF N
    <2>6. Cardinality(S) <= i - 1
      BY <2>4, <2>5, FS_Subset
    <2> QED
      BY <1>6, <1>7, <2>6
  <1>16. /\ u \in Seq(Chars) /\ Len(u) = B
         /\ \A e \in 1..Len(file) : e <= B => u[e] = file[e]
    BY <1>4, LoadedBuffer
  <1> HIDE DEF u
  <1>17. Extends(t, u)
    <2>1. q <= Len(file) /\ \A e \in 1..q : file[e] = t[e]
      BY <1>11 DEF Extends
    <2>2. \A e \in 1..q : e \in 1..Len(file) /\ e <= B
      BY <1>0, <1>14, <1>15, <2>1, SMTT(20)
    <2>3. \A e \in 1..q : u[e] = t[e]
      BY <1>16, <2>1, <2>2, SMTT(20)
    <2> QED
      BY <1>15, <1>16, <2>3 DEF Extends
  <1>18. Extends(kept, R)
    BY <1>13, <1>16, <1>17, ReferenceExtends
  <1>19. PICK V : R \in Seq(V)
    BY <1>16, ReferenceIsSeq
  <1> HIDE DEF R
  <1>20. i <= Len(R) /\ Len(R) \in Nat /\ \A e \in 1..i : R[e] = kept[e]
    BY <1>12, <1>18, <1>19 DEF Extends
  <1>21. SubSeq(R, 1, i) = kept
    <2>1. 1 \in 1..(Len(R) + 1) /\ i \in (1 - 1)..Len(R) /\ i - 1 + 1 = i /\ \A e \in 1..i : 1 + e - 1 = e
      BY <1>9, <1>20
    <2>2. /\ SubSeq(R, 1, i) \in Seq(V) /\ Len(SubSeq(R, 1, i)) = i - 1 + 1
          /\ \A e \in 1..(i - 1 + 1) : SubSeq(R, 1, i)[e] = R[1 + e - 1]
      BY <1>19, <2>1, SubSeqFacts
    <2>3. \A e \in 1..i : SubSeq(R, 1, i)[e] = kept[e]
      BY <1>20, <2>1, <2>2
    <2> QED
      BY <1>12, <2>1, <2>2, <2>3, SeqEqual, SMTT(20)
  <1> QED
    BY <1>12, <1>20, <1>21 DEF R, u, kept, LoadsFirst

\* No field is empty, wherever it comes from.
FilledInv == rw \in Seq(Field) /\ rowsDeque_ \in Seq(Seq(Field))

LEMMA FieldIs == ASSUME NEW c \in Letters PROVE <<c>> \in Field /\ <<c, c>> \in Field
  BY DEF Field

LEMMA FilledRow ==
    ASSUME IInv, FilledInv
    PROVE  RowWithField \in Seq(Field)
  <1>1. cur_field \in Seq(Letters) /\ rw \in Seq(Field)
    BY DEF IInv, TypeOK, FilledInv
  <1>2. CASE cur_field = <<>>
    BY <1>1, <1>2 DEF RowWithField
  <1>3. CASE cur_field # <<>>
    <2>1. cur_field \in Field
      BY <1>1, <1>3 DEF Field
    <2>2. Append(rw, cur_field) \in Seq(Field)
      BY <1>1, <2>1, AppendProperties
    <2> QED
      BY <1>3, <2>2 DEF RowWithField
  <1> QED
    BY <1>2, <1>3

LEMMA StepFilled == ASSUME IInv, FilledInv, [Next]_vars PROVE FilledInv'
  <1> DEFINE V == Seq(Field)
  <1>0. rw \in V /\ rowsDeque_ \in Seq(V) /\ <<>> \in V
    BY DEF FilledInv
  <1>1. ASSUME NEW b, NEW whole, ParseStarts(b, whole) PROVE FilledInv'
    <2>1. rowsCount_ = 0 /\ rowsDeque_' = Append(rowsDeque_, <<>>) /\ rw' = NewRow
      BY <1>1 DEF IInv, NewInv, ParseStarts
    <2>2. NewRow = <<>>
      BY <2>1 DEF NewRow
    <2> HIDE DEF V
    <2>3. rowsDeque_' \in Seq(V) /\ rw' \in V
      BY <1>0, <2>1, <2>2, AppendProperties
    <2> QED
      BY <2>3 DEF FilledInv, V
  <1>2. ASSUME UNCHANGED <<rw, rowsDeque_>> PROVE FilledInv'
    BY <1>2 DEF FilledInv
  <1>3. ASSUME Delimiter PROVE FilledInv'
    <2>1. rw' = RowWithField /\ rowsDeque_' = rowsDeque_
      BY <1>3, Zenon DEF Delimiter
    <2> QED
      BY <2>1, FilledRow DEF FilledInv
  <1>4. ASSUME EndOfLine PROVE FilledInv'
    <2> DEFINE row == RowWithField
               n == cur_col
    <2>1. phase = "parsing"
      BY <1>4 DEF EndOfLine, EndOfLineWith, ReadChar
    <2>2. NewRow = <<>> /\ n \in Nat /\ Len(rowsDeque_) = n + 1
      BY <2>1, FieldFacts DEF IInv, ParseInv
    <2>3. \/ rowsDeque_' = [Append(rowsDeque_, <<>>) EXCEPT ![n + 1] = row] /\ rw' = <<>>
          \/ rw' = row /\ rowsDeque_' = rowsDeque_
      BY <1>4, <2>2 DEF EndOfLine, EndOfLineWith
    <2>4. row \in V
      BY FilledRow
    <2> HIDE DEF V, row, n
    <2>5. [Append(rowsDeque_, <<>>) EXCEPT ![n + 1] = row] \in Seq(V)
      <3> DEFINE e == <<>>
      <3>1. e \in V
        BY <1>0
      <3> HIDE DEF e
      <3>2. [Append(rowsDeque_, e) EXCEPT ![n + 1] = row] \in Seq(V)
        BY <1>0, <2>2, <2>4, <3>1, StoreRow
      <3> QED
        BY <3>2 DEF e
    <2>6. rw' \in V /\ rowsDeque_' \in Seq(V)
      BY <1>0, <2>3, <2>4, <2>5, Zenon
    <2> QED
      BY <2>6 DEF FilledInv, V
  <1>5. ASSUME ParseEnds PROVE FilledInv'
    <2> DEFINE n == cur_col
    <2>1. /\ rowsDeque_' = SubSeq(rowsDeque_, 1, Len(rowsDeque_) - 1) /\ rw' = <<>>
          /\ n \in Nat /\ Len(rowsDeque_) = n + 1
      BY <1>5 DEF ParseEnds, ParseEndsWith, IInv, TypeOK, ParseInv
    <2> HIDE DEF V, n
    <2>2. rowsDeque_' \in Seq(V) /\ rw' \in V
      BY <1>0, <2>1, LastDropped
    <2> QED
      BY <2>2 DEF FilledInv, V
  <1>6. ASSUME NEW n \in 0..MaxText, NEW c \in Letters, appendRow([k \in 1..n |-> <<c>>])
        PROVE  FilledInv'
    <2> DEFINE r == [k \in 1..n |-> <<c>>]
    <2>1. n \in Nat
      BY Bounds
    <2>2. <<c>> \in Field
      BY FieldIs, Zenon
    <2>3. r \in V
      BY <2>1, <2>2
    <2>4. rowsDeque_' = Append(rowsDeque_, r) /\ rw' = rw
      BY <1>6 DEF appendRow, AppendIf
    <2> HIDE DEF V, r
    <2>5. rowsDeque_' \in Seq(V) /\ rw' \in V
      BY <1>0, <2>3, <2>4, AppendProperties
    <2> QED
      BY <2>5 DEF FilledInv, V
  <1>7. ASSUME NEW i \in 0..MaxRows, NEW j \in 0..MaxText, NEW c \in Letters, setAt(i, j, <<c, c>>)
        PROVE  FilledInv'
    <2> DEFINE d == <<c, c>>
               old == rowsDeque_[i + 1]
               new == [old EXCEPT ![j + 1] = d]
    <2>1. i \in Nat /\ j \in Nat
      BY Bounds
    <2>2. d \in Field
      BY FieldIs, Zenon
    <2> HIDE DEF d
    <2>3. /\ rowsDeque_' = [rowsDeque_ EXCEPT ![i + 1] = new] /\ rw' = rw
          /\ i < rowsCount_ /\ j < Len(old) /\ rowsCount_ = Len(rowsDeque_)
      BY <1>7 DEF setAt, IndexAllowed, IInv, AppendedRowsFit, d
    <2> HIDE DEF V
    <2>4. i + 1 \in 1..Len(rowsDeque_) /\ old \in V
      <3>1. i + 1 \in 1..Len(rowsDeque_)
        BY <1>0, <2>1, <2>3
      <3> QED
        BY <1>0, <3>1, ElementOfSeq
    <2>5. old \in Seq(Field)
      BY <2>4 DEF V
    <2>6. new \in V
      <3> HIDE DEF old
      <3>1. j + 1 \in 1..Len(old)
        BY <2>1, <2>3, <2>5
      <3>2. new \in Seq(Field)
        BY <2>2, <2>5, <3>1, ExceptSeq
      <3> QED
        BY <3>2 DEF V
    <2> HIDE DEF new
    <2>7. rowsDeque_' \in Seq(V) /\ rw' \in V
      BY <1>0, <2>3, <2>4, <2>6, ExceptSeq
    <2> QED
      BY <2>7 DEF FilledInv, V
  <1>8. CASE Next
    <2>1. ASSUME NEW data \in Texts, loadFromMemory(data) PROVE FilledInv'
      BY <1>1, <2>1 DEF loadFromMemory
    <2>2. ASSUME NEW file \in Texts, NEW junk \in Junk, loadFromFile(file, junk) PROVE FilledInv'
      BY <1>1, <2>2 DEF loadFromFile
    <2>3. ASSUME NEW num \in 0..MaxCols, setColNum(num) PROVE FilledInv'
      BY <1>2, <2>3 DEF setColNum
    <2>4. ASSUME NEW c \in Letters, FieldChar(c) PROVE FilledInv'
      BY <1>2, <2>4 DEF FieldChar
    <2>5. ASSUME NextBlock PROVE FilledInv'
      BY <1>2, <2>5 DEF NextBlock, NextBlockWith
    <2> QED
      BY <1>3, <1>4, <1>5, <1>6, <1>7, <1>8, <2>1, <2>2, <2>3, <2>4, <2>5, Zenon DEF Next
  <1>9. CASE UNCHANGED vars
    BY <1>2, <1>9 DEF vars
  <1> QED
    BY <1>8, <1>9

LEMMA SavedLoads == ASSUME IInv, FilledInv PROVE SavedRowsLoad
  <1> SUFFICES ASSUME SaveAllowed PROVE SavedRowsLoad
    BY Zenon DEF SavedRowsLoad
  <1> DEFINE n == Len(rowsDeque_)
             rows == SavedRows
             k == colsCount_
  <1>1. /\ rowsDeque_ \in Seq(Seq(Field)) /\ n \in Nat /\ n # 0 /\ k \in Nat /\ k > 0
        /\ DOMAIN rowsDeque_ = 1..n /\ \A i \in 1..n : Len(rowsDeque_[i]) >= k
    <2>1. rowsDeque_ \in Seq(Seq(Field)) /\ k \in Nat /\ n = rowsCount_
      BY DEF SaveAllowed, IInv, TypeOK, AppendedRowsFit, FilledInv
    <2>2. n \in Nat /\ DOMAIN rowsDeque_ = 1..n
      BY <2>1
    <2>3. rowsCount_ > 0 /\ k > 0 /\ \A i \in DOMAIN rowsDeque_ : Len(rowsDeque_[i]) >= k
      BY DEF SaveAllowed
    <2>4. n # 0
      BY <2>1, <2>2, <2>3
    <2> QED
      BY <2>1, <2>2, <2>3, <2>4, SMTT(20)
  <1>2. ASSUME NEW i \in 1..n PROVE SubSeq(rowsDeque_[i], 1, k) \in Row
    <2> DEFINE r == rowsDeque_[i]
    <2>1. r \in Seq(Field) /\ Len(r) >= k
      BY <1>1, ElementOfSeq
    <2> HIDE DEF r, k
    <2>2. 1 \in 1..(Len(r) + 1) /\ k \in (1 - 1)..Len(r) /\ k - 1 + 1 = k
      BY <1>1, <2>1
    <2>3. SubSeq(r, 1, k) \in Seq(Field) /\ Len(SubSeq(r, 1, k)) = k
      BY <2>1, <2>2, SubSeqFacts
    <2>4. SubSeq(r, 1, k) # <<>>
      <3> DEFINE y == SubSeq(r, 1, k)
      <3>1. Len(y) # 0
        BY <1>1, <2>3
      <3> HIDE DEF y
      <3>2. y # <<>>
        BY <3>1
      <3> QED
        BY <3>2 DEF y
    <2> QED
      BY <2>3, <2>4 DEF Row, r
  <1>3. rows \in Seq(Row) /\ rows # <<>>
    <2> DEFINE E(i) == SubSeq(rowsDeque_[i], 1, k)
    <2>1. rows = [i \in 1..n |-> E(i)]
      BY <1>1 DEF SavedRows
    <2>2. \A i \in 1..n : E(i) \in Row
      BY <1>2
    <2> HIDE DEF E, rows, n
    <2>3. rows \in Seq(Row) /\ Len(rows) = n
      BY <1>1, <2>1, <2>2
    <2> QED
      BY <1>1, <2>3
  <1>4. saveToFile = Join(Lines(rows), "\n")
    BY DEF saveToFile, Lines
  <1> HIDE DEF rows
  <1> DEFINE file == saveToFile
             i == LineEnds(file, READ_BLOCK_SIZE)
             gap == {b \in 1..READ_BLOCK_SIZE : b + Len(file) <= READ_BLOCK_SIZE}
             kept == SubSeq(rows, 1, i)
  <1>5. ASSUME kept # <<>>, NEW junk \in [gap -> Chars]
        PROVE  LoadsFirst(kept, file, junk)
    <2>1. file = Join(Lines(rows), "\n") /\ i = LineEnds(file, READ_BLOCK_SIZE)
      BY <1>4
    <2>2. junk \in [Gap(file) -> Chars]
      BY DEF Gap
    <2>3. SubSeq(rows, 1, i) # <<>>
      BY <1>5
    <2> HIDE DEF file, i
    <2>4. rows \in Seq(Row) /\ rows # <<>>
      BY <1>3
    <2> QED
      BY <2>1, <2>2, <2>3, <2>4, SavedPrefix
  <1> QED
    BY <1>5, Zenon DEF SavedRowsLoad, LoadsFirst, rows

\* What saveToFile writes can be read again: loadFile gives back, first and in order,
\* every row whose line end is in the one block it reads, for every object that
\* loading, appendRow and setAt can produce, every READ_BLOCK_SIZE, and whatever the
\* buffer held behind a shorter file.
THEOREM SavedFileLoads == Spec => []SavedRowsLoad
  <1>1. Init => FilledInv
    BY DEF Init, FilledInv
  <1>2. IInv /\ FilledInv /\ [Next]_vars => FilledInv'
    BY StepFilled
  <1>3. IInv /\ FilledInv => SavedRowsLoad
    BY SavedLoads
  <1> QED
    BY <1>1, <1>2, <1>3, ParseFollowsText, PTL DEF Spec
=============================================================================
