--------------------------- MODULE DatatypeProofs ---------------------------
(***************************************************************************)
(* Proofs about the encrypted types: the order of encrypted texts, the year *)
(* of a timestamp, ciphertexts as text, LIKE, substrings, prefix ranges, the *)
(* texts of numbers and casts.                                             *)
(***************************************************************************)
EXTENDS TextOrder, Conversions, Induction, FiniteSetTheorems, TLAPS

\* Zenon proves the steps that name no other prover.
USE Zenon

-----------------------------------------------------------------------------
(* The order of encrypted texts.                                           *)

\* Two ranks compare as the texts they stand for.
RanksAgree(x, y) ==
    Ordered(x, y) => /\ x.order < y.order <=> x.text < y.text
                     /\ x.order = y.order <=> x.text = y.text

(* The inductive invariant: in a column without ranks of another one, any  *)
(* two ranks agree with the texts.                                         *)
IInv ==
    /\ TypeOK
    /\ \A c \in Columns : ~foreign[c] =>
        \A r, q \in Used(c) : RanksAgree(cell[c][r], cell[c][q])

\* A cell in use has a text, an integer, and a rank, a natural number.
LEMMA CellTypes ==
    ASSUME NEW x \in Cells
    PROVE  x.text \in Int /\ x.order \in Nat /\ x.there \in BOOLEAN
<1>1. CASE x = NoCell
    BY SMT, <1>1 DEF NoCell, NoText, ORDER_NONE
<1>2. CASE x \in [there : {TRUE}, text : Texts, order : Nat]
    BY ZenonT(60), <1>2, TextsAssumption
<1> QED
    BY ZenonT(60), <1>1, <1>2 DEF Cells

\* When the ranks agree, so do the seven operators (the bodies of enc_text_eq
\* to enc_text_cmp).
LEMMA OperatorsAgree ==
    ASSUME NEW x \in Cells, NEW y \in Cells, RanksAgree(x, y)
    PROVE  Agree(x, y)
<1>1. /\ x.text \in Int /\ x.order \in Nat
      /\ y.text \in Int /\ y.order \in Nat
    BY CellTypes
<1>2. CASE Ordered(x, y)
    BY SMT, <1>1, <1>2 DEF RanksAgree, Agree, enc_text_eq, enc_text_ne, enc_text_le, enc_text_lt,
        enc_text_ge, enc_text_gt, enc_text_cmp, TeeCmp
<1>3. CASE ~Ordered(x, y)
    BY SMT, <1>1, <1>3 DEF Agree, enc_text_eq, enc_text_ne, enc_text_le, enc_text_lt,
        enc_text_ge, enc_text_gt, enc_text_cmp, TeeCmp
<1> QED
    BY <1>2, <1>3

\* An empty database satisfies the inductive invariant.
LEMMA InitIInv == Init => IInv
BY SMT DEF Init, IInv, TypeOK, Cells, Used, NoCell

\* A new text has no rank, so it cannot disagree with any.
LEMMA StoreIInv ==
    ASSUME IInv, NEW c \in Columns, NEW r \in Rows, NEW t \in Texts, Store(c, r, t)
    PROVE  IInv'
<1>1. Cell(t, ORDER_NONE) \in Cells
    BY DEF Cell, Cells, ORDER_NONE
<1>2. TypeOK'
    BY <1>1 DEF IInv, TypeOK, Store
<1>3. ASSUME NEW d \in Columns, ~foreign'[d], NEW p \in Used(d)', NEW q \in Used(d)'
      PROVE  RanksAgree(cell'[d][p], cell'[d][q])
    <2>1. p \in Rows /\ q \in Rows /\ ~foreign[d]
        BY <1>3 DEF Used, Store
    <2>2. CASE d = c /\ (p = r \/ q = r)
        BY <2>1, <2>2 DEF IInv, TypeOK, Store, Cell, RanksAgree, Ordered
    <2>3. CASE ~(d = c /\ (p = r \/ q = r))
        <3>1. cell'[d][p] = cell[d][p] /\ cell'[d][q] = cell[d][q]
            BY <2>1, <2>3 DEF IInv, TypeOK, Store
        <3>2. p \in Used(d) /\ q \in Used(d)
            BY <1>3, <3>1 DEF Used
        <3> QED
            BY <2>1, <3>1, <3>2 DEF IInv
    <2> QED
        BY <2>2, <2>3
<1> QED
    BY <1>2, <1>3 DEF IInv

\* A copy within a column repeats a rank that agrees; a copy from another column
\* leaves the column without a claim unless it brings no rank.
LEMMA CopyIInv ==
    ASSUME IInv, NEW c \in Columns, NEW r \in Rows, NEW e \in Columns, NEW s \in Rows,
           Copy(c, r, e, s)
    PROVE  IInv'
<1>1. cell[e][s] \in Cells
    BY DEF IInv, TypeOK
<1>2. TypeOK'
    BY <1>1 DEF IInv, TypeOK, Copy
<1>3. ASSUME NEW d \in Columns, ~foreign'[d], NEW p \in Used(d)', NEW q \in Used(d)'
      PROVE  RanksAgree(cell'[d][p], cell'[d][q])
    <2>1. p \in Rows /\ q \in Rows
        BY DEF Used
    <2>2. ~foreign[d]
        BY <1>3 DEF IInv, TypeOK, Copy
    <2> DEFINE From(x) == IF d = c /\ x = r THEN s ELSE x
    <2>3. CASE d = c /\ e # c
        <3>1. cell[e][s].order = ORDER_NONE
            BY ZenonT(60), <1>3, <2>3 DEF IInv, TypeOK, Copy
        <3>2. CASE p = r \/ q = r
            BY <2>1, <2>3, <3>1, <3>2 DEF IInv, TypeOK, Copy, RanksAgree, Ordered
        <3>3. CASE p # r /\ q # r
            <4>1. cell'[d][p] = cell[d][p] /\ cell'[d][q] = cell[d][q]
                BY <2>1, <3>3 DEF IInv, TypeOK, Copy
            <4>2. p \in Used(d) /\ q \in Used(d)
                BY <1>3, <4>1 DEF Used
            <4> QED
                BY <2>2, <4>1, <4>2 DEF IInv
        <3> QED
            BY <3>2, <3>3
    <2>4. CASE ~(d = c /\ e # c)
        <3>1. \A x \in Rows : From(x) \in Rows /\ cell'[d][x] = cell[d][From(x)]
            BY <2>4 DEF IInv, TypeOK, Copy
        <3>2. From(p) \in Used(d) /\ From(q) \in Used(d)
            BY <1>3, <2>1, <3>1 DEF Used
        <3> HIDE DEF From
        <3> QED
            BY <2>1, <2>2, <3>1, <3>2 DEF IInv
    <2> QED
        BY <2>3, <2>4
<1> QED
    BY <1>2, <1>3 DEF IInv

\* Deleting a text leaves the others as they are.
LEMMA DeleteIInv ==
    ASSUME IInv, NEW c \in Columns, NEW r \in Rows, Delete(c, r)
    PROVE  IInv'
<1>1. TypeOK'
    BY ZenonT(60) DEF IInv, TypeOK, Delete, Cells
<1>2. ASSUME NEW d \in Columns, ~foreign'[d], NEW p \in Used(d)', NEW q \in Used(d)'
      PROVE  RanksAgree(cell'[d][p], cell'[d][q])
    <2>1. p \in Rows /\ q \in Rows /\ ~foreign[d]
        BY <1>2 DEF Used, Delete
    <2>2. cell'[d][p] = cell[d][p] /\ cell'[d][q] = cell[d][q]
        BY <2>1, <1>2 DEF IInv, TypeOK, Delete, Used, NoCell
    <2>3. p \in Used(d) /\ q \in Used(d)
        BY <1>2, <2>2 DEF Used
    <2> QED
        BY <2>1, <2>2, <2>3 DEF IInv
<1> QED
    BY <1>1, <1>2 DEF IInv

\* Ranking a column: the rows compare as their texts do, equal texts get the
\* number of one distinct row, and numbers grow with the texts.  No text changes.
LEMMA AddOrderCorrect ==
    ASSUME IInv, NEW c \in Columns, enc_text_add_order(c), ~foreign[c]
    PROVE  /\ \A r \in Rows : cell'[c][r].text = cell[c][r].text
           /\ \A r, q \in Used(c)' : RanksAgree(cell'[c][r], cell'[c][q])
<1>1. \A r \in Rows : cell[c][r] \in Cells
    BY DEF IInv, TypeOK
<1>2. \A r, q \in Used(c) : Agree(cell[c][r], cell[c][q])
    BY <1>1, OperatorsAgree DEF IInv, Used
<1>3. PICK D \in SUBSET Used(c) : \E n \in [D -> 1..Cardinality(D)], m \in [Used(c) -> D] :
        /\ Distinct(c, D) /\ RowNumber(c, D, n)
        /\ \A r \in Used(c) : enc_text_eq(cell[c][m[r]], cell[c][r])
        /\ cell' = [cell EXCEPT ![c] =
                      [r \in Rows |-> IF r \in Used(c)
                                      THEN enc_text_set_order(cell[c][m[r]], n[m[r]])
                                      ELSE NoCell]]
    BY ZenonT(60) DEF enc_text_add_order
<1>4. PICK n \in [D -> 1..Cardinality(D)], m \in [Used(c) -> D] :
        /\ Distinct(c, D) /\ RowNumber(c, D, n)
        /\ \A r \in Used(c) : enc_text_eq(cell[c][m[r]], cell[c][r])
        /\ cell' = [cell EXCEPT ![c] =
                      [r \in Rows |-> IF r \in Used(c)
                                      THEN enc_text_set_order(cell[c][m[r]], n[m[r]])
                                      ELSE NoCell]]
    BY ZenonT(60), <1>3
<1>5. \A r \in Rows : cell'[c][r] = IF r \in Used(c)
                                    THEN enc_text_set_order(cell[c][m[r]], n[m[r]])
                                    ELSE NoCell
    BY <1>4 DEF IInv, TypeOK
<1>6. \A r \in Used(c) : m[r] \in Used(c) /\ cell[c][m[r]].text = cell[c][r].text
    BY <1>2, <1>4 DEF Agree
<1>7. \A x \in Cells : \A k : /\ enc_text_set_order(x, k).text = x.text
                             /\ enc_text_set_order(x, k).there = x.there
                             /\ enc_text_set_order(x, k).order = k
    BY DEF enc_text_set_order, Cells, NoCell
<1>8. \A r \in Used(c) : /\ cell'[c][r].text = cell[c][r].text
                         /\ cell'[c][r].there
                         /\ cell'[c][r].order = n[m[r]]
    BY SMTT(60), <1>1, <1>5, <1>6, <1>7 DEF Used
<1>9. \A r \in Rows : cell'[c][r].text = cell[c][r].text
    <2> TAKE r \in Rows
    <2>1. CASE r \in Used(c)
        BY <1>8, <2>1
    <2>2. CASE r \notin Used(c)
        <3>1. cell[c][r] = NoCell
            BY ZenonT(60), <1>1, <2>2 DEF Used, Cells
        <3> QED
            BY <1>5, <2>2, <3>1
    <2> QED
        BY <2>1, <2>2
<1>10. ASSUME NEW r \in Used(c)', NEW q \in Used(c)'
       PROVE  RanksAgree(cell'[c][r], cell'[c][q])
    <2>1. r \in Used(c) /\ q \in Used(c)
        BY SMT, <1>5 DEF Used, NoCell
    <2> DEFINE d == m[r]
               e == m[q]
    <2>2. /\ d \in D /\ e \in D /\ d \in Used(c) /\ e \in Used(c)
          /\ cell[c][d].text = cell[c][r].text
          /\ cell[c][e].text = cell[c][q].text
        BY <1>4, <1>6, <2>1
    <2>3. cell[c][d].text \in Int /\ cell[c][e].text \in Int
        BY ZenonT(60), <1>1, <2>2, CellTypes DEF Used
    <2>4. n[d] \in Int /\ n[e] \in Int
        BY SMTT(60), <1>4, <2>2
    <2>5. \A x, y \in D : cell[c][x].text < cell[c][y].text => n[x] < n[y]
        <3> SUFFICES ASSUME NEW x \in D, NEW y \in D, cell[c][x].text < cell[c][y].text
                     PROVE  n[x] < n[y]
            OBVIOUS
        <3>1. enc_text_cmp(cell[c][x], cell[c][y]) = TeeCmp(cell[c][x], cell[c][y])
            BY <1>2 DEF Agree
        <3>2. TeeCmp(cell[c][x], cell[c][y]) = -1
            BY DEF TeeCmp
        <3>3. enc_text_cmp(cell[c][x], cell[c][y]) < 0
            BY SMTT(60), <3>1, <3>2
        <3> QED
            BY <1>4, <3>3 DEF RowNumber
    <2>6. /\ cell[c][d].text < cell[c][e].text => n[d] < n[e]
          /\ cell[c][e].text < cell[c][d].text => n[e] < n[d]
        BY SMTT(60), <2>2, <2>5
    <2>7. cell[c][d].text = cell[c][e].text => d = e
        BY SMTT(60), <1>2, <1>4, <2>2 DEF Distinct, Agree
    <2>8. /\ n[d] < n[e] <=> cell[c][d].text < cell[c][e].text
          /\ n[d] = n[e] <=> cell[c][d].text = cell[c][e].text
        BY SMTT(60), <2>3, <2>4, <2>6, <2>7
    <2> QED
        BY ZenonT(60), <1>8, <2>1, <2>2, <2>8 DEF RanksAgree
<1> QED
    BY <1>9, <1>10

\* Ranking a column keeps the cells well formed and touches no other column.
LEMMA AddOrderFrame ==
    ASSUME IInv, NEW c \in Columns, enc_text_add_order(c)
    PROVE  /\ TypeOK'
           /\ \A d \in Columns \ {c} : cell'[d] = cell[d]
           /\ foreign' = foreign
<1>1. PICK D \in SUBSET Used(c) : \E n \in [D -> 1..Cardinality(D)], m \in [Used(c) -> D] :
        cell' = [cell EXCEPT ![c] =
                      [r \in Rows |-> IF r \in Used(c)
                                      THEN enc_text_set_order(cell[c][m[r]], n[m[r]])
                                      ELSE NoCell]]
    BY ZenonT(60) DEF enc_text_add_order
<1>2. PICK n \in [D -> 1..Cardinality(D)], m \in [Used(c) -> D] :
        cell' = [cell EXCEPT ![c] =
                      [r \in Rows |-> IF r \in Used(c)
                                      THEN enc_text_set_order(cell[c][m[r]], n[m[r]])
                                      ELSE NoCell]]
    BY ZenonT(60), <1>1
<1>3. IsFiniteSet(D)
    BY TextsAssumption, FS_Subset DEF Used
<1>4. Cardinality(D) \in Nat
    BY <1>3, FS_CardinalityType
<1>5. ASSUME NEW r \in Used(c) PROVE enc_text_set_order(cell[c][m[r]], n[m[r]]) \in Cells
    <2>1. m[r] \in Used(c) /\ m[r] \in Rows /\ cell[c][m[r]].there
        BY <1>2 DEF Used
    <2>2. cell[c][m[r]] \in [there : {TRUE}, text : Texts, order : Nat]
        <3>1. cell[c][m[r]] \in Cells
            BY <2>1 DEF IInv, TypeOK
        <3>2. NoCell.there = FALSE
            BY DEF NoCell
        <3> QED
            BY ZenonT(60), <2>1, <3>1, <3>2 DEF Cells
    <2>3. n[m[r]] \in Nat
        BY SMT, <1>2, <1>4
    <2> QED
        BY ZenonT(60), <2>2, <2>3 DEF enc_text_set_order, Cells
<1>6. [r \in Rows |-> IF r \in Used(c)
                      THEN enc_text_set_order(cell[c][m[r]], n[m[r]])
                      ELSE NoCell] \in [Rows -> Cells]
    BY ZenonT(60), <1>5 DEF Cells
<1>7. foreign' = foreign
    BY DEF enc_text_add_order
<1> QED
    BY <1>2, <1>6, <1>7 DEF IInv, TypeOK

\* Ranking a column preserves the inductive invariant.
LEMMA AddOrderIInv ==
    ASSUME IInv, NEW c \in Columns, enc_text_add_order(c)
    PROVE  IInv'
<1>1. /\ TypeOK'
      /\ \A d \in Columns \ {c} : cell'[d] = cell[d]
      /\ foreign' = foreign
    BY AddOrderFrame
<1>2. ASSUME NEW d \in Columns, ~foreign'[d], NEW p \in Used(d)', NEW q \in Used(d)'
      PROVE  RanksAgree(cell'[d][p], cell'[d][q])
    <2>1. CASE d = c
        BY <1>1, <1>2, <2>1, AddOrderCorrect
    <2>2. CASE d # c
        <3>1. cell'[d] = cell[d] /\ ~foreign[d]
            BY <1>1, <1>2, <2>2
        <3>2. p \in Used(d) /\ q \in Used(d)
            BY <1>2, <3>1 DEF Used
        <3> QED
            BY <3>1, <3>2 DEF IInv
    <2> QED
        BY <2>1, <2>2
<1> QED
    BY <1>1, <1>2 DEF IInv

\* Every statement preserves the inductive invariant.
LEMMA StepIInv == IInv /\ [Next]_vars => IInv'
<1> SUFFICES ASSUME IInv, [Next]_vars PROVE IInv'
    OBVIOUS
<1>1. CASE Next
    BY ZenonT(60), <1>1, StoreIInv, CopyIInv, DeleteIInv, AddOrderIInv DEF Next
<1>2. CASE UNCHANGED vars
    BY <1>2 DEF vars, IInv, TypeOK, Used
<1> QED
    BY <1>1, <1>2

\* For any columns, rows and texts, the comparison operators answer within a
\* column as ops_server would, however its texts came there.
THEOREM OrderCorrect == Spec => []ColumnOrderAgrees
<1>1. IInv => ColumnOrderAgrees
    <2> SUFFICES ASSUME IInv, NEW c \in Columns, ~foreign[c],
                        NEW r \in Used(c), NEW q \in Used(c)
                 PROVE  Agree(cell[c][r], cell[c][q])
        BY DEF ColumnOrderAgrees
    <2>1. cell[c][r] \in Cells /\ cell[c][q] \in Cells
        BY DEF IInv, TypeOK, Used
    <2> QED
        BY <2>1, OperatorsAgree DEF IInv
<1> QED
    BY InitIInv, StepIInv, <1>1, PTL DEF Spec

\* For any columns, rows and texts, enc_text_add_order changes no text.
THEOREM AddOrderCorrectAlways == Spec => AddOrderKeepsTexts
<1>1. IInv /\ [Next]_vars =>
        [\A c \in Columns : enc_text_add_order(c) /\ ~foreign[c] =>
            \A r \in Rows : cell'[c][r].text = cell[c][r].text]_vars
    BY AddOrderCorrect
<1> QED
    BY InitIInv, StepIInv, <1>1, PTL DEF Spec, AddOrderKeepsTexts

-----------------------------------------------------------------------------
(* The year of a timestamp: a day is split the way the code does it, into  *)
(* q cycles of 400 years and r days, in the c-th century of the cycle,     *)
(* after k times four years and w days, in year e of the four.  Each       *)
(* division of the code then has one of these parts as its quotient, and   *)
(* so has each division in the calendar's count of leap days; what is left *)
(* is linear arithmetic.                                                   *)

\* What a quotient is bounded by.
LEMMA Divide ==
    ASSUME NEW n \in Int, NEW d \in Nat \ {0}
    PROVE  /\ n \div d \in Int
           /\ (n \div d) * d <= n
           /\ n < (n \div d) * d + d
  BY SMT

\* A number with these bounds is the quotient.
LEMMA Quotient ==
    ASSUME NEW n \in Int, NEW d \in Nat \ {0}, NEW q \in Int, q * d <= n, n < q * d + d
    PROVE  n \div d = q
  BY SMT

Parts(d, q, r, c, k, w, e) ==
    /\ q \in Int /\ d = 146097 * q + r
    /\ r \in Int /\ c \in Int /\ k \in Int /\ w \in Int /\ e \in Int
    /\ 0 <= r /\ r < 146097
    /\ 146097 * c <= 4 * r + 3 /\ 4 * r + 3 < 146097 * (c + 1)
    /\ r + 60 + c = 1461 * k + w /\ 0 <= w /\ w < 1461
    /\ 1461 * e <= 4 * w /\ 4 * w < 1461 * (e + 1)

\* What YearOfDay computes from the parts of a day.
LEMMA YearOfParts ==
    ASSUME NEW jd \in Int, NEW q, NEW r, NEW c, NEW k, NEW w, NEW e,
           Parts(jd + 32044, q, r, c, k, w, e)
    PROVE  YearOfDay(jd) = 400 * q + 4 * k + e - 4800
<1> USE DEF Parts
<1> DEFINE date == jd + 32044
           cycle == date \div 146097
           extra == (date - cycle * 146097) * 4 + 3
           flat == date + 60 + cycle * 3 + extra \div 146097
           quad == flat \div 1461
           rest == flat - quad * 1461
<1>0. YearOfDay(jd) = ((rest * 4) \div 1461) + quad * 4 - 4800
  BY SMT DEF YearOfDay
<1>1. cycle = q
  BY Quotient, SMT
<1>2. extra = 4 * r + 3
  BY <1>1, SMT
<1>3. extra \div 146097 = c
  <2>1. (4 * r + 3) \div 146097 = c
    BY Quotient, SMT
  <2> QED
    BY <2>1, <1>2, SMT
<1>4. flat = 1461 * (100 * q + k) + w
  BY <1>1, <1>3, SMT
<1>5. quad = 100 * q + k
  <2>1. (1461 * (100 * q + k) + w) \div 1461 = 100 * q + k
    BY Quotient, SMT
  <2> QED
    BY <2>1, <1>4, SMT
<1>6. rest = w
  BY <1>4, <1>5, SMT
<1>7. (w * 4) \div 1461 = e
  BY Quotient, SMT
<1> QED
  <2> HIDE DEF date, cycle, extra, flat, quad, rest
  <2> QED
    BY <1>0, <1>5, <1>6, <1>7, SMTT(60)

\* What the calendar's count of leap days is for the first day of a year.
LEMMA NewYearOfParts ==
    ASSUME NEW q \in Int, NEW k \in Int, NEW e \in 0..3, NEW h \in Int,
           100 * h <= 4 * k + e - 1, 4 * k + e - 1 < 100 * h + 100, h \in -1..3
    PROVE  NewYear(400 * q + 4 * k + e - 4800) =
             1721426 + 146097 * (q - 12) + 365 * (4 * k + e - 1)
               + (IF e = 0 THEN k - 1 ELSE k) - h + (IF h = -1 THEN -1 ELSE 0)
<1> DEFINE y == 400 * q + 4 * k + e - 4800
<1>1. (y - 1) \div 4 = 100 * (q - 12) + (IF e = 0 THEN k - 1 ELSE k)
  BY Quotient, SMT
<1>2. (y - 1) \div 100 = 4 * (q - 12) + h
  BY Quotient, SMT
<1>3. (y - 1) \div 400 = q - 12 + (IF h = -1 THEN -1 ELSE 0)
  BY Quotient, SMT
<1> QED
  BY <1>1, <1>2, <1>3, SMTT(60) DEF NewYear

\* The same for the year after.
LEMMA NextNewYear ==
    ASSUME NEW q \in Int, NEW k \in Int, NEW e \in 0..3, NEW h \in 0..4,
           100 * h <= 4 * k + e, 4 * k + e < 100 * h + 100, 4 * k + e <= 400
    PROVE  NewYear(400 * q + 4 * k + e - 4800 + 1) =
             1721426 + 146097 * (q - 12) + 365 * (4 * k + e) + k - h
               + (IF h = 4 THEN 1 ELSE 0)
<1> DEFINE y == 400 * q + 4 * k + e - 4800 + 1
<1>1. (y - 1) \div 4 = 100 * (q - 12) + k
  BY Quotient, SMT
<1>2. (y - 1) \div 100 = 4 * (q - 12) + h
  BY Quotient, SMT
<1>3. (y - 1) \div 400 = q - 12 + (IF h = 4 THEN 1 ELSE 0)
  BY Quotient, SMT
<1> QED
  BY <1>1, <1>2, <1>3, SMTT(60) DEF NewYear

\* In a cycle, the days of a year are those between its first day and the next.
LEMMA DayInParts ==
    ASSUME NEW d \in Int, NEW q, NEW r, NEW c, NEW k, NEW w, NEW e, Parts(d, q, r, c, k, w, e),
           NEW g \in Int, 100 * g <= 4 * k + e - 1, 4 * k + e - 1 < 100 * g + 100,
           NEW h \in Int, 100 * h <= 4 * k + e, 4 * k + e < 100 * h + 100
    PROVE  /\ 306 + 365 * (4 * k + e - 1) + (IF e = 0 THEN k - 1 ELSE k) - g
                + (IF g = -1 THEN -1 ELSE 0) <= r
           /\ r < 306 + 365 * (4 * k + e) + k - h + (IF h = 4 THEN 1 ELSE 0)
<1> USE DEF Parts
<1>1. c = 0 \/ c = 1 \/ c = 2 \/ c = 3
  BY SMT
<1>2. e = 0 \/ e = 1 \/ e = 2 \/ e = 3
  BY SMT
<1>3. CASE c = 0
  BY <1>3, <1>2, SMTT(60)
<1>4. CASE c = 1
  BY <1>4, <1>2, SMT
<1>5. CASE c = 2
  BY <1>5, <1>2, SMT
<1>6. CASE c = 3
  BY <1>6, <1>2, SMT
<1> QED
  BY SMTT(60), <1>1, <1>3, <1>4, <1>5, <1>6

\* Every day has such parts.
LEMMA PartsExist ==
    ASSUME NEW d \in Int
    PROVE  \E q, r, c, k, w, e : Parts(d, q, r, c, k, w, e)
<1> DEFINE q == d \div 146097
           r == d - 146097 * q
           c == (4 * r + 3) \div 146097
           k == (r + 60 + c) \div 1461
           w == r + 60 + c - 1461 * k
           e == (4 * w) \div 1461
<1>1. q \in Int /\ r \in Int /\ 0 <= r /\ r < 146097
  BY Divide, SMT
<1>2. c \in Int /\ 146097 * c <= 4 * r + 3 /\ 4 * r + 3 < 146097 * (c + 1)
  <2> HIDE DEF r
  <2> QED
    BY <1>1, Divide, SMT
<1>3. k \in Int /\ w \in Int /\ 0 <= w /\ w < 1461
  <2> HIDE DEF r, c
  <2> QED
    BY <1>1, <1>2, Divide, SMTT(60)
<1>4. e \in Int /\ 1461 * e <= 4 * w /\ 4 * w < 1461 * (e + 1)
  <2> HIDE DEF w
  <2> QED
    BY <1>3, Divide, SMT
<1>5. d = 146097 * q + r /\ r + 60 + c = 1461 * k + w
  <2> HIDE DEF q, c, k
  <2> QED
    BY <1>1, <1>2, <1>3, SMTT(60)
<1>6. Parts(d, q, r, c, k, w, e)
  <2> HIDE DEF q, r, c, k, w, e
  <2> QED
    BY <1>1, <1>2, <1>3, <1>4, <1>5, SMTT(60) DEF Parts
<1> QED
  <2> HIDE DEF q, r, c, k, w, e
  <2> QED
    BY <1>1, <1>5, <1>6, SMTT(60)

\* A day lies in the year that YearOfDay gives it, whatever its number.
LEMMA DayInYear ==
    ASSUME NEW jd \in Int
    PROVE  /\ YearOfDay(jd) \in Int
           /\ NewYear(YearOfDay(jd)) <= jd
           /\ jd < NewYear(YearOfDay(jd) + 1)
<1>1. PICK q, r, c, k, w, e : Parts(jd + 32044, q, r, c, k, w, e)
  BY PartsExist, SMT
<1> DEFINE x == 4 * k + e
           g == (x - 1) \div 100
           h == x \div 100
<1>2. q \in Int /\ x \in Int /\ k \in Int /\ e \in Int /\ r \in Int
  BY <1>1, SMT DEF Parts
<1>3. g \in Int /\ 100 * g <= x - 1 /\ x - 1 < 100 * g + 100
  BY <1>2, Divide, SMTT(60)
<1>4. h \in Int /\ 100 * h <= x /\ x < 100 * h + 100
  BY <1>2, Divide, SMTT(60)
<1>5. YearOfDay(jd) = 400 * q + x - 4800
  <2>1. YearOfDay(jd) = 400 * q + 4 * k + e - 4800
    BY <1>1, YearOfParts, SMTT(60)
  <2> QED
    BY <1>2, <2>1, SMTT(60)
<1> HIDE DEF g, h
<1>6. e \in 0..3 /\ g \in -1..3 /\ h \in 0..4 /\ x <= 400
  BY <1>1, <1>3, <1>4, SMTT(60) DEF Parts
<1>7. NewYear(400 * q + x - 4800) =
        1721426 + 146097 * (q - 12) + 365 * (x - 1)
          + (IF e = 0 THEN k - 1 ELSE k) - g + (IF g = -1 THEN -1 ELSE 0)
  BY <1>2, <1>3, <1>6, NewYearOfParts, SMTT(60)
<1>8. NewYear(400 * q + x - 4800 + 1) =
        1721426 + 146097 * (q - 12) + 365 * x + k - h + (IF h = 4 THEN 1 ELSE 0)
  BY <1>2, <1>4, <1>6, NextNewYear, SMTT(60)
<1>9. /\ 306 + 365 * (x - 1) + (IF e = 0 THEN k - 1 ELSE k) - g
          + (IF g = -1 THEN -1 ELSE 0) <= r
      /\ r < 306 + 365 * x + k - h + (IF h = 4 THEN 1 ELSE 0)
  <2>1. /\ 100 * g <= 4 * k + e - 1 /\ 4 * k + e - 1 < 100 * g + 100
        /\ 100 * h <= 4 * k + e /\ 4 * k + e < 100 * h + 100
    BY <1>2, <1>3, <1>4, SMTT(60)
  <2> HIDE DEF x
  <2>2. /\ 306 + 365 * (4 * k + e - 1) + (IF e = 0 THEN k - 1 ELSE k) - g
            + (IF g = -1 THEN -1 ELSE 0) <= r
        /\ r < 306 + 365 * (4 * k + e) + k - h + (IF h = 4 THEN 1 ELSE 0)
    BY <1>1, <1>3, <1>4, <2>1, DayInParts, SMTT(60)
  <2> QED
    BY <1>2, <2>2, SMTT(60) DEF x
<1>10. jd = 146097 * q + r - 32044
  BY <1>1, <1>2, SMT DEF Parts
<1> HIDE DEF x
<1> QED
  BY <1>2, <1>3, <1>4, <1>5, <1>7, <1>8, <1>9, <1>10, SMTT(60)

\* The day is the one the timestamp falls in, also before 2000, where C rounds
\* the quotient up.
LEMMA DayOfTimestamp ==
    ASSUME NEW t \in Int
    PROVE  /\ JulianDay(t) \in Int
           /\ Midnight(JulianDay(t)) <= t
           /\ t < Midnight(JulianDay(t) + 1)
<1> DEFINE u == USECS_PER_DAY
           date == CQuotient(t, u)
           rest == t - date * u
           day == IF rest < 0 THEN date - 1 ELSE date
<1>1. u \in Nat \ {0}
  BY DayAssumption
<1>2. date \in Int /\ -u < rest /\ rest < u
  <2>1. CASE t >= 0
    BY <1>1, <2>1, Divide, SMTT(60) DEF CQuotient
  <2>2. CASE t < 0
    <3>1. /\ (-t) \div u \in Int
          /\ ((-t) \div u) * u <= -t /\ -t < ((-t) \div u) * u + u
      BY <1>1, <2>2, Divide, SMTT(60)
    <3>2. date = -((-t) \div u)
      BY <2>2, SMT DEF CQuotient
    <3> QED
      BY <1>1, <3>1, <3>2, SMTT(60)
  <2> QED
    BY <2>1, <2>2, SMTT(60)
<1>3. JulianDay(t) = day + POSTGRES_EPOCH_JDATE
  BY SMT DEF JulianDay
<1> HIDE DEF date
<1>4. day \in Int /\ day * u <= t /\ t < (day + 1) * u
  BY <1>1, <1>2, SMTT(60)
<1> HIDE DEF day, u
<1>5. JulianDay(t) - POSTGRES_EPOCH_JDATE = day
  BY <1>3, <1>4, SMTT(60) DEF POSTGRES_EPOCH_JDATE
<1>6. JulianDay(t) + 1 - POSTGRES_EPOCH_JDATE = day + 1
  BY <1>3, <1>4, SMTT(60) DEF POSTGRES_EPOCH_JDATE
<1>7. JulianDay(t) \in Int
  BY <1>3, <1>4, SMTT(60) DEF POSTGRES_EPOCH_JDATE
<1>8. Midnight(JulianDay(t)) = day * u
  BY <1>5 DEF Midnight, u
<1>9. Midnight(JulianDay(t) + 1) = (day + 1) * u
  <2>1. Midnight(JulianDay(t) + 1) = (JulianDay(t) + 1 - POSTGRES_EPOCH_JDATE) * USECS_PER_DAY
    BY <1>7, DayAssumption, SMTT(60) DEF Midnight, POSTGRES_EPOCH_JDATE
  <2> QED
    BY <1>6, <2>1, ZenonT(60) DEF u
<1> QED
  BY ZenonT(60), <1>4, <1>7, <1>8, <1>9

\* Later days begin later.
LEMMA MidnightMonotone ==
    ASSUME NEW m \in Int, NEW n \in Int, m <= n
    PROVE  Midnight(m) <= Midnight(n)
  BY DayAssumption, SMT DEF Midnight, POSTGRES_EPOCH_JDATE

\* The year of every timestamp is the year it falls in, for any length of the day
\* (plain_timestamp_extract_year).
THEOREM YearsRight == \A t \in Int : YearRight(t)
<1> SUFFICES ASSUME NEW t \in Int
             PROVE  YearRight(t)
  OBVIOUS
<1> DEFINE jd == JulianDay(t)
           y == YearOfDay(jd)
<1>1. jd \in Int /\ Midnight(jd) <= t /\ t < Midnight(jd + 1)
  BY DayOfTimestamp
<1>2. y \in Int /\ NewYear(y) <= jd /\ jd < NewYear(y + 1)
  BY <1>1, DayInYear
<1>3. NewYear(y) \in Int /\ NewYear(y + 1) \in Int
  <2> HIDE DEF y
  <2> QED
    BY <1>2, SMT DEF NewYear
<1>4. Midnight(NewYear(y)) <= Midnight(jd) /\ Midnight(jd + 1) <= Midnight(NewYear(y + 1))
  <2> HIDE DEF y, jd
  <2> QED
    BY <1>1, <1>2, <1>3, MidnightMonotone, SMTT(60)
<1>5. /\ Midnight(jd) \in Int /\ Midnight(jd + 1) \in Int
      /\ Midnight(NewYear(y)) \in Int /\ Midnight(NewYear(y + 1)) \in Int
  <2> HIDE DEF y, jd
  <2> QED
    BY <1>1, <1>3, DayAssumption, SMTT(60) DEF Midnight, POSTGRES_EPOCH_JDATE
<1>6. Midnight(NewYear(y)) <= t /\ t < Midnight(NewYear(y + 1))
  <2> HIDE DEF y, jd
  <2> QED
    BY <1>1, <1>4, <1>5, SMTT(60)
<1>7. CASE HasYear(t)
  <2>1. plain_timestamp_extract_year(t) = y
    BY <1>1, <1>7, SMTT(60) DEF HasYear, plain_timestamp_extract_year, INT_MAX
  <2> QED
    BY <1>6, <1>7, <2>1, SMTT(60) DEF YearRight
<1>8. CASE ~HasYear(t)
  <2>1. plain_timestamp_extract_year(t) = -1
    BY <1>1, <1>8, SMTT(60) DEF HasYear, plain_timestamp_extract_year, INT_MAX
  <2> QED
    BY <1>8, <2>1, SMTT(60) DEF YearRight
<1> QED
  BY <1>7, <1>8

-----------------------------------------------------------------------------
(* Base64.                                                                 *)

\* No digit is the pad.
LEMMA DigitNotPad == \A x \in Digit : x # PC
  BY SMT DEF Digit, PC

\* The digits of three bytes give the bytes back.
LEMMA DigitsDecode ==
    ASSUME NEW a \in Byte, NEW b \in Byte, NEW c \in Byte
    PROVE  LET d == Digits(a, b, c)
           IN  /\ d[1] \in Digit /\ d[2] \in Digit /\ d[3] \in Digit /\ d[4] \in Digit
               /\ Bytes(d[1], d[2], d[3], d[4]) = <<a, b, c>>
               /\ b = 0 /\ c = 0 => d[3] = 0
               /\ c = 0 => d[4] = 0
<1> DEFINE d1 == a \div 4
           d2 == (a % 4) * 16 + (b \div 16)
           d3 == (b % 16) * 4 + (c \div 64)
           d4 == c % 64
           qv == ((d1 * 64 + d2) * 64 + d3) * 64 + d4
<1>1. Digits(a, b, c) = <<d1, d2, d3, d4>>
  BY DEF Digits
<1>2. /\ d1 \in Digit /\ d2 \in Digit /\ d3 \in Digit /\ d4 \in Digit
      /\ b = 0 /\ c = 0 => d3 = 0
      /\ c = 0 => d4 = 0
  BY SMTT(60) DEF Byte, Digit
<1>3. qv = (a * 256 + b) * 256 + c
  BY SMT DEF Byte
<1>4. (qv \div 65536) % 256 = a /\ (qv \div 256) % 256 = b /\ qv % 256 = c
  <2> HIDE DEF qv
  <2> QED
    BY <1>3, SMTT(60) DEF Byte
<1>5. Bytes(d1, d2, d3, d4) = <<a, b, c>>
  BY SMT, <1>4 DEF Bytes
<1> HIDE DEF d1, d2, d3, d4
<1> QED
  BY <1>1, <1>2, <1>5, SMTT(60)

\* The characters of a group: the digits of its bytes, and pads for those it has not.
LEMMA GroupText ==
    ASSUME NEW s \in Seq(Byte), NEW g \in 0..GroupCount(s) - 1
    PROVE  LET Byte3(j) == ByteAt(s, 3 * g + j)
           IN  /\ Len(s) \in Nat /\ g \in Nat /\ 3 * g + 1 <= Len(s)
               /\ Byte3(1) \in Byte /\ Byte3(2) \in Byte /\ Byte3(3) \in Byte
               /\ \A j \in 1..4 : toBase64(s)[4 * g + j] =
                    IF j - 1 <= Len(s) - 3 * g THEN Digits(Byte3(1), Byte3(2), Byte3(3))[j] ELSE PC
<1> DEFINE n == Len(s)
           a == ByteAt(s, 3 * g + 1)
           b == ByteAt(s, 3 * g + 2)
           c == ByteAt(s, 3 * g + 3)
           d == Digits(a, b, c)
<1>1. n \in Nat /\ g \in Nat /\ 3 * g + 1 <= n
  <2>1. n \in Nat
    BY SMT
  <2>2. g \in Int /\ 0 <= g /\ g <= ((n + 2) \div 3) - 1
    BY <2>1, SMT DEF GroupCount
  <2> HIDE DEF n
  <2> QED
    BY <2>1, <2>2, SMTT(60)
<1>2. a \in Byte /\ b \in Byte /\ c \in Byte
  <2>1. \A k \in 1..n : s[k] \in Byte
    BY SMT
  <2>2. 0 \in Byte
    BY SMT DEF Byte
  <2>3. \A k \in Nat \ {0} : ByteAt(s, k) \in Byte
    BY <1>1, <2>1, <2>2, SMTT(60) DEF ByteAt
  <2> QED
    BY <1>1, <2>3, SMTT(60)
<1>4. ASSUME NEW j \in 1..4
      PROVE  toBase64(s)[4 * g + j] = IF j - 1 <= n - 3 * g THEN d[j] ELSE PC
  <2>1. 4 * g + j \in 1..4 * ((n + 2) \div 3)
    <3>1. g + 1 <= (n + 2) \div 3
      BY <1>1, SMT DEF GroupCount
    <3> HIDE DEF n
    <3> QED
      BY <1>1, <3>1, SMTT(60)
  <2>2. (4 * g + j - 1) \div 4 = g /\ (4 * g + j - 1) % 4 = j - 1
    BY <1>1, SMT
  <2>3. toBase64(s)[4 * g + j] =
          IF j - 1 <= n - 3 * g THEN GroupDigits(s, g)[j - 1 + 1] ELSE PC
    BY SMTT(60), <2>1, <2>2 DEF toBase64
  <2>4. GroupDigits(s, g) = d
    BY DEF GroupDigits
  <2>5. j - 1 + 1 = j
    BY SMT
  <2> QED
    BY ZenonT(60), <2>3, <2>4, <2>5
<1> QED
  BY <1>1, <1>2, <1>4

\* Every group of the text of a ciphertext decodes to the bytes it was made of,
\* for ciphertexts of any length (toBase64, fromBase64).
THEOREM GroupsRoundTrip == \A s \in Seq(Byte) : GroupsDecode(s)
<1> SUFFICES ASSUME NEW s \in Seq(Byte), NEW g \in 0..GroupCount(s) - 1
             PROVE  LET Char4(j) == toBase64(s)[4 * g + j]
                        Value(j) == IF Char4(j) = PC THEN 0 ELSE Char4(j)
                    IN  /\ Bytes(Value(1), Value(2), Value(3), Value(4)) =
                             <<ByteAt(s, 3 * g + 1), ByteAt(s, 3 * g + 2), ByteAt(s, 3 * g + 3)>>
                        /\ \A j \in 1..4 : Char4(j) = PC <=> j - 1 > Len(s) - 3 * g
  BY DEF GroupsDecode
<1> DEFINE n == Len(s)
           a == ByteAt(s, 3 * g + 1)
           b == ByteAt(s, 3 * g + 2)
           c == ByteAt(s, 3 * g + 3)
           d == Digits(a, b, c)
           Char4(j) == toBase64(s)[4 * g + j]
           Value(j) == IF Char4(j) = PC THEN 0 ELSE Char4(j)
<1>1. n \in Nat /\ g \in Nat /\ 3 * g + 1 <= n
  BY GroupText
<1>2. a \in Byte /\ b \in Byte /\ c \in Byte
  BY GroupText
<1>3. (3 * g + 2 > n => b = 0) /\ (3 * g + 3 > n => c = 0)
  BY <1>1, SMT DEF ByteAt
<1>4. ASSUME NEW j \in 1..4
      PROVE  Char4(j) = IF j - 1 <= n - 3 * g THEN d[j] ELSE PC
  BY GroupText
<1>5. /\ d[1] \in Digit /\ d[2] \in Digit /\ d[3] \in Digit /\ d[4] \in Digit
      /\ Bytes(d[1], d[2], d[3], d[4]) = <<a, b, c>>
      /\ (b = 0 /\ c = 0 => d[3] = 0)
      /\ (c = 0 => d[4] = 0)
  BY <1>2, DigitsDecode
<1> HIDE DEF a, b, c, d, n, Char4
<1>6. \A j \in 1..4 : Char4(j) = PC <=> j - 1 > n - 3 * g
  <2> SUFFICES ASSUME NEW j \in 1..4
               PROVE  Char4(j) = PC <=> j - 1 > n - 3 * g
    OBVIOUS
  <2>1. d[j] # PC
    <3>1. j = 1 \/ j = 2 \/ j = 3 \/ j = 4
      BY SMT
    <3> QED
      BY ZenonT(60), <1>5, <3>1, DigitNotPad
  <2> QED
    BY <1>1, <1>4, <2>1, SMTT(60)
<1>7. Value(1) = d[1] /\ Value(2) = d[2] /\ Value(3) = d[3] /\ Value(4) = d[4]
  <2>1. Char4(1) = d[1] /\ Char4(2) = d[2]
    BY <1>1, <1>4, SMTT(60)
  <2>2. Char4(3) = IF 2 <= n - 3 * g THEN d[3] ELSE PC
    BY <1>4, SMT
  <2>3. Char4(4) = IF 3 <= n - 3 * g THEN d[4] ELSE PC
    BY <1>4, SMT
  <2>4. d[1] # PC /\ d[2] # PC /\ d[3] # PC /\ d[4] # PC
    BY ZenonT(60), <1>5, DigitNotPad
  <2>5. Value(3) = d[3]
    BY <1>1, <1>3, <1>5, <2>2, <2>4, SMTT(60)
  <2>6. Value(4) = d[4]
    BY <1>1, <1>3, <1>5, <2>3, <2>4, SMTT(60)
  <2> QED
    BY ZenonT(60), <2>1, <2>4, <2>5, <2>6
<1> QED
  BY ZenonT(60), <1>5, <1>6, <1>7 DEF a, b, c, n, Char4

-----------------------------------------------------------------------------
(* Decoding as a whole.                                                    *)

\* What fromBase64 decodes of n characters from p on, when f has that for fewer.
Decoded(cs, f, n, p) ==
    IF n = 0 \/ cs[p] = PC THEN <<>>
    ELSE LET q == skipNonB64(cs, p, n)
             left == n - (q - p)
             nti == Lesser(4, left)
             gr == Group(cs, q, nti)
         IN  IF nti < 2 THEN <<>>
             ELSE SubSeq(gr.bytes, 1, nti - 1 - Cardinality(gr.lost))
                    \o f[IF gr.last THEN 0 ELSE left - nti][q + gr.used]

\* What is skipped is part of what is left.
LEMMA SkipRange ==
    ASSUME NEW cs, NEW p \in Nat, NEW n \in Nat
    PROVE  skipNonB64(cs, p, n) \in p..p + n
<1> DEFINE stops == {q \in p..p + n : q = p + n \/ cs[q] \in Digit}
<1>1. p + n \in p..p + n /\ p..p + n \in SUBSET Nat
  BY SMT
<1>2. stops # {} /\ stops \in SUBSET Nat
  BY <1>1
<1>3. skipNonB64(cs, p, n) = CHOOSE q \in stops : \A r \in stops : q <= r
  BY DEF skipNonB64
<1> HIDE DEF stops
<1>4. \E q \in stops : \A r \in stops : q <= r
  BY <1>2, LeastNatural
<1>5. skipNonB64(cs, p, n) \in stops
  BY <1>3, <1>4
<1> QED
  BY <1>5 DEF stops

\* Decoding uses what fewer characters decode to.
LEMMA DecodedSame ==
    ASSUME NEW cs, NEW f, NEW h, NEW n \in Nat, NEW p \in Nat,
           \A k \in 0..n - 1 : f[k] = h[k]
    PROVE  Decoded(cs, f, n, p) = Decoded(cs, h, n, p)
<1> DEFINE q == skipNonB64(cs, p, n)
           left == n - (q - p)
           nti == Lesser(4, left)
           gr == Group(cs, q, nti)
           rest == IF gr.last THEN 0 ELSE left - nti
<1>1. CASE n = 0
  BY <1>1 DEF Decoded
<1>2. CASE n # 0 /\ nti < 2
  BY <1>2 DEF Decoded
<1>3. CASE n # 0 /\ ~(nti < 2)
  <2>1. q \in p..p + n
    BY SkipRange
  <2>2. left \in Int /\ left <= n /\ left >= 0
    <3> HIDE DEF q
    <3> QED
      BY <2>1, SMT
  <2>3. left - nti \in 0..n - 1 /\ 0 \in 0..n - 1
    <3> HIDE DEF left
    <3> QED
      BY <1>3, <2>2, SMT DEF Lesser
  <2>4. rest \in 0..n - 1
    BY <2>3
  <2>5. f[rest] = h[rest]
    <3> HIDE DEF rest
    <3> QED
      BY <2>4
  <2> QED
    BY <1>3, <2>5 DEF Decoded
<1> QED
  BY <1>1, <1>2, <1>3

\* There is a table of what the characters decode to.
LEMMA DecodedExist ==
    ASSUME NEW cs, Len(cs) \in Nat
    PROVE  \E f : f = [n \in 0..Len(cs) |-> [p \in 1..Len(cs) + 1 - n |-> Decoded(cs, f, n, p)]]
<1> DEFINE l == Len(cs)
           Below(f, d) == \A n \in 0..l : n < d =>
                            f[n] = [p \in 1..l + 1 - n |-> Decoded(cs, f, n, p)]
           S == {d \in Nat : \E f : Below(f, d)}
<1>0. ASSUME NEW f, NEW h, NEW n \in 0..l, \A k \in 0..n - 1 : f[k] = h[k]
      PROVE  [p \in 1..l + 1 - n |-> Decoded(cs, f, n, p)]
               = [p \in 1..l + 1 - n |-> Decoded(cs, h, n, p)]
  <2>1. n \in Nat /\ \A p \in 1..l + 1 - n : p \in Nat
    BY SMT
  <2>2. ASSUME NEW p \in 1..l + 1 - n PROVE Decoded(cs, f, n, p) = Decoded(cs, h, n, p)
    BY <1>0, <2>1, DecodedSame
  <2> QED
    BY <2>2
<1>1. 0 \in S
  <2>1. Below(<<>>, 0)
    BY SMT
  <2> HIDE DEF Below
  <2> QED
    BY <2>1, SMT
<1>2. ASSUME NEW d \in Nat, d \in S
      PROVE  d + 1 \in S
  <2>1. PICK f : Below(f, d)
    BY <1>2
  <2> DEFINE h == [n \in 0..l |->
                     IF n < d THEN f[n] ELSE [p \in 1..l + 1 - n |-> Decoded(cs, f, n, p)]]
  <2>2. ASSUME NEW n \in 0..l, n < d + 1
        PROVE  h[n] = [p \in 1..l + 1 - n |-> Decoded(cs, h, n, p)]
    <3>1. \A k \in 0..n - 1 : k \in 0..l /\ k < d
      BY <2>2, SMT
    <3>2. \A k \in 0..n - 1 : f[k] = h[k]
      BY <3>1
    <3>3. h[n] = [p \in 1..l + 1 - n |-> Decoded(cs, f, n, p)]
      BY <2>1
    <3> HIDE DEF h
    <3>4. [p \in 1..l + 1 - n |-> Decoded(cs, f, n, p)]
            = [p \in 1..l + 1 - n |-> Decoded(cs, h, n, p)]
      BY <1>0, <3>2
    <3> QED
      BY <3>3, <3>4
  <2>3. Below(h, d + 1)
    BY <2>2
  <2>4. d + 1 \in Nat
    BY SMT
  <2> HIDE DEF h, Below
  <2> QED
    BY <2>3, <2>4
<1>3. l + 1 \in S
  <2>1. l + 1 \in Nat
    BY SMT
  <2> HIDE DEF S
  <2> QED
    BY <1>1, <1>2, <2>1, NaturalInduction
<1>4. PICK f : Below(f, l + 1)
  BY <1>3
<1>5. \A n \in 0..l : f[n] = [p \in 1..l + 1 - n |-> Decoded(cs, f, n, p)]
  <2>1. \A n \in 0..l : n < l + 1
    BY SMT
  <2> QED
    BY <1>4, <2>1
<1> DEFINE h == [n \in 0..l |-> f[n]]
<1>6. ASSUME NEW n \in 0..l
      PROVE  h[n] = [p \in 1..l + 1 - n |-> Decoded(cs, h, n, p)]
  <2>1. \A k \in 0..n - 1 : k \in 0..l
    BY SMT
  <2>2. \A k \in 0..n - 1 : f[k] = h[k]
    BY <2>1
  <2>3. h[n] = f[n]
    OBVIOUS
  <2> HIDE DEF h
  <2>4. [p \in 1..l + 1 - n |-> Decoded(cs, f, n, p)]
          = [p \in 1..l + 1 - n |-> Decoded(cs, h, n, p)]
    BY <1>0, <2>2
  <2> QED
    BY <1>5, <2>3, <2>4
<1>7. h = [n \in 0..l |-> [p \in 1..l + 1 - n |-> Decoded(cs, h, n, p)]]
  BY <1>6
<1> HIDE DEF h
<1> QED
  BY <1>7

\* What fromBase64 is, in terms of the table.
LEMMA DecodingTable ==
    ASSUME NEW cs, Len(cs) \in Nat
    PROVE  \E f : /\ \A n \in 0..Len(cs) : \A p \in 1..Len(cs) + 1 - n :
                       f[n][p] = Decoded(cs, f, n, p)
                  /\ fromBase64(cs) = f[Len(cs)][1]
<1> DEFINE Body(f) == [n \in 0..Len(cs) |-> [p \in 1..Len(cs) + 1 - n |-> Decoded(cs, f, n, p)]]
<1>1. PICK g : g = Body(g)
  BY DecodedExist
<1>2. PICK f : f = (CHOOSE h : h = Body(h)) /\ f = Body(f)
  <2> HIDE DEF Body
  <2> QED
    BY <1>1
<1>3. fromBase64(cs) = (CHOOSE h : h = Body(h))[Len(cs)][1]
  BY DEF fromBase64, Decoded
<1>4. ASSUME NEW n \in 0..Len(cs), NEW p \in 1..Len(cs) + 1 - n
      PROVE  f[n][p] = Decoded(cs, f, n, p)
  <2>1. Body(f)[n][p] = Decoded(cs, f, n, p)
    OBVIOUS
  <2> HIDE DEF Body
  <2> QED
    BY <1>2, <2>1
<1> QED
  BY <1>2, <1>3, <1>4

\* The bytes a group of the text holds.
Held(s, g) == IF Len(s) - 3 * g >= 3 THEN 3 ELSE Len(s) - 3 * g

\* What fromBase64 reads of a group that toBase64 wrote.
LEMMA GroupRead ==
    ASSUME NEW s \in Seq(Byte), NEW g \in 0..GroupCount(s) - 1
    PROVE  LET gr == Group(toBase64(s), 4 * g + 1, 4)
           IN  /\ gr.bytes = <<ByteAt(s, 3 * g + 1), ByteAt(s, 3 * g + 2), ByteAt(s, 3 * g + 3)>>
               /\ 3 - Cardinality(gr.lost) = Held(s, g)
               /\ gr.used = 4 /\ gr.last = FALSE
               /\ toBase64(s)[4 * g + 1] \in Digit
<1> DEFINE n == Len(s)
           C(j) == toBase64(s)[4 * g + j]
           V(j) == IF C(j) = PC THEN 0 ELSE C(j)
           pads == {k \in 0..3 : C(k + 1) = PC}
<1>1. /\ n \in Nat /\ g \in Nat /\ 3 * g + 1 <= n
      /\ ByteAt(s, 3 * g + 1) \in Byte /\ ByteAt(s, 3 * g + 2) \in Byte
      /\ ByteAt(s, 3 * g + 3) \in Byte
      /\ \A j \in 1..4 : C(j) =
           IF j - 1 <= n - 3 * g
           THEN Digits(ByteAt(s, 3 * g + 1), ByteAt(s, 3 * g + 2), ByteAt(s, 3 * g + 3))[j]
           ELSE PC
  BY GroupText
<1>2. \A j \in 1..4 :
        Digits(ByteAt(s, 3 * g + 1), ByteAt(s, 3 * g + 2), ByteAt(s, 3 * g + 3))[j] \in Digit
  <2>1. \A j \in 1..4 : j = 1 \/ j = 2 \/ j = 3 \/ j = 4
    BY SMT
  <2> QED
    BY <1>1, <2>1, DigitsDecode
<1>3. \A j \in 1..4 : IF j - 1 <= n - 3 * g THEN C(j) \in Digit ELSE C(j) = PC
  BY <1>1, <1>2
<1>4. Bytes(V(1), V(2), V(3), V(4))
        = <<ByteAt(s, 3 * g + 1), ByteAt(s, 3 * g + 2), ByteAt(s, 3 * g + 3)>>
  BY GroupsRoundTrip DEF GroupsDecode
<1>5. C(1) \in Digit
  <2>1. 1 \in 1..4 /\ 1 - 1 <= n - 3 * g
    BY <1>1, SMT
  <2> QED
    BY <1>3, <2>1
<1>6. \A j \in 1..4 : C(j) \notin {WS, ND} /\ (C(j) \in Digit <=> C(j) # PC)
  <2>1. WS \notin Digit /\ ND \notin Digit /\ PC # WS /\ PC # ND
    BY SMT DEF WS, ND, PC, Digit
  <2> QED
    BY <1>3, <2>1, DigitNotPad
<1> DEFINE At(k) == toBase64(s)[4 * g + 1 + k]
<1>7. \A k \in 0..3 : k + 1 \in 1..4 /\ 4 * g + 1 + k = 4 * g + (k + 1)
  BY <1>1, SMT
<1>8. \A k \in 0..3 : At(k) = C(k + 1)
  BY <1>7
<1>9. {k \in 0..4 - 1 : At(k) \in {WS, ND}} = {}
  <2>1. 4 - 1 = 3
    BY SMT
  <2> HIDE DEF C, At
  <2> QED
    BY <1>6, <1>7, <1>8, <2>1
<1>10. At(0) = C(1) /\ At(1) = C(2) /\ At(2) = C(3) /\ At(3) = C(4)
  BY <1>1, SMT
<1> DEFINE R(k) == IF k < 4 /\ At(k) \in Digit THEN At(k) ELSE 0
<1>11. R(0) = V(1) /\ R(1) = V(2) /\ R(2) = V(3) /\ R(3) = V(4)
  <2>1. 0 < 4 /\ 1 < 4 /\ 2 < 4 /\ 3 < 4 /\ 1 \in 1..4 /\ 2 \in 1..4 /\ 3 \in 1..4 /\ 4 \in 1..4
    BY SMT
  <2> HIDE DEF C, At
  <2> QED
    BY <1>6, <1>10, <2>1
<1> DEFINE gr == [bytes |-> Bytes(R(0), R(1), R(2), R(3)),
                  lost |-> {k \in 0..4 - 1 : At(k) = PC}, used |-> 4, last |-> FALSE]
<1>12. Group(toBase64(s), 4 * g + 1, 4) = gr
  BY <1>9 DEF Group
<1>13. {k \in 0..4 - 1 : At(k) = PC} = {k \in 0..3 : k > n - 3 * g}
  <2>1. 4 - 1 = 3 /\ \A k \in 0..3 : ((k + 1) - 1 <= n - 3 * g) <=> ~(k > n - 3 * g)
    BY <1>1, SMT
  <2> HIDE DEF C, At
  <2>2. ASSUME NEW k \in 0..3 PROVE At(k) = PC <=> k > n - 3 * g
    BY <1>3, <1>7, <1>8, <2>1, DigitNotPad
  <2> QED
    BY <2>1, <2>2
<1>14. 3 - Cardinality({k \in 0..3 : k > n - 3 * g}) = Held(s, g)
  <2>1. CASE n - 3 * g >= 3
    <3>1. \A k \in 0..3 : ~(k > n - 3 * g)
      BY <1>1, <2>1, SMT
    <3>2. {k \in 0..3 : k > n - 3 * g} = {}
      BY <3>1
    <3>3. 3 - 0 = 3
      BY SMT
    <3> QED
      BY <2>1, <3>2, <3>3, FS_EmptySet DEF Held
  <2>2. CASE ~(n - 3 * g >= 3)
    <3>1. \A k : (k \in 0..3 /\ k > n - 3 * g) <=> k \in n - 3 * g + 1..3
      BY <1>1, <2>2, SMT
    <3>2. {k \in 0..3 : k > n - 3 * g} = n - 3 * g + 1..3
      BY <3>1
    <3>3. n - 3 * g + 1 \in Int /\ 3 \in Int /\ ~(n - 3 * g + 1 > 3)
          /\ 3 - (3 - (n - 3 * g + 1) + 1) = n - 3 * g
      BY <1>1, <2>2, SMT
    <3>4. Cardinality(n - 3 * g + 1..3) = 3 - (n - 3 * g + 1) + 1
      BY <3>3, FS_Interval
    <3> QED
      BY <2>2, <3>2, <3>3, <3>4 DEF Held
  <2> QED
    BY <2>1, <2>2
<1>15. gr.bytes = Bytes(V(1), V(2), V(3), V(4)) /\ 3 - Cardinality(gr.lost) = Held(s, g)
       /\ gr.used = 4 /\ gr.last = FALSE
  <2> HIDE DEF R, V, At, C
  <2> QED
    BY <1>11, <1>13, <1>14
<1> HIDE DEF gr
<1> QED
  BY <1>4, <1>5, <1>12, <1>15

\* The elements from m to n, possibly none, are in a sequence.
Within(s, m, n) == m \in Nat /\ n \in Nat /\ 1 <= m /\ m <= n + 1 /\ n <= Len(s)

\* A part of a sequence.
LEMMA PartOf ==
    ASSUME NEW S, NEW s \in Seq(S), NEW m, NEW n, Within(s, m, n)
    PROVE  /\ SubSeq(s, m, n) \in Seq(S) /\ Len(SubSeq(s, m, n)) = n + 1 - m
           /\ \A i \in 1..n + 1 - m : SubSeq(s, m, n)[i] = s[m + i - 1]
  BY SMT DEF Within

\* Two sequences in a row.
LEMMA InRow ==
    ASSUME NEW S, NEW s \in Seq(S), NEW t \in Seq(S)
    PROVE  /\ s \o t \in Seq(S) /\ Len(s \o t) = Len(s) + Len(t)
           /\ \A i \in 1..Len(s) + Len(t) :
                (s \o t)[i] = IF i <= Len(s) THEN s[i] ELSE t[i - Len(s)]
  BY SMT

\* Sequences are equal when their elements are.
LEMMA SameSequence ==
    ASSUME NEW S, NEW s \in Seq(S), NEW t \in Seq(S), Len(s) = Len(t),
           \A i \in 1..Len(s) : s[i] = t[i]
    PROVE  s = t
  BY SMT

\* A digit is not skipped.
LEMMA SkipNothing ==
    ASSUME NEW cs, NEW p \in Nat, NEW n \in Nat, cs[p] \in Digit
    PROVE  skipNonB64(cs, p, n) = p
<1> DEFINE stops == {q \in p..p + n : q = p + n \/ cs[q] \in Digit}
<1>1. p \in p..p + n /\ \A q \in p..p + n : p <= q /\ (q <= p => q = p)
  BY SMT
<1>2. p \in stops /\ \A q \in stops : p <= q /\ (q <= p => q = p)
  BY <1>1
<1>3. skipNonB64(cs, p, n) = CHOOSE q \in stops : \A r \in stops : q <= r
  BY DEF skipNonB64
<1> HIDE DEF stops
<1>4. skipNonB64(cs, p, n) \in stops /\ \A r \in stops : skipNonB64(cs, p, n) <= r
  BY <1>2, <1>3
<1> QED
  BY <1>2, <1>4

\* The bytes of a group, and those of the ones after it.
LEMMA JoinGroups ==
    ASSUME NEW s \in Seq(Byte), NEW g \in Nat, 3 * g + 1 <= Len(s)
    PROVE  SubSeq(<<ByteAt(s, 3 * g + 1), ByteAt(s, 3 * g + 2), ByteAt(s, 3 * g + 3)>>, 1,
             Held(s, g))
             \o SubSeq(s, 3 * (g + 1) + 1, Len(s)) = SubSeq(s, 3 * g + 1, Len(s))
<1> DEFINE n == Len(s)
           t == <<ByteAt(s, 3 * g + 1), ByteAt(s, 3 * g + 2), ByteAt(s, 3 * g + 3)>>
           h == Held(s, g)
           u == SubSeq(t, 1, h)
           v == SubSeq(s, 3 * (g + 1) + 1, n)
           w == SubSeq(s, 3 * g + 1, n)
<1>1. n \in Nat /\ h \in 1..3 /\ 3 * g + h <= n /\ (h < 3 => 3 * g + h = n)
      /\ 3 * (g + 1) + 1 = 3 * g + 4
  <2>1. n \in Nat
    BY SMT
  <2>2. h = IF n - 3 * g >= 3 THEN 3 ELSE n - 3 * g
    BY DEF Held
  <2> HIDE DEF n, h
  <2>3. 3 * g + 1 <= n
    BY DEF n
  <2> QED
    BY <2>1, <2>2, <2>3, SMT
<1>2. \A k \in 1..n : s[k] \in Byte /\ ByteAt(s, k) = s[k]
  BY SMT DEF ByteAt
<1>3. ByteAt(s, 3 * g + 1) \in Byte /\ ByteAt(s, 3 * g + 2) \in Byte /\ ByteAt(s,
        3 * g + 3) \in Byte
  <2>1. 0 \in Byte
    BY SMT DEF Byte
  <2> QED
    BY <1>1, <1>2, <2>1, SMT DEF ByteAt
<1>4. t \in Seq(Byte) /\ Len(t) = 3 /\ \A i \in 1..3 : t[i] = ByteAt(s, 3 * g + i)
  BY <1>3, SMT
<1> HIDE DEF t, h
<1>5. u \in Seq(Byte) /\ Len(u) = h /\ \A i \in 1..h : u[i] = s[3 * g + i]
  <2>1. h \in Nat /\ 1 \in Nat /\ 1 <= 1 /\ 1 <= h + 1 /\ h <= Len(t) /\ h + 1 - 1 = h
        /\ \A i \in 1..h : 1 + i - 1 = i /\ i \in 1..3 /\ 3 * g + i \in 1..n
    BY <1>1, <1>4, SMT
  <2>2. /\ u \in Seq(Byte) /\ Len(u) = h + 1 - 1
        /\ \A i \in 1..h + 1 - 1 : u[i] = t[1 + i - 1]
    <3>1. Within(t, 1, h)
      BY <2>1 DEF Within
    <3>2. t \in Seq(Byte)
      BY <1>4
    <3> QED
      BY <3>1, <3>2, PartOf, SMT
  <2> HIDE DEF u
  <2> QED
    BY <1>2, <1>4, <2>1, <2>2
<1>6. w \in Seq(Byte) /\ Len(w) = n - 3 * g /\ \A i \in 1..n - 3 * g : w[i] = s[3 * g + i]
  <2>1. 3 * g + 1 \in Nat /\ 1 <= 3 * g + 1 /\ 3 * g + 1 <= n + 1 /\ n <= n
        /\ n + 1 - (3 * g + 1) = n - 3 * g /\ \A i \in Nat : (3 * g + 1) + i - 1 = 3 * g + i
    BY <1>1, SMT
  <2>2. \A i \in 1..n - 3 * g : i \in Nat
    BY <1>1, SMT
  <2>3. /\ w \in Seq(Byte) /\ Len(w) = n + 1 - (3 * g + 1)
        /\ \A i \in 1..n + 1 - (3 * g + 1) : w[i] = s[(3 * g + 1) + i - 1]
    <3>1. Within(s, 3 * g + 1, n)
      BY <1>1, <2>1 DEF Within
    <3> QED
      BY <3>1, PartOf, SMT
  <2> HIDE DEF w
  <2> QED
    BY <2>1, <2>2, <2>3
<1>7. CASE h < 3
  <2>1. 3 * (g + 1) + 1 > n /\ n - 3 * g = h
    BY <1>1, <1>7, SMT
  <2>2. v = <<>>
    BY <1>1, <2>1, SMT
  <2>3. u \o <<>> = u
    BY <1>5, SMT
  <2> HIDE DEF u, v, w
  <2>4. u = w
    BY <1>5, <1>6, <2>1, SameSequence
  <2> QED
    BY <2>2, <2>3, <2>4 DEF u, v, w, t, h, n
<1>8. CASE ~(h < 3)
  <2>1. h = 3 /\ 3 * (g + 1) + 1 \in Nat /\ 1 <= 3 * (g + 1) + 1 /\ 3 * (g + 1) + 1 <= n + 1
        /\ n <= n /\ n + 1 - (3 * (g + 1) + 1) = n - 3 * g - 3
        /\ \A i \in Nat : (3 * (g + 1) + 1) + i - 1 = 3 * g + 3 + i
    BY <1>1, <1>8, SMT
  <2>2. \A i \in 1..n - 3 * g - 3 : i \in Nat
    BY <1>1, SMT
  <2>3. /\ v \in Seq(Byte) /\ Len(v) = n + 1 - (3 * (g + 1) + 1)
        /\ \A i \in 1..n + 1 - (3 * (g + 1) + 1) : v[i] = s[(3 * (g + 1) + 1) + i - 1]
    <3>1. Within(s, 3 * (g + 1) + 1, n)
      BY <1>1, <2>1 DEF Within
    <3> QED
      BY <3>1, PartOf, SMT
  <2> HIDE DEF u, v, w
  <2>4. Len(v) = n - 3 * g - 3 /\ \A i \in 1..n - 3 * g - 3 : v[i] = s[3 * g + 3 + i]
    BY <2>1, <2>2, <2>3
  <2>5. /\ u \o v \in Seq(Byte) /\ Len(u \o v) = Len(u) + Len(v)
        /\ \A i \in 1..Len(u) + Len(v) : (u \o v)[i] = IF i <= Len(u) THEN u[i] ELSE v[i - Len(u)]
    BY <1>5, <2>3, InRow
  <2>6. Len(u) = 3 /\ 3 + (n - 3 * g - 3) = n - 3 * g
    BY <1>1, <1>5, <2>1, SMT
  <2>7. ASSUME NEW i \in 1..n - 3 * g PROVE (u \o v)[i] = w[i]
    <3>1. (u \o v)[i] = IF i <= 3 THEN u[i] ELSE v[i - 3]
      BY <2>4, <2>5, <2>6
    <3>2. CASE i <= 3
      <4>1. i \in 1..h
        BY <2>1, <3>2, SMT
      <4> QED
        BY <1>5, <1>6, <3>1, <3>2, <4>1
    <3>3. CASE ~(i <= 3)
      <4>1. i - 3 \in 1..n - 3 * g - 3 /\ 3 * g + 3 + (i - 3) = 3 * g + i
        BY <1>1, <3>3, SMT
      <4> QED
        BY <1>6, <2>4, <3>1, <3>3, <4>1
    <3> QED
      BY <3>2, <3>3
  <2>8. Len(u \o v) = n - 3 * g
    BY <2>4, <2>5, <2>6
  <2>9. u \o v = w
    BY <1>6, <2>5, <2>7, <2>8, SameSequence
  <2> QED
    BY <2>9 DEF u, v, w, t, h, n
<1> QED
  BY <1>7, <1>8

\* Every text that toBase64 makes of bytes is read by fromBase64 as these bytes.
LEMMA BytesRoundTrip ==
    ASSUME NEW s \in Seq(Byte)
    PROVE  fromBase64(toBase64(s)) = s
<1> DEFINE n == Len(s)
           cs == toBase64(s)
           G == GroupCount(s)
<1>1. n \in Nat /\ G \in Nat /\ 3 * G >= n /\ Len(cs) = 4 * G /\ Len(cs) \in Nat
  <2>1. n \in Nat
    BY SMT
  <2>2. G \in Nat /\ 3 * G >= n
    <3> HIDE DEF n
    <3>1. (n + 2) \div 3 \in Nat /\ 3 * ((n + 2) \div 3) >= n
      BY <2>1, SMT
    <3> QED
      BY <3>1 DEF GroupCount, n
  <2> DEFINE CharAt(i) == LET g == (i - 1) \div 4
                            j == (i - 1) % 4
                        IN  IF j <= n - 3 * g THEN GroupDigits(s, g)[j + 1] ELSE PC
  <2>3. cs = [i \in 1..4 * G |-> CharAt(i)]
    BY DEF toBase64, GroupCount
  <2>4. 4 * G \in Nat
    BY <2>2, SMT
  <2>5. Len(cs) = 4 * G
    <3> HIDE DEF G, cs, CharAt
    <3> QED
      BY <2>3, <2>4, SMT
  <2> QED
    BY <2>1, <2>2, <2>4, <2>5
<1>2. PICK f : /\ \A k \in 0..Len(cs) : \A p \in 1..Len(cs) + 1 - k : f[k][p] = Decoded(cs, f, k, p)
               /\ fromBase64(cs) = f[Len(cs)][1]
  <2> HIDE DEF cs
  <2> QED
    BY <1>1, DecodingTable
<1> DEFINE S == {d \in Nat : d <= G =>
                   f[4 * d][4 * (G - d) + 1] = SubSeq(s, 3 * (G - d) + 1, n)}
<1>3. 0 \in S
  <2>1. 4 * 0 = 0 /\ G - 0 = G /\ 0 \in 0..Len(cs) /\ 4 * G + 1 \in 1..Len(cs) + 1 - 0
    BY <1>1, SMT
  <2>2. f[0][4 * G + 1] = Decoded(cs, f, 0, 4 * G + 1)
    BY <1>2, <2>1
  <2>3. Decoded(cs, f, 0, 4 * G + 1) = <<>>
    BY DEF Decoded
  <2>4. SubSeq(s, 3 * G + 1, n) = <<>>
    BY <1>1, SMT
  <2> QED
    BY <2>1, <2>2, <2>3, <2>4
<1>4. ASSUME NEW d \in Nat, d \in S PROVE d + 1 \in S
  <2>1. CASE d + 1 <= G
    <3> DEFINE g == G - (d + 1)
               p == 4 * g + 1
               k == 4 * (d + 1)
    <3>1. g \in 0..G - 1 /\ g \in Nat /\ p \in Nat /\ k \in Nat /\ k # 0 /\ d <= G /\ g + 1 = G - d
          /\ k \in 0..Len(cs) /\ p \in 1..Len(cs) + 1 - k /\ k - (p - p) = k /\ k - 4 = 4 * d
          /\ p + 4 = 4 * (G - d) + 1 /\ d + 1 \in Nat /\ ~(4 < 2) /\ 4 - 1 = 3
      <4> HIDE DEF G, cs
      <4> QED
        BY <1>1, <2>1, SMT
    <3>2. Lesser(4, k) = 4
      BY <3>1, SMT DEF Lesser
    <3> HIDE DEF g, k
    <3>3. /\ Len(s) \in Nat /\ 3 * g + 1 <= Len(s)
      BY <3>1, GroupText
    <3> DEFINE gr == Group(cs, p, 4)
               t == <<ByteAt(s, 3 * g + 1), ByteAt(s, 3 * g + 2), ByteAt(s, 3 * g + 3)>>
    <3>4. gr.bytes = t /\ 3 - Cardinality(gr.lost) = Held(s, g) /\ gr.used = 4 /\ gr.last = FALSE
          /\ cs[p] \in Digit
      BY <3>1, GroupRead
    <3> HIDE DEF p, cs, t
    <3>5. skipNonB64(cs, p, k) = p
      BY <3>1, <3>4, SkipNothing
    <3>6. cs[p] # PC
      BY <3>4, DigitNotPad
    <3>7. Decoded(cs, f, k, p) = SubSeq(t, 1, Held(s, g)) \o f[4 * d][p + 4]
      BY <3>1, <3>2, <3>4, <3>5, <3>6 DEF Decoded
    <3>8. f[4 * d][p + 4] = SubSeq(s, 3 * (g + 1) + 1, n)
      BY <1>4, <3>1
    <3>9. f[k][p] = Decoded(cs, f, k, p)
      BY <1>2, <3>1
    <3>10. SubSeq(t, 1, Held(s, g)) \o SubSeq(s, 3 * (g + 1) + 1, n) = SubSeq(s, 3 * g + 1, n)
      BY <3>1, <3>3, JoinGroups DEF t
    <3>11. f[k][p] = SubSeq(s, 3 * g + 1, n)
      BY <3>7, <3>8, <3>9, <3>10
    <3> QED
      BY <3>1, <3>11 DEF p, g, k
  <2>2. CASE ~(d + 1 <= G)
    <3>1. d + 1 \in Nat
      BY SMT
    <3> QED
      BY <2>2, <3>1
  <2> QED
    BY <2>1, <2>2
<1>5. G \in S
  <2> HIDE DEF S, G
  <2> QED
    BY <1>1, <1>3, <1>4, NaturalInduction
<1>6. G <= G /\ 4 * (G - G) + 1 = 1 /\ 3 * (G - G) + 1 = 1
  BY <1>1, SMT
<1>7. f[4 * G][1] = SubSeq(s, 1, n)
  BY <1>5, <1>6
<1>8. SubSeq(s, 1, n) = s
  BY SMT
<1> QED
  BY <1>1, <1>2, <1>7, <1>8

-----------------------------------------------------------------------------
(* LIKE: the positions from which a text matches a pattern.                *)

\* The positions from which t matches p from j on, when f has those for the rest of p.
MatchRow(t, p, f, j) ==
    {i \in 1..Len(t) + 1 :
          IF j > Len(p) THEN i > Len(t)
          ELSE IF p[j] = "%" THEN \E k \in i..Len(t) + 1 : k \in f[j + 1]
          ELSE IF i > Len(t) THEN FALSE
          ELSE IF p[j] = "_" THEN i + 1 \in f[j + 1]
          ELSE IF p[j] = "\\" THEN j < Len(p) /\ p[j + 1] = t[i] /\ i + 1 \in f[j + 2]
          ELSE p[j] = t[i] /\ i + 1 \in f[j + 1]}

\* f has these positions for all of p.
MatchRows(t, p, f) ==
    /\ Len(t) \in Nat /\ Len(p) \in Nat
    /\ \A j \in 1..Len(p) + 1 : f[j] = MatchRow(t, p, f, j)

\* A row depends on the ones after it.
LEMMA RowSame ==
    ASSUME NEW t, NEW p, Len(p) \in Nat, NEW f, NEW g, NEW j \in 1..Len(p) + 1,
           \A k \in j + 1..Len(p) + 1 : f[k] = g[k]
    PROVE  MatchRow(t, p, f, j) = MatchRow(t, p, g, j)
<1>1. CASE j > Len(p)
  BY <1>1 DEF MatchRow
<1>2. CASE j <= Len(p) /\ ~(j < Len(p))
  <2>1. ~(j > Len(p)) /\ j + 1 \in j + 1..Len(p) + 1
    BY <1>2, SMT
  <2>2. f[j + 1] = g[j + 1]
    BY <2>1
  <2> QED
    BY <1>2, <2>1, <2>2 DEF MatchRow
<1>3. CASE j < Len(p)
  <2>1. ~(j > Len(p)) /\ j + 1 \in j + 1..Len(p) + 1 /\ j + 2 \in j + 1..Len(p) + 1
    BY <1>3, SMT
  <2>2. f[j + 1] = g[j + 1] /\ f[j + 2] = g[j + 2]
    BY <2>1
  <2> QED
    BY <2>1, <2>2 DEF MatchRow
<1>4. j > Len(p) \/ j < Len(p) \/ (j <= Len(p) /\ ~(j < Len(p)))
  BY SMT
<1> QED
  BY <1>1, <1>2, <1>3, <1>4

\* Every text and pattern have such rows.
LEMMA RowsExist ==
    ASSUME NEW t, NEW p, Len(p) \in Nat
    PROVE  \E f : f = [j \in 1..Len(p) + 1 |-> MatchRow(t, p, f, j)]
<1> DEFINE n == Len(p)
           From(f, d) == \A j \in 1..n + 1 : j > n - d => f[j] = MatchRow(t, p, f, j)
           S == {d \in Nat : \E f : From(f, d)}
<1>1. 0 \in S
  <2> DEFINE f == [j \in 1..n + 1 |-> MatchRow(t, p, <<>>, j)]
  <2>1. ASSUME NEW j \in 1..n + 1, j > n - 0
        PROVE  f[j] = MatchRow(t, p, f, j)
    <3>1. \A k \in j + 1..n + 1 : <<>>[k] = f[k]
      BY <2>1, SMT
    <3>2. MatchRow(t, p, <<>>, j) = MatchRow(t, p, f, j)
      <4> HIDE DEF f
      <4> QED
        BY <3>1, RowSame
    <3> QED
      BY <3>2
  <2>2. From(f, 0)
    BY <2>1
  <2> HIDE DEF f
  <2> QED
    BY <2>2, SMT
<1>2. ASSUME NEW d \in Nat, d \in S
      PROVE  d + 1 \in S
  <2>1. PICK f : From(f, d)
    BY <1>2
  <2> DEFINE g == [j \in 1..n + 1 |-> IF j > n - d THEN f[j] ELSE MatchRow(t, p, f, j)]
  <2>2. ASSUME NEW j \in 1..n + 1, j > n - (d + 1)
        PROVE  g[j] = MatchRow(t, p, g, j)
    <3>1. \A k \in j + 1..n + 1 : k \in 1..n + 1 /\ k > n - d
      BY <2>2, SMT
    <3>2. \A k \in j + 1..n + 1 : f[k] = g[k]
      BY <3>1
    <3>3. MatchRow(t, p, f, j) = MatchRow(t, p, g, j)
      <4> HIDE DEF g
      <4> QED
        BY <3>2, RowSame
    <3>4. g[j] = MatchRow(t, p, f, j)
      BY <2>1
    <3> QED
      BY <3>3, <3>4
  <2>3. From(g, d + 1)
    BY <2>2
  <2>4. d + 1 \in Nat
    BY SMT
  <2> HIDE DEF g
  <2> QED
    BY <2>3, <2>4
<1>3. n \in S
  <2> HIDE DEF S
  <2> QED
    BY <1>1, <1>2, NaturalInduction
<1>4. PICK f : From(f, n)
  BY <1>3
<1>5. \A j \in 1..n + 1 : f[j] = MatchRow(t, p, f, j)
  <2>1. \A j \in 1..n + 1 : j > n - n
    BY SMT
  <2> QED
    BY <1>4, <2>1
<1> DEFINE g == [j \in 1..n + 1 |-> f[j]]
<1>6. ASSUME NEW j \in 1..n + 1 PROVE MatchRow(t, p, f, j) = MatchRow(t, p, g, j)
  <2>1. \A k \in j + 1..n + 1 : k \in 1..n + 1
    BY SMT
  <2>2. \A k \in j + 1..n + 1 : f[k] = g[k]
    BY <2>1
  <2> HIDE DEF g
  <2> QED
    BY <2>2, RowSame
<1>7. g = [j \in 1..n + 1 |-> MatchRow(t, p, g, j)]
  BY <1>5, <1>6
<1> HIDE DEF g
<1> QED
  BY <1>7

\* What Matches says, in terms of them.
LEMMA MatchesRows ==
    ASSUME NEW t, NEW p, Len(t) \in Nat, Len(p) \in Nat
    PROVE  \E f : MatchRows(t, p, f) /\ (Matches(t, p) <=> 1 \in f[1])
<1> DEFINE Body(f) == [j \in 1..Len(p) + 1 |-> MatchRow(t, p, f, j)]
<1>1. PICK g : g = Body(g)
  BY RowsExist
<1>2. PICK f : f = (CHOOSE h : h = Body(h)) /\ f = Body(f)
  <2> HIDE DEF Body
  <2> QED
    BY <1>1
<1>3. Matches(t, p) <=> 1 \in (CHOOSE h : h = Body(h))[1]
  BY DEF Matches, MatchRow
<1>4. MatchRows(t, p, f)
  BY <1>2 DEF MatchRows
<1> QED
  BY <1>2, <1>3, <1>4

\* The "_" among the wildcards from q to before k.
Ones(p, q, k) == {x \in q..k - 1 : p[x] = "_"}

\* There are none before the first.
LEMMA OnesNone == ASSUME NEW p, NEW k \in Nat PROVE Cardinality(Ones(p, k, k)) = 0
<1>1. \A x : x \notin k..k - 1
  BY SMT
<1>2. Ones(p, k, k) = {}
  BY <1>1 DEF Ones
<1> QED
  BY <1>2, FS_EmptySet

\* They can be counted.
LEMMA OnesNatural ==
    ASSUME NEW p, NEW q \in Nat, NEW k \in Nat
    PROVE  IsFiniteSet(Ones(p, q, k)) /\ Cardinality(Ones(p, q, k)) \in Nat
<1>1. q \in Int /\ k - 1 \in Int
  BY SMT
<1>2. IsFiniteSet(q..k - 1)
  BY <1>1, FS_Interval
<1>3. Ones(p, q, k) \in SUBSET (q..k - 1)
  BY DEF Ones
<1> QED
  BY <1>2, <1>3, FS_Subset, FS_CardinalityType

\* One wildcard more.
LEMMA OnesNext ==
    ASSUME NEW p, NEW q \in Nat, NEW k \in Nat, q < k
    PROVE  Cardinality(Ones(p, q, k)) =
             IF p[q] = "_" THEN Cardinality(Ones(p, q + 1, k)) + 1
             ELSE Cardinality(Ones(p, q + 1, k))
<1>1. q + 1 \in Nat /\ q \in q..k - 1 /\ q \notin q + 1..k - 1
      /\ \A x : x \in q..k - 1 <=> x = q \/ x \in q + 1..k - 1
  BY SMT
<1>2. CASE p[q] = "_"
  <2>1. Ones(p, q, k) = Ones(p, q + 1, k) \cup {q} /\ q \notin Ones(p, q + 1, k)
    BY <1>1, <1>2 DEF Ones
  <2> QED
    BY <1>1, <1>2, <2>1, OnesNatural, FS_AddElement
<1>3. CASE p[q] # "_"
  <2>1. Ones(p, q, k) = Ones(p, q + 1, k)
    BY <1>1, <1>3 DEF Ones
  <2> QED
    BY <1>3, <2>1
<1> QED
  BY <1>2, <1>3

\* The wildcards.
Wild == {"%", "_"}

\* The wildcards from a "%" on end before a position k.
LEMMA WildcardsRun ==
    ASSUME NEW p, Len(p) \in Nat, NEW j \in 1..Len(p), p[j] = "%"
    PROVE  \E k \in j + 1..Len(p) + 1 :
             /\ Wildcards(p, j) = j..k - 1
             /\ j + Cardinality(Wildcards(p, j)) = k
             /\ \A x \in j..k - 1 : p[x] \in Wild
             /\ k <= Len(p) => p[k] \notin Wild
<1> DEFINE n == Len(p)
           T == {x \in Nat : x \in j..n + 1 /\ (x = n + 1 \/ p[x] \notin Wild)}
<1>1. n + 1 \in T /\ T \in SUBSET Nat
  BY SMT
<1>2. PICK k \in T : \A x \in T : k <= x
  <2> HIDE DEF T
  <2> QED
    BY <1>1, LeastNatural
<1>3. k # j
  <2>1. j # n + 1
    BY SMT
  <2> QED
    BY <2>1 DEF Wild
<1>4. k \in j + 1..n + 1 /\ k \in Nat
  BY <1>3, SMT
<1>5. ASSUME NEW x \in j..k - 1 PROVE p[x] \in Wild
  BY <1>2, <1>4, SMT
<1>6. k <= n => p[k] \notin Wild
  BY SMT
<1>7. Wildcards(p, j) = j..k - 1
  <2>1. ASSUME NEW x \in Wildcards(p, j) PROVE x \in j..k - 1
    <3>1. x \in j..n /\ \A y \in j..x : p[y] \in Wild
      BY <2>1 DEF Wildcards, Wild
    <3>2. CASE k <= x
      <4>1. k \in j..x /\ k <= n
        BY <1>4, <3>1, <3>2, SMT
      <4> QED
        BY <1>6, <3>1, <4>1
    <3>3. CASE ~(k <= x)
      BY <1>4, <3>1, <3>3, SMT
    <3> QED
      BY <3>2, <3>3
  <2>2. ASSUME NEW x \in j..k - 1 PROVE x \in Wildcards(p, j)
    <3>1. x \in j..n /\ \A y \in j..x : y \in j..k - 1
      BY <1>4, SMT
    <3> QED
      BY <1>5, <3>1 DEF Wildcards, Wild
  <2> QED
    BY <2>1, <2>2
<1>8. j + Cardinality(j..k - 1) = k
  <2>1. j \in Int /\ k - 1 \in Int /\ ~(j > k - 1) /\ j + (((k - 1) - j) + 1) = k
    BY <1>4, SMT
  <2> QED
    BY <2>1, FS_Interval
<1> QED
  BY <1>4, <1>5, <1>6, <1>7, <1>8

\* The characters of the pattern from a to before k are wildcards.
WildRun(p, a, k) ==
    /\ a \in Nat /\ k \in Nat /\ 1 <= a /\ a <= k /\ k <= Len(p) + 1
    /\ \A x \in a..k - 1 : p[x] \in Wild

\* Some position of the text from i on is in row q.
Reaches(t, f, q, i) == \E s \in i..Len(t) + 1 : s \in f[q]

\* A text matches wildcards, once any number of its characters are passed over, where the
\* rest of the pattern matches it at least as many characters on as there are "_".
LEMMA RunRows ==
    ASSUME NEW t, NEW p, NEW f, MatchRows(t, p, f),
           NEW a, NEW k, WildRun(p, a, k), NEW i \in Nat, 1 <= i
    PROVE  Reaches(t, f, a, i) <=> Reaches(t, f, k, i + Cardinality(Ones(p, a, k)))
<1> Len(t) \in Nat /\ Len(p) \in Nat
  BY DEF MatchRows
<1> /\ a \in Nat /\ k \in Nat /\ 1 <= a /\ a <= k /\ k <= Len(p) + 1
    /\ \A x \in a..k - 1 : p[x] \in Wild
  BY DEF WildRun
<1> DEFINE m == Len(t)
           C(q) == \A c \in Nat : 1 <= c =>
                     ((\E s \in c..m + 1 : s \in f[q])
                        <=> (\E s \in c + Cardinality(Ones(p, q, k))..m + 1 : s \in f[k]))
           S == {d \in Nat : k - d >= a => C(k - d)}
<1>1. C(k)
  <2>1. \A c \in Nat : c + 0 = c
    BY SMT
  <2> QED
    BY <2>1, OnesNone
<1>2. 0 \in S
  <2>1. k - 0 = k
    BY SMT
  <2>2. C(k - 0)
    BY <1>1, <2>1
  <2> HIDE DEF C
  <2> QED
    BY <2>2, SMT
<1>3. ASSUME NEW q \in Nat, a <= q, q < k, C(q + 1)
      PROVE  C(q)
  <2>1. q + 1 \in Nat /\ q \in 1..Len(p) + 1 /\ ~(q > Len(p)) /\ q \in a..k - 1
    BY <1>3, SMT
  <2>2. f[q] = MatchRow(t, p, f, q) /\ p[q] \in Wild
    BY <2>1 DEF MatchRows
  <2> DEFINE u == Cardinality(Ones(p, q + 1, k))
  <2>3. u \in Nat
    BY <2>1, OnesNatural
  <2> SUFFICES ASSUME NEW c \in Nat, 1 <= c
               PROVE  (\E s \in c..m + 1 : s \in f[q])
                        <=> (\E s \in c + Cardinality(Ones(p, q, k))..m + 1 : s \in f[k])
    OBVIOUS
  <2>4. CASE p[q] = "%"
    <3>1. Cardinality(Ones(p, q, k)) = u
      BY <1>3, <2>4, OnesNext
    <3>2. \A s : s \in f[q] <=> s \in 1..m + 1 /\ \E r \in s..m + 1 : r \in f[q + 1]
      BY <2>1, <2>2, <2>4 DEF MatchRow
    <3>3. (\E s \in c..m + 1 : s \in f[q]) <=> (\E s \in c..m + 1 : s \in f[q + 1])
      <4>1. ASSUME NEW s \in c..m + 1, s \in f[q] PROVE \E r \in c..m + 1 : r \in f[q + 1]
        <5>1. PICK r \in s..m + 1 : r \in f[q + 1]
          BY <3>2, <4>1
        <5>2. r \in c..m + 1
          BY SMT
        <5> QED
          BY <5>1, <5>2
      <4>2. ASSUME NEW s \in c..m + 1, s \in f[q + 1] PROVE s \in f[q]
        <5>1. s \in 1..m + 1 /\ s \in s..m + 1
          BY SMT
        <5> QED
          BY <3>2, <4>2, <5>1
      <4> QED
        BY <4>1, <4>2
    <3> HIDE DEF u
    <3>4. (\E s \in c..m + 1 : s \in f[q + 1]) <=> (\E s \in c + u..m + 1 : s \in f[k])
      BY <1>3 DEF u
    <3> QED
      BY <3>1, <3>3, <3>4
  <2>5. CASE p[q] = "_"
    <3>1. Cardinality(Ones(p, q, k)) = u + 1
      BY <1>3, <2>5, OnesNext
    <3>2. \A s : s \in f[q] <=> s \in 1..m + 1 /\ ~(s > m) /\ s + 1 \in f[q + 1]
      BY <2>1, <2>2, <2>5 DEF MatchRow
    <3>3. (\E s \in c..m + 1 : s \in f[q]) <=> (\E s \in c + 1..m + 1 : s \in f[q + 1])
      <4>1. ASSUME NEW s \in c..m + 1, s \in f[q] PROVE \E r \in c + 1..m + 1 : r \in f[q + 1]
        <5>1. ~(s > m) /\ s + 1 \in f[q + 1]
          BY <3>2, <4>1
        <5>2. s + 1 \in c + 1..m + 1
          BY <5>1, SMT
        <5> QED
          BY <5>1, <5>2
      <4>2. ASSUME NEW r \in c + 1..m + 1, r \in f[q + 1] PROVE \E s \in c..m + 1 : s \in f[q]
        <5>1. r - 1 \in 1..m + 1 /\ ~(r - 1 > m) /\ (r - 1) + 1 = r /\ r - 1 \in c..m + 1
          BY SMT
        <5> QED
          BY <3>2, <4>2, <5>1
      <4> QED
        BY <4>1, <4>2
    <3>4. c + 1 \in Nat /\ 1 <= c + 1 /\ (c + 1) + u = c + (u + 1)
      BY <2>3, SMT
    <3>5. (\E s \in c + 1..m + 1 : s \in f[q + 1]) <=> (\E s \in (c + 1) + u..m + 1 : s \in f[k])
      BY <1>3, <3>4
    <3> HIDE DEF u
    <3> QED
      BY <3>1, <3>3, <3>4, <3>5
  <2> QED
    BY <2>2, <2>4, <2>5 DEF Wild
<1>4. ASSUME NEW d \in Nat, d \in S
      PROVE  d + 1 \in S
  <2>1. CASE k - (d + 1) >= a
    <3>1. k - (d + 1) \in Nat /\ a <= k - (d + 1) /\ k - (d + 1) < k /\ (k - (d + 1)) + 1 = k - d
          /\ k - d >= a /\ d + 1 \in Nat
      BY <2>1, SMT
    <3> HIDE DEF C
    <3>2. C((k - (d + 1)) + 1)
      BY <1>4, <3>1
    <3>3. C(k - (d + 1))
      BY <1>3, <3>1, <3>2
    <3> QED
      BY <3>1, <3>3
  <2>2. CASE ~(k - (d + 1) >= a)
    <3>1. d + 1 \in Nat
      BY SMT
    <3> QED
      BY <2>2, <3>1
  <2> QED
    BY <2>1, <2>2
<1>5. k - a \in Nat /\ k - (k - a) = a /\ a >= a
  BY SMT
<1>6. k - a \in S
  <2> HIDE DEF S
  <2> QED
    BY <1>2, <1>4, <1>5, NaturalInduction
<1>7. C(a)
  <2> HIDE DEF C
  <2> QED
    BY <1>5, <1>6
<1> QED
  BY <1>7 DEF Reaches

\* The end of a text matches what is only "%".
LEMMA EndRow ==
    ASSUME NEW t, NEW p, NEW f, MatchRows(t, p, f)
    PROVE  \A j \in 1..Len(p) + 1 : Len(t) + 1 \in f[j] <=> \A x \in j..Len(p) : p[x] = "%"
<1> Len(t) \in Nat /\ Len(p) \in Nat
  BY DEF MatchRows
<1> DEFINE n == Len(p)
           e == Len(t) + 1
           S == {j \in 1..n + 1 : e \in f[j] <=> \A x \in j..n : p[x] = "%"}
<1>1. e \in 1..e /\ e > Len(t) /\ n + 1 \in Nat /\ \A k \in e..e : k = e
  BY SMT
<1>2. ASSUME NEW j \in 1..n + 1, \A k \in j + 1..n + 1 : k \in S
      PROVE  j \in S
  <2>1. f[j] = MatchRow(t, p, f, j)
    BY DEF MatchRows
  <2>2. CASE j > n
    <3>1. \A x \in j..n : FALSE
      BY <2>2, SMT
    <3> QED
      BY <1>1, <2>1, <2>2, <3>1 DEF MatchRow
  <2>3. CASE ~(j > n)
    <3>1. j + 1 \in j + 1..n + 1 /\ j \in j..n /\ (\A x : x \in j..n <=> x = j \/ x \in j + 1..n)
          /\ e \in e..e
      BY <1>1, <2>3, SMT
    <3>2. e \in f[j + 1] <=> \A x \in j + 1..n : p[x] = "%"
      BY <1>2, <3>1
    <3>3. e \in f[j] <=> p[j] = "%" /\ e \in f[j + 1]
      BY <1>1, <2>1, <2>3, <3>1 DEF MatchRow
    <3> QED
      BY <3>1, <3>2, <3>3
  <2> QED
    BY <2>2, <2>3
<1>3. 1..n + 1 \subseteq S
  <2> HIDE DEF S, n
  <2>1. \A j \in 1..n + 1 : (\A k \in j + 1..n + 1 : k \in S) => j \in S
    BY <1>2
  <2> QED
    BY <1>1, <2>1, DownwardInduction
<1> QED
  BY <1>3

\* What MatchText computes for positions j and i when g has its results for the rest of p.
Tried(t, p, g, j, i) ==
    LET k == j + Cardinality(Wildcards(p, j))
        from == i + Cardinality({m \in Wildcards(p, j) : p[m] = "_"})
        literal == IF p[k] = "\\" THEN p[k + 1] ELSE p[k]
        found == {s \in from..Len(t) : t[s] = literal /\ g[k][s] # LIKE_FALSE}
    IN  IF from > Len(t) + 1 THEN LIKE_ABORT
        ELSE IF k > Len(p) THEN LIKE_TRUE
        ELSE IF p[k] = "\\" /\ k = Len(p) THEN LIKE_ABORT
        ELSE IF found = {} THEN LIKE_ABORT
        ELSE g[k][Min(found)]

\* What MatchText computes for positions j and i.
ResultAt(t, p, g, j, i) ==
    CASE j = Len(p) /\ p[j] = "%" -> LIKE_TRUE
      [] i > Len(t) -> IF \A k \in j..Len(p) : p[k] = "%" THEN LIKE_TRUE ELSE LIKE_ABORT
      [] i <= Len(t) /\ j > Len(p) -> LIKE_FALSE
      [] OTHER ->
         CASE p[j] = "\\" /\ j = Len(p) -> LIKE_ABORT
           [] p[j] = "\\" /\ j < Len(p) ->
                IF p[j + 1] # t[i] THEN LIKE_FALSE ELSE g[j + 2][i + 1]
           [] p[j] = "%" -> Tried(t, p, g, j, i)
           [] p[j] = "_" -> g[j + 1][i + 1]
           [] OTHER -> IF p[j] # t[i] THEN LIKE_FALSE ELSE g[j + 1][i + 1]

\* g has, for the pattern from j on, what the rows of f say.
Agreeing(t, f, g, j) == \A i \in 1..Len(t) + 1 : g[j][i] = IF i \in f[j] THEN 1 ELSE 0

\* A set of naturals has a least element.
LEMMA LeastFound ==
    ASSUME NEW T \in SUBSET Nat, T # {}
    PROVE  Min(T) \in T /\ \A m \in T : Min(T) <= m
<1>1. \E x \in T : \A y \in T : x =< y
  BY LeastNatural
<1> QED
  BY <1>1 DEF Min

\* After a "%", the first place where the rest can match decides.
LEMMA TriedRight ==
    ASSUME NEW t, NEW p, NEW f, MatchRows(t, p, f), NEW g,
           NEW j \in 1..Len(p), p[j] = "%",
           \A k \in j + 1..Len(p) + 1 : Agreeing(t, f, g, k),
           NEW i \in 1..Len(t) + 1
    PROVE  Tried(t, p, g, j, i) = IF i \in f[j] THEN 1 ELSE 0
<1> Len(t) \in Nat /\ Len(p) \in Nat
  BY DEF MatchRows
<1> DEFINE n == Len(p)
           m == Len(t)
<1>1. PICK k \in j + 1..n + 1 :
             /\ Wildcards(p, j) = j..k - 1
             /\ j + Cardinality(Wildcards(p, j)) = k
             /\ \A x \in j..k - 1 : p[x] \in Wild
             /\ k <= n => p[k] \notin Wild
  BY WildcardsRun
<1> DEFINE u == Cardinality(Ones(p, j, k))
           from == i + u
           literal == IF p[k] = "\\" THEN p[k + 1] ELSE p[k]
           found == {s \in from..m : t[s] = literal /\ g[k][s] # LIKE_FALSE}
<1>2. k \in Nat /\ j \in Nat /\ i \in Nat /\ 1 <= i /\ 1 <= j /\ j <= k /\ k <= n + 1 /\ j < k
      /\ 1 <= k /\ k \in 1..n + 1 /\ ~(j > n) /\ j \in 1..n + 1 /\ m + 1 \in Nat
  BY SMT
<1>3. u \in Nat
  BY <1>2, OnesNatural
<1>4. {x \in Wildcards(p, j) : p[x] = "_"} = Ones(p, j, k)
  BY <1>1 DEF Ones
<1>5. Tried(t, p, g, j, i) =
         IF from > m + 1 THEN 0
         ELSE IF k > n THEN 1
         ELSE IF p[k] = "\\" /\ k = n THEN 0
         ELSE IF found = {} THEN 0
         ELSE g[k][Min(found)]
  BY <1>1, <1>4 DEF Tried, LIKE_TRUE, LIKE_ABORT
<1>6. i \in f[j] <=> \E s \in i..m + 1 : s \in f[j]
  <2>1. \A s : s \in f[j] <=> s \in 1..m + 1 /\ \E r \in s..m + 1 : r \in f[j + 1]
    BY <1>2 DEF MatchRows, MatchRow
  <2>2. ASSUME NEW s \in i..m + 1, s \in f[j] PROVE i \in f[j]
    <3>1. PICK r \in s..m + 1 : r \in f[j + 1]
      BY <2>1, <2>2
    <3>2. r \in i..m + 1
      BY SMT
    <3> QED
      BY <2>1, <3>1, <3>2
  <2>3. i \in i..m + 1
    BY SMT
  <2> QED
    BY <2>2, <2>3
<1>7. i \in f[j] <=> \E s \in from..m + 1 : s \in f[k]
  <2>1. (\E s \in i..Len(t) + 1 : s \in f[j])
          <=> (\E s \in i + Cardinality(Ones(p, j, k))..Len(t) + 1 : s \in f[k])
    <3>1. WildRun(p, j, k)
      BY <1>1, <1>2 DEF WildRun
    <3>2. Reaches(t, f, j, i) <=> Reaches(t, f, k, i + Cardinality(Ones(p, j, k)))
      BY <1>2, <3>1, RunRows
    <3> QED
      BY <3>2 DEF Reaches
  <2> QED
    BY <1>6, <2>1
<1>8. f[k] = MatchRow(t, p, f, k)
  BY <1>2 DEF MatchRows
<1>9. CASE from > m + 1
  <2>1. \A s \in from..m + 1 : FALSE
    BY <1>2, <1>3, <1>9, SMT
  <2> QED
    BY <1>5, <1>7, <1>9, <2>1
<1>10. CASE ~(from > m + 1) /\ k > n
  <2>1. m + 1 \in from..m + 1 /\ m + 1 \in 1..m + 1 /\ m + 1 > m
    BY <1>2, <1>3, <1>10, SMT
  <2>2. m + 1 \in f[k]
    BY <1>8, <1>10, <2>1 DEF MatchRow
  <2> QED
    BY <1>5, <1>7, <1>10, <2>1, <2>2
<1>11. CASE ~(from > m + 1) /\ ~(k > n)
  <2>0. k <= n
    BY <1>2, <1>11, SMT
  <2>1. p[k] # "%" /\ p[k] # "_"
    BY <1>1, <2>0 DEF Wild
  <2>2. \A s : s \in f[k] <=>
              /\ s \in 1..m + 1 /\ ~(s > m)
              /\ IF p[k] = "\\" THEN k < n /\ p[k + 1] = t[s] /\ s + 1 \in f[k + 2]
                 ELSE p[k] = t[s] /\ s + 1 \in f[k + 1]
    BY <1>8, <1>11, <2>1 DEF MatchRow
  <2>3. CASE p[k] = "\\" /\ k = n
    <3>1. ~(k < n)
      BY <2>3, SMT
    <3> QED
      BY <1>5, <1>7, <1>11, <2>2, <2>3, <3>1
  <2>4. CASE ~(p[k] = "\\" /\ k = n)
    <3>1. Agreeing(t, f, g, k)
      OBVIOUS
    <3>2. \A s \in from..m : s \in 1..m + 1 /\ ~(s > m) /\ s \in from..m + 1
      BY <1>2, <1>3, SMT
    <3>3. \A s \in from..m + 1 : ~(s > m) => s \in from..m
      BY <1>2, <1>3, SMT
    <3>4. \A s \in from..m : g[k][s] # 0 <=> s \in f[k]
      BY <3>1, <3>2, SMT DEF Agreeing
    <3>5. \A s \in found : s \in from..m /\ s \in f[k]
      BY <3>4 DEF LIKE_FALSE
    <3>6. \A s \in from..m : s \in f[k] => s \in found
      BY <2>2, <3>4 DEF LIKE_FALSE
    <3>7. i \in f[j] <=> found # {}
      <4> HIDE DEF found
      <4> QED
        BY <1>7, <2>2, <3>2, <3>3, <3>5, <3>6
    <3>8. CASE found = {}
      <4> HIDE DEF found
      <4> QED
        BY <1>5, <1>11, <2>4, <3>7, <3>8
    <3>9. CASE found # {}
      <4>1. from..m \in SUBSET Nat
        BY <1>2, <1>3, SMT
      <4>2. found \in SUBSET Nat
        BY <4>1
      <4> HIDE DEF found
      <4>3. Min(found) \in found
        BY <3>9, <4>2, LeastFound
      <4>4. g[k][Min(found)] = 1
        BY <3>1, <3>2, <3>5, <4>3 DEF Agreeing
      <4> QED
        BY <1>5, <1>11, <2>4, <3>7, <3>9, <4>4
    <3> QED
      BY <3>8, <3>9
  <2> QED
    BY <2>3, <2>4
<1> QED
  BY <1>9, <1>10, <1>11

\* What MatchText computes for a position is whether the text matches from there, when
\* this is so for the rest of the pattern.
LEMMA ResultAtRight ==
    ASSUME NEW t, NEW p, NEW f, MatchRows(t, p, f), NEW g,
           NEW j \in 1..Len(p) + 1,
           \A k \in j + 1..Len(p) + 1 : Agreeing(t, f, g, k),
           NEW i \in 1..Len(t) + 1
    PROVE  ResultAt(t, p, g, j, i) = IF i \in f[j] THEN 1 ELSE 0
<1> Len(t) \in Nat /\ Len(p) \in Nat
  BY DEF MatchRows
<1> DEFINE n == Len(p)
           m == Len(t)
<1>1. f[j] = MatchRow(t, p, f, j)
  BY DEF MatchRows
<1>2. CASE i > m
  <2>1. i = m + 1
    BY <1>2, SMT
  <2>2. i \in f[j] <=> \A x \in j..n : p[x] = "%"
    <3>1. Len(t) + 1 \in f[j] <=> \A x \in j..Len(p) : p[x] = "%"
      BY EndRow, SMT
    <3> QED
      BY <2>1, <3>1
  <2>3. (j = n /\ p[j] = "%") => \A x \in j..n : p[x] = "%"
    <3>1. j = n => \A x \in j..n : x = j
      BY SMT
    <3> QED
      BY <3>1
  <2>4. ResultAt(t, p, g, j, i) = IF \A x \in j..n : p[x] = "%" THEN 1 ELSE 0
    <3>1. CASE j = n /\ p[j] = "%"
      BY <1>2, <2>3, <3>1, SMT DEF ResultAt, LIKE_TRUE, LIKE_ABORT
    <3>2. CASE ~(j = n /\ p[j] = "%")
      <4>1. ResultAt(t, p, g, j, i) = IF \A k \in j..Len(p) : p[k] = "%"
              THEN LIKE_TRUE ELSE LIKE_ABORT
        <5>1. ~(i <= m)
          BY <1>2, SMT
        <5> QED
          BY <1>2, <3>2, <5>1 DEF ResultAt
      <4> QED
        BY <4>1 DEF LIKE_TRUE, LIKE_ABORT
    <3> QED
      BY <3>1, <3>2
  <2> QED
    BY <2>2, <2>4
<1>3. CASE ~(i > m) /\ j > n
  <2>1. i <= m /\ j # n
    BY <1>3, SMT
  <2>2. ResultAt(t, p, g, j, i) = 0
    BY <1>3, <2>1 DEF ResultAt, LIKE_FALSE
  <2>3. i \notin f[j]
    BY <1>1, <1>3 DEF MatchRow
  <2> QED
    BY <2>2, <2>3
<1>4. CASE ~(i > m) /\ ~(j > n)
  <2>1. j \in 1..n /\ j + 1 \in j + 1..n + 1 /\ i + 1 \in 1..m + 1
          /\ (j < n => j + 2 \in j + 1..n + 1)
        /\ (j = n <=> ~(j < n))
    BY <1>4, SMT
  <2>2. i \in f[j] <=>
          IF p[j] = "%" THEN \E k \in i..m + 1 : k \in f[j + 1]
          ELSE IF p[j] = "_" THEN i + 1 \in f[j + 1]
          ELSE IF p[j] = "\\" THEN j < n /\ p[j + 1] = t[i] /\ i + 1 \in f[j + 2]
          ELSE p[j] = t[i] /\ i + 1 \in f[j + 1]
    BY <1>1, <1>4 DEF MatchRow
  <2>3. g[j + 1][i + 1] = IF i + 1 \in f[j + 1] THEN 1 ELSE 0
    BY <2>1 DEF Agreeing
  <2>4. j < n => g[j + 2][i + 1] = IF i + 1 \in f[j + 2] THEN 1 ELSE 0
    BY <2>1 DEF Agreeing
  <2>5. CASE p[j] = "%" /\ j = n
    <3>1. ResultAt(t, p, g, j, i) = 1
      BY <1>4, <2>5 DEF ResultAt, LIKE_TRUE
    <3>2. \A x \in j + 1..n : p[x] = "%"
      BY <2>5, SMT
    <3>3. j + 1 \in 1..n + 1 /\ m + 1 \in i..m + 1
      BY <2>5, SMT
    <3>4. m + 1 \in f[j + 1]
      BY <3>2, <3>3, EndRow
    <3> QED
      BY <2>2, <2>5, <3>1, <3>3, <3>4
  <2>6. CASE p[j] = "%" /\ j # n
    <3>1. ResultAt(t, p, g, j, i) = Tried(t, p, g, j, i)
      BY <1>4, <2>6 DEF ResultAt
    <3>2. Tried(t, p, g, j, i) = IF i \in f[j] THEN 1 ELSE 0
      BY <2>1, <2>6, TriedRight, SMT
    <3> QED
      BY <3>1, <3>2
  <2>7. CASE p[j] = "_"
    <3>1. ResultAt(t, p, g, j, i) = g[j + 1][i + 1]
      BY <1>4, <2>7 DEF ResultAt
    <3> QED
      BY <2>2, <2>3, <2>7, <3>1
  <2>8. CASE p[j] = "\\"
    <3>1. ResultAt(t, p, g, j, i) =
            IF j = n THEN 0 ELSE IF p[j + 1] # t[i] THEN 0 ELSE g[j + 2][i + 1]
      BY <1>4, <2>1, <2>8 DEF ResultAt, LIKE_FALSE, LIKE_ABORT
    <3> QED
      BY <2>1, <2>2, <2>4, <2>8, <3>1
  <2>9. CASE p[j] # "%" /\ p[j] # "_" /\ p[j] # "\\"
    <3>1. ResultAt(t, p, g, j, i) = IF p[j] # t[i] THEN 0 ELSE g[j + 1][i + 1]
      BY <1>4, <2>9 DEF ResultAt, LIKE_FALSE
    <3> QED
      BY <2>2, <2>3, <2>9, <3>1
  <2> QED
    BY <2>5, <2>6, <2>7, <2>8, <2>9
<1> QED
  BY <1>2, <1>3, <1>4

\* MatchText finds whether a text matches a pattern.
LEMMA MatchTextRight ==
    ASSUME NEW t, NEW p, Len(t) \in Nat, Len(p) \in Nat
    PROVE  MatchText(t, p) = IF Matches(t, p) THEN 1 ELSE 0
<1> DEFINE n == Len(p)
           m == Len(t)
           Body(g) == [j \in 1..n + 1 |-> [i \in 1..m + 1 |-> ResultAt(t, p, g, j, i)]]
<1>1. PICK f : MatchRows(t, p, f) /\ (Matches(t, p) <=> 1 \in f[1])
  BY MatchesRows
<1> DEFINE h == [j \in 1..n + 1 |-> [i \in 1..m + 1 |-> IF i \in f[j] THEN 1 ELSE 0]]
<1>2. h = Body(h)
  <2>1. \A j \in 1..n + 1 : Agreeing(t, f, h, j)
    BY DEF Agreeing
  <2>2. ASSUME NEW j \in 1..n + 1 PROVE \A k \in j + 1..n + 1 : k \in 1..n + 1
    BY SMT
  <2>3. ASSUME NEW j \in 1..n + 1, NEW i \in 1..m + 1
        PROVE  ResultAt(t, p, h, j, i) = IF i \in f[j] THEN 1 ELSE 0
    <3> HIDE DEF h
    <3>1. \A k \in j + 1..n + 1 : Agreeing(t, f, h, k)
      BY <2>1, <2>2
    <3> QED
      BY <1>1, <3>1, ResultAtRight, SMT
  <2> QED
    BY <2>3
<1>3. PICK M : M = (CHOOSE g : g = Body(g)) /\ M = Body(M)
  <2> HIDE DEF Body, h
  <2> QED
    BY <1>2
<1>4. MatchText(t, p) = (CHOOSE g : g = Body(g))[1][1]
  BY DEF MatchText, ResultAt, Tried
<1> DEFINE S == {j \in 1..n + 1 : Agreeing(t, f, M, j)}
<1>5. ASSUME NEW j \in 1..n + 1, \A k \in j + 1..n + 1 : k \in S
      PROVE  j \in S
  <2>1. \A k \in j + 1..n + 1 : Agreeing(t, f, M, k)
    BY <1>5
  <2>2. ASSUME NEW i \in 1..m + 1
        PROVE  M[j][i] = ResultAt(t, p, M, j, i)
    <3>1. Body(M)[j][i] = ResultAt(t, p, M, j, i)
      OBVIOUS
    <3> HIDE DEF Body
    <3> QED
      BY <1>3, <3>1
  <2>3. ASSUME NEW i \in 1..m + 1
        PROVE  ResultAt(t, p, M, j, i) = IF i \in f[j] THEN 1 ELSE 0
    BY <1>1, <2>1, ResultAtRight, SMT
  <2>4. Agreeing(t, f, M, j)
    <3>1. ASSUME NEW i \in 1..m + 1 PROVE M[j][i] = IF i \in f[j] THEN 1 ELSE 0
      <4>1. M[j][i] = ResultAt(t, p, M, j, i)
        BY <2>2
      <4>2. ResultAt(t, p, M, j, i) = IF i \in f[j] THEN 1 ELSE 0
        BY <2>3
      <4> QED
        BY <4>1, <4>2
    <3> QED
      BY <3>1 DEF Agreeing
  <2> QED
    BY <2>4
<1>6. n + 1 \in Nat /\ 1 \in 1..n + 1 /\ 1 \in 1..m + 1
  BY SMT
<1>7. 1..n + 1 \subseteq S
  <2> HIDE DEF S, n, m
  <2>1. \A j \in 1..n + 1 : (\A k \in j + 1..n + 1 : k \in S) => j \in S
    BY <1>5
  <2> QED
    BY <1>6, <2>1, DownwardInduction
<1>8. M[1][1] = IF 1 \in f[1] THEN 1 ELSE 0
  BY <1>6, <1>7 DEF Agreeing
<1> QED
  BY <1>1, <1>3, <1>4, <1>8

-----------------------------------------------------------------------------
(* The functions on texts, timestamps and ranges, and the conversions.     *)

\* The functions on texts and timestamps, and those that read or cast a number.
PlainNames == {"like", "notlike", "concat", "substring", "year"}
\* The functions that make numbers of texts or of other numbers.
NumberNames == {"float in", "int in", "int4 to float", "int8 to float", "int4 to int",
  "int8 to int"}

\* A step of PlainCall is a call of one of the first, or compares two ranges.
LEMMA PlainCallKind ==
    ASSUME PlainCall
    PROVE  call'.op \in PlainNames \/ \E a, b \in Ranges : prefix_overlap(a, b)
<1>1. ASSUME NEW t \in PlainTexts, NEW p \in Patterns, enc_text_like(t, p)
      PROVE  call'.op \in PlainNames
  <2>1. call'.op = "like"
    BY <1>1 DEF enc_text_like, Answered
  <2> QED
    BY <2>1 DEF PlainNames
<1>2. ASSUME NEW t \in PlainTexts, NEW p \in Patterns, enc_text_notlike(t, p)
      PROVE  call'.op \in PlainNames
  <2>1. call'.op = "notlike"
    BY <1>2 DEF enc_text_notlike, Answered
  <2> QED
    BY <2>1 DEF PlainNames
<1>3. ASSUME NEW l \in PlainTexts, NEW r \in PlainTexts, enc_text_concatenate(l, r)
      PROVE  call'.op \in PlainNames
  <2>1. call'.op = "concat"
    BY <1>3 DEF enc_text_concatenate, Answered
  <2> QED
    BY <2>1 DEF PlainNames
<1>4. ASSUME NEW s \in PlainTexts, NEW start \in 0..Len(s), NEW length \in 0..Len(s),
               substring(s, start, length)
      PROVE  call'.op \in PlainNames
  <2>1. call'.op = "substring"
    BY <1>4 DEF substring, Answered
  <2> QED
    BY <2>1 DEF PlainNames
<1>5. ASSUME NEW t \in Timestamps, date_part(t)
      PROVE  call'.op \in PlainNames
  <2>1. call'.op = "year"
    BY <1>5 DEF date_part, Answered
  <2> QED
    BY <2>1 DEF PlainNames
<1> QED
  BY <1>1, <1>2, <1>3, <1>4, <1>5 DEF PlainCall

\* A step of ConversionCall is a call of one of the second, or prints and reads a
\* ciphertext.
LEMMA ConversionCallKind ==
    ASSUME ConversionCall
    PROVE  \/ call'.op \in NumberNames
           \/ \E c \in Ciphers : fixed_out_in(c)
           \/ \E str \in Strs, after \in Byte : text_out_in(str, after)
<1>1. ASSUME NEW s \in Inputs, enc_float4_in(s)
      PROVE  call'.op \in NumberNames
  <2>1. PICK v : Answered([op |-> "float in", s |-> s], v)
    BY <1>1 DEF enc_float4_in
  <2>2. call'.op = "float in"
    BY <2>1 DEF Answered
  <2> QED
    BY <2>2 DEF NumberNames
<1>2. ASSUME NEW s \in Inputs, enc_int4_in(s)
      PROVE  call'.op \in NumberNames
  <2>1. call'.op = "int in"
    BY <1>2 DEF enc_int4_in, Answered
  <2> QED
    BY <2>1 DEF NumberNames
<1>3. ASSUME NEW n \in Ints(IntBits), int4_to_enc_float4(n)
      PROVE  call'.op \in NumberNames
  <2>1. call'.op = "int4 to float"
    BY <1>3 DEF int4_to_enc_float4, Answered
  <2> QED
    BY <2>1 DEF NumberNames
<1>4. ASSUME NEW n \in Ints(LongBits), int8_to_enc_float4(n)
      PROVE  call'.op \in NumberNames
  <2>1. call'.op = "int8 to float"
    BY <1>4 DEF int8_to_enc_float4, Answered
  <2> QED
    BY <2>1 DEF NumberNames
<1>5. ASSUME NEW n \in Ints(IntBits), int4_to_enc_int4(n)
      PROVE  call'.op \in NumberNames
  <2>1. call'.op = "int4 to int"
    BY <1>5 DEF int4_to_enc_int4, Answered
  <2> QED
    BY <2>1 DEF NumberNames
<1>6. ASSUME NEW n \in Ints(LongBits), int8_to_enc_int4(n)
      PROVE  call'.op \in NumberNames
  <2>1. call'.op = "int8 to int"
    BY <1>6 DEF int8_to_enc_int4, Answered
  <2> QED
    BY <2>1 DEF NumberNames
<1> QED
  BY <1>1, <1>2, <1>3, <1>4, <1>5, <1>6 DEF ConversionCall

\* The kinds of the others.
LEMMA OtherKinds ==
    /\ \A a, b : prefix_overlap(a, b) => call'.op = "overlap"
    /\ \A c : fixed_out_in(c) => call'.op = "fixed out in"
    /\ \A str, after : text_out_in(str, after) => call'.op = "text out in"
<1>1. ASSUME NEW a, NEW b, prefix_overlap(a, b) PROVE call'.op = "overlap"
  BY <1>1 DEF prefix_overlap, Answered
<1>2. ASSUME NEW c, fixed_out_in(c) PROVE call'.op = "fixed out in"
  BY <1>2 DEF fixed_out_in, Answered
<1>3. ASSUME NEW str, NEW after, text_out_in(str, after) PROVE call'.op = "text out in"
  BY <1>3 DEF text_out_in, Answered
<1> QED
  BY <1>1, <1>2, <1>3

\* What a call that has not been made answers is right.
LEMMA PlainInit == FunctionInit => PlainRight
<1> SUFFICES ASSUME FunctionInit PROVE PlainRight
  OBVIOUS
<1>1. call.op = "none"
  BY DEF FunctionInit, NoCall
<1> QED
  BY <1>1 DEF PlainRight, LikeMatches, TextsCompose, YearAnswered

\* A call whose answer is none of these.
LEMMA OtherCall ==
    ASSUME call'.op \notin {"like", "notlike", "concat", "substring", "year"}
    PROVE  PlainRight'
  BY DEF PlainRight, LikeMatches, TextsCompose, YearAnswered

\* LIKE and NOT LIKE answer right (enc_text_like, enc_text_notlike).
LEMMA LikeRight ==
    ASSUME NEW t \in PlainTexts, NEW p \in Patterns, enc_text_like(t, p) \/ enc_text_notlike(t, p)
    PROVE  PlainRight'
<1>1. t \in Seq(STRING) /\ p \in Seq(STRING)
  BY PlainAssumption
<1>2. Len(t) \in Nat /\ Len(p) \in Nat
  BY <1>1, SMT
<1>3. MatchText(t, p) = IF Matches(t, p) THEN 1 ELSE 0
  BY <1>2, MatchTextRight
<1>4. (MatchText(t, p) # 0 <=> Matches(t, p)) /\ (Toggle(MatchText(t, p)) # 0 <=> ~Matches(t, p))
  <2> HIDE DEF MatchText, Matches
  <2>1. CASE Matches(t, p)
    <3>1. MatchText(t, p) = 1
      BY <1>3, <2>1
    <3> QED
      BY <2>1, <3>1, SMT DEF Toggle
  <2>2. CASE ~Matches(t, p)
    <3>1. MatchText(t, p) = 0
      BY <1>3, <2>2
    <3> QED
      BY <2>2, <3>1, SMT DEF Toggle
  <2> QED
    BY <2>1, <2>2
<1>5. CASE enc_text_like(t, p)
  <2>1. call'.op = "like" /\ call'.t = t /\ call'.p = p /\ answer' = (MatchText(t, p) # 0)
    BY <1>5 DEF enc_text_like, Answered
  <2>2. answer' <=> Matches(t, p)
    BY <1>4, <2>1
  <2> QED
    BY <2>1, <2>2 DEF PlainRight, LikeMatches, TextsCompose, YearAnswered
<1>6. CASE enc_text_notlike(t, p)
  <2>1. call'.op = "notlike" /\ call'.t = t /\ call'.p = p
        /\ answer' = (Toggle(MatchText(t, p)) # 0)
    BY <1>6 DEF enc_text_notlike, Answered
  <2>2. answer' <=> ~Matches(t, p)
    BY <1>4, <2>1
  <2> QED
    BY <2>1, <2>2 DEF PlainRight, LikeMatches, TextsCompose, YearAnswered
<1> QED
  BY <1>5, <1>6

\* The parts of a concatenation are its substrings (enc_text_concatenate).
LEMMA ConcatRight ==
    ASSUME NEW l \in PlainTexts, NEW r \in PlainTexts, enc_text_concatenate(l, r)
    PROVE  PlainRight'
<1>1. l \in Seq(STRING) /\ r \in Seq(STRING)
  BY PlainAssumption
<1>2. call'.op = "concat" /\ call'.l = l /\ call'.r = r
      /\ answer'.text = l \o r /\ answer'.room = Len(l) + Len(r)
  BY DEF enc_text_concatenate, Answered, plain_text_concat
<1>3. Len(l \o r) = Len(l) + Len(r)
  BY <1>1, SMT
<1>4. SubText(l \o r, 1, Len(l)) = l
  <2>1. \A i \in 1..Len(l) : 1 + i - 1 = i /\ i <= Len(l \o r) /\ (l \o r)[i] = l[i]
    BY <1>1, SMT
  <2>2. l = [i \in 1..Len(l) |-> l[i]]
    BY <1>1, SMT
  <2> QED
    BY <2>1, <2>2 DEF SubText
<1>5. SubText(l \o r, Len(l) + 1, Len(r)) = r
  <2>1. \A i \in 1..Len(r) : Len(l) + 1 + i - 1 <= Len(l \o r)
          /\ (l \o r)[Len(l) + 1 + i - 1] = r[i]
    BY <1>1, SMT
  <2>2. r = [i \in 1..Len(r) |-> r[i]]
    BY <1>1, SMT
  <2> QED
    BY <2>1, <2>2 DEF SubText
<1> QED
  BY <1>2, <1>3, <1>4, <1>5 DEF PlainRight, LikeMatches, TextsCompose, YearAnswered

\* Sequences: two that have the same elements are the same.
LEMMA SameElements ==
    ASSUME NEW X, NEW s \in Seq(X), NEW t \in Seq(X), Len(s) = Len(t),
             \A k \in 1..Len(s) : s[k] = t[k]
    PROVE  s = t
  BY SMT

\* The elements of a concatenation.
LEMMA Joined ==
    ASSUME NEW X, NEW s \in Seq(X), NEW t \in Seq(X)
    PROVE  /\ s \o t \in Seq(X) /\ Len(s \o t) = Len(s) + Len(t)
           /\ \A k \in 1..Len(s) : (s \o t)[k] = s[k]
           /\ \A k \in 1..Len(t) : (s \o t)[Len(s) + k] = t[k]
           /\ Len(s) \in Nat /\ Len(t) \in Nat
  BY SMT

\* s and t have the elements of w, one after another.
MakeUp(X, w, s, t) ==
    /\ w \in Seq(X) /\ s \in Seq(X) /\ t \in Seq(X) /\ Len(s) + Len(t) <= Len(w)
    /\ (\A k \in 1..Len(s) : s[k] = w[k]) /\ \A k \in 1..Len(t) : t[k] = w[Len(s) + k]

\* w begins with the n elements of r.
Starting(X, w, r, n) == r \in Seq(X) /\ Len(r) = n /\ \A k \in 1..Len(r) : r[k] = w[k]

\* Then w begins with both.
LEMMA JoinedIs ==
    ASSUME NEW X, NEW w, NEW s, NEW t, MakeUp(X, w, s, t)
    PROVE  Starting(X, w, s \o t, Len(s) + Len(t))
<1> DEFINE r == s \o t
<1>1. /\ r \in Seq(X) /\ Len(r) = Len(s) + Len(t) /\ Len(s) \in Nat /\ Len(t) \in Nat
      /\ \A k \in 1..Len(s) : r[k] = s[k]
      /\ \A k \in 1..Len(t) : r[Len(s) + k] = t[k]
  BY Joined, SMT DEF MakeUp
<1> HIDE DEF r
<1>2. ASSUME NEW k \in 1..Len(r)
      PROVE  r[k] = w[k]
  <2>1. CASE k \in 1..Len(s)
    BY <1>1, <2>1, Zenon DEF MakeUp
  <2>2. CASE k - Len(s) \in 1..Len(t)
    <3>1. Len(s) + (k - Len(s)) = k
      BY <1>1, SMT
    <3> QED
      BY <1>1, <2>2, <3>1, Zenon DEF MakeUp
  <2> QED
    BY <1>1, <2>1, <2>2, SMT
<1> QED
  BY <1>1, <1>2, Zenon DEF r, Starting

\* The elements of a part.
LEMMA Cut ==
    ASSUME NEW X, NEW s \in Seq(X), NEW m \in 1..Len(s) + 1, NEW n \in 0..Len(s), m <= n + 1
    PROVE  /\ SubSeq(s, m, n) \in Seq(X) /\ Len(SubSeq(s, m, n)) = n + 1 - m
           /\ \A i \in 1..n + 1 - m : SubSeq(s, m, n)[i] = s[m + i - 1]
  BY SMT

\* What substring takes out of a sequence.
CutOut(X, s, start, length, part) ==
    /\ s \in Seq(X) /\ start \in Nat /\ length \in Nat /\ start >= 1 /\ start + length - 1 <= Len(s)
    /\ part = [i \in 1..length |-> s[start + i - 1]]

\* It lies between what is before and what is after it.
LEMMA PartBetween ==
    ASSUME NEW X, NEW s, NEW start, NEW length, NEW part, CutOut(X, s, start, length, part)
    PROVE  /\ SubSeq(s, 1, start - 1) \o part \o SubSeq(s, start + length, Len(s)) = s
           /\ Len(part) = length
<1> DEFINE b == SubSeq(s, 1, start - 1)
           a == SubSeq(s, start + length, Len(s))
           c == b \o part
<1>0. /\ s \in Seq(X) /\ Len(s) \in Nat /\ start \in Nat /\ length \in Nat /\ start >= 1
      /\ start + length - 1 <= Len(s)
  BY SMT DEF CutOut
<1>1. b \in Seq(X) /\ Len(b) = start - 1 /\ \A i \in 1..Len(b) : b[i] = s[i]
  BY <1>0, Cut, SMT
<1>2. a \in Seq(X) /\ Len(a) = Len(s) + 1 - (start + length)
        /\ \A i \in 1..Len(a) : a[i] = s[start + length + i - 1]
  BY <1>0, Cut, SMT
<1>3. part \in Seq(X) /\ Len(part) = length /\ \A i \in 1..Len(part) : part[i] = s[start + i - 1]
  <2>1. \A i \in 1..length : s[start + i - 1] \in X
    BY <1>0, SMT
  <2>2. part = [i \in 1..length |-> s[start + i - 1]]
    BY DEF CutOut
  <2>3. part \in Seq(X)
    BY <1>0, <2>1, <2>2, SMT
  <2> QED
    BY <1>0, <2>2, <2>3, SMT
<1> HIDE DEF a, b
<1>4. c \in Seq(X) /\ Len(c) = start - 1 + length /\ \A i \in 1..Len(c) : c[i] = s[i]
  <2>1. Len(b) + Len(part) <= Len(s) /\ \A k \in 1..Len(part) : part[k] = s[Len(b) + k]
    <3>1. \A k \in 1..Len(part) : start + k - 1 = Len(b) + k
      BY <1>0, <1>1, <1>3, SMT
    <3>2. Len(b) + Len(part) <= Len(s)
      BY <1>0, <1>1, <1>3, SMT
    <3> QED
      BY <1>3, <3>1, <3>2, Zenon
  <2>2. c \in Seq(X) /\ Len(c) = Len(b) + Len(part) /\ \A i \in 1..Len(c) : c[i] = s[i]
    <3>1. MakeUp(X, s, b, part)
      BY <1>0, <1>1, <1>3, <2>1, Zenon DEF MakeUp
    <3> HIDE DEF c
    <3>2. Starting(X, s, c, Len(b) + Len(part))
      BY <3>1, JoinedIs, Zenon DEF c
    <3> QED
      BY <3>2, Zenon DEF Starting
  <2> QED
    BY <1>1, <1>3, <2>2, Zenon
<1> HIDE DEF c
<1>5. c \o a \in Seq(X) /\ Len(c \o a) = Len(c) + Len(a)
        /\ \A i \in 1..Len(c \o a) : (c \o a)[i] = s[i]
  <2>1. Len(c) + Len(a) <= Len(s) /\ \A k \in 1..Len(a) : a[k] = s[Len(c) + k]
    <3>1. \A k \in 1..Len(a) : start + length + k - 1 = Len(c) + k
      BY <1>0, <1>2, <1>4, SMT
    <3>2. Len(c) + Len(a) <= Len(s)
      BY <1>0, <1>2, <1>4, SMT
    <3> QED
      BY <1>2, <3>1, <3>2, Zenon
  <2> QED
    <3>1. MakeUp(X, s, c, a)
      BY <1>0, <1>2, <1>4, <2>1, Zenon DEF MakeUp
    <3>2. Starting(X, s, c \o a, Len(c) + Len(a))
      BY <3>1, JoinedIs, Zenon
    <3> QED
      BY <3>2, Zenon DEF Starting
<1>6. Len(c \o a) = Len(s)
  <2>1. (start - 1 + length) + (Len(s) + 1 - (start + length)) = Len(s)
    BY <1>0, SMT
  <2> QED
    BY <1>2, <1>4, <1>5, <2>1
<1>7. c \o a = s
  <2> DEFINE w == c \o a
  <2>1. w \in Seq(X) /\ Len(w) = Len(s) /\ \A i \in 1..Len(w) : w[i] = s[i]
    BY <1>5, <1>6, Zenon
  <2> HIDE DEF w
  <2>2. w = s
    BY <1>0, <2>1, SameElements, SMT
  <2> QED
    BY <2>2 DEF w
<1> QED
  BY <1>3, <1>7, Zenon DEF c, b, a
\* A substring is the part it was cut from (substring).
LEMMA SubstringRight ==
    ASSUME NEW s \in PlainTexts, NEW start \in 0..Len(s), NEW length \in 0..Len(s),
           substring(s, start, length)
    PROVE  PlainRight'
<1>1. s \in Seq(STRING)
  BY PlainAssumption
<1>2. Len(s) \in Nat /\ start \in Nat /\ length \in Nat /\ start >= 1
        /\ start + length - 1 <= Len(s)
  BY <1>1, SMT DEF substring
<1>3. call'.op = "substring" /\ call'.s = s /\ call'.start = start /\ call'.length = length
      /\ answer'.text = SubText(s, start, length) /\ answer'.room = Len(s)
  BY DEF substring, Answered
<1>4. SubText(s, start, length) = [i \in 1..length |-> s[start + i - 1]]
  <2>1. \A i \in 1..length : start + i - 1 <= Len(s)
    BY <1>2, SMT
  <2> QED
    BY <2>1 DEF SubText
<1> DEFINE part == [i \in 1..length |-> s[start + i - 1]]
<1>5. /\ SubSeq(s, 1, start - 1) \o part \o SubSeq(s, start + length, Len(s)) = s
      /\ Len(part) = length
  <2> DEFINE p == part
  <2>1. p = [i \in 1..length |-> s[start + i - 1]]
    OBVIOUS
  <2> HIDE DEF p
  <2>2. /\ SubSeq(s, 1, start - 1) \o p \o SubSeq(s, start + length, Len(s)) = s
        /\ Len(p) = length
    <3>1. CutOut(STRING, s, start, length, p)
      BY <1>1, <1>2, <2>1 DEF CutOut
    <3> QED
      BY <3>1, PartBetween
  <2> QED
    BY <2>2 DEF p
<1>6. Len(part) <= Len(s)
  <2>1. length <= Len(s)
    BY <1>2, SMT
  <2> QED
    BY <1>5, <2>1
<1> QED
  BY <1>3, <1>4, <1>5, <1>6 DEF PlainRight, LikeMatches, TextsCompose, YearAnswered

\* Every call on texts and timestamps answers right.
LEMMA PlainCallRight ==
    ASSUME PlainCall
    PROVE  PlainRight'
<1>1. ASSUME NEW t \in PlainTexts, NEW p \in Patterns, enc_text_like(t, p) \/ enc_text_notlike(t, p)
      PROVE  PlainRight'
  BY <1>1, LikeRight
<1>2. ASSUME NEW l \in PlainTexts, NEW r \in PlainTexts, enc_text_concatenate(l, r)
      PROVE  PlainRight'
  BY <1>2, ConcatRight
<1>3. ASSUME NEW s \in PlainTexts, NEW start \in 0..Len(s), NEW length \in 0..Len(s),
             substring(s, start, length)
      PROVE  PlainRight'
  BY <1>3, SubstringRight
<1>4. ASSUME NEW t \in Timestamps, date_part(t)
      PROVE  PlainRight'
  <2>1. call'.op = "year" /\ call'.t = t
    BY <1>4 DEF date_part, Answered
  <2>2. YearRight(t)
    BY PlainAssumption, YearsRight
  <2> QED
    BY <2>1, <2>2 DEF PlainRight, LikeMatches, TextsCompose, YearAnswered
<1>5. ASSUME NEW a \in Ranges, NEW b \in Ranges, prefix_overlap(a, b)
      PROVE  PlainRight'
  <2>1. call'.op = "overlap"
    BY <1>5, OtherKinds
  <2> QED
    BY <2>1, OtherCall
<1> QED
  BY <1>1, <1>2, <1>3, <1>4, <1>5 DEF PlainCall

\* The other calls do not claim to.
LEMMA ConversionCallRight ==
    ASSUME ConversionCall
    PROVE  PlainRight'
<1>1. call'.op \in NumberNames \/ call'.op = "fixed out in" \/ call'.op = "text out in"
  BY ConversionCallKind, OtherKinds
<1> QED
  BY <1>1, OtherCall DEF NumberNames

\* What has been answered stays.
LEMMA PlainSame ==
    ASSUME PlainRight, UNCHANGED pVars
    PROVE  PlainRight'
<1>1. call' = call /\ answer' = answer
  BY DEF pVars
<1> QED
  BY <1>1 DEF PlainRight, LikeMatches, TextsCompose, YearAnswered

\* LIKE, ||, substring and date_part answer what SQL says, for all texts, patterns and
\* timestamps (plain_text_ops.c, plain_timestamp_ops.c).
THEOREM PlainAnswersRight == FunctionSpec => []PlainRight
<1>1. FunctionInit => PlainRight
  BY PlainInit
<1>2. PlainRight /\ [Function]_pVars => PlainRight'
  <2> SUFFICES ASSUME PlainRight, [Function]_pVars PROVE PlainRight'
    OBVIOUS
  <2>1. CASE Function
    BY <2>1, PlainCallRight, ConversionCallRight DEF Function
  <2>2. CASE UNCHANGED pVars
    BY <2>2, PlainSame
  <2> QED
    BY <2>1, <2>2
<1> QED
  BY <1>1, <1>2, PTL DEF FunctionSpec

\* A ciphertext of a fixed size is read back as it was printed.
LEMMA FixedRoundTrip ==
    ASSUME NEW c \in Ciphers, fixed_out_in(c)
    PROVE  ServerRoundTrip'
<1>1. c \in Seq(Byte)
  BY CiphersAssumption
<1>2. fromBase64(toBase64(c)) = c
  BY <1>1, BytesRoundTrip
<1>3. call'.op = "fixed out in" /\ call'.c = c
      /\ answer' = [k \in 1..Len(c) |-> IF k <= Len(c) THEN c[k] ELSE 0]
  BY <1>2 DEF fixed_out_in, Answered
<1>4. c = [k \in 1..Len(c) |-> c[k]] /\ \A k \in 1..Len(c) : k <= Len(c)
  BY <1>1, SMT
<1>5. answer' = c
  BY <1>3, <1>4
<1> QED
  BY <1>3, <1>5 DEF ServerRoundTrip

\* The ciphertext of a text is read back as it was printed, as far as its length says.
LEMMA TextRoundTrip ==
    ASSUME NEW str \in Strs, NEW after \in Byte, text_out_in(str, after)
    PROVE  ServerRoundTrip'
<1> DEFINE read == Append(str, after)
           size == str[1] + HeaderWords + 1
           used == str[1] + HeaderWords
           value == [k \in 1..size |-> IF k <= Len(read) THEN read[k] ELSE 0]
<1>1. str \in Seq(Byte) /\ str[1] \in Nat /\ str[1] + HeaderWords <= Len(str)
  BY CiphersAssumption
<1>2. HeaderWords = 2
  BY DEF HeaderWords
<1>3. /\ Len(str) \in Nat /\ read \in Seq(Byte) /\ Len(read) = Len(str) + 1
      /\ used \in Nat /\ size \in Nat /\ used <= Len(str) /\ used <= size /\ 1 \in 1..Len(str)
  BY <1>1, <1>2, SMT
<1>4. \A k \in 1..Len(str) : read[k] = str[k]
  BY <1>1, SMT
<1>5. fromBase64(toBase64(read)) = read
  BY <1>3, BytesRoundTrip
<1>6. read[1] = str[1]
  BY <1>3, <1>4
<1>7. call'.op = "text out in" /\ call'.str = str /\ answer' = enc_text_in(read)
  BY <1>5 DEF text_out_in, Answered
<1>8. answer' = value
  <2> HIDE DEF read
  <2> QED
    BY <1>6, <1>7 DEF enc_text_in
<1>9. Len(value) = size /\ value \in Seq(Byte)
  <2>1. \A k \in 1..size : (IF k <= Len(read) THEN read[k] ELSE 0) \in Byte
    <3> HIDE DEF read, size
    <3>1. \A k \in 1..size : k <= Len(read) => k \in 1..Len(read)
      BY <1>3, SMT
    <3>2. \A k \in 1..Len(read) : read[k] \in Byte
      BY <1>3, SMT
    <3>3. 0 \in Byte
      BY SMT DEF Byte
    <3> QED
      BY <3>1, <3>2, <3>3
  <2> HIDE DEF read
  <2> QED
    BY <1>3, <2>1, SMT
<1>10. \A k \in 1..used : value[k] = str[k]
  <2>1. \A k \in 1..used : k \in 1..size /\ k \in 1..Len(str) /\ k <= Len(read)
    BY <1>3, SMT
  <2> QED
    BY <1>4, <2>1
<1> DEFINE front == SubSeq(str, 1, used)
           first == SubSeq(value, 1, used)
<1>11. 1 \in Nat /\ 1 <= 1 /\ 1 <= used + 1 /\ used + 1 - 1 = used
         /\ \A i \in 1..used : 1 + i - 1 = i
  BY <1>3, SMT
<1>12. front \in Seq(Byte) /\ Len(front) = used /\ \A i \in 1..used : front[i] = str[i]
  <2>1. Within(str, 1, used)
    BY <1>3, <1>11 DEF Within
  <2>2. /\ front \in Seq(Byte) /\ Len(front) = used + 1 - 1
        /\ \A i \in 1..used + 1 - 1 : front[i] = str[1 + i - 1]
    <3>1. str \in Seq(Byte)
      BY <1>1
    <3> HIDE DEF used
    <3> QED
      BY <2>1, <3>1, PartOf, SMT
  <2> HIDE DEF front, used
  <2> QED
    BY <1>11, <2>2
<1>13. first \in Seq(Byte) /\ Len(first) = used /\ \A i \in 1..used : first[i] = value[i]
  <2> HIDE DEF value
  <2>1. Within(value, 1, used)
    BY <1>3, <1>9, <1>11 DEF Within
  <2>2. /\ first \in Seq(Byte) /\ Len(first) = used + 1 - 1
        /\ \A i \in 1..used + 1 - 1 : first[i] = value[1 + i - 1]
    BY <1>9, <2>1, PartOf, SMT
  <2> HIDE DEF first, used
  <2> QED
    BY <1>11, <2>2
<1> HIDE DEF value, used, front, first
<1>14. first = front
  BY <1>10, <1>12, <1>13, SameSequence
<1>15. Begins(value, front)
  BY <1>3, <1>9, <1>12, <1>14 DEF Begins, first
<1> QED
  BY <1>7, <1>8, <1>15 DEF ServerRoundTrip, front, used

\* A ciphertext that a server prints and reads back is the same, whatever its size and
\* bytes (toBase64, fromBase64, enc_text_in).
THEOREM CiphertextsRoundTrip == FunctionSpec => []ServerRoundTrip
<1>1. FunctionInit => ServerRoundTrip
  <2> SUFFICES ASSUME FunctionInit PROVE ServerRoundTrip
    OBVIOUS
  <2>1. call.op = "none"
    BY DEF FunctionInit, NoCall
  <2> QED
    BY <2>1 DEF ServerRoundTrip
<1>2. ServerRoundTrip /\ [Function]_pVars => ServerRoundTrip'
  <2> SUFFICES ASSUME ServerRoundTrip, [Function]_pVars PROVE ServerRoundTrip'
    OBVIOUS
  <2>1. ASSUME call'.op # "fixed out in", call'.op # "text out in" PROVE ServerRoundTrip'
    BY <2>1 DEF ServerRoundTrip
  <2>2. CASE PlainCall
    <3>1. call'.op \in PlainNames \/ call'.op = "overlap"
      BY <2>2, PlainCallKind, OtherKinds
    <3> QED
      BY <2>1, <3>1 DEF PlainNames
  <2>3. CASE ConversionCall
    <3>1. CASE call'.op \in NumberNames
      BY <2>1, <3>1 DEF NumberNames
    <3> QED
      BY <2>3, <3>1, ConversionCallKind, FixedRoundTrip, TextRoundTrip
  <2>4. CASE UNCHANGED pVars
    <3>1. call' = call /\ answer' = answer
      BY <2>4 DEF pVars
    <3> QED
      BY <3>1 DEF ServerRoundTrip
  <2> QED
    BY <2>2, <2>3, <2>4 DEF Function
<1> QED
  BY <1>1, <1>2, PTL DEF FunctionSpec

\* The extremes of two numbers.
LEMMA OfTwo ==
    ASSUME NEW m \in Int, NEW n \in Int
    PROVE  /\ Min({m, n}) = IF m <= n THEN m ELSE n
           /\ Max({m, n}) = IF m <= n THEN n ELSE m
<1>1. \A x \in {m, n} : (\A y \in {m, n} : x =< y) => x = IF m <= n THEN m ELSE n
  BY SMT
<1>2. \A x \in {m, n} : (\A y \in {m, n} : x >= y) => x = IF m <= n THEN n ELSE m
  BY SMT
<1>3. \E x \in {m, n} : \A y \in {m, n} : x =< y
  BY SMT
<1>4. \E x \in {m, n} : \A y \in {m, n} : x >= y
  BY SMT
<1> QED
  BY <1>1, <1>2, <1>3, <1>4 DEF Min, Max

\* A range made from a prefix keeps it, or makes it longer.
LEMMA NormalPrefix ==
    ASSUME NEW r, r.prefix \in Seq(Nat \ {0}), r.first \in Nat, r.prefix # <<>>
    PROVE  pr_normalize(r).prefix # <<>>
<1>1. Append(r.prefix, r.first) # <<>>
  <2>1. r.prefix \in Seq(Nat)
    BY SMT
  <2> QED
    BY <2>1, SMT
<1> QED
  BY <1>1 DEF pr_normalize, build_pr

\* Of two beginnings of one string, one begins the other.
LEMMA CommonPrefix ==
    ASSUME NEW w \in Seq(Nat \ {0}), NEW p \in Seq(Nat \ {0}), NEW q \in Seq(Nat \ {0}),
           Begins(w, p), Begins(w, q)
    PROVE  greater_prefix(p, q) = IF Len(p) <= Len(q) THEN Len(p) ELSE Len(q)
<1> DEFINE m == IF Len(p) <= Len(q) THEN Len(p) ELSE Len(q)
           S == {i \in 0..Min({Len(p), Len(q)}) : SubSeq(p, 1, i) = SubSeq(q, 1, i)}
<1>1. Len(p) \in Nat /\ Len(q) \in Nat /\ Len(w) \in Nat /\ m \in Nat /\ m <= Len(p) /\ m <= Len(q)
      /\ Len(p) \in Int /\ Len(q) \in Int
  BY SMT
<1>2. Min({Len(p), Len(q)}) = m
  BY <1>1, OfTwo
<1>3. SubSeq(p, 1, m) = SubSeq(q, 1, m)
  <2>1. Len(p) <= Len(w) /\ SubSeq(w, 1, Len(p)) = p /\ Len(q) <= Len(w) /\ SubSeq(w, 1, Len(q)) = q
    BY DEF Begins
  <2>2. SubSeq(SubSeq(w, 1, Len(p)), 1, m) = SubSeq(w, 1, m)
    BY <1>1, <2>1, SMT
  <2>3. SubSeq(SubSeq(w, 1, Len(q)), 1, m) = SubSeq(w, 1, m)
    BY <1>1, <2>1, SMT
  <2> QED
    BY <2>1, <2>2, <2>3
<1> HIDE DEF m
<1>4. m \in 0..m /\ \A i \in 0..m : m >= i /\ (i >= m => i = m)
  BY <1>1, SMT
<1>5. m \in S /\ \A i \in S : m >= i /\ (i >= m => i = m)
  BY <1>2, <1>3, <1>4
<1>6. greater_prefix(p, q) = CHOOSE x \in S : \A y \in S : x >= y
  BY DEF greater_prefix, Max
<1> HIDE DEF S
<1>7. greater_prefix(p, q) \in S /\ \A y \in S : greater_prefix(p, q) >= y
  BY <1>5, <1>6
<1>8. greater_prefix(p, q) = m
  BY <1>5, <1>7
<1> QED
  BY <1>8 DEF m

\* The ranges there are.
IsRange(r) ==
    /\ r.prefix \in Seq(Nat \ {0}) /\ r.first \in Nat /\ r.last \in Nat
    /\ r.first <= r.last /\ (r.first = 0 <=> r.last = 0)
    /\ r.prefix = <<>> => r.first # 0

\* The first character of a string in a range without a prefix, and of one with a prefix.
LEMMA FirstCharacter ==
    ASSUME NEW w \in Seq(Nat \ {0}), NEW r, IsRange(r), InRange(w, r)
    PROVE  /\ Len(r.prefix) \in Nat /\ (Len(r.prefix) = 0 <=> r.prefix = <<>>)
           /\ Len(r.prefix) = 0 => r.first # 0 /\ w[1] \in Nat \ {0} /\ r.first <= w[1]
                /\ w[1] <= r.last
           /\ Len(r.prefix) > 0 => w[1] = r.prefix[1]
<1> DEFINE p == r.prefix
<1>1. p \in Seq(Nat \ {0}) /\ Len(p) <= Len(w) /\ SubSeq(w, 1, Len(p)) = p
  BY DEF InRange, Begins, IsRange
<1>2. Len(p) \in Nat /\ (Len(p) = 0 <=> p = <<>>) /\ Len(w) \in Nat
  BY <1>1, SMT
<1>3. CASE Len(p) = 0
  <2>1. r.first # 0 /\ r.first \in Nat /\ r.last \in Nat
    BY <1>2, <1>3 DEF IsRange
  <2>2. Len(w) > 0 /\ w[0 + 1] \in r.first..r.last
    BY <1>3, <2>1 DEF InRange
  <2>3. 0 + 1 = 1 /\ 1 \in 1..Len(w) /\ ~(Len(p) > 0)
    BY <1>2, <1>3, <2>2, SMT
  <2>4. w[1] \in Nat \ {0}
    BY <2>3, SMT
  <2>5. w[1] \in r.first..r.last
    BY <2>2, <2>3
  <2>6. r.first <= w[1] /\ w[1] <= r.last
    BY <2>1, <2>5, SMT
  <2> QED
    BY <1>2, <2>1, <2>3, <2>4, <2>6
<1>4. CASE Len(p) # 0
  <2>1. SubSeq(w, 1, Len(p))[1] = w[1]
    BY <1>1, <1>2, <1>4, SMT
  <2> QED
    BY <1>1, <1>2, <1>4, <2>1
<1> QED
  BY <1>3, <1>4

\* Two ranges with a common string overlap (pr_inter, pr_overlaps).
LEMMA CommonFound ==
    ASSUME NEW a, NEW b, IsRange(a), IsRange(b),
           NEW w \in Seq(Nat \ {0}), InRange(w, a), InRange(w, b)
    PROVE  pr_overlaps(a, b)
<1> DEFINE alen == Len(a.prefix)
           blen == Len(b.prefix)
           gplen == greater_prefix(a.prefix, b.prefix)
           first == Max({a.first, b.first})
           last == Min({a.last, b.last})
           Whole(r) == r.prefix # <<>> \/ (r.first # 0 /\ r.last # 0)
<1>0. pr_overlaps(a, b) <=> Whole(pr_inter(a, b))
  BY DEF pr_overlaps
<1>1. /\ alen \in Nat /\ (alen = 0 <=> a.prefix = <<>>)
      /\ (alen = 0 => a.first # 0 /\ w[1] \in Nat \ {0} /\ a.first <= w[1] /\ w[1] <= a.last)
      /\ (alen > 0 => w[1] = a.prefix[1])
  BY FirstCharacter
<1>2. /\ blen \in Nat /\ (blen = 0 <=> b.prefix = <<>>)
      /\ (blen = 0 => b.first # 0 /\ w[1] \in Nat \ {0} /\ b.first <= w[1] /\ w[1] <= b.last)
      /\ (blen > 0 => w[1] = b.prefix[1])
  BY FirstCharacter
<1>3. gplen = IF alen <= blen THEN alen ELSE blen
  <2>1. Begins(w, a.prefix) /\ Begins(w, b.prefix)
    BY DEF InRange
  <2> QED
    BY <2>1, CommonPrefix DEF IsRange
<1>4. a.first \in Nat /\ a.last \in Nat /\ b.first \in Nat /\ b.last \in Nat
      /\ a.prefix \in Seq(Nat \ {0}) /\ b.prefix \in Seq(Nat \ {0})
  BY DEF IsRange
<1> HIDE DEF gplen
<1>5. CASE alen = 0 /\ blen = 0
  <2>1. /\ first = IF a.first <= b.first THEN b.first ELSE a.first
        /\ last = IF a.last <= b.last THEN a.last ELSE b.last
    <3>1. a.first \in Int /\ a.last \in Int /\ b.first \in Int /\ b.last \in Int
      BY <1>4, SMT
    <3> QED
      BY <3>1, OfTwo
  <2> HIDE DEF first, last
  <2>2. first \in Nat /\ last \in Nat /\ first # 0 /\ last # 0 /\ first <= last
    BY <1>1, <1>2, <1>4, <1>5, <2>1, SMT
  <2> DEFINE r == build_pr(<<>>, first, last)
  <2>3. pr_inter(a, b) = pr_normalize(r)
    <3>1. gplen = alen /\ ~(blen > 0) /\ ~(alen > 0)
      BY <1>3, <1>5, SMT
    <3> QED
      BY <1>5, <3>1, SMT DEF pr_inter, first, last, gplen
  <2>4. Whole(pr_normalize(r))
    <3>1. CASE first = last
      <4>1. Append(<<>>, first) # <<>>
        BY <2>2, SMT
      <4> QED
        BY <2>2, <3>1, <4>1 DEF pr_normalize, build_pr
    <3>2. CASE first # last
      <4>1. Min({first, last}) = first /\ Max({first, last}) = last
        <5>1. first \in Int /\ last \in Int
          BY <2>2, SMT
        <5> QED
          BY <2>2, <5>1, OfTwo
      <4> QED
        BY <2>2, <3>2, <4>1 DEF pr_normalize, build_pr
    <3> QED
      BY <3>1, <3>2
  <2> QED
    BY <1>0, <2>3, <2>4
<1>6. CASE ~(alen = 0 /\ blen = 0)
  <2>1. \E r \in {a, b, build_pr(a.prefix, first, Max({a.last, b.last}))} :
          pr_inter(a, b) = pr_normalize(r) /\ r.prefix # <<>>
    <3>1. CASE alen = 0 /\ blen > 0
      <4>1. gplen = alen /\ ~(alen > 0) /\ ~(0 < alen) /\ ~(blen = 0) /\ alen # blen
            /\ gplen # blen
        BY <1>1, <1>2, <1>3, <3>1, SMT
      <4>2. a.first <= b.prefix[1] /\ b.prefix[1] <= a.last
        BY <1>1, <1>2, <3>1
      <4>3. pr_inter(a, b) = pr_normalize(b)
        BY <3>1, <4>1, <4>2 DEF pr_inter, gplen
      <4> QED
        BY <1>2, <4>1, <4>3
    <3>2. CASE blen = 0 /\ alen > 0
      <4>1. gplen = blen /\ ~(blen > 0) /\ ~(0 < blen) /\ ~(alen = 0) /\ alen # blen
            /\ gplen # alen
        BY <1>1, <1>2, <1>3, <3>2, SMT
      <4>2. b.first <= a.prefix[1] /\ a.prefix[1] <= b.last
        BY <1>1, <1>2, <3>2
      <4>3. pr_inter(a, b) = pr_normalize(a)
        BY <3>2, <4>1, <4>2 DEF pr_inter, gplen
      <4> QED
        BY <1>1, <4>1, <4>3
    <3>3. CASE alen > 0 /\ alen = blen
      <4>1. gplen = alen /\ ~(alen = 0) /\ ~(blen = 0) /\ ~(alen < blen) /\ ~(blen < alen)
        BY <1>1, <1>2, <1>3, <3>3, SMT
      <4> DEFINE r == build_pr(a.prefix, first, Max({a.last, b.last}))
      <4>2. pr_inter(a, b) = pr_normalize(r)
        BY <3>3, <4>1 DEF pr_inter, gplen
      <4>3. r.prefix = a.prefix
        BY DEF build_pr
      <4> QED
        BY <1>1, <4>1, <4>2, <4>3
    <3>4. CASE 0 < alen /\ alen < blen
      <4>1. gplen = alen /\ ~(alen = 0) /\ ~(blen = 0) /\ alen # blen /\ gplen # blen
        BY <1>1, <1>2, <1>3, <3>4, SMT
      <4>2. pr_inter(a, b) = pr_normalize(b)
        BY <3>4, <4>1 DEF pr_inter, gplen
      <4> QED
        BY <1>2, <4>1, <4>2
    <3>5. CASE 0 < blen /\ blen < alen
      <4>1. gplen = blen /\ ~(alen = 0) /\ ~(blen = 0) /\ alen # blen /\ gplen # alen
        BY <1>1, <1>2, <1>3, <3>5, SMT
      <4>2. pr_inter(a, b) = pr_normalize(a)
        BY <3>5, <4>1 DEF pr_inter, gplen
      <4> QED
        BY <1>1, <4>1, <4>2
    <3>6. \/ alen = 0 /\ blen > 0
          \/ blen = 0 /\ alen > 0
          \/ alen > 0 /\ alen = blen
          \/ 0 < alen /\ alen < blen
          \/ 0 < blen /\ blen < alen
      <4>1. alen \in Nat /\ blen \in Nat
        BY <1>1, <1>2
      <4> HIDE DEF alen, blen
      <4> QED
        BY <1>6, <4>1, SMT
    <3> QED
      BY <3>1, <3>2, <3>3, <3>4, <3>5, <3>6
  <2>2. PICK r \in {a, b, build_pr(a.prefix, first, Max({a.last, b.last}))} :
          pr_inter(a, b) = pr_normalize(r) /\ r.prefix # <<>>
    BY <2>1
  <2>3. first \in Nat
    <3>1. a.first \in Int /\ b.first \in Int
      BY <1>4, SMT
    <3>2. first = IF a.first <= b.first THEN b.first ELSE a.first
      BY <3>1, OfTwo
    <3> QED
      BY <1>4, <3>2
  <2>4. r.prefix \in Seq(Nat \ {0}) /\ r.first \in Nat
    <3> HIDE DEF first
    <3> DEFINE c == build_pr(a.prefix, first, Max({a.last, b.last}))
    <3>1. c.prefix = a.prefix /\ c.first = first
      BY DEF build_pr
    <3> HIDE DEF c
    <3>2. r = a \/ r = b \/ r = c
      BY DEF c
    <3> QED
      BY <1>4, <2>3, <3>1, <3>2
  <2>5. pr_normalize(r).prefix # <<>>
    BY <2>2, <2>4, NormalPrefix
  <2> QED
    BY <1>0, <2>2, <2>5
<1> QED
  BY <1>5, <1>6

\* Ranges with a common string are found to overlap, for all ranges (pr_overlaps).
THEOREM OverlapsFound == FunctionSpec => []OverlapFound
<1>1. FunctionInit => OverlapFound
  <2> SUFFICES ASSUME FunctionInit PROVE OverlapFound
    OBVIOUS
  <2>1. call.op = "none"
    BY DEF FunctionInit, NoCall
  <2> QED
    BY <2>1 DEF OverlapFound
<1>2. OverlapFound /\ [Function]_pVars => OverlapFound'
  <2> SUFFICES ASSUME OverlapFound, [Function]_pVars PROVE OverlapFound'
    OBVIOUS
  <2>1. ASSUME call'.op # "overlap" PROVE OverlapFound'
    BY <2>1 DEF OverlapFound
  <2>2. ASSUME NEW a \in Ranges, NEW b \in Ranges, prefix_overlap(a, b)
        PROVE  OverlapFound'
    <3>1. call' = [op |-> "overlap", a |-> a, b |-> b] /\ answer' = pr_overlaps(a, b)
      BY <2>2 DEF prefix_overlap, Answered
    <3>2. IsRange(a) /\ IsRange(b)
      BY RangesAssumption DEF IsRange
    <3>3. ASSUME NEW w \in Strings(4), InRange(w, a), InRange(w, b)
          PROVE  pr_overlaps(a, b)
      <4>1. w \in Seq(Nat \ {0})
        <5>1. PICK k \in 0..4 : w \in [1..k -> 1..3]
          BY DEF Strings
        <5> QED
          BY <5>1, SMT
      <4> QED
        BY <3>2, <3>3, <4>1, CommonFound
    <3>4. call'.a = a /\ call'.b = b
      BY <3>1
    <3>5. (\E w \in Strings(4) : InRange(w, call'.a) /\ InRange(w, call'.b)) => answer'
      BY <3>1, <3>3, <3>4
    <3> QED
      BY <3>5 DEF OverlapFound
  <2>3. CASE PlainCall
    BY <2>1, <2>2, <2>3, PlainCallKind DEF PlainNames
  <2>4. CASE ConversionCall
    <3>1. call'.op \in NumberNames \/ call'.op = "fixed out in" \/ call'.op = "text out in"
      BY <2>4, ConversionCallKind, OtherKinds
    <3> QED
      BY <2>1, <3>1 DEF NumberNames
  <2>5. CASE UNCHANGED pVars
    <3>1. call' = call /\ answer' = answer
      BY <2>5 DEF pVars
    <3> QED
      BY <3>1 DEF OverlapFound
  <2> QED
    BY <2>3, <2>4, <2>5 DEF Function
<1> QED
  BY <1>1, <1>2, PTL DEF FunctionSpec

-----------------------------------------------------------------------------
(* Numbers: texts that are read, and casts.                                *)

\* White space is skipped up to the first token that is none, or to the end.
LEMMA SpaceSkipped ==
    ASSUME NEW s \in Seq(STRING), NEW k \in 1..Len(s) + 1
    PROVE  /\ SkipSpace(s, k) \in k..Len(s) + 1
           /\ \A j \in k..SkipSpace(s, k) - 1 : s[j] = "ws"
           /\ SkipSpace(s, k) <= Len(s) => s[SkipSpace(s, k)] # "ws"
<1> DEFINE T == {m \in k..Len(s) + 1 : m = Len(s) + 1 \/ s[m] # "ws"}
           m == Min(T)
<1>1. Len(s) \in Nat
  BY SMT
<1>2. T \in SUBSET Nat
  BY <1>1, SMT
<1>3. Len(s) + 1 \in T
  BY <1>1, SMT
<1>4. m \in T /\ \A j \in T : m <= j
  BY <1>2, <1>3, LeastFound
<1>5. SkipSpace(s, k) = m
  BY DEF SkipSpace
<1> HIDE DEF m
<1>6. m \in k..Len(s) + 1 /\ (m = Len(s) + 1 \/ s[m] # "ws")
  BY <1>4
<1>7. ASSUME NEW j \in k..m - 1
      PROVE  s[j] = "ws"
  <2>1. j \in k..Len(s) + 1 /\ ~(m <= j)
    BY <1>1, <1>6, SMT
  <2>2. j \notin T
    BY <1>4, <2>1
  <2> QED
    BY <2>1, <2>2
<1>8. m <= Len(s) => s[m] # "ws"
  BY <1>1, <1>6, SMT
<1> QED
  BY <1>5, <1>6, <1>7, <1>8

\* The first token of a text.
First(s) == SkipSpace(s, 1)

\* A text is one word if a token follows on white space and nothing on the token.
LEMMA LoneFirst ==
    ASSUME NEW s \in Seq(STRING), NEW word, word # "ws", Lone(s, word)
    PROVE  First(s) <= Len(s) /\ s[First(s)] = word /\ ~(SkipSpace(s, First(s) + 1) <= Len(s))
<1> DEFINE k == First(s)
<1>1. PICK m \in 1..Len(s) : s[m] = word /\ \A j \in 1..Len(s) : j # m => s[j] = "ws"
  BY DEF Lone
<1>2. /\ k \in 1..Len(s) + 1
      /\ \A j \in 1..k - 1 : s[j] = "ws"
      /\ k <= Len(s) => s[k] # "ws"
  <2>1. 1 \in 1..Len(s) + 1
    BY SMT
  <2> QED
    BY <2>1, SpaceSkipped DEF First
<1> HIDE DEF k
<1>3. k = m
  <2>1. ~(m \in 1..k - 1)
    BY <1>1, <1>2
  <2>2. k <= m /\ k \in 1..Len(s)
    BY <1>1, <1>2, <2>1, SMT
  <2>3. k <= Len(s)
    BY <2>2, SMT
  <2> QED
    BY <1>1, <1>2, <2>2, <2>3
<1>4. k <= Len(s) /\ k + 1 \in 1..Len(s) + 1
  BY <1>1, <1>3, SMT
<1> DEFINE r == SkipSpace(s, k + 1)
<1>5. r \in k + 1..Len(s) + 1 /\ (r <= Len(s) => s[r] # "ws")
  BY <1>4, SpaceSkipped
<1> HIDE DEF r
<1>6. ~(r <= Len(s))
  <2> SUFFICES ASSUME r <= Len(s) PROVE FALSE
    OBVIOUS
  <2>1. r \in 1..Len(s) /\ r # m
    BY <1>2, <1>3, <1>5, SMT
  <2> QED
    BY <1>1, <1>5, <2>1
<1> QED
  BY <1>1, <1>3, <1>4, <1>6 DEF k, r

\* And the other way round.
LEMMA FirstLone ==
    ASSUME NEW s \in Seq(STRING), First(s) <= Len(s), ~(SkipSpace(s, First(s) + 1) <= Len(s))
    PROVE  Lone(s, s[First(s)])
<1> DEFINE k == First(s)
           r == SkipSpace(s, k + 1)
<1>1. /\ k \in 1..Len(s) + 1
      /\ \A j \in 1..k - 1 : s[j] = "ws"
  <2>1. 1 \in 1..Len(s) + 1
    BY SMT
  <2> QED
    BY <2>1, SpaceSkipped DEF First
<1>2. k \in 1..Len(s) /\ k + 1 \in 1..Len(s) + 1
  BY <1>1, SMT
<1>3. r \in k + 1..Len(s) + 1 /\ \A j \in k + 1..r - 1 : s[j] = "ws"
  BY <1>2, SpaceSkipped
<1> HIDE DEF r
<1>4. ~(r <= Len(s))
  BY DEF r
<1> HIDE DEF k
<1>5. ASSUME NEW j \in 1..Len(s), j # k
      PROVE  s[j] = "ws"
  <2>1. j \in 1..k - 1 \/ j \in k + 1..r - 1
    BY <1>2, <1>3, <1>4, <1>5, SMT
  <2> QED
    BY <1>1, <1>3, <2>1
<1> QED
  BY <1>2, <1>5 DEF Lone, k
\* The words that are read as numbers.
Readable == Literals \ {"1e999", "1e-999"}

\* What strtod may return for a token.
LEMMA StrtodOf ==
    ASSUME NEW token, NEW o \in strtod(token)
    PROVE  /\ token \in {"7", "1e50"} => o.val = token /\ ~o.erange /\ o.read
           /\ token = "1e999" => o.val = "huge" /\ o.erange /\ o.read
           /\ token = "1e-999" => o.val = "zero" /\ o.erange /\ o.read
           /\ token = "1e-310" => o.val = token /\ o.read
           /\ token \in Words /\ o.read => o.val = token
           /\ token \notin Literals => ~o.erange /\ ~o.read
<1>1. CASE token \in {"7", "1e50"}
  BY <1>1, SMT DEF strtod, Words, Literals, Numerals
<1>2. CASE token = "1e999"
  BY <1>2, SMT DEF strtod, Words, Literals, Numerals
<1>3. CASE token = "1e-999"
  BY <1>3, SMT DEF strtod, Words, Literals, Numerals
<1>4. CASE token = "1e-310"
  BY <1>4, SMT DEF strtod, Words, Literals, Numerals
<1>5. CASE token \in Words
  BY <1>5, SMT DEF strtod, Words, Literals, Numerals
<1>6. CASE token \notin Literals
  BY <1>6, SMT DEF strtod, Words, Literals, Numerals
<1> QED
  BY <1>1, <1>2, <1>3, <1>4, <1>5, <1>6 DEF Literals, Numerals

\* What pg_float4_in makes of the first token and of what follows it.
Taken(token, rest, o) ==
    CASE token = "end" -> "syntax"
      [] o.read /\ ~o.erange -> IF rest = "ok" THEN ToFloat4(o.val) ELSE rest
      [] (~o.read \/ o.erange) /\ token \in Words -> IF rest = "ok" THEN token ELSE rest
      [] o.erange /\ token \notin Words ->
           IF o.val \in {"zero", "huge"} THEN "range"
           ELSE IF rest = "ok" THEN ToFloat4(o.val) ELSE rest
      [] OTHER -> "syntax"

\* A word that can be read is taken for its value, whatever strtod did with it.
LEMMA TakenReadable ==
    ASSUME NEW token \in Readable, NEW o \in strtod(token)
    PROVE  Taken(token, "ok", o) = ToFloat4(token)
<1>0. token # "end"
  BY DEF Readable, Literals, Numerals, Words
<1>1. CASE token \in {"7", "1e50"}
  <2>1. o.val = token /\ ~o.erange /\ o.read
    BY <1>1, StrtodOf
  <2> QED
    BY <1>0, <2>1, SMT DEF Taken
<1>2. CASE token = "1e-310"
  <2>1. o.val = token /\ o.read
    BY <1>2, StrtodOf
  <2>2. token \notin Words /\ o.val \notin {"zero", "huge"}
    BY <1>2, <2>1 DEF Words
  <2> QED
    BY <1>0, <2>1, <2>2, SMT DEF Taken
<1>3. CASE token \in Words
  <2>1. o.read => o.val = token
    BY <1>3, StrtodOf
  <2>2. ToFloat4(token) = token
    BY <1>3, SMT DEF ToFloat4, Words
  <2> QED
    BY <1>0, <1>3, <2>1, <2>2, SMT DEF Taken
<1> QED
  BY <1>1, <1>2, <1>3 DEF Readable, Literals, Numerals

\* Everything else is refused.
LEMMA TakenOther ==
    ASSUME NEW token, NEW rest \in {"ok", "syntax"}, NEW o \in strtod(token),
           rest = "ok" => token \notin Readable
    PROVE  Taken(token, rest, o) \in {"syntax", "range"}
<1>1. CASE rest = "syntax"
  BY <1>1, SMT DEF Taken
<1>2. CASE rest = "ok" /\ token \in {"1e999", "1e-999"}
  <2>1. o.val \in {"huge", "zero"} /\ o.erange /\ o.read
    BY <1>2, StrtodOf
  <2>2. token \notin Words
    BY <1>2 DEF Words
  <2> QED
    BY <2>1, <2>2, SMT DEF Taken
<1>3. CASE rest = "ok" /\ token \notin Literals
  <2>1. ~o.erange /\ ~o.read /\ token \notin Words
    BY <1>3, StrtodOf DEF Literals
  <2> QED
    BY <2>1, SMT DEF Taken
<1> QED
  BY <1>1, <1>2, <1>3 DEF Readable

\* A text is read as a number exactly if it is one word that can be.
LEMMA FloatRead ==
    ASSUME NEW s \in Seq(STRING), NEW v \in pg_float4_in(s)
    PROVE  /\ \A word \in Readable : Lone(s, word) => v = ToFloat4(word)
           /\ (\A word \in Readable : ~Lone(s, word)) => v \in {"syntax", "range"}
<1> DEFINE k == First(s)
           token == IF k > Len(s) THEN "end" ELSE s[k]
           rest == IF SkipSpace(s, k + 1) <= Len(s) THEN "syntax" ELSE "ok"
<1>0. k \in Int /\ Len(s) \in Int
  <2>1. Len(s) \in Nat /\ 1 \in 1..Len(s) + 1
    BY SMT
  <2>2. k \in 1..Len(s) + 1
    BY <2>1, SpaceSkipped DEF First
  <2> QED
    BY <2>1, <2>2, SMT
<1>1. PICK o \in strtod(token) : v = Taken(token, rest, o)
  BY DEF pg_float4_in, Taken, First
<1>2. ASSUME NEW word \in Readable, Lone(s, word)
      PROVE  v = ToFloat4(word)
  <2>1. word # "ws"
    BY DEF Readable, Literals, Numerals, Words
  <2>2. k <= Len(s) /\ s[k] = word /\ ~(SkipSpace(s, k + 1) <= Len(s))
    BY <1>2, <2>1, LoneFirst
  <2>3. ~(k > Len(s))
    BY <1>0, <2>2, SMT
  <2>4. token = word /\ rest = "ok"
    BY <2>2, <2>3
  <2> QED
    BY <1>1, <2>4, TakenReadable
<1>3. ASSUME \A word \in Readable : ~Lone(s, word)
      PROVE  v \in {"syntax", "range"}
  <2>1. rest \in {"ok", "syntax"}
    OBVIOUS
  <2>2. ASSUME rest = "ok"
        PROVE  token \notin Readable
    <3>1. CASE k > Len(s)
      BY <3>1 DEF Readable, Literals, Numerals, Words
    <3>2. CASE ~(k > Len(s))
      <4>1. k <= Len(s) /\ token = s[k]
        BY <1>0, <3>2, SMT
      <4>2. Lone(s, s[k])
        BY <2>2, <4>1, FirstLone
      <4> QED
        BY <1>3, <4>1, <4>2
    <3> QED
      BY <3>1, <3>2
  <2> QED
    BY <1>1, <2>1, <2>2, TakenOther
<1> QED
  BY <1>2, <1>3

\* The exponents that occur.
Exponents == 0..LongBits + Mantissa + 1

\* Powers of two are positive.
LEMMA PowerPositive ==
    ASSUME NEW a \in Exponents
    PROVE  2^a \in Nat \ {0}
<1>0. LongBits \in Nat /\ Mantissa \in Nat
  BY BitsAssumption
<1> DEFINE S == {k \in Nat : k \in Exponents => 2^k \in Nat \ {0}}
<1>1. 0 \in S
  <2>1. 2^0 = 1
    BY BitsAssumption
  <2> QED
    BY <2>1, SMT
<1>2. ASSUME NEW k \in Nat, k \in S
      PROVE  k + 1 \in S
  <2> SUFFICES ASSUME k + 1 \in Exponents PROVE 2^(k + 1) \in Nat \ {0}
    BY SMT
  <2>1. k \in 0..LongBits + Mantissa /\ k \in Exponents
    BY <1>0, SMT DEF Exponents
  <2>2. 2^k \in Nat \ {0} /\ 2^(k + 1) = 2 * 2^k
    BY <1>2, <2>1, BitsAssumption
  <2> QED
    BY <2>2, SMT
<1> HIDE DEF S
<1>3. Nat \subseteq S
  BY <1>1, <1>2, NaturalInduction
<1>4. a \in Nat
  BY <1>0, SMT DEF Exponents
<1> QED
  BY <1>3, <1>4 DEF S

\* The sum of exponents.
LEMMA PowerSum ==
    ASSUME NEW a \in Nat, NEW b \in Nat, a + b \in Exponents
    PROVE  2^(a + b) = 2^a * 2^b
<1>0. LongBits \in Nat /\ Mantissa \in Nat
  BY BitsAssumption
<1> DEFINE S == {k \in Nat : a + k \in Exponents => 2^(a + k) = 2^a * 2^k}
<1>1. 0 \in S
  <2>1. 2^0 = 1
    BY BitsAssumption
  <2>2. a + 0 = a
    BY SMT
  <2>3. ASSUME a \in Exponents PROVE 2^a = 2^a * 1
    BY <2>3, PowerPositive, SMT
  <2> QED
    BY <2>1, <2>2, <2>3, Zenon
<1>2. ASSUME NEW k \in Nat, k \in S
      PROVE  k + 1 \in S
  <2> SUFFICES ASSUME a + (k + 1) \in Exponents PROVE 2^(a + (k + 1)) = 2^a * 2^(k + 1)
    BY SMT
  <2>1. /\ k \in 0..LongBits + Mantissa /\ a + k \in 0..LongBits + Mantissa
        /\ a \in Exponents /\ k \in Exponents /\ a + k \in Exponents
        /\ a + (k + 1) = (a + k) + 1
    BY <1>0, SMT DEF Exponents
  <2>2. 2^(a + k) = 2^a * 2^k
    BY <1>2, <2>1
  <2>3. 2^(k + 1) = 2 * 2^k /\ 2^((a + k) + 1) = 2 * 2^(a + k)
    BY <2>1, BitsAssumption
  <2> DEFINE x == 2^a
             y == 2^k
  <2>4. x \in Nat /\ y \in Nat
    BY <2>1, PowerPositive
  <2> HIDE DEF x, y
  <2>5. 2 * (x * y) = x * (2 * y)
    BY <2>4, SMT
  <2> QED
    BY <2>1, <2>2, <2>3, <2>5 DEF x, y
<1> HIDE DEF S
<1>3. Nat \subseteq S
  BY <1>1, <1>2, NaturalInduction
<1> QED
  BY <1>3 DEF S

\* A larger exponent.
LEMMA PowerMonotone ==
    ASSUME NEW a \in Exponents, NEW b \in Exponents, a <= b
    PROVE  2^a <= 2^b
<1>0. LongBits \in Nat /\ Mantissa \in Nat
  BY BitsAssumption
<1>1. a \in Nat /\ b - a \in Nat /\ a + (b - a) \in Exponents /\ a + (b - a) = b
        /\ b - a \in Exponents
  BY <1>0, SMT DEF Exponents
<1>2. 2^(a + (b - a)) = 2^a * 2^(b - a)
  BY <1>1, PowerSum
<1>3. 2^b = 2^a * 2^(b - a)
  BY <1>1, <1>2
<1> DEFINE x == 2^a
           y == 2^(b - a)
<1>4. x \in Nat \ {0} /\ y \in Nat \ {0}
  BY <1>1, PowerPositive
<1> HIDE DEF x, y
<1>5. x <= x * y
  BY <1>4, SMT
<1> QED
  BY <1>3, <1>5 DEF x, y

\* The multiple of a unit that a number is rounded to is the nearest.
LEMMA RoundedNear ==
    ASSUME NEW m \in Nat, NEW u \in Nat \ {0}, NEW up \in BOOLEAN,
           up => 2 * (m % u) >= u, ~up => 2 * (m % u) <= u, NEW z \in Int
    PROVE  LET r == (IF up THEN m \div u + 1 ELSE m \div u) * u
           IN  r \in Nat /\ Magnitude(m - r) <= Magnitude(m - z * u)
<1> DEFINE q == m \div u
           e == m % u
<1>1. q \in Nat /\ e \in Nat /\ m = u * q + e /\ e < u
  BY SMT
<1> HIDE DEF q, e
<1>2. u * q = q * u /\ (q + 1) * u = q * u + u /\ q * u \in Nat /\ z * u \in Int
  BY <1>1, SMT
<1>3. z <= q \/ z >= q + 1
  BY <1>1, SMT
<1>4. z <= q => z * u <= q * u
  BY <1>1, SMT
<1>5. z >= q + 1 => z * u >= q * u + u
  BY <1>1, SMT
<1> DEFINE x == q * u
           y == z * u
<1>6. x \in Nat /\ y \in Int /\ m = x + e /\ (y <= x \/ y >= x + u)
  BY <1>1, <1>2, <1>3, <1>4, <1>5
<1> HIDE DEF x, y
<1>7. CASE up
  <2>1. Magnitude(m - (x + u)) <= Magnitude(m - y)
    BY <1>1, <1>6, <1>7, SMT DEF Magnitude, e
  <2> QED
    BY <1>2, <1>6, <1>7, <2>1, SMT DEF x, y, q
<1>8. CASE ~up
  <2>1. Magnitude(m - x) <= Magnitude(m - y)
    BY <1>1, <1>6, <1>8, SMT DEF Magnitude, e
  <2> QED
    BY <1>2, <1>6, <1>8, <2>1 DEF x, y, q
<1> QED
  BY <1>7, <1>8
\* A multiple of 2^k that is not too large for its precision.
Precise(z, k, c) == k \in 0..LongBits /\ c \in Nat /\ c < 2^Mantissa /\ z = c * 2^k

\* Such numbers are those a float4 can hold, with either sign.
LEMMA PreciseIsFloat4 ==
    ASSUME NEW y \in Int, NEW k, NEW c, Precise(Magnitude(y), k, c)
    PROVE  IsFloat4(y)
<1> DEFINE u == 2^k
           d == IF y < 0 THEN -c ELSE c
<1>1. k \in Exponents
  BY BitsAssumption, SMT DEF Precise, Exponents
<1>2. u \in Nat \ {0}
  BY <1>1, PowerPositive
<1>3. c \in Nat /\ Magnitude(y) = c * u
  BY DEF Precise
<1> HIDE DEF u
<1>4. y = u * d + 0 /\ d \in Int
  BY <1>2, <1>3, SMT DEF Magnitude
<1> HIDE DEF d
<1>5. y % u = 0
  BY <1>2, <1>4, RemainderIs, SMT
<1>6. Magnitude(y) \div u = c
  <2>1. c * u = u * c
    BY <1>2, <1>3, SMT
  <2> DEFINE z == Magnitude(y)
  <2>2. z \in Int /\ z = u * c
    BY <1>3, <2>1, SMT DEF Magnitude
  <2> HIDE DEF z
  <2>3. z \div u = c
    <3> DEFINE p == z \div u
               e == z % u
    <3>1. p \in Int /\ e \in Int /\ z = u * p + e /\ 0 <= e /\ e < u
      BY <1>2, <2>2, Remainder
    <3> HIDE DEF p, e
    <3>2. u * c = u * p + e
      BY <2>2, <3>1
    <3>3. ~(c >= p + 1) /\ ~(c <= p - 1)
      BY <1>2, <1>3, <3>1, <3>2, SMT
    <3>4. c = p
      BY <1>3, <3>1, <3>3, SMT
    <3> QED
      BY <3>4 DEF p
  <2> QED
    BY <2>3 DEF z
<1> QED
  BY <1>5, <1>6 DEF IsFloat4, Precise, u

\* And the other way round.
LEMMA Float4IsPrecise ==
    ASSUME NEW y \in Int, IsFloat4(y)
    PROVE  \E k, c : Precise(Magnitude(y), k, c)
<1>1. PICK k \in 0..LongBits : y % 2^k = 0 /\ Magnitude(y) \div 2^k < 2^Mantissa
  BY DEF IsFloat4
<1> DEFINE u == 2^k
           p == y \div u
           z == Magnitude(y)
           c == z \div u
<1>2. k \in Exponents
  BY BitsAssumption, SMT DEF Exponents
<1>3. u \in Nat \ {0}
  BY <1>2, PowerPositive
<1>4. p \in Int /\ y = u * p + (y % u)
  BY <1>3, Remainder
<1>5. y % u = 0
  BY <1>1
<1>6. y = u * p
  BY <1>3, <1>4, <1>5, SMT
<1>7. z \in Nat /\ z \in Int
  BY SMT DEF Magnitude
<1>8. c \in Int /\ z % u \in Int /\ z = u * c + (z % u) /\ 0 <= z % u /\ z % u < u
  BY <1>3, <1>7, Remainder
<1> HIDE DEF u, p, z, c
<1>9. z = u * (IF y < 0 THEN -p ELSE p)
  BY <1>3, <1>4, <1>6, SMT DEF z, Magnitude
<1> DEFINE d == IF y < 0 THEN -p ELSE p
<1>10. d \in Int
  BY <1>4, SMT
<1>11. z = u * d + 0
  BY <1>3, <1>9, <1>10, SMT
<1> HIDE DEF d
<1>12. z % u = 0
  BY <1>3, <1>7, <1>10, <1>11, RemainderIs, SMT
<1>13. c \in Nat
  BY <1>3, <1>7, <1>8, <1>12, SMT
<1>14. z = c * u
  BY <1>3, <1>8, <1>12, SMT
<1>15. Precise(z, k, c)
  BY <1>1, <1>13, <1>14 DEF Precise, u, z, c
<1> QED
  BY <1>15 DEF z

\* The exponent of the last bit that is kept.
LastBit(m) == Min({k \in 0..LongBits : m < 2^(Mantissa + k)})

\* It is as small as it can be, and less than the width of a bigint.
LEMMA LastBitLeast ==
    ASSUME NEW m \in Nat, m <= 2^(LongBits - 1)
    PROVE  /\ LastBit(m) \in 0..LongBits - 1 /\ m < 2^(Mantissa + LastBit(m))
           /\ \A k \in 0..LastBit(m) - 1 : 2^(Mantissa + k) <= m
<1> DEFINE T == {k \in 0..LongBits : m < 2^(Mantissa + k)}
<1>0. LongBits \in Nat \ {0} /\ Mantissa \in Nat \ {0}
  BY BitsAssumption
<1>1. LongBits - 1 \in T
  <2>1. /\ LongBits - 1 \in 0..LongBits + Mantissa /\ LongBits - 1 \in Exponents
             /\ LongBits \in Exponents
        /\ Mantissa + (LongBits - 1) \in Exponents /\ LongBits <= Mantissa + (LongBits - 1)
        /\ LongBits - 1 + 1 = LongBits
    BY <1>0, SMT DEF Exponents
  <2>2. 2^(LongBits - 1 + 1) = 2 * 2^(LongBits - 1)
    BY <2>1, BitsAssumption
  <2>3. 2^LongBits = 2 * 2^(LongBits - 1)
    BY <2>1, <2>2
  <2>4. 2^LongBits <= 2^(Mantissa + (LongBits - 1))
    BY <2>1, PowerMonotone
  <2> DEFINE x == 2^(LongBits - 1)
             y == 2^LongBits
             w == 2^(Mantissa + (LongBits - 1))
  <2>5. x \in Nat \ {0} /\ y \in Nat \ {0} /\ w \in Nat \ {0}
    BY <2>1, PowerPositive
  <2>6. y = 2 * x /\ y <= w /\ m <= x
    BY <2>3, <2>4
  <2> HIDE DEF x, y, w
  <2>7. m < w
    BY <2>5, <2>6, SMT
  <2> QED
    BY <1>0, <2>7, SMT DEF w
<1>2. T \in SUBSET Nat
  BY <1>0, SMT
<1>3. LastBit(m) \in T /\ \A k \in T : LastBit(m) <= k
  BY <1>1, <1>2, LeastFound DEF LastBit
<1> DEFINE K == LastBit(m)
<1> HIDE DEF K
<1>4. K \in 0..LongBits /\ K <= LongBits - 1 /\ m < 2^(Mantissa + K)
  BY <1>1, <1>3 DEF K
<1>5. K \in 0..LongBits - 1
  BY <1>0, <1>4, SMT
<1>6. ASSUME NEW k \in 0..K - 1
      PROVE  2^(Mantissa + k) <= m
  <2>1. k \in 0..LongBits /\ ~(K <= k) /\ Mantissa + k \in Exponents
    BY <1>0, <1>4, SMT DEF Exponents
  <2>2. k \notin T
    BY <1>3, <2>1 DEF K
  <2>3. ~(m < 2^(Mantissa + k))
    BY <2>1, <2>2
  <2>4. 2^(Mantissa + k) \in Nat
    BY <2>1, PowerPositive
  <2> QED
    BY <2>3, <2>4, SMT
<1> QED
  BY <1>4, <1>5, <1>6 DEF K
\* What Float4 rounds the magnitude of a number to.
Rounded(m) ==
    LET u == 2^LastBit(m)
        up == 2 * (m % u) > u \/ (2 * (m % u) = u /\ (m \div u) % 2 = 1)
    IN  (IF up THEN m \div u + 1 ELSE m \div u) * u

\* Float4 keeps the sign.
LEMMA Float4Is ==
    ASSUME NEW n \in Int
    PROVE  Float4(n) = IF n < 0 THEN -Rounded(Magnitude(n)) ELSE Rounded(Magnitude(n))
BY DEF Float4, Rounded, LastBit

\* A magnitude is rounded to a multiple of its unit that no other is nearer than, and
\* that has the precision.
LEMMA RoundedMultiple ==
    ASSUME NEW m \in Nat, m <= 2^(LongBits - 1)
    PROVE  /\ Rounded(m) \in Nat
           /\ \A z \in Int : Magnitude(m - Rounded(m)) <= Magnitude(m - z * 2^LastBit(m))
           /\ \E k, c : Precise(Rounded(m), k, c)
<1> DEFINE K == LastBit(m)
           u == 2^K
           q == m \div u
           e == m % u
           up == 2 * e > u \/ (2 * e = u /\ q % 2 = 1)
           r == (IF up THEN q + 1 ELSE q) * u
           M == 2^Mantissa
<1>0. LongBits \in Nat \ {0} /\ Mantissa \in Nat \ {0}
  BY BitsAssumption
<1>1. K \in 0..LongBits - 1 /\ m < 2^(Mantissa + K)
  BY LastBitLeast
<1> HIDE DEF K
<1>2. /\ K \in Nat /\ K \in Exponents /\ Mantissa \in Exponents /\ Mantissa + K \in Exponents
      /\ K + 1 \in Exponents /\ Mantissa - 1 \in Exponents
           /\ Mantissa - 1 \in 0..LongBits + Mantissa
      /\ K \in 0..LongBits + Mantissa /\ (Mantissa - 1) + 1 = Mantissa
      /\ K \in 0..LongBits /\ K + 1 \in 0..LongBits
  BY <1>0, <1>1, SMT DEF Exponents
<1>3. u \in Nat \ {0} /\ M \in Nat \ {0} /\ 2^(Mantissa - 1) \in Nat \ {0}
  BY <1>2, PowerPositive
<1>4. 2^(Mantissa + K) = M * u
  BY <1>0, <1>2, PowerSum
<1>5. r = Rounded(m)
  BY DEF Rounded, K
<1>6. m < M * u
  BY <1>1, <1>4
<1> HIDE DEF u, M
<1>7. q \in Nat /\ e \in Nat /\ m = u * q + e /\ e < u
  BY <1>3, SMT
<1> HIDE DEF q, e
<1>8. q < M
  <2> SUFFICES ASSUME ~(q < M) PROVE FALSE
    OBVIOUS
  <2>1. q >= M
    BY <1>3, <1>7, SMT
  <2>2. q * u >= M * u /\ u * q = q * u
    BY <1>3, <1>7, <2>1, SMT
  <2> QED
    BY <1>3, <1>6, <1>7, <2>2, SMT
<1>9. (up => 2 * e >= u) /\ (~up => 2 * e <= u) /\ up \in BOOLEAN
  <2>1. (up => 2 * e >= u) /\ (~up => 2 * e <= u)
    <3>1. CASE up
      BY <1>3, <1>7, <3>1, SMT
    <3>2. CASE ~up
      <4>1. ~(2 * e > u)
        BY <3>2
      <4>2. 2 * e <= u
        BY <1>3, <1>7, <4>1, SMT
      <4> QED
        BY <3>2, <4>2
    <3> QED
      BY <3>1, <3>2
  <2> QED
    BY <2>1
<1> DEFINE b == up
<1>10. b \in BOOLEAN /\ (b => 2 * e >= u) /\ (~b => 2 * e <= u) /\ r = (IF b THEN q + 1 ELSE q) * u
  BY <1>9
<1> HIDE DEF b
<1>11. ASSUME NEW z \in Int
       PROVE  r \in Nat /\ Magnitude(m - r) <= Magnitude(m - z * u)
  BY <1>3, <1>10, RoundedNear DEF q, e
<1>12. r \in Nat
  <2>1. 0 \in Int
    BY SMT
  <2> QED
    BY <1>11, <2>1
<1> DEFINE c == IF b THEN q + 1 ELSE q
<1>13. CASE c < M
  <2>1. c \in Nat
    BY <1>7, SMT
  <2>2. Precise(r, K, c)
    BY <1>2, <1>10, <1>13, <2>1 DEF Precise, u, M
  <2> QED
    BY <1>5, <1>11, <1>12, <2>2 DEF u, K
<1>14. CASE ~(c < M)
  <2>1. c = M
    BY <1>3, <1>7, <1>8, <1>14, SMT
  <2> DEFINE h == 2^(Mantissa - 1)
             v == 2^(K + 1)
  <2>2. 2^((Mantissa - 1) + 1) = 2 * 2^(Mantissa - 1) /\ 2^(K + 1) = 2 * 2^K
    BY <1>2, BitsAssumption
  <2>3. M = 2 * h /\ v = 2 * u /\ h \in Nat \ {0}
    BY <1>2, <1>3, <2>2 DEF M, u
  <2>4. r = M * u
    BY <1>10, <2>1
  <2> HIDE DEF h, v
  <2>5. h < M /\ M * u = h * v
    BY <1>3, <2>3, SMT
  <2>6. r = h * v
    BY <2>4, <2>5
  <2>7. Precise(r, K + 1, h)
    BY <1>2, <2>3, <2>5, <2>6 DEF Precise, M, v
  <2> QED
    BY <1>5, <1>11, <1>12, <2>7 DEF u, K
<1> QED
  BY <1>13, <1>14

\* No number of that precision is nearer.
LEMMA RoundedNearest ==
    ASSUME NEW m \in Nat, m <= 2^(LongBits - 1), NEW z \in Nat, NEW k, NEW c, Precise(z, k, c)
    PROVE  Magnitude(m - Rounded(m)) <= Magnitude(m - z)
<1> DEFINE K == LastBit(m)
           u == 2^K
           r == Rounded(m)
<1>0. LongBits \in Nat \ {0} /\ Mantissa \in Nat \ {0}
  BY BitsAssumption
<1>1. /\ K \in 0..LongBits - 1
      /\ \A j \in 0..K - 1 : 2^(Mantissa + j) <= m
  BY LastBitLeast
<1>2. r \in Nat /\ \A x \in Int : Magnitude(m - r) <= Magnitude(m - x * u)
  BY RoundedMultiple
<1> HIDE DEF K, r
<1>3. k \in 0..LongBits /\ c \in Nat /\ c < 2^Mantissa /\ z = c * 2^k
  BY DEF Precise
<1>4. K \in Nat /\ K \in Exponents /\ k \in Nat /\ k \in Exponents
  BY <1>0, <1>1, <1>3, SMT DEF Exponents
<1>5. u \in Nat \ {0}
  BY <1>4, PowerPositive
<1>6. CASE K <= k
  <2>1. k - K \in Nat /\ k - K \in Exponents /\ K + (k - K) = k
    BY <1>0, <1>4, <1>6, SMT DEF Exponents
  <2> DEFINE d == 2^(k - K)
  <2>2. 2^(K + (k - K)) = 2^K * 2^(k - K)
    BY <1>4, <2>1, PowerSum
  <2>3. 2^k = u * d
    BY <2>1, <2>2
  <2>4. d \in Nat
    BY <2>1, PowerPositive
  <2>5. z = c * (u * d)
    BY <1>3, <2>3
  <2> HIDE DEF d, u
  <2>6. c * d \in Int /\ c * (u * d) = (c * d) * u
    BY <1>3, <1>5, <2>4, SMT
  <2> QED
    BY <1>2, <2>5, <2>6 DEF r
<1>7. CASE ~(K <= k)
  <2>1. /\ k <= K - 1 /\ K - 1 \in 0..K - 1 /\ Mantissa - 1 \in Nat
        /\ Mantissa + (K - 1) = (Mantissa - 1) + K
        /\ (Mantissa - 1) + K \in Exponents /\ Mantissa + k \in Exponents
        /\ Mantissa + k <= (Mantissa - 1) + K
        /\ Mantissa - 1 \in Exponents /\ Mantissa \in Exponents
    BY <1>0, <1>1, <1>4, <1>7, SMT DEF Exponents
  <2> DEFINE B == 2^((Mantissa - 1) + K)
             C == 2^(Mantissa + k)
             x == 2^(Mantissa - 1)
             M == 2^Mantissa
             w == 2^k
  <2>2. B <= m
    BY <1>1, <2>1
  <2>3. C <= B
    BY <2>1, PowerMonotone
  <2>4. C = M * w
    BY <1>0, <1>4, <2>1, PowerSum
  <2>5. B = x * u
    BY <1>4, <2>1, PowerSum
  <2>6. x \in Int /\ x \in Nat \ {0} /\ w \in Nat \ {0} /\ M \in Nat \ {0} /\ B \in Nat \ {0}
          /\ C \in Nat \ {0}
    BY <1>4, <2>1, PowerPositive, SMT
  <2>7. c < M /\ z = c * w
    BY <1>3
  <2>8. Magnitude(m - r) <= Magnitude(m - B)
    BY <1>2, <2>5, <2>6
  <2> HIDE DEF B, C, x, M, w, u
  <2>9. c * w <= M * w
    BY <1>3, <2>6, <2>7, SMT
  <2>10. z <= B
    BY <2>3, <2>4, <2>6, <2>7, <2>9, SMT
  <2>11. Magnitude(m - r) <= Magnitude(m - z)
    BY <1>2, <2>2, <2>6, <2>8, <2>10, SMT DEF Magnitude
  <2> QED
    BY <2>11 DEF r
<1> QED
  BY <1>6, <1>7

\* Float4 yields the nearest number a float4 can hold.
LEMMA Float4Nearest ==
    ASSUME NEW n \in Int, Magnitude(n) <= 2^(LongBits - 1)
    PROVE  Nearest(Float4(n), n)
<1> DEFINE m == Magnitude(n)
           r == Rounded(m)
           x == Float4(n)
<1>1. m \in Nat
  BY SMT DEF Magnitude
<1>2. r \in Nat /\ \E k, c : Precise(r, k, c)
  BY <1>1, RoundedMultiple
<1>3. x = IF n < 0 THEN -r ELSE r
  BY Float4Is
<1> HIDE DEF r, x
<1>4. x \in Int /\ Magnitude(x) = r /\ Magnitude(n - x) = Magnitude(m - r)
  BY <1>2, <1>3, SMT DEF Magnitude
<1>5. IsFloat4(x)
  BY <1>2, <1>4, PreciseIsFloat4
<1>6. ASSUME NEW y \in Int, IsFloat4(y)
      PROVE  Magnitude(n - x) <= Magnitude(n - y)
  <2> DEFINE z == Magnitude(y)
  <2>1. PICK k, c : Precise(z, k, c)
    BY <1>6, Float4IsPrecise
  <2>2. z \in Nat
    BY SMT DEF Magnitude
  <2>3. Magnitude(m - r) <= Magnitude(m - z)
    BY <1>1, <2>1, <2>2, RoundedNearest DEF r
  <2>4. Magnitude(m - z) <= Magnitude(n - y)
    BY SMT DEF Magnitude
  <2> HIDE DEF z
  <2>5. Magnitude(m - z) \in Int /\ Magnitude(n - y) \in Int /\ Magnitude(m - r) \in Int
    BY <1>1, <1>2, <2>2, SMT DEF Magnitude
  <2> HIDE DEF m
  <2> QED
    BY <1>4, <2>3, <2>4, <2>5, SMT
<1>7. ASSUME NEW y \in n - Magnitude(n - x)..n + Magnitude(n - x)
      PROVE  y \in Int
  BY <1>4, SMT
<1> QED
  BY <1>5, <1>6, <1>7 DEF Nearest, x
\* A number that fits is not changed by the conversion to a narrower type.
LEMMA NarrowKeeps ==
    ASSUME NEW bits \in {CharBits, IntBits, LongBits}, NEW n \in Ints(bits)
    PROVE  Narrow(n, bits) = n /\ n \in Int /\ Magnitude(n) <= 2^(LongBits - 1)
<1> DEFINE H == 2^(bits - 1)
           L == 2^(LongBits - 1)
<1>1. bits \in Nat \ {0} /\ LongBits \in Nat \ {0} /\ Mantissa \in Nat /\ bits <= LongBits
  BY BitsAssumption, SMT
<1>2. /\ bits - 1 \in 0..LongBits + Mantissa /\ bits - 1 \in Exponents /\ LongBits - 1 \in Exponents
      /\ (bits - 1) + 1 = bits /\ bits - 1 <= LongBits - 1
  BY <1>1, SMT DEF Exponents
<1>3. 2^((bits - 1) + 1) = 2 * 2^(bits - 1)
  BY <1>2, BitsAssumption
<1>4. 2^bits = 2 * H
  BY <1>2, <1>3
<1>5. H \in Nat \ {0} /\ L \in Nat \ {0}
  BY <1>2, PowerPositive
<1>6. H <= L
  BY <1>2, PowerMonotone
<1>7. n \in -H..H - 1
  BY DEF Ints
<1>8. Narrow(n, bits) = ((n + H) % (2 * H)) - H
  BY <1>4 DEF Narrow
<1> HIDE DEF H, L
<1>9. /\ n \in Int /\ n + H \in Int /\ 2 * H \in Nat \ {0}
      /\ n + H = (2 * H) * 0 + (n + H) /\ 0 <= n + H /\ n + H < 2 * H /\ 0 \in Int
  BY <1>5, <1>7, SMT
<1>10. (n + H) % (2 * H) = n + H
  BY <1>9, RemainderIs
<1>11. Narrow(n, bits) = n
  BY <1>5, <1>8, <1>9, <1>10, SMT
<1>12. Magnitude(n) <= L
  BY <1>5, <1>6, <1>7, SMT DEF Magnitude
<1> QED
  BY <1>9, <1>11, <1>12 DEF L

\* Texts are read as they should be (enc_float4_in, enc_int4_in).
LEMMA TextsRead ==
    ASSUME NEW s \in Inputs, enc_float4_in(s) \/ enc_int4_in(s)
    PROVE  NumbersKept'
<1>0. s \in Seq(STRING)
  BY InputsAssumption
<1>1. CASE enc_float4_in(s)
  <2>1. PICK v \in pg_float4_in(s) : Answered([op |-> "float in", s |-> s], v)
    BY <1>1 DEF enc_float4_in
  <2>2. call'.op = "float in" /\ call'.s = s /\ answer' = v
    BY <2>1 DEF Answered
  <2>3. /\ \A word \in Readable : Lone(s, word) => v = ToFloat4(word)
        /\ (\A word \in Readable : ~Lone(s, word)) => v \in {"syntax", "range"}
    BY <1>0, FloatRead
  <2>4. NumbersRead'
    BY <2>2, <2>3 DEF NumbersRead, Readable
  <2>5. CastsKeep'
    BY <2>2 DEF CastsKeep
  <2> QED
    BY <2>4, <2>5 DEF NumbersKept
<1>2. CASE enc_int4_in(s)
  <2> DEFINE k == First(s)
  <2>1. call'.op = "int in" /\ call'.s = s /\ answer' = IF k > Len(s) THEN 0 ELSE Leading(s[k])
    BY <1>2 DEF enc_int4_in, Answered, First
  <2>2. ASSUME Lone(s, "7")
        PROVE  answer' = 7
    <3>1. k <= Len(s) /\ s[k] = "7"
      BY <1>0, <2>2, LoneFirst
    <3>2. Leading("7") = 7
      BY SMT DEF Leading
    <3>3. k = SkipSpace(s, 1)
      BY DEF First
    <3> HIDE DEF k
    <3>4. CASE ~(k > Len(s))
      BY <2>1, <3>1, <3>2, <3>4
    <3>5. CASE k > Len(s)
      <4>1. Len(s) \in Nat /\ 1 \in 1..Len(s) + 1
        BY <1>0, SMT
      <4>2. k \in Int
        <5>1. k \in 1..Len(s) + 1
          BY <1>0, <3>3, <4>1, SpaceSkipped
        <5> QED
          BY <5>1, SMT
      <4> QED
        BY <3>1, <3>5, <4>1, <4>2, SMT
    <3> QED
      BY <3>4, <3>5
  <2>3. NumbersRead'
    BY <2>1, <2>2 DEF NumbersRead
  <2>4. CastsKeep'
    BY <2>1 DEF CastsKeep
  <2> QED
    BY <2>3, <2>4 DEF NumbersKept
<1> QED
  BY <1>1, <1>2

\* The casts keep the number or take the nearest.
LEMMA CastsRight ==
    ASSUME NEW n,
           \/ n \in Ints(IntBits) /\ (int4_to_enc_float4(n) \/ int4_to_enc_int4(n))
           \/ n \in Ints(LongBits) /\ (int8_to_enc_float4(n) \/ int8_to_enc_int4(n))
    PROVE  NumbersKept'
<1>1. CASE n \in Ints(IntBits) /\ int4_to_enc_float4(n)
  <2>1. call'.op = "int4 to float" /\ call'.n = n /\ answer' = Float4(n)
    BY <1>1 DEF int4_to_enc_float4, Answered
  <2>2. n \in Int /\ Magnitude(n) <= 2^(LongBits - 1)
    BY <1>1, NarrowKeeps
  <2>3. Nearest(Float4(n), n)
    BY <2>2, Float4Nearest
  <2> QED
    BY <2>1, <2>3 DEF NumbersKept, NumbersRead, CastsKeep
<1>2. CASE n \in Ints(IntBits) /\ int4_to_enc_int4(n)
  <2>1. call'.op = "int4 to int" /\ call'.n = n /\ answer' = n
    BY <1>2 DEF int4_to_enc_int4, Answered
  <2> QED
    BY <2>1 DEF NumbersKept, NumbersRead, CastsKeep
<1>3. CASE int8_to_enc_float4(n)
  <2>1. call'.op = "int8 to float" /\ call'.n = n /\ answer' = Float4(Narrow(n, CharBits))
    BY <1>3 DEF int8_to_enc_float4, Answered
  <2>2. ASSUME n \in Ints(CharBits)
        PROVE  Nearest(answer', n)
    <3>1. Narrow(n, CharBits) = n /\ n \in Int /\ Magnitude(n) <= 2^(LongBits - 1)
      BY <2>2, NarrowKeeps
    <3> QED
      BY <2>1, <3>1, Float4Nearest
  <2> QED
    BY <2>1, <2>2 DEF NumbersKept, NumbersRead, CastsKeep
<1>4. CASE int8_to_enc_int4(n)
  <2>1. call'.op = "int8 to int" /\ call'.n = n /\ answer' = Narrow(n, IntBits)
    BY <1>4 DEF int8_to_enc_int4, Answered
  <2>2. ASSUME n \in Ints(IntBits)
        PROVE  answer' = n
    BY <2>1, <2>2, NarrowKeeps
  <2> QED
    BY <2>1, <2>2 DEF NumbersKept, NumbersRead, CastsKeep
<1> QED
  BY <1>1, <1>2, <1>3, <1>4

\* Numbers keep their value on the way into a column, for texts of any length and types
\* of any width (enc_float4_in, enc_int4_in and the casts).
THEOREM NumbersStay == FunctionSpec => []NumbersKept
<1>0. ASSUME call'.op \notin NumberNames
      PROVE  NumbersKept'
  BY <1>0 DEF NumbersKept, NumbersRead, CastsKeep, NumberNames
<1>1. FunctionInit => NumbersKept
  <2> SUFFICES ASSUME FunctionInit PROVE NumbersKept
    OBVIOUS
  <2>1. call.op = "none"
    BY DEF FunctionInit, NoCall
  <2> QED
    BY <2>1 DEF NumbersKept, NumbersRead, CastsKeep
<1>2. NumbersKept /\ [Function]_pVars => NumbersKept'
  <2> SUFFICES ASSUME NumbersKept, [Function]_pVars PROVE NumbersKept'
    OBVIOUS
  <2>1. CASE PlainCall
    <3>1. CASE call'.op \in PlainNames
      BY <1>0, <3>1 DEF PlainNames, NumberNames
    <3>2. ASSUME NEW a \in Ranges, NEW b \in Ranges, prefix_overlap(a, b)
          PROVE  NumbersKept'
      <4>1. call'.op = "overlap"
        BY <3>2, OtherKinds
      <4> QED
        BY <1>0, <4>1 DEF NumberNames
    <3> QED
      BY <2>1, <3>1, <3>2, PlainCallKind
  <2>2. CASE ConversionCall
    <3>1. ASSUME call'.op \in {"fixed out in", "text out in"}
          PROVE  NumbersKept'
      BY <1>0, <3>1 DEF NumberNames
    <3> QED
      BY <2>2, <3>1, TextsRead, CastsRight, OtherKinds DEF ConversionCall
  <2>3. CASE UNCHANGED pVars
    <3>1. call' = call /\ answer' = answer
      BY <2>3 DEF pVars
    <3> QED
      BY <3>1 DEF NumbersKept, NumbersRead, CastsKeep
  <2> QED
    BY <2>1, <2>2, <2>3 DEF Function
<1> QED
  BY <1>1, <1>2, PTL DEF FunctionSpec
=============================================================================
