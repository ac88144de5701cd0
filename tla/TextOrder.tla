----------------------------- MODULE TextOrder ------------------------------
(***************************************************************************)
(* Encrypted texts with a cached rank.  enc_text_add_order stores in every *)
(* text of a column its place in the order of the column, and the          *)
(* comparison operators of enc_text compare two such ranks instead of      *)
(* asking ops_server.                                                      *)
(*                                                                         *)
(* A text is a number that stands for its place in the order of all        *)
(* plaintexts; no text is empty.  A cell is a text with the rank stored    *)
(* beside its ciphertext.                                                  *)
(***************************************************************************)
EXTENDS Integers, FiniteSets

CONSTANTS
    Columns,  \* columns of type enc_text
    Rows,     \* rows of the tables
    Texts     \* plaintexts

ASSUME TextsAssumption == Texts \subseteq Int /\ IsFiniteSet(Rows)

VARIABLES
    cell,    \* cell[c][r]: the text of row r in column c, or NoCell
    foreign  \* foreign[c]: an ordered text of another column was stored in c

vars == <<cell, foreign>>

ORDER_NONE == 0
NoText == 0
NoCell == [there |-> FALSE, text |-> NoText, order |-> ORDER_NONE]
Cell(t, o) == [there |-> TRUE, text |-> t, order |-> o]
Cells == {NoCell} \cup [there : {TRUE}, text : Texts, order : Nat]
Used(c) == {r \in Rows : cell[c][r].there}

-----------------------------------------------------------------------------
(* Comparisons of two cells x and y.                                       *)

\* ops_server decrypts both texts and compares them (strcmp).
TeeCmp(x, y) == IF x.text < y.text THEN -1 ELSE IF x.text = y.text THEN 0 ELSE 1

Ordered(x, y) == x.order # ORDER_NONE /\ y.order # ORDER_NONE

enc_text_eq(x, y) == IF Ordered(x, y) THEN x.order = y.order ELSE TeeCmp(x, y) = 0
enc_text_ne(x, y) == IF Ordered(x, y) THEN x.order # y.order ELSE TeeCmp(x, y) # 0
enc_text_le(x, y) == IF Ordered(x, y) THEN x.order <= y.order ELSE TeeCmp(x, y) <= 0
enc_text_lt(x, y) == IF Ordered(x, y) THEN x.order < y.order ELSE TeeCmp(x, y) < 0
enc_text_ge(x, y) == IF Ordered(x, y) THEN x.order >= y.order ELSE TeeCmp(x, y) >= 0
enc_text_gt(x, y) == IF Ordered(x, y) THEN x.order > y.order ELSE TeeCmp(x, y) > 0
enc_text_cmp(x, y) ==
    IF Ordered(x, y)
    THEN IF x.order < y.order THEN -1 ELSE IF x.order = y.order THEN 0 ELSE 1
    ELSE TeeCmp(x, y)

-----------------------------------------------------------------------------

Init ==
    /\ cell = [c \in Columns |-> [r \in Rows |-> NoCell]]
    /\ foreign = [c \in Columns |-> FALSE]

\* A text encrypted or computed by an operator (concatenation, substring) has
\* no rank.
Store(c, r, t) ==
    /\ cell' = [cell EXCEPT ![c][r] = Cell(t, ORDER_NONE)]
    /\ UNCHANGED foreign

\* A statement that stores a text read from a column keeps the rank it had
\* there.
Copy(c, r, d, q) ==
    /\ cell[d][q].there
    /\ cell' = [cell EXCEPT ![c][r] = cell[d][q]]
    /\ foreign' = [foreign EXCEPT ![c] =
                      @ \/ foreign[d] \/ (c # d /\ cell[d][q].order # ORDER_NONE)]

Delete(c, r) ==
    /\ cell[c][r].there
    /\ cell' = [cell EXCEPT ![c][r] = NoCell]
    /\ UNCHANGED foreign

enc_text_set_order(x, order) == [x EXCEPT !.order = order]

\* SELECT DISTINCT: one row of each class of equal texts.
Distinct(c, D) ==
    /\ \A d, e \in D : d # e => ~enc_text_eq(cell[c][d], cell[c][e])
    /\ \A r \in Used(c) : \E d \in D : enc_text_eq(cell[c][d], cell[c][r])

\* Plausible bug: the rows are numbered as they come.
RowNumber_Unsorted(c, D, n) == \A d, e \in D : d # e => n[d] # n[e]

\* ROW_NUMBER() OVER (ORDER BY ... ASC).
RowNumber(c, D, n) ==
    /\ \A d, e \in D : d # e => n[d] # n[e]
    /\ \A d, e \in D : enc_text_cmp(cell[c][d], cell[c][e]) < 0 => n[d] < n[e]

\* Plausible bug: the WHERE of the UPDATE is missing.
enc_text_add_order_NoWhere(c) ==
    /\ \E D \in SUBSET Used(c) : \E n \in [D -> 1..Cardinality(D)], m \in [Used(c) -> D] :
        /\ Distinct(c, D) /\ RowNumber(c, D, n)
        /\ cell' = [cell EXCEPT ![c] =
                      [r \in Rows |-> IF r \in Used(c)
                                      THEN enc_text_set_order(cell[c][m[r]], n[m[r]])
                                      ELSE NoCell]]
    /\ UNCHANGED foreign

\* The UPDATE: every row gets the text and the number of a distinct row that it
\* is equal to.
enc_text_add_order(c) ==
    /\ \E D \in SUBSET Used(c) : \E n \in [D -> 1..Cardinality(D)], m \in [Used(c) -> D] :
        /\ Distinct(c, D) /\ RowNumber(c, D, n)
        /\ \A r \in Used(c) : enc_text_eq(cell[c][m[r]], cell[c][r])
        /\ cell' = [cell EXCEPT ![c] =
                      [r \in Rows |-> IF r \in Used(c)
                                      THEN enc_text_set_order(cell[c][m[r]], n[m[r]])
                                      ELSE NoCell]]
    /\ UNCHANGED foreign

Next ==
    \E c \in Columns :
        \/ enc_text_add_order(c)
        \/ \E r \in Rows :
            \/ \E t \in Texts : Store(c, r, t)
            \/ \E d \in Columns, q \in Rows : Copy(c, r, d, q)
            \/ Delete(c, r)

Spec == Init /\ [][Next]_vars

-----------------------------------------------------------------------------
(* Properties.                                                             *)

Agree(x, y) ==
    /\ enc_text_eq(x, y) <=> x.text = y.text
    /\ enc_text_ne(x, y) <=> x.text # y.text
    /\ enc_text_le(x, y) <=> x.text <= y.text
    /\ enc_text_lt(x, y) <=> x.text < y.text
    /\ enc_text_ge(x, y) <=> x.text >= y.text
    /\ enc_text_gt(x, y) <=> x.text > y.text
    /\ enc_text_cmp(x, y) = TeeCmp(x, y)

\* Cells hold a text and a rank, and a row that is not used holds nothing.
TypeOK ==
    /\ cell \in [Columns -> [Rows -> Cells]]
    /\ foreign \in [Columns -> BOOLEAN]

\* Within a column that holds no ranks of another one, the seven comparison
\* operators of enc_text answer as ops_server would, whatever was inserted,
\* updated, deleted and ranked again, in whatever order (the shortcut on order).
ColumnOrderAgrees ==
    \A c \in Columns : ~foreign[c] =>
        \A r, q \in Used(c) : Agree(cell[c][r], cell[c][q])

\* enc_text_add_order changes ranks only: the texts of a column that holds no
\* ranks of another one stay what they were.
AddOrderKeepsTexts ==
    [][\A c \in Columns : enc_text_add_order(c) /\ ~foreign[c] =>
         \A r \in Rows : cell'[c][r].text = cell[c][r].text]_vars

\* enc_text_eq returns "true, if strings are equal", "false, otherwise", for any
\* two stored texts.
EqualIsEqual ==
    \A c, d \in Columns : \A r \in Used(c), q \in Used(d) :
        enc_text_eq(cell[c][r], cell[d][q]) <=> cell[c][r].text = cell[d][q].text

\* enc_text_add_order "sets order info in EncStr.order field", and changes no
\* text.
AddOrderSetsOrderOnly ==
    [][\A c \in Columns : enc_text_add_order(c) =>
         \A r \in Rows : cell'[c][r].text = cell[c][r].text]_vars
=============================================================================
