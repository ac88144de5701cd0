------------------------------ MODULE PlainOps ------------------------------
(***************************************************************************)
(* What ops_server computes on plaintexts, apart from arithmetic: LIKE,    *)
(* concatenation and substrings of texts, the year of a timestamp, and the *)
(* overlap of two prefix ranges (the operator that is added for replaying  *)
(* under KLEE).  Every call is one step from its operands to its answer.   *)
(*                                                                         *)
(* A text is a sequence of characters.  A prefix range [prefix, first,     *)
(* last] stands for the strings that begin with prefix and go on with a    *)
(* character from first to last, or with anything when both are 0.         *)
(***************************************************************************)
EXTENDS Calendar, Sequences, FiniteSetsExt

CONSTANTS PlainTexts, Patterns, Timestamps, Ranges

\* Texts and patterns are sequences of characters, and a timestamp is a number.
ASSUME PlainAssumption ==
    PlainTexts \subseteq Seq(STRING) /\ Patterns \subseteq Seq(STRING) /\ Timestamps \subseteq Int

\* A range has two bounds or none, in this order, and a prefix when it has none; no
\* character of a string is zero.
ASSUME RangesAssumption ==
    \A r \in Ranges :
        /\ r.prefix \in Seq(Nat \ {0}) /\ r.first \in Nat /\ r.last \in Nat
        /\ r.first <= r.last /\ (r.first = 0 <=> r.last = 0)
        /\ r.prefix = <<>> => r.first # 0

VARIABLES
    call,    \* the operator and its operands
    answer   \* what it returned

NoCall == [op |-> "none"]

-----------------------------------------------------------------------------
(* LIKE.                                                                   *)

LIKE_TRUE == 1
LIKE_FALSE == 0

\* Plausible bug: the value PostgreSQL itself gives LIKE_ABORT.
LIKE_ABORT_Upstream == -1

LIKE_ABORT == 0

\* The characters from position j of pattern p that are wildcards in a row.
Wildcards(p, j) ==
    {k \in j..Len(p) : \A m \in j..k : p[m] \in {"%", "_"}}

\* MatchText for the pattern from position j on and the text from i on.  After a
\* "%" the wildcards that follow are skipped, each "_" with a character of the
\* text, and the rest is tried wherever its first literal stands.
MatchText(t, p) ==
    LET M[j \in 1..Len(p) + 1] == [i \in 1..Len(t) + 1 |->
          CASE j = Len(p) /\ p[j] = "%" -> LIKE_TRUE
            [] i > Len(t) -> IF \A k \in j..Len(p) : p[k] = "%" THEN LIKE_TRUE ELSE LIKE_ABORT
            [] i <= Len(t) /\ j > Len(p) -> LIKE_FALSE
            [] OTHER ->
               CASE p[j] = "\\" /\ j = Len(p) -> LIKE_ABORT
                 [] p[j] = "\\" /\ j < Len(p) ->
                      IF p[j + 1] # t[i] THEN LIKE_FALSE ELSE M[j + 2][i + 1]
                 [] p[j] = "%" ->
                      LET k == j + Cardinality(Wildcards(p, j))
                          from == i + Cardinality({m \in Wildcards(p, j) : p[m] = "_"})
                          literal == IF p[k] = "\\" THEN p[k + 1] ELSE p[k]
                          found == {s \in from..Len(t) :
                                      t[s] = literal /\ M[k][s] # LIKE_FALSE}
                      IN  IF from > Len(t) + 1 THEN LIKE_ABORT
                          ELSE IF k > Len(p) THEN LIKE_TRUE
                          ELSE IF p[k] = "\\" /\ k = Len(p) THEN LIKE_ABORT
                          ELSE IF found = {} THEN LIKE_ABORT
                          ELSE M[k][Min(found)]
                 [] p[j] = "_" -> M[j + 1][i + 1]
                 [] OTHER -> IF p[j] # t[i] THEN LIKE_FALSE ELSE M[j + 1][i + 1]]
    IN  M[1][1]

\* 1 ^ result, for any result.
Toggle(r) == IF r % 2 = 0 THEN r + 1 ELSE r - 1

Answered(c, a) == call' = c /\ answer' = a

enc_text_like(t, p) == Answered([op |-> "like", t |-> t, p |-> p], MatchText(t, p) # 0)
enc_text_notlike(t, p) ==
    Answered([op |-> "notlike", t |-> t, p |-> p], Toggle(MatchText(t, p)) # 0)

-----------------------------------------------------------------------------
(* Concatenation and substrings.  room is the length of text the result's  *)
(* Datum was allocated for.                                                *)

plain_text_concat(l, r) == l \o r

\* The character after the last is the terminating zero.
SubText(s, start, length) ==
    [i \in 1..length |-> IF start + i - 1 <= Len(s) THEN s[start + i - 1] ELSE "\\0"]

enc_text_concatenate(l, r) ==
    Answered([op |-> "concat", l |-> l, r |-> r],
             [text |-> plain_text_concat(l, r), room |-> Len(l) + Len(r)])

\* Substrings that lie in the text: the bytes behind it belong to nobody.
substring(s, start, length) ==
    /\ start >= 1 /\ start + length - 1 <= Len(s)
    /\ Answered([op |-> "substring", s |-> s, start |-> start, length |-> length],
                [text |-> SubText(s, start, length), room |-> Len(s)])

-----------------------------------------------------------------------------
(* The year of a timestamp.                                                *)

date_part(t) == Answered([op |-> "year", t |-> t], plain_timestamp_extract_year(t))

-----------------------------------------------------------------------------
(* Prefix ranges.                                                          *)

build_pr(prefix, first, last) == [prefix |-> prefix, first |-> first, last |-> last]

\* A range of one character is made part of the prefix; the zero character ends
\* the string it is appended to.
pr_normalize(a) ==
    IF a.first = a.last
    THEN build_pr(IF a.first = 0 THEN a.prefix ELSE Append(a.prefix, a.first), 0, 0)
    ELSE build_pr(a.prefix, Min({a.first, a.last}), Max({a.first, a.last}))

\* The length of the longest common prefix.
greater_prefix(a, b) ==
    Max({i \in 0..Min({Len(a), Len(b)}) : SubSeq(a, 1, i) = SubSeq(b, 1, i)})

\* Plausible bug: of two ranges of which one prefix extends the other, the first is
\* taken to be the longer one.
pr_inter_Shorter(a, b) ==
    IF greater_prefix(a.prefix, b.prefix) # Len(a.prefix) THEN build_pr(<<>>, 0, 0)
    ELSE pr_normalize(b)

pr_inter(a, b) ==
    LET gplen == greater_prefix(a.prefix, b.prefix)
        alen == Len(a.prefix)
        blen == Len(b.prefix)
        Holds(r, c) == r.first <= c /\ c <= r.last
        first == Max({a.first, b.first})
    IN  CASE alen = 0 /\ blen = 0 -> pr_normalize(build_pr(<<>>, first, Min({a.last, b.last})))
          [] gplen # alen /\ gplen # blen -> build_pr(<<>>, 0, 0)
          [] alen = 0 /\ blen > 0 ->
               pr_normalize(IF Holds(a, b.prefix[1]) THEN b ELSE build_pr(<<>>, 0, 0))
          [] blen = 0 /\ alen > 0 ->
               pr_normalize(IF Holds(b, a.prefix[1]) THEN a ELSE build_pr(<<>>, 0, 0))
          [] gplen = alen /\ alen = blen /\ alen > 0 ->
               pr_normalize(build_pr(a.prefix, first, Max({a.last, b.last})))
          [] gplen = alen /\ 0 < alen /\ alen < blen -> pr_normalize(b)
          [] gplen = blen /\ 0 < blen /\ blen < alen -> pr_normalize(a)

pr_overlaps(a, b) ==
    LET inter == pr_inter(a, b)
    IN  inter.prefix # <<>> \/ (inter.first # 0 /\ inter.last # 0)

prefix_overlap(a, b) == Answered([op |-> "overlap", a |-> a, b |-> b], pr_overlaps(a, b))

-----------------------------------------------------------------------------
PlainCall ==
    \/ \E t \in PlainTexts, p \in Patterns : enc_text_like(t, p)
    \/ \E t \in PlainTexts, p \in Patterns : enc_text_notlike(t, p)
    \/ \E l, r \in PlainTexts : enc_text_concatenate(l, r)
    \/ \E s \in PlainTexts : \E start, length \in 0..Len(s) : substring(s, start, length)
    \/ \E t \in Timestamps : date_part(t)
    \/ \E a, b \in Ranges : prefix_overlap(a, b)

-----------------------------------------------------------------------------
(* Properties.                                                             *)

\* What LIKE means: "%" stands for any characters, "_" for one, and a backslash
\* for the character after it; a pattern that ends with one matches nothing.  L[j]
\* are the positions from which the text matches the pattern from j on.
Matches(t, p) ==
    LET L[j \in 1..Len(p) + 1] == {i \in 1..Len(t) + 1 :
          IF j > Len(p) THEN i > Len(t)
          ELSE IF p[j] = "%" THEN \E k \in i..Len(t) + 1 : k \in L[j + 1]
          ELSE IF i > Len(t) THEN FALSE
          ELSE IF p[j] = "_" THEN i + 1 \in L[j + 1]
          ELSE IF p[j] = "\\" THEN j < Len(p) /\ p[j + 1] = t[i] /\ i + 1 \in L[j + 2]
          ELSE p[j] = t[i] /\ i + 1 \in L[j + 1]}
    IN  1 \in L[1]

\* LIKE and NOT LIKE answer what the pattern means, although MatchText tries far
\* fewer positions than there are and its LIKE_ABORT is not told from LIKE_FALSE.
LikeMatches ==
    /\ call.op = "like" => (answer <=> Matches(call.t, call.p))
    /\ call.op = "notlike" => (answer <=> ~Matches(call.t, call.p))

\* A result is the text SQL defines and fits the Datum made for it before ops_server
\* was asked: the parts of a concatenation are its substrings, and a substring is
\* the part of the text it was cut from.
TextsCompose ==
    /\ call.op = "concat" =>
         /\ Len(answer.text) = answer.room
         /\ SubText(answer.text, 1, Len(call.l)) = call.l
         /\ SubText(answer.text, Len(call.l) + 1, Len(call.r)) = call.r
    /\ call.op = "substring" =>
         /\ Len(answer.text) <= answer.room
         /\ SubSeq(call.s, 1, call.start - 1) \o answer.text
              \o SubSeq(call.s, call.start + call.length, Len(call.s)) = call.s

\* The year that date_part returns is the year the timestamp falls in.
YearAnswered == call.op = "year" => YearRight(call.t)

\* What ops_server makes of plain texts and timestamps is what SQL says of LIKE,
\* ||, substring and date_part (plain_text_ops.c, plain_timestamp_ops.c).
PlainRight == LikeMatches /\ TextsCompose /\ YearAnswered

Begins(w, p) == Len(p) <= Len(w) /\ SubSeq(w, 1, Len(p)) = p
Strings(n) == UNION {[1..k -> 1..3] : k \in 0..n}
InRange(w, r) ==
    /\ Begins(w, r.prefix)
    /\ r.first # 0 => Len(w) > Len(r.prefix) /\ w[Len(r.prefix) + 1] \in r.first..r.last

\* Two ranges with a common string overlap (pr_overlaps: "true if ranges have at
\* least one common element").  The converse does not hold of this code.
OverlapFound ==
    call.op = "overlap" =>
        ((\E w \in Strings(4) : InRange(w, call.a) /\ InRange(w, call.b)) => answer)
=============================================================================
