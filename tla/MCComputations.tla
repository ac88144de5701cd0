--------------------------- MODULE MCComputations ---------------------------
(* Operands of the computations for TLC.                                   *)
EXTENDS Computations

\* The expressions and the commands, from instances that use none.
Syntax == INSTANCE MCExpression WITH i <- eI, pc <- ePc, result <- eResult, Exprs <- {}
Protocol == INSTANCE Operators WITH pc <- oPc, result <- oResult, Commands <- {}

MCExprs == Syntax!PlainExprs
MCPhrases == Syntax!PlainPhrases
MCValues == {-2, 0, 3}
MCBad == -1
MCNumbers == {0, 1}
MCCommands == Protocol!AllCommands

MCTexts == UNION {[1..n -> {"a", "b", "%"}] : n \in 0..3}
MCPatterns == UNION {[1..n -> {"a", "b", "%", "_", "\\"}] : n \in 0..4}

\* The first and last moments of the days around every new year of a century and
\* some, and around the first Julian day.
NearNewYear == {NewYear(y) + k : y \in 1896..2005, k \in -1..1} \cup {-1, 0, 1}
MCTimestamps == {Midnight(d) + k : d \in NearNewYear, k \in 0..1}

\* Ranges of strings of up to three characters, but the one of all strings.
MCRanges ==
    {r \in [prefix : Strings(2), first : 0..3, last : 0..3] :
        /\ r.first <= r.last /\ (r.first = 0 <=> r.last = 0)
        /\ r.prefix = <<>> => r.first # 0}

\* Texts in which no number follows another without white space.
MCInputs ==
    {s \in UNION {[1..n -> Literals \cup {"ws", "junk"}] : n \in 0..4} :
        \A k \in 1..Len(s) - 1 : s[k] \notin Literals \/ s[k + 1] \notin Literals}

MCBytes == {0, 1, 63, 64, 191, 255}
MCCiphers == UNION {[1..n -> MCBytes] : n \in 1..4}
MCStrs == {<<n, 1>> \o data : n \in 0..2, data \in UNION {[1..m -> {0, 200, 255}] : m \in 2..3}}
=============================================================================
