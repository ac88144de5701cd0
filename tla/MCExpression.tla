---------------------------- MODULE MCExpression ----------------------------
(***************************************************************************)
(* Expressions for TLC: every tree of two levels over a few operands and   *)
(* operators, written with the parentheses it needs, and some texts that   *)
(* are no expression.                                                      *)
(***************************************************************************)
EXTENDS Expression

Leaves == {Arg("1"), Arg("2"), Neg(Arg("3"))}
Level(T) == Leaves \cup {Bin(c, x, y) : c \in {"-", "*", "^"}, x \in T, y \in T}
Trees == Level(Level(Leaves))

Prec(t) == IF t[1] \in {"arg", "#"} THEN 3 ELSE get_precedance(t[1])

RECURSIVE Text(_)
Text(t) ==
    LET Wrapped(x, w) == IF w THEN <<"(">> \o Text(x) \o <<")">> ELSE Text(x)
    IN  CASE t[1] = "arg" -> <<t[2]>>
          [] t[1] = "#" -> <<"(", "-">> \o Text(t[2]) \o <<")">>
          [] OTHER ->
              LET c == t[1]
                  tight == IF c = "^" THEN 3 ELSE Prec(t)
                  after == IF c = "^" THEN Prec(t) ELSE Prec(t) + 1
              IN  Wrapped(t[2], Prec(t[2]) < tight) \o <<c>>
                    \o Wrapped(t[3], Prec(t[3]) < after)

MinusAfterParen(s) == \E k \in 1..Len(s) - 1 : s[k] = ")" /\ s[k + 1] = "-"

WellFormed == {[text |-> Text(t), tree |-> t] : t \in Trees}
NotExpressions ==
    {[text |-> s, tree |-> Malformed] :
        s \in {<<"1", ")">>, <<"(", "1">>, <<"1", "*">>, <<"-">>}}

\* Every expression in which no minus follows a closing parenthesis.
PlainExprs == NotExpressions \cup {e \in WellFormed : ~MinusAfterParen(e.text)}

\* These expressions, their parts, and the parts in parentheses.
PlainPhrases ==
    {p \in {Phrase(Text(t), Prec(t), t) : t \in Trees \cup {Arg("3")}}
            \cup {Phrase(<<"(">> \o Text(t) \o <<")">>, 3, t) : t \in Level(Leaves)} :
        ~MinusAfterParen(p.text)}

\* (1*(2-3))-(4*5), the profit of TPC-H query 9.
Profit ==
    {[text |-> <<"(", "1", "*", "(", "2", "-", "3", ")", ")", "-", "(", "4", "*", "5", ")">>,
      tree |-> Bin("-", Bin("*", Arg("1"), Bin("-", Arg("2"), Arg("3"))),
                        Bin("*", Arg("4"), Arg("5")))]}
=============================================================================
