------------------------------ MODULE Formula -------------------------------
(***************************************************************************)
(* The formulas of pricing rules, internal/service/pricing.go: the parser  *)
(* that computes while it reads, against what a formula means.             *)
(*                                                                         *)
(* An administrator writes a formula one token at a time; the lexer is     *)
(* what turns text into these tokens.  MUTx definitions are plausible      *)
(* mistakes.                                                               *)
(***************************************************************************)
EXTENDS Integers, Sequences

CONSTANTS
    Numbers,      \* number literals
    Params,       \* the parameters of the request that is priced, as integers
    Names,        \* names a formula may use
    MaxInt,       \* the largest int; the smallest is its negative less one
    MaxTokens     \* bound: length of a formula

ASSUME FormulaAssumption ==
    /\ MaxInt \in Nat /\ Numbers \subseteq 0..MaxInt /\ MaxTokens \in Nat
    /\ \A x \in DOMAIN Params : Params[x] \in -MaxInt..MaxInt

VARIABLE formula

Signs  == {"+", "-", "*", "/", "(", ")"}
Tokens == [kind : {"num"}, num : Numbers] \cup [kind : {"ident"}, id : Names] \cup [kind : Signs]

FormulaInit == formula = <<>>

Write == \E t \in Tokens : Len(formula) < MaxTokens /\ formula' = Append(formula, t)

FormulaNext == Write

FormulaSpec == FormulaInit /\ [][FormulaNext]_formula

-----------------------------------------------------------------------------
(* Arithmetic of int, which wraps around and divides towards zero.         *)

Wrapped(n) == ((n + MaxInt + 1) % (2 * MaxInt + 2)) - MaxInt - 1

Abs(n) == IF n < 0 THEN -n ELSE n

Quotient(a, b) ==
    Wrapped(IF (a < 0) = (b < 0) THEN Abs(a) \div Abs(b) ELSE -(Abs(a) \div Abs(b)))

-----------------------------------------------------------------------------
(* The parser.  A call of it starts at a token, cur, and returns the value *)
(* of what it read and the position behind it, or Error.  There are three  *)
(* kinds of calls: parseFactor, and the loops of parseTerm and parseExpr,  *)
(* which continue from what they have read so far.  p is the table of the  *)
(* results of all calls: parse, at the end of this section.                *)

Read(v, cur) == [v |-> v, cur |-> cur]

Error == Read(0, 0)

Kind(cur) == IF cur > Len(formula) THEN "eof" ELSE formula[cur].kind

Factor(cur)   == [rule |-> "factor", v |-> 0, cur |-> cur]
Factors(left) == [rule |-> "factors", v |-> left.v, cur |-> left.cur]
Terms(left)   == [rule |-> "terms", v |-> left.v, cur |-> left.cur]
Calls         == [rule : {"factor", "factors", "terms"}, v : Int, cur : 1..(Len(formula) + 1)]

MoreFactors(p, left) == IF left = Error THEN Error ELSE p[Factors(left)]
MoreTerms(p, left)   == IF left = Error THEN Error ELSE p[Terms(left)]

\* term := factor (('*'|'/') factor)*, expr := term (('+'|'-') term)*
ParseTerm(p, cur) == MoreFactors(p, p[Factor(cur)])
ParseExpr(p, cur) == MoreTerms(p, ParseTerm(p, cur))

\* factor := number | ident | '(' expr ')' | '-' factor
FactorAt(p, cur) ==
    CASE Kind(cur) = "num"   -> Read(formula[cur].num, cur + 1)
      [] Kind(cur) = "ident" -> IF formula[cur].id \in DOMAIN Params
                                THEN Read(Params[formula[cur].id], cur + 1) ELSE Error
      [] Kind(cur) = "("     -> LET e == ParseExpr(p, cur + 1) IN
                                IF e # Error /\ Kind(e.cur) = ")" THEN Read(e.v, e.cur + 1)
                                ELSE Error
      [] Kind(cur) = "-"     -> LET f == p[Factor(cur + 1)] IN
                                IF f # Error THEN Read(Wrapped(-f.v), f.cur) ELSE Error
      [] OTHER               -> Error

Multiplied(kind, a, b) == IF kind = "*" THEN Wrapped(a * b) ELSE Quotient(a, b)
Added(kind, a, b)      == Wrapped(IF kind = "+" THEN a + b ELSE a - b)

FactorsAfter(p, left) ==
    IF Kind(left.cur) \notin {"*", "/"} THEN left
    ELSE LET right == p[Factor(left.cur + 1)] IN
         IF right = Error \/ (Kind(left.cur) = "/" /\ right.v = 0) THEN Error
         ELSE MoreFactors(p, Read(Multiplied(Kind(left.cur), left.v, right.v), right.cur))

MUTTermsAfter(p, left) ==
    IF Kind(left.cur) \notin {"+", "-"} THEN left
    ELSE LET right == ParseExpr(p, left.cur + 1) IN
         IF right = Error THEN Error
         ELSE Read(Added(Kind(left.cur), left.v, right.v), right.cur)

TermsAfter(p, left) ==
    IF Kind(left.cur) \notin {"+", "-"} THEN left
    ELSE LET right == ParseTerm(p, left.cur + 1) IN
         IF right = Error THEN Error
         ELSE MoreTerms(p, Read(Added(Kind(left.cur), left.v, right.v), right.cur))

Result(p, call) ==
    CASE call.rule = "factor"  -> FactorAt(p, call.cur)
      [] call.rule = "factors" -> FactorsAfter(p, Read(call.v, call.cur))
      [] call.rule = "terms"   -> TermsAfter(p, Read(call.v, call.cur))

parse[call \in Calls] == Result(parse, call)

\* evalFormula: nothing may be left over.
EvalFormula ==
    LET e == ParseExpr(parse, 1) IN
    IF e # Error /\ e.cur = Len(formula) + 1 THEN {e.v} ELSE {}

\* computeCost; without a formula the rule has a fixed price.
ComputeCost(credits) ==
    IF formula = <<>> THEN {credits} ELSE {IF v < 1 THEN 1 ELSE v : v \in EvalFormula}

-----------------------------------------------------------------------------
(* What a formula means: the set of the values that the tokens from i up   *)
(* to the one before j can have by the grammar, as a factor, a product or  *)
(* a sum; empty for what is none or divides by zero.  m is the table of    *)
(* these sets: means, below.                                               *)

Span(rule, i, j) == [rule |-> rule, from |-> i, to |-> j]

Spans == {span \in [rule : {"factor", "product", "sum"},
                    from : 1..Len(formula), to : 2..(Len(formula) + 1)] : span.from < span.to}

Cuts(i, j, signs) == {k \in (i + 1)..(j - 2) : Kind(k) \in signs}

FactorMeans(m, i, j) ==
    IF j = i + 1
    THEN CASE Kind(i) = "num" -> {formula[i].num}
           [] Kind(i) = "ident" /\ formula[i].id \in DOMAIN Params -> {Params[formula[i].id]}
           [] OTHER -> {}
    ELSE IF Kind(i) = "-" THEN {Wrapped(-a) : a \in m[Span("factor", i + 1, j)]}
    ELSE IF Kind(i) = "(" /\ Kind(j - 1) = ")" /\ i + 1 < j - 1
         THEN m[Span("sum", i + 1, j - 1)] ELSE {}

ProductMeans(m, i, j) ==
    FactorMeans(m, i, j) \cup
    UNION {{Multiplied(Kind(k), a, b) :
               a \in m[Span("product", i, k)],
               b \in {c \in m[Span("factor", k + 1, j)] : Kind(k) = "/" => c # 0}} :
           k \in Cuts(i, j, {"*", "/"})}

SumMeans(m, i, j) ==
    ProductMeans(m, i, j) \cup
    UNION {{Added(Kind(k), a, b) :
               a \in m[Span("sum", i, k)], b \in m[Span("product", k + 1, j)]} :
           k \in Cuts(i, j, {"+", "-"})}

Meanings(m, span) ==
    CASE span.rule = "factor"  -> FactorMeans(m, span.from, span.to)
      [] span.rule = "product" -> ProductMeans(m, span.from, span.to)
      [] span.rule = "sum"     -> SumMeans(m, span.from, span.to)

means[span \in Spans] == Meanings(means, span)

-----------------------------------------------------------------------------
\* A request is charged what the rule's formula means, and never less than one credit: the
\* parser reads from left to right and computes as it goes, so precedence, the side to
\* which operators bind, the sign of a factor, what is left over and a division by zero
\* inside parentheses each are a way to charge a wrong price (pricing.go:281-293, 424-538).
ChargesWhatFormulaMeans ==
    formula # <<>> =>
        ComputeCost(1) = {IF v < 1 THEN 1 ELSE v : v \in means[Span("sum", 1, Len(formula) + 1)]}
=============================================================================
