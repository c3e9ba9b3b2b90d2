---------------------------- MODULE Expressions ----------------------------
(***************************************************************************)
(* The expression language of a component: the designer's parser and        *)
(* evaluator (designer.js) and those of the published page (runtime.js),    *)
(* side by side, over every formula an author can type token by token.      *)
(*                                                                         *)
(* A node is a tuple that begins with its kind.  A value is a tuple too:    *)
(* <<"number", p, q>> is the fraction p/q in lowest terms (both sides       *)
(* compute with the same doubles), a text is a sequence of characters.      *)
(* Spaces are left out, and calls are parsed, never evaluated.              *)
(***************************************************************************)
EXTENDS Integers, Sequences, SequencesExt

CONSTANTS Token,     \* the tokens an author types
          MaxTokens, \* bound: the length of a formula
          Renamed,   \* a control, and what it is renamed to
          NewName

Number == {"0", "1", "2", "3", "5"}
Text == {"'5'", "'x'"}
Constant == {"true", "false", "null"}
Name == Constant \cup {"a", "b", Renamed, NewName}

TypeOfToken(t) == IF t \in Number THEN "number" ELSE IF t \in Text THEN "string"
                  ELSE IF t \in Name THEN "name" ELSE t

VARIABLE formula

TypeOK == formula \in Seq(Token) /\ Len(formula) <= MaxTokens

Init == formula = <<>>

\* Bound: no two operands or operators meet, since no side reads on after that.
Meets(s, t) ==
    LET type == TypeOfToken(t)
        last == IF s = <<>> THEN "" ELSE TypeOfToken(Last(s))
    IN CASE last = "." -> type = "name"
         [] last = "[" -> type \in {"name", "string", "number"}
         [] last \in {"number", "string", "name", ")", "]"} ->
               /\ type \notin {"number", "string", "name", "!"}
               /\ type \in {".", "["} => last \in {"name", "]"}
               /\ type = "(" => last = "name"
         [] OTHER -> type \in {"number", "string", "name", "(", "-", "!"} \/ (last = "(" /\ type = ")")

Write(t) == Len(formula) < MaxTokens /\ Meets(formula, t) /\ formula' = Append(formula, t)
Next == \E t \in Token : Write(t)
Spec == Init /\ [][Next]_formula

-----------------------------------------------------------------------------
(* Parsing.  A result is a node and the place of the next token.            *)

Type(s, i) == IF i \in 1..Len(s) THEN TypeOfToken(s[i]) ELSE "end"
Result(node, at) == [node |-> node, at |-> at]
Unread == Result(<<"unread">>, 0)
Then(result, next(_)) == IF result = Unread THEN Unread ELSE next(result)

\* Mutated: adding and multiplying bind alike.
LooseLevels == <<{"||"}, {"&&"}, {"<", ">", "<=", ">=", "==", "!="}, {"+", "-", "*", "/", "%"}, {}>>

\* The operators of each level, weakest first.
Levels == <<{"||"}, {"&&"}, {"<", ">", "<=", ">=", "==", "!="}, {"+", "-"}, {"*", "/", "%"}>>

\* What stands in brackets: the page also takes a name.
InBrackets(side) == {"string", "number"} \cup IF side = "page" THEN {"name"} ELSE {}

RECURSIVE Path(_, _, _, _)
Path(side, s, i, parts) ==
    IF Type(s, i) = "." THEN
        IF Type(s, i + 1) = "name" THEN Path(side, s, i + 2, Append(parts, s[i + 1])) ELSE Unread
    ELSE IF Type(s, i) = "[" THEN
        IF Type(s, i + 1) \in InBrackets(side) /\ Type(s, i + 2) = "]"
        THEN Path(side, s, i + 3, Append(parts, s[i + 1])) ELSE Unread
    ELSE Result(<<"path", parts>>, i)

\* true, false and null, which the designer lets a path begin with.
IsConstant(side, s, i) ==
    s[i] \in Constant /\ (side = "designer" => Type(s, i + 1) \notin {".", "["})

RECURSIVE Ternary(_, _, _), Level(_, _, _, _), Onwards(_, _, _, _), Unary(_, _, _), Primary(_, _, _),
          Arguments(_, _, _, _)

\* After an argument's comma or the opening bracket.
Arguments(side, s, i, args) ==
    Then(Ternary(side, s, i), LAMBDA arg :
        IF Type(s, arg.at) = "," THEN Arguments(side, s, arg.at + 1, Append(args, arg.node))
        ELSE IF Type(s, arg.at) = ")" THEN Result(Append(args, arg.node), arg.at + 1) ELSE Unread)

Call(side, s, name, i) ==
    IF Type(s, i) = ")" THEN Result(<<"call", name, <<>>>>, i + 1)
    ELSE Then(Arguments(side, s, i, <<>>), LAMBDA args : Result(<<"call", name, args.node>>, args.at))

Primary(side, s, i) ==
    CASE Type(s, i) \in {"number", "string"} -> Result(<<"literal", s[i]>>, i + 1)
      [] Type(s, i) = "(" ->
            Then(Ternary(side, s, i + 1), LAMBDA inner :
                IF Type(s, inner.at) = ")" THEN Result(inner.node, inner.at + 1) ELSE Unread)
      [] Type(s, i) = "name" ->
            IF Type(s, i + 1) = "(" THEN Call(side, s, <<s[i]>>, i + 2)
            ELSE IF Type(s, i + 1) = "." /\ Type(s, i + 2) = "name" /\ Type(s, i + 3) = "("
            THEN Call(side, s, <<s[i], s[i + 2]>>, i + 4)
            ELSE IF IsConstant(side, s, i) THEN Result(<<"literal", s[i]>>, i + 1)
            ELSE Path(side, s, i + 1, <<s[i]>>)
      [] OTHER -> Unread

Unary(side, s, i) ==
    IF Type(s, i) = "-" THEN Then(Unary(side, s, i + 1), LAMBDA v : Result(<<"negate", v.node>>, v.at))
    ELSE IF Type(s, i) = "!" THEN Then(Unary(side, s, i + 1), LAMBDA v : Result(<<"not", v.node>>, v.at))
    ELSE Primary(side, s, i)

\* The operands of level k, from the left, while its operators go on.
Onwards(side, k, s, left) ==
    IF Type(s, left.at) \notin Levels[k] THEN left
    ELSE Then(Level(side, k + 1, s, left.at + 1), LAMBDA right :
             Onwards(side, k, s, Result(<<"binary", s[left.at], left.node, right.node>>, right.at)))

Level(side, k, s, i) ==
    IF k > Len(Levels) THEN Unary(side, s, i)
    ELSE Then(Level(side, k + 1, s, i), LAMBDA left : Onwards(side, k, s, left))

Ternary(side, s, i) ==
    Then(Level(side, 1, s, i), LAMBDA condition :
        IF Type(s, condition.at) # "?" THEN condition
        ELSE Then(Ternary(side, s, condition.at + 1), LAMBDA then :
            IF Type(s, then.at) # ":" THEN Unread
            ELSE Then(Ternary(side, s, then.at + 1), LAMBDA otherwise :
                Result(<<"ternary", condition.node, then.node, otherwise.node>>, otherwise.at))))

Parse(side, s) ==
    LET tree == Ternary(side, s, 1)
    IN IF tree # Unread /\ tree.at > Len(s) THEN tree.node ELSE Unread.node

Reads(side, s) == Parse(side, s) # Unread.node

-----------------------------------------------------------------------------
(* Values *)

Digit == <<"0", "1", "2", "3", "4", "5", "6", "7", "8", "9">>
Characters == <<"-">> \o Digit \o <<"a", "e", "f", "l", "r", "s", "t", "u", "x">>

Num(p, q) ==
    LET sign == IF q < 0 THEN -1 ELSE 1
        common == CHOOSE d \in 1..(sign * q) :
            /\ q % d = 0 /\ p % d = 0
            /\ \A e \in 1..(sign * q) : (q % e = 0 /\ p % e = 0) => e <= d
    IN <<"number", (sign * p) \div common, (sign * q) \div common>>

Bool(b) == <<"boolean", b>>
Error(code) == <<"error", code>>
IsError(v) == v[1] = "error"
IsZero(v) == v[2] = 0

RECURSIVE Whole(_)
Whole(digits) == IF digits = <<>> THEN 0
                 ELSE 10 * Whole(Front(digits)) + (CHOOSE d \in 0..9 : Digit[d + 1] = Last(digits))

RECURSIVE Decimal(_)
Decimal(n) == IF n < 0 THEN <<"-">> \o Decimal(-n) ELSE IF n < 10 THEN <<Digit[n + 1]>>
              ELSE Append(Decimal(n \div 10), Digit[(n % 10) + 1])

Signed(s) == s # <<>> /\ s[1] = "-" /\ Len(s) > 1
Unsigned(s) == IF Signed(s) THEN Tail(s) ELSE s
IsNumberText(s) == s # <<>> /\ \A i \in DOMAIN Unsigned(s) : Unsigned(s)[i] \in ToSet(Digit)

\* standard.js text; the instances never write a fraction as text.
AsText(v) ==
    CASE v[1] = "text" -> v[2]
      [] v[1] = "number" -> Decimal(v[2] \div v[3])
      [] v[1] = "boolean" -> IF v[2] THEN <<"t", "r", "u", "e">> ELSE <<"f", "a", "l", "s", "e">>
      [] OTHER -> <<>>

\* standard.js number.
AsNumber(v) ==
    CASE v[1] = "number" -> v
      [] v[1] = "text" /\ IsNumberText(v[2]) ->
            Num((IF Signed(v[2]) THEN -1 ELSE 1) * Whole(Unsigned(v[2])), 1)
      [] v[1] = "boolean" -> Num(IF v[2] THEN 1 ELSE 0, 1)
      [] OTHER -> Num(0, 1)

Truthy(v) ==
    CASE v[1] = "text" -> v[2] \notin {<<>>, <<"0">>, <<"f", "a", "l", "s", "e">>}
      [] v[1] = "number" -> ~IsZero(v)
      [] v[1] = "boolean" -> v[2]
      [] OTHER -> FALSE

\* designer.js isNumeric.
IsNumeric(v) == v[1] = "number" \/ (v[1] = "text" /\ IsNumberText(v[2]))

Below(a, b) == a[2] * b[3] < b[2] * a[3]
At(c) == CHOOSE i \in DOMAIN Characters : Characters[i] = c
Before(s, t) ==
    \E i \in 1..Len(t) : /\ \A j \in 1..(i - 1) : j <= Len(s) /\ s[j] = t[j]
                         /\ i > Len(s) \/ At(s[i]) < At(t[i])

Truncated(n, d) == IF n < 0 THEN -((-n) \div d) ELSE n \div d

\* On two numbers; a remainder has the sign of the dividend.
Compute(op, a, b) ==
    CASE op = "+" -> Num(a[2] * b[3] + b[2] * a[3], a[3] * b[3])
      [] op = "-" -> Num(a[2] * b[3] - b[2] * a[3], a[3] * b[3])
      [] op = "*" -> Num(a[2] * b[2], a[3] * b[3])
      [] op = "/" -> Num(a[2] * b[3], a[3] * b[2])
      [] op = "%" -> LET sign == IF b[2] < 0 THEN -1 ELSE 1
                         whole == Truncated(a[2] * b[3] * sign, a[3] * b[2] * sign)
                     IN Num(a[2] * b[3] - whole * b[2] * a[3], a[3] * b[3])

\* The four orders and the two equalities, from < and =.
Compare(op, less, equal, more) ==
    CASE op = "<" -> less [] op = ">" -> more [] op = "<=" -> less \/ equal [] op = ">=" -> more \/ equal
      [] op = "==" -> equal [] op = "!=" -> ~equal

CompareNumbers(op, a, b) == Bool(Compare(op, Below(a, b), a = b, Below(b, a)))
CompareTexts(op, s, t) == Bool(Compare(op, Before(s, t), s = t, Before(t, s)))

-----------------------------------------------------------------------------
(* Evaluating *)

\* designer.js applyOperator.
DesignerApplies(op, l, r) ==
    LET numeric == IsNumeric(l) /\ IsNumeric(r)
    IN CASE IsError(l) -> l
         [] ~IsError(l) /\ IsError(r) -> r
         [] op = "&&" -> Bool(Truthy(l) /\ Truthy(r))
         [] op = "||" -> IF Truthy(l) THEN l ELSE r
         [] op \in Levels[3] -> IF numeric THEN CompareNumbers(op, AsNumber(l), AsNumber(r))
                                ELSE CompareTexts(op, AsText(l), AsText(r))
         [] op = "+" /\ ~numeric -> <<"text", AsText(l) \o AsText(r)>>
         [] op \notin {"+"} /\ ~numeric -> Error("#VALUE!")
         [] op \in {"/", "%"} /\ numeric /\ IsZero(AsNumber(r)) -> Error("#DIV/0!")
         [] OTHER -> Compute(op, AsNumber(l), AsNumber(r))

\* Mutated: the page divides by zero.
PageDividesAnyway(op, l, r) ==
    IF op \in {"/", "%"} /\ ~IsError(l) /\ ~IsError(r) /\ IsZero(AsNumber(r)) THEN Num(0, 1)
    ELSE DesignerApplies(op, l, r)

\* runtime.js binary; === on values of two types is false, and < on them compares
\* numbers, where a text that is none is neither below nor above.
PageApplies(op, l, r) ==
    CASE IsError(l) -> l
      [] ~IsError(l) /\ IsError(r) -> r
      [] op = "&&" -> Bool(Truthy(l) /\ Truthy(r))
      [] op = "||" -> Bool(Truthy(l) \/ Truthy(r))
      [] op = "==" -> Bool(l[1] = r[1] /\ l = r)
      [] op = "!=" -> Bool(~(l[1] = r[1] /\ l = r))
      [] op \in {"<", ">", "<=", ">="} ->
            IF l[1] = "text" /\ r[1] = "text" THEN CompareTexts(op, l[2], r[2])
            ELSE IF \E v \in {l, r} : v[1] = "text" /\ v[2] # <<>> /\ ~IsNumberText(v[2]) THEN Bool(FALSE)
            ELSE CompareNumbers(op, AsNumber(l), AsNumber(r))
      [] op = "+" /\ "text" \in {l[1], r[1]} -> <<"text", AsText(l) \o AsText(r)>>
      [] op \in {"/", "%"} /\ IsZero(AsNumber(r)) -> Error("#DIV/0!")
      [] OTHER -> Compute(op, AsNumber(l), AsNumber(r))

Apply(side, op, l, r) == IF side = "page" THEN PageApplies(op, l, r) ELSE DesignerApplies(op, l, r)

Literal(t) ==
    CASE t \in Number -> Num(CHOOSE n \in 0..9 : Digit[n + 1] = t, 1)
      [] t = "'5'" -> <<"text", <<"5">>>> [] t = "'x'" -> <<"text", <<"x">>>>
      [] t \in {"true", "false"} -> Bool(t = "true")
      [] t = "null" -> <<"null">>

\* No control has the names typed here, and no module is loaded.
RECURSIVE Evaluate(_, _)
Evaluate(side, node) ==
    CASE node[1] = "literal" -> Literal(node[2])
      [] node[1] \in {"path", "call"} -> Error("#NAME?")
      [] node[1] = "negate" ->
            LET v == Evaluate(side, node[2])
            IN IF IsError(v) THEN v ELSE IF side = "designer" /\ ~IsNumeric(v) THEN Error("#VALUE!")
               ELSE Compute("-", Num(0, 1), AsNumber(v))
      [] node[1] = "not" -> LET v == Evaluate(side, node[2]) IN IF IsError(v) THEN v ELSE Bool(~Truthy(v))
      [] node[1] = "ternary" ->
            LET v == Evaluate(side, node[2])
            IN IF IsError(v) THEN v ELSE Evaluate(side, IF Truthy(v) THEN node[3] ELSE node[4])
      [] node[1] = "binary" -> Apply(side, node[2], Evaluate(side, node[3]), Evaluate(side, node[4]))

-----------------------------------------------------------------------------
(* Renaming a control *)

\* Mutated: a name after a dot is a head too.
HeadAnywhere(s, i) ==
    /\ Type(s, i) = "name" /\ Type(s, i + 1) # "("
    /\ ~(Type(s, i + 1) = "." /\ Type(s, i + 2) = "name" /\ Type(s, i + 3) = "(")

\* headNames: where a control's name may stand in a formula.
IsHead(s, i) ==
    /\ Type(s, i) = "name" /\ Type(s, i - 1) # "." /\ Type(s, i + 1) # "("
    /\ ~(Type(s, i + 1) = "." /\ Type(s, i + 2) = "name" /\ Type(s, i + 3) = "(")

RenameHeads(s) ==
    [i \in DOMAIN s |-> IF s[i] = Renamed /\ IsHead(s, i) THEN NewName ELSE s[i]]

-----------------------------------------------------------------------------
(* Properties *)

\* How tightly a node holds together, as an author reads it.
Strength(op) ==
    CASE op = "||" -> 1 [] op = "&&" -> 2 [] op \in {"<", ">", "<=", ">=", "==", "!="} -> 3
      [] op \in {"+", "-"} -> 4 [] OTHER -> 5

\* A tree written down again, with brackets only where a looser node stands in a
\* tighter place.
RECURSIVE Written(_, _), WrittenList(_)
WrittenList(nodes) ==
    IF nodes = <<>> THEN <<>>
    ELSE IF Len(nodes) = 1 THEN Written(nodes[1], 0)
    ELSE Written(nodes[1], 0) \o <<",">> \o WrittenList(Tail(nodes))
Written(node, least) ==
    LET holds == CASE node[1] = "ternary" -> 0 [] node[1] = "binary" -> Strength(node[2])
                   [] node[1] \in {"negate", "not"} -> 6 [] OTHER -> 7
        text ==
            CASE node[1] = "literal" -> <<node[2]>>
              [] node[1] = "path" -> <<node[2][1]>> \o
                    FoldLeft(LAMBDA done, part :
                        done \o IF part \in Name THEN <<".", part>> ELSE <<"[", part, "]">>,
                        <<>>, Tail(node[2]))
              [] node[1] = "call" ->
                    (IF Len(node[2]) = 1 THEN node[2] ELSE <<node[2][1], ".", node[2][2]>>)
                    \o <<"(">> \o WrittenList(node[3]) \o <<")">>
              [] node[1] = "negate" -> <<"-">> \o Written(node[2], 6)
              [] node[1] = "not" -> <<"!">> \o Written(node[2], 6)
              [] node[1] = "ternary" ->
                    Written(node[2], 1) \o <<"?">> \o Written(node[3], 0) \o <<":">> \o Written(node[4], 0)
              [] node[1] = "binary" ->
                    Written(node[3], Strength(node[2])) \o <<node[2]>> \o Written(node[4], Strength(node[2]) + 1)
    IN IF holds < least THEN <<"(">> \o text \o <<")">> ELSE text

\* Mapped over a tree: the heads of its paths.
RECURSIVE HeadsRenamed(_)
HeadsRenamed(node) ==
    CASE node[1] = "literal" -> node
      [] node[1] = "path" -> <<"path", [node[2] EXCEPT ![1] = IF @ = Renamed THEN NewName ELSE @]>>
      [] node[1] = "call" -> <<"call", node[2], [i \in DOMAIN node[3] |-> HeadsRenamed(node[3][i])]>>
      [] node[1] = "binary" -> <<"binary", node[2], HeadsRenamed(node[3]), HeadsRenamed(node[4])>>
      [] node[1] = "ternary" ->
            <<"ternary", HeadsRenamed(node[2]), HeadsRenamed(node[3]), HeadsRenamed(node[4])>>
      [] OTHER -> <<node[1], HeadsRenamed(node[2])>>

Arithmetic == Number \cup {"+", "-", "*", "/", "%", "(", ")"}

\* A formula is read as an author reads it, on both sides: the tree written down
\* with no bracket it can do without reads back as the same tree, and is the
\* formula itself where that has no brackets (designer.js and runtime.js parse).
TreeReadsAsWritten ==
    \A side \in {"designer", "page"} : Reads(side, formula) =>
        LET tree == Parse(side, formula)
        IN /\ Parse(side, Written(tree, 0)) = tree
           /\ ToSet(formula) \cap {"(", "["} = {} => Written(tree, 0) = formula

\* A published page computes what the designer showed, as long as a formula is
\* arithmetic on numbers (designer.js applyOperator, runtime.js binary).
SidesAgreeOnNumbers ==
    LET designed == Parse("designer", formula)
    IN (ToSet(formula) \subseteq Arithmetic /\ Reads("designer", formula)) =>
          /\ Parse("page", formula) = designed
          /\ Evaluate("page", designed) = Evaluate("designer", designed)

\* Renaming a control renames it wherever a formula means it, and nothing else
\* that is spelled the same (designer.js headNames).
RenameReachesTheControl ==
    Reads("designer", formula) =>
        Parse("designer", RenameHeads(formula)) = HeadsRenamed(Parse("designer", formula))

\* runtime.js:5-7: a page's "declarative bindings are evaluated by the same
\* deliberately small expression language the designer uses".
OneLanguage ==
    LET designed == Parse("designer", formula)
        published == Parse("page", formula)
    IN Reads("designer", formula) =>
          /\ Reads("page", formula)
          /\ Evaluate("page", published) = Evaluate("designer", designed)
=============================================================================
