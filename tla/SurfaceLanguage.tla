--------------------------- MODULE SurfaceLanguage ---------------------------
(* The surface language: a source, the sequence of its lexemes, is parsed to  *)
(* a tree with names and elaborated to a signature and a kernel term with de  *)
(* Bruijn indices.  Each step may fail, with the code of its first fault.     *)
(* Spans and messages are left out; so is the type of Booleans, as in         *)
(* KernelTerms.                                                               *)
EXTENDS KernelTerms

CONSTANTS
    MaxTokens,          \* maximumTokens
    MaxNesting,         \* maximumDepth
    MaxDeclarations,    \* maximumSignatureOperations
    MaxClauses          \* maximumOperationClauses

Failed(code) == [ok |-> FALSE, code |-> code]
Parsed(node, at) == [ok |-> TRUE, node |-> node, at |-> at]

-----------------------------------------------------------------------------
(* Lexemes and tokens.                                                        *)
Lexeme(kind, text) == [kind |-> kind, text |-> text]
Eof == Lexeme("eof", "")
Marker == "semantic.kernel-calculus/0018/v1"

Lex(source) ==
    LET tokens == SelectSeq(source, LAMBDA l : l.kind # "comment")
    IN IF Len(tokens) > MaxTokens THEN Failed("surface.lex.too-many-tokens")
       ELSE [ok |-> TRUE, tokens |-> Append(tokens, Eof)]

Reserved ==
    {"kernel", "effect", "run", "Unit", "Bool", "Int", "U", "F", "omega", "true", "false",
     "thunk", "resumption", "return", "let", "in", "force", "fun", "perform", "handle",
     "with", "operation", "resume"}

-----------------------------------------------------------------------------
(* The grammar: what follows the word that a form begins with.  Only the      *)
(* items that are no fixed token leave a part in the node.                    *)
Tok(text) == [item |-> "token", text |-> text]
Item(kind) == [item |-> kind]
Body == Item("computation")
Bracketed(kind) == <<Tok("["), Item(kind), Tok("]")>>
Parenthesized == <<Tok("("), Item("value"), Tok(")")>>

ComputationForms ==
    [return  |-> Bracketed("grade") \o <<Item("value")>>,
     let     |-> <<Item("name"), Tok("="), Body, Tok("in"), Body>>,
     force   |-> <<Item("value")>>,
     fun     |-> <<Tok("("), Item("name"), Tok(":"), Item("type"), Tok(")")>>
                 \o Bracketed("grade") \o <<Tok("=>"), Body>>,
     perform |-> Bracketed("grade") \o <<Item("name"), Tok("."), Item("name")>> \o Parenthesized,
     handle  |-> <<Item("name"), Tok("("), Body, Tok(")"), Tok("with"), Tok("{"),
                   Tok("return"), Item("name"), Tok("=>"), Body, Tok(";"),
                   Item("clauses"), Tok("}")>>,
     resume  |-> <<Item("name")>> \o Parenthesized]

ValueForms == [thunk |-> <<Tok("{"), Body, Tok("}")>>, resumption |-> <<Item("name")>>]

TypeForms == [Unit |-> << >>, Int |-> << >>, U |-> Bracketed("row") \o <<Item("result")>>]

ReturnForm == Bracketed("grade") \o <<Item("type")>>
FunctionForm ==
    <<Item("type"), Tok("->"), Tok("["), Item("grade"), Tok(";"), Item("row"), Tok("]"),
      Item("result")>>

Clause ==
    <<Tok("operation"), Item("name"), Tok("("), Item("name"), Tok(","), Item("name"), Tok(")"),
      Tok("=>"), Body, Tok(";")>>
EffectDeclaration ==
    <<Tok("effect"), Item("name"), Tok("."), Item("name"), Tok(":"), Item("type"), Tok("->"),
      Item("type"), Tok(";")>>
DocumentForm ==
    <<Tok("kernel"), Item("marker"), Tok(";"), Item("declarations"), Tok("run"), Body>>

-----------------------------------------------------------------------------
(* The parser, by recursive descent: ts are the tokens, at the cursor, depth  *)
(* the nesting so far.                                                        *)
RECURSIVE Parse(_, _, _, _), Series(_, _, _, _, _), Repeated(_, _, _, _, _, _)
RECURSIVE Applied(_, _, _), MoreNames(_, _, _)

Expected == Failed("surface.parse.expected")

(* Nodes: a form and its parts.                                               *)
Node(form, parts) == [form |-> form, parts |-> parts]
As(form, r) == IF r.ok THEN Parsed(Node(form, r.node), r.at) ELSE r
Only(r) == IF r.ok THEN Parsed(r.node[1], r.at) ELSE r

(* The items in order; the parts they leave follow those of done.             *)
Extended(before, r) == IF r.ok THEN Parsed(Append(before.node, r.node), r.at) ELSE r

Series(ts, items, at, depth, done) ==
    IF items = << >> THEN Parsed(done, at)
    ELSE LET before == Series(ts, Front(items), at, depth, done)
             item == Last(items)
         IN IF ~before.ok THEN before
            ELSE IF item.item # "token"
            THEN Extended(before, Parse(ts, item.item, before.at, depth))
            ELSE IF ts[before.at].text = item.text THEN Parsed(before.node, before.at + 1)
            ELSE Expected

Sequence(ts, items, at, depth) == Series(ts, items, at, depth, << >>)

(* The same items again while the first token is there, up to a limit.        *)
Repeated(ts, items, at, depth, limit, done) ==
    IF ts[at].text # Head(items).text THEN Parsed(done, at)
    ELSE IF Len(done) >= limit THEN Expected
    ELSE LET r == Sequence(ts, items, at, depth)
         IN IF ~r.ok THEN r ELSE Repeated(ts, items, r.at, depth, limit, Append(done, r.node))

ParseName(ts, at) ==
    IF ts[at].kind # "identifier" THEN Expected
    ELSE IF ts[at].text \in Reserved THEN Failed("surface.parse.reserved-name")
    ELSE Parsed(ts[at].text, at + 1)

ParseGrade(ts, at) ==
    IF ts[at].text \in Grades THEN Parsed(ts[at].text, at + 1) ELSE Expected

MoreNames(ts, at, done) ==
    LET r == ParseName(ts, at)
    IN IF ~r.ok THEN r
       ELSE IF ts[r.at].text = "," THEN MoreNames(ts, r.at + 1, Append(done, r.node))
       ELSE Parsed(Append(done, r.node), r.at)

ParseRow(ts, at) ==
    IF ts[at].text # "{" THEN Expected
    ELSE LET r == IF ts[at + 1].text = "}" THEN Parsed(<< >>, at + 1) ELSE MoreNames(ts, at + 1, << >>)
         IN IF ~r.ok THEN r ELSE IF ts[r.at].text = "}" THEN Parsed(r.node, r.at + 1) ELSE Expected

ParseTypeAtom(ts, at, depth) ==
    LET head == ts[at].text
    IN CASE head \in DOMAIN TypeForms -> As(head, Sequence(ts, TypeForms[head], at + 1, depth))
         [] head = "(" -> Only(Sequence(ts, <<Item("type"), Tok(")")>>, at + 1, depth))
         [] OTHER -> Expected

ParseResultType(ts, at, depth) ==
    IF ts[at].text = "F" THEN As("F", Sequence(ts, ReturnForm, at + 1, depth))
    ELSE As("->", Sequence(ts, FunctionForm, at, depth))

ParseValue(ts, at, depth) ==
    LET head == ts[at].text
    IN CASE head = "(" ->
              IF ts[at + 1].text = ")" THEN Parsed(Node("unit", << >>), at + 2)
              ELSE LET first == Parse(ts, "value", at + 1, depth)
                   IN IF ~first.ok THEN first
                      ELSE IF ts[first.at].text = ","
                      THEN As("pair", Series(ts, <<Item("value"), Tok(")")>>, first.at + 1, depth,
                                             <<first.node>>))
                      ELSE IF ts[first.at].text = ")" THEN Parsed(first.node, first.at + 1)
                      ELSE Expected
         [] ts[at].kind = "integer" -> Parsed(Node("int", <<ts[at].value>>), at + 1)
         [] head \in DOMAIN ValueForms -> As(head, Sequence(ts, ValueForms[head], at + 1, depth))
         [] ts[at].kind = "identifier" /\ head \notin Reserved ->
              Parsed(Node("var", <<head>>), at + 1)
         [] OTHER -> Expected

ParsePrefix(ts, at, depth) ==
    LET head == ts[at].text
    IN CASE head \in DOMAIN ComputationForms ->
              As(head, Sequence(ts, ComputationForms[head], at + 1, depth))
         [] head = "(" -> Only(Sequence(ts, <<Body, Tok(")")>>, at + 1, depth))
         [] OTHER -> Expected

(* A computation applied to as many arguments as follow it.                   *)
Applied(ts, left, depth) ==
    IF ~left.ok \/ ts[left.at].text # "(" THEN left
    ELSE Applied(ts, As("apply", Series(ts, Parenthesized, left.at, depth, <<left.node>>)), depth)

(* A product associates to the right.                                         *)
Product(ts, left, depth) ==
    IF ~left.ok \/ ts[left.at].text # "*" THEN left
    ELSE As("product", Series(ts, <<Tok("*"), Item("type")>>, left.at, depth, <<left.node>>))

Clauses(ts, at, depth) ==
    LET r == Repeated(ts, Clause, at, depth, MaxClauses, << >>)
    IN IF r.ok /\ r.node = << >> THEN Expected ELSE r

(* withinDepth: an atom of a type, a result type, a value and the prefix of a *)
(* computation are each one level deeper than what they stand in.             *)
Within(depth, r(_)) == IF depth >= MaxNesting THEN Failed("surface.parse.depth") ELSE r(depth + 1)

Parse(ts, kind, at, depth) ==
    CASE kind = "name" -> ParseName(ts, at)
      [] kind = "grade" -> ParseGrade(ts, at)
      [] kind = "row" -> ParseRow(ts, at)
      [] kind = "type" -> Product(ts, Within(depth, LAMBDA d : ParseTypeAtom(ts, at, d)), depth)
      [] kind = "result" -> Within(depth, LAMBDA d : ParseResultType(ts, at, d))
      [] kind = "value" -> Within(depth, LAMBDA d : ParseValue(ts, at, d))
      [] kind = "computation" -> Applied(ts, Within(depth, LAMBDA d : ParsePrefix(ts, at, d)), depth)
      [] kind = "clauses" -> Clauses(ts, at, depth)
      [] kind = "declarations" -> Repeated(ts, EffectDeclaration, at, depth, MaxDeclarations, << >>)
      [] kind = "marker" ->
           IF ts[at].kind = "string" /\ ts[at].text = Marker THEN Parsed(Marker, at + 1) ELSE Expected

WholeDocument(ts, r) ==
    IF ~r.ok THEN r
    ELSE IF ts[r.at].kind # "eof" THEN Failed("surface.parse.trailing-input")
    ELSE [ok |-> TRUE, declarations |-> r.node[2], program |-> r.node[3]]
ParseDocument(ts) == WholeDocument(ts, Sequence(ts, DocumentForm, 1, 0))

-----------------------------------------------------------------------------
(* Elaboration.  A scope lists the names of its binders, innermost first.     *)
EmptyScope == [values |-> << >>, resumptions |-> << >>]
Distance(names, name) == SelectInSeq(names, LAMBDA n : n = name) - 1
Bound(names, name) == Contains(names, name)

BindValue(scope, name) == [scope EXCEPT !.values = <<name>> \o @]
BindResumption(scope, name) == [scope EXCEPT !.resumptions = <<name>> \o @]
ClauseScope(scope, clause) == BindResumption(BindValue(scope, clause[2]), clause[3])

FaultCode(code) == <<"surface.elaboration." \o code>>
FaultIf(condition, code) == IF condition THEN FaultCode(code) ELSE << >>

(* A binder may not share its name with any binder in scope.                  *)
Collision_Shadows(scope, name) == << >>
Collision(scope, name) ==
    FaultIf(Bound(scope.values, name) \/ Bound(scope.resumptions, name), "ambiguous-binder")

Missing(names, others, name, code) ==
    IF Bound(names, name) THEN << >>
    ELSE FaultCode(IF Bound(others, name) THEN "wrong-binder-kind" ELSE code)
MissingValue(scope, name) == Missing(scope.values, scope.resumptions, name, "unbound-value")
MissingResumption(scope, name) == Missing(scope.resumptions, scope.values, name, "unbound-resumption")

Repeats(names) == \E i, j \in DOMAIN names : i < j /\ names[i] = names[j]
RowFaults(row) == FaultIf(Repeats(row), "duplicate-effect-label")

RECURSIVE TypeFaults(_), Type(_), Faults(_, _), ClauseFaults(_, _, _), TermOf(_, _)

TypeFaults(t) ==
    CASE t.form \in {"Unit", "Int"} -> << >>
      [] t.form = "product" -> TypeFaults(t.parts[1]) \o TypeFaults(t.parts[2])
      [] t.form = "U" -> RowFaults(t.parts[1]) \o TypeFaults(t.parts[2])
      [] t.form = "F" -> TypeFaults(t.parts[2])
      [] t.form = "->" -> TypeFaults(t.parts[1]) \o RowFaults(t.parts[3]) \o TypeFaults(t.parts[4])

Type(t) ==
    CASE t.form = "Unit" -> UnitType
      [] t.form = "Int" -> IntType
      [] t.form = "product" -> PairType(Type(t.parts[1]), Type(t.parts[2]))
      [] t.form = "U" -> ThunkType(ToSet(t.parts[1]), Type(t.parts[2]))
      [] t.form = "F" -> ReturnType(t.parts[1], Type(t.parts[2]))
      [] t.form = "->" ->
           FunctionType(Type(t.parts[1]), t.parts[2], ToSet(t.parts[3]), Type(t.parts[4]))

(* The faults of a term, in the order they are met.                           *)
Faults(t, scope) ==
    LET p == t.parts
    IN CASE t.form \in {"unit", "int"} -> << >>
         [] t.form = "var" -> MissingValue(scope, p[1])
         [] t.form = "resumption" -> MissingResumption(scope, p[1])
         [] t.form = "pair" -> Faults(p[1], scope) \o Faults(p[2], scope)
         [] t.form \in {"thunk", "force"} -> Faults(p[1], scope)
         [] t.form = "return" -> Faults(p[2], scope)
         [] t.form = "let" ->
              Faults(p[2], scope) \o Collision(scope, p[1]) \o Faults(p[3], BindValue(scope, p[1]))
         [] t.form = "fun" ->
              TypeFaults(p[2]) \o Collision(scope, p[1]) \o Faults(p[4], BindValue(scope, p[1]))
         [] t.form = "apply" -> Faults(p[1], scope) \o Faults(p[2], scope)
         [] t.form = "perform" -> Faults(p[4], scope)
         [] t.form = "handle" ->
              Faults(p[2], scope) \o Collision(scope, p[3]) \o Faults(p[4], BindValue(scope, p[3]))
                  \o ClauseFaults(p[5], 1, scope)
         [] t.form = "resume" -> MissingResumption(scope, p[1]) \o Faults(p[2], scope)

ClauseFaults(clauses, i, scope) ==
    IF i > Len(clauses) THEN << >>
    ELSE LET c == clauses[i]
         IN FaultIf(\E j \in 1..(i - 1) : clauses[j][1] = c[1], "duplicate-handler-clause")
                \o Collision(scope, c[2]) \o Collision(BindValue(scope, c[2]), c[3])
                \o Faults(c[4], ClauseScope(scope, c)) \o ClauseFaults(clauses, i + 1, scope)

(* The kernel term of a tree without faults.                                  *)
TermOf(t, scope) ==
    LET p == t.parts
    IN CASE t.form = "unit" -> UnitTerm
         [] t.form = "int" -> IntTerm(p[1])
         [] t.form = "var" -> Var(Distance(scope.values, p[1]))
         [] t.form = "resumption" -> ResumptionTerm(Distance(scope.resumptions, p[1]))
         [] t.form = "pair" -> PairTerm(TermOf(p[1], scope), TermOf(p[2], scope))
         [] t.form = "thunk" -> Thunk(TermOf(p[1], scope))
         [] t.form = "force" -> Force(TermOf(p[1], scope))
         [] t.form = "return" -> Return(p[1], TermOf(p[2], scope))
         [] t.form = "let" -> Let(TermOf(p[2], scope), TermOf(p[3], BindValue(scope, p[1])))
         [] t.form = "fun" -> Lambda(Type(p[2]), p[3], TermOf(p[4], BindValue(scope, p[1])))
         [] t.form = "apply" -> Apply(TermOf(p[1], scope), TermOf(p[2], scope))
         [] t.form = "perform" -> Operation(p[1], p[2], p[3], TermOf(p[4], scope))
         [] t.form = "handle" ->
              Handle(p[1], TermOf(p[2], scope), TermOf(p[4], BindValue(scope, p[3])),
                     [op \in {c[1] : c \in ToSet(p[5])} |->
                         LET c == p[5][SelectInSeq(p[5], LAMBDA e : e[1] = op)]
                         IN TermOf(c[4], ClauseScope(scope, c))])
         [] t.form = "resume" -> Resume(Distance(scope.resumptions, p[1]), TermOf(p[2], scope))

DeclarationFaults(declarations) ==
    FlattenSeq([i \in DOMAIN declarations |->
        FaultIf(\E j \in 1..(i - 1) : SubSeq(declarations[j], 1, 2) = SubSeq(declarations[i], 1, 2),
                "duplicate-signature-operation")
            \o TypeFaults(declarations[i][3]) \o TypeFaults(declarations[i][4])])

Elaborate(tree) ==
    LET faults == DeclarationFaults(tree.declarations) \o Faults(tree.program, EmptyScope)
    IN IF faults # << >> THEN Failed(Head(faults))
       ELSE [ok |-> TRUE, program |-> TermOf(tree.program, EmptyScope),
             signature |-> {[label |-> d[1], op |-> d[2], argument |-> Type(d[3]),
                             result |-> Type(d[4])] : d \in ToSet(tree.declarations)}]

TreeOf(lexed) == IF lexed.ok THEN ParseDocument(lexed.tokens) ELSE lexed
Elaborated(tree) == IF tree.ok THEN Elaborate(tree) ELSE tree

(* What a source says: its signature and its program, or its first fault.     *)
Compiled(source) == Elaborated(TreeOf(Lex(source)))
=============================================================================
