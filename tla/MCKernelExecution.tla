------------------------- MODULE MCKernelExecution -------------------------
(* Programs for KernelExecution: handled computations, clauses and places for *)
(* a handler, each of a few shapes, combined in every way.                    *)
EXTENDS EffectProjection, NormalizedCore

MCSignature ==
    <<[label |-> "A", op |-> "ask", argument |-> UnitType, result |-> IntType],
      [label |-> "B", op |-> "tell", argument |-> IntType, result |-> UnitType],
      [label |-> "C", op |-> "make", argument |-> UnitType,
       result |-> ThunkType({}, ReturnType("1", IntType))]>>

(* The operations of projected scripts are declared with them.                *)
RECURSIVE IntTuple(_)
IntTuple(n) == IF n = 1 THEN IntType ELSE PairType(IntType, IntTuple(n - 1))
MCAllOperations ==
    MCSignature \o [n \in DOMAIN ProjectedOperations |->
        [label |-> ProjectedOperations[n][1], op |-> ProjectedOperations[n][2],
         argument |-> IntTuple(5), result |-> UnitType]]

Ask == Operation("1", "A", "ask", UnitTerm)
Tell(v) == Operation("1", "B", "tell", v)
Make == Operation("1", "C", "make", UnitTerm)
Done == Return("1", Var(0))
Then(c) == Let(c, Done)

(* Computations of an int that ask, asking none to two times.                 *)
Handled ==
    {Return("1", IntTerm(1)), Ask, Let(Ask, Ask), Let(Ask, Let(Ask, Return("1", Var(1)))),
     Force(Thunk(Ask)), Let(Tell(IntTerm(2)), Ask),
     Apply(Lambda(IntType, "1", Let(Ask, Return("1", Var(1)))), IntTerm(3)),
     Let(Return("1", Thunk(Ask)), Force(Var(0)))}

(* Clauses of ask: tail and other resumptions, none, two, an effect of their  *)
(* own first, a resumption kept in a thunk.                                   *)
AskClauses ==
    {Resume(0, IntTerm(5)), Then(Resume(0, IntTerm(5))), Return("1", IntTerm(9)),
     Let(Resume(0, IntTerm(5)), Resume(0, IntTerm(6))),
     Let(Tell(IntTerm(4)), Resume(0, IntTerm(5))), Let(Ask, Resume(0, Var(0))),
     Let(Return("1", Thunk(Resume(0, IntTerm(5)))), Force(Var(0))),
     Let(Return("omega", Thunk(Resume(0, IntTerm(5)))), Let(Force(Var(0)), Force(Var(1))))}

TellClauses == {Resume(0, UnitTerm), Return("1", IntTerm(8)), Resume(1, IntTerm(6)),
                Let(Resume(1, IntTerm(6)), Resume(0, UnitTerm))}

WithAsk(c, clause) == Handle("A", c, Done, [op \in {"ask"} |-> clause])
WithMake(c, clause) == Handle("C", c, Done, [op \in {"make"} |-> clause])
WithTell(c, clause) == Handle("B", c, Done, [op \in {"tell"} |-> clause])

Handlers == {WithAsk(c, clause) : c \in Handled, clause \in AskClauses}

(* A handler of tell inside a clause of ask, told once or twice.              *)
Telling == {Let(Tell(IntTerm(2)), Resume(0, IntTerm(5))),
            Let(Tell(IntTerm(2)), Return("1", IntTerm(7))),
            Let(Tell(IntTerm(2)), Let(Tell(IntTerm(3)), Return("1", IntTerm(7))))}
Nested == {WithAsk(Ask, WithTell(c, clause)) : c \in Telling, clause \in TellClauses}

Wrapped(h) ==
    {h, Let(h, Return("1", PairTerm(Var(0), IntTerm(0)))), Force(Thunk(h)),
     Let(Force(Thunk(h)), Return("1", PairTerm(Var(0), IntTerm(0)))),
     WithTell(h, Resume(0, UnitTerm)), WithTell(h, Then(Resume(0, UnitTerm))),
     Force(Thunk(WithTell(Force(Thunk(h)), Resume(0, UnitTerm)))),
     WithTell(Let(Force(Thunk(h)), Let(Tell(Var(0)), Return("1", Var(1)))), Resume(0, UnitTerm))}

(* Programs that no handler is in, and some the checker rejects.              *)
Plain ==
    {Make, Then(Make), Let(Make, Force(Var(0))), Lambda(IntType, "1", Done),
     Let(Return("1", IntTerm(1)), Return("1", PairTerm(Var(0), Var(0)))),
     Let(Return("omega", IntTerm(1)), Return("1", PairTerm(Var(0), Var(0)))),
     Let(Return("0", IntTerm(1)), Done), Force(IntTerm(1)), Resume(0, UnitTerm),
     Let(Ask, Let(Tell(Var(0)), Let(Ask, Return("1", PairTerm(Var(0), Var(2)))))),
     Let(Ask, Return("omega", PairTerm(Var(0), Thunk(Ask)))), Let(Ask, Tell(UnitTerm)),
     Let(Return("omega", Thunk(Ask)), Let(Force(Var(0)), Let(Force(Var(1)),
         Return("1", PairTerm(Var(0), Var(1)))))),
     Let(Return("1", Thunk(Ask)), Let(Force(Var(0)), Force(Var(1)))),
     Apply(Lambda(ThunkType({"A"}, ReturnType("1", IntType)), "1", Force(Var(0))), Thunk(Ask)),
     WithMake(Let(Make, Force(Var(0))), Resume(0, Thunk(Return("1", IntTerm(2))))),
     WithMake(Let(Make, Force(Var(0))), Resume(0, Thunk(Ask))),
     WithMake(Return("1", IntTerm(1)), Return("1", IntTerm(9))),
     Handle("A", Ask, Return("1", PairTerm(Var(0), Var(0))), [op \in {"ask"} |-> Resume(0, IntTerm(5))]),
     Handle("A", Ask, Done, [op \in {"tell"} |-> Done])}

(* Programs too deep, or too large, for one decoder or the other.             *)
RECURSIVE DeepLet(_), WidePair(_)
DeepLet(n) == IF n = 0 THEN Ask ELSE Let(DeepLet(n - 1), Done)
WidePair(n) == IF n = 0 THEN UnitTerm ELSE PairTerm(WidePair(n - 1), WidePair(n - 1))
Large == {DeepLet(n) : n \in {12, 14, 16, 18, 20}}
         \cup {Return("1", p) : p \in {WidePair(5), WidePair(6), PairTerm(WidePair(6), WidePair(4)), WidePair(7)}}

(* Programs a document may hold, each against one rule of the checker.        *)
Unruly ==
    {Return("1", Var(3)), Operation("1", "A", "look", UnitTerm), Let(Lambda(IntType, "1", Done), Done),
     Apply(Return("1", UnitTerm), UnitTerm), Apply(Lambda(IntType, "1", Done), UnitTerm),
     Handle("D", Ask, Done, [op \in {"ask"} |-> Done]), WithAsk(Ask, Return("1", UnitTerm)),
     Handle("A", Ask, Return("omega", Var(0)), [op \in {"ask"} |-> Return("omega", IntTerm(9))]),
     Handle("A", Lambda(IntType, "1", Done), Done, [op \in {"ask"} |-> Resume(0, IntTerm(5))])}

(* Those that artifacts are written for, with a handler in a handler.        *)
SomeSlots == PairTerm(IntTerm(1), PairTerm(IntTerm(0), PairTerm(IntTerm(2), PairTerm(IntTerm(0), IntTerm(0)))))
ManyClauses ==
    Handle("lifecycle", Let(Operation("1", "lifecycle", "exit", SomeSlots), Ask), Done,
           [op \in {"open", "acquire", "transfer", "release", "exit"} |-> Resume(0, UnitTerm)])
MCFiled ==
    {ManyClauses} \cup Plain \cup Unruly \cup Nested \cup {WithAsk(Ask, clause) : clause \in AskClauses}
        \cup {WithTell(Let(Ask, WithAsk(Ask, clause)), Resume(0, UnitTerm)) : clause \in AskClauses}

AllPrograms == Large \cup MCFiled \cup UNION {Wrapped(h) : h \in Handlers \cup Nested}

(* Sources: a program written down, with the names that a naming gives to the *)
(* binders.  Fresh names are all different; reused ones are the same whenever *)
(* the code lets them be, and sometimes when it does not.                     *)
Namings == {[value |-> [n \in 0..6 |-> "x" \o ToString(n)], resumption |-> [n \in 0..6 |-> "k" \o ToString(n)]],
            [value |-> [n \in 0..6 |-> IF n < 2 THEN "x" ELSE "y"], resumption |-> [n \in 0..6 |-> "k"]],
            [value |-> [n \in 0..6 |-> "x" \o ToString(n)], resumption |-> [n \in 0..6 |-> "x" \o ToString(n)]]}


RECURSIVE Spelled(_), Spoken(_, _, _, _)
Row(labels) ==
    LET names == SetToSeq(labels)
    IN Inside("{", FlattenSeq([i \in DOMAIN names |->
                       (IF i = 1 THEN << >> ELSE Mark(",")) \o Word(names[i])]), "}")
Spelled(type) ==
    CASE type.k = "unit" -> Word("Unit")
      [] type.k = "int" -> Word("Int")
      [] type.k = "pair" -> Inside("(", Spelled(type.first) \o Mark("*") \o Spelled(type.second), ")")
      [] type.k = "thunk" -> Word("U") \o Inside("[", Row(type.effects), "]") \o Spelled(type.computation)
      [] type.k = "return" -> Word("F") \o Graded(type.grade) \o Spelled(type.value)

Named(naming, n) == Word(naming.value[n])
Resuming(naming, n) == Word(naming.resumption[n])

(* A term in the scope of v values and r resumptions.                         *)
Spoken(t, naming, v, r) ==
    LET Here(u) == Spoken(u, naming, v, r)
        Deeper(u) == Spoken(u, naming, v + 1, r)
        In(u) == Inside("(", Here(u), ")")
    IN CASE t.k = "var" -> Named(naming, v - 1 - t.index)
         [] t.k = "unit" -> Mark("(") \o Mark(")")
         [] t.k = "int" -> Number(t.literal)
         [] t.k = "pair" -> Inside("(", Here(t.first) \o Mark(",") \o Here(t.second), ")")
         [] t.k = "thunk" -> Word("thunk") \o Inside("{", Here(t.body), "}")
         [] t.k = "return" -> Word("return") \o Graded(t.grade) \o Here(t.arg)
         [] t.k = "force" -> Word("force") \o Here(t.arg)
         [] t.k = "let" -> Word("let") \o Named(naming, v) \o Mark("=") \o Here(t.bound)
                               \o Word("in") \o Deeper(t.body)
         [] t.k = "lambda" -> Word("fun") \o Inside("(", Named(naming, v) \o Mark(":") \o Spelled(t.parameter), ")")
                               \o Graded(t.grade) \o Mark("=>") \o Deeper(t.body)
         [] t.k = "apply" -> In(t.bound) \o In(t.arg)
         [] t.k = "operation" -> Word("perform") \o Graded(t.grade) \o Word(t.label) \o Mark(".")
                               \o Word(t.op) \o In(t.arg)
         [] t.k = "resume" -> Word("resume") \o Resuming(naming, r - 1 - t.index) \o In(t.arg)
         [] t.k = "handle" ->
              LET ops == SetToSeq(DOMAIN t.clauses)
              IN Word("handle") \o Word(t.label) \o In(t.bound) \o Word("with")
                 \o Inside("{", Word("return") \o Named(naming, v) \o Mark("=>") \o Deeper(t.body) \o Mark(";")
                     \o FlattenSeq([i \in DOMAIN ops |->
                            Word("operation") \o Word(ops[i])
                            \o Inside("(", Named(naming, v) \o Mark(",") \o Resuming(naming, r), ")")
                            \o Mark("=>") \o Spoken(t.clauses[ops[i]], naming, v + 1, r + 1)
                            \o Mark(";")]), "}")

Header ==
    Word("kernel") \o <<Lexeme("string", Marker), Lexeme("comment", "..")>> \o Mark(";")
        \o FlattenSeq([i \in DOMAIN MCSignature |->
               Word("effect") \o Word(MCSignature[i].label) \o Mark(".") \o Word(MCSignature[i].op)
               \o Mark(":") \o Spelled(MCSignature[i].argument) \o Mark("->")
               \o Spelled(MCSignature[i].result) \o Mark(";")])

(* Terms in which a resumption is named that no clause binds have no source.  *)
Sayable == {p \in Large \cup Plain : p # Resume(0, UnitTerm)}
        \cup UNION {Wrapped(h) : h \in {WithAsk(Ask, c) : c \in AskClauses} \cup Nested}
(* Sources that say no program: each has one fault.                           *)
Run(body) == Header \o Word("run") \o body
ReturnUnit == Spoken(Return("1", UnitTerm), CHOOSE n \in Namings : TRUE, 0, 0)
AskWith(clauses) ==
    Word("handle") \o Word("A") \o Inside("(", ReturnUnit, ")") \o Word("with")
        \o Inside("{", Word("return") \o Word("r") \o Mark("=>") \o ReturnUnit \o Mark(";") \o clauses, "}")
AskClause(argument, resumption, body) ==
    Word("operation") \o Word("ask") \o Inside("(", Word(argument) \o Mark(",") \o Word(resumption), ")")
        \o Mark("=>") \o body \o Mark(";")
Sum(type) == Word("fun") \o Inside("(", Word("f") \o Mark(":") \o type, ")") \o Graded("1") \o Mark("=>") \o ReturnUnit
Again == SubSeq(Header, 5, 13)
Faulty ==
    {Header \o Header, Header \o Again \o Word("run") \o ReturnUnit,
     Header \o Again \o Again \o Again \o Again \o Word("run") \o ReturnUnit, Run(ReturnUnit \o Word("x")), Run(Word("let") \o Word("in") \o Mark("=") \o ReturnUnit),
     SubSeq(Header, 1, 3) \o SubSeq(Header, 5, Len(Header)) \o SubSeq(Header, 5, 12) \o Word("run") \o ReturnUnit,
     Run(Word("force") \o Word("x")), Run(Word("resume") \o Word("k") \o Inside("(", Number(1), ")")),
     Run(AskWith(<< >>)), Run(AskWith(AskClause("a", "k", ReturnUnit) \o AskClause("a", "k", ReturnUnit))),
     Run(AskWith(AskClause("a", "a", ReturnUnit))), Run(AskWith(AskClause("a", "k", Word("force") \o Word("k")))),
     Run(AskWith(AskClause("a", "k", Word("resume") \o Word("a") \o Inside("(", Number(1), ")")))),
     Run(Sum(Word("U") \o Inside("[", Inside("{", Word("A") \o Mark(",") \o Word("A"), "}"), "]")
             \o Word("F") \o Graded("1") \o Word("Int")))}

MCSources == {[text |-> f, meant |-> Unbound] : f \in Faulty} \cup
             {[text |-> Header \o Word("run") \o Spoken(p, naming, 0, 0), meant |-> p] :
                 p \in Sayable, naming \in Namings}

MCRequests == {Request(MCSignature[i].label, MCSignature[i].op, v) :
                  i \in DOMAIN MCSignature, v \in {UnitTerm} \cup {IntTerm(n) : n \in 0..9}}
MCValues == {UnitTerm, IntTerm(7)}
MCScripts == {<< >>, <<IntTerm(7)>>, <<UnitTerm, IntTerm(7)>>, <<IntTerm(7), UnitTerm, UnitTerm>>}
(* Lifecycle scripts: what is set up, then what is done with it, then an end. *)
Opening(s, p) == [tag |-> "open", scope |-> s, parent |-> p]
Acquiring(a, s, r, o) == [tag |-> "acquire", attempt |-> a, scope |-> s, resource |-> r, outcome |-> o]
Refused(a, s) == [tag |-> "acquire", attempt |-> a, scope |-> s, outcome |-> "refused"]
Transferring(r, s, t) == [tag |-> "transfer", resource |-> r, scope |-> s, to |-> t]
Releasing(r, s) == [tag |-> "release", resource |-> r, scope |-> s]
Exiting(s) == [tag |-> "exit", scope |-> s]

Pipe(s) == Acquiring("a", s, "pipe", "succeeded")
File(s) == Acquiring("b", s, "file", "failed")
SetUp == {<<Pipe("root")>>, <<Pipe("root"), File("root")>>, <<Refused("a", "root")>>,
          <<Opening("left", "root"), Pipe("left")>>, <<Opening("left", "root"), File("root"), Pipe("left")>>,
          <<Pipe("root"), File("root"), Acquiring("c", "root", "port", "succeeded")>>}
Dealing == {<< >>, <<Transferring("pipe", "left", "root")>>, <<Releasing("pipe", "root")>>,
            <<Transferring("pipe", "left", "root"), Transferring("pipe", "root", "left")>>,
            <<Opening("left", "root"), Transferring("pipe", "root", "left")>>,
            <<Transferring("file", "root", "left")>>, <<Exiting("root")>>, <<Opening("left", "root"), Exiting("root")>>}
Ending == {<< >>, <<Exiting("root")>>, <<Exiting("left")>>, <<Exiting("left"), Exiting("root")>>,
           <<Releasing("pipe", "left")>>, <<Releasing("file", "root"), Exiting("left")>>}
MCHistories == {a \o b \o c : a \in SetUp, b \in Dealing, c \in Ending}
MCNames == <<"file", "left", "pipe", "port", "root">>

(* What authors say of their sources, and what is wrong with some of it.      *)
Link(path, key, role, start, end) == [path |-> path, key |-> key, role |-> role, start |-> start, end |-> end]
Whole == <<Field("term")>>
BoundPart == <<Field("term"), Field("bound")>>
FirstClause == <<Field("term"), Field("clauses"), Index(0), Field("body")>>
TwoUnits == <<[key |-> "m", uri |-> "main", length |-> 9], [key |-> "l", uri |-> "lib", length |-> 5]>>
Saying(assumptions, units, correspondence) ==
    [assumptions |-> assumptions, units |-> units, correspondence |-> correspondence]
MCMetadata ==
    {Saying(<< >>, << >>, << >>),
     Saying(<<"total", "pure">>, TwoUnits,
              <<Link(Whole, "m", "expression", 0, 9), Link(<<Field("summary"), Field("type")>>, "l", "type", 1, 5),
                Link(Whole, "l", "expression", 5, 5)>>),
     Saying(<< >>, TwoUnits, <<Link(BoundPart, "m", "definition", 1, 4), Link(Whole, "m", "definition", 0, 4)>>),
     Saying(<<"pure">>, TwoUnits, <<Link(FirstClause, "l", "expression", 0, 4),
                                      Link(<<Field("signature"), Index(1)>>, "l", "type", 0, 4)>>),
     Saying(<<"pure", "total", "pure">>, << >>, << >>), Saying(<<"pure", "pure">>, << >>, << >>),
     Saying(<< >>, <<TwoUnits[1], TwoUnits[1]>>, << >>),
     Saying(<< >>, <<TwoUnits[1], [TwoUnits[1] EXCEPT !.key = "l"]>>, << >>),
     Saying(<< >>, TwoUnits \o TwoUnits, << >>),
     Saying(<< >>, TwoUnits, <<Link(Whole, "n", "type", 0, 1)>>), Saying(<< >>, TwoUnits, <<Link(Whole, "l", "type", 2, 6)>>),
     Saying(<< >>, TwoUnits, <<Link(Whole, "l", "type", 2, 3), Link(Whole, "l", "type", 2, 3)>>),
     Saying(<< >>, TwoUnits, [i \in 1..4 |-> Link(Whole, "m", "type", 0, i)])}
MCCodePoints == <<"A", "B", "C", "acquire", "ask", "assumptions", "body", "bound", "cleanup", "clauses", "definition",
                  "exit", "expression", "finalize", "lib", "lifecycle", "main", "make", "open", "pure", "release",
                  "signature", "summary", "tell", "term", "total", "transfer", "type">>

(* What others make of an artifact.                                           *)
RECURSIVE Turned(_)
Turned(t) ==                            \* every list of clauses reversed
    [f \in DOMAIN t |-> CASE f = "clauses" -> Reverse([i \in DOMAIN t.clauses |->
                                  [t.clauses[i] EXCEPT !.body = Turned(@)]])
                          [] f \in PartFields \ {"parameter"} -> Turned(t[f])
                          [] OTHER -> t[f]]
MCRewritten(a) ==
    {a, [a EXCEPT !.version = 2], [a EXCEPT !.obligations = <<"proof">>],
     [a EXCEPT !.signature = Reverse(@)], [a EXCEPT !.signature = Tail(@)], [a EXCEPT !.signature = Front(@)],
     [a EXCEPT !.signature = <<Head(@)>> \o @], [a EXCEPT !.term = Turned(@)],
     [a EXCEPT !.term = Return("1", UnitTerm)], [a EXCEPT !.summary.effects = Reverse(@)],
     [a EXCEPT !.summary.effects = @ \o @], [a EXCEPT !.summary.effects = <<"B">>],
     [a EXCEPT !.summary.type = ReturnType("0", UnitType)], [a EXCEPT !.summary.usage = <<"1">>],
     [a EXCEPT !.assumptions = Reverse(@)], [a EXCEPT !.assumptions = @ \o @],
     [a EXCEPT !.assumptions = SubSeq(@, 2, Len(@))], [a EXCEPT !.units = Reverse(@)],
     [a EXCEPT !.units = SubSeq(@, 2, Len(@))], [a EXCEPT !.correspondence = Reverse(@)],
     [a EXCEPT !.correspondence = SubSeq(@, 2, Len(@))], [a EXCEPT !.correspondence = @ \o @],
     [a EXCEPT !.correspondence = [i \in DOMAIN @ |-> [@[i] EXCEPT !.end = 6]]],
     [a EXCEPT !.correspondence = [i \in DOMAIN @ |-> [@[i] EXCEPT !.path = BoundPart]]],
     [a EXCEPT !.semantic = a.self]}

MCBounds == {[reference |-> 100, compiled |-> 200], [reference |-> 12, compiled |-> 14]}
-----------------------------------------------------------------------------
(* The tools that work on kernel programs, together: commands that check and  *)
(* run them (KernelExecution), the projection of lifecycle scripts to them    *)
(* (EffectProjection) and the artifacts they are written to (NormalizedCore). *)
ToolsInit == ProjectionInit /\ CoreInit
ToolsNext ==
    \/ ProjectionNext /\ UNCHANGED coreVars
    \/ ~Projecting /\ CoreNext /\ UNCHANGED projectionVars
ToolsSpec == ToolsInit /\ [][ToolsNext]_<<allVars, coreVars>>
=============================================================================
