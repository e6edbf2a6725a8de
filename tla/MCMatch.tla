------------------------------- MODULE MCMatch -------------------------------
(* Types, values and patterns for MatchExpression. *)
EXTENDS MatchExpression, FiniteSetsExt

MCShape ==
  [bool   |-> [kind |-> "bool"],
   small  |-> [kind |-> "integer", low |-> -1, high |-> 2],
   text   |-> [kind |-> "open"],
   never  |-> [kind |-> "never"],
   maybe  |-> [kind |-> "option", value |-> "bool"],
   twice  |-> [kind |-> "option", value |-> "maybe"],
   failed |-> [kind |-> "result", value |-> "never", error |-> "text"],
   tried  |-> [kind |-> "result", value |-> "bool", error |-> "text"],
   step   |-> [kind |-> "step", value |-> "small"],
   pair   |-> [kind |-> "array", element |-> "bool", length |-> 2],
   nevers |-> [kind |-> "array", element |-> "never", length |-> 1],
   list   |-> [kind |-> "array", element |-> "bool", length |-> Growable],
   point  |-> [kind |-> "struct", fields |-> <<"bool", "maybe">>],
   void   |-> [kind |-> "struct", fields |-> <<"bool", "void">>],
   node   |-> [kind |-> "struct", fields |-> <<"next">>],
   next   |-> [kind |-> "option", value |-> "node"],
   choice |-> [kind |-> "enum", variants |-> << << >>, <<"bool">>, <<"never">> >>],
   chain  |-> [kind |-> "enum", variants |-> << << >>, <<"chain">> >>],
   tree   |-> [kind |-> "enum", variants |-> << <<"tree">>, << >> >>],
   a      |-> [kind |-> "enum", variants |-> << <<"b">>, << >> >>],
   b      |-> [kind |-> "enum", variants |-> << <<"a">> >>],
   both   |-> [kind |-> "struct", fields |-> <<"a", "b">>]]

EndlessTypes  == {"tree"}
GrowableTypes == {"list", "bool"}
CyclicTypes   == {"a", "b", "both"}
SoundTypes    == DOMAIN MCShape \ (EndlessTypes \cup CyclicTypes)

-----------------------------------------------------------------------------
\* The values, with recursive types and growable arrays cut off.

C(con, arguments) == [con |-> con, arguments |-> arguments]

Products(sets) == {s \in [DOMAIN sets -> UNION Range(sets)] : \A i \in DOMAIN sets : s[i] \in sets[i]}

RECURSIVE ValuesTo(_, _)
ValuesTo(t, depth) ==
  LET shape == MCShape[t]
      Of(con, types) == {C(con, s) : s \in Products([i \in DOMAIN types |-> ValuesTo(types[i], depth - 1)])}
  IN  IF depth = 0 THEN {}
      ELSE CASE shape.kind = "bool"    -> {C(<<"bool", b>>, << >>) : b \in {"false", "true"}}
             [] shape.kind = "integer" -> {C(<<"int", i>>, << >>) : i \in shape.low .. shape.high}
             [] shape.kind = "open"    -> {C(<<"text", s>>, << >>) : s \in {"x", "y", "z"}}
             [] shape.kind = "never"   -> {}
             [] shape.kind = "option"  -> {C(<<"none">>, << >>)} \cup Of(<<"some">>, <<shape.value>>)
             [] shape.kind = "step"    -> {C(<<"end">>, << >>)} \cup Of(<<"item">>, <<shape.value>>)
             [] shape.kind = "result"  -> Of(<<"ok">>, <<shape.value>>) \cup Of(<<"err">>, <<shape.error>>)
             [] shape.kind = "struct"  -> Of(<<"struct", t>>, shape.fields)
             [] shape.kind = "enum"    ->
                  UNION {Of(<<"variant", t, v>>, shape.variants[v]) : v \in DOMAIN shape.variants}
             [] shape.kind = "array"   ->
                  UNION {Of(<<"array">>, [i \in 1 .. n |-> shape.element]) :
                           n \in IF shape.length = Growable THEN 0 .. 4 ELSE {shape.length}}

MCValues == [t \in DOMAIN MCShape |-> ValuesTo(t, 7)]

\* The patterns: those of one constructor, with wildcards or a few patterns
\* inside, and some alternations.
Literal(con) == Constructed(con, << >>)
T == Literal(<<"bool", "true">>)
F == Literal(<<"bool", "false">>)
N == Literal(<<"none">>)
I(i) == Literal(<<"int", i>>)
W == Irrefutable
Or(p, q) == Alternation(<<p, q>>)
S(con, p) == Constructed(con, <<p>>)
Some1(p) == S(<<"some">>, p)
R(t, arguments) == Constructed(<<"struct", t>>, arguments)
V(t, n, p) == S(<<"variant", t, n>>, p)
U(t, n) == Literal(<<"variant", t, n>>)
L(prefix, suffix) == Array(prefix, TRUE, suffix)
E(elements) == Array(elements, FALSE, << >>)

MCPatterns ==
  [bool   |-> {W, T, F, Or(T, Or(F, T)), Or(T, W)},
   small  |-> {W, I(0), I(2), IntRange(-1, 1, FALSE), IntRange(1, 2, TRUE),
               Or(I(0), IntRange(0, 2, FALSE)), IntRange(1, 1, FALSE)},
   text   |-> {W, Literal(<<"text", "x">>), Literal(<<"text", "y">>),
               Or(Literal(<<"text", "x">>), Literal(<<"text", "y">>))},
   never  |-> {W},
   maybe  |-> {W, N, Some1(W), Some1(T), Some1(F), Or(N, Some1(T))},
   twice  |-> {W, N, Some1(N), Some1(W), Some1(Some1(T)), Some1(Or(N, Some1(F)))},
   failed |-> {W, S(<<"ok">>, W), S(<<"err">>, W), S(<<"err">>, Literal(<<"text", "x">>))},
   tried  |-> {W, S(<<"ok">>, W), S(<<"ok">>, T), S(<<"err">>, W), S(<<"err">>, Literal(<<"text", "x">>))},
   step   |-> {W, Literal(<<"end">>), S(<<"item">>, W), S(<<"item">>, IntRange(-1, 1, TRUE)), S(<<"item">>, I(2))},
   pair   |-> {W, E(<<T, W>>), E(<<W, F>>), E(<<F, F>>), L(<<F>>, <<T>>), E(<<W>>), Or(E(<<T, W>>), E(<<W, T>>))},
   nevers |-> {W, E(<<W>>)},
   list   |-> {W, E(<< >>), E(<<W>>), E(<<T, F>>), L(<<T>>, << >>), L(<< >>, <<F>>), L(<<F>>, <<T>>),
               L(<<W>>, <<W>>)},
   point  |-> {W, R("point", <<T, W>>), R("point", <<F, Some1(W)>>), R("point", [i \in {2} |-> N]),
               R("point", [i \in {2} |-> Some1(T)]), R("point", [i \in {1} |-> Or(T, F)])},
   void   |-> {W, R("void", <<W, W>>)},
   node   |-> {W, R("node", <<W>>), R("node", <<N>>), R("node", <<Some1(R("node", <<N>>))>>)},
   next   |-> {W, N, Some1(W), Some1(R("node", <<N>>)), Some1(R("node", <<Some1(W)>>))},
   choice |-> {W, U("choice", 1), V("choice", 2, W), V("choice", 2, T), V("choice", 2, F), V("choice", 3, W),
               U("choice", 2)},
   chain  |-> {W, U("chain", 1), V("chain", 2, W), V("chain", 2, U("chain", 1)),
               V("chain", 2, V("chain", 2, W))},
   tree   |-> {W, U("tree", 2), V("tree", 1, W)},
   a      |-> {W, U("a", 2), V("a", 1, W)},
   b      |-> {W, V("b", 1, W), V("b", 1, U("a", 2))},
   both   |-> {W, R("both", <<U("a", 2), W>>)}]

\* Prefixes and suffixes that overlap at a length of seven, which is not tried.
W5 == [i \in 1 .. 5 |-> W]
Overlapping ==
  Alternation(<<E(<< >>), E(<<W>>), E(<<W, W>>), E(W5),
                L(<<T>>, << >>), L(<<W, T>>, << >>), L(<<W, W, W, T, W>>, << >>),
                L(<< >>, <<F, W, W>>), L(W5, <<W, W, W>>)>>)
OverlappingPatterns == [bool |-> {W}, list |-> {Overlapping}]
LongValues ==
  [bool |-> MCValues["bool"],
   list |-> {C(<<"array">>, v) : v \in [1 .. 7 -> MCValues["bool"]]}]

\* With what the patterns are made of, and those that stand for a constructor.
StandIns ==
  UNION {{Constructed(con, [i \in DOMAIN ArgumentTypes(con, t) |-> W]) :
            con \in Range(ConstructorsOf(t))} : t \in Types}

WholePatterns == UNION {PatternsOf[t] : t \in Types} \cup StandIns \cup {Irrefutable, Invalid}
WithParts     == UNION {{p} \cup Inside(p) : p \in WholePatterns}
WithTheirs    == UNION {{p} \cup Inside(p) : p \in WithParts}
WithAll       == UNION {{p} \cup Inside(p) : p \in WithTheirs}

\* TLC evaluates what stands for a constant at each use, and what that names once.
AllPatterns == WithAll

RECURSIVE HeightOf(_)
HeightOf(p) == 1 + Max({HeightOf(q) : q \in Inside(p)} \cup {0})

MCHeight == [p \in AllPatterns |-> HeightOf(p)]

-----------------------------------------------------------------------------
\* The patterns of an example are made by the analysis: their test is written
\* for those, which have no alternations and no rests.
RECURSIVE IsExample(_, _)
IsExample(p, v) ==
  CASE p.kind = "constructed" ->
         p.con = v.con /\ \A i \in DOMAIN p.arguments : IsExample(p.arguments[i], v.arguments[i])
    [] p.kind = "range"       -> p.start <= v.con[2] /\ v.con[2] <= p.end
    [] p.kind = "array"       ->
         /\ Len(v.arguments) = Len(p.prefix)
         /\ \A i \in DOMAIN p.prefix : IsExample(p.prefix[i], v.arguments[i])
    [] OTHER                  -> p = Irrefutable

\* The analysis comes to an end, and each example it gives for what is missing
\* stands for a value that no arm without a guard takes.
EndsWithExamples ==
  /\ AnalysisEnds
  /\ phase = "rejected" /\ ~errors => \A m \in missing : \E v \in ValuesOf[matched] :
       IsExample(m.witness[1], v) /\ \A j \in EarlierArms(Len(arms) + 1) : ~Takes(j, v)
=============================================================================
