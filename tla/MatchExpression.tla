---------------------------- MODULE MatchExpression ----------------------------
(* A match from its check to its run.  The checker takes the arms in order:    *)
(* it reports an arm that cannot be selected, keeps the patterns of the arms   *)
(* without a guard, and asks at the end what is missing                        *)
(* (src/typeck/expressions.rs).  The compiled match tries the arms in order    *)
(* and traps when none is selected (src/codegen/expression.rs).               *)
EXTENDS PatternUsefulness

CONSTANTS PatternsOf,   \* the patterns an arm may have, for each type
          ValuesOf,     \* the values the program may meet, for each type
          MaxArms,
          MaxGuarded    \* how many arms may have a guard

VARIABLES matched,      \* the type of the value that is matched
          arms,         \* the arms written so far
          unguarded,    \* the patterns that count for the arms that follow
          reported,     \* the arms that are reported as unreachable
          errors,       \* another error was reported
          missing,      \* the answers for what no arm takes
          phase,        \* "checking", "overflow", "rejected", "running", "selected", "trapped"
          value,        \* the value of a run
          arm           \* the arm a run tests, or has selected

matchVars == <<matched, arms, unguarded, reported, errors, missing, phase, value, arm>>

NoValue == [con |-> << >>, arguments |-> << >>]

-----------------------------------------------------------------------------
(* The check of a pattern. *)

\* An alternation of which one alternative takes everything takes everything;
\* a range without values is invalid.
Coverage[p \in Patterns] ==
  LET All(patterns) == [i \in DOMAIN patterns |-> Coverage[patterns[i]]]
  IN  CASE p.kind = "constructed" -> [p EXCEPT !.arguments = All(p.arguments)]
        [] p.kind = "array"       -> [p EXCEPT !.prefix = All(p.prefix), !.suffix = All(p.suffix)]
        [] p.kind = "alternation" -> IF Irrefutable \in Range(All(p.alternatives)) THEN Irrefutable
                                     ELSE Alternation(All(p.alternatives))
        [] p.kind = "range"       -> IF IsEmpty(IntegerInterval(p, p)) THEN Invalid ELSE p
        [] OTHER                  -> p

ASSUME PatternsAreCovered ==
  /\ \A t \in Types : PatternsOf[t] \subseteq Patterns
  /\ \A p \in Patterns : Coverage[p] \in Patterns

\* The patterns a pattern is made of, with the types they are checked against.
Parts(p, t) ==
  CASE p.kind = "constructed" -> LET of == ArgumentTypes(p.con, t)
                                 IN  {<<p.arguments[i], of[i]>> : i \in DOMAIN p.arguments}
    [] p.kind = "array"       -> (Range(p.prefix) \cup Range(p.suffix)) \X {Shape[t].element}
    [] p.kind = "alternation" -> Range(p.alternatives) \X {t}
    [] OTHER                  -> {}

\* The answers for the alternatives of a pattern and of its parts.
AlternativeAnswers[p \in Patterns] ==
  [t \in Types |->
     (IF p.kind # "alternation" THEN {}
      ELSE {PatternIsUseful([i \in 1 .. n - 1 |-> Coverage[p.alternatives[i]]],
                            Coverage[p.alternatives[n]], t).found : n \in DOMAIN p.alternatives})
       \cup UNION {AlternativeAnswers[part[1]][part[2]] : part \in Parts(p, t)}]

IsLiteral(con, kind) == con[1] = kind /\ con = <<kind, con[2]>>

\* What a pattern of its kind must be for the type.
Suits(p, t) ==
  LET shape == Shape[t]
  IN  CASE p.kind = "constructed" ->
             /\ CASE shape.kind = "integer" -> IsLiteral(p.con, "int") /\ p.con[2] \in shape.low .. shape.high
                  [] shape.kind = "open"    -> IsLiteral(p.con, "text")
                  [] OTHER                  -> p.con \in Range(ConstructorsOf(t))
             /\ DOMAIN p.arguments \subseteq DOMAIN ArgumentTypes(p.con, t)
        [] p.kind = "range"       ->
             /\ shape.kind = "integer" /\ {p.start, p.end} \subseteq shape.low .. shape.high
             /\ ~IsEmpty(IntegerInterval(p, p))
        [] p.kind = "array"       ->
             /\ shape.kind = "array"
             /\ shape.length # Growable => FitsLength(p, shape.length)
        [] OTHER                  -> p.kind # "invalid"

\* A pattern that is checked without an error.
WellFormed[p \in Patterns] ==
  [t \in Types |-> Suits(p, t) /\ \A q \in Parts(p, t) : WellFormed[q[1]][q[2]]]

-----------------------------------------------------------------------------
(* The test of a pattern on a value, as it is compiled. *)

Values == UNION {ValuesOf[t] : t \in Types}

Hold(arguments, types) ==
  Len(arguments) = Len(types) /\ \A i \in DOMAIN types : arguments[i] \in ValuesOf[types[i]]

\* A value of a type was made by one of its constructors from values of the
\* types that takes.
IsValue(v, t) ==
  LET shape == Shape[t]
  IN  /\ v = [con |-> v.con, arguments |-> v.arguments] /\ v.arguments \in Seq(Values)
      /\ CASE shape.kind = "integer" ->
                IsLiteral(v.con, "int") /\ v.con[2] \in shape.low .. shape.high
           [] shape.kind = "open"    -> IsLiteral(v.con, "text") /\ v.arguments = << >>
           [] shape.kind = "array"   ->
                /\ v.con = <<"array">> /\ shape.length \in {Growable, Len(v.arguments)}
                /\ \A i \in DOMAIN v.arguments : v.arguments[i] \in ValuesOf[shape.element]
           [] OTHER                  ->
                v.con \in Range(ConstructorsOf(t)) /\ Hold(v.arguments, ArgumentTypes(v.con, t))

ASSUME ValuesAreTyped == \A t \in Types : \A v \in ValuesOf[t] : IsValue(v, t)

Tests[p \in Patterns] ==
  [v \in Values |->
     CASE p.kind = "irrefutable" -> TRUE
       [] p.kind = "constructed" ->
            p.con = v.con /\ \A i \in DOMAIN p.arguments : Tests[p.arguments[i]][v.arguments[i]]
       [] p.kind = "range"       ->
            /\ v.con[1] = "int"
            /\ p.start <= v.con[2] /\ IF p.inclusive THEN v.con[2] <= p.end ELSE v.con[2] < p.end
       [] p.kind = "array"       ->
            /\ v.con = <<"array">>
            /\ IF p.rest THEN Len(v.arguments) >= Written(p) ELSE Len(v.arguments) = Written(p)
            /\ \A i \in DOMAIN p.prefix : Tests[p.prefix[i]][v.arguments[i]]
            /\ \A i \in DOMAIN p.suffix :
                 LET distance == Len(p.suffix) - i + 1
                 IN  Tests[p.suffix[i]][v.arguments[Len(v.arguments) + 1 - distance]]
       [] p.kind = "alternation" -> \E a \in DOMAIN p.alternatives : Tests[p.alternatives[a]][v]
       [] OTHER                  -> FALSE]

-----------------------------------------------------------------------------
(* What the analysis relies on.  The code does not see to it for all programs. *)

\* A type that is found to have no values has none.
EmptyTypesAreEmpty == \A t \in Types : ~TypeIsInhabited(t) => ValuesOf[t] = {}

\* The patterns for the arrays of a type.
ArrayPatterns(t) == {p \in Patterns : p.kind = "array" /\ WellFormed[p][t]}

\* To these patterns an array of n elements is like one of m, without some that
\* follow its first k.
Represents(m, n, arrays) ==
  /\ m <= n
  /\ \A h \in arrays : FitsLength(h, m) = FitsLength(h, n)
  /\ m = n \/ \E k \in 0 .. m : \A h \in arrays :
                 FitsLength(h, n) => Len(h.prefix) <= k /\ Len(h.suffix) <= m - k

\* Each length a growable array may have is represented by one that is tried.
LengthsSuffice ==
  \A t \in Types : Shape[t].kind = "array" /\ Shape[t].length = Growable =>
    \A arrays \in SUBSET ArrayPatterns(t), v \in ValuesOf[t] :
      \E m \in RepresentativeLengths(arrays) : Represents(m, Len(v.arguments), arrays)

\* That is so exactly if a length at which a written prefix and a written
\* suffix overlap is tried for the two patterns themselves.
OverlapsAreTried ==
  \A t \in Types : Shape[t].kind = "array" /\ Shape[t].length = Growable =>
    \A g, h \in ArrayPatterns(t), v \in ValuesOf[t] :
      LET n == Len(v.arguments)
      IN  /\ g.rest /\ h.rest /\ FitsLength(g, n) /\ FitsLength(h, n)
          /\ n < Len(g.prefix) + Len(h.suffix)
          => n \in RepresentativeLengths({g, h})

\* The program may meet what can be built of the values it may meet, and texts
\* that are not written in patterns.
Vectors(types) ==
  {a \in [DOMAIN types -> UNION {ValuesOf[types[i]] : i \in DOMAIN types}] : Hold(a, types)}

TriedLengths(t) ==
  IF Shape[t].length # Growable THEN {Shape[t].length} ELSE RepresentativeLengths(ArrayPatterns(t))

IsComplete(t) ==
  LET shape == Shape[t]
      Built(con, types) == \A a \in Vectors(types) : [con |-> con, arguments |-> a] \in ValuesOf[t]
      written == {p.con : p \in {p \in Patterns : p.kind = "constructed" /\ WellFormed[p][t]}}
  IN  CASE shape.kind = "integer" -> \A i \in shape.low .. shape.high : Built(<<"int", i>>, << >>)
        [] shape.kind = "array"   ->
             \A n \in TriedLengths(t) : Built(<<"array">>, [i \in 1 .. n |-> shape.element])
        [] shape.kind = "open"    ->
             (\A con \in written : Built(con, << >>)) /\ \E v \in ValuesOf[t] : v.con \notin written
        [] OTHER                  ->
             \A con \in Range(ConstructorsOf(t)) : Built(con, ArgumentTypes(con, t))

AllComplete == \A t \in Types : IsComplete(t) /\ (TypeIsInhabited(t) => ValuesOf[t] # {})

\* What a type is made of.
MadeOf(t) ==
  IF Shape[t].kind = "array" THEN {[i \in 1 .. n |-> Shape[t].element] : n \in TriedLengths(t)}
  ELSE {ArgumentTypes(con, t) : con \in Range(ConstructorsOf(t))}

\* No type with values is made of itself: it costs more than the types it is
\* made of, with patterns for them.
Grounded(cost, tallest) ==
  /\ \A p \in Patterns : Height[p] <= tallest
  /\ \A t \in DOMAIN cost : \A of \in MadeOf(t) : \A i \in DOMAIN of :
       /\ of[i] \in DOMAIN cost
       /\ TypeIsInhabited(t) => Len(of) * (cost[of[i]] + tallest) < cost[t]

-----------------------------------------------------------------------------

MatchInit ==
  /\ matched \in Types
  /\ arms = << >> /\ unguarded = << >> /\ reported = {} /\ errors = FALSE /\ missing = {}
  /\ phase = "checking" /\ value = NoValue /\ arm = 0

\* One arm: its pattern is checked, and then whether it can be selected.
CheckArm(p, guarded) ==
  LET coverage == Coverage[p]
      inner    == AlternativeAnswers[p][matched]
      answer   == PatternIsUseful(unguarded, coverage, matched)
  IN  /\ phase = "checking" /\ Len(arms) < MaxArms
      /\ guarded => Len(arms) - Len(unguarded) < MaxGuarded
      /\ arms' = Append(arms, [pattern |-> p, guarded |-> guarded])
      /\ errors' = (errors \/ ~WellFormed[p][matched] \/ "no" \in inner)
      /\ reported' = IF answer.found = "no" THEN reported \cup {Len(arms')} ELSE reported
      /\ unguarded' = IF guarded THEN unguarded ELSE Append(unguarded, coverage)
      /\ phase' = IF "endless" \in inner \cup {answer.found} THEN "overflow" ELSE phase
      /\ UNCHANGED <<matched, missing, value, arm>>

\* The end of the arms.  A match without an arm needs a type from its context.
CheckMissing ==
  /\ phase = "checking"
  /\ missing' = MissingPatterns(unguarded, matched)
  /\ \E expected \in BOOLEAN :
       phase' = IF \E m \in missing' : m.found = "endless"          THEN "overflow"
                ELSE IF missing' # {} \/ reported # {} \/ errors    THEN "rejected"
                ELSE IF arms = << >> /\ ~expected                   THEN "rejected"
                ELSE "running"
  /\ UNCHANGED <<matched, arms, unguarded, reported, errors, value, arm>>

\* The compiled match gets a value.
Run(v) ==
  /\ phase = "running" /\ arm = 0
  /\ value' = v /\ arm' = 1
  /\ UNCHANGED <<matched, arms, unguarded, reported, errors, missing, phase>>

\* The test of one arm; a guard is evaluated when the pattern takes the value.
TestArm(guard) ==
  /\ phase = "running" /\ arm > 0
  /\ IF arm > Len(arms) THEN phase' = "trapped" /\ arm' = arm
     ELSE IF Tests[arms[arm].pattern][value] /\ (arms[arm].guarded => guard)
          THEN phase' = "selected" /\ arm' = arm
          ELSE phase' = phase /\ arm' = arm + 1
  /\ UNCHANGED <<matched, arms, unguarded, reported, errors, missing, value>>

MatchNext ==
  \/ \E p \in PatternsOf[matched], guarded \in BOOLEAN : CheckArm(p, guarded)
  \/ CheckMissing
  \/ \E v \in ValuesOf[matched] : Run(v)
  \/ \E guard \in BOOLEAN : TestArm(guard)

MatchSpec == MatchInit /\ [][MatchNext]_matchVars

-----------------------------------------------------------------------------
(* Properties. *)

Takes(i, v)   == Tests[arms[i].pattern][v]
EarlierArms(i) == {j \in 1 .. i - 1 : ~arms[j].guarded}

ReportsAreExact ==
  phase = "checking" /\ ~errors => \A i \in DOMAIN arms :
    i \in reported <=> \A v \in ValuesOf[matched] : Takes(i, v) => \E j \in EarlierArms(i) : Takes(j, v)

MissingIsExact ==
  (phase = "rejected" \/ (phase = "running" /\ arm = 0)) /\ ~errors =>
    (missing = {} <=> \A v \in ValuesOf[matched] : \E j \in EarlierArms(Len(arms) + 1) : Takes(j, v))

\* An arm is reported as unreachable exactly if the earlier arms without a guard
\* take every value it takes, as the arms are compiled.  Something is missing
\* exactly if some value is taken by no arm without a guard.
AnalysisIsExact == ReportsAreExact /\ MissingIsExact

\* A match that was accepted selects an arm whatever its value is and its
\* guards answer.
AcceptedMatchesSelect == phase # "trapped"

\* The analysis comes to an end.
AnalysisEnds == phase # "overflow"
=============================================================================
