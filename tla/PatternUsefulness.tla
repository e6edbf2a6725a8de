--------------------------- MODULE PatternUsefulness ---------------------------
(* The analysis behind match: which arms can still be selected, and which     *)
(* values no arm takes (src/typeck/pattern_usefulness.rs).  A matrix holds     *)
(* the rows of the earlier arms, a candidate is one more row, and the answer   *)
(* is a row of patterns for values that the candidate takes and no earlier     *)
(* row does.  Types are names with a shape; a constructor is a tuple, and a    *)
(* pattern of it lists the patterns of its arguments.  The recursions are      *)
(* functions: over the patterns of a program, which are trees, and over how    *)
(* deep the analysis may call itself.                                          *)
EXTENDS Integers, SequencesExt

CONSTANTS Types,      \* the types of the program
          Shape,      \* what each of them is, by its kind
          Patterns,   \* the patterns that occur, with those they are made of
          Height,     \* how many patterns are inside each other in each of them
          MaxDepth    \* calls deep after which the analysis has no end

Growable == -1        \* the length of an array of any length

\* What a type is made of are types of the program.
IsShape(shape) ==
  \/ shape.kind \in {"bool", "open", "never"}
  \/ /\ shape.kind = "integer"
     /\ shape.low \in Int /\ shape.high \in Int /\ shape.low <= shape.high
  \/ shape.kind \in {"option", "step"} /\ shape.value \in Types
  \/ shape.kind = "result" /\ shape.value \in Types /\ shape.error \in Types
  \/ /\ shape.kind = "array"
     /\ shape.element \in Types /\ shape.length \in Nat \cup {Growable}
  \/ shape.kind = "struct" /\ shape.fields \in Seq(Types)
  \/ shape.kind = "enum" /\ shape.variants \in Seq(Seq(Types))

ASSUME TypesAreClosed == \A t \in Types : IsShape(Shape[t])

-----------------------------------------------------------------------------
(* Patterns. *)

Irrefutable                 == [kind |-> "irrefutable"]
Invalid                     == [kind |-> "invalid"]
Constructed(con, arguments) == [kind |-> "constructed", con |-> con, arguments |-> arguments]
IntRange(start, end, inclusive) == [kind |-> "range", start |-> start, end |-> end,
                                    inclusive |-> inclusive]
Array(prefix, open, suffix) == [kind |-> "array", prefix |-> prefix, rest |-> open,
                                suffix |-> suffix]
Alternation(several)        == [kind |-> "alternation", alternatives |-> several]

\* The patterns a pattern is made of.
Inside(p) ==
  CASE p.kind = "constructed" -> Range(p.arguments)
    [] p.kind = "array"       -> Range(p.prefix) \cup Range(p.suffix)
    [] p.kind = "alternation" -> Range(p.alternatives)
    [] OTHER                  -> {}

IsPattern(p) ==
  \/ p \in {Irrefutable, Invalid}
  \/ p.kind = "constructed" /\ p = Constructed(p.con, p.arguments)
  \/ /\ p.kind = "range" /\ p = IntRange(p.start, p.end, p.inclusive)
     /\ p.start \in Int /\ p.end \in Int /\ p.inclusive \in BOOLEAN
  \/ /\ p.kind = "array" /\ p = Array(p.prefix, p.rest, p.suffix)
     /\ p.prefix \in Seq(Patterns) /\ p.rest \in BOOLEAN /\ p.suffix \in Seq(Patterns)
  \/ /\ p.kind = "alternation" /\ p = Alternation(p.alternatives)
     /\ p.alternatives \in Seq(Patterns)

\* A pattern is written down: what it is made of is lower.
ASSUME PatternsAreTrees ==
  /\ Irrefutable \in Patterns /\ Invalid \in Patterns
  /\ Height \in [Patterns -> Nat]
  /\ \A p \in Patterns : IsPattern(p) /\ \A q \in Inside(p) : q \in Patterns /\ Height[q] < Height[p]

ASSUME DepthIsANumber == MaxDepth \in Nat

Alternatives[p \in Patterns] ==
  IF p.kind # "alternation" THEN {p} ELSE UNION {Alternatives[q] : q \in Range(p.alternatives)}

\* The rows of a matrix, one for every alternative of their first patterns.
Expanded(matrix) ==
  UNION {{<<a>> \o Tail(row) : a \in Alternatives[Head(row)]} : row \in matrix}

-----------------------------------------------------------------------------
(* Which types have values.  A type that is met again while it is visited has  *)
(* none, and what a visit found is kept for the rest of the call.              *)

Visits == [Types -> {"new", "visiting", "inhabited", "uninhabited"}]

VisitType[t \in Types, states \in Visits] ==
  IF states[t] # "new" THEN [value |-> states[t] = "inhabited", states |-> states]
  ELSE
    LET shape    == Shape[t]
        visiting == [states EXCEPT ![t] = "visiting"]
        All(parts, seen) ==
          FoldLeft(LAMBDA acc, each : IF acc.value THEN VisitType[each, acc.states] ELSE acc,
                   seen, parts)
        Some(variants, seen) ==
          FoldLeft(LAMBDA acc, payload :
                     IF acc.value THEN acc ELSE All(payload, [acc EXCEPT !.value = TRUE]),
                   seen, variants)
        Said(answer) == [value |-> answer, states |-> visiting]
        found == CASE shape.kind = "never"  -> Said(FALSE)
                   [] shape.kind = "array"  -> IF shape.length \in {0, Growable} THEN Said(TRUE)
                                               ELSE VisitType[shape.element, visiting]
                   [] shape.kind = "struct" -> All(shape.fields, Said(TRUE))
                   [] shape.kind = "enum"   -> Some(shape.variants, Said(FALSE))
                   [] OTHER                 -> Said(TRUE)
    IN  [found EXCEPT !.states[t] = IF found.value THEN "inhabited" ELSE "uninhabited"]

\* Every question starts a visit of its own.
InhabitedTypes == {t \in Types : VisitType[t, [s \in Types |-> "new"]].value}

TypeIsInhabited(t) == t \in InhabitedTypes

-----------------------------------------------------------------------------
(* Constructors. *)

HasConstructors(t) ==
  Shape[t].kind \in {"bool", "option", "result", "step", "struct", "enum"} \/ ~TypeIsInhabited(t)

\* The constructors of a struct and of an enum are its own.
ConstructorsOf(t) ==
  LET shape == Shape[t]
  IN  CASE shape.kind = "bool"   -> << <<"bool", "false">>, <<"bool", "true">> >>
        [] shape.kind = "option" -> << <<"none">>, <<"some">> >>
        [] shape.kind = "result" -> << <<"ok">>, <<"err">> >>
        [] shape.kind = "step"   -> << <<"item">>, <<"end">> >>
        [] shape.kind = "struct" -> << <<"struct", t>> >>
        [] shape.kind = "enum"   -> [v \in DOMAIN shape.variants |-> <<"variant", t, v>>]
        [] OTHER                 -> << >>

PatternConstructors(t) == IF TypeIsInhabited(t) THEN ConstructorsOf(t) ELSE << >>

ArgumentTypes(con, t) ==
  LET shape == Shape[t]
  IN  CASE con[1] = "variant"              -> shape.variants[con[3]]
        [] con[1] = "struct"               -> shape.fields
        [] con[1] \in {"some", "ok", "item"} -> <<shape.value>>
        [] con[1] = "err"                  -> <<shape.error>>
        [] OTHER                           -> << >>

\* What is not written is taken whatever it is.
Arguments(p, arity) ==
  [i \in 1 .. arity |->
     IF p.kind = "constructed" /\ i \in DOMAIN p.arguments THEN p.arguments[i] ELSE Irrefutable]

SpecializeMatrix(matrix, con, arity) ==
  {Arguments(Head(row), arity) \o Tail(row) : row \in
     {row \in Expanded(matrix) :
        Head(row) = Irrefutable \/ (Head(row).kind = "constructed" /\ Head(row).con = con)}}

DefaultMatrix(matrix) == {Tail(row) : row \in {row \in Expanded(matrix) : Head(row) = Irrefutable}}

-----------------------------------------------------------------------------
(* Arrays: a pattern is seen at one length at a time. *)

Written(p) == Len(p.prefix) + Len(p.suffix)

FitsLength(p, length) ==
  \/ p = Irrefutable
  \/ p.kind = "array" /\ IF p.rest THEN Written(p) <= length ELSE Written(p) = length

AtLength(p, length) ==
  [i \in 1 .. length |->
     IF p = Irrefutable THEN Irrefutable
     ELSE IF i <= Len(p.prefix) THEN p.prefix[i]
     ELSE IF i > length - Len(p.suffix) THEN p.suffix[i - (length - Len(p.suffix))]
     ELSE Irrefutable]

SpecializeArrayMatrix(matrix, length) ==
  {AtLength(Head(row), length) \o Tail(row) : row \in
     {row \in Expanded(matrix) : FitsLength(Head(row), length)}}

\* The array patterns that stand first.
Arrays(matrix, candidate) ==
  {h \in {Head(row) : row \in Expanded(matrix)} \cup {candidate} : h.kind = "array"}

\* A growable array is tried on both sides of every sum of a written prefix
\* and a written suffix.
RepresentativeLengths(arrays) ==
  LET prefixes == {0} \cup {Len(h.prefix) : h \in arrays}
      suffixes == {0} \cup {Len(h.suffix) : h \in arrays}
  IN  {p + s + k : p \in prefixes, s \in suffixes, k \in {0, 1}}

\* Fault: an array pattern is seen at its shortest length.
ShortestLength(matrix, candidate, t) ==
  {IF Shape[t].length # Growable THEN Shape[t].length
   ELSE IF candidate = Irrefutable THEN 0 ELSE Written(candidate)}

Lengths(matrix, candidate, t) ==
  LET all == RepresentativeLengths(Arrays(matrix, candidate))
  IN  IF Shape[t].length # Growable   THEN {Shape[t].length}
      ELSE IF candidate = Irrefutable THEN all
      ELSE IF candidate.kind # "array" THEN {}
      ELSE IF candidate.rest          THEN {n \in all : n >= Written(candidate)}
      ELSE {Written(candidate)}

-----------------------------------------------------------------------------
(* Integers: the values are cut into the cells between the bounds. *)

Intersect(a, b) == [start |-> IF a.start > b.start THEN a.start ELSE b.start,
                    end   |-> IF a.end < b.end THEN a.end ELSE b.end]
IsEmpty(interval)   == interval.start > interval.end
Covers(a, b)        == a.start <= b.start /\ b.end <= a.end
Domain(t)           == [start |-> Shape[t].low, end |-> Shape[t].high]

\* Fault: every range has its end.
IntervalWithEnd(p, domain) ==
  CASE p = Irrefutable        -> domain
    [] p.kind = "constructed" -> Intersect([start |-> p.con[2], end |-> p.con[2]], domain)
    [] p.kind = "range"       -> Intersect([start |-> p.start, end |-> p.end], domain)
    [] OTHER                  -> [start |-> 1, end |-> 0]

IntegerInterval(p, domain) ==
  CASE p = Irrefutable        -> domain
    [] p.kind = "constructed" -> Intersect([start |-> p.con[2], end |-> p.con[2]], domain)
    [] p.kind = "range"       ->
         Intersect([start |-> p.start, end |-> IF p.inclusive THEN p.end ELSE p.end - 1], domain)
    [] OTHER                  -> [start |-> 1, end |-> 0]

IntervalPattern(cell) ==
  IF cell.start = cell.end THEN Constructed(<<"int", cell.start>>, << >>)
  ELSE IntRange(cell.start, cell.end, TRUE)

SpecializeIntegerMatrix(matrix, cell, domain) ==
  {Tail(row) : row \in
     {row \in matrix : \E a \in Alternatives[Head(row)] :
        LET interval == IntegerInterval(a, domain) IN ~IsEmpty(interval) /\ Covers(interval, cell)}}

\* Where a cell begins or the last one ends.
Bounds(matrix, candidate, domain) ==
  LET within == {i \in {Intersect(IntegerInterval(Head(row), domain), candidate) :
                          row \in Expanded(matrix)} : ~IsEmpty(i)} \cup {candidate}
  IN  {i.start : i \in within} \cup {i.end + 1 : i \in within}

Cells(bounds) ==
  {[start |-> pair[1], end |-> pair[2] - 1] : pair \in
     {pair \in bounds \X bounds : pair[1] < pair[2] /\ \A b \in bounds : b <= pair[1] \/ pair[2] <= b}}

-----------------------------------------------------------------------------
(* The witness of a candidate. *)

NotUseful    == [found |-> "no", witness |-> << >>]
NoEnd        == [found |-> "endless", witness |-> << >>]
By(witness)  == [found |-> "yes", witness |-> witness]

\* The first n patterns of a witness, put together again as one.
Gather(answer, pattern, n) ==
  IF answer.found # "yes" THEN answer
  ELSE By(<<pattern>> \o SubSeq(answer.witness, n + 1, Len(answer.witness)))

\* The first of the tries that is not without an answer.
Attempt(at, answer) == [at |-> at, answer |-> answer]
First(tries) ==
  LET found == {a \in tries : a.answer.found # "no"}
  IN  IF found = {} THEN NotUseful
      ELSE (CHOOSE a \in found : \A b \in found : a.at <= b.at).answer

\* Fault: no shortcut.
NeverCovered(matrix) == FALSE

CoveredByWildcards(matrix) == \E row \in matrix : Range(row) \subseteq {Irrefutable}

Questions == [matrix : SUBSET Seq(Patterns), candidate : Seq(Patterns), types : Seq(Types)]
Question(matrix, candidate, types) ==
  [matrix |-> matrix, candidate |-> candidate, types |-> types]

\* The candidate's first pattern by one of its alternatives.
AlternationWitness(deeper, q) ==
  LET several == Head(q.candidate).alternatives
  IN  First({Attempt(a, deeper[Question(q.matrix, <<several[a]>> \o Tail(q.candidate), q.types)]) :
               a \in DOMAIN several})

ArrayWitness(deeper, q) ==
  LET head == Head(q.candidate)
      t    == Head(q.types)
      Length(n) ==
        LET answer == deeper[Question(SpecializeArrayMatrix(q.matrix, n),
                                      AtLength(head, n) \o Tail(q.candidate),
                                      [i \in 1 .. n |-> Shape[t].element] \o Tail(q.types))]
        IN  Gather(answer, Array(SubSeq(answer.witness, 1, n), FALSE, << >>), n)
  IN  First({Attempt(n, Length(n)) : n \in {n \in Lengths(q.matrix, head, t) : FitsLength(head, n)}})

IntegerWitness(deeper, q, candidate, domain) ==
  LET Cell(cell) ==
        Gather(deeper[Question(SpecializeIntegerMatrix(q.matrix, cell, domain),
                               Tail(q.candidate), Tail(q.types))],
               IntervalPattern(cell), 0)
  IN  First({Attempt(cell.start, Cell(cell)) : cell \in Cells(Bounds(q.matrix, candidate, domain))})

ConstructorWitness(deeper, q, con) ==
  LET of     == ArgumentTypes(con, Head(q.types))
      arity  == Len(of)
      answer == deeper[Question(SpecializeMatrix(q.matrix, con, arity),
                                Arguments(Head(q.candidate), arity) \o Tail(q.candidate),
                                of \o Tail(q.types))]
  IN  Gather(answer, Constructed(con, SubSeq(answer.witness, 1, arity)), arity)

EveryConstructorWitness(deeper, q) ==
  LET constructors == PatternConstructors(Head(q.types))
  IN  First({Attempt(c, ConstructorWitness(deeper, q, constructors[c])) : c \in DOMAIN constructors})

DefaultWitness(deeper, q) ==
  Gather(deeper[Question(DefaultMatrix(q.matrix), Tail(q.candidate), Tail(q.types))], Irrefutable, 0)

\* The answer to a question, from the answers to those one call deeper.
WitnessOf(deeper, q) ==
  IF CoveredByWildcards(q.matrix) THEN NotUseful
  ELSE IF q.candidate = << >> THEN IF q.matrix = {} THEN By(<< >>) ELSE NotUseful
  ELSE
    LET head      == Head(q.candidate)
        t         == Head(q.types)
        isInteger == Shape[t].kind = "integer" /\ ~IsEmpty(IntegerInterval(head, Domain(t)))
    IN  IF ~TypeIsInhabited(t)              THEN NotUseful
        ELSE IF head.kind = "alternation" THEN AlternationWitness(deeper, q)
        ELSE IF head.kind = "invalid"     THEN By(q.candidate)
        ELSE IF Shape[t].kind = "array"   THEN ArrayWitness(deeper, q)
        ELSE IF isInteger
             THEN IntegerWitness(deeper, q, IntegerInterval(head, Domain(t)), Domain(t))
        ELSE IF head.kind = "constructed" THEN ConstructorWitness(deeper, q, head.con)
        ELSE IF HasConstructors(t)        THEN EveryConstructorWitness(deeper, q)
        ELSE DefaultWitness(deeper, q)

UsefulWitness[depth \in 0 .. MaxDepth] ==
  [q \in Questions |-> IF depth = 0 THEN NoEnd ELSE WitnessOf(UsefulWitness[depth - 1], q)]

-----------------------------------------------------------------------------

\* The answer for one pattern after the patterns before it.
PatternIsUseful(previous, candidate, t) ==
  UsefulWitness[MaxDepth][Question({<<p>> : p \in Range(previous)}, <<candidate>>, <<t>>)]

\* A pattern for each part of a type that is looked at by itself: one for each
\* constructor if the type has any.
Candidates(t) ==
  IF HasConstructors(t)
  THEN {Constructed(con, Arguments(Irrefutable, Len(ArgumentTypes(con, t)))) :
          con \in Range(PatternConstructors(t))}
  ELSE {Irrefutable}

ASSUME CandidatesArePatterns == \A t \in Types : Candidates(t) \subseteq Patterns

\* The answers for the values no arm takes.
MissingPatterns(previous, t) ==
  {answer \in {PatternIsUseful(previous, candidate, t) : candidate \in Candidates(t)} :
     answer.found # "no"}
=============================================================================
