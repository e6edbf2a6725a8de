------------------------------ MODULE MatchProofs ------------------------------
(* Proofs about the analysis of matches. *)
EXTENDS MatchExpression, SequenceTheorems, NaturalsInduction, WellFoundedInduction, TLAPS

\* A set of integers that are not below one of them has a least one.
LEMMA LeastInteger ==
  ASSUME NEW S, S \subseteq Int, S # {}, NEW low \in Int, \A n \in S : low <= n
  PROVE  \E m \in S : \A n \in S : m <= n
<1> DEFINE D == {n - low : n \in S}
<1>1. D \subseteq Nat /\ D # {}
  <2>1. \A n \in S : n - low \in Nat OBVIOUS
  <2> QED BY <2>1
<1>2. PICK d \in D : \A c \in D : ~ (<<c, d>> \in OpToRel(<, Nat))
  BY <1>1, NatLessThanWellFounded, WFMin
<1>3. \A c \in D : d <= c
  <2> SUFFICES ASSUME NEW c \in D, ~(d <= c) PROVE FALSE OBVIOUS
  <2>1. c \in Nat /\ d \in Nat /\ c < d BY <1>1
  <2>2. <<c, d>> \in OpToRel(<, Nat) BY <2>1 DEF OpToRel
  <2> QED BY <1>2, <2>2
<1>4. PICK m \in S : d = m - low BY <1>2
<1>5. \A n \in S : n - low \in D OBVIOUS
<1>6. ASSUME NEW n \in S PROVE m <= n
  <2>1. m - low <= n - low BY <1>3, <1>4, <1>5
  <2>2. m \in Int /\ n \in Int OBVIOUS
  <2> QED BY <2>1, <2>2
<1> QED BY <1>6

\* A set of numbers has a least one.
LEMMA LeastNumber ==
  ASSUME NEW S, S \subseteq Nat, S # {}
  PROVE  \E m \in S : \A n \in S : m <= n
<1>1. S \subseteq Int /\ 0 \in Int /\ \A n \in S : 0 <= n OBVIOUS
<1> QED BY <1>1, LeastInteger

\* What holds of 0, and of every next number, holds of all.
LEMMA NumberInduction ==
  ASSUME NEW S, 0 \in S, \A n \in Nat : n \in S => n + 1 \in S
  PROVE  Nat \subseteq S
<1> SUFFICES ASSUME Nat \ S # {} PROVE FALSE OBVIOUS
<1>1. PICK m \in Nat \ S : \A n \in Nat \ S : m <= n BY LeastNumber
<1>2. m - 1 \in Nat /\ m - 1 < m /\ m = (m - 1) + 1 BY <1>1
<1>3. m - 1 \in S BY <1>1, <1>2
<1> QED BY <1>1, <1>2, <1>3

\* Among the patterns with something to object to one is lowest.
LEMMA LowestPattern ==
  ASSUME NEW S, S \subseteq Patterns, S # {}
  PROVE  \E p \in S : \A q \in Inside(p) : q \notin S
<1> DEFINE H == {Height[p] : p \in S}
<1>1. H \subseteq Nat /\ H # {} BY PatternsAreTrees
<1>2. PICK m \in H : \A n \in H : m <= n BY <1>1, LeastNumber
<1>3. PICK p \in S : m = Height[p] BY <1>2
<1>4. ASSUME NEW q \in Inside(p), q \in S PROVE FALSE
  <2>1. Height[q] < Height[p] /\ Height[p] \in Nat /\ Height[q] \in Nat BY <1>4, PatternsAreTrees
  <2>2. Height[p] <= Height[q] BY <1>2, <1>3, <1>4
  <2> QED BY <2>1, <2>2
<1> QED BY <1>3, <1>4

\* A property of all patterns that holds of a pattern when it holds of those it
\* is made of.
LEMMA PatternInduction ==
  ASSUME NEW S, \A p \in Patterns : (\A q \in Inside(p) : q \in S) => p \in S
  PROVE  Patterns \subseteq S
<1> SUFFICES ASSUME Patterns \ S # {} PROVE FALSE OBVIOUS
<1>1. PICK p \in Patterns \ S : \A q \in Inside(p) : q \notin Patterns \ S
  BY LowestPattern
<1>2. \A q \in Inside(p) : q \in S BY <1>1, PatternsAreTrees
<1> QED BY <1>1, <1>2

\* A function of patterns that is given by its values for what a pattern is
\* made of.
Steps(X)       == [Patterns -> [[Patterns -> X] -> X]]
LooksInside(step, X) ==
  \A p \in Patterns : \A f, g \in [Patterns -> X] :
    (\A q \in Inside(p) : f[q] = g[q]) => step[p][f] = step[p][g]
Solved(step, X) == \E f \in [Patterns -> X] : \A p \in Patterns : f[p] = step[p][f]

\* A definition of a function of patterns by what it is for the patterns inside
\* has a solution.
LEMMA PatternRecursion ==
  ASSUME NEW X, X # {}, NEW step, step \in Steps(X), LooksInside(step, X)
  PROVE  Solved(step, X)
<1> DEFINE Fs == [Patterns -> X]
           G(n) == {g \in Fs : \A p \in Patterns : Height[p] < n => g[p] = step[p][g]}
<1> HIDE DEF Fs
<1>0. /\ \A p \in Patterns : Height[p] \in Nat
      /\ \A p \in Patterns : \A q \in Inside(p) : q \in Patterns /\ Height[q] < Height[p]
      /\ \A p \in Patterns, f \in Fs : step[p][f] \in X
      /\ \A f \in Fs, p \in Patterns : f[p] \in X
  BY PatternsAreTrees DEF Fs, Steps
<1>1. \A n, m \in Nat : \A g \in G(n), h \in G(m) :
         \A p \in Patterns : Height[p] < n /\ Height[p] < m => g[p] = h[p]
  <2> TAKE n, m \in Nat
  <2> TAKE g \in G(n), h \in G(m)
  <2> DEFINE S == {p \in Patterns : Height[p] < n /\ Height[p] < m => g[p] = h[p]}
  <2>1. ASSUME NEW p \in Patterns, \A q \in Inside(p) : q \in S PROVE p \in S
    <3> SUFFICES ASSUME Height[p] < n, Height[p] < m PROVE g[p] = h[p] OBVIOUS
    <3>1. ASSUME NEW q \in Inside(p) PROVE g[q] = h[q]
      <4>1. q \in Patterns /\ Height[q] < n /\ Height[q] < m BY <1>0
      <4> QED BY <4>1, <2>1
    <3>2. step[p][g] = step[p][h] BY <3>1 DEF Fs, LooksInside
    <3> QED BY <3>2
  <2>2. Patterns \subseteq S BY <2>1, PatternInduction
  <2> QED BY <2>2
<1>2. \A n \in Nat : G(n) # {}
  <2> DEFINE E == {n \in Nat : G(n) # {}}
  <2>1. 0 \in E
    <3>1. PICK x \in X : TRUE OBVIOUS
    <3>2. [p \in Patterns |-> x] \in G(0)
      <4>1. [p \in Patterns |-> x] \in Fs BY DEF Fs
      <4> QED BY <4>1, <1>0
    <3> QED BY <3>2
  <2>2. ASSUME NEW n \in Nat, n \in E PROVE n + 1 \in E
    <3>1. PICK g \in G(n) : TRUE BY <2>2
    <3> DEFINE h == [p \in Patterns |-> step[p][g]]
    <3>2. h \in Fs BY <1>0 DEF Fs
    <3>3. ASSUME NEW p \in Patterns, Height[p] < n + 1 PROVE h[p] = step[p][h]
      <4>1. ASSUME NEW q \in Inside(p) PROVE g[q] = h[q]
        <5>1. q \in Patterns /\ Height[q] < n BY <1>0, <3>3
        <5> QED BY <5>1
      <4>2. step[p][g] = step[p][h] BY <4>1, <3>2 DEF Fs, LooksInside
      <4> QED BY <4>2
    <3> HIDE DEF h
    <3>4. h \in G(n + 1) BY <3>2, <3>3
    <3> QED BY <3>4
  <2> HIDE DEF E
  <2>3. Nat \subseteq E BY <2>1, <2>2, NumberInduction
  <2> QED BY <2>3 DEF E
<1> DEFINE of(p) == CHOOSE g : g \in G(Height[p] + 1)
           f == [p \in Patterns |-> of(p)[p]]
<1>6. ASSUME NEW p \in Patterns PROVE of(p) \in G(Height[p] + 1)
  <2>1. Height[p] + 1 \in Nat BY <1>0
  <2>2. G(Height[p] + 1) # {} BY <1>2, <2>1
  <2> QED BY <2>2
<1>3. ASSUME NEW p \in Patterns
      PROVE  of(p) \in Fs /\ of(p)[p] = step[p][of(p)]
  <2>1. Height[p] + 1 \in Nat /\ Height[p] < Height[p] + 1 BY <1>0
  <2> QED BY <2>1, <1>6
<1>4. f \in Fs BY <1>0, <1>3 DEF Fs
<1>7. \A p \in Patterns : f[p] = of(p)[p] OBVIOUS
<1> HIDE DEF of, G, f
<1>5. ASSUME NEW p \in Patterns PROVE f[p] = step[p][f]
  <2>1. ASSUME NEW q \in Inside(p) PROVE of(p)[q] = f[q]
    <3>1. /\ q \in Patterns /\ Height[q] < Height[p] + 1 /\ Height[q] < Height[q] + 1
          /\ Height[p] + 1 \in Nat /\ Height[q] + 1 \in Nat
      BY <1>0
    <3>2. of(p) \in G(Height[p] + 1) /\ of(q) \in G(Height[q] + 1) BY <1>6, <3>1
    <3>3. of(p)[q] = of(q)[q] BY <1>1, <3>1, <3>2
    <3> QED BY <3>1, <3>3, <1>7
  <2>2. step[p][of(p)] = step[p][f] BY <2>1, <1>3, <1>4 DEF Fs, LooksInside
  <2> QED BY <2>2, <1>3, <1>7
<1> QED BY <1>4, <1>5 DEF Fs, Solved

-----------------------------------------------------------------------------
(* The recursive functions are what their definitions say. *)

\* What the kind of a pattern says of it.
LEMMA PatternKinds ==
  ASSUME NEW p \in Patterns
  PROVE  /\ p.kind = "irrefutable" <=> p = Irrefutable
         /\ p.kind = "invalid" <=> p = Invalid
         /\ p.kind \in {"irrefutable", "invalid", "constructed", "range", "array", "alternation"}
         /\ p.kind = "constructed" => p = Constructed(p.con, p.arguments)
         /\ p.kind = "range" => /\ p = IntRange(p.start, p.end, p.inclusive)
                                /\ p.start \in Int /\ p.end \in Int /\ p.inclusive \in BOOLEAN
         /\ p.kind = "array" => /\ p = Array(p.prefix, p.rest, p.suffix)
                                /\ p.prefix \in Seq(Patterns) /\ p.suffix \in Seq(Patterns)
                                /\ p.rest \in BOOLEAN
         /\ p.kind = "alternation" => /\ p = Alternation(p.alternatives)
                                      /\ p.alternatives \in Seq(Patterns)
<1>1. IsPattern(p) BY PatternsAreTrees
<1>2. Irrefutable.kind = "irrefutable" /\ Invalid.kind = "invalid" BY DEF Irrefutable, Invalid
<1> QED BY <1>1, <1>2 DEF IsPattern, Constructed, IntRange, Array, Alternation

\* Alternatives is the function its definition says: an alternation has those
\* of its alternatives, any other pattern itself.
LEMMA AlternativesDef ==
  /\ Alternatives \in [Patterns -> SUBSET Patterns]
  /\ \A p \in Patterns :
       Alternatives[p] = IF p.kind # "alternation" THEN {p}
                         ELSE UNION {Alternatives[q] : q \in Range(p.alternatives)}
<1> DEFINE X == SUBSET Patterns
           row(f, p) == IF p.kind # "alternation" THEN {p}
                         ELSE UNION {f[q] : q \in Range(p.alternatives)}
           step == [p \in Patterns |-> [f \in [Patterns -> X] |-> row(f, p)]]
<1>1. ASSUME NEW p \in Patterns, p.kind = "alternation" PROVE Range(p.alternatives) \subseteq Patterns /\ Inside(p) = Range(p.alternatives)
  BY <1>1, PatternsAreTrees DEF Inside
<1>2. \A p \in Patterns, f \in [Patterns -> X] : row(f, p) \in X BY <1>1
<1>9. ASSUME NEW p \in Patterns, NEW f \in [Patterns -> X], NEW g \in [Patterns -> X],
             \A q \in Inside(p) : f[q] = g[q]
      PROVE  row(f, p) = row(g, p)
  <2>1. CASE p.kind = "alternation"
    <3>1. \A q \in Range(p.alternatives) : f[q] = g[q] BY <2>1, <1>1, <1>9
    <3>2. {f[q] : q \in Range(p.alternatives)} = {g[q] : q \in Range(p.alternatives)} BY <3>1
    <3> QED BY <3>2, <2>1
  <2>2. CASE p.kind # "alternation" BY <2>2
  <2> QED BY <2>1, <2>2
<1>3. step \in Steps(X)
  <2> HIDE DEF X, row
  <2> QED BY <1>2 DEF Steps
<1>4. LooksInside(step, X)
  <2> HIDE DEF X, row
  <2> QED BY <1>9 DEF LooksInside
<1>5. X # {} OBVIOUS
<1>6. Solved(step, X)
  <2> HIDE DEF step, X
  <2>1. \A Y : Y # {} => \A s \in Steps(Y) : LooksInside(s, Y) => Solved(s, Y)
    BY PatternRecursion
  <2>2. \A s \in Steps(X) : LooksInside(s, X) => Solved(s, X) BY <1>5, <2>1
  <2>3. LooksInside(step, X) => Solved(step, X) BY <1>3, <2>2
  <2> QED BY <1>4, <2>3
<1>7. \E f \in [Patterns -> X] : f = [p \in Patterns |-> row(f, p)] BY <1>6 DEF Solved
<1>8. Alternatives = [p \in Patterns |-> row(Alternatives, p)]
  <2> DEFINE Is(f) == f = [p \in Patterns |-> row(f, p)]
  <2>1. \E f : Is(f) BY <1>7
  <2>2. Alternatives = CHOOSE f : Is(f) BY Zenon DEF Alternatives
  <2>3. Is(Alternatives)
    <3> HIDE DEF Is
    <3>1. Is(CHOOSE f : Is(f)) BY <2>1
    <3> QED BY <2>2, <3>1
  <2> HIDE DEF row
  <2> QED BY <2>3
<1>10. \A p \in Patterns : Alternatives[p] = row(Alternatives, p)
  <2> HIDE DEF row
  <2> QED BY <1>8
<1>11. DOMAIN Alternatives = Patterns BY <1>8
<1> DEFINE S == {p \in Patterns : Alternatives[p] \subseteq Patterns}
<1>12. ASSUME NEW p \in Patterns, \A q \in Inside(p) : q \in S PROVE p \in S
  <2>1. CASE p.kind = "alternation"
    <3>1. \A q \in Range(p.alternatives) : q \in S BY <2>1, <1>1, <1>12
    <3>2. Alternatives[p] = UNION {Alternatives[q] : q \in Range(p.alternatives)} BY <1>10, <2>1
    <3> QED BY <3>1, <3>2
  <2>2. CASE p.kind # "alternation" BY <2>2, <1>10
  <2> QED BY <2>1, <2>2
<1>13. Patterns \subseteq S
  <2> HIDE DEF S
  <2> QED BY <1>12, PatternInduction
<1>14. Alternatives = [p \in Patterns |-> Alternatives[p]]
  <2> HIDE DEF row
  <2> QED BY <1>8
<1>15. Alternatives \in [Patterns -> SUBSET Patterns] BY <1>13, <1>14
<1> QED BY <1>15, <1>10

TestOf(f, p, v) ==
  CASE p.kind = "irrefutable" -> TRUE
    [] p.kind = "constructed" ->
         p.con = v.con /\ \A i \in DOMAIN p.arguments : f[p.arguments[i]][v.arguments[i]]
    [] p.kind = "range"       ->
         /\ v.con[1] = "int"
         /\ p.start <= v.con[2] /\ IF p.inclusive THEN v.con[2] <= p.end ELSE v.con[2] < p.end
    [] p.kind = "array"       ->
         /\ v.con = <<"array">>
         /\ IF p.rest THEN Len(v.arguments) >= Written(p) ELSE Len(v.arguments) = Written(p)
         /\ \A i \in DOMAIN p.prefix : f[p.prefix[i]][v.arguments[i]]
         /\ \A i \in DOMAIN p.suffix :
              LET distance == Len(p.suffix) - i + 1
              IN  f[p.suffix[i]][v.arguments[Len(v.arguments) + 1 - distance]]
    [] p.kind = "alternation" -> \E a \in DOMAIN p.alternatives : f[p.alternatives[a]][v]
    [] OTHER                  -> FALSE

\* The arguments, elements and alternatives of a pattern are inside it.
LEMMA InsideElements ==
  ASSUME NEW p \in Patterns
  PROVE  /\ p.kind = "constructed" => \A i \in DOMAIN p.arguments : p.arguments[i] \in Inside(p)
         /\ p.kind = "array" => /\ \A i \in DOMAIN p.prefix : p.prefix[i] \in Inside(p)
                                /\ \A i \in DOMAIN p.suffix : p.suffix[i] \in Inside(p)
         /\ p.kind = "alternation" =>
              \A i \in DOMAIN p.alternatives : p.alternatives[i] \in Inside(p)
         /\ Inside(p) \subseteq Patterns
  BY PatternsAreTrees DEF Inside, Range

\* Tests is the function its definition says: the compiled test of a pattern
\* tests what is inside it.
LEMMA TestsDef ==
  \A p \in Patterns, v \in Values : Tests[p][v] = TestOf(Tests, p, v)
<1> DEFINE X == [Values -> BOOLEAN]
           row(f, p) == [v \in Values |-> TestOf(f, p, v)]
           step == [p \in Patterns |-> [f \in [Patterns -> X] |-> row(f, p)]]
<1>1. \A p \in Patterns, f \in [Patterns -> X] : row(f, p) \in X
  <2> SUFFICES ASSUME NEW p \in Patterns, NEW f \in [Patterns -> X], NEW v \in Values
               PROVE  TestOf(f, p, v) \in BOOLEAN
    OBVIOUS
  <2> QED BY PatternKinds DEF TestOf
<1>2. ASSUME NEW p \in Patterns, NEW f \in [Patterns -> X], NEW g \in [Patterns -> X],
             \A q \in Inside(p) : f[q] = g[q]
      PROVE  row(f, p) = row(g, p)
  <2> SUFFICES ASSUME NEW v \in Values PROVE TestOf(f, p, v) = TestOf(g, p, v) OBVIOUS
  <2>1. CASE p.kind = "constructed"
    <3>1. \A i \in DOMAIN p.arguments : f[p.arguments[i]] = g[p.arguments[i]]
      BY <2>1, <1>2, InsideElements
    <3> QED BY <3>1, <2>1 DEF TestOf
  <2>2. CASE p.kind = "array"
    <3>1. /\ \A i \in DOMAIN p.prefix : f[p.prefix[i]] = g[p.prefix[i]]
          /\ \A i \in DOMAIN p.suffix : f[p.suffix[i]] = g[p.suffix[i]]
      BY <2>2, <1>2, InsideElements
    <3> QED BY <3>1, <2>2 DEF TestOf
  <2>3. CASE p.kind = "alternation"
    <3>1. \A i \in DOMAIN p.alternatives : f[p.alternatives[i]] = g[p.alternatives[i]]
      BY <2>3, <1>2, InsideElements
    <3> QED BY <3>1, <2>3 DEF TestOf
  <2>4. CASE p.kind \notin {"constructed", "array", "alternation"} BY <2>4 DEF TestOf
  <2> QED BY <2>1, <2>2, <2>3, <2>4
<1>3. step \in Steps(X)
  <2> HIDE DEF X, row
  <2> QED BY <1>1 DEF Steps
<1>4. LooksInside(step, X)
  <2> HIDE DEF X, row
  <2> QED BY <1>2 DEF LooksInside
<1>5. X # {}
  <2>1. [v \in Values |-> TRUE] \in X OBVIOUS
  <2> QED BY <2>1
<1>6. Solved(step, X)
  <2> HIDE DEF step, X
  <2>1. \A Y : Y # {} => \A s \in Steps(Y) : LooksInside(s, Y) => Solved(s, Y)
    BY PatternRecursion
  <2>2. \A s \in Steps(X) : LooksInside(s, X) => Solved(s, X) BY <1>5, <2>1
  <2>3. LooksInside(step, X) => Solved(step, X) BY <1>3, <2>2
  <2> QED BY <1>4, <2>3
<1>7. \E f : f = [p \in Patterns |-> row(f, p)] BY <1>6 DEF Solved
<1>8. Tests = [p \in Patterns |-> row(Tests, p)]
  BY <1>7 DEF Tests, TestOf
<1> QED BY <1>8

\* The parts that are checked against a type are inside the pattern.
LEMMA PartsAreInside ==
  ASSUME NEW p \in Patterns, NEW t, NEW part \in Parts(p, t)
  PROVE  part[1] \in Inside(p)
<1>1. CASE p.kind = "constructed" BY <1>1, InsideElements DEF Parts
<1>2. CASE p.kind = "array" BY <1>2 DEF Parts, Inside
<1>3. CASE p.kind = "alternation" BY <1>3 DEF Parts, Inside
<1>4. CASE p.kind \notin {"constructed", "array", "alternation"} BY <1>4 DEF Parts
<1> QED BY <1>1, <1>2, <1>3, <1>4

\* WellFormed is the function its definition says: a pattern suits its type,
\* and so do its parts.
LEMMA WellFormedDef ==
  \A p \in Patterns, t \in Types :
    WellFormed[p][t] = (Suits(p, t) /\ \A part \in Parts(p, t) : WellFormed[part[1]][part[2]])
<1> DEFINE X == [Types -> BOOLEAN]
           good(f, p, t) == Suits(p, t) /\ \A part \in Parts(p, t) : f[part[1]][part[2]]
           row(f, p) == [t \in Types |-> good(f, p, t)]
           step == [p \in Patterns |-> [f \in [Patterns -> X] |-> row(f, p)]]
<1>1. \A p \in Patterns, f \in [Patterns -> X] : row(f, p) \in X OBVIOUS
<1>2. ASSUME NEW p \in Patterns, NEW f \in [Patterns -> X], NEW g \in [Patterns -> X],
             \A q \in Inside(p) : f[q] = g[q]
      PROVE  row(f, p) = row(g, p)
  <2> SUFFICES ASSUME NEW t \in Types PROVE good(f, p, t) = good(g, p, t) OBVIOUS
  <2>1. \A part \in Parts(p, t) : f[part[1]] = g[part[1]] BY <1>2, PartsAreInside
  <2> QED BY <2>1
<1>3. step \in Steps(X)
  <2> HIDE DEF X, row
  <2> QED BY <1>1 DEF Steps
<1>4. LooksInside(step, X)
  <2> HIDE DEF X, row
  <2> QED BY <1>2 DEF LooksInside
<1>5. X # {}
  <2>1. [t \in Types |-> TRUE] \in X OBVIOUS
  <2> QED BY <2>1
<1>6. Solved(step, X)
  <2> HIDE DEF step, X
  <2>1. \A Y : Y # {} => \A s \in Steps(Y) : LooksInside(s, Y) => Solved(s, Y)
    BY PatternRecursion
  <2>2. \A s \in Steps(X) : LooksInside(s, X) => Solved(s, X) BY <1>5, <2>1
  <2>3. LooksInside(step, X) => Solved(step, X) BY <1>3, <2>2
  <2> QED BY <1>4, <2>3
<1>7. \E f : f = [p \in Patterns |-> row(f, p)] BY <1>6 DEF Solved
<1>8. WellFormed = [p \in Patterns |-> row(WellFormed, p)]
  BY <1>7 DEF WellFormed
<1>9. \A p \in Patterns : WellFormed[p] = row(WellFormed, p)
  <2> HIDE DEF row
  <2> QED BY <1>8
<1> QED BY <1>9

CoverageOf(f, p) ==
  LET All(patterns) == [i \in DOMAIN patterns |-> f[patterns[i]]]
  IN  CASE p.kind = "constructed" -> [p EXCEPT !.arguments = All(p.arguments)]
        [] p.kind = "array"       -> [p EXCEPT !.prefix = All(p.prefix), !.suffix = All(p.suffix)]
        [] p.kind = "alternation" -> IF Irrefutable \in Range(All(p.alternatives)) THEN Irrefutable
                                     ELSE Alternation(All(p.alternatives))
        [] p.kind = "range"       -> IF IsEmpty(IntegerInterval(p, p)) THEN Invalid ELSE p
        [] OTHER                  -> p

\* Coverage is the function its definition says.
LEMMA CoverageDef ==
  \A p \in Patterns : Coverage[p] = CoverageOf(Coverage, p)
<1> DEFINE Low(n) == {p \in Patterns : Height[p] < n}
           Fits(f, n) == f = [p \in Low(n) |-> CoverageOf(f, p)]
<1>0. /\ \A p \in Patterns : Height[p] \in Nat
      /\ \A p \in Patterns : \A q \in Inside(p) : q \in Patterns /\ Height[q] < Height[p]
  BY PatternsAreTrees
<1>1. ASSUME NEW p \in Patterns, NEW f, NEW g, \A q \in Inside(p) : f[q] = g[q]
      PROVE  CoverageOf(f, p) = CoverageOf(g, p)
  <2>1. CASE p.kind = "constructed"
    <3>1. \A i \in DOMAIN p.arguments : f[p.arguments[i]] = g[p.arguments[i]]
      BY <2>1, <1>1, InsideElements
    <3>2. [i \in DOMAIN p.arguments |-> f[p.arguments[i]]] = [i \in DOMAIN p.arguments |-> g[p.arguments[i]]]
      BY <3>1
    <3> QED BY <3>2, <2>1 DEF CoverageOf
  <2>2. CASE p.kind = "array"
    <3>1. /\ \A i \in DOMAIN p.prefix : f[p.prefix[i]] = g[p.prefix[i]]
          /\ \A i \in DOMAIN p.suffix : f[p.suffix[i]] = g[p.suffix[i]]
      BY <2>2, <1>1, InsideElements
    <3>2. /\ [i \in DOMAIN p.prefix |-> f[p.prefix[i]]] = [i \in DOMAIN p.prefix |-> g[p.prefix[i]]]
          /\ [i \in DOMAIN p.suffix |-> f[p.suffix[i]]] = [i \in DOMAIN p.suffix |-> g[p.suffix[i]]]
      BY <3>1
    <3> QED BY <3>2, <2>2 DEF CoverageOf
  <2>3. CASE p.kind = "alternation"
    <3>1. \A i \in DOMAIN p.alternatives : f[p.alternatives[i]] = g[p.alternatives[i]]
      BY <2>3, <1>1, InsideElements
    <3>2. [i \in DOMAIN p.alternatives |-> f[p.alternatives[i]]] = [i \in DOMAIN p.alternatives |-> g[p.alternatives[i]]]
      BY <3>1
    <3> QED BY <3>2, <2>3 DEF CoverageOf
  <2>4. CASE p.kind \notin {"constructed", "array", "alternation"} BY <2>4 DEF CoverageOf
  <2> QED BY <2>1, <2>2, <2>3, <2>4
<1>2. ASSUME NEW n \in Nat, NEW m \in Nat, NEW f, NEW g, Fits(f, n), Fits(g, m)
      PROVE  \A p \in Patterns : Height[p] < n /\ Height[p] < m => f[p] = g[p]
  <2> DEFINE S == {p \in Patterns : Height[p] < n /\ Height[p] < m => f[p] = g[p]}
  <2>1. ASSUME NEW p \in Patterns, \A q \in Inside(p) : q \in S PROVE p \in S
    <3> SUFFICES ASSUME Height[p] < n, Height[p] < m PROVE f[p] = g[p] OBVIOUS
    <3>1. ASSUME NEW q \in Inside(p) PROVE f[q] = g[q]
      <4>1. q \in Patterns /\ Height[q] < n /\ Height[q] < m BY <1>0
      <4> QED BY <4>1, <2>1
    <3>2. CoverageOf(f, p) = CoverageOf(g, p) BY <3>1, <1>1
    <3>3. f[p] = CoverageOf(f, p) /\ g[p] = CoverageOf(g, p) BY <1>2
    <3> QED BY <3>2, <3>3
  <2>2. Patterns \subseteq S
    <3> HIDE DEF S
    <3> QED BY <2>1, PatternInduction
  <2> QED BY <2>2
<1>3. \A n \in Nat : \E f : Fits(f, n)
  <2> DEFINE E == {n \in Nat : \E f : Fits(f, n)}
  <2>1. 0 \in E
    <3>1. Low(0) = {} BY <1>0
    <3>2. \A f : f = [p \in {} |-> 0] => f = [p \in Low(0) |-> CoverageOf(f, p)] BY <3>1
    <3> QED BY <3>2
  <2>2. ASSUME NEW n \in Nat, n \in E PROVE n + 1 \in E
    <3>1. PICK f : Fits(f, n) BY <2>2
    <3> DEFINE g == [p \in Low(n + 1) |-> CoverageOf(f, p)]
    <3>2. ASSUME NEW p \in Low(n + 1) PROVE CoverageOf(f, p) = CoverageOf(g, p)
      <4>1. ASSUME NEW q \in Inside(p) PROVE f[q] = g[q]
        <5>1. q \in Patterns /\ Height[q] < n /\ Height[q] < n + 1 BY <1>0
        <5>2. f[q] = CoverageOf(f, q) BY <5>1, <3>1
        <5> QED BY <5>1, <5>2
      <4> HIDE DEF g
      <4> QED BY <4>1, <1>1
    <3>3. g = [p \in Low(n + 1) |-> CoverageOf(g, p)] BY <3>2
    <3> HIDE DEF g
    <3> QED BY <3>3
  <2> HIDE DEF E
  <2>3. Nat \subseteq E BY <2>1, <2>2, NumberInduction
  <2> QED BY <2>3 DEF E
<1> DEFINE of(p) == CHOOSE f : Fits(f, Height[p] + 1)
           c == [p \in Patterns |-> of(p)[p]]
<1>4. ASSUME NEW p \in Patterns PROVE Fits(of(p), Height[p] + 1)
  <2>1. Height[p] + 1 \in Nat BY <1>0
  <2>2. \E f : Fits(f, Height[p] + 1) BY <1>3, <2>1
  <2> HIDE DEF Fits
  <2> QED BY <2>2
<1>5. ASSUME NEW p \in Patterns PROVE of(p)[p] = CoverageOf(of(p), p)
  <2>1. p \in Low(Height[p] + 1) BY <1>0
  <2> DEFINE o == of(p)
  <2>2. o = [r \in Low(Height[p] + 1) |-> CoverageOf(o, r)] BY <1>4
  <2> HIDE DEF o
  <2>3. o[p] = CoverageOf(o, p) BY <2>1, <2>2
  <2> QED BY <2>3 DEF o
<1>6. \A p \in Patterns : c[p] = of(p)[p] OBVIOUS
<1>7. c = [p \in Patterns |-> of(p)[p]] OBVIOUS
<1> HIDE DEF of, c, Fits
<1>8. ASSUME NEW p \in Patterns PROVE c[p] = CoverageOf(c, p)
  <2>1. ASSUME NEW q \in Inside(p) PROVE of(p)[q] = c[q]
    <3>1. /\ q \in Patterns /\ Height[q] < Height[p] + 1 /\ Height[q] < Height[q] + 1
          /\ Height[p] + 1 \in Nat /\ Height[q] + 1 \in Nat
      BY <1>0
    <3>2. Fits(of(p), Height[p] + 1) /\ Fits(of(q), Height[q] + 1) BY <1>4, <3>1
    <3>3. of(p)[q] = of(q)[q] BY <1>2, <3>1, <3>2
    <3> QED BY <3>1, <3>3, <1>6
  <2>2. CoverageOf(of(p), p) = CoverageOf(c, p) BY <2>1, <1>1
  <2> QED BY <2>2, <1>5, <1>6
<1>9. c = [p \in Patterns |-> CoverageOf(c, p)] BY <1>7, <1>8, <1>6
<1>10. Coverage = [p \in Patterns |-> CoverageOf(Coverage, p)]
  BY <1>9 DEF Coverage, CoverageOf
<1> QED BY <1>10

\* The analysis at a depth is given by the analysis one call less deep; at 0 it
\* has no end.
LEMMA UsefulWitnessDef ==
  /\ \A q \in Questions : UsefulWitness[0][q] = NoEnd
  /\ \A d \in 0 .. MaxDepth : d > 0 =>
       \A q \in Questions : UsefulWitness[d][q] = WitnessOf(UsefulWitness[d - 1], q)
<1> DEFINE answers(f, d) == [q \in Questions |-> IF d = 0 THEN NoEnd ELSE WitnessOf(f[d - 1], q)]
           Fits(f, n) == f = [d \in 0 .. n |-> answers(f, d)]
           E == {n \in Nat : \E f : Fits(f, n)}
<1>1. 0 \in E
  <2> DEFINE g == [d \in 0 .. 0 |-> [q \in Questions |-> NoEnd]]
  <2>1. \A d \in 0 .. 0 : d = 0 OBVIOUS
  <2>2. \A d \in 0 .. 0 : answers(g, d) = [q \in Questions |-> NoEnd] BY <2>1
  <2>3. g = [d \in 0 .. 0 |-> answers(g, d)] BY <2>2
  <2> HIDE DEF g, answers
  <2> QED BY <2>3
<1>2. ASSUME NEW n \in Nat, n \in E PROVE n + 1 \in E
  <2>1. PICK f : Fits(f, n) BY <1>2
  <2> DEFINE g == [d \in 0 .. n + 1 |-> answers(f, d)]
  <2>2. ASSUME NEW d \in 0 .. n + 1 PROVE answers(f, d) = answers(g, d)
    <3>1. CASE d = 0 BY <3>1
    <3>2. CASE d # 0
      <4>1. d - 1 \in 0 .. n /\ d - 1 \in 0 .. n + 1 BY <3>2
      <4>2. f[d - 1] = answers(f, d - 1) /\ g[d - 1] = answers(f, d - 1)
        <5> HIDE DEF answers
        <5> QED BY <2>1, <4>1
      <4> HIDE DEF g
      <4> QED BY <4>2
    <3> QED BY <3>1, <3>2
  <2>3. g = [d \in 0 .. n + 1 |-> answers(g, d)]
    <3> HIDE DEF answers
    <3> QED BY <2>2
  <2> HIDE DEF g, answers
  <2> QED BY <2>3
<1>3. Nat \subseteq E
  <2> HIDE DEF E
  <2> QED BY <1>1, <1>2, NumberInduction
<1>4. \E f : f = [d \in 0 .. MaxDepth |-> answers(f, d)]
  <2> HIDE DEF answers
  <2> QED BY <1>3, DepthIsANumber
<1>5. UsefulWitness = [d \in 0 .. MaxDepth |-> answers(UsefulWitness, d)]
  BY <1>4 DEF UsefulWitness
<1>6. \A d \in 0 .. MaxDepth : UsefulWitness[d] = answers(UsefulWitness, d)
  <2> HIDE DEF answers
  <2> QED BY <1>5
<1>7. 0 \in 0 .. MaxDepth BY DepthIsANumber
<1>8. UsefulWitness[0] = answers(UsefulWitness, 0)
  <2> HIDE DEF answers
  <2> QED BY <1>6, <1>7
<1>9. \A q \in Questions : UsefulWitness[0][q] = NoEnd BY <1>8
<1>10. ASSUME NEW d \in 0 .. MaxDepth, d > 0, NEW q \in Questions
       PROVE  UsefulWitness[d][q] = WitnessOf(UsefulWitness[d - 1], q)
  <2>1. UsefulWitness[d] = answers(UsefulWitness, d)
    <3> HIDE DEF answers
    <3> QED BY <1>6
  <2>2. d # 0 BY <1>10
  <2> QED BY <2>1, <2>2
<1> QED BY <1>9, <1>10

-----------------------------------------------------------------------------
(* Rows of patterns and of values. *)

IsVector(vs, types) == vs \in Seq(Values) /\ Hold(vs, types)

TypedRow(row, types) ==
  /\ row \in Seq(Patterns) /\ Len(row) = Len(types)
  /\ \A i \in 1 .. Len(types) : WellFormed[row[i]][types[i]]

TakesAll(row, vs) == \A i \in 1 .. Len(row) : Tests[row[i]][vs[i]]

TypedRows(matrix, types) == \A row \in matrix : TypedRow(row, types)
Taken(matrix, vs) == \E row \in matrix : TakesAll(row, vs)

\* The elements of two sequences one after the other.
LEMMA ConcatElements ==
  ASSUME NEW S, NEW a \in Seq(S), NEW b \in Seq(S)
  PROVE  /\ a \o b \in Seq(S) /\ Len(a \o b) = Len(a) + Len(b)
         /\ \A i \in 1 .. Len(a) : i \in 1 .. Len(a \o b) /\ (a \o b)[i] = a[i]
         /\ \A i \in 1 .. Len(b) : Len(a) + i \in 1 .. Len(a \o b) /\ (a \o b)[Len(a) + i] = b[i]
         /\ \A k \in 1 .. Len(a \o b) :
              k \in 1 .. Len(a) \/ \E i \in 1 .. Len(b) : k = Len(a) + i
<1>1. a \o b \in Seq(S) /\ Len(a \o b) = Len(a) + Len(b) /\ Len(a) \in Nat /\ Len(b) \in Nat
      /\ \A i \in 1 .. Len(a) + Len(b) : (a \o b)[i] = IF i <= Len(a) THEN a[i] ELSE b[i - Len(a)]
  BY ConcatProperties
<1>2. \A i \in 1 .. Len(b) : Len(a) + i \in 1 .. Len(a \o b) /\ ~(Len(a) + i <= Len(a)) /\ (Len(a) + i) - Len(a) = i
  BY <1>1
<1>3. ASSUME NEW k \in 1 .. Len(a \o b), k \notin 1 .. Len(a)
      PROVE  \E i \in 1 .. Len(b) : k = Len(a) + i
  <2>1. k - Len(a) \in 1 .. Len(b) /\ k = Len(a) + (k - Len(a)) BY <1>1, <1>3
  <2> QED BY <2>1
<1> QED BY <1>1, <1>2, <1>3

\* The elements of c are those of a and then those of b.
Joins(c, a, b) ==
  /\ Len(c) = Len(a) + Len(b)
  /\ \A i \in 1 .. Len(a) : i \in 1 .. Len(c) /\ c[i] = a[i]
  /\ \A i \in 1 .. Len(b) : Len(a) + i \in 1 .. Len(c) /\ c[Len(a) + i] = b[i]
  /\ \A k \in 1 .. Len(c) : k \in 1 .. Len(a) \/ \E i \in 1 .. Len(b) : k = Len(a) + i

\* The same, with the lengths named.
LEMMA ConcatJoins ==
  ASSUME NEW S, NEW a \in Seq(S), NEW b \in Seq(S)
  PROVE  a \o b \in Seq(S) /\ Joins(a \o b, a, b)
  BY ConcatElements DEF Joins

\* Two rows for two lists of types are a row for both.
LEMMA ConcatRow ==
  ASSUME NEW a, NEW b, NEW s \in Seq(Types), NEW t \in Seq(Types), TypedRow(a, s), TypedRow(b, t)
  PROVE  TypedRow(a \o b, s \o t)
<1>1. a \in Seq(Patterns) /\ b \in Seq(Patterns) /\ Len(a) = Len(s) /\ Len(b) = Len(t) BY DEF TypedRow
<1>2. /\ \A i \in 1 .. Len(s) : WellFormed[a[i]][s[i]]
      /\ \A i \in 1 .. Len(t) : WellFormed[b[i]][t[i]]
  BY DEF TypedRow
<1> DEFINE c == a \o b
           u == s \o t
<1>3. c \in Seq(Patterns) /\ Joins(c, a, b) /\ u \in Seq(Types) /\ Joins(u, s, t) BY <1>1, ConcatJoins
<1> HIDE DEF c, u
<1>4. Len(c) = Len(u) BY <1>1, <1>3 DEF Joins
<1>5. ASSUME NEW k \in 1 .. Len(u) PROVE WellFormed[c[k]][u[k]]
  <2>1. CASE k \in 1 .. Len(s) BY <1>1, <1>2, <1>3, <2>1 DEF Joins
  <2>2. ASSUME NEW i \in 1 .. Len(t), k = Len(s) + i PROVE WellFormed[c[k]][u[k]]
    <3>1. c[k] = b[i] /\ u[k] = t[i] BY <1>1, <1>3, <2>2 DEF Joins
    <3> QED BY <3>1, <1>2
  <2>3. k \in 1 .. Len(s) \/ \E i \in 1 .. Len(t) : k = Len(s) + i BY <1>3 DEF Joins
  <2> QED BY <2>1, <2>2, <2>3
<1>6. TypedRow(c, u) BY <1>3, <1>4, <1>5 DEF TypedRow
<1> QED BY <1>6 DEF c, u

\* A vector of values has one of each type.
LEMMA VectorIs ==
  ASSUME NEW types \in Seq(Types), NEW vs
  PROVE  IsVector(vs, types) <=> /\ vs \in Seq(Values) /\ Len(vs) = Len(types)
                                 /\ \A i \in 1 .. Len(types) : vs[i] \in ValuesOf[types[i]]
<1>1. DOMAIN types = 1 .. Len(types) OBVIOUS
<1> QED BY <1>1 DEF IsVector, Hold

\* Two vectors for two lists of types are a vector for both.
LEMMA ConcatVector ==
  ASSUME NEW a, NEW b, NEW s \in Seq(Types), NEW t \in Seq(Types), IsVector(a, s), IsVector(b, t)
  PROVE  IsVector(a \o b, s \o t)
<1>1. a \in Seq(Values) /\ b \in Seq(Values) /\ Len(a) = Len(s) /\ Len(b) = Len(t) BY VectorIs
<1>2. /\ \A i \in 1 .. Len(s) : a[i] \in ValuesOf[s[i]]
      /\ \A i \in 1 .. Len(t) : b[i] \in ValuesOf[t[i]]
  BY VectorIs
<1> DEFINE c == a \o b
           u == s \o t
<1>3. c \in Seq(Values) /\ Joins(c, a, b) /\ u \in Seq(Types) /\ Joins(u, s, t) BY <1>1, ConcatJoins
<1> HIDE DEF c, u
<1>4. Len(c) = Len(u) BY <1>1, <1>3 DEF Joins
<1>5. ASSUME NEW k \in 1 .. Len(u) PROVE c[k] \in ValuesOf[u[k]]
  <2>1. CASE k \in 1 .. Len(s) BY <1>1, <1>2, <1>3, <2>1 DEF Joins
  <2>2. ASSUME NEW i \in 1 .. Len(t), k = Len(s) + i PROVE c[k] \in ValuesOf[u[k]]
    <3>1. c[k] = b[i] /\ u[k] = t[i] BY <1>1, <1>3, <2>2 DEF Joins
    <3> QED BY <3>1, <1>2
  <2>3. k \in 1 .. Len(s) \/ \E i \in 1 .. Len(t) : k = Len(s) + i BY <1>3 DEF Joins
  <2> QED BY <2>1, <2>2, <2>3
<1>6. IsVector(c, u) BY <1>3, <1>4, <1>5, VectorIs
<1> QED BY <1>6 DEF c, u

\* A row of two rows takes what each of them takes.
LEMMA ConcatTakes ==
  ASSUME NEW a \in Seq(Patterns), NEW b \in Seq(Patterns), NEW v \in Seq(Values), NEW w \in Seq(Values),
         Len(a) = Len(v), Len(b) = Len(w)
  PROVE  TakesAll(a \o b, v \o w) <=> TakesAll(a, v) /\ TakesAll(b, w)
<1> DEFINE c == a \o b
           u == v \o w
<1>1. Joins(c, a, b) /\ Joins(u, v, w) BY ConcatJoins
<1> HIDE DEF c, u
<1>2. ASSUME TakesAll(c, u) PROVE TakesAll(a, v)
  BY <1>1, <1>2 DEF Joins, TakesAll
<1>3. ASSUME TakesAll(c, u) PROVE TakesAll(b, w)
  <2> SUFFICES ASSUME NEW i \in 1 .. Len(b) PROVE Tests[b[i]][w[i]] BY DEF TakesAll
  <2>1. Len(a) + i \in 1 .. Len(c) /\ c[Len(a) + i] = b[i] /\ u[Len(a) + i] = w[i]
    BY <1>1 DEF Joins
  <2> QED BY <2>1, <1>3 DEF TakesAll
<1>4. ASSUME TakesAll(a, v), TakesAll(b, w) PROVE TakesAll(c, u)
  <2> SUFFICES ASSUME NEW k \in 1 .. Len(c) PROVE Tests[c[k]][u[k]] BY DEF TakesAll
  <2>1. CASE k \in 1 .. Len(a)
    <3>1. c[k] = a[k] /\ u[k] = v[k] BY <2>1, <1>1 DEF Joins
    <3> QED BY <3>1, <2>1, <1>4 DEF TakesAll
  <2>2. ASSUME NEW i \in 1 .. Len(b), k = Len(a) + i PROVE Tests[c[k]][u[k]]
    <3>1. c[k] = b[i] /\ u[k] = w[i] BY <2>2, <1>1 DEF Joins
    <3> QED BY <3>1, <1>4 DEF TakesAll
  <2>3. k \in 1 .. Len(a) \/ \E i \in 1 .. Len(b) : k = Len(a) + i BY <1>1 DEF Joins
  <2> QED BY <2>1, <2>2, <2>3
<1>5. TakesAll(c, u) <=> TakesAll(a, v) /\ TakesAll(b, w) BY <1>2, <1>3, <1>4
<1> QED BY <1>5 DEF c, u

\* The first pattern of a row and the rest of it.
LEMMA RowParts ==
  ASSUME NEW types \in Seq(Types), types # << >>, NEW row, TypedRow(row, types)
  PROVE  /\ row # << >> /\ row = <<Head(row)>> \o Tail(row)
         /\ Head(row) \in Patterns /\ WellFormed[Head(row)][Head(types)]
         /\ TypedRow(Tail(row), Tail(types))
<1>1. row \in Seq(Patterns) /\ Len(row) = Len(types) /\ Len(types) \in Nat \ {0} BY DEF TypedRow
<1>2. /\ row # << >> /\ Head(row) = row[1] /\ Head(types) = types[1] /\ row[1] \in Patterns
      /\ Tail(row) \in Seq(Patterns) /\ Len(Tail(row)) = Len(row) - 1
      /\ Tail(types) \in Seq(Types) /\ Len(Tail(types)) = Len(types) - 1
  BY <1>1, HeadTailProperties
<1>3. \A i \in 1 .. Len(row) - 1 : Tail(row)[i] = row[i + 1] /\ Tail(types)[i] = types[i + 1]
  BY <1>1, HeadTailProperties
<1>4. \A i \in 1 .. Len(Tail(types)) : WellFormed[Tail(row)[i]][Tail(types)[i]]
  <2> SUFFICES ASSUME NEW i \in 1 .. Len(Tail(types)) PROVE WellFormed[Tail(row)[i]][Tail(types)[i]] OBVIOUS
  <2>1. i \in 1 .. Len(row) - 1 /\ i + 1 \in 1 .. Len(types) BY <1>1, <1>2
  <2> QED BY <2>1, <1>3 DEF TypedRow
<1>5. row = <<Head(row)>> \o Tail(row)
  <2>1. row = <<row[1]>> \o Tail(row) BY <1>1
  <2> QED BY <2>1, <1>2
<1>6. WellFormed[row[1]][types[1]] BY <1>1 DEF TypedRow
<1> QED BY <1>1, <1>2, <1>4, <1>5, <1>6 DEF TypedRow

\* The first value of a vector and the rest of it.
LEMMA VectorParts ==
  ASSUME NEW types \in Seq(Types), types # << >>, NEW vs, IsVector(vs, types)
  PROVE  /\ vs # << >> /\ vs = <<Head(vs)>> \o Tail(vs)
         /\ Head(types) \in Types /\ Head(vs) \in ValuesOf[Head(types)] /\ Head(vs) \in Values
         /\ Tail(types) \in Seq(Types) /\ Tail(vs) \in Seq(Values) /\ IsVector(Tail(vs), Tail(types))
<1>1. vs \in Seq(Values) /\ Len(vs) = Len(types) /\ Len(types) \in Nat \ {0} BY DEF IsVector, Hold
<1>2. /\ vs # << >> /\ Head(vs) = vs[1] /\ Head(types) = types[1] /\ vs[1] \in Values /\ types[1] \in Types
      /\ Tail(vs) \in Seq(Values) /\ Len(Tail(vs)) = Len(vs) - 1
      /\ Tail(types) \in Seq(Types) /\ Len(Tail(types)) = Len(types) - 1
  BY <1>1, HeadTailProperties
<1>3. \A i \in 1 .. Len(vs) - 1 : Tail(vs)[i] = vs[i + 1] /\ Tail(types)[i] = types[i + 1]
  BY <1>1, HeadTailProperties
<1>7. \A i \in 1 .. Len(types) : vs[i] \in ValuesOf[types[i]] BY VectorIs
<1>4. \A i \in 1 .. Len(Tail(types)) : Tail(vs)[i] \in ValuesOf[Tail(types)[i]]
  <2> SUFFICES ASSUME NEW i \in 1 .. Len(Tail(types)) PROVE Tail(vs)[i] \in ValuesOf[Tail(types)[i]] OBVIOUS
  <2>1. i \in 1 .. Len(vs) - 1 /\ i + 1 \in 1 .. Len(types) BY <1>1, <1>2
  <2> QED BY <2>1, <1>3, <1>7
<1>5. vs = <<Head(vs)>> \o Tail(vs)
  <2>1. vs = <<vs[1]>> \o Tail(vs) BY <1>1
  <2> QED BY <2>1, <1>2
<1>6. vs[1] \in ValuesOf[types[1]] BY <1>1, <1>7
<1>9. IsVector(Tail(vs), Tail(types)) BY <1>1, <1>2, <1>4, VectorIs
<1> QED BY <1>1, <1>2, <1>5, <1>6, <1>9

\* An element before a sequence is its head, and the sequence its tail.
LEMMA Prepended ==
  ASSUME NEW S, NEW x \in S, NEW r \in Seq(S)
  PROVE  /\ <<x>> \in Seq(S) /\ Len(<<x>>) = 1
         /\ <<x>> \o r \in Seq(S) /\ <<x>> \o r # << >> /\ Len(<<x>> \o r) = Len(r) + 1
         /\ Head(<<x>> \o r) = x /\ Tail(<<x>> \o r) = r
  OBVIOUS

\* A row takes a vector if its first pattern takes the first value and the rest
\* takes the rest.
LEMMA HeadTakes ==
  ASSUME NEW p \in Patterns, NEW r \in Seq(Patterns), NEW v \in Values, NEW w \in Seq(Values), Len(r) = Len(w)
  PROVE  TakesAll(<<p>> \o r, <<v>> \o w) <=> Tests[p][v] /\ TakesAll(r, w)
<1>1. TakesAll(<<p>>, <<v>>) <=> Tests[p][v]
  <2>1. Len(<<p>>) = 1 /\ <<p>>[1] = p /\ <<v>>[1] = v OBVIOUS
  <2> QED BY <2>1 DEF TakesAll
<1>2. <<p>> \in Seq(Patterns) /\ <<v>> \in Seq(Values) /\ Len(<<p>>) = Len(<<v>>) OBVIOUS
<1> QED BY <1>1, <1>2, ConcatTakes

\* The first of some types and the rest of them.
LEMMA TypesParts ==
  ASSUME NEW types \in Seq(Types), types # << >>
  PROVE  /\ Head(types) \in Types /\ Tail(types) \in Seq(Types)
         /\ types = <<Head(types)>> \o Tail(types)
  OBVIOUS

\* A pattern of the first type before a row for the others is a row.
LEMMA PrependRow ==
  ASSUME NEW types \in Seq(Types), types # << >>, NEW p \in Patterns, WellFormed[p][Head(types)],
         NEW r, TypedRow(r, Tail(types))
  PROVE  TypedRow(<<p>> \o r, types)
<1>1. /\ Head(types) \in Types /\ Tail(types) \in Seq(Types)
      /\ types = <<Head(types)>> \o Tail(types) BY TypesParts
<1>2. TypedRow(<<p>>, <<Head(types)>>)
  <2>1. /\ <<p>> \in Seq(Patterns) /\ Len(<<p>>) = 1 /\ Len(<<Head(types)>>) = 1
        /\ <<p>>[1] = p /\ <<Head(types)>>[1] = Head(types)
    BY <1>1
  <2> QED BY <2>1 DEF TypedRow
<1>3. <<Head(types)>> \in Seq(Types) BY <1>1
<1>4. TypedRow(<<p>> \o r, <<Head(types)>> \o Tail(types)) BY <1>1, <1>2, <1>3, ConcatRow
<1> QED BY <1>1, <1>4

-----------------------------------------------------------------------------
(* The alternatives of a pattern take together what the pattern takes. *)

\* A pattern takes what its alternatives take, and these are no alternations
\* themselves.
LEMMA AlternativesTake ==
  ASSUME NEW t \in Types, NEW p \in Patterns, WellFormed[p][t]
  PROVE  /\ \A a \in Alternatives[p] : a \in Patterns /\ a.kind # "alternation" /\ WellFormed[a][t]
         /\ \A v \in Values : Tests[p][v] <=> \E a \in Alternatives[p] : Tests[a][v]
<1> DEFINE Good(q) == /\ \A a \in Alternatives[q] : a \in Patterns /\ a.kind # "alternation" /\ WellFormed[a][t]
                      /\ \A v \in Values : Tests[q][v] <=> \E a \in Alternatives[q] : Tests[a][v]
           S == {q \in Patterns : WellFormed[q][t] => Good(q)}
<1>1. ASSUME NEW q \in Patterns, \A r \in Inside(q) : r \in S PROVE q \in S
  <2> SUFFICES ASSUME WellFormed[q][t] PROVE Good(q) OBVIOUS
  <2>1. CASE q.kind = "alternation"
    <3>1. /\ q.alternatives \in Seq(Patterns)
          /\ Alternatives[q] = UNION {Alternatives[r] : r \in Range(q.alternatives)}
      BY <2>1, PatternKinds, AlternativesDef
    <3>2. ASSUME NEW i \in DOMAIN q.alternatives PROVE Good(q.alternatives[i])
      <4>1. q.alternatives[i] \in Inside(q) BY <2>1, InsideElements
      <4>2. <<q.alternatives[i], t>> \in Parts(q, t) BY <2>1 DEF Parts, Range
      <4>3. WellFormed[q.alternatives[i]][t]
        <5>1. \A part \in Parts(q, t) : WellFormed[part[1]][part[2]] BY WellFormedDef
        <5> QED BY <4>2, <5>1
      <4>4. q.alternatives[i] \in S BY <4>1, <1>1
      <4> QED BY <4>3, <4>4
    <3>3. Range(q.alternatives) = {q.alternatives[i] : i \in DOMAIN q.alternatives} BY DEF Range
    <3>4. \A a \in Alternatives[q] : a \in Patterns /\ a.kind # "alternation" /\ WellFormed[a][t]
      <4>1. \A a \in Alternatives[q] : \E i \in DOMAIN q.alternatives : a \in Alternatives[q.alternatives[i]]
        BY <3>1, <3>3
      <4> QED BY <4>1, <3>2
    <3>5. ASSUME NEW v \in Values PROVE Tests[q][v] <=> \E a \in Alternatives[q] : Tests[a][v]
      <4>1. Tests[q][v] <=> \E i \in DOMAIN q.alternatives : Tests[q.alternatives[i]][v]
        BY <2>1, TestsDef DEF TestOf
      <4>2. \A i \in DOMAIN q.alternatives :
              Tests[q.alternatives[i]][v] <=> \E a \in Alternatives[q.alternatives[i]] : Tests[a][v]
        BY <3>2
      <4>3. \A a : a \in Alternatives[q] <=> \E i \in DOMAIN q.alternatives : a \in Alternatives[q.alternatives[i]]
        BY <3>1, <3>3
      <4> QED BY <4>1, <4>2, <4>3
    <3> QED BY <3>4, <3>5
  <2>2. CASE q.kind # "alternation"
    <3>1. Alternatives[q] = {q} BY <2>2, AlternativesDef
    <3> QED BY <3>1, <2>2
  <2> QED BY <2>1, <2>2
<1>2. Patterns \subseteq S
  <2> HIDE DEF S
  <2> QED BY <1>1, PatternInduction
<1> QED BY <1>2

\* What the rows of an expanded matrix are.
LEMMA InExpanded ==
  ASSUME NEW matrix
  PROVE  \A row : row \in Expanded(matrix) <=>
           \E old \in matrix : \E a \in Alternatives[Head(old)] : row = <<a>> \o Tail(old)
<1> DEFINE of(old) == {<<a>> \o Tail(old) : a \in Alternatives[Head(old)]}
<1>1. Expanded(matrix) = UNION {of(old) : old \in matrix} BY DEF Expanded
<1>2. \A row, old : row \in of(old) <=> \E a \in Alternatives[Head(old)] : row = <<a>> \o Tail(old)
  OBVIOUS
<1> HIDE DEF of
<1>3. \A row : row \in Expanded(matrix) <=> \E old \in matrix : row \in of(old) BY <1>1
<1> QED BY <1>2, <1>3

\* Expanding a matrix keeps it typed and takes the same values
\* (expand_alternatives).
LEMMA ExpandedRows ==
  ASSUME NEW types \in Seq(Types), types # << >>, NEW matrix, TypedRows(matrix, types)
  PROVE  /\ TypedRows(Expanded(matrix), types)
         /\ \A row \in Expanded(matrix) : Head(row).kind # "alternation"
         /\ \A row \in Expanded(matrix) : \E old \in matrix :
              row = <<Head(row)>> \o Tail(old) /\ Head(row) \in Alternatives[Head(old)]
                /\ Tail(row) = Tail(old)
         /\ \A vs : IsVector(vs, types) => (Taken(matrix, vs) <=> Taken(Expanded(matrix), vs))
<1>1. ASSUME NEW old \in matrix, NEW a \in Alternatives[Head(old)]
      PROVE  /\ TypedRow(<<a>> \o Tail(old), types) /\ Head(<<a>> \o Tail(old)) = a
             /\ Tail(<<a>> \o Tail(old)) = Tail(old) /\ a.kind # "alternation"
             /\ a \in Patterns /\ Tail(old) \in Seq(Patterns)
  <2>1. /\ Head(old) \in Patterns /\ WellFormed[Head(old)][Head(types)]
        /\ TypedRow(Tail(old), Tail(types))
    BY RowParts DEF TypedRows
  <2>2. a \in Patterns /\ a.kind # "alternation" /\ WellFormed[a][Head(types)]
    BY <2>1, TypesParts, AlternativesTake
  <2>3. TypedRow(<<a>> \o Tail(old), types) BY <2>1, <2>2, PrependRow
  <2>4. Tail(old) \in Seq(Patterns) BY <2>1 DEF TypedRow
  <2>5. Head(<<a>> \o Tail(old)) = a /\ Tail(<<a>> \o Tail(old)) = Tail(old) BY <2>2, <2>4, Prepended
  <2> QED BY <2>2, <2>3, <2>4, <2>5
<1>2. \A row : row \in Expanded(matrix) <=>
        \E old \in matrix : \E a \in Alternatives[Head(old)] : row = <<a>> \o Tail(old)
  BY InExpanded
<1>3. ASSUME NEW vs, IsVector(vs, types) PROVE Taken(matrix, vs) <=> Taken(Expanded(matrix), vs)
  <2>1. /\ vs = <<Head(vs)>> \o Tail(vs) /\ Head(vs) \in Values /\ Tail(vs) \in Seq(Values)
        /\ IsVector(Tail(vs), Tail(types)) /\ Tail(types) \in Seq(Types) /\ Head(types) \in Types
    BY <1>3, VectorParts
  <2>2. ASSUME NEW old \in matrix
        PROVE  TakesAll(old, vs) <=> \E a \in Alternatives[Head(old)] : TakesAll(<<a>> \o Tail(old), vs)
    <3>1. /\ old = <<Head(old)>> \o Tail(old) /\ Head(old) \in Patterns
          /\ WellFormed[Head(old)][Head(types)] /\ TypedRow(Tail(old), Tail(types))
      BY RowParts DEF TypedRows
    <3>2. Tail(old) \in Seq(Patterns) /\ Len(Tail(old)) = Len(Tail(vs))
      BY <3>1, <2>1, VectorIs DEF TypedRow
    <3>6. \A a \in Patterns :
            TakesAll(<<a>> \o Tail(old), <<Head(vs)>> \o Tail(vs)) <=> Tests[a][Head(vs)] /\ TakesAll(Tail(old), Tail(vs))
      BY <3>2, <2>1, HeadTakes
    <3>3. TakesAll(old, vs) <=> Tests[Head(old)][Head(vs)] /\ TakesAll(Tail(old), Tail(vs))
      BY <3>1, <3>6, <2>1
    <3>4. \A a \in Alternatives[Head(old)] :
            TakesAll(<<a>> \o Tail(old), vs) <=> Tests[a][Head(vs)] /\ TakesAll(Tail(old), Tail(vs))
      BY <1>1, <3>6, <2>1
    <3>5. Tests[Head(old)][Head(vs)] <=> \E a \in Alternatives[Head(old)] : Tests[a][Head(vs)]
      BY <3>1, <2>1, AlternativesTake
    <3>7. ASSUME TakesAll(old, vs) PROVE \E a \in Alternatives[Head(old)] : TakesAll(<<a>> \o Tail(old), vs)
      <4>1. PICK a \in Alternatives[Head(old)] : Tests[a][Head(vs)] BY <3>3, <3>5, <3>7
      <4>2. TakesAll(<<a>> \o Tail(old), vs) BY <4>1, <3>3, <3>4, <3>7
      <4> QED BY <4>2
    <3>8. ASSUME NEW a \in Alternatives[Head(old)], TakesAll(<<a>> \o Tail(old), vs) PROVE TakesAll(old, vs)
      <4>1. Tests[a][Head(vs)] /\ TakesAll(Tail(old), Tail(vs)) BY <3>4, <3>8
      <4> QED BY <4>1, <3>3, <3>5
    <3> QED BY <3>7, <3>8
  <2>3. ASSUME Taken(matrix, vs) PROVE Taken(Expanded(matrix), vs)
    <3>1. PICK old \in matrix : TakesAll(old, vs) BY <2>3 DEF Taken
    <3>2. PICK a \in Alternatives[Head(old)] : TakesAll(<<a>> \o Tail(old), vs) BY <3>1, <2>2
    <3>3. <<a>> \o Tail(old) \in Expanded(matrix) BY <1>2
    <3> QED BY <3>2, <3>3 DEF Taken
  <2>4. ASSUME Taken(Expanded(matrix), vs) PROVE Taken(matrix, vs)
    <3>1. PICK row \in Expanded(matrix) : TakesAll(row, vs) BY <2>4 DEF Taken
    <3>2. PICK old \in matrix : \E a \in Alternatives[Head(old)] : row = <<a>> \o Tail(old) BY <1>2
    <3>3. TakesAll(old, vs) BY <3>1, <3>2, <2>2
    <3> QED BY <3>3 DEF Taken
  <2> QED BY <2>3, <2>4
<1>4. TypedRows(Expanded(matrix), types)
  <2> SUFFICES ASSUME NEW row \in Expanded(matrix) PROVE TypedRow(row, types) BY DEF TypedRows
  <2>1. PICK old \in matrix : \E a \in Alternatives[Head(old)] : row = <<a>> \o Tail(old) BY <1>2
  <2>2. PICK a \in Alternatives[Head(old)] : row = <<a>> \o Tail(old) BY <2>1
  <2> QED BY <2>2, <1>1
<1>5. ASSUME NEW row \in Expanded(matrix)
      PROVE  /\ Head(row).kind # "alternation"
             /\ \E old \in matrix : /\ row = <<Head(row)>> \o Tail(old)
                                    /\ Head(row) \in Alternatives[Head(old)] /\ Tail(row) = Tail(old)
  <2>1. PICK old \in matrix : \E a \in Alternatives[Head(old)] : row = <<a>> \o Tail(old) BY <1>2
  <2>2. PICK a \in Alternatives[Head(old)] : row = <<a>> \o Tail(old) BY <2>1
  <2> QED BY <2>2, <1>1
<1> QED BY <1>3, <1>4, <1>5

-----------------------------------------------------------------------------
(* The specialized rows take what the rows take. *)

\* A wildcard suits every type and takes every value.
LEMMA WildcardTakes ==
  /\ Irrefutable \in Patterns /\ Irrefutable.kind = "irrefutable"
  /\ \A t \in Types : WellFormed[Irrefutable][t]
  /\ \A v \in Values : Tests[Irrefutable][v]
<1>1. Irrefutable \in Patterns /\ Irrefutable.kind = "irrefutable" BY PatternsAreTrees DEF Irrefutable
<1>2. ASSUME NEW t \in Types PROVE WellFormed[Irrefutable][t]
  <2>1. Parts(Irrefutable, t) = {} BY <1>1 DEF Parts
  <2>2. Suits(Irrefutable, t) BY <1>1 DEF Suits, IsLiteral
  <2> QED BY <1>1, <2>1, <2>2, WellFormedDef
<1>3. ASSUME NEW v \in Values PROVE Tests[Irrefutable][v]
  BY <1>1, TestsDef DEF TestOf
<1> QED BY <1>1, <1>2, <1>3

\* The rows that are kept, with what their first patterns become.
Rewritten(args, kept) == {args[Head(row)] \o Tail(row) : row \in kept}

\* They take the arguments of a value exactly if the rows take the value, when
\* their first patterns do, and the other rows do not take it.
RewrittenTake(types, matrix, of, kept, args) ==
  \A v \in ValuesOf[Head(types)] :
    /\ IsVector(v.arguments, of)
    /\ \A row \in kept : Tests[Head(row)][v] <=> TakesAll(args[Head(row)], v.arguments)
    /\ \A row \in Expanded(matrix) \ kept : ~Tests[Head(row)][v]
    => \A ws : IsVector(ws, Tail(types)) =>
         (Taken(matrix, <<v>> \o ws) <=> Taken(Rewritten(args, kept), v.arguments \o ws))

\* The rows of a matrix whose first pattern is kept, with the arguments of that
\* pattern in its place, take a vector if the kept rows took it.
LEMMA SpecializedRows ==
  ASSUME NEW types \in Seq(Types), types # << >>, NEW matrix, TypedRows(matrix, types),
         NEW of \in Seq(Types), NEW kept, kept \subseteq Expanded(matrix), NEW args,
         \A row \in kept : TypedRow(args[Head(row)], of)
  PROVE  /\ TypedRows(Rewritten(args, kept), of \o Tail(types))
         /\ RewrittenTake(types, matrix, of, kept, args)
<1> DEFINE new == {args[Head(row)] \o Tail(row) : row \in kept}
<1>0. Head(types) \in Types /\ Tail(types) \in Seq(Types) /\ types = <<Head(types)>> \o Tail(types)
  BY TypesParts
<1>1. ASSUME NEW row \in Expanded(matrix)
      PROVE  /\ row = <<Head(row)>> \o Tail(row) /\ Head(row) \in Patterns
             /\ TypedRow(Tail(row), Tail(types)) /\ Tail(row) \in Seq(Patterns)
  <2>1. TypedRow(row, types) BY ExpandedRows DEF TypedRows
  <2>2. TypedRow(Tail(row), Tail(types)) BY <2>1, RowParts
  <2> QED BY <2>1, <2>2, RowParts DEF TypedRow
<1>2. TypedRows(new, of \o Tail(types))
  <2> SUFFICES ASSUME NEW row \in kept PROVE TypedRow(args[Head(row)] \o Tail(row), of \o Tail(types))
    BY DEF TypedRows
  <2>1. TypedRow(args[Head(row)], of) /\ TypedRow(Tail(row), Tail(types)) BY <1>1
  <2> QED BY <2>1, <1>0, ConcatRow
<1>3. ASSUME NEW v \in ValuesOf[Head(types)], IsVector(v.arguments, of),
             \A row \in kept : Tests[Head(row)][v] <=> TakesAll(args[Head(row)], v.arguments),
             \A row \in Expanded(matrix) \ kept : ~Tests[Head(row)][v],
             NEW ws, IsVector(ws, Tail(types))
      PROVE  Taken(matrix, <<v>> \o ws) <=> Taken(new, v.arguments \o ws)
  <2>1. v \in Values BY <1>0 DEF Values
  <2>2. ws \in Seq(Values) /\ Len(ws) = Len(Tail(types)) BY <1>0, <1>3, VectorIs
  <2>3. IsVector(<<v>>, <<Head(types)>>)
    <3>1. /\ <<Head(types)>> \in Seq(Types) /\ <<v>> \in Seq(Values) /\ Len(<<v>>) = 1 /\ Len(<<Head(types)>>) = 1
          /\ <<v>>[1] = v /\ <<Head(types)>>[1] = Head(types)
      BY <2>1, <1>0
    <3>2. \A i \in 1 .. Len(<<Head(types)>>) : i = 1 BY <3>1
    <3>3. \A i \in 1 .. Len(<<Head(types)>>) : <<v>>[i] \in ValuesOf[<<Head(types)>>[i]] BY <3>1, <3>2
    <3> QED BY <3>1, <3>3, VectorIs
  <2>4. IsVector(<<v>> \o ws, types)
    <3>1. <<Head(types)>> \in Seq(Types) BY <1>0
    <3>2. IsVector(<<v>> \o ws, <<Head(types)>> \o Tail(types)) BY <3>1, <1>0, <1>3, <2>3, ConcatVector
    <3> QED BY <3>2, <1>0
  <2>5. Taken(matrix, <<v>> \o ws) <=> Taken(Expanded(matrix), <<v>> \o ws) BY <2>4, ExpandedRows
  <2>6. ASSUME NEW row \in Expanded(matrix)
        PROVE  TakesAll(row, <<v>> \o ws) <=> Tests[Head(row)][v] /\ TakesAll(Tail(row), ws)
    <3>1. Len(Tail(row)) = Len(ws) BY <1>1, <2>2 DEF TypedRow
    <3>2. TakesAll(<<Head(row)>> \o Tail(row), <<v>> \o ws) <=> Tests[Head(row)][v] /\ TakesAll(Tail(row), ws)
      BY <3>1, <1>1, <2>1, <2>2, HeadTakes
    <3> QED BY <3>2, <1>1
  <2>7. ASSUME NEW row \in kept
        PROVE  TakesAll(args[Head(row)] \o Tail(row), v.arguments \o ws) <=>
                 TakesAll(args[Head(row)], v.arguments) /\ TakesAll(Tail(row), ws)
    <3>1. Len(Tail(row)) = Len(ws) /\ Tail(row) \in Seq(Patterns) BY <1>1, <2>2 DEF TypedRow
    <3>2. args[Head(row)] \in Seq(Patterns) /\ Len(args[Head(row)]) = Len(of) BY DEF TypedRow
    <3>3. v.arguments \in Seq(Values) /\ Len(v.arguments) = Len(of) BY <1>3, VectorIs
    <3> QED BY <3>1, <3>2, <3>3, <2>2, ConcatTakes
  <2>8. ASSUME Taken(Expanded(matrix), <<v>> \o ws) PROVE Taken(new, v.arguments \o ws)
    <3>1. PICK row \in Expanded(matrix) : TakesAll(row, <<v>> \o ws) BY <2>8 DEF Taken
    <3>2. Tests[Head(row)][v] /\ TakesAll(Tail(row), ws) BY <3>1, <2>6
    <3>3. row \in kept BY <3>2, <1>3
    <3>4. TakesAll(args[Head(row)] \o Tail(row), v.arguments \o ws) BY <3>2, <3>3, <2>7, <1>3
    <3>5. args[Head(row)] \o Tail(row) \in new BY <3>3
    <3> HIDE DEF new
    <3> QED BY <3>4, <3>5 DEF Taken
  <2>9. ASSUME Taken(new, v.arguments \o ws) PROVE Taken(Expanded(matrix), <<v>> \o ws)
    <3>1. PICK r \in new : TakesAll(r, v.arguments \o ws)
      <4> HIDE DEF new
      <4> QED BY <2>9 DEF Taken
    <3>2. PICK row \in kept : r = args[Head(row)] \o Tail(row) OBVIOUS
    <3>3. TakesAll(args[Head(row)], v.arguments) /\ TakesAll(Tail(row), ws) BY <3>1, <3>2, <2>7
    <3>4. Tests[Head(row)][v] BY <3>3, <1>3
    <3>5. TakesAll(row, <<v>> \o ws) BY <3>3, <3>4, <2>6
    <3> QED BY <3>5 DEF Taken
  <2> HIDE DEF new
  <2> QED BY <2>5, <2>8, <2>9
<1>4. new = Rewritten(args, kept) BY DEF Rewritten
<1> HIDE DEF new
<1> QED BY <1>2, <1>3, <1>4 DEF RewrittenTake

\* A constructor of a type with constructors, or a text.
IsConstructor(con, t) ==
  IF Shape[t].kind = "open" THEN con = <<"text", con[2]>> ELSE con \in Range(ConstructorsOf(t))

\* The argument types of a constructor are types, and a value of it has
\* arguments of them.
LEMMA ConstructorTypes ==
  ASSUME NEW t \in Types, NEW con, IsConstructor(con, t)
  PROVE  ArgumentTypes(con, t) \in Seq(Types)
<1>1. IsShape(Shape[t]) BY TypesAreClosed
<1>2. CASE Shape[t].kind = "open"
  <2>1. con[1] = "text" BY <1>2 DEF IsConstructor
  <2> QED BY <2>1 DEF ArgumentTypes
<1>3. CASE Shape[t].kind = "bool"
  <2>1. con \in {<<"bool", "false">>, <<"bool", "true">>} BY <1>3 DEF IsConstructor, ConstructorsOf, Range
  <2>2. con[1] = "bool" BY <2>1
  <2> QED BY <2>2 DEF ArgumentTypes
<1>4. CASE Shape[t].kind = "option"
  <2>1. con \in {<<"none">>, <<"some">>} BY <1>4 DEF IsConstructor, ConstructorsOf, Range
  <2>2. con[1] \in {"none", "some"} /\ Shape[t].value \in Types BY <2>1, <1>1, <1>4 DEF IsShape
  <2> QED BY <2>2 DEF ArgumentTypes
<1>5. CASE Shape[t].kind = "step"
  <2>1. con \in {<<"item">>, <<"end">>} BY <1>5 DEF IsConstructor, ConstructorsOf, Range
  <2>2. con[1] \in {"item", "end"} /\ Shape[t].value \in Types BY <2>1, <1>1, <1>5 DEF IsShape
  <2> QED BY <2>2 DEF ArgumentTypes
<1>6. CASE Shape[t].kind = "result"
  <2>1. con \in {<<"ok">>, <<"err">>} BY <1>6 DEF IsConstructor, ConstructorsOf, Range
  <2>2. con[1] \in {"ok", "err"} /\ Shape[t].value \in Types /\ Shape[t].error \in Types
    BY <2>1, <1>1, <1>6 DEF IsShape
  <2> QED BY <2>2 DEF ArgumentTypes
<1>7. CASE Shape[t].kind = "struct"
  <2>1. con = <<"struct", t>> BY <1>7 DEF IsConstructor, ConstructorsOf, Range
  <2>2. con[1] = "struct" /\ Shape[t].fields \in Seq(Types) BY <2>1, <1>1, <1>7 DEF IsShape
  <2> QED BY <2>2 DEF ArgumentTypes
<1>8. CASE Shape[t].kind = "enum"
  <2>1. Shape[t].variants \in Seq(Seq(Types)) BY <1>1, <1>8 DEF IsShape
  <2>2. PICK v \in DOMAIN Shape[t].variants : con = <<"variant", t, v>>
    BY <1>8 DEF IsConstructor, ConstructorsOf, Range
  <2>3. con[1] = "variant" /\ con[3] = v BY <2>2
  <2>4. Shape[t].variants[v] \in Seq(Types) BY <2>1
  <2> QED BY <2>3, <2>4 DEF ArgumentTypes
<1>9. CASE Shape[t].kind \in {"never", "integer", "array"}
  <2>1. ConstructorsOf(t) = << >> BY <1>9 DEF ConstructorsOf
  <2>2. con \in Range(ConstructorsOf(t)) BY <1>9 DEF IsConstructor
  <2>3. con \in Range(<< >>) BY <2>1, <2>2
  <2> QED BY <2>3 DEF Range
<1> QED BY <1>1, <1>2, <1>3, <1>4, <1>5, <1>6, <1>7, <1>8, <1>9 DEF IsShape

\* A value of a type with constructors is made by one of them from values of
\* its types.
LEMMA ValueParts ==
  ASSUME NEW t \in Types, NEW v \in ValuesOf[t], Shape[t].kind \notin {"integer", "array"}
  PROVE  IsConstructor(v.con, t) /\ IsVector(v.arguments, ArgumentTypes(v.con, t))
<1>1. IsValue(v, t) BY ValuesAreTyped
<1>2. CASE Shape[t].kind = "open"
  <2>1. v.con = <<"text", v.con[2]>> /\ v.arguments = << >> /\ v.arguments \in Seq(Values)
    BY <1>1, <1>2 DEF IsValue, IsLiteral
  <2>2. v.con[1] = "text" BY <2>1
  <2>3. ArgumentTypes(v.con, t) = << >> BY <2>2 DEF ArgumentTypes
  <2> QED BY <2>1, <2>3, <1>2 DEF IsConstructor, IsVector, Hold
<1>3. CASE Shape[t].kind # "open"
  BY <1>1, <1>3 DEF IsValue, IsLiteral, IsConstructor, IsVector
<1> QED BY <1>2, <1>3

\* A pattern that is kept for a constructor takes a value of the constructor
\* exactly if its arguments do; another one does not.
LEMMA ConstructorHead ==
  ASSUME NEW t \in Types, Shape[t].kind \notin {"integer", "array"}, NEW con, IsConstructor(con, t),
         NEW h \in Patterns, h.kind # "alternation", WellFormed[h][t]
  PROVE  LET of   == ArgumentTypes(con, t)
             args == Arguments(h, Len(of))
         IN  /\ h.kind \in {"irrefutable", "constructed"}
             /\ h = Irrefutable \/ (h.kind = "constructed" /\ h.con = con) =>
                  /\ TypedRow(args, of)
                  /\ \A v \in ValuesOf[t] : v.con = con => (Tests[h][v] <=> TakesAll(args, v.arguments))
             /\ ~(h = Irrefutable \/ (h.kind = "constructed" /\ h.con = con)) =>
                  \A v \in ValuesOf[t] : v.con = con => ~Tests[h][v]
<1> DEFINE of   == ArgumentTypes(con, t)
           args == Arguments(h, Len(of))
<1>1. of \in Seq(Types) BY ConstructorTypes
<1>2. Suits(h, t) /\ \A part \in Parts(h, t) : WellFormed[part[1]][part[2]] BY WellFormedDef
<1>3. h.kind \in {"irrefutable", "constructed"} BY <1>2, PatternKinds DEF Suits, IsLiteral
<1>4. \A v \in ValuesOf[t] : v \in Values BY DEF Values
<1>5. Len(args) = Len(of) /\ Len(of) \in Nat /\ DOMAIN args = 1 .. Len(of) BY <1>1 DEF Arguments
<1>6. CASE h = Irrefutable
  <2>1. h.kind = "irrefutable" BY <1>6, WildcardTakes
  <2>2. \A i \in 1 .. Len(of) : args[i] = Irrefutable BY <2>1 DEF Arguments
  <2>3. args \in Seq(Patterns)
    <3>1. args = [i \in 1 .. Len(of) |-> args[i]] BY DEF Arguments
    <3> HIDE DEF args
    <3> QED BY <3>1, <2>2, <1>5, WildcardTakes
  <2>4. TypedRow(args, of)
    <3> HIDE DEF args, of
    <3>1. \A i \in 1 .. Len(of) : of[i] \in Types BY <1>1
    <3> QED BY <2>2, <2>3, <1>5, <3>1, WildcardTakes DEF TypedRow
  <2>5. ASSUME NEW v \in ValuesOf[t], v.con = con PROVE Tests[h][v] /\ TakesAll(args, v.arguments)
    <3>1. Tests[h][v] BY <1>4, <1>6, WildcardTakes
    <3>2. IsVector(v.arguments, of) BY <2>5, ValueParts
    <3>3. \A i \in 1 .. Len(of) : v.arguments[i] \in Values BY <1>1, <3>2, VectorIs
    <3> HIDE DEF args, of
    <3> QED BY <3>1, <3>3, <2>2, <1>5, WildcardTakes DEF TakesAll
  <2> QED BY <1>3, <1>6, <2>4, <2>5
<1>7. CASE h.kind = "constructed" /\ h.con = con
  <2>0. h # Irrefutable BY <1>7, WildcardTakes
  <2>1. DOMAIN h.arguments \subseteq 1 .. Len(of) /\ DOMAIN of = 1 .. Len(of)
    BY <1>2, <1>7, <1>1 DEF Suits, IsLiteral
  <2>2. \A i \in DOMAIN h.arguments : args[i] = h.arguments[i] BY <1>7, <2>1 DEF Arguments
  <2>3. \A i \in 1 .. Len(of) : i \notin DOMAIN h.arguments => args[i] = Irrefutable
    BY DEF Arguments
  <2>4. \A i \in DOMAIN h.arguments : h.arguments[i] \in Patterns /\ WellFormed[h.arguments[i]][of[i]]
    <3>1. \A i \in DOMAIN h.arguments : <<h.arguments[i], of[i]>> \in Parts(h, t) BY <1>7 DEF Parts
    <3>2. \A i \in DOMAIN h.arguments : h.arguments[i] \in Patterns BY <1>7, InsideElements
    <3> HIDE DEF of
    <3> QED BY <3>1, <3>2, <1>2
  <2>5. args \in Seq(Patterns)
    <3>1. args = [i \in 1 .. Len(of) |-> args[i]] BY DEF Arguments
    <3> HIDE DEF args
    <3>2. \A i \in 1 .. Len(of) : args[i] \in Patterns
      <4> TAKE i \in 1 .. Len(of)
      <4>1. CASE i \in DOMAIN h.arguments BY <4>1, <2>2, <2>4
      <4>2. CASE i \notin DOMAIN h.arguments BY <4>2, <2>3, WildcardTakes
      <4> QED BY <4>1, <4>2
    <3> HIDE DEF of
    <3> QED BY <3>1, <3>2, <1>5
  <2>6. TypedRow(args, of)
    <3> HIDE DEF args, of
    <3>1. \A i \in 1 .. Len(of) : of[i] \in Types BY <1>1
    <3> QED BY <2>2, <2>3, <2>4, <2>5, <1>5, <3>1, WildcardTakes DEF TypedRow
  <2>7. ASSUME NEW v \in ValuesOf[t], v.con = con PROVE Tests[h][v] <=> TakesAll(args, v.arguments)
    <3>1. Tests[h][v] <=> \A i \in DOMAIN h.arguments : Tests[h.arguments[i]][v.arguments[i]]
      <4>1. h.con = v.con /\ v \in Values BY <1>7, <2>7, <1>4
      <4>2. Tests[h][v] <=> TestOf(Tests, h, v) BY <4>1, TestsDef
      <4>3. TestOf(Tests, h, v) <=> \A i \in DOMAIN h.arguments : Tests[h.arguments[i]][v.arguments[i]]
        BY <4>1, <1>7 DEF TestOf
      <4> QED BY <4>2, <4>3
    <3>2. IsVector(v.arguments, of) BY <2>7, ValueParts
    <3>3. \A i \in 1 .. Len(of) : v.arguments[i] \in Values BY <1>1, <3>2, VectorIs
    <3>4. TakesAll(args, v.arguments) <=> \A i \in 1 .. Len(of) : Tests[args[i]][v.arguments[i]]
      BY <1>5 DEF TakesAll
    <3> HIDE DEF args, of
    <3>5. \A i \in 1 .. Len(of) : i \notin DOMAIN h.arguments => Tests[args[i]][v.arguments[i]]
      BY <3>3, <2>3, WildcardTakes
    <3> QED BY <3>1, <3>4, <3>5, <2>1, <2>2
  <2> QED BY <1>3, <2>0, <1>7, <2>6, <2>7
<1>8. CASE ~(h = Irrefutable \/ (h.kind = "constructed" /\ h.con = con))
  <2>1. h.kind = "constructed" /\ h.con # con BY <1>3, <1>8, PatternKinds
  <2>2. \A v \in ValuesOf[t] : v.con = con => ~Tests[h][v] BY <2>1, <1>4, TestsDef DEF TestOf
  <2> QED BY <1>3, <1>8, <2>2
<1> QED BY <1>6, <1>7, <1>8

\* A candidate with the arguments of its first pattern in its place takes what
\* it took before.
LEMMA SpecializedCandidate ==
  ASSUME NEW types \in Seq(Types), types # << >>, NEW candidate, TypedRow(candidate, types),
         NEW of \in Seq(Types), NEW a, TypedRow(a, of)
  PROVE  /\ TypedRow(a \o Tail(candidate), of \o Tail(types))
         /\ \A v \in ValuesOf[Head(types)] :
              IsVector(v.arguments, of) /\ (Tests[Head(candidate)][v] <=> TakesAll(a, v.arguments))
              => \A ws : IsVector(ws, Tail(types)) =>
                   (TakesAll(candidate, <<v>> \o ws) <=> TakesAll(a \o Tail(candidate), v.arguments \o ws))
<1>1. /\ candidate = <<Head(candidate)>> \o Tail(candidate) /\ Head(candidate) \in Patterns
      /\ TypedRow(Tail(candidate), Tail(types)) /\ Tail(candidate) \in Seq(Patterns)
      /\ a \in Seq(Patterns) /\ Len(a) = Len(of)
  BY RowParts DEF TypedRow
<1>0. Head(types) \in Types /\ Tail(types) \in Seq(Types) BY TypesParts
<1>2. TypedRow(a \o Tail(candidate), of \o Tail(types)) BY <1>1, <1>0, ConcatRow
<1>3. ASSUME NEW v \in ValuesOf[Head(types)], IsVector(v.arguments, of),
             Tests[Head(candidate)][v] <=> TakesAll(a, v.arguments),
             NEW ws, IsVector(ws, Tail(types))
      PROVE  TakesAll(candidate, <<v>> \o ws) <=> TakesAll(a \o Tail(candidate), v.arguments \o ws)
  <2>1. v \in Values BY <1>0 DEF Values
  <2>2. ws \in Seq(Values) /\ Len(Tail(candidate)) = Len(ws) BY <1>0, <1>1, <1>3, VectorIs DEF TypedRow
  <2>3. v.arguments \in Seq(Values) /\ Len(v.arguments) = Len(of) BY <1>3, VectorIs
  <2>4. TakesAll(<<Head(candidate)>> \o Tail(candidate), <<v>> \o ws)
          <=> Tests[Head(candidate)][v] /\ TakesAll(Tail(candidate), ws)
    BY <2>1, <2>2, <1>1, HeadTakes
  <2>5. TakesAll(a \o Tail(candidate), v.arguments \o ws)
          <=> TakesAll(a, v.arguments) /\ TakesAll(Tail(candidate), ws)
    <3>1. Len(a) = Len(v.arguments) /\ a \in Seq(Patterns) /\ Tail(candidate) \in Seq(Patterns)
      BY <2>3, <1>1
    <3> QED BY <3>1, <2>2, <2>3, ConcatTakes
  <2> QED BY <2>4, <2>5, <1>1, <1>3
<1> QED BY <1>2, <1>3

\* A matrix specialized to a constructor takes the arguments of exactly those
\* values of the constructor that it took (specialize_matrix).
LEMMA SpecializedMatrix ==
  ASSUME NEW types \in Seq(Types), types # << >>, Shape[Head(types)].kind \notin {"integer", "array"},
         NEW con, IsConstructor(con, Head(types)), NEW matrix, TypedRows(matrix, types)
  PROVE  LET of  == ArgumentTypes(con, Head(types))
             new == SpecializeMatrix(matrix, con, Len(of))
         IN  /\ TypedRows(new, of \o Tail(types))
             /\ \A v \in ValuesOf[Head(types)] : v.con = con =>
                  \A ws : IsVector(ws, Tail(types)) =>
                    (Taken(matrix, <<v>> \o ws) <=> Taken(new, v.arguments \o ws))
<1> DEFINE t    == Head(types)
           of   == ArgumentTypes(con, t)
           args == [p \in Patterns |-> Arguments(p, Len(of))]
           keeps(h) == h = Irrefutable \/ (h.kind = "constructed" /\ h.con = con)
           kept == {row \in Expanded(matrix) : keeps(Head(row))}
<1>0. t \in Types /\ of \in Seq(Types) BY TypesParts, ConstructorTypes
<1>1. ASSUME NEW row \in Expanded(matrix)
      PROVE  /\ Head(row) \in Patterns /\ Head(row).kind # "alternation" /\ WellFormed[Head(row)][t]
             /\ args[Head(row)] = Arguments(Head(row), Len(of))
  <2>1. TypedRow(row, types) BY ExpandedRows DEF TypedRows
  <2>2. Head(row) \in Patterns /\ WellFormed[Head(row)][t] BY <2>1, RowParts
  <2>3. Head(row).kind # "alternation" BY ExpandedRows
  <2> QED BY <2>2, <2>3
<1>2. ASSUME NEW row \in kept
      PROVE  /\ TypedRow(args[Head(row)], of)
             /\ \A v \in ValuesOf[t] : v.con = con =>
                  (Tests[Head(row)][v] <=> TakesAll(args[Head(row)], v.arguments))
  <2>1. keeps(Head(row)) /\ row \in Expanded(matrix) OBVIOUS
  <2> HIDE DEF args, of, t
  <2> QED BY <2>1, <1>0, <1>1, ConstructorHead DEF of, t
<1>3. ASSUME NEW row \in Expanded(matrix) \ kept
      PROVE  \A v \in ValuesOf[t] : v.con = con => ~Tests[Head(row)][v]
  <2>1. ~keeps(Head(row)) OBVIOUS
  <2> HIDE DEF args, of, t
  <2> QED BY <2>1, <1>0, <1>1, ConstructorHead DEF t
<1>4. \A v \in ValuesOf[t] : v.con = con => IsVector(v.arguments, of) BY <1>0, ValueParts
<1> DEFINE new == Rewritten(args, kept)
<1>5. new = SpecializeMatrix(matrix, con, Len(of))
  <2>1. SpecializeMatrix(matrix, con, Len(of)) = {Arguments(Head(row), Len(of)) \o Tail(row) : row \in kept}
    BY DEF SpecializeMatrix
  <2> HIDE DEF args, of
  <2> QED BY <2>1, <1>1 DEF Rewritten
<1>6. kept \subseteq Expanded(matrix) OBVIOUS
<1> HIDE DEF args, of, kept, keeps, t
<1>7. TypedRows(new, of \o Tail(types)) /\ RewrittenTake(types, matrix, of, kept, args)
  <2>1. \A row \in kept : TypedRow(args[Head(row)], of) BY <1>2
  <2>2. of \in Seq(Types) BY <1>0
  <2> QED BY <2>1, <2>2, <1>6, SpecializedRows
<1> HIDE DEF new
<1>8. \A v \in ValuesOf[Head(types)] : v.con = con =>
        \A ws : IsVector(ws, Tail(types)) => (Taken(matrix, <<v>> \o ws) <=> Taken(new, v.arguments \o ws))
  <2> TAKE v \in ValuesOf[Head(types)]
  <2> HAVE v.con = con
  <2>1. v \in ValuesOf[t] BY DEF t
  <2>2. IsVector(v.arguments, of) BY <2>1, <1>4
  <2>3. \A row \in kept : Tests[Head(row)][v] <=> TakesAll(args[Head(row)], v.arguments) BY <2>1, <1>2
  <2>4. \A row \in Expanded(matrix) \ kept : ~Tests[Head(row)][v] BY <2>1, <1>3
  <2> QED BY <2>2, <2>3, <2>4, <1>7 DEF RewrittenTake, new
<1> QED BY <1>5, <1>7, <1>8 DEF of, t

-----------------------------------------------------------------------------
(* Arrays at one length. *)

ElementTypes(t, n) == [i \in 1 .. n |-> Shape[t].element]

\* An array of a length has that many elements of the type.
LEMMA ArrayTypes ==
  ASSUME NEW t \in Types, Shape[t].kind = "array", NEW n \in Nat
  PROVE  /\ Shape[t].element \in Types /\ Shape[t].length \in Nat \cup {Growable}
         /\ ElementTypes(t, n) \in Seq(Types) /\ Len(ElementTypes(t, n)) = n
         /\ \A i \in 1 .. n : ElementTypes(t, n)[i] = Shape[t].element
<1>1. IsShape(Shape[t]) BY TypesAreClosed
<1>2. Shape[t].element \in Types /\ Shape[t].length \in Nat \cup {Growable} BY <1>1 DEF IsShape
<1> QED BY <1>2 DEF ElementTypes

\* What a value of an array type is.
LEMMA ArrayValue ==
  ASSUME NEW t \in Types, Shape[t].kind = "array", NEW v \in ValuesOf[t]
  PROVE  /\ v.con = <<"array">> /\ v.arguments \in Seq(Values) /\ Len(v.arguments) \in Nat
         /\ Shape[t].length \in {Growable, Len(v.arguments)}
         /\ \A i \in 1 .. Len(v.arguments) : v.arguments[i] \in ValuesOf[Shape[t].element]
         /\ IsVector(v.arguments, ElementTypes(t, Len(v.arguments)))
<1>1. IsValue(v, t) BY ValuesAreTyped
<1>2. /\ v.con = <<"array">> /\ v.arguments \in Seq(Values)
      /\ Shape[t].length \in {Growable, Len(v.arguments)}
      /\ \A i \in DOMAIN v.arguments : v.arguments[i] \in ValuesOf[Shape[t].element]
  BY <1>1 DEF IsValue, IsLiteral
<1>3. Len(v.arguments) \in Nat /\ DOMAIN v.arguments = 1 .. Len(v.arguments) BY <1>2
<1> DEFINE n == Len(v.arguments)
<1>4. /\ ElementTypes(t, n) \in Seq(Types) /\ Len(ElementTypes(t, n)) = n
      /\ \A i \in 1 .. n : ElementTypes(t, n)[i] = Shape[t].element
  BY <1>3, ArrayTypes
<1>5. IsVector(v.arguments, ElementTypes(t, n)) BY <1>2, <1>3, <1>4, VectorIs
<1> QED BY <1>2, <1>3, <1>5

\* An array pattern at a length takes the elements of the arrays it takes, and
\* none at another length.
LEMMA ArrayHead ==
  ASSUME NEW t \in Types, Shape[t].kind = "array", NEW n \in Nat,
         NEW h \in Patterns, h.kind # "alternation", WellFormed[h][t]
  PROVE  /\ h.kind \in {"irrefutable", "array"}
         /\ FitsLength(h, n) =>
              /\ TypedRow(AtLength(h, n), ElementTypes(t, n))
              /\ \A v \in ValuesOf[t] : Len(v.arguments) = n =>
                   (Tests[h][v] <=> TakesAll(AtLength(h, n), v.arguments))
         /\ ~FitsLength(h, n) => \A v \in ValuesOf[t] : Len(v.arguments) = n => ~Tests[h][v]
<1> DEFINE of   == ElementTypes(t, n)
           args == AtLength(h, n)
           e    == Shape[t].element
<1>1. /\ of \in Seq(Types) /\ Len(of) = n /\ \A i \in 1 .. n : of[i] = e
      /\ e \in Types
  BY ArrayTypes
<1>2. Suits(h, t) /\ \A part \in Parts(h, t) : WellFormed[part[1]][part[2]] BY WellFormedDef
<1>4. \A v \in ValuesOf[t] : v \in Values BY DEF Values
<1>3. h.kind \in {"irrefutable", "array"}
  <2>1. ConstructorsOf(t) = << >> BY DEF ConstructorsOf
  <2>2. \A x : x \notin Range(ConstructorsOf(t))
    <3>1. Range(<< >>) = {} BY DEF Range
    <3> QED BY <2>1, <3>1
  <2> QED BY <1>2, <2>2, PatternKinds DEF Suits, IsLiteral
<1>5. Len(args) = n /\ DOMAIN args = 1 .. n BY DEF AtLength
<1>6. CASE h.kind = "irrefutable"
  <2>0. h = Irrefutable BY <1>6, PatternKinds
  <2>1. FitsLength(h, n) BY <2>0 DEF FitsLength
  <2>2. \A i \in 1 .. n : args[i] = Irrefutable BY <2>0 DEF AtLength
  <2>3. args \in Seq(Patterns)
    <3>1. args = [i \in 1 .. n |-> args[i]] BY DEF AtLength
    <3> HIDE DEF args
    <3> QED BY <3>1, <2>2, WildcardTakes
  <2>4. TypedRow(args, of)
    <3> HIDE DEF args, of, e
    <3> QED BY <1>1, <2>2, <2>3, <1>5, WildcardTakes DEF TypedRow
  <2>5. ASSUME NEW v \in ValuesOf[t], Len(v.arguments) = n PROVE Tests[h][v] /\ TakesAll(args, v.arguments)
    <3>1. Tests[h][v] BY <1>4, <2>0, WildcardTakes
    <3>2. v.arguments \in Seq(Values) BY ArrayValue
    <3>3. \A i \in 1 .. n : v.arguments[i] \in Values BY <3>2, <2>5
    <3> HIDE DEF args
    <3> QED BY <3>1, <3>3, <2>2, <1>5, WildcardTakes DEF TakesAll
  <2> QED BY <1>3, <2>1, <2>4, <2>5
<1>7. CASE h.kind = "array"
  <2>0. /\ h # Irrefutable /\ h.prefix \in Seq(Patterns) /\ h.suffix \in Seq(Patterns)
        /\ h.rest \in BOOLEAN
    BY <1>7, WildcardTakes, PatternKinds
  <2>7. PICK k \in Nat : k = Len(h.prefix) BY <2>0
  <2>8. PICK l \in Nat : l = Len(h.suffix) BY <2>0
  <2>1. k \in Nat /\ l \in Nat /\ DOMAIN h.prefix = 1 .. k /\ DOMAIN h.suffix = 1 .. l
    BY <2>0, <2>7, <2>8
  <2>2. FitsLength(h, n) <=> IF h.rest THEN k + l <= n ELSE k + l = n
    BY <2>0, <1>7, <2>7, <2>8 DEF FitsLength, Written
  <2>3. /\ \A i \in 1 .. k : h.prefix[i] \in Patterns /\ WellFormed[h.prefix[i]][e]
        /\ \A i \in 1 .. l : h.suffix[i] \in Patterns /\ WellFormed[h.suffix[i]][e]
    <3>1. /\ \A i \in DOMAIN h.prefix : <<h.prefix[i], e>> \in Parts(h, t)
          /\ \A i \in DOMAIN h.suffix : <<h.suffix[i], e>> \in Parts(h, t)
      BY <1>7 DEF Parts, Range
    <3> HIDE DEF e
    <3>2. /\ \A i \in DOMAIN h.prefix : WellFormed[h.prefix[i]][e]
          /\ \A i \in DOMAIN h.suffix : WellFormed[h.suffix[i]][e]
      BY <3>1, <1>2
    <3> QED BY <3>2, <2>0, <2>1
  <2>4. ASSUME NEW v \in ValuesOf[t], Len(v.arguments) = n
        PROVE  Tests[h][v] <=> /\ FitsLength(h, n)
                               /\ \A i \in 1 .. k : Tests[h.prefix[i]][v.arguments[i]]
                               /\ \A i \in 1 .. l : Tests[h.suffix[i]][v.arguments[n - l + i]]
    <3>1. Tests[h][v] <=> TestOf(Tests, h, v) BY <1>4, TestsDef
    <3>2. v.con = <<"array">> BY ArrayValue
    <3>3. TestOf(Tests, h, v) <=>
            /\ IF h.rest THEN n >= Written(h) ELSE n = Written(h)
            /\ \A i \in DOMAIN h.prefix : Tests[h.prefix[i]][v.arguments[i]]
            /\ \A i \in DOMAIN h.suffix : Tests[h.suffix[i]][v.arguments[n + 1 - (l - i + 1)]]
      BY <1>7, <2>4, <2>8, <3>2 DEF TestOf
    <3>4. \A i \in 1 .. l : n + 1 - (l - i + 1) = n - l + i BY <2>1
    <3>5. (IF h.rest THEN n >= Written(h) ELSE n = Written(h)) <=> FitsLength(h, n)
      BY <2>1, <2>2, <2>7, <2>8 DEF Written
    <3>6. (\A i \in 1 .. l : Tests[h.suffix[i]][v.arguments[n + 1 - (l - i + 1)]])
            <=> \A i \in 1 .. l : Tests[h.suffix[i]][v.arguments[n - l + i]]
      BY <3>4
    <3> QED BY <3>1, <3>3, <3>5, <3>6, <2>1
  <2>5. ASSUME FitsLength(h, n)
        PROVE  /\ TypedRow(args, of)
               /\ \A v \in ValuesOf[t] : Len(v.arguments) = n => (Tests[h][v] <=> TakesAll(args, v.arguments))
    <3>1. k + l <= n BY <2>1, <2>2, <2>5
    <3>2. \A i \in 1 .. k : i \in 1 .. n /\ args[i] = h.prefix[i] BY <2>0, <2>1, <2>7, <3>1 DEF AtLength
    <3>3. \A i \in 1 .. l : n - l + i \in 1 .. n /\ args[n - l + i] = h.suffix[i]
      <4> TAKE i \in 1 .. l
      <4>1. n - l + i \in 1 .. n /\ ~(n - l + i <= k) /\ n - l + i > n - l /\ (n - l + i) - (n - l) = i
        BY <2>1, <3>1
      <4> QED BY <4>1, <2>0, <2>7, <2>8 DEF AtLength
    <3>4. \A i \in 1 .. n : i > k /\ i <= n - l => args[i] = Irrefutable
      <4> TAKE i \in 1 .. n
      <4> HAVE i > k /\ i <= n - l
      <4>1. ~(i <= k) /\ ~(i > n - l) BY <2>1
      <4> QED BY <4>1, <2>0, <2>7, <2>8 DEF AtLength
    <3>5. \A i \in 1 .. n : \/ i \in 1 .. k
                            \/ \E j \in 1 .. l : i = n - l + j
                            \/ i > k /\ i <= n - l
      <4> TAKE i \in 1 .. n
      <4>1. CASE i > n - l
        <5>1. i - (n - l) \in 1 .. l /\ i = n - l + (i - (n - l)) BY <4>1, <2>1
        <5> QED BY <5>1
      <4>2. CASE ~(i > n - l) BY <4>2, <2>1
      <4> QED BY <4>1, <4>2
    <3> HIDE DEF args, of, e
    <3>6. \A i \in 1 .. n : args[i] \in Patterns /\ WellFormed[args[i]][e]
      <4> TAKE i \in 1 .. n
      <4>1. CASE i \in 1 .. k BY <4>1, <3>2, <2>3
      <4>2. ASSUME NEW j \in 1 .. l, i = n - l + j PROVE args[i] \in Patterns /\ WellFormed[args[i]][e]
        BY <4>2, <3>3, <2>3
      <4>3. CASE i > k /\ i <= n - l BY <4>3, <3>4, <1>1, WildcardTakes
      <4> QED BY <4>1, <4>2, <4>3, <3>5
    <3>7. TypedRow(args, of)
      <4>1. args \in Seq(Patterns)
        <5>1. args = [i \in 1 .. n |-> args[i]] BY DEF AtLength, args
        <5> QED BY <5>1, <3>6
      <4> QED BY <4>1, <3>6, <1>1, <1>5 DEF TypedRow
    <3>8. ASSUME NEW v \in ValuesOf[t], Len(v.arguments) = n PROVE Tests[h][v] <=> TakesAll(args, v.arguments)
      <4>1. v.arguments \in Seq(Values) BY ArrayValue
      <4>2. \A i \in 1 .. n : v.arguments[i] \in Values BY <4>1, <3>8
      <4>3. ASSUME Tests[h][v] PROVE TakesAll(args, v.arguments)
        <5> SUFFICES ASSUME NEW i \in 1 .. n PROVE Tests[args[i]][v.arguments[i]] BY <1>5 DEF TakesAll
        <5>1. CASE i \in 1 .. k BY <5>1, <4>3, <3>2, <3>8, <2>4
        <5>2. ASSUME NEW j \in 1 .. l, i = n - l + j PROVE Tests[args[i]][v.arguments[i]]
          BY <5>2, <4>3, <3>3, <3>8, <2>4
        <5>3. CASE i > k /\ i <= n - l BY <5>3, <3>4, <4>2, WildcardTakes
        <5> QED BY <5>1, <5>2, <5>3, <3>5
      <4>4. ASSUME TakesAll(args, v.arguments) PROVE Tests[h][v]
        <5>1. \A i \in 1 .. n : Tests[args[i]][v.arguments[i]] BY <4>4, <1>5 DEF TakesAll
        <5>2. \A i \in 1 .. k : Tests[h.prefix[i]][v.arguments[i]] BY <5>1, <3>2
        <5>3. \A i \in 1 .. l : Tests[h.suffix[i]][v.arguments[n - l + i]] BY <5>1, <3>3
        <5> QED BY <5>2, <5>3, <2>4, <2>5, <3>8
      <4> QED BY <4>3, <4>4
    <3> QED BY <3>7, <3>8
  <2>6. ASSUME ~FitsLength(h, n)
        PROVE  \A v \in ValuesOf[t] : Len(v.arguments) = n => ~Tests[h][v]
    BY <2>4, <2>6
  <2> QED BY <1>3, <2>5, <2>6
<1> QED BY <1>3, <1>6, <1>7

\* A matrix specialized to a length takes the elements of exactly those arrays
\* of that length that it took (specialize_array_matrix).
LEMMA SpecializedArrays ==
  ASSUME NEW types \in Seq(Types), types # << >>, Shape[Head(types)].kind = "array", NEW n \in Nat,
         NEW matrix, TypedRows(matrix, types)
  PROVE  LET of  == ElementTypes(Head(types), n)
             new == SpecializeArrayMatrix(matrix, n)
         IN  /\ TypedRows(new, of \o Tail(types))
             /\ \A v \in ValuesOf[Head(types)] : Len(v.arguments) = n =>
                  \A ws : IsVector(ws, Tail(types)) =>
                    (Taken(matrix, <<v>> \o ws) <=> Taken(new, v.arguments \o ws))
<1> DEFINE t    == Head(types)
           of   == ElementTypes(t, n)
           args == [p \in Patterns |-> AtLength(p, n)]
           kept == {row \in Expanded(matrix) : FitsLength(Head(row), n)}
<1>0. t \in Types /\ of \in Seq(Types) BY TypesParts, ArrayTypes
<1>1. ASSUME NEW row \in Expanded(matrix)
      PROVE  /\ Head(row) \in Patterns /\ Head(row).kind # "alternation" /\ WellFormed[Head(row)][t]
             /\ args[Head(row)] = AtLength(Head(row), n)
  <2>1. TypedRow(row, types) BY ExpandedRows DEF TypedRows
  <2>2. Head(row) \in Patterns /\ WellFormed[Head(row)][t] BY <2>1, RowParts
  <2>3. Head(row).kind # "alternation" BY ExpandedRows
  <2> QED BY <2>2, <2>3
<1>2. ASSUME NEW row \in kept
      PROVE  /\ TypedRow(args[Head(row)], of)
             /\ \A v \in ValuesOf[t] : Len(v.arguments) = n =>
                  (Tests[Head(row)][v] <=> TakesAll(args[Head(row)], v.arguments))
  <2>1. FitsLength(Head(row), n) /\ row \in Expanded(matrix) OBVIOUS
  <2> HIDE DEF args, of, t
  <2> QED BY <2>1, <1>0, <1>1, ArrayHead DEF of, t
<1>3. ASSUME NEW row \in Expanded(matrix) \ kept
      PROVE  \A v \in ValuesOf[t] : Len(v.arguments) = n => ~Tests[Head(row)][v]
  <2>1. ~FitsLength(Head(row), n) OBVIOUS
  <2> HIDE DEF args, of, t
  <2> QED BY <2>1, <1>0, <1>1, ArrayHead DEF t
<1>4. \A v \in ValuesOf[t] : Len(v.arguments) = n => IsVector(v.arguments, of) BY <1>0, ArrayValue
<1> DEFINE new == Rewritten(args, kept)
<1>5. new = SpecializeArrayMatrix(matrix, n)
  <2>1. SpecializeArrayMatrix(matrix, n) = {AtLength(Head(row), n) \o Tail(row) : row \in kept}
    BY DEF SpecializeArrayMatrix
  <2> HIDE DEF args, of
  <2> QED BY <2>1, <1>1 DEF Rewritten
<1>6. kept \subseteq Expanded(matrix) OBVIOUS
<1> HIDE DEF args, of, kept, t
<1>7. TypedRows(new, of \o Tail(types)) /\ RewrittenTake(types, matrix, of, kept, args)
  <2>1. \A row \in kept : TypedRow(args[Head(row)], of) BY <1>2
  <2>2. of \in Seq(Types) BY <1>0
  <2> QED BY <2>1, <2>2, <1>6, SpecializedRows
<1> HIDE DEF new
<1>8. \A v \in ValuesOf[Head(types)] : Len(v.arguments) = n =>
        \A ws : IsVector(ws, Tail(types)) => (Taken(matrix, <<v>> \o ws) <=> Taken(new, v.arguments \o ws))
  <2> TAKE v \in ValuesOf[Head(types)]
  <2> HAVE Len(v.arguments) = n
  <2>1. v \in ValuesOf[t] BY DEF t
  <2>2. IsVector(v.arguments, of) BY <2>1, <1>4
  <2>3. \A row \in kept : Tests[Head(row)][v] <=> TakesAll(args[Head(row)], v.arguments) BY <2>1, <1>2
  <2>4. \A row \in Expanded(matrix) \ kept : ~Tests[Head(row)][v] BY <2>1, <1>3
  <2> QED BY <2>2, <2>3, <2>4, <1>7 DEF RewrittenTake, new
<1> QED BY <1>5, <1>7, <1>8 DEF of, t

-----------------------------------------------------------------------------
(* Integers in cells. *)

\* Between two bounds every number is in a cell.
LEMMA CellOf ==
  ASSUME NEW bounds, bounds \subseteq Int, NEW x \in Int, NEW low \in bounds, NEW high \in bounds,
         low <= x, x < high
  PROVE  \E cell \in Cells(bounds) : cell.start <= x /\ x <= cell.end
<1> DEFINE B == {x - b : b \in {b \in bounds : b <= x}}
           A == {b \in bounds : x < b}
<1>1. PICK d \in B : \A c \in B : d <= c
  <2>1. B \subseteq Nat
    <3>1. \A b \in bounds : b <= x => x - b \in Nat OBVIOUS
    <3> QED BY <3>1
  <2>2. B # {} OBVIOUS
  <2> HIDE DEF B
  <2> QED BY <2>1, <2>2, LeastNumber
<1>2. PICK l \in bounds : l <= x /\ d = x - l OBVIOUS
<1>3. \A b \in bounds : b <= x => b <= l
  <2> TAKE b \in bounds
  <2> HAVE b <= x
  <2>1. x - b \in B OBVIOUS
  <2>2. x - l <= x - b BY <2>1, <1>1, <1>2
  <2>3. b \in Int /\ l \in Int OBVIOUS
  <2> QED BY ONLY <2>2, <2>3, x \in Int
<1>4. PICK h \in A : \A c \in A : h <= c
  <2>1. \A c \in A : c \in Int /\ x <= c OBVIOUS
  <2>2. A # {} OBVIOUS
  <2> HIDE DEF A
  <2> QED BY <2>1, <2>2, LeastInteger
<1> DEFINE cell == [start |-> l, end |-> h - 1]
<1>5. l < h /\ \A b \in bounds : b <= l \/ h <= b
  <2>1. \A b \in bounds : b \in Int OBVIOUS
  <2> QED BY <1>2, <1>3, <1>4, <2>1
<1>6. cell \in Cells(bounds)
  <2> DEFINE pair == <<l, h>>
  <2>1. pair \in {q \in bounds \X bounds : q[1] < q[2] /\ \A b \in bounds : b <= q[1] \/ q[2] <= b}
    BY <1>5
  <2>2. cell = [start |-> pair[1], end |-> pair[2] - 1] OBVIOUS
  <2> HIDE DEF pair, cell
  <2> QED BY <2>1, <2>2 DEF Cells
<1>7. cell.start <= x /\ x <= cell.end BY <1>2, <1>4
<1> QED BY <1>6, <1>7

\* What is between two neighbours of the bounds.
LEMMA CellIs ==
  ASSUME NEW bounds, bounds \subseteq Int, NEW cell \in Cells(bounds)
  PROVE  /\ cell.start \in bounds /\ cell.end + 1 \in bounds
         /\ cell.start \in Int /\ cell.end \in Int /\ cell.start <= cell.end
         /\ \A b \in bounds : b <= cell.start \/ cell.end < b
<1>1. PICK pair \in bounds \X bounds : /\ cell = [start |-> pair[1], end |-> pair[2] - 1]
                                       /\ pair[1] < pair[2]
                                       /\ \A b \in bounds : b <= pair[1] \/ pair[2] <= b
  BY DEF Cells
<1>2. /\ pair[1] \in Int /\ pair[2] \in Int /\ pair[1] \in bounds /\ pair[2] \in bounds
      /\ cell.start = pair[1] /\ cell.end = pair[2] - 1
  BY <1>1
<1>3. cell.end + 1 = pair[2] /\ cell.start \in Int /\ cell.end \in Int /\ cell.start <= cell.end
  BY <1>1, <1>2
<1>4. \A b \in bounds : b <= cell.start \/ cell.end < b
  <2> TAKE b \in bounds
  <2>1. b \in Int /\ (b <= pair[1] \/ pair[2] <= b) BY <1>1
  <2> QED BY <2>1, <1>2
<1> QED BY <1>2, <1>3, <1>4

InInterval(x, interval) == interval.start <= x /\ x <= interval.end

\* The values of an integer type are in its domain.
LEMMA IntegerTypes ==
  ASSUME NEW t \in Types, Shape[t].kind = "integer"
  PROVE  /\ Domain(t).start \in Int /\ Domain(t).end \in Int /\ Domain(t).start <= Domain(t).end
         /\ \A v \in ValuesOf[t] : /\ v \in Values /\ v.con = <<"int", v.con[2]>> /\ v.con[1] = "int"
                                   /\ v.con[2] \in Int /\ InInterval(v.con[2], Domain(t))
<1>1. IsShape(Shape[t]) BY TypesAreClosed
<1>2. Shape[t].low \in Int /\ Shape[t].high \in Int /\ Shape[t].low <= Shape[t].high
  BY <1>1 DEF IsShape
<1>3. Domain(t).start = Shape[t].low /\ Domain(t).end = Shape[t].high BY DEF Domain
<1>4. ASSUME NEW v \in ValuesOf[t]
      PROVE  /\ v \in Values /\ v.con = <<"int", v.con[2]>> /\ v.con[1] = "int"
             /\ v.con[2] \in Int /\ InInterval(v.con[2], Domain(t))
  <2>1. IsValue(v, t) BY ValuesAreTyped
  <2>2. v.con = <<"int", v.con[2]>> /\ v.con[2] \in Shape[t].low .. Shape[t].high
    BY <2>1 DEF IsValue, IsLiteral
  <2>3. v.con[1] = "int" BY <2>2
  <2>4. v \in Values BY DEF Values
  <2> QED BY <1>2, <1>3, <2>2, <2>3, <2>4 DEF InInterval
<1> QED BY <1>2, <1>3, <1>4

\* A pattern of an integer type takes the values of its interval.
LEMMA IntegerHead ==
  ASSUME NEW t \in Types, Shape[t].kind = "integer",
         NEW h \in Patterns, h.kind # "alternation", WellFormed[h][t]
  PROVE  LET interval == IntegerInterval(h, Domain(t))
         IN  /\ interval.start \in Int /\ interval.end \in Int /\ ~IsEmpty(interval)
             /\ Domain(t).start <= interval.start /\ interval.end <= Domain(t).end
             /\ \A v \in ValuesOf[t] : Tests[h][v] <=> InInterval(v.con[2], interval)
<1>1. /\ Domain(t).start \in Int /\ Domain(t).end \in Int /\ Domain(t).start <= Domain(t).end
      /\ \A v \in ValuesOf[t] : /\ v \in Values /\ v.con = <<"int", v.con[2]>> /\ v.con[1] = "int"
                                /\ v.con[2] \in Int /\ InInterval(v.con[2], Domain(t))
      /\ Domain(t).start = Shape[t].low /\ Domain(t).end = Shape[t].high
  BY IntegerTypes DEF Domain
<1>2. Suits(h, t) BY WellFormedDef
<1>3. h.kind \in {"irrefutable", "constructed", "range"} BY <1>2, PatternKinds DEF Suits, IsLiteral
<1>4. CASE h.kind = "irrefutable"
  <2>1. h = Irrefutable BY <1>4, PatternKinds
  <2>2. IntegerInterval(h, Domain(t)) = Domain(t) BY <2>1, WildcardTakes DEF IntegerInterval
  <2>3. \A v \in ValuesOf[t] : Tests[h][v] BY <1>1, <2>1, WildcardTakes
  <2> QED BY <1>1, <2>2, <2>3 DEF IsEmpty
<1>5. CASE h.kind = "constructed"
  <2>0. h # Irrefutable BY <1>5, WildcardTakes
  <2>1. h.con = <<"int", h.con[2]>> /\ h.con[2] \in Shape[t].low .. Shape[t].high
        /\ DOMAIN h.arguments \subseteq DOMAIN ArgumentTypes(h.con, t)
    BY <1>2, <1>5 DEF Suits, IsLiteral
  <2> DEFINE x == h.con[2]
  <2>2. x \in Int /\ Domain(t).start <= x /\ x <= Domain(t).end BY <1>1, <2>1
  <2>3. IntegerInterval(h, Domain(t)) = Intersect([start |-> x, end |-> x], Domain(t))
    BY <1>5, <2>0 DEF IntegerInterval
  <2>4. IntegerInterval(h, Domain(t)) = [start |-> x, end |-> x]
    BY <1>1, <2>2, <2>3 DEF Intersect
  <2>5. DOMAIN h.arguments = {}
    <3>1. h.con[1] = "int" BY <2>1
    <3>2. ArgumentTypes(h.con, t) = << >> BY <3>1 DEF ArgumentTypes
    <3> QED BY <3>2, <2>1
  <2>6. ASSUME NEW v \in ValuesOf[t] PROVE Tests[h][v] <=> x = v.con[2]
    <3>1. Tests[h][v] <=> TestOf(Tests, h, v) BY <1>1, TestsDef
    <3>2. TestOf(Tests, h, v) <=> h.con = v.con BY <1>5, <2>5 DEF TestOf
    <3>3. h.con = v.con <=> x = v.con[2] BY <1>1, <2>1
    <3> QED BY <3>1, <3>2, <3>3
  <2> HIDE DEF x
  <2>7. /\ IntegerInterval(h, Domain(t)).start = x /\ IntegerInterval(h, Domain(t)).end = x BY <2>4
  <2>8. \A v \in ValuesOf[t] : x = v.con[2] <=> x <= v.con[2] /\ v.con[2] <= x BY <1>1, <2>2
  <2> QED BY <2>2, <2>6, <2>7, <2>8 DEF IsEmpty, InInterval
<1>6. CASE h.kind = "range"
  <2>0. h # Irrefutable BY <1>6, WildcardTakes
  <2>1. /\ h.start \in Int /\ h.end \in Int /\ h.inclusive \in BOOLEAN
    BY <1>6, PatternKinds
  <2>2. /\ {h.start, h.end} \subseteq Shape[t].low .. Shape[t].high /\ ~IsEmpty(IntegerInterval(h, h))
    BY <1>2, <1>6 DEF Suits, IsLiteral
  <2>9. PICK e \in Int : e = IF h.inclusive THEN h.end ELSE h.end - 1 BY <2>1
  <2>3. \A d : IntegerInterval(h, d) = Intersect([start |-> h.start, end |-> e], d)
    BY <1>6, <2>0, <2>9 DEF IntegerInterval
  <2>4. e <= h.end BY <2>1, <2>9
  <2>5. /\ Domain(t).start <= h.start /\ h.end <= Domain(t).end BY <1>1, <2>2
  <2>6. h.start <= e BY <2>1, <2>2, <2>3, <2>4 DEF IsEmpty, Intersect
  <2>7. IntegerInterval(h, Domain(t)).start = h.start /\ IntegerInterval(h, Domain(t)).end = e
    <3> DEFINE d == Domain(t)
    <3>1. PICK low \in Int : low = d.start BY <1>1
    <3>2. PICK high \in Int : high = d.end BY <1>1
    <3>3. low <= h.start /\ e <= high BY <2>1, <2>4, <2>5, <3>1, <3>2
    <3> HIDE DEF d
    <3>4. Intersect([start |-> h.start, end |-> e], d)
            = [start |-> IF h.start > low THEN h.start ELSE low, end |-> IF e < high THEN e ELSE high]
      BY <3>1, <3>2 DEF Intersect
    <3>5. (IF h.start > low THEN h.start ELSE low) = h.start /\ (IF e < high THEN e ELSE high) = e
      BY <2>1, <3>3
    <3>6. IntegerInterval(h, d) = [start |-> h.start, end |-> e] BY <2>3, <3>4, <3>5
    <3> QED BY <3>6 DEF d
  <2>8. ASSUME NEW v \in ValuesOf[t] PROVE Tests[h][v] <=> h.start <= v.con[2] /\ v.con[2] <= e
    <3>1. Tests[h][v] <=> TestOf(Tests, h, v) BY <1>1, TestsDef
    <3>2. TestOf(Tests, h, v) <=>
            h.start <= v.con[2] /\ IF h.inclusive THEN v.con[2] <= h.end ELSE v.con[2] < h.end
      BY <1>1, <1>6 DEF TestOf
    <3>3. (IF h.inclusive THEN v.con[2] <= h.end ELSE v.con[2] < h.end) <=> v.con[2] <= e
      BY <1>1, <2>1, <2>9
    <3> QED BY <3>1, <3>2, <3>3
  <2> QED BY <1>1, <2>1, <2>4, <2>5, <2>6, <2>7, <2>8 DEF IsEmpty, InInterval
<1> QED BY <1>3, <1>4, <1>5, <1>6

-----------------------------------------------------------------------------
(* Rows without their first patterns. *)

\* A value of the first type before a vector for the others is a vector.
LEMMA VectorWith ==
  ASSUME NEW types \in Seq(Types), types # << >>, NEW v \in ValuesOf[Head(types)],
         NEW ws, IsVector(ws, Tail(types))
  PROVE  IsVector(<<v>> \o ws, types) /\ v \in Values /\ ws \in Seq(Values)
<1>0. Head(types) \in Types /\ Tail(types) \in Seq(Types) /\ types = <<Head(types)>> \o Tail(types)
  BY TypesParts
<1>1. v \in Values BY <1>0 DEF Values
<1>2. IsVector(<<v>>, <<Head(types)>>)
  <2>1. /\ <<Head(types)>> \in Seq(Types) /\ <<v>> \in Seq(Values) /\ Len(<<v>>) = 1 /\ Len(<<Head(types)>>) = 1
        /\ <<v>>[1] = v /\ <<Head(types)>>[1] = Head(types)
    BY <1>1, <1>0
  <2>2. \A i \in 1 .. Len(<<Head(types)>>) : i = 1 BY <2>1
  <2>3. \A i \in 1 .. Len(<<Head(types)>>) : <<v>>[i] \in ValuesOf[<<Head(types)>>[i]] BY <2>1, <2>2
  <2> QED BY <2>1, <2>3, VectorIs
<1>3. <<Head(types)>> \in Seq(Types) BY <1>0
<1>4. IsVector(<<v>> \o ws, <<Head(types)>> \o Tail(types)) BY <1>0, <1>2, <1>3, ConcatVector
<1> QED BY <1>0, <1>1, <1>4 DEF IsVector

\* A row takes a value before a vector if its head takes the value and the rest
\* the vector.
LEMMA RowTakes ==
  ASSUME NEW types \in Seq(Types), types # << >>, NEW row, TypedRow(row, types),
         NEW v \in ValuesOf[Head(types)], NEW ws, IsVector(ws, Tail(types))
  PROVE  TakesAll(row, <<v>> \o ws) <=> Tests[Head(row)][v] /\ TakesAll(Tail(row), ws)
<1>1. /\ row = <<Head(row)>> \o Tail(row) /\ Head(row) \in Patterns
      /\ TypedRow(Tail(row), Tail(types))
  BY RowParts
<1>2. Tail(row) \in Seq(Patterns) /\ Len(Tail(row)) = Len(Tail(types)) BY <1>1 DEF TypedRow
<1>3. v \in Values /\ ws \in Seq(Values) BY VectorWith
<1>4. Len(ws) = Len(Tail(types)) BY TypesParts, VectorIs
<1>5. TakesAll(<<Head(row)>> \o Tail(row), <<v>> \o ws) <=> Tests[Head(row)][v] /\ TakesAll(Tail(row), ws)
  BY <1>1, <1>2, <1>3, <1>4, HeadTakes
<1> QED BY <1>1, <1>5

\* The bounds are where the candidate or a row begins or ends.
LEMMA BoundsAre ==
  ASSUME NEW types \in Seq(Types), types # << >>, Shape[Head(types)].kind = "integer",
         NEW matrix, TypedRows(matrix, types),
         NEW candidate, candidate.start \in Int, candidate.end \in Int, ~IsEmpty(candidate)
  PROVE  LET domain == Domain(Head(types))
             bounds == Bounds(matrix, candidate, domain)
         IN  /\ \A b \in bounds : b \in Int /\ candidate.start <= b /\ b <= candidate.end + 1
             /\ candidate.start \in bounds /\ candidate.end + 1 \in bounds
             /\ \A row \in Expanded(matrix) :
                  LET i == Intersect(IntegerInterval(Head(row), domain), candidate)
                  IN  ~IsEmpty(i) => i.start \in bounds /\ i.end + 1 \in bounds
<1> DEFINE domain == Domain(Head(types))
           bounds == Bounds(matrix, candidate, domain)
           i(row) == Intersect(IntegerInterval(Head(row), domain), candidate)
           seen   == {k \in {i(row) : row \in Expanded(matrix)} : ~IsEmpty(k)} \cup {candidate}
<1>1. bounds = {k.start : k \in seen} \cup {k.end + 1 : k \in seen} BY DEF Bounds
<1>2. ASSUME NEW row \in Expanded(matrix)
      PROVE  IntegerInterval(Head(row), domain).start \in Int /\ IntegerInterval(Head(row), domain).end \in Int
  <2>1. TypedRow(row, types) /\ Head(row).kind # "alternation" BY ExpandedRows DEF TypedRows
  <2>2. Head(row) \in Patterns /\ WellFormed[Head(row)][Head(types)] /\ Head(types) \in Types
    BY <2>1, RowParts, TypesParts
  <2> QED BY <2>1, <2>2, IntegerHead
<1>3. ASSUME NEW k \in seen
      PROVE  /\ k.start \in Int /\ k.end \in Int /\ k.start <= k.end
             /\ candidate.start <= k.start /\ k.end <= candidate.end
  <2>1. CASE k = candidate BY <2>1 DEF IsEmpty
  <2>2. ASSUME NEW row \in Expanded(matrix), k = i(row), ~IsEmpty(k)
        PROVE  /\ k.start \in Int /\ k.end \in Int /\ k.start <= k.end
               /\ candidate.start <= k.start /\ k.end <= candidate.end
    BY <2>2, <1>2 DEF Intersect, IsEmpty
  <2> HIDE DEF i
  <2>3. k = candidate \/ \E row \in Expanded(matrix) : k = i(row) /\ ~IsEmpty(k) OBVIOUS
  <2> QED BY <2>1, <2>2, <2>3
<1>4. \A k \in seen : k.start \in bounds /\ k.end + 1 \in bounds BY <1>1
<1>5. candidate \in seen /\ \A row \in Expanded(matrix) : ~IsEmpty(i(row)) => i(row) \in seen
  <2> HIDE DEF i
  <2> QED OBVIOUS
<1> HIDE DEF bounds, seen, i
<1>6. \A b \in bounds : b \in Int /\ candidate.start <= b /\ b <= candidate.end + 1
  <2> TAKE b \in bounds
  <2>1. PICK k \in seen : b = k.start \/ b = k.end + 1 BY <1>1
  <2> QED BY <2>1, <1>3
<1>7. \A row \in Expanded(matrix) : ~IsEmpty(i(row)) => i(row).start \in bounds /\ i(row).end + 1 \in bounds
  BY <1>4, <1>5
<1> QED BY <1>4, <1>5, <1>6, <1>7 DEF bounds, i

\* A matrix specialized to a cell takes exactly what it took for the values of
\* that cell (specialize_integer_matrix): no row covers half a cell.
LEMMA SpecializedIntegers ==
  ASSUME NEW types \in Seq(Types), types # << >>, Shape[Head(types)].kind = "integer",
         NEW matrix, TypedRows(matrix, types), NEW cell, cell.start \in Int, cell.end \in Int
  PROVE  LET domain == Domain(Head(types))
             new    == SpecializeIntegerMatrix(matrix, cell, domain)
         IN  /\ TypedRows(new, Tail(types))
             /\ \A v \in ValuesOf[Head(types)] : InInterval(v.con[2], cell) =>
                  \A ws : IsVector(ws, Tail(types)) /\ Taken(new, ws) => Taken(matrix, <<v>> \o ws)
             /\ \A candidate : 
                  /\ candidate.start \in Int /\ candidate.end \in Int /\ ~IsEmpty(candidate)
                  /\ cell \in Cells(Bounds(matrix, candidate, domain))
                  => /\ candidate.start <= cell.start /\ cell.end <= candidate.end
                     /\ \A v \in ValuesOf[Head(types)] : InInterval(v.con[2], cell) =>
                          \A ws : IsVector(ws, Tail(types)) /\ Taken(matrix, <<v>> \o ws) => Taken(new, ws)
<1> DEFINE t      == Head(types)
           domain == Domain(t)
           new    == SpecializeIntegerMatrix(matrix, cell, domain)
           of(a)  == IntegerInterval(a, domain)
<1>0. t \in Types /\ Tail(types) \in Seq(Types) BY TypesParts
<1>1. /\ domain.start \in Int /\ domain.end \in Int
      /\ \A v \in ValuesOf[t] : v \in Values /\ v.con[2] \in Int
  BY <1>0, IntegerTypes
<1>2. ASSUME NEW row \in matrix
      PROVE  /\ TypedRow(row, types) /\ Head(row) \in Patterns /\ WellFormed[Head(row)][t]
             /\ TypedRow(Tail(row), Tail(types))
             /\ \A v \in ValuesOf[t] : Tests[Head(row)][v] <=> \E a \in Alternatives[Head(row)] : Tests[a][v]
             /\ \A a \in Alternatives[Head(row)] :
                  /\ of(a).start \in Int /\ of(a).end \in Int /\ ~IsEmpty(of(a))
                  /\ \A v \in ValuesOf[t] : Tests[a][v] <=> InInterval(v.con[2], of(a))
                  /\ a \in Patterns
  <2>1. TypedRow(row, types) BY DEF TypedRows
  <2>2. Head(row) \in Patterns /\ WellFormed[Head(row)][t] /\ TypedRow(Tail(row), Tail(types))
    BY <2>1, RowParts
  <2>3. /\ \A a \in Alternatives[Head(row)] : a \in Patterns /\ a.kind # "alternation" /\ WellFormed[a][t]
        /\ \A v \in Values : Tests[Head(row)][v] <=> \E a \in Alternatives[Head(row)] : Tests[a][v]
    BY <1>0, <2>2, AlternativesTake
  <2>4. ASSUME NEW a \in Alternatives[Head(row)]
        PROVE  /\ of(a).start \in Int /\ of(a).end \in Int /\ ~IsEmpty(of(a))
               /\ \A v \in ValuesOf[t] : Tests[a][v] <=> InInterval(v.con[2], of(a))
    BY <1>0, <2>3, IntegerHead
  <2> HIDE DEF of, t
  <2>5. \A v \in ValuesOf[t] : Tests[Head(row)][v] <=> \E a \in Alternatives[Head(row)] : Tests[a][v]
    BY <1>1, <2>3
  <2> QED BY <2>1, <2>2, <2>3, <2>4, <2>5
<1>3. \A r : r \in new <=> \E row \in matrix : /\ r = Tail(row)
                                              /\ \E a \in Alternatives[Head(row)] : ~IsEmpty(of(a)) /\ Covers(of(a), cell)
  BY DEF SpecializeIntegerMatrix
<1> HIDE DEF t, domain, new, of
<1>4. TypedRows(new, Tail(types)) BY <1>2, <1>3 DEF TypedRows
<1>5. ASSUME NEW v \in ValuesOf[t], InInterval(v.con[2], cell), NEW ws, IsVector(ws, Tail(types)), Taken(new, ws)
      PROVE  Taken(matrix, <<v>> \o ws)
  <2>1. PICK r \in new : TakesAll(r, ws) BY <1>5 DEF Taken
  <2>2. PICK row \in matrix : r = Tail(row) /\ \E a \in Alternatives[Head(row)] : Covers(of(a), cell)
    BY <1>3
  <2>3. PICK a \in Alternatives[Head(row)] : Covers(of(a), cell) BY <2>2
  <2>4. InInterval(v.con[2], of(a))
    <3>1. of(a).start \in Int /\ of(a).end \in Int /\ v.con[2] \in Int BY <1>1, <1>2
    <3> QED BY <3>1, <2>3, <1>5 DEF InInterval, Covers
  <2>5. Tests[a][v] BY <2>4, <1>2
  <2>6. Tests[Head(row)][v] BY <2>5, <1>2
  <2>7. v \in ValuesOf[Head(types)] /\ TypedRow(row, types) BY <1>2 DEF t
  <2>8. TakesAll(row, <<v>> \o ws) BY <2>1, <2>2, <2>6, <2>7, <1>5, RowTakes
  <2> QED BY <2>8 DEF Taken
<1>6. ASSUME NEW candidate, candidate.start \in Int, candidate.end \in Int, ~IsEmpty(candidate),
             cell \in Cells(Bounds(matrix, candidate, domain))
      PROVE  /\ candidate.start <= cell.start /\ cell.end <= candidate.end
             /\ \A v \in ValuesOf[t] : InInterval(v.con[2], cell) =>
                  \A ws : IsVector(ws, Tail(types)) /\ Taken(matrix, <<v>> \o ws) => Taken(new, ws)
  <2> DEFINE bounds == Bounds(matrix, candidate, domain)
  <2>4. /\ \A b \in bounds : b \in Int /\ candidate.start <= b /\ b <= candidate.end + 1
        /\ \A row \in Expanded(matrix) :
             LET i == Intersect(IntegerInterval(Head(row), domain), candidate)
             IN  ~IsEmpty(i) => i.start \in bounds /\ i.end + 1 \in bounds
    BY <1>6, BoundsAre DEF domain, t
  <2> HIDE DEF bounds
  <2>5. /\ cell.start \in bounds /\ cell.end + 1 \in bounds /\ cell.start <= cell.end
        /\ \A b \in bounds : b <= cell.start \/ cell.end < b
    <3>1. bounds \subseteq Int BY <2>4
    <3>2. cell \in Cells(bounds) BY <1>6 DEF bounds
    <3> QED BY <3>1, <3>2, CellIs
  <2>6. candidate.start <= cell.start /\ cell.end <= candidate.end BY <2>4, <2>5, <1>6
  <2>7. ASSUME NEW v \in ValuesOf[t], InInterval(v.con[2], cell),
               NEW ws, IsVector(ws, Tail(types)), Taken(matrix, <<v>> \o ws)
        PROVE  Taken(new, ws)
    <3>1. PICK row \in matrix : TakesAll(row, <<v>> \o ws) BY <2>7 DEF Taken
    <3>2. v \in ValuesOf[Head(types)] /\ TypedRow(row, types) BY <1>2 DEF t
    <3>3. Tests[Head(row)][v] /\ TakesAll(Tail(row), ws) BY <3>1, <3>2, <2>7, RowTakes
    <3>4. PICK a \in Alternatives[Head(row)] : Tests[a][v] BY <3>3, <1>2
    <3>5. /\ a \in Patterns /\ of(a).start \in Int /\ of(a).end \in Int /\ InInterval(v.con[2], of(a))
          /\ ~IsEmpty(of(a))
      BY <3>4, <1>2
    <3>6. PICK x \in Int : x = v.con[2] BY <1>1
    <3>7. of(a).start <= x /\ x <= of(a).end /\ cell.start <= x /\ x <= cell.end
      BY <3>5, <3>6, <2>7 DEF InInterval
    <3> DEFINE i == Intersect(of(a), candidate)
    <3>8. /\ i.start = (IF of(a).start > candidate.start THEN of(a).start ELSE candidate.start)
          /\ i.end = (IF of(a).end < candidate.end THEN of(a).end ELSE candidate.end)
      BY DEF Intersect
    <3>9. i.start \in Int /\ i.end \in Int /\ i.start <= x /\ x <= i.end
      BY <3>5, <3>7, <3>8, <2>6, <1>6
    <3>10. <<a>> \o Tail(row) \in Expanded(matrix) /\ Head(<<a>> \o Tail(row)) = a
      <4>1. <<a>> \o Tail(row) \in Expanded(matrix) BY <3>4, InExpanded
      <4>2. Tail(row) \in Seq(Patterns) BY <1>2 DEF TypedRow
      <4> QED BY <4>1, <4>2, <3>5, Prepended
    <3>11. i.start \in bounds /\ i.end + 1 \in bounds
      <4>1. ~IsEmpty(i) BY <3>9 DEF IsEmpty
      <4>2. i = Intersect(IntegerInterval(Head(<<a>> \o Tail(row)), domain), candidate) BY <3>10 DEF of
      <4> HIDE DEF i
      <4> QED BY <4>1, <4>2, <3>10, <2>4
    <3>12. i.start <= cell.start /\ cell.end <= i.end
      <4>1. i.start \in bounds /\ i.end + 1 \in bounds BY <3>11
      <4>2. (i.start <= cell.start \/ cell.end < i.start) /\ (i.end + 1 <= cell.start \/ cell.end < i.end + 1)
        BY <4>1, <2>5
      <4> HIDE DEF i
      <4> QED BY <4>2, <3>9, <3>7
    <3>13. Covers(of(a), cell) BY <3>12, <3>8, <3>5, <1>6 DEF Covers
    <3>14. Tail(row) \in new BY <3>13, <3>5, <3>4, <1>3
    <3> QED BY <3>14, <3>3 DEF Taken
  <2> QED BY <2>6, <2>7
<1> QED BY <1>4, <1>5, <1>6 DEF t, domain, new

\* Without the first patterns only the rows remain that take every first value.
LEMMA DefaultRows ==
  ASSUME NEW types \in Seq(Types), types # << >>, NEW matrix, TypedRows(matrix, types)
  PROVE  /\ TypedRows(DefaultMatrix(matrix), Tail(types))
         /\ \A v \in ValuesOf[Head(types)] :
              \A ws : IsVector(ws, Tail(types)) /\ Taken(DefaultMatrix(matrix), ws) => Taken(matrix, <<v>> \o ws)
         /\ \A v \in ValuesOf[Head(types)] :
              (\A row \in Expanded(matrix) : Head(row) # Irrefutable => ~Tests[Head(row)][v]) =>
                \A ws : IsVector(ws, Tail(types)) /\ Taken(matrix, <<v>> \o ws) => Taken(DefaultMatrix(matrix), ws)
<1> DEFINE new == DefaultMatrix(matrix)
<1>1. \A r : r \in new <=> \E row \in Expanded(matrix) : r = Tail(row) /\ Head(row) = Irrefutable
  BY DEF DefaultMatrix
<1>2. ASSUME NEW row \in Expanded(matrix) PROVE TypedRow(row, types) /\ TypedRow(Tail(row), Tail(types))
  <2>1. TypedRow(row, types) BY ExpandedRows DEF TypedRows
  <2> QED BY <2>1, RowParts
<1> HIDE DEF new
<1>3. TypedRows(new, Tail(types)) BY <1>1, <1>2 DEF TypedRows
<1>4. ASSUME NEW v \in ValuesOf[Head(types)], NEW ws, IsVector(ws, Tail(types))
      PROVE  /\ Taken(matrix, <<v>> \o ws) <=> Taken(Expanded(matrix), <<v>> \o ws)
             /\ \A row \in Expanded(matrix) :
                  TakesAll(row, <<v>> \o ws) <=> Tests[Head(row)][v] /\ TakesAll(Tail(row), ws)
  <2>1. IsVector(<<v>> \o ws, types) BY <1>4, VectorWith
  <2>2. Taken(matrix, <<v>> \o ws) <=> Taken(Expanded(matrix), <<v>> \o ws) BY <2>1, ExpandedRows
  <2> QED BY <2>2, <1>2, <1>4, RowTakes
<1>5. ASSUME NEW v \in ValuesOf[Head(types)], NEW ws, IsVector(ws, Tail(types)), Taken(new, ws)
      PROVE  Taken(matrix, <<v>> \o ws)
  <2>1. PICK r \in new : TakesAll(r, ws) BY <1>5 DEF Taken
  <2>2. PICK row \in Expanded(matrix) : r = Tail(row) /\ Head(row) = Irrefutable BY <1>1
  <2>3. v \in Values BY <1>5, VectorWith
  <2>4. Tests[Head(row)][v] BY <2>2, <2>3, WildcardTakes
  <2>5. TakesAll(row, <<v>> \o ws) BY <2>1, <2>2, <2>4, <1>4, <1>5
  <2> QED BY <2>5, <1>4, <1>5 DEF Taken
<1>6. ASSUME NEW v \in ValuesOf[Head(types)],
             \A row \in Expanded(matrix) : Head(row) # Irrefutable => ~Tests[Head(row)][v],
             NEW ws, IsVector(ws, Tail(types)), Taken(matrix, <<v>> \o ws)
      PROVE  Taken(new, ws)
  <2>1. PICK row \in Expanded(matrix) : TakesAll(row, <<v>> \o ws) BY <1>4, <1>6 DEF Taken
  <2>2. Tests[Head(row)][v] /\ TakesAll(Tail(row), ws) BY <2>1, <1>4, <1>6
  <2>3. Head(row) = Irrefutable BY <2>2, <1>6
  <2>4. Tail(row) \in new BY <2>3, <1>1
  <2> QED BY <2>2, <2>4 DEF Taken
<1> QED BY <1>3, <1>5, <1>6 DEF new

Splits(vs, s, t) == \E a, b : IsVector(a, s) /\ IsVector(b, t) /\ vs = a \o b

\* A vector for two lists of types is one vector after another.
LEMMA SplitVector ==
  ASSUME NEW s \in Seq(Types), NEW t \in Seq(Types), NEW vs, IsVector(vs, s \o t)
  PROVE  Splits(vs, s, t)
<1> DEFINE u == s \o t
<1>1. u \in Seq(Types) /\ Joins(u, s, t) BY ConcatJoins
<1>2. vs \in Seq(Values) /\ Len(vs) = Len(u) /\ \A i \in 1 .. Len(u) : vs[i] \in ValuesOf[u[i]]
  BY <1>1, VectorIs
<1> HIDE DEF u
<1>3. PICK m \in Nat : m = Len(s) OBVIOUS
<1>4. PICK n \in Nat : n = Len(t) OBVIOUS
<1> DEFINE a == [i \in 1 .. m |-> vs[i]]
           b == [i \in 1 .. n |-> vs[m + i]]
<1>5. /\ Len(vs) = m + n /\ \A i \in 1 .. m : i \in 1 .. Len(vs) /\ u[i] = s[i]
      /\ \A i \in 1 .. n : m + i \in 1 .. Len(vs) /\ u[m + i] = t[i]
  BY <1>1, <1>2, <1>3, <1>4 DEF Joins
<1>6. a \in Seq(Values) /\ b \in Seq(Values) /\ Len(a) = m /\ Len(b) = n
  BY <1>2, <1>5
<1>7. /\ \A i \in 1 .. m : a[i] = vs[i]
      /\ \A i \in 1 .. n : b[i] = vs[m + i]
  OBVIOUS
<1> HIDE DEF a, b
<1>8. IsVector(a, s) BY <1>2, <1>3, <1>5, <1>6, <1>7, VectorIs
<1>9. IsVector(b, t)
  <2>1. \A i \in 1 .. n : b[i] \in ValuesOf[t[i]]
    <3> TAKE i \in 1 .. n
    <3>1. m + i \in 1 .. Len(u) /\ u[m + i] = t[i] BY <1>2, <1>5
    <3>2. vs[m + i] \in ValuesOf[u[m + i]] BY <3>1, <1>2
    <3> QED BY <3>1, <3>2, <1>7
  <2> QED BY <2>1, <1>4, <1>6, VectorIs
<1>10. vs = a \o b
  <2>1. a \o b \in Seq(Values) /\ Joins(a \o b, a, b) BY <1>6, ConcatJoins
  <2>2. PICK c \in Seq(Values) : c = a \o b BY <2>1
  <2>3. Joins(c, a, b) BY <2>1, <2>2
  <2>4. Len(c) = Len(vs) BY <2>3, <1>5, <1>6 DEF Joins
  <2>5. \A k \in 1 .. Len(c) : c[k] = vs[k]
    <3> TAKE k \in 1 .. Len(c)
    <3>1. CASE k \in 1 .. Len(a) BY <3>1, <2>3, <1>6, <1>7 DEF Joins
    <3>2. ASSUME NEW i \in 1 .. Len(b), k = Len(a) + i PROVE c[k] = vs[k]
      BY <3>2, <2>3, <1>6, <1>7 DEF Joins
    <3>3. k \in 1 .. Len(a) \/ \E i \in 1 .. Len(b) : k = Len(a) + i BY <2>3 DEF Joins
    <3> QED BY <3>1, <3>2, <3>3
  <2>6. c = vs
    <3> DEFINE N == Len(c)
    <3>1. c = [k \in 1 .. N |-> c[k]] /\ vs = [k \in 1 .. N |-> vs[k]] BY <2>4, <1>2
    <3> HIDE DEF N
    <3>2. \A k \in 1 .. N : c[k] = vs[k] BY <2>5 DEF N
    <3> QED BY <3>1, <3>2
  <2> QED BY <2>2, <2>6
<1> QED BY <1>8, <1>9, <1>10 DEF Splits

-----------------------------------------------------------------------------
(* Answers that are right. *)

\* The first answer is "no" only if all are, has a witness only if one of them
\* has, and no end only if one of them has none.
LEMMA FirstIs ==
  ASSUME NEW tries, NEW low \in Int, \A a \in tries : a.at \in Int /\ low <= a.at
  PROVE  /\ First(tries).found = "no" => \A a \in tries : a.answer.found = "no"
         /\ First(tries).found \notin {"no", "endless"} => \E a \in tries : a.answer.found \notin {"no", "endless"}
         /\ First(tries).found = "endless" => \E a \in tries : a.answer.found = "endless"
<1> DEFINE found == {a \in tries : a.answer.found # "no"}
           first == CHOOSE a \in found : \A b \in found : a.at <= b.at
<1>1. CASE found = {}
  <2>1. First(tries) = NotUseful BY <1>1 DEF First
  <2>2. \A a \in tries : a.answer.found = "no" BY <1>1
  <2> QED BY <2>1, <2>2 DEF NotUseful
<1>2. CASE found # {}
  <2>1. \E a \in found : \A b \in found : a.at <= b.at
    <3> DEFINE S == {a.at : a \in found}
    <3>1. S \subseteq Int /\ S # {} /\ \A n \in S : low <= n BY <1>2
    <3>2. PICK n \in S : \A k \in S : n <= k
      <4> HIDE DEF S
      <4> QED BY <3>1, LeastInteger
    <3>3. PICK a \in found : n = a.at OBVIOUS
    <3> QED BY <3>2, <3>3
  <2>2. first \in found
    <3> HIDE DEF found
    <3> QED BY <2>1
  <2>3. First(tries) = first.answer BY <1>2 DEF First
  <2> HIDE DEF first
  <2>4. first \in tries /\ first.answer.found # "no" BY <2>2
  <2> QED BY <2>3, <2>4
<1> QED BY <1>1, <1>2

\* Putting a witness together does not change what was found.
LEMMA GatherIs ==
  ASSUME NEW answer, NEW pattern, NEW n
  PROVE  Gather(answer, pattern, n).found = answer.found
  BY DEF Gather, By

TypedQuestion(q) ==
  /\ q \in Questions
  /\ TypedRow(q.candidate, q.types) /\ TypedRows(q.matrix, q.types)

Asks(q, matrix, candidate, types) ==
  TypedQuestion(q) /\ q.matrix = matrix /\ q.candidate = candidate /\ q.types = types

\* A typed matrix and a typed candidate are a typed question.
LEMMA QuestionIs ==
  ASSUME NEW types \in Seq(Types), NEW candidate, NEW matrix,
         TypedRow(candidate, types), TypedRows(matrix, types)
  PROVE  Asks(Question(matrix, candidate, types), matrix, candidate, types)
<1> DEFINE q == Question(matrix, candidate, types)
<1>1. q.matrix = matrix /\ q.candidate = candidate /\ q.types = types BY DEF Question
<1>2. q \in Questions
  <2>1. matrix \subseteq Seq(Patterns) /\ candidate \in Seq(Patterns) BY DEF TypedRows, TypedRow
  <2> QED BY <2>1 DEF Question, Questions
<1> QED BY <1>1, <1>2 DEF TypedQuestion, Asks

\* No: the rows take what the candidate takes.  Yes: not all of it, if the
\* program may meet what the answer describes.
Sound(q, answer) ==
  answer.found = "no" =>
    \A vs : IsVector(vs, q.types) /\ TakesAll(q.candidate, vs) => Taken(q.matrix, vs)

Complete(q, answer) ==
  AllComplete /\ answer.found \notin {"no", "endless"} =>
    \E vs : IsVector(vs, q.types) /\ TakesAll(q.candidate, vs) /\ ~Taken(q.matrix, vs)

Right(q, answer)  == Sound(q, answer) /\ Complete(q, answer)
AllRight(answers) == \A q : TypedQuestion(q) => Right(q, answers[q])

\* Vectors are what the completeness of a type is about.
LEMMA VectorsAre ==
  ASSUME NEW types \in Seq(Types), NEW vs, IsVector(vs, types)
  PROVE  vs \in Vectors(types)
<1>1. /\ vs \in Seq(Values) /\ Len(vs) = Len(types) /\ \A i \in 1 .. Len(types) : vs[i] \in ValuesOf[types[i]]
      /\ DOMAIN types = 1 .. Len(types)
  BY VectorIs
<1>2. vs \in [DOMAIN types -> UNION {ValuesOf[types[i]] : i \in DOMAIN types}]
  <2>1. vs = [i \in DOMAIN types |-> vs[i]] BY <1>1
  <2>2. \A i \in DOMAIN types : vs[i] \in UNION {ValuesOf[types[j]] : j \in DOMAIN types} BY <1>1
  <2> QED BY <2>1, <2>2
<1>3. Hold(vs, types) BY <1>1 DEF Hold
<1> QED BY <1>2, <1>3 DEF Vectors

\* What is known of a question with a first pattern.
LEMMA FirstColumn ==
  ASSUME NEW q, TypedQuestion(q), q.candidate # << >>
  PROVE  /\ q.types \in Seq(Types) /\ q.types # << >> /\ Head(q.types) \in Types /\ Tail(q.types) \in Seq(Types)
         /\ TypedRow(q.candidate, q.types) /\ TypedRows(q.matrix, q.types)
         /\ Head(q.candidate) \in Patterns /\ WellFormed[Head(q.candidate)][Head(q.types)]
         /\ TypedRow(Tail(q.candidate), Tail(q.types))
<1>1. /\ q.types \in Seq(Types) /\ TypedRow(q.candidate, q.types) /\ TypedRows(q.matrix, q.types)
  BY DEF TypedQuestion, Questions
<1>2. q.types # << >>
  <2>1. q.candidate \in Seq(Patterns) /\ Len(q.candidate) = Len(q.types) BY <1>1 DEF TypedRow
  <2>2. Len(q.candidate) # 0 BY <2>1
  <2> QED BY <2>1, <2>2, <1>1
<1>3. Head(q.types) \in Types /\ Tail(q.types) \in Seq(Types) BY <1>1, <1>2, TypesParts
<1>4. /\ Head(q.candidate) \in Patterns /\ WellFormed[Head(q.candidate)][Head(q.types)]
      /\ TypedRow(Tail(q.candidate), Tail(q.types))
  BY <1>1, <1>2, RowParts
<1> QED BY <1>1, <1>2, <1>3, <1>4

\* No answer for values that begin with v, and an answer for one that does.
Settled(q, v) ==
  \A ws : IsVector(ws, Tail(q.types)) /\ TakesAll(q.candidate, <<v>> \o ws) => Taken(q.matrix, <<v>> \o ws)
Answered(q) ==
  \E v \in ValuesOf[Head(q.types)] : \E ws : /\ IsVector(ws, Tail(q.types)) /\ TakesAll(q.candidate, <<v>> \o ws)
                                            /\ ~Taken(q.matrix, <<v>> \o ws)

\* An answer is right if it is right value by value of the first column.
LEMMA RightByFirst ==
  ASSUME NEW q, TypedQuestion(q), q.candidate # << >>, NEW answer,
         answer.found = "no" => \A v \in ValuesOf[Head(q.types)] : Tests[Head(q.candidate)][v] => Settled(q, v),
         AllComplete /\ answer.found \notin {"no", "endless"} => Answered(q)
  PROVE  Right(q, answer)
<1>1. /\ q.types \in Seq(Types) /\ q.types # << >> /\ TypedRow(q.candidate, q.types) BY FirstColumn
<1>2. ASSUME answer.found = "no", NEW vs, IsVector(vs, q.types), TakesAll(q.candidate, vs)
      PROVE  Taken(q.matrix, vs)
  <2>1. /\ vs = <<Head(vs)>> \o Tail(vs) /\ Head(vs) \in ValuesOf[Head(q.types)]
        /\ IsVector(Tail(vs), Tail(q.types))
    BY <1>1, <1>2, VectorParts
  <2>2. TakesAll(q.candidate, <<Head(vs)>> \o Tail(vs)) BY <2>1, <1>2
  <2>3. Tests[Head(q.candidate)][Head(vs)] BY <1>1, <2>1, <2>2, RowTakes
  <2>4. Settled(q, Head(vs)) BY <2>1, <2>3, <1>2
  <2>5. Taken(q.matrix, <<Head(vs)>> \o Tail(vs)) BY <2>1, <2>2, <2>4 DEF Settled
  <2> QED BY <2>1, <2>5
<1>3. ASSUME AllComplete, answer.found \notin {"no", "endless"}
      PROVE  \E vs : IsVector(vs, q.types) /\ TakesAll(q.candidate, vs) /\ ~Taken(q.matrix, vs)
  <2>1. Answered(q) BY <1>3
  <2>2. PICK v \in ValuesOf[Head(q.types)] :
          \E ws : /\ IsVector(ws, Tail(q.types)) /\ TakesAll(q.candidate, <<v>> \o ws)
                  /\ ~Taken(q.matrix, <<v>> \o ws)
    BY <2>1 DEF Answered
  <2>3. PICK ws : /\ IsVector(ws, Tail(q.types)) /\ TakesAll(q.candidate, <<v>> \o ws)
                  /\ ~Taken(q.matrix, <<v>> \o ws)
    BY <2>2
  <2>4. IsVector(<<v>> \o ws, q.types) BY <1>1, <2>3, VectorWith
  <2> QED BY <2>3, <2>4
<1> QED BY <1>2, <1>3 DEF Right, Sound, Complete

\* The answer for one constructor is right if those one call deeper are.
LEMMA ConstructorRight ==
  ASSUME NEW deeper, AllRight(deeper), NEW q, TypedQuestion(q), q.candidate # << >>,
         Shape[Head(q.types)].kind \notin {"integer", "array"},
         NEW con, IsConstructor(con, Head(q.types)), Head(q.candidate).kind # "alternation",
         Head(q.candidate) = Irrefutable \/ (Head(q.candidate).kind = "constructed" /\ Head(q.candidate).con = con),
         Shape[Head(q.types)].kind = "open" => Head(q.candidate) # Irrefutable
  PROVE  LET answer == ConstructorWitness(deeper, q, con)
         IN  /\ answer.found = "no" => \A v \in ValuesOf[Head(q.types)] : v.con = con => Settled(q, v)
             /\ AllComplete /\ answer.found \notin {"no", "endless"} => Answered(q)
<1> DEFINE t      == Head(q.types)
           head   == Head(q.candidate)
           of     == ArgumentTypes(con, t)
           args   == Arguments(head, Len(of))
           matrix == SpecializeMatrix(q.matrix, con, Len(of))
           p      == Question(matrix, args \o Tail(q.candidate), of \o Tail(q.types))
<1>1. /\ q.types \in Seq(Types) /\ q.types # << >> /\ t \in Types /\ Tail(q.types) \in Seq(Types)
      /\ TypedRow(q.candidate, q.types) /\ TypedRows(q.matrix, q.types)
      /\ head \in Patterns /\ WellFormed[head][t]
  BY FirstColumn
<1>2. of \in Seq(Types) BY <1>1, ConstructorTypes
<1>3. /\ TypedRow(args, of)
      /\ \A v \in ValuesOf[t] : v.con = con => (Tests[head][v] <=> TakesAll(args, v.arguments))
  BY <1>1, ConstructorHead
<1>4. /\ TypedRows(matrix, of \o Tail(q.types))
      /\ \A v \in ValuesOf[t] : v.con = con =>
           \A ws : IsVector(ws, Tail(q.types)) =>
             (Taken(q.matrix, <<v>> \o ws) <=> Taken(matrix, v.arguments \o ws))
  BY <1>1, SpecializedMatrix
<1>5. \A v \in ValuesOf[t] : v.con = con => IsVector(v.arguments, of) BY <1>1, ValueParts
<1>6. PICK answer : answer = deeper[p] OBVIOUS
<1>7. ConstructorWitness(deeper, q, con).found = answer.found
  BY <1>6, GatherIs DEF ConstructorWitness
<1>13. \A a \in Vectors(of) : AllComplete => [con |-> con, arguments |-> a] \in ValuesOf[t]
  <2> SUFFICES ASSUME AllComplete, NEW a \in Vectors(of) PROVE [con |-> con, arguments |-> a] \in ValuesOf[t]
    OBVIOUS
  <2>1. IsComplete(t) BY <1>1 DEF AllComplete
  <2>2. CASE Shape[t].kind = "open"
    <3>1. head.kind = "constructed" /\ head.con = con BY <2>2
    <3>2. con[1] = "text" BY <2>2 DEF IsConstructor
    <3>3. of = << >> BY <3>2 DEF ArgumentTypes
    <3>4. con \in {r.con : r \in {r \in Patterns : r.kind = "constructed" /\ WellFormed[r][t]}}
      BY <3>1, <1>1
    <3>5. \A x \in {r.con : r \in {r \in Patterns : r.kind = "constructed" /\ WellFormed[r][t]}} :
            \A b \in Vectors(<< >>) : [con |-> x, arguments |-> b] \in ValuesOf[t]
      BY <2>1, <2>2 DEF IsComplete
    <3> HIDE DEF t, of
    <3> QED BY <3>3, <3>4, <3>5
  <2>3. CASE Shape[t].kind # "open"
    <3>1. con \in Range(ConstructorsOf(t)) BY <2>3 DEF IsConstructor
    <3>2. \A x \in Range(ConstructorsOf(t)) :
            \A b \in Vectors(ArgumentTypes(x, t)) : [con |-> x, arguments |-> b] \in ValuesOf[t]
      BY <2>1, <2>3 DEF IsComplete
    <3> QED BY <3>1, <3>2
  <2> QED BY <2>2, <2>3
<1> HIDE DEF args, matrix, of, t, head
<1>8. /\ TypedRow(args \o Tail(q.candidate), of \o Tail(q.types))
      /\ \A v \in ValuesOf[t] : v.con = con =>
           \A ws : IsVector(ws, Tail(q.types)) =>
             (TakesAll(q.candidate, <<v>> \o ws) <=> TakesAll(args \o Tail(q.candidate), v.arguments \o ws))
  BY <1>1, <1>2, <1>3, <1>5, SpecializedCandidate DEF t, head
<1>9. of \o Tail(q.types) \in Seq(Types) BY <1>1, <1>2
<1>10. Asks(p, matrix, args \o Tail(q.candidate), of \o Tail(q.types))
  BY <1>4, <1>8, <1>9, QuestionIs
<1> HIDE DEF p
<1>11. Right(p, answer) BY <1>6, <1>10 DEF AllRight, Asks
<1>12. ASSUME answer.found = "no", NEW v \in ValuesOf[t], v.con = con PROVE Settled(q, v)
  <2> SUFFICES ASSUME NEW ws, IsVector(ws, Tail(q.types)), TakesAll(q.candidate, <<v>> \o ws)
               PROVE  Taken(q.matrix, <<v>> \o ws)
    BY DEF Settled
  <2>1. IsVector(v.arguments \o ws, of \o Tail(q.types)) BY <1>1, <1>2, <1>5, <1>12, ConcatVector
  <2>2. TakesAll(args \o Tail(q.candidate), v.arguments \o ws) BY <1>8, <1>12
  <2>3. Taken(matrix, v.arguments \o ws) BY <2>1, <2>2, <1>10, <1>11, <1>12 DEF Right, Sound, Asks
  <2> QED BY <2>3, <1>4, <1>12
<1>14. ASSUME AllComplete, answer.found \notin {"no", "endless"} PROVE Answered(q)
  <2>1. PICK vs : IsVector(vs, of \o Tail(q.types)) /\ TakesAll(args \o Tail(q.candidate), vs) /\ ~Taken(matrix, vs)
    BY <1>10, <1>11, <1>14 DEF Right, Complete, Asks
  <2>8. Splits(vs, of, Tail(q.types)) BY <2>1, <1>1, <1>2, SplitVector
  <2>2. PICK a, ws : IsVector(a, of) /\ IsVector(ws, Tail(q.types)) /\ vs = a \o ws
    BY <2>8 DEF Splits
  <2>3. PICK v : v = [con |-> con, arguments |-> a] OBVIOUS
  <2>4. v.con = con /\ v.arguments = a BY <2>3
  <2>5. v \in ValuesOf[t] BY <2>2, <2>3, <1>2, <1>13, <1>14, VectorsAre
  <2>6. TakesAll(q.candidate, <<v>> \o ws) BY <2>1, <2>2, <2>4, <2>5, <1>8
  <2>7. ~Taken(q.matrix, <<v>> \o ws) BY <2>1, <2>2, <2>4, <2>5, <1>4
  <2> QED BY <2>2, <2>5, <2>6, <2>7 DEF Answered, t
<1> QED BY <1>7, <1>12, <1>14 DEF t

\* The kinds of patterns that are left when others are excluded.
LEMMA HeadKinds ==
  ASSUME NEW t \in Types, NEW h \in Patterns, WellFormed[h][t], h.kind # "alternation"
  PROVE  /\ h.kind # "invalid"
         /\ Shape[t].kind \notin {"integer", "array"} => h = Irrefutable \/ (h.kind = "constructed" /\ IsConstructor(h.con, t))
<1>1. Suits(h, t) BY WellFormedDef
<1>2. h.kind # "invalid" BY <1>1 DEF Suits
<1>3. ASSUME Shape[t].kind \notin {"integer", "array"}
      PROVE  h = Irrefutable \/ (h.kind = "constructed" /\ IsConstructor(h.con, t))
  <2>1. CASE h.kind = "constructed"
    <3>1. IsConstructor(h.con, t) BY <2>1, <1>1, <1>3 DEF Suits, IsConstructor, IsLiteral
    <3> QED BY <2>1, <3>1
  <2>2. CASE h.kind \in {"range", "array"} BY <2>2, <1>1, <1>3 DEF Suits
  <2> QED BY <2>1, <2>2, <1>2, PatternKinds
<1> QED BY <1>2, <1>3

\* The constructors of a type are numbered from 1.
LEMMA ConstructorsAreNumbered ==
  ASSUME NEW t \in Types
  PROVE  \A c \in DOMAIN ConstructorsOf(t) : c \in Int /\ 1 <= c
<1>1. CASE Shape[t].kind = "enum"
  <2>1. IsShape(Shape[t]) BY TypesAreClosed
  <2>2. Shape[t].variants \in Seq(Seq(Types)) BY <2>1, <1>1 DEF IsShape
  <2>3. DOMAIN ConstructorsOf(t) = DOMAIN Shape[t].variants BY <1>1 DEF ConstructorsOf
  <2> QED BY <2>2, <2>3
<1>2. CASE Shape[t].kind \in {"bool", "option", "result", "step"}
  <2>1. DOMAIN ConstructorsOf(t) = 1 .. 2 BY <1>2 DEF ConstructorsOf
  <2> QED BY <2>1
<1>3. CASE Shape[t].kind = "struct"
  <2>1. DOMAIN ConstructorsOf(t) = 1 .. 1 BY <1>3 DEF ConstructorsOf
  <2> QED BY <2>1
<1>4. CASE Shape[t].kind \notin {"enum", "bool", "option", "result", "step", "struct"}
  <2>1. ConstructorsOf(t) = << >> BY <1>4 DEF ConstructorsOf
  <2> QED BY <2>1
<1> QED BY <1>1, <1>2, <1>3, <1>4

\* The answer for a wildcard of a type with constructors is right if those one
\* call deeper are.
LEMMA EveryConstructorRight ==
  ASSUME NEW deeper, AllRight(deeper), NEW q, TypedQuestion(q), q.candidate # << >>,
         Shape[Head(q.types)].kind \in {"bool", "option", "result", "step", "struct", "enum"},
         TypeIsInhabited(Head(q.types)), Head(q.candidate) = Irrefutable
  PROVE  Right(q, EveryConstructorWitness(deeper, q))
<1> DEFINE t  == Head(q.types)
           cs == ConstructorsOf(t)
           tries == {Attempt(c, ConstructorWitness(deeper, q, cs[c])) : c \in DOMAIN cs}
<1>1. t \in Types BY FirstColumn
<1>2. PatternConstructors(t) = cs BY DEF PatternConstructors
<1>3. EveryConstructorWitness(deeper, q) = First(tries) BY <1>2 DEF EveryConstructorWitness
<1>4. ASSUME NEW c \in DOMAIN cs
      PROVE  LET answer == ConstructorWitness(deeper, q, cs[c])
             IN  /\ answer.found = "no" => \A v \in ValuesOf[t] : v.con = cs[c] => Settled(q, v)
                 /\ AllComplete /\ answer.found \notin {"no", "endless"} => Answered(q)
  <2>1. cs[c] \in Range(cs) BY DEF Range
  <2>2. IsConstructor(cs[c], t) BY <2>1 DEF IsConstructor
  <2>3. Head(q.candidate).kind # "alternation" BY WildcardTakes
  <2> HIDE DEF cs
  <2> QED BY <2>2, <2>3, ConstructorRight
<1>5. \A a \in tries : a.at \in Int /\ 1 <= a.at
  <2>1. \A c \in DOMAIN cs : c \in Int /\ 1 <= c BY <1>1, ConstructorsAreNumbered
  <2> HIDE DEF cs
  <2> QED BY <2>1 DEF Attempt
<1>6. /\ First(tries).found = "no" => \A a \in tries : a.answer.found = "no"
      /\ First(tries).found \notin {"no", "endless"} => \E a \in tries : a.answer.found \notin {"no", "endless"}
  <2> HIDE DEF tries
  <2> QED BY <1>5, FirstIs
<1>7. /\ \A c \in DOMAIN cs : \E a \in tries : a.answer = ConstructorWitness(deeper, q, cs[c])
      /\ \A a \in tries : \E c \in DOMAIN cs : a.answer = ConstructorWitness(deeper, q, cs[c])
  <2> HIDE DEF cs
  <2>1. ASSUME NEW c \in DOMAIN cs
        PROVE  \E a \in tries : a.answer = ConstructorWitness(deeper, q, cs[c])
    <3>1. Attempt(c, ConstructorWitness(deeper, q, cs[c])) \in tries OBVIOUS
    <3>2. Attempt(c, ConstructorWitness(deeper, q, cs[c])).answer = ConstructorWitness(deeper, q, cs[c]) BY DEF Attempt
    <3> HIDE DEF tries
    <3> QED BY <3>1, <3>2
  <2>2. ASSUME NEW a \in tries
        PROVE  \E c \in DOMAIN cs : a.answer = ConstructorWitness(deeper, q, cs[c])
    BY DEF Attempt
  <2> HIDE DEF tries
  <2> QED BY <2>1, <2>2
<1>8. \A v \in ValuesOf[t] : \E c \in DOMAIN cs : v.con = cs[c]
  <2> TAKE v \in ValuesOf[t]
  <2>1. IsConstructor(v.con, t) BY <1>1, ValueParts
  <2>2. v.con \in Range(cs) BY <2>1 DEF IsConstructor
  <2> HIDE DEF cs
  <2> QED BY <2>2 DEF Range
<1> HIDE DEF tries, cs, t
<1>9. ASSUME First(tries).found = "no", NEW v \in ValuesOf[t] PROVE Settled(q, v)
  <2>1. PICK c \in DOMAIN cs : v.con = cs[c] BY <1>8
  <2>2. ConstructorWitness(deeper, q, cs[c]).found = "no" BY <1>6, <1>7, <1>9
  <2> QED BY <2>1, <2>2, <1>4
<1>10. ASSUME AllComplete, First(tries).found \notin {"no", "endless"} PROVE Answered(q)
  <2>1. PICK a \in tries : a.answer.found \notin {"no", "endless"} BY <1>6, <1>10
  <2>2. PICK c \in DOMAIN cs : a.answer = ConstructorWitness(deeper, q, cs[c]) BY <1>7
  <2> QED BY <2>1, <2>2, <1>4, <1>10
<1> QED BY <1>3, <1>9, <1>10, RightByFirst DEF t

\* The answer for a wildcard of an open type is right: there is a value that no
\* row names.
LEMMA DefaultRight ==
  ASSUME NEW deeper, AllRight(deeper), NEW q, TypedQuestion(q), q.candidate # << >>,
         Shape[Head(q.types)].kind = "open", Head(q.candidate) = Irrefutable
  PROVE  Right(q, DefaultWitness(deeper, q))
<1> DEFINE t      == Head(q.types)
           matrix == DefaultMatrix(q.matrix)
           p      == Question(matrix, Tail(q.candidate), Tail(q.types))
<1>1. /\ q.types \in Seq(Types) /\ q.types # << >> /\ t \in Types /\ Tail(q.types) \in Seq(Types)
      /\ TypedRow(q.candidate, q.types) /\ TypedRows(q.matrix, q.types)
      /\ TypedRow(Tail(q.candidate), Tail(q.types))
  BY FirstColumn
<1>2. /\ TypedRows(matrix, Tail(q.types))
      /\ \A v \in ValuesOf[t] :
           \A ws : IsVector(ws, Tail(q.types)) /\ Taken(matrix, ws) => Taken(q.matrix, <<v>> \o ws)
      /\ \A v \in ValuesOf[t] :
           (\A row \in Expanded(q.matrix) : Head(row) # Irrefutable => ~Tests[Head(row)][v]) =>
             \A ws : IsVector(ws, Tail(q.types)) /\ Taken(q.matrix, <<v>> \o ws) => Taken(matrix, ws)
  BY <1>1, DefaultRows
<1>3. PICK answer : answer = deeper[p] OBVIOUS
<1>4. DefaultWitness(deeper, q).found = answer.found BY <1>3, GatherIs DEF DefaultWitness
<1>5. Asks(p, matrix, Tail(q.candidate), Tail(q.types)) BY <1>1, <1>2, QuestionIs
<1> HIDE DEF p, matrix, t
<1>6. Right(p, answer) BY <1>3, <1>5 DEF AllRight, Asks
<1>7. ASSUME NEW v \in ValuesOf[t], NEW ws, IsVector(ws, Tail(q.types))
      PROVE  TakesAll(q.candidate, <<v>> \o ws) <=> TakesAll(Tail(q.candidate), ws)
  <2>1. v \in Values /\ Tests[Head(q.candidate)][v] BY <1>1, <1>7, WildcardTakes DEF t, Values
  <2> QED BY <2>1, <1>1, <1>7, RowTakes DEF t
<1>8. ASSUME answer.found = "no", NEW v \in ValuesOf[t] PROVE Settled(q, v)
  <2> SUFFICES ASSUME NEW ws, IsVector(ws, Tail(q.types)), TakesAll(q.candidate, <<v>> \o ws)
               PROVE  Taken(q.matrix, <<v>> \o ws)
    BY DEF Settled
  <2>1. TakesAll(Tail(q.candidate), ws) BY <1>7
  <2>2. Taken(matrix, ws) BY <2>1, <1>5, <1>6, <1>8 DEF Right, Sound, Asks
  <2> QED BY <2>2, <1>2
<1>9. ASSUME AllComplete, answer.found \notin {"no", "endless"} PROVE Answered(q)
  <2>1. PICK ws : IsVector(ws, Tail(q.types)) /\ TakesAll(Tail(q.candidate), ws) /\ ~Taken(matrix, ws)
    BY <1>5, <1>6, <1>9 DEF Right, Complete, Asks
  <2> DEFINE written == {r.con : r \in {r \in Patterns : r.kind = "constructed" /\ WellFormed[r][t]}}
  <2>2. PICK v \in ValuesOf[t] : v.con \notin written
    <3>1. IsComplete(t) BY <1>1, <1>9 DEF AllComplete
    <3>2. Shape[t].kind = "open" BY DEF t
    <3> QED BY <3>1, <3>2 DEF IsComplete
  <2>3. ASSUME NEW row \in Expanded(q.matrix), Head(row) # Irrefutable PROVE ~Tests[Head(row)][v]
    <3>1. TypedRow(row, q.types) /\ Head(row).kind # "alternation" BY <1>1, ExpandedRows DEF TypedRows
    <3>2. Head(row) \in Patterns /\ WellFormed[Head(row)][t] BY <3>1, <1>1, RowParts DEF t
    <3>3. Head(row).kind = "constructed" BY <3>1, <3>2, <2>3, <1>1, HeadKinds DEF t
    <3>4. Head(row).con \in written BY <3>2, <3>3
    <3>5. Head(row).con # v.con BY <3>4, <2>2
    <3>6. v \in Values BY <1>1 DEF Values
    <3> QED BY <3>2, <3>3, <3>5, <3>6, TestsDef DEF TestOf
  <2>4. ~Taken(q.matrix, <<v>> \o ws) BY <2>1, <2>3, <1>2
  <2>5. TakesAll(q.candidate, <<v>> \o ws) BY <2>1, <1>7
  <2> QED BY <2>1, <2>4, <2>5 DEF Answered, t
<1> QED BY <1>4, <1>8, <1>9, RightByFirst DEF t

\* The answer for an alternation is right if those one call deeper are.
LEMMA AlternationRight ==
  ASSUME NEW deeper, AllRight(deeper), NEW q, TypedQuestion(q), q.candidate # << >>,
         Head(q.candidate).kind = "alternation"
  PROVE  Right(q, AlternationWitness(deeper, q))
<1> DEFINE t    == Head(q.types)
           head == Head(q.candidate)
           alts == head.alternatives
           row(a) == <<alts[a]>> \o Tail(q.candidate)
           p(a)   == Question(q.matrix, row(a), q.types)
           tries  == {Attempt(a, deeper[p(a)]) : a \in DOMAIN alts}
<1>1. /\ q.types \in Seq(Types) /\ q.types # << >> /\ t \in Types /\ Tail(q.types) \in Seq(Types)
      /\ TypedRow(q.candidate, q.types) /\ TypedRows(q.matrix, q.types)
      /\ TypedRow(Tail(q.candidate), Tail(q.types)) /\ Tail(q.candidate) \in Seq(Patterns)
      /\ head \in Patterns /\ WellFormed[head][t]
  BY FirstColumn DEF TypedRow
<1>2. alts \in Seq(Patterns) BY <1>1, PatternKinds
<1>3. ASSUME NEW a \in DOMAIN alts
      PROVE  /\ alts[a] \in Patterns /\ TypedRow(row(a), q.types) /\ Head(row(a)) = alts[a]
             /\ Tail(row(a)) = Tail(q.candidate)
             /\ Asks(p(a), q.matrix, row(a), q.types) /\ Right(p(a), deeper[p(a)])
  <2>1. alts[a] \in Patterns BY <1>2
  <2>2. WellFormed[alts[a]][t]
    <3>1. <<alts[a], t>> \in Parts(head, t) BY DEF Parts, Range
    <3>2. \A part \in Parts(head, t) : WellFormed[part[1]][part[2]] BY <1>1, WellFormedDef
    <3> QED BY <3>1, <3>2
  <2>3. TypedRow(row(a), q.types) BY <2>1, <2>2, <1>1, PrependRow
  <2>4. Head(row(a)) = alts[a] /\ Tail(row(a)) = Tail(q.candidate) BY <2>1, <1>1, Prepended
  <2> HIDE DEF row
  <2>5. Asks(p(a), q.matrix, row(a), q.types) BY <2>3, <1>1, QuestionIs
  <2> HIDE DEF p
  <2>6. Right(p(a), deeper[p(a)]) BY <2>5 DEF AllRight, Asks
  <2> QED BY <2>1, <2>3, <2>4, <2>5, <2>6
<1>4. AlternationWitness(deeper, q) = First(tries) BY DEF AlternationWitness
<1>5. /\ \A a \in DOMAIN alts : \E b \in tries : b.answer = deeper[p(a)]
      /\ \A b \in tries : \E a \in DOMAIN alts : b.answer = deeper[p(a)] /\ b.at = a
  <2> HIDE DEF p, alts
  <2>1. \A a \in DOMAIN alts : Attempt(a, deeper[p(a)]) \in tries /\ Attempt(a, deeper[p(a)]).answer = deeper[p(a)]
    BY DEF Attempt
  <2>2. \A b \in tries : \E a \in DOMAIN alts : b.answer = deeper[p(a)] /\ b.at = a BY DEF Attempt
  <2> HIDE DEF tries
  <2> QED BY <2>1, <2>2
<1>6. \A v \in ValuesOf[t] : v \in Values /\ (Tests[head][v] <=> \E a \in DOMAIN alts : Tests[alts[a]][v])
  <2> TAKE v \in ValuesOf[t]
  <2>1. v \in Values BY <1>1 DEF Values
  <2>2. Tests[head][v] <=> TestOf(Tests, head, v) BY <1>1, <2>1, TestsDef
  <2>3. TestOf(Tests, head, v) <=> \E a \in DOMAIN alts : Tests[alts[a]][v] BY DEF TestOf
  <2> QED BY <2>1, <2>2, <2>3
<1> HIDE DEF tries, p, row, alts, t, head
<1>7. \A a \in DOMAIN alts : a \in Int /\ 1 <= a BY <1>2
<1>8. /\ First(tries).found = "no" => \A b \in tries : b.answer.found = "no"
      /\ First(tries).found \notin {"no", "endless"} => \E b \in tries : b.answer.found \notin {"no", "endless"}
  <2>1. \A b \in tries : b.at \in Int /\ 1 <= b.at BY <1>5, <1>7
  <2> QED BY <2>1, FirstIs
<1>9. ASSUME NEW v \in ValuesOf[t], NEW ws, IsVector(ws, Tail(q.types))
      PROVE  /\ TakesAll(q.candidate, <<v>> \o ws) <=> Tests[head][v] /\ TakesAll(Tail(q.candidate), ws)
             /\ \A a \in DOMAIN alts :
                  TakesAll(row(a), <<v>> \o ws) <=> Tests[alts[a]][v] /\ TakesAll(Tail(q.candidate), ws)
             /\ IsVector(<<v>> \o ws, q.types)
  <2>1. TakesAll(q.candidate, <<v>> \o ws) <=> Tests[head][v] /\ TakesAll(Tail(q.candidate), ws)
    BY <1>1, <1>9, RowTakes DEF t, head
  <2>2. ASSUME NEW a \in DOMAIN alts
        PROVE  TakesAll(row(a), <<v>> \o ws) <=> Tests[alts[a]][v] /\ TakesAll(Tail(q.candidate), ws)
    <3>1. TakesAll(row(a), <<v>> \o ws) <=> Tests[Head(row(a))][v] /\ TakesAll(Tail(row(a)), ws)
      BY <1>1, <1>3, <1>9, RowTakes DEF t
    <3> QED BY <3>1, <1>3
  <2> QED BY <2>1, <2>2, <1>1, <1>9, VectorWith DEF t
<1>10. ASSUME First(tries).found = "no", NEW v \in ValuesOf[t], Tests[head][v] PROVE Settled(q, v)
  <2> SUFFICES ASSUME NEW ws, IsVector(ws, Tail(q.types)), TakesAll(q.candidate, <<v>> \o ws)
               PROVE  Taken(q.matrix, <<v>> \o ws)
    BY DEF Settled
  <2>1. PICK a \in DOMAIN alts : Tests[alts[a]][v] BY <1>6, <1>10
  <2>2. TakesAll(row(a), <<v>> \o ws) BY <2>1, <1>9
  <2>3. deeper[p(a)].found = "no" BY <1>5, <1>8, <1>10
  <2>4. IsVector(<<v>> \o ws, q.types) BY <1>9
  <2> QED BY <2>2, <2>3, <2>4, <1>3 DEF Right, Sound, Asks
<1>11. ASSUME AllComplete, First(tries).found \notin {"no", "endless"} PROVE Answered(q)
  <2>1. PICK b \in tries : b.answer.found \notin {"no", "endless"} BY <1>8, <1>11
  <2>2. PICK a \in DOMAIN alts : b.answer = deeper[p(a)] BY <1>5
  <2>3. PICK vs : IsVector(vs, q.types) /\ TakesAll(row(a), vs) /\ ~Taken(q.matrix, vs)
    BY <2>1, <2>2, <1>3, <1>11 DEF Right, Complete, Asks
  <2>4. PICK v \in ValuesOf[t] : \E ws : vs = <<v>> \o ws /\ IsVector(ws, Tail(q.types))
    BY <2>3, <1>1, VectorParts DEF t
  <2>5. PICK ws : vs = <<v>> \o ws /\ IsVector(ws, Tail(q.types)) BY <2>4
  <2>6. TakesAll(row(a), <<v>> \o ws) /\ ~Taken(q.matrix, <<v>> \o ws) BY <2>3, <2>5
  <2>7. Tests[alts[a]][v] /\ TakesAll(Tail(q.candidate), ws) BY <2>5, <2>6, <1>9
  <2>8. Tests[head][v] BY <2>7, <1>6
  <2>9. TakesAll(q.candidate, <<v>> \o ws) BY <2>5, <2>7, <2>8, <1>9
  <2> QED BY <2>5, <2>6, <2>9 DEF Answered, t
<1> QED BY <1>4, <1>10, <1>11, RightByFirst DEF t, head

\* The answer for an integer type, which is looked for cell by cell, is right
\* if those one call deeper are.
LEMMA IntegerRight ==
  ASSUME NEW deeper, AllRight(deeper), NEW q, TypedQuestion(q), q.candidate # << >>,
         Shape[Head(q.types)].kind = "integer", Head(q.candidate).kind # "alternation"
  PROVE  LET domain == Domain(Head(q.types))
         IN  Right(q, IntegerWitness(deeper, q, IntegerInterval(Head(q.candidate), domain), domain))
<1> DEFINE t         == Head(q.types)
           head      == Head(q.candidate)
           domain    == Domain(t)
           candidate == IntegerInterval(head, domain)
           bounds    == Bounds(q.matrix, candidate, domain)
           matrix(c) == SpecializeIntegerMatrix(q.matrix, c, domain)
           p(c)      == Question(matrix(c), Tail(q.candidate), Tail(q.types))
           answer(c) == Gather(deeper[p(c)], IntervalPattern(c), 0)
           tries     == {Attempt(c.start, answer(c)) : c \in Cells(bounds)}
<1>1. /\ q.types \in Seq(Types) /\ q.types # << >> /\ t \in Types /\ Tail(q.types) \in Seq(Types)
      /\ TypedRow(q.candidate, q.types) /\ TypedRows(q.matrix, q.types)
      /\ TypedRow(Tail(q.candidate), Tail(q.types))
      /\ head \in Patterns /\ WellFormed[head][t]
  BY FirstColumn
<1>2. /\ candidate.start \in Int /\ candidate.end \in Int /\ ~IsEmpty(candidate)
      /\ domain.start <= candidate.start /\ candidate.end <= domain.end
      /\ \A v \in ValuesOf[t] : Tests[head][v] <=> InInterval(v.con[2], candidate)
  BY <1>1, IntegerHead
<1>3. /\ domain.start \in Int /\ domain.end \in Int
      /\ \A v \in ValuesOf[t] : v \in Values /\ v.con[2] \in Int
  BY <1>1, IntegerTypes
<1>4. /\ \A b \in bounds : b \in Int /\ candidate.start <= b /\ b <= candidate.end + 1
      /\ candidate.start \in bounds /\ candidate.end + 1 \in bounds
  BY <1>1, <1>2, BoundsAre
<1>5. IntegerWitness(deeper, q, candidate, domain) = First(tries) BY DEF IntegerWitness
<1>6. /\ \A c \in Cells(bounds) : \E b \in tries : b.answer = answer(c)
      /\ \A b \in tries : \E c \in Cells(bounds) : b.answer = answer(c) /\ b.at = c.start
  <2> HIDE DEF answer, bounds
  <2>1. \A c \in Cells(bounds) : Attempt(c.start, answer(c)) \in tries /\ Attempt(c.start, answer(c)).answer = answer(c)
    BY DEF Attempt
  <2>2. \A b \in tries : \E c \in Cells(bounds) : b.answer = answer(c) /\ b.at = c.start BY DEF Attempt
  <2> HIDE DEF tries
  <2> QED BY <2>1, <2>2
<1>7. \A c : answer(c).found = deeper[p(c)].found BY GatherIs
<1> HIDE DEF answer, tries
<1>8. ASSUME NEW c \in Cells(bounds)
      PROVE  /\ c.start \in Int /\ c.end \in Int /\ c.start <= c.end /\ candidate.start <= c.start
             /\ c.end <= candidate.end
             /\ Asks(p(c), matrix(c), Tail(q.candidate), Tail(q.types)) /\ Right(p(c), deeper[p(c)])
             /\ \A v \in ValuesOf[t] : InInterval(v.con[2], c) =>
                  \A ws : IsVector(ws, Tail(q.types)) => (Taken(q.matrix, <<v>> \o ws) <=> Taken(matrix(c), ws))
  <2>1. c.start \in Int /\ c.end \in Int /\ c.start <= c.end
    <3> HIDE DEF bounds
    <3>1. bounds \subseteq Int BY <1>4
    <3> QED BY <3>1, CellIs
  <2>2. /\ TypedRows(matrix(c), Tail(q.types))
        /\ candidate.start <= c.start /\ c.end <= candidate.end
        /\ \A v \in ValuesOf[t] : InInterval(v.con[2], c) =>
             \A ws : IsVector(ws, Tail(q.types)) /\ Taken(q.matrix, <<v>> \o ws) => Taken(matrix(c), ws)
        /\ \A v \in ValuesOf[t] : InInterval(v.con[2], c) =>
             \A ws : IsVector(ws, Tail(q.types)) /\ Taken(matrix(c), ws) => Taken(q.matrix, <<v>> \o ws)
    BY <2>1, <1>1, <1>2, SpecializedIntegers
  <2> HIDE DEF matrix
  <2>3. Asks(p(c), matrix(c), Tail(q.candidate), Tail(q.types)) BY <2>2, <1>1, QuestionIs
  <2> HIDE DEF p
  <2>4. Right(p(c), deeper[p(c)]) BY <2>3 DEF AllRight, Asks
  <2> HIDE DEF t, domain, candidate, bounds
  <2> QED BY <2>1, <2>2, <2>3, <2>4
<1>12. ASSUME NEW x \in Int, AllComplete, InInterval(x, domain)
       PROVE  \E v \in ValuesOf[t] : v.con[2] = x
  <2>1. IsComplete(t) BY <1>1, <1>12 DEF AllComplete
  <2>2. domain.start = Shape[t].low /\ domain.end = Shape[t].high BY DEF Domain
  <2>3. x \in Shape[t].low .. Shape[t].high BY <1>3, <1>12, <2>2 DEF InInterval
  <2>4. << >> \in Vectors(<< >>)
    <3>1. IsVector(<< >>, << >>) BY DEF IsVector, Hold
    <3>2. << >> \in Seq(Types) OBVIOUS
    <3> QED BY <3>1, <3>2, VectorsAre
  <2>5. [con |-> <<"int", x>>, arguments |-> << >>] \in ValuesOf[t] BY <2>1, <2>3, <2>4 DEF IsComplete
  <2>6. [con |-> <<"int", x>>, arguments |-> << >>].con[2] = x OBVIOUS
  <2> QED BY <2>5, <2>6
<1> HIDE DEF matrix, p, bounds, candidate, domain, t, head
<1>9. /\ First(tries).found = "no" => \A b \in tries : b.answer.found = "no"
      /\ First(tries).found \notin {"no", "endless"} => \E b \in tries : b.answer.found \notin {"no", "endless"}
  <2>1. \A b \in tries : b.at \in Int /\ candidate.start <= b.at BY <1>6, <1>8
  <2> QED BY <2>1, <1>2, FirstIs
<1>10. ASSUME First(tries).found = "no", NEW v \in ValuesOf[t], Tests[head][v] PROVE Settled(q, v)
  <2> SUFFICES ASSUME NEW ws, IsVector(ws, Tail(q.types)), TakesAll(q.candidate, <<v>> \o ws)
               PROVE  Taken(q.matrix, <<v>> \o ws)
    BY DEF Settled
  <2>1. PICK x \in Int : x = v.con[2] BY <1>3
  <2>2. candidate.start <= x /\ x < candidate.end + 1 BY <2>1, <1>2, <1>10 DEF InInterval
  <2>3. PICK c \in Cells(bounds) : c.start <= x /\ x <= c.end
    <3>1. bounds \subseteq Int BY <1>4
    <3> QED BY <3>1, <2>2, <1>4, CellOf
  <2>4. InInterval(v.con[2], c) BY <2>1, <2>3 DEF InInterval
  <2>5. deeper[p(c)].found = "no" BY <1>6, <1>7, <1>9, <1>10
  <2>6. TakesAll(Tail(q.candidate), ws) BY <1>1, RowTakes DEF t
  <2>7. Taken(matrix(c), ws) BY <2>5, <2>6, <1>8 DEF Right, Sound, Asks
  <2> QED BY <2>4, <2>7, <1>8
<1>11. ASSUME AllComplete, First(tries).found \notin {"no", "endless"} PROVE Answered(q)
  <2>1. PICK b \in tries : b.answer.found \notin {"no", "endless"} BY <1>9, <1>11
  <2>2. PICK c \in Cells(bounds) : b.answer = answer(c) BY <1>6
  <2>3. PICK ws : IsVector(ws, Tail(q.types)) /\ TakesAll(Tail(q.candidate), ws) /\ ~Taken(matrix(c), ws)
    BY <2>1, <2>2, <1>7, <1>8, <1>11 DEF Right, Complete, Asks
  <2>4. c.start \in Int /\ InInterval(c.start, domain) /\ InInterval(c.start, candidate) /\ InInterval(c.start, c)
    BY <1>2, <1>3, <1>8 DEF InInterval
  <2>5. PICK v \in ValuesOf[t] : v.con[2] = c.start BY <2>4, <1>11, <1>12
  <2>6. Tests[head][v] BY <2>4, <2>5, <1>2
  <2>7. TakesAll(q.candidate, <<v>> \o ws) BY <2>3, <2>6, <1>1, RowTakes DEF t, head
  <2>8. ~Taken(q.matrix, <<v>> \o ws) BY <2>3, <2>4, <2>5, <1>8
  <2> QED BY <2>3, <2>7, <2>8 DEF Answered, t
<1> QED BY <1>5, <1>10, <1>11, RightByFirst DEF t, head, candidate, domain

-----------------------------------------------------------------------------
(* Arrays of other lengths. *)

Sizes(h, k, l) == Len(h.prefix) = k /\ Len(h.suffix) = l

\* What is written stands at the ends, and wildcards between.
LaidOut(args, h, n, k, l) ==
  /\ k + l <= n /\ Len(args) = n
  /\ \A i \in 1 .. k : i \in 1 .. n /\ args[i] = h.prefix[i]
  /\ \A i \in 1 .. l : n - l + i \in 1 .. n /\ args[n - l + i] = h.suffix[i]
  /\ \A i \in 1 .. n : i \in 1 .. k \/ (\E j \in 1 .. l : i = n - l + j) \/ args[i] = Irrefutable

\* How an array pattern of known sizes is laid out at a length.
LEMMA AtLengthIs ==
  ASSUME NEW h \in Patterns, h.kind = "array", NEW n \in Nat, FitsLength(h, n),
         NEW k \in Nat, NEW l \in Nat, Sizes(h, k, l)
  PROVE  LaidOut(AtLength(h, n), h, n, k, l)
<1> DEFINE args == AtLength(h, n)
<1>1. h # Irrefutable /\ h.rest \in BOOLEAN BY WildcardTakes, PatternKinds
<1>2. k + l <= n BY <1>1 DEF FitsLength, Written, Sizes
<1>3. Len(args) = n BY DEF AtLength
<1>4. \A i \in 1 .. k : i \in 1 .. n /\ args[i] = h.prefix[i] BY <1>1, <1>2 DEF AtLength, Sizes
<1>5. \A i \in 1 .. l : n - l + i \in 1 .. n /\ args[n - l + i] = h.suffix[i]
  <2> TAKE i \in 1 .. l
  <2>1. n - l + i \in 1 .. n /\ ~(n - l + i <= k) /\ n - l + i > n - l /\ (n - l + i) - (n - l) = i
    BY <1>2
  <2> QED BY <2>1, <1>1 DEF AtLength, Sizes
<1>6. \A i \in 1 .. n : i \in 1 .. k \/ (\E j \in 1 .. l : i = n - l + j) \/ args[i] = Irrefutable
  <2> TAKE i \in 1 .. n
  <2>1. CASE i > n - l
    <3>1. i - (n - l) \in 1 .. l /\ i = n - l + (i - (n - l)) BY <2>1
    <3> QED BY <3>1
  <2>2. CASE ~(i > n - l) /\ ~(i <= k)
    <3>1. args[i] = Irrefutable BY <2>2, <1>1 DEF AtLength, Sizes
    <3> QED BY <3>1
  <2>3. CASE i <= k BY <2>3
  <2> QED BY <2>1, <2>2, <2>3
<1> HIDE DEF args
<1>7. LaidOut(args, h, n, k, l) BY <1>2, <1>3, <1>4, <1>5, <1>6 DEF LaidOut
<1> QED BY <1>7 DEF args

\* An array pattern at a length takes the elements its prefix and its suffix
\* take.
LEMMA AtLengthTakes ==
  ASSUME NEW h \in Patterns, h.kind = "array", NEW n \in Nat, FitsLength(h, n),
         NEW k \in Nat, NEW l \in Nat, Sizes(h, k, l),
         NEW a \in Seq(Values), Len(a) = n
  PROVE  TakesAll(AtLength(h, n), a) <=>
           /\ \A i \in 1 .. k : Tests[h.prefix[i]][a[i]]
           /\ \A i \in 1 .. l : Tests[h.suffix[i]][a[n - l + i]]
<1> DEFINE args == AtLength(h, n)
<1>1. /\ Len(args) = n
      /\ \A i \in 1 .. k : i \in 1 .. n /\ args[i] = h.prefix[i]
      /\ \A i \in 1 .. l : n - l + i \in 1 .. n /\ args[n - l + i] = h.suffix[i]
      /\ \A i \in 1 .. n : \/ i \in 1 .. k
                           \/ \E j \in 1 .. l : i = n - l + j
                           \/ args[i] = Irrefutable
  <2>1. LaidOut(args, h, n, k, l) BY AtLengthIs
  <2> HIDE DEF args
  <2> QED BY <2>1 DEF LaidOut
<1>2. \A i \in 1 .. n : a[i] \in Values OBVIOUS
<1> HIDE DEF args
<1>3. ASSUME TakesAll(args, a)
      PROVE  /\ \A i \in 1 .. k : Tests[h.prefix[i]][a[i]]
             /\ \A i \in 1 .. l : Tests[h.suffix[i]][a[n - l + i]]
  <2>1. \A i \in 1 .. n : Tests[args[i]][a[i]] BY <1>1, <1>3 DEF TakesAll
  <2>2. \A i \in 1 .. k : Tests[h.prefix[i]][a[i]] BY <2>1, <1>1
  <2>3. \A i \in 1 .. l : Tests[h.suffix[i]][a[n - l + i]] BY <2>1, <1>1
  <2> QED BY <2>2, <2>3
<1>4. ASSUME \A i \in 1 .. k : Tests[h.prefix[i]][a[i]],
             \A i \in 1 .. l : Tests[h.suffix[i]][a[n - l + i]]
      PROVE  TakesAll(args, a)
  <2> SUFFICES ASSUME NEW i \in 1 .. n PROVE Tests[args[i]][a[i]] BY <1>1 DEF TakesAll
  <2>1. CASE i \in 1 .. k BY <2>1, <1>1, <1>4
  <2>2. ASSUME NEW j \in 1 .. l, i = n - l + j PROVE Tests[args[i]][a[i]]
    BY <2>2, <1>1, <1>4
  <2>3. CASE args[i] = Irrefutable BY <2>3, <1>2, WildcardTakes
  <2> QED BY <2>1, <2>2, <2>3, <1>1
<1> QED BY <1>3, <1>4 DEF args

\* The elements that represent those of a longer array.
LooksLike(b, m, a, n, arrays) ==
  \A h \in arrays : /\ FitsLength(h, m) <=> FitsLength(h, n)
                    /\ FitsLength(h, n) =>
                         (TakesAll(AtLength(h, m), b) <=> TakesAll(AtLength(h, n), a))

\* If a length represents another, to each array of that length belongs a
\* shorter one that looks like it to all the patterns: the elements that no
\* pattern looks at are left out.
LEMMA Shrunk ==
  ASSUME NEW t \in Types, Shape[t].kind = "array", NEW arrays, arrays \subseteq Patterns,
         \A h \in arrays : h.kind = "array", NEW n \in Nat, NEW m \in Nat, Represents(m, n, arrays),
         NEW a, IsVector(a, ElementTypes(t, n))
  PROVE  \E b : IsVector(b, ElementTypes(t, m)) /\ LooksLike(b, m, a, n, arrays)
<1>1. \A h \in arrays : FitsLength(h, m) <=> FitsLength(h, n) BY DEF Represents
<1>2. CASE m = n BY <1>1, <1>2 DEF LooksLike
<1>3. CASE m # n
  <2>1. m <= n BY DEF Represents
  <2>2. PICK c \in 0 .. m : \A h \in arrays : FitsLength(h, n) => Len(h.prefix) <= c /\ Len(h.suffix) <= m - c
    BY <1>3 DEF Represents
  <2> DEFINE b == [i \in 1 .. m |-> IF i <= c THEN a[i] ELSE a[i + (n - m)]]
             e == Shape[t].element
  <2>3. /\ ElementTypes(t, n) \in Seq(Types) /\ Len(ElementTypes(t, n)) = n
        /\ ElementTypes(t, m) \in Seq(Types) /\ Len(ElementTypes(t, m)) = m
        /\ \A i \in 1 .. n : ElementTypes(t, n)[i] = e
        /\ \A i \in 1 .. m : ElementTypes(t, m)[i] = e
    BY ArrayTypes
  <2>4. a \in Seq(Values) /\ Len(a) = n /\ \A i \in 1 .. n : a[i] \in ValuesOf[e] /\ a[i] \in Values
    BY <2>3, VectorIs
  <2>5. /\ \A i \in 1 .. m : i <= c => i \in 1 .. n /\ b[i] = a[i]
        /\ \A i \in 1 .. m : ~(i <= c) => i + (n - m) \in 1 .. n /\ b[i] = a[i + (n - m)]
        /\ b = [i \in 1 .. m |-> b[i]]
    BY <2>1
  <2> HIDE DEF b, e
  <2>6. \A i \in 1 .. m : b[i] \in ValuesOf[e] /\ b[i] \in Values
    <3> TAKE i \in 1 .. m
    <3>1. CASE i <= c BY <3>1, <2>4, <2>5
    <3>2. CASE ~(i <= c) BY <3>2, <2>4, <2>5
    <3> QED BY <3>1, <3>2
  <2>7. b \in Seq(Values) /\ Len(b) = m BY <2>5, <2>6
  <2>8. IsVector(b, ElementTypes(t, m)) BY <2>3, <2>6, <2>7, VectorIs
  <2>9. ASSUME NEW h \in arrays, FitsLength(h, n)
        PROVE  TakesAll(AtLength(h, m), b) <=> TakesAll(AtLength(h, n), a)
    <3>1. h \in Patterns /\ h.kind = "array" /\ FitsLength(h, m) BY <2>9, <1>1
    <3>2. h.prefix \in Seq(Patterns) /\ h.suffix \in Seq(Patterns) BY <3>1, PatternKinds
    <3>3. PICK k \in Nat : k = Len(h.prefix) BY <3>2
    <3>4. PICK l \in Nat : l = Len(h.suffix) BY <3>2
    <3>10. Sizes(h, k, l) BY <3>3, <3>4 DEF Sizes
    <3>5. TakesAll(AtLength(h, n), a) <=>
            /\ \A i \in 1 .. k : Tests[h.prefix[i]][a[i]]
            /\ \A i \in 1 .. l : Tests[h.suffix[i]][a[n - l + i]]
      BY <3>1, <3>10, <2>4, <2>9, AtLengthTakes
    <3>6. TakesAll(AtLength(h, m), b) <=>
            /\ \A i \in 1 .. k : Tests[h.prefix[i]][b[i]]
            /\ \A i \in 1 .. l : Tests[h.suffix[i]][b[m - l + i]]
      BY <3>1, <3>10, <2>7, AtLengthTakes
    <3>7. k <= c /\ l <= m - c BY <2>2, <2>9, <3>3, <3>4
    <3>8. \A i \in 1 .. k : b[i] = a[i]
      <4> TAKE i \in 1 .. k
      <4>1. i \in 1 .. m /\ i <= c BY <3>7
      <4> QED BY <4>1, <2>5
    <3>9. \A i \in 1 .. l : b[m - l + i] = a[n - l + i]
      <4> TAKE i \in 1 .. l
      <4>1. m - l + i \in 1 .. m /\ ~(m - l + i <= c) /\ (m - l + i) + (n - m) = n - l + i BY <3>7
      <4> QED BY <4>1, <2>5
    <3> QED BY <3>5, <3>6, <3>8, <3>9
  <2>10. LooksLike(b, m, a, n, arrays) BY <2>9, <1>1 DEF LooksLike
  <2> QED BY <2>8, <2>10
<1> QED BY <1>2, <1>3

\* The lengths that are tried contain what each pattern writes, and with more
\* patterns more lengths are tried.
LEMMA LengthsAre ==
  ASSUME NEW arrays, arrays \subseteq Patterns, \A h \in arrays : h.kind = "array"
  PROVE  /\ RepresentativeLengths(arrays) \subseteq Nat
         /\ \A h \in arrays : Written(h) \in RepresentativeLengths(arrays)
         /\ \A fewer \in SUBSET arrays : RepresentativeLengths(fewer) \subseteq RepresentativeLengths(arrays)
<1> DEFINE P(some) == {0} \cup {Len(h.prefix) : h \in some}
           S(some) == {0} \cup {Len(h.suffix) : h \in some}
<1>1. \A some : RepresentativeLengths(some) = {p + s + k : p \in P(some), s \in S(some), k \in {0, 1}}
  BY DEF RepresentativeLengths
<1>2. \A h \in arrays : Len(h.prefix) \in Nat /\ Len(h.suffix) \in Nat BY PatternKinds
<1>3. P(arrays) \subseteq Nat /\ S(arrays) \subseteq Nat BY <1>2
<1>4. \A h \in arrays : Len(h.prefix) \in P(arrays) /\ Len(h.suffix) \in S(arrays) OBVIOUS
<1>5. \A fewer \in SUBSET arrays : P(fewer) \subseteq P(arrays) /\ S(fewer) \subseteq S(arrays) OBVIOUS
<1>6. \A some : \A n : n \in RepresentativeLengths(some) <=>
                         \E p \in P(some) : \E s \in S(some) : \E k \in {0, 1} : n = p + s + k
  <2> HIDE DEF P, S
  <2> QED BY <1>1
<1> HIDE DEF P, S
<1>7. RepresentativeLengths(arrays) \subseteq Nat
  <2> SUFFICES ASSUME NEW n \in RepresentativeLengths(arrays) PROVE n \in Nat OBVIOUS
  <2>1. PICK p \in P(arrays) : \E s \in S(arrays) : \E k \in {0, 1} : n = p + s + k BY <1>6
  <2>2. PICK s \in S(arrays) : \E k \in {0, 1} : n = p + s + k BY <2>1
  <2>3. p \in Nat /\ s \in Nat BY <1>3
  <2> QED BY <2>2, <2>3
<1>8. ASSUME NEW h \in arrays PROVE Written(h) \in RepresentativeLengths(arrays)
  <2>1. Written(h) = Len(h.prefix) + Len(h.suffix) + 0 BY <1>2 DEF Written
  <2> QED BY <2>1, <1>4, <1>6
<1>9. \A fewer \in SUBSET arrays : RepresentativeLengths(fewer) \subseteq RepresentativeLengths(arrays)
  <2> SUFFICES ASSUME NEW fewer \in SUBSET arrays, NEW n \in RepresentativeLengths(fewer)
               PROVE  n \in RepresentativeLengths(arrays)
    OBVIOUS
  <2>1. PICK p \in P(fewer) : \E s \in S(fewer) : \E k \in {0, 1} : n = p + s + k BY <1>6
  <2>2. PICK s \in S(fewer) : \E k \in {0, 1} : n = p + s + k BY <2>1
  <2>3. p \in P(arrays) /\ s \in S(arrays) BY <1>5
  <2> QED BY <2>2, <2>3, <1>6
<1> QED BY <1>7, <1>8, <1>9

\* The arrays that stand first in a question are patterns of the type.
LEMMA ArraysAre ==
  ASSUME NEW types \in Seq(Types), types # << >>, Shape[Head(types)].kind = "array",
         NEW matrix, TypedRows(matrix, types), NEW head \in Patterns, WellFormed[head][Head(types)]
  PROVE  /\ Arrays(matrix, head) \subseteq ArrayPatterns(Head(types))
         /\ head.kind = "array" => head \in Arrays(matrix, head)
         /\ \A row \in Expanded(matrix) : Head(row) = Irrefutable \/ Head(row) \in Arrays(matrix, head)
<1> DEFINE t == Head(types)
           all == {Head(row) : row \in Expanded(matrix)} \cup {head}
<1>1. ASSUME NEW row \in Expanded(matrix)
      PROVE  /\ Head(row) \in Patterns /\ WellFormed[Head(row)][t]
             /\ Head(row) = Irrefutable \/ Head(row).kind = "array"
  <2>1. TypedRow(row, types) /\ Head(row).kind # "alternation" BY ExpandedRows DEF TypedRows
  <2>2. Head(row) \in Patterns /\ WellFormed[Head(row)][t] BY <2>1, RowParts
  <2>3. Head(row).kind \in {"irrefutable", "array"} BY <2>1, <2>2, TypesParts, ArrayHead
  <2> QED BY <2>2, <2>3, PatternKinds
<1>2. \A h \in all : h \in Patterns /\ WellFormed[h][t]
  <2> SUFFICES ASSUME NEW h \in all PROVE h \in Patterns /\ WellFormed[h][t] OBVIOUS
  <2>1. CASE h = head BY <2>1
  <2>2. CASE \E row \in Expanded(matrix) : h = Head(row) BY <2>2, <1>1
  <2> QED BY <2>1, <2>2
<1>3. \A h : h \in Arrays(matrix, head) <=> h \in all /\ h.kind = "array" BY DEF Arrays
<1>4. head \in all /\ \A row \in Expanded(matrix) : Head(row) \in all OBVIOUS
<1> HIDE DEF all
<1>5. Arrays(matrix, head) \subseteq ArrayPatterns(t) BY <1>2, <1>3 DEF ArrayPatterns
<1> QED BY <1>1, <1>3, <1>4, <1>5

\* Each length a value may have is represented by one that is tried.
LEMMA LengthsRepresent ==
  ASSUME LengthsSuffice, NEW types \in Seq(Types), types # << >>, Shape[Head(types)].kind = "array",
         NEW matrix, TypedRows(matrix, types), NEW head \in Patterns, WellFormed[head][Head(types)],
         head.kind \in {"irrefutable", "array"},
         NEW v \in ValuesOf[Head(types)], FitsLength(head, Len(v.arguments))
  PROVE  \E m \in Lengths(matrix, head, Head(types)) :
           FitsLength(head, m) /\ Represents(m, Len(v.arguments), Arrays(matrix, head))
<1> DEFINE t      == Head(types)
           arrays == Arrays(matrix, head)
<1>1. t \in Types BY TypesParts
<1>2. PICK n \in Nat : n = Len(v.arguments) BY <1>1, ArrayValue
<1>3. arrays \subseteq ArrayPatterns(t) /\ (head.kind = "array" => head \in arrays) BY ArraysAre
<1>4. FitsLength(head, n) BY <1>2
<1>5. CASE Shape[t].length # Growable
  <2>1. Shape[t].length = n BY <1>1, <1>2, <1>5, ArrayValue
  <2>2. n \in Lengths(matrix, head, t) BY <1>5, <2>1 DEF Lengths
  <2>3. Represents(n, n, arrays) BY DEF Represents
  <2> QED BY <1>2, <1>4, <2>2, <2>3
<1>6. CASE Shape[t].length = Growable
  <2> HIDE DEF arrays, t
  <2>1. PICK m \in RepresentativeLengths(arrays) : Represents(m, n, arrays)
    BY <1>1, <1>2, <1>3, <1>6 DEF LengthsSuffice, t
  <2>2. arrays \subseteq Patterns /\ \A h \in arrays : h.kind = "array" BY <1>3 DEF ArrayPatterns
  <2>3. m \in Nat BY <2>2, LengthsAre
  <2>4. CASE head.kind = "irrefutable"
    <3>1. head = Irrefutable BY <2>4, PatternKinds
    <3>2. m \in Lengths(matrix, head, t) BY <1>6, <2>1, <3>1 DEF Lengths, arrays
    <3>3. FitsLength(head, m) BY <3>1 DEF FitsLength
    <3> QED BY <2>1, <3>2, <3>3, <1>2 DEF arrays, t
  <2>5. CASE head.kind = "array"
    <3>1. FitsLength(head, m) BY <1>3, <1>4, <2>1, <2>5 DEF Represents
    <3>2. head # Irrefutable /\ head.rest \in BOOLEAN BY <2>5, WildcardTakes, PatternKinds
    <3>3. IF head.rest THEN Written(head) <= m ELSE Written(head) = m
      BY <3>1, <3>2, <2>5 DEF FitsLength
    <3>4. Written(head) \in Nat BY <1>3, <2>2, <2>5, LengthsAre
    <3>5. m \in Lengths(matrix, head, t)
      BY <1>6, <2>1, <2>3, <2>5, <3>2, <3>3, <3>4 DEF Lengths, arrays
    <3> QED BY <2>1, <3>1, <3>5, <1>2 DEF arrays, t
  <2> QED BY <2>4, <2>5
<1> QED BY <1>5, <1>6

\* The lengths that are tried are among those of the patterns of the type, and
\* of arrays the program may meet.
LEMMA LengthsTried ==
  ASSUME NEW types \in Seq(Types), types # << >>, Shape[Head(types)].kind = "array",
         NEW matrix, TypedRows(matrix, types), NEW head \in Patterns, WellFormed[head][Head(types)],
         NEW m \in Lengths(matrix, head, Head(types))
  PROVE  /\ m \in Nat /\ m \in TriedLengths(Head(types))
         /\ AllComplete => \A a \in Vectors(ElementTypes(Head(types), m)) :
                             [con |-> <<"array">>, arguments |-> a] \in ValuesOf[Head(types)]
<1> DEFINE t      == Head(types)
           arrays == Arrays(matrix, head)
           lengths == TriedLengths(t)
<1>1. t \in Types /\ Shape[t].length \in Nat \cup {Growable}
  <2>1. 0 \in Nat /\ t \in Types BY TypesParts
  <2> QED BY <2>1, ArrayTypes
<1>2. arrays \subseteq ArrayPatterns(t) /\ (head.kind = "array" => head \in arrays) BY ArraysAre
<1>3. /\ arrays \subseteq Patterns /\ \A h \in arrays : h.kind = "array"
      /\ ArrayPatterns(t) \subseteq Patterns /\ \A h \in ArrayPatterns(t) : h.kind = "array"
  BY <1>2 DEF ArrayPatterns
<1>4. m \in lengths /\ m \in Nat
  <2>1. CASE Shape[t].length # Growable BY <2>1, <1>1 DEF Lengths, TriedLengths
  <2>2. CASE Shape[t].length = Growable
    <3>1. m \in RepresentativeLengths(arrays)
      <4>1. head.kind = "array" => Written(head) \in RepresentativeLengths(arrays)
        BY <1>2, <1>3, LengthsAre
      <4> HIDE DEF arrays
      <4> QED BY <2>2, <4>1, WildcardTakes DEF Lengths, arrays
    <3>2. RepresentativeLengths(arrays) \subseteq RepresentativeLengths(ArrayPatterns(t))
      BY <1>2, <1>3, LengthsAre
    <3>3. RepresentativeLengths(arrays) \subseteq Nat BY <1>3, LengthsAre
    <3> QED BY <2>2, <3>1, <3>2, <3>3 DEF TriedLengths
  <2> QED BY <2>1, <2>2
<1>5. ASSUME AllComplete, NEW a \in Vectors(ElementTypes(t, m))
      PROVE  [con |-> <<"array">>, arguments |-> a] \in ValuesOf[t]
  <2>1. IsComplete(t) BY <1>1, <1>5 DEF AllComplete
  <2>2. \A n \in lengths : \A b \in Vectors(ElementTypes(t, n)) :
          [con |-> <<"array">>, arguments |-> b] \in ValuesOf[t]
    BY <2>1 DEF IsComplete, ElementTypes, TriedLengths
  <2> HIDE DEF lengths
  <2> QED BY <2>2, <1>4, <1>5
<1> QED BY <1>4, <1>5

\* The answer for an array type is right if those one call deeper are and the
\* lengths suffice (useful_array_witness).
LEMMA ArrayRight ==
  ASSUME LengthsSuffice, NEW deeper, AllRight(deeper), NEW q, TypedQuestion(q), q.candidate # << >>,
         Shape[Head(q.types)].kind = "array", Head(q.candidate).kind # "alternation"
  PROVE  Right(q, ArrayWitness(deeper, q))
<1> DEFINE t       == Head(q.types)
           head    == Head(q.candidate)
           arrays  == Arrays(q.matrix, head)
           lengths == {n \in Lengths(q.matrix, head, t) : FitsLength(head, n)}
           of(n)   == ElementTypes(t, n)
           args(n) == AtLength(head, n)
           matrix(n) == SpecializeArrayMatrix(q.matrix, n)
           p(n)    == Question(matrix(n), args(n) \o Tail(q.candidate), of(n) \o Tail(q.types))
           answer(n) == Gather(deeper[p(n)], Array(SubSeq(deeper[p(n)].witness, 1, n), FALSE, << >>), n)
           tries   == {Attempt(n, answer(n)) : n \in lengths}
<1>1. /\ q.types \in Seq(Types) /\ q.types # << >> /\ t \in Types /\ Tail(q.types) \in Seq(Types)
      /\ TypedRow(q.candidate, q.types) /\ TypedRows(q.matrix, q.types)
      /\ TypedRow(Tail(q.candidate), Tail(q.types))
      /\ head \in Patterns /\ WellFormed[head][t]
  BY FirstColumn
<1>2. head.kind \in {"irrefutable", "array"}
  <2>1. 0 \in Nat OBVIOUS
  <2> QED BY <2>1, <1>1, ArrayHead
<1>3. ArrayWitness(deeper, q) = First(tries) BY DEF ArrayWitness, ElementTypes
<1>4. /\ \A n \in lengths : \E b \in tries : b.answer = answer(n)
      /\ \A b \in tries : \E n \in lengths : b.answer = answer(n) /\ b.at = n
  <2> HIDE DEF answer, lengths
  <2>1. \A n \in lengths : Attempt(n, answer(n)) \in tries /\ Attempt(n, answer(n)).answer = answer(n) BY DEF Attempt
  <2>2. \A b \in tries : \E n \in lengths : b.answer = answer(n) /\ b.at = n BY DEF Attempt
  <2> HIDE DEF tries
  <2> QED BY <2>1, <2>2
<1>5. \A n : answer(n).found = deeper[p(n)].found BY GatherIs
<1> HIDE DEF answer, tries
<1>6. ASSUME NEW n \in lengths
      PROVE  /\ n \in Nat /\ FitsLength(head, n)
             /\ AllComplete => \A a \in Vectors(of(n)) : [con |-> <<"array">>, arguments |-> a] \in ValuesOf[t]
  <2>1. n \in Lengths(q.matrix, head, t) /\ FitsLength(head, n) OBVIOUS
  <2> HIDE DEF lengths
  <2> QED BY <2>1, <1>1, LengthsTried
<1>7. ASSUME NEW n \in lengths
      PROVE  /\ of(n) \in Seq(Types) /\ Len(of(n)) = n /\ TypedRow(args(n), of(n))
             /\ Asks(p(n), matrix(n), args(n) \o Tail(q.candidate), of(n) \o Tail(q.types))
             /\ Right(p(n), deeper[p(n)])
  <2>1. n \in Nat /\ FitsLength(head, n) BY <1>6
  <2>2. of(n) \in Seq(Types) /\ Len(of(n)) = n BY <2>1, <1>1, ArrayTypes
  <2>3. TypedRow(args(n), of(n)) BY <1>1, <1>2, <2>1, ArrayHead
  <2>4. TypedRows(matrix(n), of(n) \o Tail(q.types)) BY <1>1, <2>1, SpecializedArrays
  <2> HIDE DEF of, args, matrix
  <2>5. TypedRow(args(n) \o Tail(q.candidate), of(n) \o Tail(q.types)) BY <1>1, <2>2, <2>3, ConcatRow
  <2>6. of(n) \o Tail(q.types) \in Seq(Types) BY <1>1, <2>2
  <2>7. Asks(p(n), matrix(n), args(n) \o Tail(q.candidate), of(n) \o Tail(q.types))
    BY <2>4, <2>5, <2>6, QuestionIs
  <2> HIDE DEF p
  <2>8. Right(p(n), deeper[p(n)]) BY <2>7 DEF AllRight, Asks
  <2> QED BY <2>2, <2>3, <2>7, <2>8
<1>8. /\ First(tries).found = "no" => \A b \in tries : b.answer.found = "no"
      /\ First(tries).found \notin {"no", "endless"} => \E b \in tries : b.answer.found \notin {"no", "endless"}
  <2>1. \A n \in lengths : n \in Int /\ 0 <= n BY <1>6
  <2> HIDE DEF lengths
  <2>2. \A b \in tries : b.at \in Int /\ 0 <= b.at BY <1>4, <2>1
  <2> QED BY <2>2, FirstIs
<1>9. ASSUME First(tries).found = "no", NEW v \in ValuesOf[t], Tests[head][v] PROVE Settled(q, v)
  <2> SUFFICES ASSUME NEW ws, IsVector(ws, Tail(q.types)), TakesAll(q.candidate, <<v>> \o ws)
               PROVE  Taken(q.matrix, <<v>> \o ws)
    BY DEF Settled
  <2>1. PICK n \in Nat : n = Len(v.arguments) BY <1>1, ArrayValue
  <2>2. PICK a : a = v.arguments OBVIOUS
  <2>3. IsVector(a, of(n)) /\ a \in Seq(Values) /\ Len(a) = n BY <1>1, <2>1, <2>2, ArrayValue
  <2>4. ASSUME NEW h \in Patterns, h.kind # "alternation", WellFormed[h][t]
        PROVE  /\ FitsLength(h, n) => (Tests[h][v] <=> TakesAll(AtLength(h, n), a))
               /\ ~FitsLength(h, n) => ~Tests[h][v]
    BY <2>1, <2>2, <2>4, <1>1, ArrayHead
  <2>5. FitsLength(head, n) BY <1>1, <1>9, <2>4
  <2>6. PICK m \in lengths : Represents(m, n, arrays)
    BY <1>1, <1>2, <2>1, <2>5, LengthsRepresent
  <2>7. m \in Nat /\ FitsLength(head, m) BY <1>6
  <2>8. /\ arrays \subseteq Patterns /\ \A h \in arrays : h.kind = "array"
        /\ head.kind = "array" => head \in arrays
        /\ \A row \in Expanded(q.matrix) : Head(row) = Irrefutable \/ Head(row) \in arrays
    BY <1>1, ArraysAre DEF ArrayPatterns
  <2>9. PICK b : IsVector(b, of(m)) /\ LooksLike(b, m, a, n, arrays)
    <3> HIDE DEF arrays, lengths
    <3> QED BY <1>1, <2>3, <2>6, <2>7, <2>8, Shrunk
  <2>10. ASSUME NEW r \in Nat, NEW c, IsVector(c, of(r)) PROVE TakesAll(AtLength(Irrefutable, r), c)
    <3>1. \A i \in 1 .. r : AtLength(Irrefutable, r)[i] = Irrefutable BY DEF AtLength
    <3>2. Len(AtLength(Irrefutable, r)) = r BY DEF AtLength
    <3>3. of(r) \in Seq(Types) /\ Len(of(r)) = r BY <1>1, <2>10, ArrayTypes
    <3>4. c \in Seq(Values) /\ Len(c) = r BY <2>10, <3>3, VectorIs
    <3>5. \A i \in 1 .. r : c[i] \in Values BY <3>4
    <3> QED BY <3>1, <3>2, <3>5, WildcardTakes DEF TakesAll
  <2> HIDE DEF arrays, lengths
  <2>11. ASSUME NEW h, h = Irrefutable \/ h \in arrays
         PROVE  /\ FitsLength(h, m) <=> FitsLength(h, n)
                /\ FitsLength(h, n) => (TakesAll(AtLength(h, m), b) <=> TakesAll(AtLength(h, n), a))
    <3>1. CASE h = Irrefutable
      <4>1. FitsLength(h, m) /\ FitsLength(h, n) BY <3>1 DEF FitsLength
      <4> QED BY <4>1, <3>1, <2>3, <2>7, <2>9, <2>10
    <3>2. CASE h \in arrays BY <3>2, <2>9 DEF LooksLike
    <3> QED BY <3>1, <3>2, <2>11
  <2>12. Tests[head][v] /\ TakesAll(Tail(q.candidate), ws) BY <1>1, RowTakes
  <2>13. TakesAll(args(m), b)
    <3>1. TakesAll(AtLength(head, n), a) BY <1>1, <2>4, <2>5, <2>12, <1>2
    <3>2. head = Irrefutable \/ head \in arrays BY <1>1, <1>2, <2>8, PatternKinds
    <3> QED BY <3>1, <3>2, <2>5, <2>11
  <2>14. /\ of(m) \in Seq(Types) /\ args(m) \in Seq(Patterns) /\ Len(args(m)) = Len(of(m))
         /\ Tail(q.candidate) \in Seq(Patterns) /\ Len(Tail(q.candidate)) = Len(Tail(q.types))
    BY <1>1, <1>7 DEF TypedRow
  <2>15. /\ b \in Seq(Values) /\ Len(b) = Len(of(m)) /\ ws \in Seq(Values) /\ Len(ws) = Len(Tail(q.types))
    BY <1>1, <2>9, <2>14, VectorIs
  <2>16. TakesAll(args(m) \o Tail(q.candidate), b \o ws)
    BY <2>12, <2>13, <2>14, <2>15, ConcatTakes
  <2>17. IsVector(b \o ws, of(m) \o Tail(q.types)) BY <1>1, <2>9, <2>14, ConcatVector
  <2>18. deeper[p(m)].found = "no" BY <1>4, <1>5, <1>8, <1>9
  <2>19. Taken(matrix(m), b \o ws) BY <2>16, <2>17, <2>18, <1>7 DEF Right, Sound, Asks
  <2>20. PICK r \in matrix(m) : TakesAll(r, b \o ws) BY <2>19 DEF Taken
  <2>21. PICK row \in Expanded(q.matrix) : FitsLength(Head(row), m) /\ r = AtLength(Head(row), m) \o Tail(row)
    BY DEF SpecializeArrayMatrix
  <2>22. /\ TypedRow(row, q.types) /\ Head(row).kind # "alternation" BY <1>1, ExpandedRows DEF TypedRows
  <2>23. Head(row) \in Patterns /\ WellFormed[Head(row)][t] /\ TypedRow(Tail(row), Tail(q.types))
    BY <1>1, <2>22, RowParts
  <2>24. TypedRow(AtLength(Head(row), m), of(m)) BY <1>1, <2>7, <2>21, <2>22, <2>23, ArrayHead
  <2>25. TakesAll(AtLength(Head(row), m), b) /\ TakesAll(Tail(row), ws)
    <3>1. /\ AtLength(Head(row), m) \in Seq(Patterns) /\ Len(AtLength(Head(row), m)) = Len(b)
          /\ Tail(row) \in Seq(Patterns) /\ Len(Tail(row)) = Len(ws)
      BY <2>15, <2>23, <2>24 DEF TypedRow
    <3> QED BY <3>1, <2>15, <2>20, <2>21, ConcatTakes
  <2>26. FitsLength(Head(row), n) /\ TakesAll(AtLength(Head(row), n), a) BY <2>8, <2>11, <2>21, <2>25
  <2>27. Tests[Head(row)][v] BY <2>4, <2>22, <2>23, <2>26
  <2>28. TakesAll(row, <<v>> \o ws) BY <1>1, <2>22, <2>25, <2>27, RowTakes
  <2>29. IsVector(<<v>> \o ws, q.types) BY <1>1, VectorWith
  <2>30. Taken(Expanded(q.matrix), <<v>> \o ws) BY <2>28 DEF Taken
  <2> QED BY <2>29, <2>30, <1>1, ExpandedRows
<1>10. ASSUME AllComplete, First(tries).found \notin {"no", "endless"} PROVE Answered(q)
  <2> HIDE DEF lengths
  <2>1. PICK b \in tries : b.answer.found \notin {"no", "endless"} BY <1>8, <1>10
  <2>2. PICK n \in lengths : b.answer = answer(n) BY <1>4
  <2>3. PICK vs : /\ IsVector(vs, of(n) \o Tail(q.types)) /\ TakesAll(args(n) \o Tail(q.candidate), vs)
                  /\ ~Taken(matrix(n), vs)
    <3> HIDE DEF p, matrix, of, args
    <3> QED BY <2>1, <2>2, <1>5, <1>7, <1>10 DEF Right, Complete, Asks
  <2>4. Splits(vs, of(n), Tail(q.types)) BY <2>3, <1>1, <1>7, SplitVector
  <2>5. PICK a, ws : IsVector(a, of(n)) /\ IsVector(ws, Tail(q.types)) /\ vs = a \o ws
    BY <2>4 DEF Splits
  <2>6. PICK v : v = [con |-> <<"array">>, arguments |-> a] OBVIOUS
  <2>7. v.arguments = a BY <2>6
  <2>8. v \in ValuesOf[t] BY <2>5, <2>6, <1>6, <1>7, <1>10, VectorsAre
  <2>9. n \in Nat /\ FitsLength(head, n) /\ Len(v.arguments) = n BY <2>5, <2>7, <1>6, <1>7, VectorIs
  <2>10. Tests[head][v] <=> TakesAll(args(n), v.arguments) BY <1>1, <1>2, <2>8, <2>9, ArrayHead
  <2>11. TakesAll(q.candidate, <<v>> \o ws)
    <3>1. IsVector(v.arguments, of(n)) BY <2>5, <2>7
    <3> HIDE DEF of, args
    <3>2. TakesAll(q.candidate, <<v>> \o ws) <=> TakesAll(args(n) \o Tail(q.candidate), v.arguments \o ws)
      BY <3>1, <1>1, <1>7, <2>5, <2>8, <2>10, SpecializedCandidate
    <3> QED BY <3>2, <2>3, <2>5, <2>7
  <2>12. ~Taken(q.matrix, <<v>> \o ws)
    <3>1. Taken(q.matrix, <<v>> \o ws) <=> Taken(matrix(n), v.arguments \o ws)
      BY <1>1, <2>5, <2>8, <2>9, SpecializedArrays
    <3> QED BY <3>1, <2>3, <2>5, <2>7
  <2> QED BY <2>5, <2>8, <2>11, <2>12 DEF Answered
<1> HIDE DEF t, head
<1> QED BY <1>1, <1>3, <1>9, <1>10, RightByFirst DEF t, head

\* From right answers one call deeper comes a right answer.
LEMMA WitnessRight ==
  ASSUME LengthsSuffice, EmptyTypesAreEmpty, NEW deeper, AllRight(deeper), NEW q, TypedQuestion(q)
  PROVE  Right(q, WitnessOf(deeper, q))
<1>1. /\ q.types \in Seq(Types) /\ TypedRow(q.candidate, q.types) /\ TypedRows(q.matrix, q.types)
      /\ q.candidate \in Seq(Patterns) /\ Len(q.candidate) = Len(q.types)
  BY DEF TypedQuestion, Questions, TypedRow
<1>2. CASE CoveredByWildcards(q.matrix)
  <2>1. WitnessOf(deeper, q) = NotUseful BY <1>2 DEF WitnessOf
  <2>2. PICK row \in q.matrix : Range(row) \subseteq {Irrefutable} BY <1>2 DEF CoveredByWildcards
  <2>3. row \in Seq(Patterns) /\ Len(row) = Len(q.types) BY <1>1 DEF TypedRows, TypedRow
  <2>4. \A i \in 1 .. Len(row) : row[i] = Irrefutable
    <3>1. \A i \in 1 .. Len(row) : row[i] \in Range(row) BY <2>3 DEF Range
    <3> QED BY <3>1, <2>2
  <2>5. ASSUME NEW vs, IsVector(vs, q.types) PROVE Taken(q.matrix, vs)
    <3>1. vs \in Seq(Values) /\ Len(vs) = Len(q.types) BY <1>1, <2>5, VectorIs
    <3>2. \A i \in 1 .. Len(row) : vs[i] \in Values BY <3>1, <2>3
    <3>3. TakesAll(row, vs) BY <3>2, <2>4, WildcardTakes DEF TakesAll
    <3> QED BY <3>3 DEF Taken
  <2> QED BY <2>1, <2>5 DEF Right, Sound, Complete, NotUseful
<1>3. CASE ~CoveredByWildcards(q.matrix) /\ q.candidate = << >>
  <2>1. q.types = << >> BY <1>1, <1>3
  <2>2. IsVector(<< >>, q.types) /\ TakesAll(q.candidate, << >>)
    <3>1. IsVector(<< >>, q.types) BY <2>1 DEF IsVector, Hold
    <3>2. TakesAll(q.candidate, << >>) BY <1>3 DEF TakesAll
    <3> QED BY <3>1, <3>2
  <2>3. CASE q.matrix = {}
    <3>1. WitnessOf(deeper, q) = By(<< >>) BY <1>3, <2>3 DEF WitnessOf
    <3>2. ~Taken(q.matrix, << >>) BY <2>3 DEF Taken
    <3> QED BY <3>1, <3>2, <2>2 DEF Right, Sound, Complete, By
  <2>4. CASE q.matrix # {}
    <3>1. WitnessOf(deeper, q) = NotUseful BY <1>3, <2>4 DEF WitnessOf
    <3>2. PICK row \in q.matrix : TRUE BY <2>4
    <3>3. row \in Seq(Patterns) /\ Len(row) = 0 BY <1>1, <2>1 DEF TypedRows, TypedRow
    <3>4. \A vs : TakesAll(row, vs) BY <3>3 DEF TakesAll
    <3>5. \A vs : Taken(q.matrix, vs) BY <3>4 DEF Taken
    <3> QED BY <3>1, <3>5 DEF Right, Sound, Complete, NotUseful
  <2> QED BY <2>3, <2>4
<1>4. CASE ~CoveredByWildcards(q.matrix) /\ q.candidate # << >>
  <2> DEFINE head == Head(q.candidate)
             t    == Head(q.types)
             isInteger == Shape[t].kind = "integer" /\ ~IsEmpty(IntegerInterval(head, Domain(t)))
  <2>1. t \in Types /\ head \in Patterns /\ WellFormed[head][t] /\ q.types # << >> BY <1>4, FirstColumn
  <2>2. WitnessOf(deeper, q) =
          IF ~TypeIsInhabited(t)              THEN NotUseful
          ELSE IF head.kind = "alternation" THEN AlternationWitness(deeper, q)
          ELSE IF head.kind = "invalid"     THEN By(q.candidate)
          ELSE IF Shape[t].kind = "array"   THEN ArrayWitness(deeper, q)
          ELSE IF isInteger
               THEN IntegerWitness(deeper, q, IntegerInterval(head, Domain(t)), Domain(t))
          ELSE IF head.kind = "constructed" THEN ConstructorWitness(deeper, q, head.con)
          ELSE IF HasConstructors(t)        THEN EveryConstructorWitness(deeper, q)
          ELSE DefaultWitness(deeper, q)
    BY <1>4 DEF WitnessOf
  <2>3. CASE ~TypeIsInhabited(t)
    <3>1. WitnessOf(deeper, q) = NotUseful BY <2>2, <2>3
    <3>2. ValuesOf[t] = {} BY <2>1, <2>3 DEF EmptyTypesAreEmpty
    <3>3. \A vs : ~IsVector(vs, q.types) BY <1>1, <2>1, <3>2, VectorParts
    <3> QED BY <3>1, <3>3 DEF Right, Sound, Complete, NotUseful
  <2>4. CASE TypeIsInhabited(t) /\ head.kind = "alternation"
    BY <2>2, <2>4, <1>4, AlternationRight
  <2>5. ASSUME TypeIsInhabited(t), head.kind # "alternation" PROVE Right(q, WitnessOf(deeper, q))
    <3>1. head.kind # "invalid" BY <2>1, <2>5, HeadKinds
    <3>2. CASE Shape[t].kind = "array"
      <4>1. WitnessOf(deeper, q) = ArrayWitness(deeper, q) BY <2>2, <2>5, <3>1, <3>2
      <4> QED BY <4>1, <3>2, <2>5, <1>4, ArrayRight
    <3>3. CASE Shape[t].kind = "integer"
      <4>1. ~IsEmpty(IntegerInterval(head, Domain(t))) BY <2>1, <2>5, <3>3, IntegerHead
      <4>2. WitnessOf(deeper, q) = IntegerWitness(deeper, q, IntegerInterval(head, Domain(t)), Domain(t))
        BY <2>2, <2>5, <3>1, <3>3, <4>1
      <4>3. Right(q, IntegerWitness(deeper, q, IntegerInterval(head, Domain(t)), Domain(t)))
        BY <3>3, <2>5, <1>4, IntegerRight
      <4> QED BY <4>2, <4>3
    <3>4. CASE Shape[t].kind \notin {"array", "integer"}
      <4>1. head = Irrefutable \/ (head.kind = "constructed" /\ IsConstructor(head.con, t))
        BY <2>1, <2>5, <3>4, HeadKinds
      <4>2. CASE head.kind = "constructed"
        <5>1. WitnessOf(deeper, q) = ConstructorWitness(deeper, q, head.con)
          BY <2>2, <2>5, <3>1, <3>4, <4>2
        <5>2. head # Irrefutable BY <4>2, WildcardTakes
        <5>3. LET answer == ConstructorWitness(deeper, q, head.con)
              IN  /\ answer.found = "no" => \A v \in ValuesOf[t] : v.con = head.con => Settled(q, v)
                  /\ AllComplete /\ answer.found \notin {"no", "endless"} => Answered(q)
          BY <1>4, <2>5, <3>4, <4>1, <4>2, <5>2, ConstructorRight
        <5>4. \A v \in ValuesOf[t] : Tests[head][v] => v.con = head.con
          <6>1. \A v \in ValuesOf[t] : v \in Values BY <2>1 DEF Values
          <6> QED BY <6>1, <2>1, <4>2, TestsDef DEF TestOf
        <5> HIDE DEF head, t
        <5> QED BY <5>1, <5>3, <5>4, <1>4, RightByFirst DEF head, t
      <4>3. CASE head = Irrefutable
        <5>1. head.kind # "constructed" BY <4>3, WildcardTakes
        <5>2. CASE HasConstructors(t)
          <6>1. Shape[t].kind \in {"bool", "option", "result", "step", "struct", "enum"}
            BY <5>2, <2>5 DEF HasConstructors
          <6>2. WitnessOf(deeper, q) = EveryConstructorWitness(deeper, q)
            BY <2>2, <2>5, <3>1, <3>4, <5>1, <5>2
          <6> QED BY <6>1, <6>2, <1>4, <2>5, <4>3, EveryConstructorRight
        <5>3. CASE ~HasConstructors(t)
          <6>1. IsShape(Shape[t]) BY <2>1, TypesAreClosed
          <6>2. Shape[t].kind \in {"open", "never"} BY <5>3, <3>4, <6>1 DEF HasConstructors, IsShape
          <6>3. WitnessOf(deeper, q) = DefaultWitness(deeper, q)
            BY <2>2, <2>5, <3>1, <3>4, <5>1, <5>3
          <6>4. CASE Shape[t].kind = "open" BY <6>3, <6>4, <1>4, <4>3, DefaultRight
          <6>5. CASE Shape[t].kind = "never"
            <7>1. \A v : v \notin ValuesOf[t]
              <8> SUFFICES ASSUME NEW v \in ValuesOf[t] PROVE FALSE OBVIOUS
              <8>1. IsConstructor(v.con, t) BY <2>1, <6>5, ValueParts
              <8>2. v.con \in Range(ConstructorsOf(t)) BY <8>1, <6>5 DEF IsConstructor
              <8>3. ConstructorsOf(t) = << >> BY <6>5 DEF ConstructorsOf
              <8>4. Range(<< >>) = {} BY DEF Range
              <8> QED BY <8>2, <8>3, <8>4
            <7>2. ~AllComplete BY <7>1, <2>1, <2>5 DEF AllComplete
            <7>3. \A vs : ~IsVector(vs, q.types) BY <1>1, <2>1, <7>1, VectorParts
            <7> QED BY <7>2, <7>3 DEF Right, Sound, Complete
          <6> QED BY <6>2, <6>4, <6>5
        <5> QED BY <5>2, <5>3
      <4> QED BY <4>1, <4>2, <4>3
    <3> QED BY <3>2, <3>3, <3>4
  <2> QED BY <2>3, <2>4, <2>5
<1> QED BY <1>2, <1>3, <1>4

\* Every answer of the analysis to a well-formed question is right.
THEOREM UsefulWitnessRight ==
  ASSUME LengthsSuffice, EmptyTypesAreEmpty
  PROVE  \A d \in 0 .. MaxDepth : AllRight(UsefulWitness[d])
<1> DEFINE E == {d \in Nat : d <= MaxDepth => AllRight(UsefulWitness[d])}
<1>1. 0 \in E
  <2>1. \A q : TypedQuestion(q) => q \in Questions BY DEF TypedQuestion
  <2>2. \A q : TypedQuestion(q) => UsefulWitness[0][q] = NoEnd BY <2>1, UsefulWitnessDef
  <2>3. \A q : TypedQuestion(q) => Right(q, UsefulWitness[0][q])
    BY <2>2 DEF Right, Sound, Complete, NoEnd
  <2> QED BY <2>3 DEF AllRight
<1>2. ASSUME NEW d \in Nat, d \in E PROVE d + 1 \in E
  <2> SUFFICES ASSUME d + 1 <= MaxDepth, NEW q, TypedQuestion(q) PROVE Right(q, UsefulWitness[d + 1][q])
    BY DEF AllRight
  <2>1. AllRight(UsefulWitness[d]) BY <1>2, DepthIsANumber
  <2>2. d + 1 \in 0 .. MaxDepth /\ d + 1 > 0 /\ (d + 1) - 1 = d BY DepthIsANumber
  <2>3. UsefulWitness[d + 1][q] = WitnessOf(UsefulWitness[d], q)
    BY <2>2, UsefulWitnessDef DEF TypedQuestion
  <2> HIDE DEF E
  <2> QED BY <2>1, <2>3, WitnessRight
<1> HIDE DEF E
<1>3. Nat \subseteq E BY <1>1, <1>2, NumberInduction
<1>4. \A d \in 0 .. MaxDepth : d \in Nat /\ d <= MaxDepth BY DepthIsANumber
<1> QED BY <1>3, <1>4 DEF E

-----------------------------------------------------------------------------
(* What is covered by a pattern. *)

\* The arguments of a well-formed pattern are well formed, and the arguments of
\* the values it may take are values of their types.
LEMMA ConstructedParts ==
  ASSUME NEW t \in Types, NEW p \in Patterns, p.kind = "constructed", WellFormed[p][t],
         NEW i \in DOMAIN p.arguments
  PROVE  LET of == ArgumentTypes(p.con, t)
         IN  /\ i \in DOMAIN of /\ of[i] \in Types /\ WellFormed[p.arguments[i]][of[i]]
             /\ \A v \in ValuesOf[t] : v.con = p.con => v.arguments[i] \in ValuesOf[of[i]]
<1> DEFINE of == ArgumentTypes(p.con, t)
<1>1. Suits(p, t) /\ \A part \in Parts(p, t) : WellFormed[part[1]][part[2]] BY WellFormedDef
<1>2. i \in DOMAIN of BY <1>1 DEF Suits
<1>3. <<p.arguments[i], of[i]>> \in Parts(p, t) BY DEF Parts
<1>4. WellFormed[p.arguments[i]][of[i]]
  <2> HIDE DEF of
  <2> QED BY <1>1, <1>3
<1>5. CASE Shape[t].kind = "integer"
  <2>1. p.con[1] = "int" BY <1>1, <1>5 DEF Suits, IsLiteral
  <2>2. of = << >> BY <2>1 DEF ArgumentTypes
  <2> QED BY <2>2, <1>2
<1>6. CASE Shape[t].kind = "array"
  <2>1. p.con \in Range(ConstructorsOf(t)) BY <1>1, <1>6 DEF Suits
  <2>2. ConstructorsOf(t) = << >> BY <1>6 DEF ConstructorsOf
  <2> QED BY <2>1, <2>2 DEF Range
<1>7. CASE Shape[t].kind \notin {"integer", "array"}
  <2>1. IsConstructor(p.con, t) BY <1>1, <1>7 DEF Suits, IsConstructor, IsLiteral
  <2>2. of \in Seq(Types) BY <2>1, ConstructorTypes
  <2>3. of[i] \in Types BY <2>2, <1>2
  <2>4. ASSUME NEW v \in ValuesOf[t], v.con = p.con PROVE v.arguments[i] \in ValuesOf[of[i]]
    <3>1. IsVector(v.arguments, of) BY <2>4, <1>7, ValueParts
    <3> HIDE DEF of
    <3>2. \A k \in 1 .. Len(of) : v.arguments[k] \in ValuesOf[of[k]] BY <3>1, <2>2, VectorIs
    <3>3. i \in 1 .. Len(of) BY <1>2, <2>2
    <3> QED BY <3>2, <3>3
  <2> QED BY <1>2, <1>4, <2>3, <2>4
<1> QED BY <1>5, <1>6, <1>7

\* In place of a pattern stands one that is as good and takes the same.
StandsFor(c, p) ==
  \A t \in Types : WellFormed[p][t] =>
    WellFormed[c][t] /\ \A v \in ValuesOf[t] : Tests[c][v] <=> Tests[p][v]

\* A constructed pattern stands for another if its arguments do.
LEMMA ConstructedStands ==
  ASSUME NEW p \in Patterns, NEW c \in Patterns, p.kind = "constructed", c.kind = "constructed",
         c.con = p.con, DOMAIN c.arguments = DOMAIN p.arguments,
         \A i \in DOMAIN p.arguments : StandsFor(c.arguments[i], p.arguments[i])
  PROVE  StandsFor(c, p)
<1> SUFFICES ASSUME NEW t \in Types, WellFormed[p][t]
             PROVE  WellFormed[c][t] /\ \A v \in ValuesOf[t] : Tests[c][v] <=> Tests[p][v]
  BY DEF StandsFor
<1> DEFINE of == ArgumentTypes(p.con, t)
<1>1. ASSUME NEW i \in DOMAIN p.arguments
      PROVE  /\ of[i] \in Types /\ WellFormed[p.arguments[i]][of[i]]
             /\ \A v \in ValuesOf[t] : v.con = p.con => v.arguments[i] \in ValuesOf[of[i]]
  BY ConstructedParts
<1>2. Suits(p, t) BY WellFormedDef
<1>3. Suits(c, t) BY <1>2 DEF Suits
<1> HIDE DEF of
<1>4. ASSUME NEW part \in Parts(c, t) PROVE WellFormed[part[1]][part[2]]
  <2>1. PICK i \in DOMAIN p.arguments : part = <<c.arguments[i], of[i]>> BY <1>4 DEF Parts, of
  <2>2. WellFormed[c.arguments[i]][of[i]] BY <1>1 DEF StandsFor
  <2> QED BY <2>1, <2>2
<1>5. WellFormed[c][t] BY <1>3, <1>4, WellFormedDef
<1>6. ASSUME NEW v \in ValuesOf[t] PROVE Tests[c][v] <=> Tests[p][v]
  <2>1. v \in Values BY DEF Values
  <2>4. Tests[p][v] <=> p.con = v.con /\ \A i \in DOMAIN p.arguments : Tests[p.arguments[i]][v.arguments[i]]
    BY <2>1, TestsDef DEF TestOf
  <2>5. Tests[c][v] <=> c.con = v.con /\ \A i \in DOMAIN c.arguments : Tests[c.arguments[i]][v.arguments[i]]
    BY <2>1, TestsDef DEF TestOf
  <2>2. /\ Tests[c][v] <=> p.con = v.con /\ \A i \in DOMAIN p.arguments : Tests[c.arguments[i]][v.arguments[i]]
        /\ Tests[p][v] <=> p.con = v.con /\ \A i \in DOMAIN p.arguments : Tests[p.arguments[i]][v.arguments[i]]
    BY <2>4, <2>5
  <2>3. ASSUME NEW i \in DOMAIN p.arguments, p.con = v.con
        PROVE  Tests[c.arguments[i]][v.arguments[i]] <=> Tests[p.arguments[i]][v.arguments[i]]
    BY <1>1, <2>3 DEF StandsFor
  <2> QED BY <2>2, <2>3
<1> QED BY <1>5, <1>6

\* An array pattern stands for another if its elements do.
LEMMA ArrayStands ==
  ASSUME NEW p \in Patterns, NEW c \in Patterns, p.kind = "array", c.kind = "array", c.rest = p.rest,
         DOMAIN c.prefix = DOMAIN p.prefix, DOMAIN c.suffix = DOMAIN p.suffix,
         \A i \in DOMAIN p.prefix : StandsFor(c.prefix[i], p.prefix[i]),
         \A i \in DOMAIN p.suffix : StandsFor(c.suffix[i], p.suffix[i])
  PROVE  StandsFor(c, p)
<1> SUFFICES ASSUME NEW t \in Types, WellFormed[p][t]
             PROVE  WellFormed[c][t] /\ \A v \in ValuesOf[t] : Tests[c][v] <=> Tests[p][v]
  BY DEF StandsFor
<1>1. /\ p.prefix \in Seq(Patterns) /\ p.suffix \in Seq(Patterns) /\ p.rest \in BOOLEAN
      /\ c.prefix \in Seq(Patterns) /\ c.suffix \in Seq(Patterns)
  BY PatternKinds
<1>2. Len(c.prefix) = Len(p.prefix) /\ Len(c.suffix) = Len(p.suffix) /\ Written(c) = Written(p)
  <2>1. /\ DOMAIN p.prefix = 1 .. Len(p.prefix) /\ DOMAIN c.prefix = 1 .. Len(c.prefix)
        /\ DOMAIN p.suffix = 1 .. Len(p.suffix) /\ DOMAIN c.suffix = 1 .. Len(c.suffix)
        /\ Len(p.prefix) \in Nat /\ Len(c.prefix) \in Nat /\ Len(p.suffix) \in Nat /\ Len(c.suffix) \in Nat
    BY <1>1
  <2>2. \A m, n \in Nat : 1 .. m = 1 .. n => m = n
    <3> SUFFICES ASSUME NEW m \in Nat, NEW n \in Nat, 1 .. m = 1 .. n PROVE m = n OBVIOUS
    <3>1. \A i \in Int : (1 <= i /\ i <= m) <=> (1 <= i /\ i <= n)
      <4>1. \A i \in Int : i \in 1 .. m <=> i \in 1 .. n OBVIOUS
      <4> QED BY <4>1
    <3>2. m \in Int /\ n \in Int OBVIOUS
    <3>3. (1 <= m => m <= n) /\ (1 <= n => n <= m) BY <3>1, <3>2
    <3> QED BY <3>3
  <2> QED BY <2>1, <2>2 DEF Written
<1>3. Suits(p, t) /\ \A part \in Parts(p, t) : WellFormed[part[1]][part[2]] BY WellFormedDef
<1>4. Shape[t].kind = "array" BY <1>3 DEF Suits
<1>5. Shape[t].element \in Types BY <1>4, TypesAreClosed DEF IsShape
<1>6. \A n : FitsLength(c, n) <=> FitsLength(p, n)
  <2>1. p # Irrefutable /\ c # Irrefutable BY DEF Irrefutable
  <2> QED BY <2>1, <1>2 DEF FitsLength
<1>7. Suits(c, t) BY <1>3, <1>6 DEF Suits
<1>8. /\ \A i \in DOMAIN p.prefix : WellFormed[p.prefix[i]][Shape[t].element]
      /\ \A i \in DOMAIN p.suffix : WellFormed[p.suffix[i]][Shape[t].element]
  <2>1. \A i \in DOMAIN p.prefix : <<p.prefix[i], Shape[t].element>> \in Parts(p, t) BY DEF Parts, Range
  <2>2. \A i \in DOMAIN p.suffix : <<p.suffix[i], Shape[t].element>> \in Parts(p, t) BY DEF Parts, Range
  <2> QED BY <2>1, <2>2, <1>3
<1>9. ASSUME NEW part \in Parts(c, t) PROVE WellFormed[part[1]][part[2]]
  <2>1. part[1] \in Range(c.prefix) \cup Range(c.suffix) /\ part[2] = Shape[t].element BY <1>9 DEF Parts
  <2>2. CASE part[1] \in Range(c.prefix)
    <3>1. PICK i \in DOMAIN p.prefix : part[1] = c.prefix[i] BY <2>2 DEF Range
    <3> QED BY <3>1, <2>1, <1>5, <1>8 DEF StandsFor
  <2>3. CASE part[1] \in Range(c.suffix)
    <3>1. PICK i \in DOMAIN p.suffix : part[1] = c.suffix[i] BY <2>3 DEF Range
    <3> QED BY <3>1, <2>1, <1>5, <1>8 DEF StandsFor
  <2> QED BY <2>1, <2>2, <2>3
<1>10. WellFormed[c][t] BY <1>7, <1>9, WellFormedDef
<1>11. ASSUME NEW v \in ValuesOf[t] PROVE Tests[c][v] <=> Tests[p][v]
  <2>1. v \in Values BY DEF Values
  <2>2. /\ v.con = <<"array">> /\ Len(v.arguments) \in Nat
        /\ \A i \in 1 .. Len(v.arguments) : v.arguments[i] \in ValuesOf[Shape[t].element]
    BY <1>4, ArrayValue
  <2> DEFINE fits == IF p.rest THEN Len(v.arguments) >= Written(p) ELSE Len(v.arguments) = Written(p)
             back(i) == Len(v.arguments) + 1 - (Len(p.suffix) - i + 1)
  <2>6. Tests[p][v] <=> /\ fits
                        /\ \A i \in DOMAIN p.prefix : Tests[p.prefix[i]][v.arguments[i]]
                        /\ \A i \in DOMAIN p.suffix : Tests[p.suffix[i]][v.arguments[back(i)]]
    BY <2>1, <2>2, TestsDef DEF TestOf
  <2>7. Tests[c][v] <=> /\ IF c.rest THEN Len(v.arguments) >= Written(c) ELSE Len(v.arguments) = Written(c)
                        /\ \A i \in DOMAIN c.prefix : Tests[c.prefix[i]][v.arguments[i]]
                        /\ \A i \in DOMAIN c.suffix :
                             Tests[c.suffix[i]][v.arguments[Len(v.arguments) + 1 - (Len(c.suffix) - i + 1)]]
    BY <2>1, <2>2, TestsDef DEF TestOf
  <2>3. /\ Tests[c][v] <=> /\ fits
                           /\ \A i \in DOMAIN p.prefix : Tests[c.prefix[i]][v.arguments[i]]
                           /\ \A i \in DOMAIN p.suffix : Tests[c.suffix[i]][v.arguments[back(i)]]
        /\ Tests[p][v] <=> /\ fits
                           /\ \A i \in DOMAIN p.prefix : Tests[p.prefix[i]][v.arguments[i]]
                           /\ \A i \in DOMAIN p.suffix : Tests[p.suffix[i]][v.arguments[back(i)]]
    BY <2>6, <2>7, <1>2
  <2>9. /\ DOMAIN p.prefix = 1 .. Len(p.prefix) /\ DOMAIN p.suffix = 1 .. Len(p.suffix)
        /\ Len(p.prefix) \in Nat /\ Len(p.suffix) \in Nat
    BY <1>1
  <2>10. PICK n \in Nat : n = Len(v.arguments) BY <2>2
  <2>11. PICK k \in Nat : k = Len(p.prefix) BY <2>9
  <2>12. PICK l \in Nat : l = Len(p.suffix) BY <2>9
  <2>8. fits => n >= k + l
    <3>1. Written(p) = k + l BY <2>11, <2>12 DEF Written
    <3>2. fits => n >= Written(p) \/ n = Written(p) BY <2>10
    <3>3. n = k + l => n >= k + l OBVIOUS
    <3> HIDE DEF fits
    <3> QED BY <3>1, <3>2, <3>3
  <2>4. ASSUME fits, NEW i \in DOMAIN p.prefix
        PROVE  Tests[c.prefix[i]][v.arguments[i]] <=> Tests[p.prefix[i]][v.arguments[i]]
    <3>2. i \in 1 .. k /\ n >= k + l BY <2>4, <2>8, <2>9, <2>11
    <3>3. i \in 1 .. n BY <3>2
    <3>1. i \in 1 .. Len(v.arguments) BY <3>3, <2>10
    <3> QED BY <3>1, <2>2, <1>5, <1>8 DEF StandsFor
  <2>5. ASSUME fits, NEW i \in DOMAIN p.suffix
        PROVE  Tests[c.suffix[i]][v.arguments[back(i)]] <=> Tests[p.suffix[i]][v.arguments[back(i)]]
    <3>2. i \in 1 .. l /\ n >= k + l BY <2>5, <2>8, <2>9, <2>12
    <3>3. n + 1 - (l - i + 1) \in 1 .. n BY <3>2
    <3>1. back(i) \in 1 .. Len(v.arguments) BY <3>3, <2>10, <2>12
    <3> HIDE DEF back
    <3> QED BY <3>1, <2>2, <1>5, <1>8 DEF StandsFor
  <2> HIDE DEF fits, back
  <2> QED BY <2>3, <2>4, <2>5
<1> QED BY <1>10, <1>11

\* An alternation is well formed if its alternatives are, and takes what they
\* take.
LEMMA AlternationParts ==
  ASSUME NEW p \in Patterns, p.kind = "alternation", NEW t \in Types
  PROVE  /\ WellFormed[p][t] <=> \A i \in DOMAIN p.alternatives : WellFormed[p.alternatives[i]][t]
         /\ \A v \in Values : Tests[p][v] <=> \E i \in DOMAIN p.alternatives : Tests[p.alternatives[i]][v]
<1>1. Suits(p, t) BY DEF Suits
<1>2. Parts(p, t) = Range(p.alternatives) \X {t} BY DEF Parts
<1>3. WellFormed[p][t] <=> \A part \in Parts(p, t) : WellFormed[part[1]][part[2]] BY <1>1, WellFormedDef
<1>4. ASSUME WellFormed[p][t], NEW i \in DOMAIN p.alternatives PROVE WellFormed[p.alternatives[i]][t]
  <2>1. <<p.alternatives[i], t>> \in Parts(p, t) BY <1>2 DEF Range
  <2> QED BY <2>1, <1>3, <1>4
<1>5. ASSUME \A i \in DOMAIN p.alternatives : WellFormed[p.alternatives[i]][t], NEW part \in Parts(p, t)
      PROVE  WellFormed[part[1]][part[2]]
  <2>1. PICK i \in DOMAIN p.alternatives : part[1] = p.alternatives[i] /\ part[2] = t BY <1>2 DEF Range
  <2> QED BY <2>1, <1>5
<1>6. \A v \in Values : Tests[p][v] <=> \E i \in DOMAIN p.alternatives : Tests[p.alternatives[i]][v]
  BY TestsDef DEF TestOf
<1>7. WellFormed[p][t] => \A i \in DOMAIN p.alternatives : WellFormed[p.alternatives[i]][t] BY <1>4
<1>8. (\A i \in DOMAIN p.alternatives : WellFormed[p.alternatives[i]][t]) => WellFormed[p][t] BY <1>3, <1>5
<1> QED BY <1>6, <1>7, <1>8

\* What is kept of a pattern for the analysis suits the types the pattern suits
\* and takes the values it takes.
LEMMA CoverageStands ==
  \A p \in Patterns : Coverage[p] \in Patterns /\ StandsFor(Coverage[p], p)
<1> DEFINE S == {p \in Patterns : StandsFor(Coverage[p], p)}
<1>0. \A p \in Patterns : Coverage[p] \in Patterns BY PatternsAreCovered
<1>1. ASSUME NEW p \in Patterns, \A q \in Inside(p) : q \in S PROVE StandsFor(Coverage[p], p)
  <2> DEFINE c == Coverage[p]
  <2>1. c \in Patterns /\ c = CoverageOf(Coverage, p) BY <1>0, CoverageDef
  <2>2. CASE p.kind = "constructed"
    <3>1. p = Constructed(p.con, p.arguments) BY <2>2, PatternKinds
    <3>2. c = [p EXCEPT !.arguments = [i \in DOMAIN p.arguments |-> Coverage[p.arguments[i]]]]
      BY <2>1, <2>2 DEF CoverageOf
    <3>3. /\ c.kind = "constructed" /\ c.con = p.con
          /\ c.arguments = [i \in DOMAIN p.arguments |-> Coverage[p.arguments[i]]]
      BY <3>1, <3>2 DEF Constructed
    <3>4. \A i \in DOMAIN p.arguments : StandsFor(Coverage[p.arguments[i]], p.arguments[i])
      BY <2>2, <1>1, InsideElements
    <3> HIDE DEF c
    <3>5. /\ DOMAIN c.arguments = DOMAIN p.arguments
          /\ \A i \in DOMAIN p.arguments : c.arguments[i] = Coverage[p.arguments[i]]
      BY <3>3
    <3>6. StandsFor(c, p) BY <2>1, <2>2, <3>3, <3>4, <3>5, ConstructedStands
    <3> QED BY <3>6 DEF c
  <2>3. CASE p.kind = "array"
    <3>1. p = Array(p.prefix, p.rest, p.suffix) BY <2>3, PatternKinds
    <3>2. c = [p EXCEPT !.prefix = [i \in DOMAIN p.prefix |-> Coverage[p.prefix[i]]],
                        !.suffix = [i \in DOMAIN p.suffix |-> Coverage[p.suffix[i]]]]
      BY <2>1, <2>3 DEF CoverageOf
    <3>3. /\ c.kind = "array" /\ c.rest = p.rest
          /\ c.prefix = [i \in DOMAIN p.prefix |-> Coverage[p.prefix[i]]]
          /\ c.suffix = [i \in DOMAIN p.suffix |-> Coverage[p.suffix[i]]]
      BY <3>1, <3>2 DEF Array
    <3>4. /\ \A i \in DOMAIN p.prefix : StandsFor(Coverage[p.prefix[i]], p.prefix[i])
          /\ \A i \in DOMAIN p.suffix : StandsFor(Coverage[p.suffix[i]], p.suffix[i])
      BY <2>3, <1>1, InsideElements
    <3> HIDE DEF c
    <3>5. /\ DOMAIN c.prefix = DOMAIN p.prefix /\ DOMAIN c.suffix = DOMAIN p.suffix
          /\ \A i \in DOMAIN p.prefix : c.prefix[i] = Coverage[p.prefix[i]]
          /\ \A i \in DOMAIN p.suffix : c.suffix[i] = Coverage[p.suffix[i]]
      BY <3>3
    <3>6. StandsFor(c, p) BY <2>1, <2>3, <3>3, <3>4, <3>5, ArrayStands
    <3> QED BY <3>6 DEF c
  <2>4. CASE p.kind = "alternation"
    <3> DEFINE all == [i \in DOMAIN p.alternatives |-> Coverage[p.alternatives[i]]]
    <3>1. c = IF Irrefutable \in Range(all) THEN Irrefutable ELSE Alternation(all)
      BY <2>1, <2>4 DEF CoverageOf
    <3>2. \A i \in DOMAIN p.alternatives : StandsFor(Coverage[p.alternatives[i]], p.alternatives[i])
      BY <2>4, <1>1, InsideElements
    <3>3. CASE Irrefutable \in Range(all)
      <4>1. PICK i \in DOMAIN p.alternatives : Coverage[p.alternatives[i]] = Irrefutable BY <3>3 DEF Range
      <4>2. c = Irrefutable BY <3>1, <3>3
      <4>3. ASSUME NEW t \in Types, WellFormed[p][t], NEW v \in ValuesOf[t] PROVE Tests[p][v]
        <5>1. v \in Values BY DEF Values
        <5>2. WellFormed[p.alternatives[i]][t] BY <2>4, <4>3, AlternationParts
        <5>3. Tests[p.alternatives[i]][v] BY <5>1, <5>2, <4>1, <3>2, WildcardTakes DEF StandsFor
        <5> QED BY <5>1, <5>3, <2>4, AlternationParts
      <4>4. \A t \in Types : \A v \in ValuesOf[t] : v \in Values BY DEF Values
      <4> HIDE DEF c
      <4>5. StandsFor(c, p) BY <4>2, <4>3, <4>4, WildcardTakes DEF StandsFor
      <4> QED BY <4>5 DEF c
    <3>4. CASE Irrefutable \notin Range(all)
      <4>1. c = Alternation(all) BY <3>1, <3>4
      <4>2. c.kind = "alternation" /\ c.alternatives = all BY <4>1 DEF Alternation
      <4>3. /\ DOMAIN c.alternatives = DOMAIN p.alternatives
            /\ \A i \in DOMAIN p.alternatives : c.alternatives[i] = Coverage[p.alternatives[i]]
        <5> HIDE DEF c
        <5> QED BY <4>2
      <4> HIDE DEF c, all
      <4> SUFFICES ASSUME NEW t \in Types, WellFormed[p][t]
                   PROVE  WellFormed[c][t] /\ \A v \in ValuesOf[t] : Tests[c][v] <=> Tests[p][v]
        BY DEF StandsFor, c
      <4>4. \A i \in DOMAIN p.alternatives : WellFormed[p.alternatives[i]][t] BY <2>4, AlternationParts
      <4>5. \A i \in DOMAIN c.alternatives : WellFormed[c.alternatives[i]][t] BY <4>3, <4>4, <3>2 DEF StandsFor
      <4>6. WellFormed[c][t] BY <4>2, <4>5, <2>1, AlternationParts
      <4>7. ASSUME NEW v \in ValuesOf[t] PROVE Tests[c][v] <=> Tests[p][v]
        <5>1. v \in Values BY DEF Values
        <5>2. \A i \in DOMAIN p.alternatives : Tests[c.alternatives[i]][v] <=> Tests[p.alternatives[i]][v]
          BY <4>3, <4>4, <3>2 DEF StandsFor
        <5>3. /\ Tests[c][v] <=> \E i \in DOMAIN c.alternatives : Tests[c.alternatives[i]][v]
              /\ Tests[p][v] <=> \E i \in DOMAIN p.alternatives : Tests[p.alternatives[i]][v]
          BY <5>1, <2>1, <2>4, <4>2, AlternationParts
        <5> QED BY <5>2, <5>3, <4>3
      <4> QED BY <4>6, <4>7
    <3> QED BY <3>3, <3>4
  <2>5. CASE p.kind = "range"
    <3> SUFFICES ASSUME NEW t \in Types, WellFormed[p][t] PROVE c = p
      BY DEF StandsFor
    <3>1. Suits(p, t) BY WellFormedDef
    <3>2. ~IsEmpty(IntegerInterval(p, p)) BY <3>1, <2>5 DEF Suits
    <3> QED BY <3>2, <2>1, <2>5 DEF CoverageOf
  <2>6. CASE p.kind \notin {"constructed", "array", "alternation", "range"}
    <3>1. c = p BY <2>1, <2>6 DEF CoverageOf
    <3> QED BY <3>1 DEF StandsFor
  <2> QED BY <2>2, <2>3, <2>4, <2>5, <2>6
<1>2. Patterns \subseteq S
  <2>1. \A p \in Patterns : (\A q \in Inside(p) : q \in S) => p \in S BY <1>1
  <2> HIDE DEF S
  <2> QED BY <2>1, PatternInduction
<1> QED BY <1>0, <1>2

-----------------------------------------------------------------------------
(* The answers for a pattern and for what is missing. *)

\* Rows and vectors of one element.
LEMMA Singletons ==
  ASSUME NEW t \in Types
  PROVE  /\ <<t>> \in Seq(Types)
         /\ \A p \in Patterns : WellFormed[p][t] => TypedRow(<<p>>, <<t>>)
         /\ \A v \in ValuesOf[t] : IsVector(<<v>>, <<t>>)
         /\ \A vs : IsVector(vs, <<t>>) => vs[1] \in ValuesOf[t] /\ vs = <<vs[1]>>
         /\ \A p, v : TakesAll(<<p>>, <<v>>) <=> Tests[p][v]
<1> DEFINE ts == <<t>>
<1>1. ts \in Seq(Types) /\ Len(ts) = 1 /\ ts[1] = t /\ \A i \in 1 .. 1 : i = 1 OBVIOUS
<1>2. \A x : Len(<<x>>) = 1 /\ <<x>>[1] = x OBVIOUS
<1>3. ASSUME NEW p \in Patterns, WellFormed[p][t] PROVE TypedRow(<<p>>, ts)
  <2>1. <<p>> \in Seq(Patterns) OBVIOUS
  <2> HIDE DEF ts
  <2> QED BY <2>1, <1>1, <1>2, <1>3 DEF TypedRow
<1>4. ASSUME NEW v \in ValuesOf[t] PROVE IsVector(<<v>>, ts)
  <2>1. v \in Values BY DEF Values
  <2>2. <<v>> \in Seq(Values) BY <2>1
  <2> HIDE DEF ts
  <2>3. \A i \in 1 .. Len(ts) : <<v>>[i] \in ValuesOf[ts[i]] BY <1>1, <1>2
  <2> QED BY <2>2, <2>3, <1>1, <1>2, VectorIs
<1>5. ASSUME NEW vs, IsVector(vs, ts) PROVE vs[1] \in ValuesOf[t] /\ vs = <<vs[1]>>
  <2> HIDE DEF ts
  <2>1. vs \in Seq(Values) /\ Len(vs) = 1 /\ vs[1] \in ValuesOf[t]
    <3>1. vs \in Seq(Values) /\ Len(vs) = Len(ts) /\ \A i \in 1 .. Len(ts) : vs[i] \in ValuesOf[ts[i]]
      BY <1>1, <1>5, VectorIs
    <3>2. 1 \in 1 .. Len(ts) BY <1>1
    <3> QED BY <3>1, <3>2, <1>1
  <2> QED BY <2>1
<1>6. ASSUME NEW p, NEW v PROVE TakesAll(<<p>>, <<v>>) <=> Tests[p][v]
  BY <1>1, <1>2 DEF TakesAll
<1> QED BY <1>1, <1>3, <1>4, <1>5, <1>6

TakenBefore(previous, v) == \E i \in DOMAIN previous : Tests[previous[i]][v]

\* An arm that is not useful takes no value the arms before it do not take; one
\* that is useful takes one, if the values are complete (pattern_is_useful).
LEMMA PatternAnswer ==
  ASSUME LengthsSuffice, EmptyTypesAreEmpty, NEW t \in Types,
         NEW previous \in Seq(Patterns), \A i \in DOMAIN previous : WellFormed[previous[i]][t],
         NEW candidate \in Patterns, WellFormed[candidate][t]
  PROVE  LET found == PatternIsUseful(previous, candidate, t).found
         IN  /\ found = "no" =>
                  \A v \in ValuesOf[t] : Tests[candidate][v] => TakenBefore(previous, v)
             /\ AllComplete /\ found \notin {"no", "endless"} =>
                  \E v \in ValuesOf[t] : Tests[candidate][v] /\ ~TakenBefore(previous, v)
<1> DEFINE matrix == {<<p>> : p \in Range(previous)}
           q      == Question(matrix, <<candidate>>, <<t>>)
           answer == UsefulWitness[MaxDepth][q]
<1>1. PatternIsUseful(previous, candidate, t) = answer BY DEF PatternIsUseful
<1>2. \A p \in Range(previous) : p \in Patterns /\ WellFormed[p][t] BY DEF Range
<1>3. TypedRows(matrix, <<t>>)
  <2>1. ASSUME NEW row \in matrix PROVE TypedRow(row, <<t>>)
    <3>1. PICK p \in Range(previous) : row = <<p>> BY <2>1
    <3> QED BY <3>1, <1>2, Singletons
  <2> HIDE DEF matrix
  <2> QED BY <2>1 DEF TypedRows
<1>4. TypedRow(<<candidate>>, <<t>>) /\ <<t>> \in Seq(Types) BY Singletons
<1>5. Asks(q, matrix, <<candidate>>, <<t>>)
  <2> HIDE DEF matrix
  <2> QED BY <1>3, <1>4, QuestionIs
<1>6. Right(q, answer)
  <2>1. MaxDepth \in 0 .. MaxDepth BY DepthIsANumber
  <2>2. AllRight(UsefulWitness[MaxDepth]) BY <2>1, UsefulWitnessRight
  <2> HIDE DEF q
  <2> QED BY <2>2, <1>5 DEF Asks, AllRight
<1>7. \A v : Taken(matrix, <<v>>) <=> TakenBefore(previous, v)
  <2> TAKE v
  <2>1. ASSUME Taken(matrix, <<v>>) PROVE TakenBefore(previous, v)
    <3>1. PICK p \in Range(previous) : TakesAll(<<p>>, <<v>>) BY <2>1 DEF Taken
    <3>2. Tests[p][v] BY <3>1, Singletons
    <3>3. PICK i \in DOMAIN previous : p = previous[i] BY DEF Range
    <3> QED BY <3>2, <3>3 DEF TakenBefore
  <2>2. ASSUME TakenBefore(previous, v) PROVE Taken(matrix, <<v>>)
    <3>1. PICK i \in DOMAIN previous : Tests[previous[i]][v] BY <2>2 DEF TakenBefore
    <3>2. previous[i] \in Range(previous) BY DEF Range
    <3>3. <<previous[i]>> \in matrix BY <3>2
    <3>4. TakesAll(<<previous[i]>>, <<v>>) BY <3>1, Singletons
    <3> HIDE DEF matrix
    <3> QED BY <3>3, <3>4 DEF Taken
  <2> QED BY <2>1, <2>2
<1> HIDE DEF answer, q, matrix
<1>8. ASSUME answer.found = "no", NEW v \in ValuesOf[t], Tests[candidate][v]
      PROVE  TakenBefore(previous, v)
  <2>1. IsVector(<<v>>, <<t>>) /\ TakesAll(<<candidate>>, <<v>>) BY <1>8, Singletons
  <2>2. Taken(matrix, <<v>>) BY <2>1, <1>5, <1>6, <1>8 DEF Right, Sound, Asks
  <2> QED BY <2>2, <1>7
<1>9. ASSUME AllComplete, answer.found \notin {"no", "endless"}
      PROVE  \E v \in ValuesOf[t] : Tests[candidate][v] /\ ~TakenBefore(previous, v)
  <2>1. PICK vs : IsVector(vs, <<t>>) /\ TakesAll(<<candidate>>, vs) /\ ~Taken(matrix, vs)
    BY <1>5, <1>6, <1>9 DEF Right, Complete, Asks
  <2>2. vs[1] \in ValuesOf[t] /\ vs = <<vs[1]>> BY <2>1, Singletons
  <2>3. Tests[candidate][vs[1]] /\ ~Taken(matrix, <<vs[1]>>) BY <2>1, <2>2, Singletons
  <2> QED BY <2>2, <2>3, <1>7
<1> QED BY <1>1, <1>8, <1>9

\* The patterns that are tried for what is missing are patterns of the type,
\* and one of them takes each value of it.
LEMMA CandidatesTake ==
  ASSUME NEW t \in Types
  PROVE  /\ \A c \in Candidates(t) : c \in Patterns /\ WellFormed[c][t]
         /\ EmptyTypesAreEmpty => \A v \in ValuesOf[t] : \E c \in Candidates(t) : Tests[c][v]
<1>0. \A v \in ValuesOf[t] : v \in Values BY DEF Values
<1>1. CASE ~HasConstructors(t)
  <2>1. Candidates(t) = {Irrefutable} BY <1>1 DEF Candidates
  <2> QED BY <2>1, <1>0, WildcardTakes
<1>2. CASE HasConstructors(t) /\ ~TypeIsInhabited(t)
  <2>1. PatternConstructors(t) = << >> BY <1>2 DEF PatternConstructors
  <2>2. Range(PatternConstructors(t)) = {} BY <2>1 DEF Range
  <2>3. Candidates(t) = {} BY <1>2, <2>2 DEF Candidates
  <2>4. EmptyTypesAreEmpty => ValuesOf[t] = {} BY <1>2 DEF EmptyTypesAreEmpty
  <2> QED BY <2>3, <2>4
<1>3. CASE HasConstructors(t) /\ TypeIsInhabited(t)
  <2> DEFINE of(con)   == ArgumentTypes(con, t)
             args(con) == Arguments(Irrefutable, Len(of(con)))
             for(con)  == Constructed(con, args(con))
  <2>1. Shape[t].kind \in {"bool", "option", "result", "step", "struct", "enum"} BY <1>3 DEF HasConstructors
  <2>2. Candidates(t) = {for(con) : con \in Range(ConstructorsOf(t))}
    BY <1>3 DEF Candidates, PatternConstructors
  <2>3. \A c \in Candidates(t) : c \in Patterns BY CandidatesArePatterns
  <2>4. \A con \in Range(ConstructorsOf(t)) : IsConstructor(con, t) BY <2>1 DEF IsConstructor
  <2>5. ASSUME NEW con \in Range(ConstructorsOf(t))
        PROVE  /\ for(con).kind = "constructed" /\ for(con).con = con
               /\ for(con).arguments = args(con) /\ of(con) \in Seq(Types)
               /\ DOMAIN args(con) = DOMAIN of(con)
               /\ \A i \in DOMAIN of(con) : args(con)[i] = Irrefutable
    <3>1. of(con) \in Seq(Types) BY <2>4, ConstructorTypes
    <3>2. for(con).kind = "constructed" /\ for(con).con = con /\ for(con).arguments = args(con)
      BY DEF Constructed
    <3>3. DOMAIN of(con) = 1 .. Len(of(con)) BY <3>1
    <3>4. DOMAIN args(con) = 1 .. Len(of(con)) /\ \A i \in 1 .. Len(of(con)) : args(con)[i] = Irrefutable
      BY WildcardTakes DEF Arguments
    <3> QED BY <3>1, <3>2, <3>3, <3>4
  <2> HIDE DEF for, args
  <2>6. ASSUME NEW con \in Range(ConstructorsOf(t)) PROVE WellFormed[for(con)][t]
    <3>1. for(con) \in Patterns BY <2>2, <2>3
    <3>2. Suits(for(con), t) BY <2>1, <2>5 DEF Suits
    <3>3. ASSUME NEW part \in Parts(for(con), t) PROVE WellFormed[part[1]][part[2]]
      <4>1. PICK i \in DOMAIN args(con) : part = <<args(con)[i], of(con)[i]>> BY <2>5, <3>3 DEF Parts
      <4>2. of(con)[i] \in Types /\ part[1] = Irrefutable /\ part[2] = of(con)[i] BY <4>1, <2>5
      <4> HIDE DEF of
      <4> QED BY <4>2, WildcardTakes
    <3> QED BY <3>1, <3>2, <3>3, WellFormedDef
  <2>7. ASSUME NEW v \in ValuesOf[t] PROVE \E c \in Candidates(t) : Tests[c][v]
    <3>1. IsConstructor(v.con, t) /\ IsVector(v.arguments, of(v.con)) BY <2>1, ValueParts
    <3>2. v.con \in Range(ConstructorsOf(t)) BY <3>1, <2>1 DEF IsConstructor
    <3>3. for(v.con) \in Candidates(t) BY <2>2, <3>2
    <3>4. \A i \in DOMAIN of(v.con) : v.arguments[i] \in Values
      <4>1. of(v.con) \in Seq(Types) BY <2>5, <3>2
      <4> HIDE DEF of
      <4>2. v.arguments \in Seq(Values) /\ Len(v.arguments) = Len(of(v.con)) BY <3>1, <4>1, VectorIs
      <4> QED BY <4>1, <4>2
    <3>5. \A i \in DOMAIN for(v.con).arguments : Tests[for(v.con).arguments[i]][v.arguments[i]]
      <4>1. \A i \in DOMAIN of(v.con) : for(v.con).arguments[i] = Irrefutable /\ DOMAIN for(v.con).arguments = DOMAIN of(v.con)
        BY <2>5, <3>2
      <4>2. DOMAIN for(v.con).arguments = DOMAIN of(v.con) BY <2>5, <3>2
      <4> HIDE DEF of
      <4> QED BY <4>1, <4>2, <3>4, WildcardTakes
    <3>6. for(v.con) \in Patterns BY <3>3, <2>3
    <3>7. Tests[for(v.con)][v] BY <3>5, <3>6, <2>5, <3>2, <1>0, TestsDef DEF TestOf
    <3> QED BY <3>3, <3>7
  <2>8. \A c \in Candidates(t) : WellFormed[c][t] BY <2>2, <2>6
  <2> QED BY <2>3, <2>7, <2>8
<1> QED BY <1>1, <1>2, <1>3

\* If nothing is missing every value is taken; what is missing is a value, if
\* the values are complete (missing_patterns).
LEMMA MissingAnswers ==
  ASSUME LengthsSuffice, EmptyTypesAreEmpty, NEW t \in Types,
         NEW previous \in Seq(Patterns), \A i \in DOMAIN previous : WellFormed[previous[i]][t]
  PROVE  /\ MissingPatterns(previous, t) = {} => \A v \in ValuesOf[t] : TakenBefore(previous, v)
         /\ AllComplete /\ (\E m \in MissingPatterns(previous, t) : m.found # "endless") =>
              \E v \in ValuesOf[t] : ~TakenBefore(previous, v)
<1> DEFINE answer(c) == PatternIsUseful(previous, c, t)
<1>1. MissingPatterns(previous, t) = {m \in {answer(c) : c \in Candidates(t)} : m.found # "no"}
  BY DEF MissingPatterns
<1>2. \A c \in Candidates(t) : c \in Patterns /\ WellFormed[c][t] BY CandidatesTake
<1> HIDE DEF answer
<1>3. ASSUME MissingPatterns(previous, t) = {}, NEW v \in ValuesOf[t] PROVE TakenBefore(previous, v)
  <2>1. PICK c \in Candidates(t) : Tests[c][v] BY CandidatesTake
  <2>2. answer(c).found = "no" BY <1>1, <1>3
  <2>3. answer(c).found = "no" => \A w \in ValuesOf[t] : Tests[c][w] => TakenBefore(previous, w)
    BY <1>2, PatternAnswer DEF answer
  <2> QED BY <2>1, <2>2, <2>3
<1>4. ASSUME AllComplete, NEW m \in MissingPatterns(previous, t), m.found # "endless"
      PROVE  \E v \in ValuesOf[t] : ~TakenBefore(previous, v)
  <2>1. PICK c \in Candidates(t) : m = answer(c) /\ m.found # "no" BY <1>1
  <2>2. answer(c).found \notin {"no", "endless"} =>
          \E v \in ValuesOf[t] : Tests[c][v] /\ ~TakenBefore(previous, v)
    BY <1>2, <1>4, PatternAnswer DEF answer
  <2> QED BY <2>1, <2>2, <1>4
<1> QED BY <1>3, <1>4

-----------------------------------------------------------------------------
(* The invariant of a match. *)

Counts(j, v) == ~arms[j].guarded /\ Takes(j, v)

MatchTypeOK ==
  /\ matched \in Types
  /\ arms \in Seq([pattern : Patterns, guarded : BOOLEAN]) /\ unguarded \in Seq(Patterns)
  /\ reported \subseteq DOMAIN arms /\ errors \in BOOLEAN /\ arm \in Nat

\* What counts for the next arm is covered by the arms without a guard.
UnguardedAreCovered ==
  /\ \A i \in DOMAIN unguarded : \E j \in DOMAIN arms :
       ~arms[j].guarded /\ unguarded[i] = Coverage[arms[j].pattern]
  /\ \A j \in DOMAIN arms : ~arms[j].guarded =>
       \E i \in DOMAIN unguarded : unguarded[i] = Coverage[arms[j].pattern]

ArmsAreWellFormed == ~errors => \A j \in DOMAIN arms : WellFormed[arms[j].pattern][matched]

AcceptedTakeAll ==
  phase \in {"running", "selected", "trapped"} =>
    ~errors /\ \A v \in ValuesOf[matched] : \E j \in DOMAIN arms : Counts(j, v)

TestedInOrder ==
  /\ phase = "checking" => arm = 0
  /\ phase \in {"running", "selected", "trapped"} /\ arm > 0 =>
       value \in ValuesOf[matched] /\ \A j \in DOMAIN arms : j < arm => ~Counts(j, value)

MatchInv ==
  /\ MatchTypeOK /\ UnguardedAreCovered /\ ArmsAreWellFormed
  /\ AcceptedTakeAll /\ TestedInOrder /\ AcceptedMatchesSelect

\* The patterns that count take what the arms without a guard take.
LEMMA UnguardedTake ==
  ASSUME MatchTypeOK, UnguardedAreCovered, ArmsAreWellFormed, ~errors
  PROVE  /\ \A i \in DOMAIN unguarded : WellFormed[unguarded[i]][matched]
         /\ \A v \in ValuesOf[matched] :
              TakenBefore(unguarded, v) <=> \E j \in DOMAIN arms : Counts(j, v)
<1>1. ASSUME NEW j \in DOMAIN arms
      PROVE  arms[j].pattern \in Patterns /\ WellFormed[arms[j].pattern][matched]
  <2> DEFINE S == [pattern : Patterns, guarded : BOOLEAN]
  <2>2. arms \in Seq(S) BY DEF MatchTypeOK
  <2>1. arms[j] \in S
    <3> HIDE DEF S
    <3> QED BY <2>2
  <2> QED BY <2>1 DEF ArmsAreWellFormed
<1>2. matched \in Types BY DEF MatchTypeOK
<1>3. \A i \in DOMAIN unguarded : \E j \in DOMAIN arms :
        ~arms[j].guarded /\ unguarded[i] = Coverage[arms[j].pattern]
  BY DEF UnguardedAreCovered
<1>4. \A j \in DOMAIN arms : /\ WellFormed[Coverage[arms[j].pattern]][matched]
                             /\ \A v \in ValuesOf[matched] : Tests[Coverage[arms[j].pattern]][v] <=> Takes(j, v)
  BY <1>1, <1>2, CoverageStands DEF StandsFor, Takes
<1>5. \A i \in DOMAIN unguarded : WellFormed[unguarded[i]][matched] BY <1>3, <1>4
<1>6. ASSUME NEW v \in ValuesOf[matched], TakenBefore(unguarded, v)
      PROVE  \E j \in DOMAIN arms : Counts(j, v)
  <2>1. PICK i \in DOMAIN unguarded : Tests[unguarded[i]][v] BY <1>6 DEF TakenBefore
  <2>2. PICK j \in DOMAIN arms : ~arms[j].guarded /\ unguarded[i] = Coverage[arms[j].pattern] BY <1>3
  <2> QED BY <2>1, <2>2, <1>4 DEF Counts
<1>7. ASSUME NEW v \in ValuesOf[matched], NEW j \in DOMAIN arms, Counts(j, v)
      PROVE  TakenBefore(unguarded, v)
  <2>1. PICK i \in DOMAIN unguarded : unguarded[i] = Coverage[arms[j].pattern]
    BY <1>7 DEF UnguardedAreCovered, Counts
  <2> QED BY <2>1, <1>4, <1>7 DEF Counts, TakenBefore
<1> QED BY <1>5, <1>6, <1>7

\* The invariant holds before the first arm.
LEMMA MatchInitInv == MatchInit => MatchInv
<1> SUFFICES ASSUME MatchInit PROVE MatchInv OBVIOUS
<1>1. /\ matched \in Types /\ arms = << >> /\ unguarded = << >> /\ reported = {} /\ errors = FALSE
      /\ phase = "checking" /\ arm = 0
  BY DEF MatchInit
<1>2. DOMAIN arms = {} /\ DOMAIN unguarded = {} BY <1>1
<1>3. MatchTypeOK
  <2>1. arms \in Seq([pattern : Patterns, guarded : BOOLEAN]) /\ unguarded \in Seq(Patterns) BY <1>1
  <2>2. errors \in BOOLEAN /\ arm \in Nat /\ reported \subseteq DOMAIN arms BY <1>1
  <2> QED BY <1>1, <2>1, <2>2 DEF MatchTypeOK
<1> QED BY <1>1, <1>2, <1>3 DEF MatchInv, UnguardedAreCovered, ArmsAreWellFormed, AcceptedTakeAll,
                                TestedInOrder, AcceptedMatchesSelect

\* One more arm leaves the earlier ones as they are.
LEMMA OneMoreArm ==
  ASSUME MatchTypeOK, NEW p \in Patterns, NEW guarded \in BOOLEAN,
         arms' = Append(arms, [pattern |-> p, guarded |-> guarded])
  PROVE  LET n == Len(arms) + 1
         IN  /\ arms' \in Seq([pattern : Patterns, guarded : BOOLEAN]) /\ Len(arms') = n
             /\ DOMAIN arms' = DOMAIN arms \cup {n} /\ n \notin DOMAIN arms
             /\ arms'[n].pattern = p /\ arms'[n].guarded = guarded
             /\ \A j \in DOMAIN arms : arms'[j] = arms[j]
<1> DEFINE x == [pattern |-> p, guarded |-> guarded]
           S == [pattern : Patterns, guarded : BOOLEAN]
<1>1. arms \in Seq(S) /\ x \in S BY DEF MatchTypeOK
<1>2. x.pattern = p /\ x.guarded = guarded OBVIOUS
<1> HIDE DEF x, S
<1>3. arms' = Append(arms, x) BY DEF x
<1>4. PICK k \in Nat : k = Len(arms) BY <1>1
<1>5. /\ arms' \in Seq(S) /\ Len(arms') = k + 1 /\ arms'[k + 1] = x
      /\ \A j \in 1 .. k : arms'[j] = arms[j]
  BY <1>1, <1>3, <1>4
<1>6. DOMAIN arms = 1 .. k /\ DOMAIN arms' = 1 .. k + 1 BY <1>1, <1>4, <1>5
<1>7. 1 .. k + 1 = (1 .. k) \cup {k + 1} /\ k + 1 \notin 1 .. k OBVIOUS
<1> QED BY <1>2, <1>4, <1>5, <1>6, <1>7 DEF S

\* The check of an arm preserves the invariant.
LEMMA CheckArmInv ==
  ASSUME MatchInv, NEW p \in PatternsOf[matched], NEW guarded \in BOOLEAN, CheckArm(p, guarded)
  PROVE  MatchInv'
<1>1. p \in Patterns /\ Coverage[p] \in Patterns BY PatternsAreCovered DEF MatchInv, MatchTypeOK
<1>2. /\ phase = "checking"
      /\ arms' = Append(arms, [pattern |-> p, guarded |-> guarded])
      /\ ~errors' => ~errors /\ WellFormed[p][matched]
      /\ errors' \in BOOLEAN
      /\ unguarded' = IF guarded THEN unguarded ELSE Append(unguarded, Coverage[p])
      /\ reported' \subseteq reported \cup {Len(arms')}
      /\ phase' \in {"checking", "overflow"}
      /\ matched' = matched /\ value' = value /\ arm' = arm
  BY DEF CheckArm
<1>3. MatchTypeOK /\ UnguardedAreCovered /\ ArmsAreWellFormed BY DEF MatchInv
<1> DEFINE n == Len(arms) + 1
<1>4. /\ arms' \in Seq([pattern : Patterns, guarded : BOOLEAN]) /\ Len(arms') = n
      /\ DOMAIN arms' = DOMAIN arms \cup {n} /\ n \notin DOMAIN arms
      /\ arms'[n].pattern = p /\ arms'[n].guarded = guarded
      /\ \A j \in DOMAIN arms : arms'[j] = arms[j]
  BY <1>1, <1>2, <1>3, OneMoreArm
<1> HIDE DEF n
<1>5. /\ unguarded \in Seq(Patterns) /\ reported \subseteq DOMAIN arms /\ matched \in Types /\ arm \in Nat
  BY <1>3 DEF MatchTypeOK
<1>6. /\ unguarded' \in Seq(Patterns)
      /\ DOMAIN unguarded \subseteq DOMAIN unguarded'
      /\ \A i \in DOMAIN unguarded : unguarded'[i] = unguarded[i]
      /\ \A i \in DOMAIN unguarded' : i \in DOMAIN unguarded \/ (~guarded /\ unguarded'[i] = Coverage[p])
      /\ ~guarded => \E i \in DOMAIN unguarded' : unguarded'[i] = Coverage[p]
  <2>1. CASE guarded BY <2>1, <1>2, <1>5
  <2>2. CASE ~guarded
    <3>1. PICK k \in Nat : k = Len(unguarded) BY <1>5
    <3>2. unguarded' = Append(unguarded, Coverage[p]) BY <2>2, <1>2
    <3>3. /\ unguarded' \in Seq(Patterns) /\ Len(unguarded') = k + 1 /\ unguarded'[k + 1] = Coverage[p]
          /\ \A i \in 1 .. k : unguarded'[i] = unguarded[i]
      BY <3>1, <3>2, <1>1, <1>5
    <3>4. DOMAIN unguarded = 1 .. k /\ DOMAIN unguarded' = 1 .. k + 1 BY <3>1, <3>3, <1>5
    <3>5. 1 .. k + 1 = (1 .. k) \cup {k + 1} OBVIOUS
    <3> QED BY <2>2, <3>3, <3>4, <3>5
  <2> QED BY <2>1, <2>2
<1>7. MatchTypeOK' BY <1>2, <1>4, <1>5, <1>6 DEF MatchTypeOK
<1>8. UnguardedAreCovered'
  <2>1. ASSUME NEW i \in DOMAIN unguarded'
        PROVE  \E j \in DOMAIN arms' : ~arms'[j].guarded /\ unguarded'[i] = Coverage[arms'[j].pattern]
    <3>1. CASE i \in DOMAIN unguarded
      <4>1. PICK j \in DOMAIN arms : ~arms[j].guarded /\ unguarded[i] = Coverage[arms[j].pattern]
        BY <3>1, <1>3 DEF UnguardedAreCovered
      <4> QED BY <4>1, <3>1, <1>4, <1>6
    <3>2. CASE ~guarded /\ unguarded'[i] = Coverage[p] BY <3>2, <1>4
    <3> QED BY <3>1, <3>2, <1>6
  <2>2. ASSUME NEW j \in DOMAIN arms', ~arms'[j].guarded
        PROVE  \E i \in DOMAIN unguarded' : unguarded'[i] = Coverage[arms'[j].pattern]
    <3>1. CASE j \in DOMAIN arms
      <4>1. arms'[j] = arms[j] BY <3>1, <1>4
      <4>2. PICK i \in DOMAIN unguarded : unguarded[i] = Coverage[arms[j].pattern]
        BY <3>1, <4>1, <2>2, <1>3 DEF UnguardedAreCovered
      <4> QED BY <4>1, <4>2, <1>6
    <3>2. CASE j = n BY <3>2, <2>2, <1>4, <1>6
    <3> QED BY <3>1, <3>2, <1>4
  <2> QED BY <2>1, <2>2 DEF UnguardedAreCovered
<1>9. ArmsAreWellFormed'
  <2> SUFFICES ASSUME ~errors', NEW j \in DOMAIN arms' PROVE WellFormed[arms'[j].pattern][matched]
    BY <1>2 DEF ArmsAreWellFormed
  <2>1. ~errors /\ WellFormed[p][matched] BY <1>2
  <2>2. CASE j \in DOMAIN arms BY <2>1, <2>2, <1>3, <1>4 DEF ArmsAreWellFormed
  <2>3. CASE j = n BY <2>1, <2>3, <1>4
  <2> QED BY <2>2, <2>3, <1>4
<1>10. AcceptedTakeAll' /\ TestedInOrder' /\ AcceptedMatchesSelect'
  <2>1. arm = 0 BY <1>2 DEF MatchInv, TestedInOrder
  <2> QED BY <2>1, <1>2 DEF AcceptedTakeAll, TestedInOrder, AcceptedMatchesSelect
<1> QED BY <1>7, <1>8, <1>9, <1>10 DEF MatchInv

\* The end of the check preserves the invariant: what is accepted takes every
\* value.
LEMMA CheckMissingInv ==
  ASSUME LengthsSuffice, EmptyTypesAreEmpty, MatchInv, CheckMissing
  PROVE  MatchInv'
<1>1. /\ phase = "checking" /\ missing' = MissingPatterns(unguarded, matched)
      /\ phase' \in {"overflow", "rejected", "running"}
      /\ phase' = "running" => missing' = {} /\ ~errors
      /\ UNCHANGED <<matched, arms, unguarded, reported, errors, value, arm>>
  BY DEF CheckMissing
<1>2. MatchTypeOK /\ UnguardedAreCovered /\ ArmsAreWellFormed BY DEF MatchInv
<1>3. MatchTypeOK' BY <1>1, <1>2 DEF MatchTypeOK
<1>4. UnguardedAreCovered' BY <1>1, <1>2 DEF UnguardedAreCovered
<1>5. ArmsAreWellFormed' BY <1>1, <1>2 DEF ArmsAreWellFormed
<1>6. AcceptedMatchesSelect' BY <1>1 DEF AcceptedMatchesSelect
<1>7. ASSUME phase' = "running", NEW v \in ValuesOf[matched] PROVE ~errors /\ \E j \in DOMAIN arms : Counts(j, v)
  <2>1. ~errors /\ MissingPatterns(unguarded, matched) = {} BY <1>1, <1>7
  <2>2. /\ \A i \in DOMAIN unguarded : WellFormed[unguarded[i]][matched]
        /\ TakenBefore(unguarded, v) <=> \E j \in DOMAIN arms : Counts(j, v)
    BY <1>2, <2>1, UnguardedTake
  <2>3. matched \in Types /\ unguarded \in Seq(Patterns) BY <1>2 DEF MatchTypeOK
  <2>4. TakenBefore(unguarded, v) BY <2>1, <2>2, <2>3, MissingAnswers
  <2> QED BY <2>1, <2>2, <2>4
<1>8. AcceptedTakeAll'
  BY <1>1, <1>7 DEF AcceptedTakeAll, Counts, Takes
<1>9. TestedInOrder'
  <2>1. arm = 0 BY <1>1 DEF MatchInv, TestedInOrder
  <2>2. ~(arm' > 0) /\ phase' # "checking" BY <2>1, <1>1
  <2> QED BY <2>2 DEF TestedInOrder
<1> QED BY <1>3, <1>4, <1>5, <1>6, <1>8, <1>9 DEF MatchInv

\* A run starts with no arm tested.
LEMMA RunInv ==
  ASSUME MatchInv, NEW v \in ValuesOf[matched], Run(v)
  PROVE  MatchInv'
<1>1. /\ phase = "running" /\ value' = v /\ arm' = 1
      /\ UNCHANGED <<matched, arms, unguarded, reported, errors, missing, phase>>
  BY DEF Run
<1>2. MatchTypeOK /\ UnguardedAreCovered /\ ArmsAreWellFormed /\ AcceptedTakeAll BY DEF MatchInv
<1>3. MatchTypeOK' BY <1>1, <1>2 DEF MatchTypeOK
<1>4. UnguardedAreCovered' BY <1>1, <1>2 DEF UnguardedAreCovered
<1>5. ArmsAreWellFormed' BY <1>1, <1>2 DEF ArmsAreWellFormed
<1>6. AcceptedTakeAll' BY <1>1, <1>2 DEF AcceptedTakeAll, Counts, Takes
<1>7. AcceptedMatchesSelect' BY <1>1 DEF AcceptedMatchesSelect
<1>8. TestedInOrder'
  <2>1. \A j \in DOMAIN arms' : ~(j < arm')
    <3>1. arms \in Seq([pattern : Patterns, guarded : BOOLEAN]) BY <1>2 DEF MatchTypeOK
    <3>2. DOMAIN arms' = 1 .. Len(arms) BY <1>1, <3>1
    <3> QED BY <1>1, <3>2
  <2> QED BY <2>1, <1>1 DEF TestedInOrder
<1> QED BY <1>3, <1>4, <1>5, <1>6, <1>7, <1>8 DEF MatchInv

\* The test of an arm preserves the invariant: it does not get past the last
\* arm.
LEMMA TestArmInv ==
  ASSUME MatchInv, NEW guard \in BOOLEAN, TestArm(guard)
  PROVE  MatchInv'
<1>1. /\ phase = "running" /\ arm > 0
      /\ UNCHANGED <<matched, arms, unguarded, reported, errors, missing, value>>
      /\ \/ arm > Len(arms) /\ phase' = "trapped" /\ arm' = arm
         \/ ~(arm > Len(arms)) /\ phase' = "selected" /\ arm' = arm
         \/ /\ ~(arm > Len(arms)) /\ phase' = phase /\ arm' = arm + 1
            /\ ~(Takes(arm, value) /\ (arms[arm].guarded => guard))
  BY DEF TestArm, Takes
<1>2. MatchTypeOK /\ UnguardedAreCovered /\ ArmsAreWellFormed /\ AcceptedTakeAll /\ TestedInOrder BY DEF MatchInv
<1>0. arms \in Seq([pattern : Patterns, guarded : BOOLEAN]) /\ arm \in Nat BY <1>2 DEF MatchTypeOK
<1>9. /\ value \in ValuesOf[matched] /\ \A j \in DOMAIN arms : j < arm => ~Counts(j, value)
      /\ ~errors /\ \A v \in ValuesOf[matched] : \E j \in DOMAIN arms : Counts(j, v)
  BY <1>1, <1>2 DEF TestedInOrder, AcceptedTakeAll
<1>10. ~(arm > Len(arms))
  <2>1. PICK j \in DOMAIN arms : Counts(j, value) BY <1>9
  <2>2. ~(j < arm) BY <2>1, <1>9
  <2>3. j \in 1 .. Len(arms) BY <1>0
  <2> QED BY <2>2, <2>3, <1>0
<1>3. MatchTypeOK'
  <2>1. arm' \in Nat BY <1>0, <1>1
  <2> QED BY <2>1, <1>1, <1>2 DEF MatchTypeOK
<1>4. UnguardedAreCovered' BY <1>1, <1>2 DEF UnguardedAreCovered
<1>5. ArmsAreWellFormed' BY <1>1, <1>2 DEF ArmsAreWellFormed
<1>6. AcceptedTakeAll' BY <1>1, <1>9 DEF AcceptedTakeAll, Counts, Takes
<1>7. AcceptedMatchesSelect' BY <1>1, <1>10 DEF AcceptedMatchesSelect
<1>8. TestedInOrder'
  <2>1. phase' # "checking" BY <1>1
  <2>2. ASSUME NEW j \in DOMAIN arms, j < arm' PROVE ~Counts(j, value)
    <3>1. j \in 1 .. Len(arms) BY <1>0
    <3>2. CASE j < arm BY <3>2, <1>9
    <3>3. CASE ~(j < arm)
      <4>1. j = arm /\ arm' = arm + 1 BY <3>1, <3>3, <2>2, <1>0, <1>1
      <4>2. ~(Takes(arm, value) /\ (arms[arm].guarded => guard)) BY <4>1, <1>1, <1>0
      <4> QED BY <4>1, <4>2 DEF Counts
    <3> QED BY <3>2, <3>3
  <2>3. \A j \in DOMAIN arms : j < arm' => ~Counts(j, value) BY <2>2
  <2>4. /\ arms' = arms /\ value' = value /\ matched' = matched BY <1>1
  <2> QED BY <2>1, <2>3, <2>4, <1>9 DEF TestedInOrder, Counts, Takes
<1> QED BY <1>3, <1>4, <1>5, <1>6, <1>7, <1>8 DEF MatchInv

\* Every step preserves the invariant.
LEMMA MatchStepInv ==
  ASSUME LengthsSuffice, EmptyTypesAreEmpty, MatchInv, [MatchNext]_matchVars
  PROVE  MatchInv'
<1>1. CASE UNCHANGED matchVars
  BY <1>1 DEF matchVars, MatchInv, MatchTypeOK, UnguardedAreCovered, ArmsAreWellFormed, AcceptedTakeAll,
              TestedInOrder, AcceptedMatchesSelect, Counts, Takes
<1>2. CASE MatchNext
  <2>1. ASSUME NEW p \in PatternsOf[matched], NEW guarded \in BOOLEAN, CheckArm(p, guarded) PROVE MatchInv'
    BY <2>1, CheckArmInv
  <2>2. CASE CheckMissing BY <2>2, CheckMissingInv
  <2>3. ASSUME NEW v \in ValuesOf[matched], Run(v) PROVE MatchInv' BY <2>3, RunInv
  <2>4. ASSUME NEW guard \in BOOLEAN, TestArm(guard) PROVE MatchInv' BY <2>4, TestArmInv
  <2> QED BY <1>2, <2>1, <2>2, <2>3, <2>4 DEF MatchNext
<1> QED BY <1>1, <1>2

\* A match the checker accepted selects an arm, whatever its value is and its
\* guards answer, if the lengths that are tried represent all others.
THEOREM AcceptedSelects ==
  ASSUME LengthsSuffice, EmptyTypesAreEmpty
  PROVE  MatchSpec => []AcceptedMatchesSelect
<1>1. MatchInit => MatchInv BY MatchInitInv
<1>2. MatchInv /\ [MatchNext]_matchVars => MatchInv' BY MatchStepInv
<1>3. MatchInv => AcceptedMatchesSelect BY DEF MatchInv
<1> QED BY <1>1, <1>2, <1>3, PTL DEF MatchSpec

\* An arm is reported exactly if the earlier arms take all it takes.
LEMMA CheckArmReports ==
  ASSUME LengthsSuffice, EmptyTypesAreEmpty, AllComplete,
         MatchInv, ReportsAreExact, NEW p \in PatternsOf[matched], NEW guarded \in BOOLEAN,
         CheckArm(p, guarded)
  PROVE  ReportsAreExact'
<1> DEFINE answer == PatternIsUseful(unguarded, Coverage[p], matched)
<1>1. p \in Patterns /\ Coverage[p] \in Patterns BY PatternsAreCovered DEF MatchInv, MatchTypeOK
<1>2. /\ phase = "checking"
      /\ arms' = Append(arms, [pattern |-> p, guarded |-> guarded])
      /\ ~errors' => ~errors /\ WellFormed[p][matched]
      /\ reported' = IF answer.found = "no" THEN reported \cup {Len(arms')} ELSE reported
      /\ phase' = "checking" => answer.found # "endless"
      /\ matched' = matched
  BY DEF CheckArm
<1> HIDE DEF answer
<1>3. MatchTypeOK /\ UnguardedAreCovered /\ ArmsAreWellFormed BY DEF MatchInv
<1> DEFINE n == Len(arms) + 1
<1>4. /\ arms' \in Seq([pattern : Patterns, guarded : BOOLEAN]) /\ Len(arms') = n
      /\ DOMAIN arms' = DOMAIN arms \cup {n} /\ n \notin DOMAIN arms
      /\ arms'[n].pattern = p /\ arms'[n].guarded = guarded
      /\ \A j \in DOMAIN arms : arms'[j] = arms[j]
  BY <1>1, <1>2, <1>3, OneMoreArm
<1>5. /\ reported \subseteq DOMAIN arms /\ DOMAIN arms = 1 .. n - 1 /\ n \in Nat
      /\ matched \in Types /\ unguarded \in Seq(Patterns)
  BY <1>3 DEF MatchTypeOK
<1> HIDE DEF n
<1> SUFFICES ASSUME phase' = "checking", ~errors', NEW i \in DOMAIN arms'
             PROVE  i \in reported' <=>
                      \A v \in ValuesOf[matched] : Takes(i, v)' => \E j \in EarlierArms(i)' : Takes(j, v)'
  BY <1>2 DEF ReportsAreExact
<1>6. ~errors /\ WellFormed[p][matched] BY <1>2
<1>7. CASE i \in DOMAIN arms
  <2>1. i \in reported' <=> i \in reported BY <1>2, <1>4, <1>7
  <2>2. i \in reported <=>
          \A v \in ValuesOf[matched] : Takes(i, v) => \E j \in EarlierArms(i) : Takes(j, v)
    BY <1>2, <1>6, <1>7 DEF ReportsAreExact
  <2>3. \A v : Takes(i, v)' <=> Takes(i, v) BY <1>4, <1>7 DEF Takes
  <2>4. \A j \in 1 .. i - 1 : j \in DOMAIN arms BY <1>5, <1>7
  <2>5. \A v, j : (j \in EarlierArms(i)' /\ Takes(j, v)') <=> (j \in EarlierArms(i) /\ Takes(j, v))
    BY <2>4, <1>4 DEF EarlierArms, Takes
  <2> QED BY <2>1, <2>2, <2>3, <2>5
<1>8. CASE i = n
  <2>1. i \in reported' <=> answer.found = "no" BY <1>2, <1>4, <1>5, <1>8
  <2>2. WellFormed[Coverage[p]][matched] /\ \A v \in ValuesOf[matched] : Tests[Coverage[p]][v] <=> Tests[p][v]
    BY <1>1, <1>5, <1>6, CoverageStands DEF StandsFor
  <2>3. /\ \A k \in DOMAIN unguarded : WellFormed[unguarded[k]][matched]
        /\ \A v \in ValuesOf[matched] :
             TakenBefore(unguarded, v) <=> \E j \in DOMAIN arms : Counts(j, v)
    BY <1>3, <1>6, UnguardedTake
  <2>4. /\ answer.found = "no" =>
             \A v \in ValuesOf[matched] : Tests[Coverage[p]][v] => TakenBefore(unguarded, v)
        /\ answer.found \notin {"no", "endless"} =>
             \E v \in ValuesOf[matched] : Tests[Coverage[p]][v] /\ ~TakenBefore(unguarded, v)
    BY <1>1, <1>5, <2>2, <2>3, PatternAnswer DEF answer
  <2>5. \A v : Takes(i, v)' <=> Tests[p][v] BY <1>4, <1>8 DEF Takes
  <2>6. \A v, j : (j \in EarlierArms(i)' /\ Takes(j, v)') <=> (j \in DOMAIN arms /\ Counts(j, v))
    BY <1>4, <1>5, <1>8 DEF EarlierArms, Takes, Counts
  <2>7. answer.found # "endless" BY <1>2
  <2> QED BY <2>1, <2>2, <2>3, <2>4, <2>5, <2>6, <2>7
<1> QED BY <1>4, <1>7, <1>8

\* Something is missing exactly if a value is taken by no arm.
LEMMA CheckMissingExact ==
  ASSUME LengthsSuffice, EmptyTypesAreEmpty, AllComplete, MatchInv, CheckMissing
  PROVE  MissingIsExact'
<1>1. /\ missing' = MissingPatterns(unguarded, matched)
      /\ phase' \in {"rejected", "running"} => \A m \in missing' : m.found # "endless"
      /\ UNCHANGED <<matched, arms, unguarded, errors, arm>>
  <2>1. /\ missing' = MissingPatterns(unguarded, matched)
        /\ UNCHANGED <<matched, arms, unguarded, errors, arm>>
    BY DEF CheckMissing
  <2>2. (\E m \in missing' : m.found = "endless") => phase' = "overflow" BY DEF CheckMissing
  <2> QED BY <2>1, <2>2
<1>2. MatchTypeOK /\ UnguardedAreCovered /\ ArmsAreWellFormed BY DEF MatchInv
<1>3. matched \in Types /\ unguarded \in Seq(Patterns) /\ DOMAIN arms = 1 .. Len(arms) /\ Len(arms) \in Nat
  BY <1>2 DEF MatchTypeOK
<1> SUFFICES ASSUME phase' \in {"rejected", "running"}, ~errors
             PROVE  missing' = {} <=>
                      \A v \in ValuesOf[matched] : \E j \in EarlierArms(Len(arms) + 1)' : Takes(j, v)'
  BY <1>1 DEF MissingIsExact
<1>4. /\ \A k \in DOMAIN unguarded : WellFormed[unguarded[k]][matched]
      /\ \A v \in ValuesOf[matched] :
           TakenBefore(unguarded, v) <=> \E j \in DOMAIN arms : Counts(j, v)
  BY <1>2, UnguardedTake
<1>5. /\ MissingPatterns(unguarded, matched) = {} => \A v \in ValuesOf[matched] : TakenBefore(unguarded, v)
      /\ (\E m \in MissingPatterns(unguarded, matched) : m.found # "endless") =>
           \E v \in ValuesOf[matched] : ~TakenBefore(unguarded, v)
  BY <1>3, <1>4, MissingAnswers
<1>6. \A v, j : (j \in EarlierArms(Len(arms) + 1)' /\ Takes(j, v)') <=> (j \in DOMAIN arms /\ Counts(j, v))
  BY <1>1, <1>3 DEF EarlierArms, Takes, Counts
<1>7. \A m \in missing' : m.found # "endless" BY <1>1
<1> QED BY <1>1, <1>4, <1>5, <1>6, <1>7

\* Every step keeps the analysis exact.
LEMMA ExactStep ==
  ASSUME LengthsSuffice, EmptyTypesAreEmpty, AllComplete,
         MatchInv, AnalysisIsExact, [MatchNext]_matchVars
  PROVE  AnalysisIsExact'
<1>1. ReportsAreExact /\ MissingIsExact BY DEF AnalysisIsExact
<1>2. CASE UNCHANGED matchVars
  BY <1>1, <1>2 DEF matchVars, AnalysisIsExact, ReportsAreExact, MissingIsExact, Takes, EarlierArms
<1>3. ASSUME NEW p \in PatternsOf[matched], NEW guarded \in BOOLEAN, CheckArm(p, guarded)
      PROVE  AnalysisIsExact'
  <2>1. ReportsAreExact' BY <1>1, <1>3, CheckArmReports
  <2>2. phase' \in {"checking", "overflow"} BY <1>3 DEF CheckArm
  <2>3. MissingIsExact' BY <2>2 DEF MissingIsExact
  <2> QED BY <2>1, <2>3 DEF AnalysisIsExact
<1>4. CASE CheckMissing
  <2>1. MissingIsExact' BY <1>4, CheckMissingExact
  <2>2. phase' # "checking" BY <1>4 DEF CheckMissing
  <2>3. ReportsAreExact' BY <2>2 DEF ReportsAreExact
  <2> QED BY <2>1, <2>3 DEF AnalysisIsExact
<1>5. ASSUME NEW v \in ValuesOf[matched], Run(v) PROVE AnalysisIsExact'
  BY <1>5 DEF Run, AnalysisIsExact, ReportsAreExact, MissingIsExact
<1>6. ASSUME NEW guard \in BOOLEAN, TestArm(guard) PROVE AnalysisIsExact'
  <2>1. phase' # "checking" /\ phase' # "rejected" /\ arm' # 0
    <3>1. arm \in Nat BY DEF MatchInv, MatchTypeOK
    <3> QED BY <3>1, <1>6 DEF TestArm
  <2> QED BY <2>1 DEF AnalysisIsExact, ReportsAreExact, MissingIsExact
<1> QED BY <1>2, <1>3, <1>4, <1>5, <1>6 DEF MatchNext

\* The analysis reports exactly the arms that are not selected and exactly what
\* no arm takes, if moreover the program may meet what can be built of its
\* values.
THEOREM AnalysisExact ==
  ASSUME LengthsSuffice, EmptyTypesAreEmpty, AllComplete
  PROVE  MatchSpec => []AnalysisIsExact
<1>1. MatchInit => MatchInv /\ AnalysisIsExact
  <2> SUFFICES ASSUME MatchInit PROVE MatchInv /\ AnalysisIsExact OBVIOUS
  <2>1. arms = << >> /\ phase = "checking" BY DEF MatchInit
  <2>2. DOMAIN arms = {} BY <2>1
  <2>3. AnalysisIsExact BY <2>1, <2>2 DEF AnalysisIsExact, ReportsAreExact, MissingIsExact
  <2> QED BY <2>3, MatchInitInv
<1>2. MatchInv /\ AnalysisIsExact /\ [MatchNext]_matchVars => MatchInv' /\ AnalysisIsExact'
  BY MatchStepInv, ExactStep
<1> QED BY <1>1, <1>2, PTL DEF MatchSpec

-----------------------------------------------------------------------------
(* Which lengths of a growable array are tried. *)

\* A set of numbers up to a bound has a greatest one.
LEMMA GreatestNumber ==
  ASSUME NEW S, S \subseteq Nat, S # {}, NEW n \in Nat, \A x \in S : x <= n
  PROVE  \E m \in S : \A x \in S : x <= m
<1> DEFINE D == {n - x : x \in S}
<1>1. \A x \in S : x \in Nat /\ n - x \in Nat OBVIOUS
<1>2. D \subseteq Nat /\ D # {} BY <1>1
<1>3. PICK d \in D : \A e \in D : d <= e
  <2> HIDE DEF D
  <2> QED BY <1>2, LeastNumber
<1>4. PICK m \in S : d = n - m BY <1>3
<1>5. ASSUME NEW x \in S PROVE x <= m
  <2>1. n - m <= n - x BY <1>3, <1>4
  <2>2. x \in Nat /\ m \in Nat BY <1>1
  <2> QED BY <2>1, <2>2
<1> QED BY <1>5

\* The sums of a prefix and a suffix are tried, and what follows them.
LEMMA SumsAreTried ==
  ASSUME NEW arrays, arrays \subseteq Patterns, \A h \in arrays : h.kind = "array",
         NEW p \in {0} \cup {Len(h.prefix) : h \in arrays}, NEW s \in {0} \cup {Len(h.suffix) : h \in arrays}
  PROVE  p \in Nat /\ s \in Nat /\ p + s \in RepresentativeLengths(arrays)
         /\ p + s + 1 \in RepresentativeLengths(arrays)
<1> DEFINE P == {0} \cup {Len(h.prefix) : h \in arrays}
           S == {0} \cup {Len(h.suffix) : h \in arrays}
<1>1. \A h \in arrays : Len(h.prefix) \in Nat /\ Len(h.suffix) \in Nat BY PatternKinds
<1>2. P \subseteq Nat /\ S \subseteq Nat /\ p \in P /\ s \in S BY <1>1
<1>3. RepresentativeLengths(arrays) = {a + b + k : a \in P, b \in S, k \in {0, 1}} BY DEF RepresentativeLengths
<1> HIDE DEF P, S
<1>4. p + s + 0 = p + s BY <1>2
<1>5. p + s + 0 \in RepresentativeLengths(arrays) /\ p + s + 1 \in RepresentativeLengths(arrays) BY <1>2, <1>3
<1> QED BY <1>2, <1>4, <1>5

\* A length at which no prefix and no suffix overlap is represented by the
\* greatest sum that fits into it, or by what follows it.
LEMMA ApartAreRepresented ==
  ASSUME NEW arrays, arrays \subseteq Patterns, \A h \in arrays : h.kind = "array", NEW n \in Nat,
         \A g, h \in arrays : g.rest /\ h.rest /\ FitsLength(g, n) /\ FitsLength(h, n) =>
           Len(g.prefix) + Len(h.suffix) <= n
  PROVE  \E m \in RepresentativeLengths(arrays) : Represents(m, n, arrays)
<1> DEFINE pre(h) == Len(h.prefix)
           suf(h) == Len(h.suffix)
           wr(h)  == Written(h)
           RL     == RepresentativeLengths(arrays)
<1>1. \A h \in arrays : /\ pre(h) \in Nat /\ suf(h) \in Nat /\ wr(h) = pre(h) + suf(h)
                        /\ h # Irrefutable /\ h.rest \in BOOLEAN
  BY PatternKinds, WildcardTakes DEF Written
<1>2. \A h \in arrays : \A l : FitsLength(h, l) <=> IF h.rest THEN wr(h) <= l ELSE wr(h) = l
  BY <1>1 DEF FitsLength
<1>3. \A l : Represents(l, n, arrays) <=>
         /\ l <= n
         /\ \A h \in arrays : FitsLength(h, l) = FitsLength(h, n)
         /\ l = n \/ \E k \in 0 .. l : \A h \in arrays : FitsLength(h, n) => pre(h) <= k /\ suf(h) <= l - k
  BY DEF Represents
<1>4. \A h \in arrays : \A l : FitsLength(h, l) \in BOOLEAN BY <1>1 DEF FitsLength
<1> DEFINE PS == {0} \cup {pre(h) : h \in arrays}
           SS == {0} \cup {suf(h) : h \in arrays}
<1>5. \A a \in PS, b \in SS : a \in Nat /\ b \in Nat /\ a + b \in RL /\ a + b + 1 \in RL
  BY SumsAreTried
<1>6. \A g, h \in arrays : g.rest /\ h.rest /\ FitsLength(g, n) /\ FitsLength(h, n) => pre(g) + suf(h) <= n
  OBVIOUS
<1>7. \A h \in arrays : wr(h) \in RL /\ wr(h) + 1 \in RL
  <2> TAKE h \in arrays
  <2>1. pre(h) \in PS /\ suf(h) \in SS OBVIOUS
  <2>2. pre(h) + suf(h) \in RL /\ pre(h) + suf(h) + 1 \in RL
    <3> HIDE DEF PS, SS, pre, suf, RL
    <3> QED BY <2>1, <1>5
  <2> HIDE DEF pre, suf, wr
  <2> QED BY <2>2, <1>1
<1> HIDE DEF pre, suf, wr, RL
<1>8. CASE \E h \in arrays : ~h.rest /\ FitsLength(h, n)
  <2>1. PICK h \in arrays : wr(h) = n BY <1>2, <1>8
  <2>2. n \in RL BY <2>1, <1>7
  <2>3. Represents(n, n, arrays) BY <1>3
  <2> QED BY <2>2, <2>3 DEF RL
<1>9. CASE \A h \in arrays : FitsLength(h, n) => h.rest
  <2> DEFINE fits == {h \in arrays : FitsLength(h, n)}
             PF   == {pre(h) : h \in fits} \cup {0}
             SF   == {suf(h) : h \in fits} \cup {0}
  <2>1. \A h \in fits : h \in arrays /\ h.rest /\ pre(h) <= n /\ suf(h) <= n
    <3> SUFFICES ASSUME NEW h \in fits PROVE h \in arrays /\ h.rest /\ pre(h) <= n /\ suf(h) <= n OBVIOUS
    <3>1. h \in arrays /\ h.rest /\ wr(h) <= n BY <1>2, <1>9
    <3> QED BY <3>1, <1>1
  <2>2. PF \subseteq PS /\ SF \subseteq SS OBVIOUS
  <2>3. PF \subseteq Nat /\ PF # {} /\ (\A x \in PF : x <= n) BY <2>1, <1>1
  <2>4. SF \subseteq Nat /\ SF # {} /\ (\A x \in SF : x <= n) BY <2>1, <1>1
  <2>5. \A h \in fits : pre(h) \in PF /\ suf(h) \in SF OBVIOUS
  <2>6. /\ \A x \in PF : x = 0 \/ \E h \in fits : x = pre(h)
        /\ \A x \in SF : x = 0 \/ \E h \in fits : x = suf(h)
    OBVIOUS
  <2>7. \A h : h \in fits <=> h \in arrays /\ FitsLength(h, n) OBVIOUS
  <2> HIDE DEF PF, SF, PS, SS, fits
  <2>8. PICK P \in PF : \A x \in PF : x <= P BY <2>3, GreatestNumber
  <2>9. PICK S \in SF : \A x \in SF : x <= S BY <2>4, GreatestNumber
  <2>10. P \in Nat /\ S \in Nat /\ P <= n /\ S <= n BY <2>3, <2>4, <2>8, <2>9
  <2>11. P + S <= n
    <3>1. CASE P = 0 \/ S = 0 BY <3>1, <2>10
    <3>2. CASE P # 0 /\ S # 0
      <4>1. PICK g \in fits : P = pre(g) BY <2>6, <3>2
      <4>2. PICK h \in fits : S = suf(h) BY <2>6, <3>2
      <4>3. g.rest /\ h.rest /\ FitsLength(g, n) /\ FitsLength(h, n) /\ g \in arrays /\ h \in arrays
        BY <2>1, <2>7
      <4>4. pre(g) + suf(h) <= n BY <1>6, <4>3
      <4> QED BY <4>1, <4>2, <4>4
    <3> QED BY <3>1, <3>2
  <2>12. \A h \in fits : pre(h) <= P /\ suf(h) <= S BY <2>5, <2>8, <2>9
  <2>13. P + S \in RL /\ P + S + 1 \in RL BY <1>5, <2>2
  <2> DEFINE low == {h \in arrays : ~h.rest /\ wr(h) < n}
             W   == {wr(h) : h \in low} \cup {P + S}
  <2>14. W \subseteq Nat /\ W # {} /\ (\A x \in W : x <= n)
    <3>1. \A h \in low : wr(h) \in Nat /\ wr(h) <= n BY <1>1
    <3>2. P + S \in Nat /\ P + S <= n BY <2>10, <2>11
    <3> QED BY <3>1, <3>2
  <2>15. \A x \in W : x \in RL /\ x + 1 \in RL BY <1>7, <2>13
  <2>16. P + S \in W /\ \A h \in arrays : ~h.rest /\ wr(h) < n => wr(h) \in W OBVIOUS
  <2> HIDE DEF low, W
  <2>17. PICK M \in W : \A x \in W : x <= M BY <2>14, GreatestNumber
  <2>18. /\ M \in Nat /\ M <= n /\ P + S <= M /\ M \in RL /\ M + 1 \in RL
         /\ \A h \in arrays : ~h.rest /\ wr(h) < n => wr(h) <= M
    BY <2>14, <2>15, <2>16, <2>17
  <2>19. CASE M = n
    <3>1. Represents(n, n, arrays) BY <1>3
    <3> QED BY <3>1, <2>18, <2>19 DEF RL
  <2>20. CASE M # n
    <3>1. M + 1 <= n BY <2>18, <2>20
    <3>2. ASSUME NEW h \in arrays PROVE FitsLength(h, M + 1) = FitsLength(h, n)
      <4>1. wr(h) = pre(h) + suf(h) /\ pre(h) \in Nat /\ suf(h) \in Nat BY <1>1
      <4>2. CASE h.rest
        <5>1. (FitsLength(h, M + 1) <=> wr(h) <= M + 1) /\ (FitsLength(h, n) <=> wr(h) <= n) BY <1>2, <4>2
        <5>2. ASSUME wr(h) <= n PROVE wr(h) <= M + 1
          <6>1. h \in fits BY <5>1, <5>2, <2>7
          <6>2. pre(h) <= P /\ suf(h) <= S BY <6>1, <2>12
          <6> QED BY <6>2, <4>1, <2>10, <2>18
        <5>3. wr(h) <= M + 1 => wr(h) <= n BY <4>1, <3>1, <2>18
        <5> QED BY <5>1, <5>2, <5>3, <1>4
      <4>3. CASE ~h.rest
        <5>1. (FitsLength(h, M + 1) <=> wr(h) = M + 1) /\ (FitsLength(h, n) <=> wr(h) = n) BY <1>2, <4>3
        <5>2. ~FitsLength(h, n) BY <1>9, <4>3
        <5>3. wr(h) # M + 1
          <6>1. wr(h) # n BY <5>1, <5>2
          <6>2. wr(h) < n => wr(h) <= M BY <2>18, <4>3
          <6> QED BY <6>1, <6>2, <4>1, <3>1, <2>18
        <5> QED BY <5>1, <5>2, <5>3, <1>4
      <4> QED BY <4>2, <4>3
    <3>3. P \in 0 .. M + 1 BY <2>10, <2>18
    <3>4. ASSUME NEW h \in arrays, FitsLength(h, n)
          PROVE  pre(h) <= P /\ suf(h) <= (M + 1) - P
      <4>1. h \in fits BY <3>4, <2>7
      <4>2. pre(h) <= P /\ suf(h) <= S /\ suf(h) \in Nat BY <4>1, <2>12, <1>1
      <4> QED BY <4>2, <2>10, <2>18
    <3>5. Represents(M + 1, n, arrays) BY <3>1, <3>2, <3>3, <3>4, <1>3
    <3> QED BY <3>5, <2>18 DEF RL
  <2> QED BY <2>19, <2>20
<1> QED BY <1>8, <1>9

\* What is tried represents every length exactly if each length at which two
\* of the patterns overlap is tried for these two.
THEOREM OverlapsDecide == LengthsSuffice <=> OverlapsAreTried
<1>1. ASSUME LengthsSuffice, NEW t \in Types, Shape[t].kind = "array", Shape[t].length = Growable,
             NEW g \in ArrayPatterns(t), NEW h \in ArrayPatterns(t), NEW v \in ValuesOf[t],
             g.rest, h.rest, FitsLength(g, Len(v.arguments)), FitsLength(h, Len(v.arguments)),
             Len(v.arguments) < Len(g.prefix) + Len(h.suffix)
      PROVE  Len(v.arguments) \in RepresentativeLengths({g, h})
  <2>1. {g, h} \in SUBSET ArrayPatterns(t) OBVIOUS
  <2>2. PICK m \in RepresentativeLengths({g, h}) : Represents(m, Len(v.arguments), {g, h})
    BY <1>1, <2>1 DEF LengthsSuffice
  <2>3. PICK n \in Nat : n = Len(v.arguments) BY <1>1, ArrayValue
  <2>4. {g, h} \subseteq Patterns /\ \A a \in {g, h} : a.kind = "array" BY DEF ArrayPatterns
  <2>5. m \in Nat BY <2>4, LengthsAre
  <2>6. CASE m = n BY <2>2, <2>3, <2>6
  <2>7. CASE m # n
    <3>1. PICK k \in 0 .. m : \A a \in {g, h} : FitsLength(a, n) => Len(a.prefix) <= k /\ Len(a.suffix) <= m - k
      BY <2>2, <2>3, <2>7 DEF Represents
    <3>2. m <= n BY <2>2, <2>3 DEF Represents
    <3>3. PICK p \in Nat : p = Len(g.prefix) BY <2>4, PatternKinds
    <3>4. PICK s \in Nat : s = Len(h.suffix) BY <2>4, PatternKinds
    <3>5. n < p + s BY <1>1, <2>3, <3>3, <3>4
    <3>6. p <= k /\ s <= m - k BY <1>1, <2>3, <3>1, <3>3, <3>4
    <3> QED BY <2>5, <3>2, <3>5, <3>6
  <2> QED BY <2>6, <2>7
<1>2. ASSUME OverlapsAreTried, NEW t \in Types, Shape[t].kind = "array", Shape[t].length = Growable,
             NEW arrays \in SUBSET ArrayPatterns(t), NEW v \in ValuesOf[t]
      PROVE  \E m \in RepresentativeLengths(arrays) : Represents(m, Len(v.arguments), arrays)
  <2>1. PICK n \in Nat : n = Len(v.arguments) BY <1>2, ArrayValue
  <2>2. arrays \subseteq Patterns /\ \A h \in arrays : h.kind = "array" BY DEF ArrayPatterns
  <2>3. CASE \E g, h \in arrays : /\ g.rest /\ h.rest /\ FitsLength(g, n) /\ FitsLength(h, n)
                                  /\ n < Len(g.prefix) + Len(h.suffix)
    <3>1. PICK g \in arrays, h \in arrays : /\ g.rest /\ h.rest /\ FitsLength(g, n) /\ FitsLength(h, n)
                                            /\ n < Len(g.prefix) + Len(h.suffix)
      BY <2>3
    <3>2. n \in RepresentativeLengths({g, h}) BY <1>2, <2>1, <3>1 DEF OverlapsAreTried
    <3>3. {g, h} \in SUBSET arrays OBVIOUS
    <3>4. RepresentativeLengths({g, h}) \subseteq RepresentativeLengths(arrays) BY <2>2, <3>3, LengthsAre
    <3>5. Represents(n, n, arrays) BY DEF Represents
    <3> QED BY <2>1, <3>2, <3>4, <3>5
  <2>4. CASE \A g, h \in arrays : g.rest /\ h.rest /\ FitsLength(g, n) /\ FitsLength(h, n) =>
                                    ~(n < Len(g.prefix) + Len(h.suffix))
    <3>1. \A h \in arrays : Len(h.prefix) \in Nat /\ Len(h.suffix) \in Nat BY <2>2, PatternKinds
    <3>2. \A g, h \in arrays : g.rest /\ h.rest /\ FitsLength(g, n) /\ FitsLength(h, n) =>
            Len(g.prefix) + Len(h.suffix) <= n
      <4> TAKE g, h \in arrays
      <4>1. PICK p \in Nat : p = Len(g.prefix) BY <3>1
      <4>2. PICK s \in Nat : s = Len(h.suffix) BY <3>1
      <4>3. ~(n < p + s) => p + s <= n OBVIOUS
      <4> QED BY <2>4, <4>1, <4>2, <4>3
    <3>3. \E m \in RepresentativeLengths(arrays) : Represents(m, n, arrays)
      BY <2>2, <3>2, ApartAreRepresented
    <3> QED BY <3>3, <2>1
  <2> QED BY <2>3, <2>4
<1>3. LengthsSuffice => OverlapsAreTried
  <2> SUFFICES ASSUME LengthsSuffice PROVE OverlapsAreTried OBVIOUS
  <2> QED BY <1>1 DEF OverlapsAreTried
<1>4. OverlapsAreTried => LengthsSuffice
  <2> SUFFICES ASSUME OverlapsAreTried PROVE LengthsSuffice OBVIOUS
  <2> QED BY <1>2 DEF LengthsSuffice
<1> QED BY <1>3, <1>4

-----------------------------------------------------------------------------
(* The analysis ends for types that are not made of themselves. *)

AnswersOf(f, p) ==
  [t \in Types |->
     (IF p.kind # "alternation" THEN {}
      ELSE {PatternIsUseful([i \in 1 .. n - 1 |-> Coverage[p.alternatives[i]]],
                            Coverage[p.alternatives[n]], t).found : n \in DOMAIN p.alternatives})
       \cup UNION {f[part[1]][part[2]] : part \in Parts(p, t)}]

\* AlternativeAnswers is the function its definition says.
LEMMA AlternativeAnswersDef ==
  \A p \in Patterns : AlternativeAnswers[p] = AnswersOf(AlternativeAnswers, p)
<1> DEFINE Low(n) == {p \in Patterns : Height[p] < n}
           Fits(f, n) == f = [p \in Low(n) |-> AnswersOf(f, p)]
<1>0. /\ \A p \in Patterns : Height[p] \in Nat
      /\ \A p \in Patterns : \A q \in Inside(p) : q \in Patterns /\ Height[q] < Height[p]
  BY PatternsAreTrees
<1>1. ASSUME NEW p \in Patterns, NEW f, NEW g, \A q \in Inside(p) : f[q] = g[q]
      PROVE  AnswersOf(f, p) = AnswersOf(g, p)
  <2>1. ASSUME NEW t PROVE {f[part[1]][part[2]] : part \in Parts(p, t)} = {g[part[1]][part[2]] : part \in Parts(p, t)}
    <3>1. \A part \in Parts(p, t) : f[part[1]] = g[part[1]] BY <1>1, PartsAreInside
    <3> QED BY <3>1
  <2> QED BY <2>1 DEF AnswersOf
<1>2. ASSUME NEW n \in Nat, NEW m \in Nat, NEW f, NEW g, Fits(f, n), Fits(g, m)
      PROVE  \A p \in Patterns : Height[p] < n /\ Height[p] < m => f[p] = g[p]
  <2> DEFINE S == {p \in Patterns : Height[p] < n /\ Height[p] < m => f[p] = g[p]}
  <2>1. ASSUME NEW p \in Patterns, \A q \in Inside(p) : q \in S PROVE p \in S
    <3> SUFFICES ASSUME Height[p] < n, Height[p] < m PROVE f[p] = g[p] OBVIOUS
    <3>1. ASSUME NEW q \in Inside(p) PROVE f[q] = g[q]
      <4>1. q \in Patterns /\ Height[q] < n /\ Height[q] < m BY <1>0
      <4> QED BY <4>1, <2>1
    <3>2. AnswersOf(f, p) = AnswersOf(g, p) BY <3>1, <1>1
    <3>3. f[p] = AnswersOf(f, p) /\ g[p] = AnswersOf(g, p) BY <1>2
    <3> QED BY <3>2, <3>3
  <2>2. Patterns \subseteq S
    <3> HIDE DEF S
    <3> QED BY <2>1, PatternInduction
  <2> QED BY <2>2
<1>3. \A n \in Nat : \E f : Fits(f, n)
  <2> DEFINE E == {n \in Nat : \E f : Fits(f, n)}
  <2>1. 0 \in E
    <3>1. Low(0) = {} BY <1>0
    <3>2. \A f : f = [p \in {} |-> 0] => f = [p \in Low(0) |-> AnswersOf(f, p)] BY <3>1
    <3> QED BY <3>2
  <2>2. ASSUME NEW n \in Nat, n \in E PROVE n + 1 \in E
    <3>1. PICK f : Fits(f, n) BY <2>2
    <3> DEFINE g == [p \in Low(n + 1) |-> AnswersOf(f, p)]
    <3>2. ASSUME NEW p \in Low(n + 1) PROVE AnswersOf(f, p) = AnswersOf(g, p)
      <4>1. ASSUME NEW q \in Inside(p) PROVE f[q] = g[q]
        <5>1. q \in Patterns /\ Height[q] < n /\ Height[q] < n + 1 BY <1>0
        <5>2. f[q] = AnswersOf(f, q) BY <5>1, <3>1
        <5> QED BY <5>1, <5>2
      <4> HIDE DEF g
      <4> QED BY <4>1, <1>1
    <3>3. g = [p \in Low(n + 1) |-> AnswersOf(g, p)] BY <3>2
    <3> HIDE DEF g
    <3> QED BY <3>3
  <2> HIDE DEF E
  <2>3. Nat \subseteq E BY <2>1, <2>2, NumberInduction
  <2> QED BY <2>3 DEF E
<1> DEFINE of(p) == CHOOSE f : Fits(f, Height[p] + 1)
           c == [p \in Patterns |-> of(p)[p]]
<1>4. ASSUME NEW p \in Patterns PROVE Fits(of(p), Height[p] + 1)
  <2>1. Height[p] + 1 \in Nat BY <1>0
  <2>2. \E f : Fits(f, Height[p] + 1) BY <1>3, <2>1
  <2> HIDE DEF Fits
  <2> QED BY <2>2
<1>5. ASSUME NEW p \in Patterns PROVE of(p)[p] = AnswersOf(of(p), p)
  <2>1. p \in Low(Height[p] + 1) BY <1>0
  <2> DEFINE o == of(p)
  <2>2. o = [r \in Low(Height[p] + 1) |-> AnswersOf(o, r)] BY <1>4
  <2> HIDE DEF o
  <2>3. o[p] = AnswersOf(o, p) BY <2>1, <2>2
  <2> QED BY <2>3 DEF o
<1>6. \A p \in Patterns : c[p] = of(p)[p] OBVIOUS
<1>7. c = [p \in Patterns |-> of(p)[p]] OBVIOUS
<1> HIDE DEF of, c, Fits
<1>8. ASSUME NEW p \in Patterns PROVE c[p] = AnswersOf(c, p)
  <2>1. ASSUME NEW q \in Inside(p) PROVE of(p)[q] = c[q]
    <3>1. /\ q \in Patterns /\ Height[q] < Height[p] + 1 /\ Height[q] < Height[q] + 1
          /\ Height[p] + 1 \in Nat /\ Height[q] + 1 \in Nat
      BY <1>0
    <3>2. Fits(of(p), Height[p] + 1) /\ Fits(of(q), Height[q] + 1) BY <1>4, <3>1
    <3>3. of(p)[q] = of(q)[q] BY <1>2, <3>1, <3>2
    <3> QED BY <3>1, <3>3, <1>6
  <2>2. AnswersOf(of(p), p) = AnswersOf(c, p) BY <2>1, <1>1
  <2> QED BY <2>2, <1>5, <1>6
<1>9. c = [p \in Patterns |-> AnswersOf(c, p)] BY <1>7, <1>8, <1>6
<1>10. AlternativeAnswers = [p \in Patterns |-> AnswersOf(AlternativeAnswers, p)]
  BY <1>9 DEF AlternativeAnswers, AnswersOf
<1> QED BY <1>10


\* What is left to spend at each place of a row: enough for the type and the
\* pattern there and for the places after it.
Carries(left, candidate, types, cost) ==
  /\ left \in [1 .. Len(types) + 1 -> Nat]
  /\ \A i \in 1 .. Len(types) :
       types[i] \in DOMAIN cost /\ left[i] >= left[i + 1] + cost[types[i]] + Height[candidate[i]]

\* The patterns of a row cost at most n.
Affords(n, candidate, types, cost) ==
  \E left : Carries(left, candidate, types, cost) /\ left[1] <= n

\* With fewer calls deep than depth there is an answer.
Ends(answers, depth, cost) ==
  \A q : \A n \in Nat :
    TypedQuestion(q) /\ n < depth /\ Affords(n, q.candidate, q.types, cost) => answers[q].found # "endless"

\* One pattern costs what its type costs and its height.
LEMMA OneAfforded ==
  ASSUME NEW S \in SUBSET Types, NEW cost \in [S -> Nat \ {0}], NEW t \in S, NEW p \in Patterns
  PROVE  Affords(cost[t] + Height[p], <<p>>, <<t>>, cost)
<1> DEFINE c == cost[t] + Height[p]
           left == [i \in 1 .. 2 |-> IF i = 1 THEN c ELSE 0]
<1>1. Height[p] \in Nat /\ cost[t] \in Nat /\ c \in Nat BY PatternsAreTrees
<1>2. Len(<<t>>) = 1 /\ <<t>>[1] = t /\ <<p>>[1] = p /\ \A i \in 1 .. 1 : i = 1 OBVIOUS
<1>3. left \in [1 .. 2 -> Nat] /\ left[1] = c /\ left[2] = 0 BY <1>1
<1>4. t \in DOMAIN cost OBVIOUS
<1>5. c >= 0 + cost[t] + Height[p] BY <1>1
<1> HIDE DEF left, c
<1>6. Carries(left, <<p>>, <<t>>, cost) BY <1>2, <1>3, <1>4, <1>5 DEF Carries
<1>7. left[1] <= c BY <1>1, <1>3
<1> QED BY <1>6, <1>7 DEF Affords, c

\* Two rows cost what each of them costs.
LEMMA ConcatAfforded ==
  ASSUME NEW cost, NEW s \in Seq(Types), NEW t \in Seq(Types), NEW a, TypedRow(a, s), NEW b, TypedRow(b, t),
         NEW k \in Nat, Affords(k, a, s, cost), NEW m \in Nat, Affords(m, b, t, cost),
         \A c \in DOMAIN cost : cost[c] \in Nat
  PROVE  Affords(k + m, a \o b, s \o t, cost)
<1>1. PICK x : Carries(x, a, s, cost) /\ x[1] <= k BY DEF Affords
<1>2. PICK y : Carries(y, b, t, cost) /\ y[1] <= m BY DEF Affords
<1>3. PICK i1 \in Nat : i1 = Len(s) OBVIOUS
<1>4. PICK i2 \in Nat : i2 = Len(t) OBVIOUS
<1>5. /\ a \in Seq(Patterns) /\ Len(a) = i1 /\ b \in Seq(Patterns) /\ Len(b) = i2
  BY <1>3, <1>4 DEF TypedRow
<1> DEFINE c == a \o b
           u == s \o t
           left == [i \in 1 .. i1 + i2 + 1 |-> IF i <= i1 THEN x[i] + y[1] ELSE y[i - i1]]
<1>6. c \in Seq(Patterns) /\ Joins(c, a, b) /\ u \in Seq(Types) /\ Joins(u, s, t) BY <1>5, ConcatJoins
<1>7. /\ x \in [1 .. i1 + 1 -> Nat]
      /\ \A i \in 1 .. i1 : s[i] \in DOMAIN cost /\ x[i] >= x[i + 1] + cost[s[i]] + Height[a[i]]
      /\ y \in [1 .. i2 + 1 -> Nat]
      /\ \A i \in 1 .. i2 : t[i] \in DOMAIN cost /\ y[i] >= y[i + 1] + cost[t[i]] + Height[b[i]]
  BY <1>1, <1>2, <1>3, <1>4 DEF Carries
<1>8. \A i \in 1 .. i1 + 1 : x[i] \in Nat
  BY <1>7
<1>9. \A i \in 1 .. i2 + 1 : y[i] \in Nat
  BY <1>7
<1>10. /\ \A i \in 1 .. i1 : i \in 1 .. i1 + i2 /\ c[i] = a[i] /\ u[i] = s[i]
       /\ \A i \in 1 .. i2 : i1 + i \in 1 .. i1 + i2 /\ c[i1 + i] = b[i] /\ u[i1 + i] = t[i]
       /\ Len(c) = i1 + i2 /\ Len(u) = i1 + i2
  BY <1>3, <1>4, <1>5, <1>6 DEF Joins
<1> HIDE DEF c, u
<1>11. ASSUME NEW i \in 1 .. i1 + i2 + 1 PROVE left[i] \in Nat
  <2>1. CASE i <= i1
    <3>1. x[i] \in Nat /\ y[1] \in Nat /\ left[i] = x[i] + y[1] BY <1>8, <1>9, <2>1
    <3> QED BY <3>1
  <2>2. CASE ~(i <= i1)
    <3>1. i - i1 \in 1 .. i2 + 1 BY <2>2
    <3> QED BY <3>1, <2>2, <1>9
  <2> QED BY <2>1, <2>2
<1>12. left \in [1 .. Len(u) + 1 -> Nat] BY <1>10, <1>11
<1>13. ASSUME NEW i \in 1 .. i1 + i2
       PROVE  u[i] \in DOMAIN cost /\ left[i] >= left[i + 1] + cost[u[i]] + Height[c[i]]
  <2>1. CASE i <= i1
    <3>1. i \in 1 .. i1 /\ u[i] = s[i] /\ c[i] = a[i] /\ i + 1 \in 1 .. i1 + i2 + 1 /\ i + 1 \in 1 .. i1 + 1
      BY <2>1, <1>10
    <3>2. left[i] = x[i] + y[1] BY <2>1
    <3>3. a[i] \in Patterns /\ Height[a[i]] \in Nat /\ cost[s[i]] \in Nat
      <4>1. a[i] \in Patterns BY <3>1, <1>5
      <4> QED BY <4>1, <3>1, <1>7, PatternsAreTrees
    <3>4. CASE i + 1 <= i1
      <4>1. left[i + 1] = x[i + 1] + y[1] BY <3>1, <3>4
      <4>2. x[i] \in Nat /\ x[i + 1] \in Nat /\ y[1] \in Nat BY <3>1, <1>8, <1>9
      <4>3. x[i] >= x[i + 1] + cost[s[i]] + Height[a[i]] /\ s[i] \in DOMAIN cost BY <3>1, <1>7
      <4> HIDE DEF left
      <4>4. \A e, f, g, h, j \in Nat : e >= f + g + h => e + j >= f + j + g + h OBVIOUS
      <4>5. x[i] + y[1] >= x[i + 1] + y[1] + cost[s[i]] + Height[a[i]] BY ONLY <3>3, <4>2, <4>3, <4>4
      <4> QED BY <3>1, <3>2, <4>1, <4>3, <4>5
    <3>5. CASE ~(i + 1 <= i1)
      <4>0. i + 1 - i1 = 1 BY <3>1, <3>5
      <4>1. left[i + 1] = y[1]
        <5>1. left[i + 1] = y[i + 1 - i1] BY <3>1, <3>5
        <5> QED BY <5>1, <4>0
      <4>2. x[i] \in Nat /\ x[i + 1] \in Nat /\ y[1] \in Nat BY <3>1, <1>8, <1>9
      <4>3. x[i] >= x[i + 1] + cost[s[i]] + Height[a[i]] /\ s[i] \in DOMAIN cost BY <3>1, <1>7
      <4> HIDE DEF left
      <4>4. \A e, f, g, h, j \in Nat : e >= f + g + h => e + j >= j + g + h OBVIOUS
      <4>5. x[i] + y[1] >= y[1] + cost[s[i]] + Height[a[i]] BY ONLY <3>3, <4>2, <4>3, <4>4
      <4> QED BY <3>1, <3>2, <4>1, <4>3, <4>5
    <3> QED BY <3>4, <3>5
  <2>2. CASE ~(i <= i1)
    <3>1. PICK j \in 1 .. i2 : j = i - i1 BY <2>2
    <3>2. i = i1 + j /\ i + 1 - i1 = j + 1 /\ ~(i + 1 <= i1) /\ i + 1 \in 1 .. i1 + i2 + 1 BY <3>1, <2>2
    <3>3. u[i] = t[j] /\ c[i] = b[j] BY <3>2, <1>10
    <3>4. left[i] = y[j] /\ left[i + 1] = y[j + 1] BY <2>2, <3>1, <3>2
    <3> HIDE DEF left
    <3> QED BY <3>1, <3>3, <3>4, <1>7
  <2> QED BY <2>1, <2>2
<1>14. left[1] <= k + m
  <2>1. CASE i1 = 0
    <3>1. left[1] = y[1] BY <2>1
    <3> QED BY <3>1, <1>2, <1>9
  <2>2. CASE i1 # 0
    <3>1. left[1] = x[1] + y[1] /\ 1 \in 1 .. i1 + 1 /\ 1 \in 1 .. i2 + 1 BY <2>2
    <3>2. x[1] \in Nat /\ y[1] \in Nat BY <3>1, <1>8, <1>9
    <3> HIDE DEF left
    <3> QED BY <3>1, <3>2, <1>1, <1>2
  <2> QED BY <2>1, <2>2
<1> HIDE DEF left
<1>15. Carries(left, c, u, cost) BY <1>10, <1>12, <1>13 DEF Carries
<1> QED BY <1>14, <1>15 DEF Affords, c, u

\* Without its first pattern a row costs less, by what that costs.
LEMMA TailAfforded ==
  ASSUME NEW S \in SUBSET Types, NEW cost \in [S -> Nat \ {0}],
         NEW types \in Seq(Types), types # << >>, NEW candidate, TypedRow(candidate, types),
         NEW n \in Nat, Affords(n, candidate, types, cost)
  PROVE  /\ Head(types) \in S
         /\ \E m \in Nat : /\ m + cost[Head(types)] + Height[Head(candidate)] <= n
                           /\ Affords(m, Tail(candidate), Tail(types), cost)
<1>1. PICK x : Carries(x, candidate, types, cost) /\ x[1] <= n BY DEF Affords
<1>2. PICK k \in Nat \ {0} : k = Len(types) BY HeadTailProperties
<1>3. candidate \in Seq(Patterns) /\ Len(candidate) = k BY <1>2 DEF TypedRow
<1>4. /\ Head(candidate) = candidate[1] /\ Head(types) = types[1] /\ candidate[1] \in Patterns
      /\ Len(Tail(types)) = k - 1 /\ Len(Tail(candidate)) = k - 1
  BY <1>2, <1>3, HeadTailProperties
<1>5. \A i \in 1 .. k - 1 : Tail(candidate)[i] = candidate[i + 1] /\ Tail(types)[i] = types[i + 1]
  BY <1>2, <1>3, HeadTailProperties
<1>6. /\ x \in [1 .. k + 1 -> Nat]
      /\ \A i \in 1 .. k : types[i] \in DOMAIN cost /\ x[i] >= x[i + 1] + cost[types[i]] + Height[candidate[i]]
  BY <1>1, <1>2 DEF Carries
<1>7. 1 \in 1 .. k /\ 1 \in 1 .. k + 1 /\ 2 \in 1 .. k + 1 OBVIOUS
<1>8. Head(types) \in S /\ x[1] >= x[2] + cost[Head(types)] + Height[Head(candidate)] /\ x[1] \in Nat /\ x[2] \in Nat
  BY <1>4, <1>6, <1>7
<1>9. cost[Head(types)] \in Nat /\ Height[Head(candidate)] \in Nat BY <1>4, <1>8, PatternsAreTrees
<1> DEFINE left == [i \in 1 .. k |-> x[i + 1]]
           a == Tail(candidate)
           u == Tail(types)
<1>10. left \in [1 .. k -> Nat]
  <2>1. \A i \in 1 .. k : i + 1 \in 1 .. k + 1 OBVIOUS
  <2> QED BY <2>1, <1>6
<1>11. (k - 1) + 1 = k OBVIOUS
<1>12. ASSUME NEW i \in 1 .. k - 1
       PROVE  u[i] \in DOMAIN cost /\ left[i] >= left[i + 1] + cost[u[i]] + Height[a[i]]
  <2>1. i + 1 \in 1 .. k /\ i \in 1 .. k /\ u[i] = types[i + 1] /\ a[i] = candidate[i + 1]
    <3>1. i + 1 \in 1 .. k /\ i \in 1 .. k OBVIOUS
    <3>2. u[i] = types[i + 1] /\ a[i] = candidate[i + 1] BY <1>5
    <3> QED BY <3>1, <3>2
  <2>2. left[i] = x[i + 1] /\ left[i + 1] = x[i + 1 + 1] BY <2>1
  <2> HIDE DEF left, u, a
  <2> QED BY <2>1, <2>2, <1>6
<1>13. left[1] = x[2] BY <1>7
<1> HIDE DEF left, a, u
<1>14. Carries(left, a, u, cost)
  <2>1. Len(u) = k - 1 BY <1>4 DEF u
  <2> QED BY <2>1, <1>10, <1>11, <1>12 DEF Carries
<1>15. Affords(x[2], a, u, cost) BY <1>8, <1>13, <1>14 DEF Affords
<1>16. x[2] + cost[Head(types)] + Height[Head(candidate)] <= n BY <1>1, <1>8, <1>9
<1> QED BY <1>8, <1>15, <1>16 DEF a, u

\* No patterns cost nothing.
LEMMA NothingAfforded ==
  ASSUME NEW cost
  PROVE  Affords(0, << >>, << >>, cost)
<1> DEFINE left == [i \in 1 .. 1 |-> 0]
<1>1. left \in [1 .. 0 + 1 -> Nat] /\ left[1] = 0 OBVIOUS
<1>2. Len(<< >>) = 0 OBVIOUS
<1> HIDE DEF left
<1>3. Carries(left, << >>, << >>, cost) BY <1>1, <1>2 DEF Carries
<1> QED BY <1>1, <1>3 DEF Affords

\* Patterns for what a type is made of cost less than the type.
LEMMA ArgumentsAfforded ==
  ASSUME NEW S \in SUBSET Types, NEW cost \in [S -> Nat \ {0}], NEW tallest \in Nat,
         \A p \in Patterns : Height[p] <= tallest,
         NEW of \in Seq(Types), NEW a, TypedRow(a, of), NEW c \in Nat \ {0},
         \A i \in 1 .. Len(of) : of[i] \in S /\ Len(of) * (cost[of[i]] + tallest) < c
  PROVE  \E k \in Nat : k < c /\ Affords(k, a, of, cost)
<1>1. PICK n \in Nat : n = Len(of) OBVIOUS
<1>2. a \in Seq(Patterns) /\ Len(a) = n BY <1>1 DEF TypedRow
<1>3. CASE n = 0
  <2>1. of = << >> /\ a = << >>
    <3>1. of = << >>
      <4>1. Len(of) = 0 BY <1>1, <1>3
      <4> QED BY <4>1
    <3>2. a = << >> BY <1>2, <1>3
    <3> QED BY <3>1, <3>2
  <2>2. Affords(0, << >>, << >>, cost) BY NothingAfforded
  <2> QED BY <2>1, <2>2
<1>4. CASE n # 0
  <2> DEFINE M == {cost[of[i]] + tallest : i \in 1 .. n}
  <2>1. \A i \in 1 .. n : of[i] \in S /\ cost[of[i]] + tallest \in Nat /\ n * (cost[of[i]] + tallest) < c
    BY <1>1
  <2>2. M \subseteq Nat /\ M # {} BY <2>1, <1>4
  <2>3. \A x \in M : n * x < c BY <2>1
  <2>4. \A x \in M : x <= c
    <3> SUFFICES ASSUME NEW x \in M PROVE x <= c OBVIOUS
    <3>1. x \in Nat /\ n * x < c /\ n >= 1 BY <2>2, <2>3, <1>4
    <3>2. x <= n * x
      <4>1. PICK j \in Nat : n = j + 1
        <5>1. n - 1 \in Nat /\ n = (n - 1) + 1 BY <3>1
        <5> QED BY <5>1
      <4>2. n * x = j * x + x /\ j * x \in Nat BY <3>1, <4>1
      <4> QED BY <3>1, <4>2
    <3>3. PICK y \in Nat : y = n * x BY <3>1
    <3>4. x <= y /\ y < c /\ x \in Nat BY <3>1, <3>2, <3>3
    <3> HIDE DEF M
    <3> QED BY <3>3, <3>4
  <2>5. PICK m \in M : \A x \in M : x <= m
    <3> HIDE DEF M
    <3> QED BY <2>2, <2>4, GreatestNumber
  <2>6. m \in Nat /\ n * m < c BY <2>2, <2>3
  <2>7. \A i \in 1 .. n : cost[of[i]] + tallest <= m BY <2>5
  <2> HIDE DEF M
  <2> DEFINE left == [i \in 1 .. n + 1 |-> (n + 1 - i) * m]
  <2>8. \A j \in Nat : j * m \in Nat /\ (j + 1) * m = j * m + m BY <2>6
  <2>9. left \in [1 .. n + 1 -> Nat]
    <3>1. \A i \in 1 .. n + 1 : n + 1 - i \in Nat OBVIOUS
    <3> QED BY <3>1, <2>8
  <2>10. ASSUME NEW i \in 1 .. n
         PROVE  of[i] \in DOMAIN cost /\ left[i] >= left[i + 1] + cost[of[i]] + Height[a[i]]
    <3>1. PICK j \in Nat : j = n + 1 - (i + 1) OBVIOUS
    <3>2. n + 1 - i = j + 1 /\ i + 1 \in 1 .. n + 1 /\ i \in 1 .. n + 1 BY <3>1
    <3>3. left[i + 1] = j * m /\ left[i] = (j + 1) * m BY <3>1, <3>2
    <3>4. left[i] = j * m + m /\ j * m \in Nat BY <3>3, <2>8
    <3>5. a[i] \in Patterns /\ Height[a[i]] \in Nat /\ Height[a[i]] <= tallest
      <4>1. a[i] \in Patterns BY <1>2
      <4> QED BY <4>1, PatternsAreTrees
    <3>6. of[i] \in S /\ cost[of[i]] \in Nat /\ cost[of[i]] + tallest <= m BY <2>1, <2>7
    <3>7. PICK y \in Nat : y = j * m BY <3>4
    <3>8. left[i + 1] = y /\ left[i] = y + m BY <3>3, <3>4, <3>7
    <3> HIDE DEF left
    <3> QED BY <3>5, <3>6, <3>7, <3>8, <2>6
  <2>11. left[1] = n * m
    <3>1. 1 \in 1 .. n + 1 /\ n + 1 - 1 = n OBVIOUS
    <3> QED BY <3>1
  <2> HIDE DEF left
  <2>12. Carries(left, a, of, cost) BY <1>1, <2>9, <2>10 DEF Carries
  <2>13. n * m \in Nat BY <2>6
  <2> QED BY <2>6, <2>11, <2>12, <2>13 DEF Affords
<1> QED BY <1>3, <1>4

\* A question that costs less than one that may be asked is answered.
LEMMA DeeperEnds ==
  ASSUME NEW cost, NEW deeper, NEW depth \in Nat, Ends(deeper, depth, cost),
         NEW types \in Seq(Types), NEW candidate, TypedRow(candidate, types),
         NEW matrix, TypedRows(matrix, types), NEW m \in Nat, m < depth, Affords(m, candidate, types, cost)
  PROVE  deeper[Question(matrix, candidate, types)].found # "endless"
<1>1. Asks(Question(matrix, candidate, types), matrix, candidate, types) BY QuestionIs
<1> QED BY <1>1 DEF Asks, Ends

\* A question with the arguments of the first pattern in its place is answered.
LEMMA ArgumentsEnd ==
  ASSUME NEW S \in SUBSET Types, NEW cost \in [S -> Nat \ {0}], NEW tallest \in Nat,
         \A p \in Patterns : Height[p] <= tallest,
         NEW deeper, NEW depth \in Nat, Ends(deeper, depth, cost),
         NEW q, TypedQuestion(q), q.candidate # << >>,
         NEW n \in Nat, n <= depth, Affords(n, q.candidate, q.types, cost),
         NEW of \in Seq(Types), NEW a, TypedRow(a, of), NEW matrix, TypedRows(matrix, of \o Tail(q.types)),
         \A i \in 1 .. Len(of) : of[i] \in S /\ Len(of) * (cost[of[i]] + tallest) < cost[Head(q.types)]
  PROVE  deeper[Question(matrix, a \o Tail(q.candidate), of \o Tail(q.types))].found # "endless"
<1>1. /\ q.types \in Seq(Types) /\ q.types # << >> /\ Tail(q.types) \in Seq(Types)
      /\ TypedRow(q.candidate, q.types) /\ TypedRow(Tail(q.candidate), Tail(q.types))
      /\ Head(q.candidate) \in Patterns
  BY FirstColumn
<1>2. /\ Head(q.types) \in S
      /\ \E m \in Nat : /\ m + cost[Head(q.types)] + Height[Head(q.candidate)] <= n
                        /\ Affords(m, Tail(q.candidate), Tail(q.types), cost)
  BY <1>1, TailAfforded
<1>3. PICK m \in Nat : /\ m + cost[Head(q.types)] + Height[Head(q.candidate)] <= n
                       /\ Affords(m, Tail(q.candidate), Tail(q.types), cost)
  BY <1>2
<1>4. cost[Head(q.types)] \in Nat \ {0} /\ Height[Head(q.candidate)] \in Nat BY <1>1, <1>2, PatternsAreTrees
<1>5. PICK k \in Nat : k < cost[Head(q.types)] /\ Affords(k, a, of, cost) BY <1>4, ArgumentsAfforded
<1>6. Affords(k + m, a \o Tail(q.candidate), of \o Tail(q.types), cost)
  <2>1. \A c \in DOMAIN cost : cost[c] \in Nat OBVIOUS
  <2> QED BY <2>1, <1>1, <1>3, <1>5, ConcatAfforded
<1>7. k + m < depth /\ k + m \in Nat BY <1>3, <1>4, <1>5
<1>8. TypedRow(a \o Tail(q.candidate), of \o Tail(q.types)) /\ of \o Tail(q.types) \in Seq(Types)
  <2>1. TypedRow(a \o Tail(q.candidate), of \o Tail(q.types)) BY <1>1, ConcatRow
  <2>2. of \o Tail(q.types) \in Seq(Types) BY <1>1
  <2> QED BY <2>1, <2>2
<1> QED BY <1>6, <1>7, <1>8, DeeperEnds

\* A question without its first column is answered.
LEMMA RestEnds ==
  ASSUME NEW S \in SUBSET Types, NEW cost \in [S -> Nat \ {0}],
         NEW deeper, NEW depth \in Nat, Ends(deeper, depth, cost),
         NEW q, TypedQuestion(q), q.candidate # << >>,
         NEW n \in Nat, n <= depth, Affords(n, q.candidate, q.types, cost),
         NEW matrix, TypedRows(matrix, Tail(q.types))
  PROVE  deeper[Question(matrix, Tail(q.candidate), Tail(q.types))].found # "endless"
<1>1. /\ q.types \in Seq(Types) /\ q.types # << >> /\ Tail(q.types) \in Seq(Types)
      /\ TypedRow(q.candidate, q.types) /\ TypedRow(Tail(q.candidate), Tail(q.types))
      /\ Head(q.candidate) \in Patterns
  BY FirstColumn
<1>2. /\ Head(q.types) \in S
      /\ \E m \in Nat : /\ m + cost[Head(q.types)] + Height[Head(q.candidate)] <= n
                        /\ Affords(m, Tail(q.candidate), Tail(q.types), cost)
  BY <1>1, TailAfforded
<1>3. PICK m \in Nat : /\ m + cost[Head(q.types)] + Height[Head(q.candidate)] <= n
                       /\ Affords(m, Tail(q.candidate), Tail(q.types), cost)
  BY <1>2
<1>4. cost[Head(q.types)] \in Nat \ {0} /\ Height[Head(q.candidate)] \in Nat BY <1>1, <1>2, PatternsAreTrees
<1>5. m < depth BY <1>3, <1>4
<1> QED BY <1>1, <1>3, <1>5, DeeperEnds

\* A question that may be asked, with the answers one call deeper.
Asked(q, n, deeper, depth, cost) ==
  /\ TypedQuestion(q) /\ q.candidate # << >> /\ TypeIsInhabited(Head(q.types))
  /\ n <= depth /\ Affords(n, q.candidate, q.types, cost)
  /\ Ends(deeper, depth, cost)

\* What a type that is not made of itself is made of costs less than the type.
LEMMA MadeOfLess ==
  ASSUME NEW S \in SUBSET Types, NEW cost \in [S -> Nat \ {0}], NEW tallest \in Nat, Grounded(cost, tallest),
         NEW q, NEW n \in Nat, NEW deeper, NEW depth \in Nat, Asked(q, n, deeper, depth, cost),
         NEW of \in Seq(Types), of = << >> \/ of \in MadeOf(Head(q.types))
  PROVE  /\ \A p \in Patterns : Height[p] <= tallest
         /\ \A i \in 1 .. Len(of) : of[i] \in S /\ Len(of) * (cost[of[i]] + tallest) < cost[Head(q.types)]
<1>1. q.types \in Seq(Types) /\ q.types # << >> /\ TypedRow(q.candidate, q.types) BY FirstColumn DEF Asked
<1>2. Head(q.types) \in S BY <1>1, TailAfforded DEF Asked
<1>3. DOMAIN cost = S /\ DOMAIN of = 1 .. Len(of) OBVIOUS
<1>4. CASE of = << >>
  <2>1. 1 .. Len(of) = {} BY <1>4
  <2> QED BY <2>1 DEF Grounded
<1>5. CASE of \in MadeOf(Head(q.types))
  <2> QED BY <1>2, <1>3, <1>5 DEF Grounded, Asked
<1> QED BY <1>4, <1>5

\* The question about one constructor is answered.
LEMMA ConstructorEnds ==
  ASSUME NEW S \in SUBSET Types, NEW cost \in [S -> Nat \ {0}], NEW tallest \in Nat, Grounded(cost, tallest),
         NEW q, NEW n \in Nat, NEW deeper, NEW depth \in Nat, Asked(q, n, deeper, depth, cost),
         Shape[Head(q.types)].kind \notin {"integer", "array"},
         NEW con, IsConstructor(con, Head(q.types)), Head(q.candidate).kind # "alternation",
         Head(q.candidate) = Irrefutable \/ (Head(q.candidate).kind = "constructed" /\ Head(q.candidate).con = con)
  PROVE  ConstructorWitness(deeper, q, con).found # "endless"
<1> DEFINE t      == Head(q.types)
           head   == Head(q.candidate)
           of     == ArgumentTypes(con, t)
           args   == Arguments(head, Len(of))
           matrix == SpecializeMatrix(q.matrix, con, Len(of))
           p      == Question(matrix, args \o Tail(q.candidate), of \o Tail(q.types))
<1>1. /\ TypedQuestion(q) /\ q.candidate # << >>
      /\ q.types \in Seq(Types) /\ q.types # << >> /\ t \in Types /\ TypedRows(q.matrix, q.types)
      /\ head \in Patterns /\ WellFormed[head][t]
  BY FirstColumn DEF Asked
<1>2. of \in Seq(Types) BY <1>1, ConstructorTypes
<1>3. TypedRow(args, of) BY <1>1, ConstructorHead
<1>4. TypedRows(matrix, of \o Tail(q.types)) BY <1>1, SpecializedMatrix
<1>5. of = << >> \/ of \in MadeOf(t)
  <2>1. CASE Shape[t].kind = "open"
    <3>1. con[1] = "text" BY <2>1 DEF IsConstructor
    <3> QED BY <3>1 DEF ArgumentTypes
  <2>2. CASE Shape[t].kind # "open"
    <3>1. con \in Range(ConstructorsOf(t)) BY <2>2 DEF IsConstructor
    <3> QED BY <3>1 DEF MadeOf
  <2> QED BY <2>1, <2>2
<1>6. ConstructorWitness(deeper, q, con).found = deeper[p].found
  BY GatherIs DEF ConstructorWitness
<1> HIDE DEF t, head, args, matrix, of
<1>7. /\ \A r \in Patterns : Height[r] <= tallest
      /\ \A i \in 1 .. Len(of) : of[i] \in S /\ Len(of) * (cost[of[i]] + tallest) < cost[Head(q.types)]
  BY <1>2, <1>5, MadeOfLess DEF t
<1>8. deeper[p].found # "endless"
  BY <1>1, <1>2, <1>3, <1>4, <1>7, ArgumentsEnd DEF Asked
<1> QED BY <1>6, <1>8

\* The questions about all constructors are answered.
LEMMA EveryConstructorEnds ==
  ASSUME NEW S \in SUBSET Types, NEW cost \in [S -> Nat \ {0}], NEW tallest \in Nat, Grounded(cost, tallest),
         NEW q, NEW n \in Nat, NEW deeper, NEW depth \in Nat, Asked(q, n, deeper, depth, cost),
         Shape[Head(q.types)].kind \in {"bool", "option", "result", "step", "struct", "enum"},
         Head(q.candidate) = Irrefutable
  PROVE  EveryConstructorWitness(deeper, q).found # "endless"
<1> DEFINE t  == Head(q.types)
           cs == ConstructorsOf(t)
           answer(c) == ConstructorWitness(deeper, q, cs[c])
           tries == {Attempt(c, answer(c)) : c \in DOMAIN cs}
<1>1. t \in Types BY FirstColumn DEF Asked
<1>2. PatternConstructors(t) = cs BY DEF PatternConstructors, Asked
<1>3. EveryConstructorWitness(deeper, q) = First(tries) BY <1>2 DEF EveryConstructorWitness
<1>4. ASSUME NEW c \in DOMAIN cs PROVE answer(c).found # "endless"
  <2>1. cs[c] \in Range(cs) BY DEF Range
  <2>2. IsConstructor(cs[c], t) BY <2>1 DEF IsConstructor
  <2>3. Head(q.candidate).kind # "alternation" BY WildcardTakes
  <2> HIDE DEF cs
  <2> QED BY <2>2, <2>3, ConstructorEnds
<1>5. \A c \in DOMAIN cs : c \in Int /\ 1 <= c BY <1>1, ConstructorsAreNumbered
<1> HIDE DEF cs, answer
<1>6. \A a \in tries : a.at \in Int /\ 1 <= a.at /\ a.answer.found # "endless" BY <1>4, <1>5 DEF Attempt
<1> HIDE DEF tries
<1>7. First(tries).found = "endless" => \E a \in tries : a.answer.found = "endless" BY <1>6, FirstIs
<1> QED BY <1>3, <1>6, <1>7

\* The question about everything that is not named is answered.
LEMMA DefaultEnds ==
  ASSUME NEW S \in SUBSET Types, NEW cost \in [S -> Nat \ {0}],
         NEW q, NEW n \in Nat, NEW deeper, NEW depth \in Nat, Asked(q, n, deeper, depth, cost)
  PROVE  DefaultWitness(deeper, q).found # "endless"
<1> DEFINE matrix == DefaultMatrix(q.matrix)
           p      == Question(matrix, Tail(q.candidate), Tail(q.types))
<1>1. q.types \in Seq(Types) /\ q.types # << >> /\ TypedRows(q.matrix, q.types) BY FirstColumn DEF Asked
<1>2. TypedRows(matrix, Tail(q.types)) BY <1>1, DefaultRows
<1>3. DefaultWitness(deeper, q).found = deeper[p].found BY GatherIs DEF DefaultWitness
<1>4. deeper[p].found # "endless"
  <2> HIDE DEF matrix
  <2> QED BY <1>2, RestEnds DEF Asked
<1> QED BY <1>3, <1>4

\* The questions about the alternatives are answered: they are lower.
LEMMA AlternationEnds ==
  ASSUME NEW S \in SUBSET Types, NEW cost \in [S -> Nat \ {0}],
         NEW q, NEW n \in Nat, NEW deeper, NEW depth \in Nat, Asked(q, n, deeper, depth, cost),
         Head(q.candidate).kind = "alternation"
  PROVE  AlternationWitness(deeper, q).found # "endless"
<1> DEFINE t    == Head(q.types)
           head == Head(q.candidate)
           alts == head.alternatives
           row(a) == <<alts[a]>> \o Tail(q.candidate)
           p(a)   == Question(q.matrix, row(a), q.types)
           tries  == {Attempt(a, deeper[p(a)]) : a \in DOMAIN alts}
<1>1. /\ q.types \in Seq(Types) /\ q.types # << >> /\ t \in Types /\ Tail(q.types) \in Seq(Types)
      /\ TypedRow(q.candidate, q.types) /\ TypedRows(q.matrix, q.types)
      /\ TypedRow(Tail(q.candidate), Tail(q.types))
      /\ head \in Patterns /\ WellFormed[head][t]
  BY FirstColumn DEF Asked
<1>2. alts \in Seq(Patterns) /\ DOMAIN alts = 1 .. Len(alts) BY <1>1, PatternKinds
<1>3. /\ t \in S
      /\ \E m \in Nat : /\ m + cost[t] + Height[head] <= n
                        /\ Affords(m, Tail(q.candidate), Tail(q.types), cost)
  BY <1>1, TailAfforded DEF Asked
<1>4. PICK m \in Nat : /\ m + cost[t] + Height[head] <= n
                       /\ Affords(m, Tail(q.candidate), Tail(q.types), cost)
  BY <1>3
<1>5. ASSUME NEW a \in DOMAIN alts PROVE deeper[p(a)].found # "endless"
  <2>1. /\ alts[a] \in Patterns /\ Height[alts[a]] < Height[head]
        /\ Height[alts[a]] \in Nat /\ Height[head] \in Nat /\ cost[t] \in Nat
    <3>1. alts[a] \in Inside(head) BY <1>1, InsideElements
    <3> QED BY <3>1, <1>1, <1>3, PatternsAreTrees
  <2>2. WellFormed[alts[a]][t]
    <3>1. <<alts[a], t>> \in Parts(head, t) BY DEF Parts, Range
    <3>2. \A part \in Parts(head, t) : WellFormed[part[1]][part[2]] BY <1>1, WellFormedDef
    <3> QED BY <3>1, <3>2
  <2> DEFINE k == cost[t] + Height[alts[a]]
             one == <<alts[a]>>
             first == <<t>>
  <2>3. Affords(k, one, first, cost) BY <1>3, <2>1, OneAfforded
  <2>4. k \in Nat /\ k + m < n /\ k + m \in Nat BY <1>4, <2>1
  <2>5. first \in Seq(Types) /\ TypedRow(one, first)
    <3>1. /\ one \in Seq(Patterns) /\ Len(one) = 1 /\ Len(first) = 1
          /\ one[1] = alts[a] /\ first[1] = t /\ first \in Seq(Types)
      BY <1>1, <2>1
    <3> QED BY <3>1, <2>2 DEF TypedRow
  <2>6. q.types = first \o Tail(q.types) BY <1>1, TypesParts
  <2>7. TypedRow(row(a), q.types) BY <1>1, <2>1, <2>2, PrependRow
  <2>8. row(a) = one \o Tail(q.candidate) OBVIOUS
  <2>9. \A c \in DOMAIN cost : cost[c] \in Nat OBVIOUS
  <2> HIDE DEF k, one, first, row
  <2>10. Affords(k + m, one \o Tail(q.candidate), first \o Tail(q.types), cost)
    BY <1>1, <1>4, <2>3, <2>4, <2>5, <2>9, ConcatAfforded
  <2>11. Affords(k + m, row(a), q.types, cost) BY <2>6, <2>8, <2>10
  <2>12. k + m < depth BY <2>4 DEF Asked
  <2> QED BY <1>1, <2>4, <2>7, <2>11, <2>12, DeeperEnds DEF Asked
<1>6. AlternationWitness(deeper, q) = First(tries) BY DEF AlternationWitness
<1>7. \A a \in DOMAIN alts : a \in Int /\ 1 <= a BY <1>2
<1> HIDE DEF alts, p
<1>8. \A a \in tries : a.at \in Int /\ 1 <= a.at /\ a.answer.found # "endless" BY <1>5, <1>7 DEF Attempt
<1> HIDE DEF tries
<1>9. First(tries).found = "endless" => \E a \in tries : a.answer.found = "endless" BY <1>8, FirstIs
<1> QED BY <1>6, <1>8, <1>9

\* The questions about the cells of an integer type are answered.
LEMMA IntegerEnds ==
  ASSUME NEW S \in SUBSET Types, NEW cost \in [S -> Nat \ {0}],
         NEW q, NEW n \in Nat, NEW deeper, NEW depth \in Nat, Asked(q, n, deeper, depth, cost),
         Shape[Head(q.types)].kind = "integer", Head(q.candidate).kind # "alternation"
  PROVE  LET domain == Domain(Head(q.types))
         IN  IntegerWitness(deeper, q, IntegerInterval(Head(q.candidate), domain), domain).found # "endless"
<1> DEFINE t         == Head(q.types)
           head      == Head(q.candidate)
           domain    == Domain(t)
           candidate == IntegerInterval(head, domain)
           bounds    == Bounds(q.matrix, candidate, domain)
           matrix(c) == SpecializeIntegerMatrix(q.matrix, c, domain)
           p(c)      == Question(matrix(c), Tail(q.candidate), Tail(q.types))
           answer(c) == Gather(deeper[p(c)], IntervalPattern(c), 0)
           tries     == {Attempt(c.start, answer(c)) : c \in Cells(bounds)}
<1>1. /\ q.types \in Seq(Types) /\ q.types # << >> /\ t \in Types
      /\ TypedRow(q.candidate, q.types) /\ TypedRows(q.matrix, q.types)
      /\ head \in Patterns /\ WellFormed[head][t]
  BY FirstColumn DEF Asked
<1>2. candidate.start \in Int /\ candidate.end \in Int /\ ~IsEmpty(candidate) BY <1>1, IntegerHead
<1>3. \A b \in bounds : b \in Int /\ candidate.start <= b BY <1>1, <1>2, BoundsAre
<1>4. IntegerWitness(deeper, q, candidate, domain) = First(tries) BY DEF IntegerWitness
<1>5. \A c : answer(c).found = deeper[p(c)].found BY GatherIs
<1>6. ASSUME NEW c \in Cells(bounds)
      PROVE  c.start \in Int /\ candidate.start <= c.start /\ answer(c).found # "endless"
  <2>1. c.start \in Int /\ c.end \in Int /\ candidate.start <= c.start
    <3> HIDE DEF bounds
    <3>1. bounds \subseteq Int BY <1>3
    <3>2. c.start \in bounds /\ c.start \in Int /\ c.end \in Int BY <3>1, CellIs
    <3> QED BY <3>2, <1>3
  <2>2. TypedRows(matrix(c), Tail(q.types)) BY <2>1, <1>1, SpecializedIntegers
  <2> HIDE DEF matrix, answer
  <2>3. deeper[p(c)].found # "endless" BY <2>2, RestEnds DEF Asked
  <2> QED BY <2>1, <2>3, <1>5
<1> HIDE DEF answer, bounds, candidate
<1>7. \A a \in tries : a.at \in Int /\ candidate.start <= a.at /\ a.answer.found # "endless" BY <1>6 DEF Attempt
<1> HIDE DEF tries
<1>8. First(tries).found = "endless" => \E a \in tries : a.answer.found = "endless" BY <1>2, <1>7, FirstIs
<1> QED BY <1>4, <1>7, <1>8 DEF candidate

\* The questions about the lengths of an array are answered.
LEMMA ArrayEnds ==
  ASSUME NEW S \in SUBSET Types, NEW cost \in [S -> Nat \ {0}], NEW tallest \in Nat, Grounded(cost, tallest),
         NEW q, NEW n \in Nat, NEW deeper, NEW depth \in Nat, Asked(q, n, deeper, depth, cost),
         Shape[Head(q.types)].kind = "array", Head(q.candidate).kind # "alternation"
  PROVE  ArrayWitness(deeper, q).found # "endless"
<1> DEFINE t       == Head(q.types)
           head    == Head(q.candidate)
           lengths == {k \in Lengths(q.matrix, head, t) : FitsLength(head, k)}
           of(k)   == ElementTypes(t, k)
           args(k) == AtLength(head, k)
           matrix(k) == SpecializeArrayMatrix(q.matrix, k)
           p(k)    == Question(matrix(k), args(k) \o Tail(q.candidate), of(k) \o Tail(q.types))
           answer(k) == Gather(deeper[p(k)], Array(SubSeq(deeper[p(k)].witness, 1, k), FALSE, << >>), k)
           tries   == {Attempt(k, answer(k)) : k \in lengths}
<1>1. /\ q.types \in Seq(Types) /\ q.types # << >> /\ t \in Types
      /\ TypedQuestion(q) /\ q.candidate # << >>
      /\ TypedRow(q.candidate, q.types) /\ TypedRows(q.matrix, q.types)
      /\ head \in Patterns /\ WellFormed[head][t]
  BY FirstColumn DEF Asked
<1>2. ArrayWitness(deeper, q) = First(tries) BY DEF ArrayWitness, ElementTypes
<1>3. \A k : answer(k).found = deeper[p(k)].found BY GatherIs
<1> HIDE DEF answer
<1>4. ASSUME NEW k \in lengths PROVE k \in Nat /\ answer(k).found # "endless"
  <2>1. k \in Lengths(q.matrix, head, t) /\ FitsLength(head, k) OBVIOUS
  <2>2. k \in Nat /\ k \in TriedLengths(t) BY <2>1, <1>1, LengthsTried
  <2>3. of(k) \in Seq(Types) /\ Len(of(k)) = k BY <2>2, <1>1, ArrayTypes
  <2>4. TypedRow(args(k), of(k)) BY <1>1, <2>1, <2>2, ArrayHead
  <2>5. TypedRows(matrix(k), of(k) \o Tail(q.types)) BY <1>1, <2>2, SpecializedArrays
  <2>6. of(k) \in MadeOf(t)
    <3>1. ElementTypes(t, k) = [i \in 1 .. k |-> Shape[t].element] BY DEF ElementTypes
    <3> QED BY <3>1, <2>2 DEF MadeOf
  <2> HIDE DEF of, args, matrix, head, lengths
  <2>7. /\ \A r \in Patterns : Height[r] <= tallest
        /\ \A i \in 1 .. Len(of(k)) : of(k)[i] \in S /\ Len(of(k)) * (cost[of(k)[i]] + tallest) < cost[Head(q.types)]
    BY <2>3, <2>6, MadeOfLess
  <2>8. deeper[p(k)].found # "endless"
    BY <1>1, <2>3, <2>4, <2>5, <2>7, ArgumentsEnd DEF Asked
  <2> QED BY <2>2, <2>8, <1>3
<1> HIDE DEF lengths
<1>5. \A a \in tries : a.at \in Int /\ 0 <= a.at /\ a.answer.found # "endless" BY <1>4 DEF Attempt
<1> HIDE DEF tries
<1>6. First(tries).found = "endless" => \E a \in tries : a.answer.found = "endless" BY <1>5, FirstIs
<1> QED BY <1>2, <1>5, <1>6

\* An answer has an end if those to cheaper questions have one.
LEMMA WitnessEnds ==
  ASSUME NEW S \in SUBSET Types, NEW cost \in [S -> Nat \ {0}], NEW tallest \in Nat, Grounded(cost, tallest),
         NEW q, TypedQuestion(q), NEW n \in Nat, NEW deeper, NEW depth \in Nat, n <= depth,
         Affords(n, q.candidate, q.types, cost), Ends(deeper, depth, cost)
  PROVE  WitnessOf(deeper, q).found # "endless"
<1>1. NotUseful.found # "endless" /\ \A w : By(w).found # "endless" BY DEF NotUseful, By
<1>2. CASE CoveredByWildcards(q.matrix) \/ q.candidate = << >>
  <2>1. WitnessOf(deeper, q) = NotUseful \/ WitnessOf(deeper, q) = By(<< >>) BY <1>2 DEF WitnessOf
  <2> QED BY <2>1, <1>1
<1>3. CASE ~CoveredByWildcards(q.matrix) /\ q.candidate # << >>
  <2> DEFINE head == Head(q.candidate)
             t    == Head(q.types)
             isInteger == Shape[t].kind = "integer" /\ ~IsEmpty(IntegerInterval(head, Domain(t)))
  <2>1. t \in Types /\ head \in Patterns /\ WellFormed[head][t] /\ q.types # << >> BY <1>3, FirstColumn
  <2>2. WitnessOf(deeper, q) =
          IF ~TypeIsInhabited(t)              THEN NotUseful
          ELSE IF head.kind = "alternation" THEN AlternationWitness(deeper, q)
          ELSE IF head.kind = "invalid"     THEN By(q.candidate)
          ELSE IF Shape[t].kind = "array"   THEN ArrayWitness(deeper, q)
          ELSE IF isInteger
               THEN IntegerWitness(deeper, q, IntegerInterval(head, Domain(t)), Domain(t))
          ELSE IF head.kind = "constructed" THEN ConstructorWitness(deeper, q, head.con)
          ELSE IF HasConstructors(t)        THEN EveryConstructorWitness(deeper, q)
          ELSE DefaultWitness(deeper, q)
    BY <1>3 DEF WitnessOf
  <2>3. CASE ~TypeIsInhabited(t) BY <2>2, <2>3, <1>1
  <2>4. CASE TypeIsInhabited(t)
    <3>1. Asked(q, n, deeper, depth, cost) BY <1>3, <2>4 DEF Asked
    <3>2. CASE head.kind = "alternation"
      <4>1. WitnessOf(deeper, q) = AlternationWitness(deeper, q) BY <2>2, <2>4, <3>2
      <4> QED BY <4>1, <3>1, <3>2, AlternationEnds
    <3>3. CASE head.kind = "invalid" BY <2>1, <3>3, HeadKinds
    <3>4. CASE head.kind \notin {"alternation", "invalid"} /\ Shape[t].kind = "array"
      <4>1. WitnessOf(deeper, q) = ArrayWitness(deeper, q) BY <2>2, <2>4, <3>4
      <4> QED BY <4>1, <3>1, <3>4, ArrayEnds
    <3>5. CASE head.kind \notin {"alternation", "invalid"} /\ Shape[t].kind = "integer"
      <4>1. ~IsEmpty(IntegerInterval(head, Domain(t))) BY <2>1, <3>5, IntegerHead
      <4>2. WitnessOf(deeper, q) = IntegerWitness(deeper, q, IntegerInterval(head, Domain(t)), Domain(t))
        BY <2>2, <2>4, <3>5, <4>1
      <4>3. IntegerWitness(deeper, q, IntegerInterval(head, Domain(t)), Domain(t)).found # "endless"
        BY <3>1, <3>5, IntegerEnds
      <4> QED BY <4>2, <4>3
    <3>6. CASE head.kind \notin {"alternation", "invalid"} /\ Shape[t].kind \notin {"array", "integer"}
      <4>1. head = Irrefutable \/ (head.kind = "constructed" /\ IsConstructor(head.con, t))
        BY <2>1, <3>6, HeadKinds
      <4>2. CASE head.kind = "constructed"
        <5>1. WitnessOf(deeper, q) = ConstructorWitness(deeper, q, head.con) BY <2>2, <2>4, <3>6, <4>2
        <5>2. head # Irrefutable BY <4>2, WildcardTakes
        <5>3. ConstructorWitness(deeper, q, head.con).found # "endless"
          BY <3>1, <3>6, <4>1, <4>2, <5>2, ConstructorEnds
        <5> QED BY <5>1, <5>3
      <4>3. CASE head = Irrefutable
        <5>1. head.kind # "constructed" BY <4>3, WildcardTakes
        <5>2. CASE HasConstructors(t)
          <6>1. Shape[t].kind \in {"bool", "option", "result", "step", "struct", "enum"}
            BY <5>2, <2>4 DEF HasConstructors
          <6>2. WitnessOf(deeper, q) = EveryConstructorWitness(deeper, q)
            BY <2>2, <2>4, <3>6, <5>1, <5>2
          <6> QED BY <6>1, <6>2, <3>1, <4>3, EveryConstructorEnds
        <5>3. CASE ~HasConstructors(t)
          <6>1. WitnessOf(deeper, q) = DefaultWitness(deeper, q) BY <2>2, <2>4, <3>6, <5>1, <5>3
          <6> QED BY <6>1, <3>1, DefaultEnds
        <5> QED BY <5>2, <5>3
      <4> QED BY <4>1, <4>2, <4>3
    <3> QED BY <3>2, <3>3, <3>4, <3>5, <3>6
  <2> QED BY <2>3, <2>4
<1> QED BY <1>2, <1>3

\* The analysis answers every well-formed question that costs less than the
\* calls that are left.
LEMMA UsefulWitnessEnds ==
  ASSUME NEW S \in SUBSET Types, NEW cost \in [S -> Nat \ {0}], NEW tallest \in Nat, Grounded(cost, tallest)
  PROVE  \A d \in 0 .. MaxDepth : Ends(UsefulWitness[d], d, cost)
<1> DEFINE E == {d \in Nat : d <= MaxDepth => Ends(UsefulWitness[d], d, cost)}
<1>1. 0 \in E BY DEF Ends
<1>2. ASSUME NEW d \in Nat, d \in E PROVE d + 1 \in E
  <2> SUFFICES ASSUME d + 1 <= MaxDepth, NEW q, NEW n \in Nat, TypedQuestion(q), n < d + 1,
                      Affords(n, q.candidate, q.types, cost)
               PROVE  UsefulWitness[d + 1][q].found # "endless"
    BY DEF Ends
  <2>1. Ends(UsefulWitness[d], d, cost) BY <1>2, DepthIsANumber
  <2>2. d + 1 \in 0 .. MaxDepth /\ d + 1 > 0 /\ (d + 1) - 1 = d /\ n <= d BY DepthIsANumber
  <2>3. UsefulWitness[d + 1][q] = WitnessOf(UsefulWitness[d], q)
    BY <2>2, UsefulWitnessDef DEF TypedQuestion
  <2> HIDE DEF E
  <2> QED BY <2>1, <2>2, <2>3, WitnessEnds
<1> HIDE DEF E
<1>3. Nat \subseteq E BY <1>1, <1>2, NumberInduction
<1>4. \A d \in 0 .. MaxDepth : d \in Nat /\ d <= MaxDepth BY DepthIsANumber
<1> QED BY <1>3, <1>4 DEF E

\* Whether one pattern is useful is answered.
LEMMA PatternEnds ==
  ASSUME NEW S \in SUBSET Types, NEW cost \in [S -> Nat \ {0}], NEW tallest \in Nat, Grounded(cost, tallest),
         NEW t \in S, cost[t] + tallest < MaxDepth,
         NEW previous \in Seq(Patterns), \A i \in DOMAIN previous : WellFormed[previous[i]][t],
         NEW candidate \in Patterns, WellFormed[candidate][t]
  PROVE  PatternIsUseful(previous, candidate, t).found # "endless"
<1> DEFINE matrix == {<<p>> : p \in Range(previous)}
           q      == Question(matrix, <<candidate>>, <<t>>)
           n      == cost[t] + Height[candidate]
<1>1. PatternIsUseful(previous, candidate, t) = UsefulWitness[MaxDepth][q] BY DEF PatternIsUseful
<1>2. t \in Types /\ \A p \in Range(previous) : p \in Patterns /\ WellFormed[p][t] BY DEF Range
<1>3. TypedRows(matrix, <<t>>)
  <2>1. ASSUME NEW row \in matrix PROVE TypedRow(row, <<t>>)
    <3>1. PICK p \in Range(previous) : row = <<p>> BY <2>1
    <3> QED BY <3>1, <1>2, Singletons
  <2> HIDE DEF matrix
  <2> QED BY <2>1 DEF TypedRows
<1>4. TypedRow(<<candidate>>, <<t>>) /\ <<t>> \in Seq(Types) BY <1>2, Singletons
<1>5. Affords(n, <<candidate>>, <<t>>, cost) BY OneAfforded
<1>6. n \in Nat /\ n < MaxDepth /\ MaxDepth \in Nat
  <2>1. Height[candidate] \in Nat /\ cost[t] \in Nat BY PatternsAreTrees
  <2>2. Height[candidate] <= tallest BY DEF Grounded
  <2> QED BY <2>1, <2>2, DepthIsANumber
<1>7. Ends(UsefulWitness[MaxDepth], MaxDepth, cost)
  <2>1. MaxDepth \in 0 .. MaxDepth BY DepthIsANumber
  <2> QED BY <2>1, UsefulWitnessEnds
<1> HIDE DEF n, matrix
<1>8. UsefulWitness[MaxDepth][q].found # "endless" BY <1>3, <1>4, <1>5, <1>6, <1>7, DeeperEnds
<1> QED BY <1>1, <1>8

\* What is missing is answered.
LEMMA MissingEnds ==
  ASSUME NEW S \in SUBSET Types, NEW cost \in [S -> Nat \ {0}], NEW tallest \in Nat, Grounded(cost, tallest),
         NEW t \in S, cost[t] + tallest < MaxDepth,
         NEW previous \in Seq(Patterns), \A i \in DOMAIN previous : WellFormed[previous[i]][t]
  PROVE  \A m \in MissingPatterns(previous, t) : m.found # "endless"
<1>1. ASSUME NEW c \in Candidates(t) PROVE PatternIsUseful(previous, c, t).found # "endless"
  <2>1. c \in Patterns /\ WellFormed[c][t] BY CandidatesTake
  <2> QED BY <2>1, PatternEnds
<1> QED BY <1>1 DEF MissingPatterns

\* The parts of a well-formed pattern are checked against types the type is
\* made of.
LEMMA PartTypes ==
  ASSUME NEW S \in SUBSET Types, NEW cost \in [S -> Nat \ {0}], NEW tallest \in Nat, Grounded(cost, tallest),
         NEW t \in S, NEW p \in Patterns, WellFormed[p][t], NEW part \in Parts(p, t)
  PROVE  part[2] \in S
<1>1. Suits(p, t) /\ t \in Types BY WellFormedDef
<1>2. \A of \in MadeOf(t) : \A i \in DOMAIN of : of[i] \in S
  <2>1. DOMAIN cost = S OBVIOUS
  <2> QED BY <2>1 DEF Grounded
<1>3. CASE p.kind = "constructed"
  <2> DEFINE of == ArgumentTypes(p.con, t)
  <2>1. PICK i \in DOMAIN p.arguments : part = <<p.arguments[i], of[i]>> BY <1>3 DEF Parts
  <2>2. i \in DOMAIN of /\ part[2] = of[i] BY <1>1, <1>3, <2>1 DEF Suits
  <2>3. CASE Shape[t].kind \in {"integer", "open"}
    <3>1. p.con[1] \in {"int", "text"} BY <1>1, <1>3, <2>3 DEF Suits, IsLiteral
    <3>2. of = << >> BY <3>1 DEF ArgumentTypes
    <3> QED BY <3>2, <2>2
  <2>4. CASE Shape[t].kind \notin {"integer", "open"}
    <3>1. p.con \in Range(ConstructorsOf(t)) BY <1>1, <1>3, <2>4 DEF Suits
    <3>2. Shape[t].kind # "array"
      <4> SUFFICES ASSUME Shape[t].kind = "array" PROVE FALSE OBVIOUS
      <4>1. ConstructorsOf(t) = << >> BY DEF ConstructorsOf
      <4> QED BY <3>1, <4>1 DEF Range
    <3>3. of \in MadeOf(t) BY <3>1, <3>2 DEF MadeOf
    <3> QED BY <3>3, <2>2, <1>2
  <2> QED BY <2>3, <2>4
<1>4. CASE p.kind = "array"
  <2>1. Shape[t].kind = "array" BY <1>1, <1>4 DEF Suits
  <2>2. part[1] \in Range(p.prefix) \cup Range(p.suffix) /\ part[2] = Shape[t].element BY <1>4 DEF Parts
  <2>3. p.prefix \in Seq(Patterns) /\ p.suffix \in Seq(Patterns) BY <1>4, PatternKinds
  <2>4. PICK a \in Nat : a = Len(p.prefix) /\ DOMAIN p.prefix = 1 .. a BY <2>3
  <2>5. PICK b \in Nat : b = Len(p.suffix) /\ DOMAIN p.suffix = 1 .. b BY <2>3
  <2>6. Written(p) = a + b /\ 1 <= a + b
    <3>1. DOMAIN p.prefix # {} \/ DOMAIN p.suffix # {} BY <2>2 DEF Range
    <3>2. 1 <= a \/ 1 <= b BY <3>1, <2>4, <2>5
    <3>3. 1 <= a + b BY <3>2
    <3>4. Written(p) = a + b BY <2>4, <2>5 DEF Written
    <3> QED BY <3>3, <3>4
  <2>7. \E n \in TriedLengths(t) : n \in Nat /\ 1 <= n
    <3>1. CASE Shape[t].length # Growable
      <4>1. Shape[t].length \in Nat
        <5>1. 0 \in Nat OBVIOUS
        <5>2. Shape[t].length \in Nat \cup {Growable} BY <5>1, <1>1, <2>1, ArrayTypes
        <5> QED BY <5>2, <3>1
      <4>2. FitsLength(p, Shape[t].length) BY <1>1, <1>4, <3>1 DEF Suits
      <4>3. p # Irrefutable BY <1>4, WildcardTakes
      <4>4. a + b <= Shape[t].length BY <4>1, <4>2, <4>3, <2>6 DEF FitsLength
      <4> QED BY <3>1, <4>1, <4>4, <2>6 DEF TriedLengths
    <3>2. CASE Shape[t].length = Growable
      <4>1. p \in ArrayPatterns(t) /\ ArrayPatterns(t) \subseteq Patterns /\ \A h \in ArrayPatterns(t) : h.kind = "array"
        BY <1>4 DEF ArrayPatterns
      <4>2. Written(p) \in RepresentativeLengths(ArrayPatterns(t)) BY <4>1, LengthsAre
      <4> QED BY <3>2, <4>2, <2>6 DEF TriedLengths
    <3> QED BY <3>1, <3>2
  <2>8. PICK n \in TriedLengths(t) : n \in Nat /\ 1 <= n BY <2>7
  <2>9. [i \in 1 .. n |-> Shape[t].element] \in MadeOf(t) BY <2>1 DEF MadeOf
  <2>10. 1 \in 1 .. n BY <2>8
  <2> QED BY <2>2, <2>9, <2>10, <1>2
<1>5. CASE p.kind = "alternation" BY <1>5 DEF Parts
<1>6. CASE p.kind \notin {"constructed", "array", "alternation"} BY <1>6 DEF Parts
<1> QED BY <1>3, <1>4, <1>5, <1>6

\* The analysis inside a well-formed pattern has an end.
LEMMA InnerEnds ==
  ASSUME NEW S \in SUBSET Types, NEW cost \in [S -> Nat \ {0}], NEW tallest \in Nat, Grounded(cost, tallest),
         \A t \in S : cost[t] + tallest < MaxDepth
  PROVE  \A p \in Patterns, t \in S : WellFormed[p][t] => "endless" \notin AlternativeAnswers[p][t]
<1> DEFINE G == {p \in Patterns : \A t \in S : WellFormed[p][t] => "endless" \notin AlternativeAnswers[p][t]}
<1>1. ASSUME NEW p \in Patterns, \A q \in Inside(p) : q \in G PROVE p \in G
  <2> SUFFICES ASSUME NEW t \in S, WellFormed[p][t] PROVE "endless" \notin AlternativeAnswers[p][t] OBVIOUS
  <2>0. t \in Types OBVIOUS
  <2> DEFINE alts == p.alternatives
             previous(n) == [i \in 1 .. n - 1 |-> Coverage[alts[i]]]
             answer(n) == PatternIsUseful(previous(n), Coverage[alts[n]], t).found
             own   == IF p.kind # "alternation" THEN {} ELSE {answer(n) : n \in DOMAIN alts}
             inner == UNION {AlternativeAnswers[part[1]][part[2]] : part \in Parts(p, t)}
  <2>1. AlternativeAnswers[p][t] = own \cup inner
    <3>1. AlternativeAnswers[p] = AnswersOf(AlternativeAnswers, p) BY AlternativeAnswersDef
    <3>2. AnswersOf(AlternativeAnswers, p)[t] = own \cup inner BY <2>0 DEF AnswersOf
    <3> QED BY <3>1, <3>2
  <2>2. ASSUME NEW part \in Parts(p, t) PROVE "endless" \notin AlternativeAnswers[part[1]][part[2]]
    <3>1. part[1] \in Inside(p) BY PartsAreInside
    <3>2. part[2] \in S BY PartTypes
    <3>3. WellFormed[part[1]][part[2]]
      <4>1. \A x \in Parts(p, t) : WellFormed[x[1]][x[2]] BY <2>0, WellFormedDef
      <4> QED BY <4>1
    <3> QED BY <3>1, <3>2, <3>3, <1>1
  <2>3. "endless" \notin inner BY <2>2
  <2>4. ASSUME p.kind = "alternation", NEW n \in DOMAIN alts PROVE answer(n) # "endless"
    <3>1. alts \in Seq(Patterns) /\ \A i \in DOMAIN alts : WellFormed[alts[i]][t]
      BY <2>0, <2>4, PatternKinds, AlternationParts
    <3>2. \A i \in DOMAIN alts : Coverage[alts[i]] \in Patterns /\ WellFormed[Coverage[alts[i]]][t]
      <4>1. \A i \in DOMAIN alts : alts[i] \in Patterns BY <3>1
      <4> QED BY <3>1, <4>1, <2>0, CoverageStands DEF StandsFor
    <3>3. n \in Nat \ {0} /\ \A i \in 1 .. n - 1 : i \in DOMAIN alts BY <3>1
    <3>4. /\ previous(n) \in Seq(Patterns) /\ DOMAIN previous(n) = 1 .. n - 1
          /\ \A i \in 1 .. n - 1 : previous(n)[i] = Coverage[alts[i]]
      <4>1. n - 1 \in Nat BY <3>3
      <4> QED BY <4>1, <3>2, <3>3
    <3>5. \A i \in DOMAIN previous(n) : WellFormed[previous(n)[i]][t] BY <3>2, <3>3, <3>4
    <3> HIDE DEF previous
    <3> QED BY <3>2, <3>4, <3>5, PatternEnds
  <2>5. "endless" \notin own BY <2>4
  <2> HIDE DEF own, inner
  <2> QED BY <2>1, <2>3, <2>5
<1>2. Patterns \subseteq G
  <2> HIDE DEF G
  <2> QED BY <1>1, PatternInduction
<1> QED BY <1>2

\* The patterns of the arms are checked without an error.
ArmsSuit == \A j \in DOMAIN arms : WellFormed[arms[j].pattern][matched]

EndInv(S) ==
  /\ MatchTypeOK /\ UnguardedAreCovered /\ ArmsAreWellFormed
  /\ phase = "checking" => arm = 0
  /\ matched \in S /\ ArmsSuit => AnalysisEnds

\* What counts for the next arm suits the type if the arms do.
LEMMA UnguardedSuit ==
  ASSUME MatchTypeOK, UnguardedAreCovered, ArmsSuit
  PROVE  unguarded \in Seq(Patterns) /\ \A i \in DOMAIN unguarded : WellFormed[unguarded[i]][matched]
<1>1. matched \in Types /\ unguarded \in Seq(Patterns) BY DEF MatchTypeOK
<1>2. ASSUME NEW i \in DOMAIN unguarded PROVE WellFormed[unguarded[i]][matched]
  <2>1. PICK j \in DOMAIN arms : unguarded[i] = Coverage[arms[j].pattern] BY DEF UnguardedAreCovered
  <2>2. arms[j].pattern \in Patterns
    <3> DEFINE A == [pattern : Patterns, guarded : BOOLEAN]
    <3>1. arms \in Seq(A) BY DEF MatchTypeOK
    <3>2. arms[j] \in A
      <4> HIDE DEF A
      <4> QED BY <3>1
    <3> QED BY <3>2
  <2>3. WellFormed[arms[j].pattern][matched] BY DEF ArmsSuit
  <2> QED BY <1>1, <2>1, <2>2, <2>3, CoverageStands DEF StandsFor
<1> QED BY <1>1, <1>2

\* The check of an arm has an end.
LEMMA CheckArmEnds ==
  ASSUME NEW S \in SUBSET Types, NEW cost \in [S -> Nat \ {0}], NEW tallest \in Nat, Grounded(cost, tallest),
         \A t \in S : cost[t] + tallest < MaxDepth,
         EndInv(S), NEW p \in PatternsOf[matched], NEW guarded \in BOOLEAN, CheckArm(p, guarded)
  PROVE  EndInv(S)'
<1>1. phase = "checking" /\ matched' = matched /\ arm' = arm BY DEF CheckArm
<1>2. MatchInv
  BY <1>1 DEF EndInv, MatchInv, AcceptedTakeAll, TestedInOrder, AcceptedMatchesSelect
<1>3. MatchInv' BY <1>2, CheckArmInv
<1>4. p \in Patterns /\ Coverage[p] \in Patterns /\ matched \in Types
  BY PatternsAreCovered DEF EndInv, MatchTypeOK
<1>5. ASSUME matched' \in S, ArmsSuit' PROVE phase' # "overflow"
  <2> DEFINE n == Len(arms) + 1
  <2>1. arms' = Append(arms, [pattern |-> p, guarded |-> guarded]) BY DEF CheckArm
  <2>2. /\ DOMAIN arms' = DOMAIN arms \cup {n} /\ arms'[n].pattern = p
        /\ \A j \in DOMAIN arms : arms'[j] = arms[j]
    BY <1>4, <2>1, OneMoreArm DEF EndInv
  <2>3. WellFormed[p][matched] /\ ArmsSuit BY <1>1, <1>5, <2>2 DEF ArmsSuit
  <2>4. matched \in S BY <1>1, <1>5
  <2>5. "endless" \notin AlternativeAnswers[p][matched] BY <1>4, <2>3, <2>4, InnerEnds
  <2>6. unguarded \in Seq(Patterns) /\ \A i \in DOMAIN unguarded : WellFormed[unguarded[i]][matched]
    BY <2>3, UnguardedSuit DEF EndInv
  <2>7. WellFormed[Coverage[p]][matched] BY <1>4, <2>3, CoverageStands DEF StandsFor
  <2>8. cost[matched] + tallest < MaxDepth BY <2>4
  <2>9. PatternIsUseful(unguarded, Coverage[p], matched).found # "endless"
    BY <1>4, <2>4, <2>6, <2>7, <2>8, PatternEnds
  <2>10. phase' = phase BY <2>5, <2>9 DEF CheckArm
  <2> QED BY <1>1, <2>10
<1> QED BY <1>1, <1>2, <1>3, <1>5 DEF EndInv, MatchInv, TestedInOrder, AnalysisEnds

\* The end of the check has an end.
LEMMA CheckMissingEnds ==
  ASSUME NEW S \in SUBSET Types, NEW cost \in [S -> Nat \ {0}], NEW tallest \in Nat, Grounded(cost, tallest),
         \A t \in S : cost[t] + tallest < MaxDepth,
         EndInv(S), CheckMissing
  PROVE  EndInv(S)'
<1>1. /\ missing' = MissingPatterns(unguarded, matched)
      /\ phase' \in {"overflow", "rejected", "running"}
      /\ phase' = "overflow" => \E m \in missing' : m.found = "endless"
      /\ UNCHANGED <<matched, arms, unguarded, reported, errors, value, arm>>
  BY DEF CheckMissing
<1>2. ASSUME matched \in S, ArmsSuit PROVE phase' # "overflow"
  <2>1. unguarded \in Seq(Patterns) /\ \A i \in DOMAIN unguarded : WellFormed[unguarded[i]][matched]
    BY <1>2, UnguardedSuit DEF EndInv
  <2>2. cost[matched] + tallest < MaxDepth BY <1>2
  <2>3. \A m \in MissingPatterns(unguarded, matched) : m.found # "endless" BY <1>2, <2>1, <2>2, MissingEnds
  <2> QED BY <1>1, <2>3
<1>3. MatchTypeOK' /\ UnguardedAreCovered' /\ ArmsAreWellFormed'
  BY <1>1 DEF EndInv, MatchTypeOK, UnguardedAreCovered, ArmsAreWellFormed
<1>4. ArmsSuit' => ArmsSuit BY <1>1 DEF ArmsSuit
<1> QED BY <1>1, <1>2, <1>3, <1>4 DEF EndInv, AnalysisEnds

\* The analysis of a match ends if the type is not made of itself, with all it
\* is made of, and the patterns suit it: it calls itself no deeper than that
\* costs (useful_witness).
THEOREM AnalysisTerminates ==
  ASSUME NEW S \in SUBSET Types, NEW cost \in [S -> Nat \ {0}], NEW tallest \in Nat, Grounded(cost, tallest),
         \A t \in S : cost[t] + tallest < MaxDepth
  PROVE  MatchSpec => [](matched \in S /\ ArmsSuit => AnalysisEnds)
<1>1. MatchInit => EndInv(S)
  <2> SUFFICES ASSUME MatchInit PROVE EndInv(S) OBVIOUS
  <2>1. MatchInv BY MatchInitInv
  <2>2. phase = "checking" /\ arm = 0 BY DEF MatchInit
  <2> QED BY <2>1, <2>2 DEF MatchInv, EndInv, AnalysisEnds
<1>2. EndInv(S) /\ [MatchNext]_matchVars => EndInv(S)'
  <2> SUFFICES ASSUME EndInv(S), [MatchNext]_matchVars PROVE EndInv(S)' OBVIOUS
  <2>1. ASSUME UNCHANGED <<matched, arms, unguarded, reported, errors>>,
               arm' \in Nat, phase' = "checking" => arm' = 0,
               phase' = "overflow" => phase = "overflow"
        PROVE  EndInv(S)'
    <3>1. MatchTypeOK' /\ UnguardedAreCovered' /\ ArmsAreWellFormed'
      BY <2>1 DEF EndInv, MatchTypeOK, UnguardedAreCovered, ArmsAreWellFormed
    <3>2. ArmsSuit' => ArmsSuit BY <2>1 DEF ArmsSuit
    <3> QED BY <2>1, <3>1, <3>2 DEF EndInv, AnalysisEnds
  <2>2. arm \in Nat /\ (phase = "checking" => arm = 0) BY DEF EndInv, MatchTypeOK
  <2>3. CASE UNCHANGED matchVars BY <2>1, <2>2, <2>3 DEF matchVars
  <2>4. ASSUME NEW p \in PatternsOf[matched], NEW guarded \in BOOLEAN, CheckArm(p, guarded)
        PROVE  EndInv(S)'
    BY <2>4, CheckArmEnds
  <2>5. CASE CheckMissing BY <2>5, CheckMissingEnds
  <2>6. ASSUME NEW v \in ValuesOf[matched], Run(v) PROVE EndInv(S)'
    BY <2>1, <2>6 DEF Run
  <2>7. ASSUME NEW guard \in BOOLEAN, TestArm(guard) PROVE EndInv(S)'
    BY <2>1, <2>2, <2>7 DEF TestArm
  <2> QED BY <2>3, <2>4, <2>5, <2>6, <2>7 DEF MatchNext
<1>3. EndInv(S) => (matched \in S /\ ArmsSuit => AnalysisEnds) BY DEF EndInv
<1> HIDE DEF EndInv, ArmsSuit, AnalysisEnds, MatchInit, MatchNext
<1> QED BY <1>1, <1>2, <1>3, PTL DEF MatchSpec
=============================================================================
