----------------------------- MODULE PartsProofs ------------------------------
(***************************************************************************)
(* Proofs about three small parts of a script's program: StateDependencies,*)
(* for any fields and dependencies, PointerPrefixes, for any fields, paths *)
(* and conditions, and ProcessSelection, for any processes, names and      *)
(* memory sizes.                                                           *)
(*                                                                         *)
(* Dependencies.  While the search for cycles runs, a field that has been  *)
(* visited is on the stack or in a component.  A call that is under way    *)
(* owns the fields visited since, up to the next call (its region): it     *)
(* needs them all, its number bounds those of what they have followed, and *)
(* that number is the one of a field it needs.  A call whose number is its *)
(* own thus ends with a region that depends on closed components only and  *)
(* each of whose fields needs the call's, a component of the graph.        *)
(*                                                                         *)
(* Prefixes.  The compiler's two sets bound what the locals may hold when  *)
(* the code runs: a guaranteed prefix has a status in every poll, and a    *)
(* prefix that is not possibly initialized has none in any.                *)
(*                                                                         *)
(* Selection.  A candidate is held exactly while selectProcess is asked    *)
(* about it, and the list is tried front to back, in memory that was grown *)
(* before the host was given its length.                                   *)
(***************************************************************************)
EXTENDS StateDependencies, PointerPrefixes, ProcessSelection, SequenceTheorems, FiniteSetTheorems,
        WellFoundedInduction, TLAPS

\* Lemma: a set of numbers has a least one.
LEMMA LeastNumber ==
  ASSUME NEW S, S \subseteq Nat, S # {}
  PROVE  \E m \in S : \A n \in S : m <= n
<1>1. PICK m \in S : \A c \in S : ~ (<<c, m>> \in OpToRel(<, Nat))
  BY NatLessThanWellFounded, WFMin
<1>2. \A c \in S : m <= c
  <2> SUFFICES ASSUME NEW c \in S, ~(m <= c) PROVE FALSE
    OBVIOUS
  <2>1. c \in Nat /\ m \in Nat /\ c < m
    OBVIOUS
  <2>2. <<c, m>> \in OpToRel(<, Nat)
    BY <2>1 DEF OpToRel
  <2> QED
    BY <1>1, <2>2
<1> QED
  BY <1>2

-----------------------------------------------------------------------------
(* The dependencies of the fields. *)

\* What the fields depend on, directly or through others.
Needed == {p \in Names \X Names : Needs(p[1], p[2])}

\* The dependency d of f has been followed, and the call it made has returned.
Followed(f, d) ==
  \E k \in DOMAIN state_dependencies[f] :
    /\ state_dependencies[f][k] = d
    /\ \A i \in DOMAIN calls : calls[i].field = f => k < calls[i].at

Stacked == {stack[i] : i \in DOMAIN stack}
Open    == {calls[i].field : i \in DOMAIN calls}
Closed  == UNION {components[i] : i \in DOMAIN components}

\* The i-th call visited g, and has since returned from all that it made in between.
InRegion(i, g) ==
  /\ g \in Stacked /\ indices[calls[i].field] <= indices[g]
  /\ i < Len(calls) => indices[g] < indices[calls[i + 1].field]

DependencyTypes ==
  /\ state_dependencies \in [Names -> Seq(Names)]
  /\ pass \in {"cycles", "order", "done"} /\ begun \in 0 .. Len(Fields)
  /\ calls \in Seq([field : Names, at : Nat \ {0}])
  /\ counter \in Nat \ {0} /\ indices \in [Names -> Nat] /\ lowlinks \in [Names -> Nat]
  /\ stack \in Seq(Names) /\ components \in Seq(SUBSET Names)
  /\ cyclic \in SUBSET (SUBSET Names)
  /\ visiting \in SUBSET Names /\ visited \in SUBSET Names /\ order \in Seq(Names)

\* Every call but the innermost is at the dependency the next call visits.
CallsChain ==
  /\ \A i \in DOMAIN calls : calls[i].at \in 1 .. Len(state_dependencies[calls[i].field]) + 1
  /\ \A i \in DOMAIN calls : i < Len(calls) =>
       /\ calls[i].at \in DOMAIN state_dependencies[calls[i].field]
       /\ state_dependencies[calls[i].field][calls[i].at] = calls[i + 1].field

\* The numbers grow along the stack, and along the calls, whose fields are on it.
NumbersGrow ==
  /\ \A f \in Names : indices[f] < counter
  /\ \A i, j \in DOMAIN stack : i < j => indices[stack[i]] < indices[stack[j]]
  /\ \A i, j \in DOMAIN calls : i < j => indices[calls[i].field] < indices[calls[j].field]
  /\ Open \subseteq Stacked

\* A visited field is on the stack or in one component.
Partition ==
  /\ \A f \in Names : Indexed(f) <=> f \in Stacked \cup Closed
  /\ Stacked \cap Closed = {}
  /\ \A i, j \in DOMAIN components : i # j => components[i] \cap components[j] = {}
  /\ \A i \in DOMAIN components : components[i] # {}

\* The components, and what their fields depend on.
ComponentsAreCycles ==
  /\ \A i \in DOMAIN components : \A f, g \in components[i] : f = g \/ <<f, g>> \in Needed
  /\ \A i \in DOMAIN components : \A f \in components[i], g \in Names :
       DependsOn(f, g) => \E j \in DOMAIN components : j <= i /\ g \in components[j]

FollowedAreVisited == \A f, d \in Names : Indexed(f) /\ Followed(f, d) => Indexed(d)

\* The number a call has lowered to bounds the numbers of all that is followed in
\* its region, and is the number of a field on the stack that it needs.
LowlinksMean ==
  /\ \A f \in Stacked : lowlinks[f] <= indices[f]
  /\ \A i \in DOMAIN calls : \A g, d \in Stacked :
       InRegion(i, g) /\ Followed(g, d) => lowlinks[calls[i].field] <= indices[d]
  /\ \A i \in DOMAIN calls :
       \/ lowlinks[calls[i].field] = indices[calls[i].field]
       \/ \E h \in Stacked : indices[h] = lowlinks[calls[i].field] /\ <<calls[i].field, h>> \in Needed

\* Paths between the fields on the stack.
StackPaths ==
  /\ \A i \in DOMAIN calls : \A g \in Stacked :
       InRegion(i, g) => g = calls[i].field \/ <<calls[i].field, g>> \in Needed
  /\ \A g \in Stacked \ Open :
       \E h \in Stacked : indices[h] < indices[g] /\ <<g, h>> \in Needed
  /\ \A g \in Stacked : calls # << >> /\ indices[calls[1].field] <= indices[g]

SearchInv ==
  /\ CallsChain /\ NumbersGrow /\ Partition /\ ComponentsAreCycles
  /\ FollowedAreVisited /\ LowlinksMean /\ StackPaths
  /\ \A i \in 1 .. begun : Fields[i] \in Stacked \cup Closed

Nothing == cyclic = {} /\ visiting = {} /\ visited = {} /\ order = << >>

\* The polling order so far.
OrderInv ==
  /\ CallsChain /\ cyclic = {} /\ \A f \in Names : <<f, f>> \notin Needed
  /\ \A i, j \in DOMAIN calls : i < j => <<calls[i].field, calls[j].field>> \in Needed
  /\ visiting = Open /\ visiting \cap visited = {}
  /\ visited = {order[i] : i \in DOMAIN order} /\ IsInjective(order)
  /\ \A f \in visited \cup visiting, d \in Names : Followed(f, d) => d \in visited
  /\ DependenciesComeFirst
  /\ \A i \in 1 .. begun : Fields[i] \in visited \cup visiting

DependencyInv ==
  /\ DependencyTypes
  /\ pass = "cycles" => SearchInv /\ Nothing
  /\ pass = "order" => OrderInv /\ CyclesAreReported
  /\ PolledInOrderOrReported

-----------------------------------------------------------------------------
(* Dependencies through others. *)

\* Lemma: Needed is the relation Needs.
LEMMA NeededIsNeeds ==
  ASSUME NEW f \in Names, NEW g \in Names PROVE <<f, g>> \in Needed <=> Needs(f, g)
BY DEF Needed

\* Lemma: it has what fields depend on directly.
LEMMA NeededDirectly ==
  ASSUME NEW f \in Names, NEW g \in Names, DependsOn(f, g) PROVE <<f, g>> \in Needed
BY DEF Needed, Needs

\* Lemma: it is transitive.
LEMMA NeededThrough ==
  ASSUME NEW f, NEW g, NEW h, <<f, g>> \in Needed, <<g, h>> \in Needed PROVE <<f, h>> \in Needed
PROOF
  <1>1. f \in Names /\ g \in Names /\ h \in Names /\ Needs(f, g) /\ Needs(g, h) BY DEF Needed
  <1>2. ASSUME NEW c \in SUBSET Names, IsClosed(c), \A d \in Names : DependsOn(f, d) => d \in c
        PROVE  h \in c
    <2>1. g \in c BY <1>1, <1>2 DEF Needs
    <2>2. \A d \in Names : DependsOn(g, d) => d \in c BY <2>1, <1>2 DEF IsClosed
    <2>3. QED BY <1>1, <1>2, <2>2 DEF Needs
  <1>3. Needs(f, h) BY <1>2 DEF Needs
  <1>4. QED BY <1>1, <1>3 DEF Needed

\* Lemma: it does not leave a closed set.
LEMMA NeededInside ==
  ASSUME NEW f, NEW g, <<f, g>> \in Needed, NEW c \in SUBSET Names, IsClosed(c),
         \A d \in Names : DependsOn(f, d) => d \in c
  PROVE  g \in c
BY DEF Needed, Needs

\* Lemma: it stays the same with the dependencies.
LEMMA NeededStays == UNCHANGED state_dependencies => Needed' = Needed
BY DEF Needed, Needs, IsClosed, DependsOn

-----------------------------------------------------------------------------
(* The calls of visit. *)

Calls == [field : Names, at : Nat \ {0}]

\* Lemma: a call that goes on to its next dependency.
LEMMA GoesOn ==
  ASSUME NEW cs \in Seq(Calls), NEW n \in Nat \ {0}, n = Len(cs)
  PROVE  /\ GoOn(cs) \in Seq(Calls) /\ Len(GoOn(cs)) = n
         /\ \A i \in 1 .. n : GoOn(cs)[i].field = cs[i].field
         /\ \A i \in 1 .. n - 1 : GoOn(cs)[i].at = cs[i].at
         /\ GoOn(cs)[n].at = cs[n].at + 1
PROOF
  <1> DEFINE t == [field |-> cs[n].field, at |-> cs[n].at + 1]
  <1>1. cs[n] \in Calls OBVIOUS
  <1>2. t \in Calls /\ t.field = cs[n].field /\ t.at = cs[n].at + 1 BY <1>1 DEF Calls
  <1>3. GoOn(cs) = [cs EXCEPT ![n] = t] BY DEF GoOn
  <1> HIDE DEF t
  <1>4. QED BY <1>2, <1>3

\* Lemma: the innermost call, and the dependency it is at.
LEMMA TopCall ==
  ASSUME DependencyTypes, Underway
  PROVE  /\ Len(calls) \in Nat \ {0} /\ Top \in Calls /\ Current \in Names /\ Top.at \in Nat \ {0}
         /\ state_dependencies[Current] \in Seq(Names)
         /\ ~AtEnd => Top.at \in 1 .. Len(state_dependencies[Current]) /\ Dependency \in Names
PROOF
  <1>0. calls \in Seq(Calls) /\ calls # << >> BY DEF DependencyTypes, Underway, Calls
  <1>1. Len(calls) \in Nat \ {0} /\ Top \in Calls BY <1>0 DEF Top
  <1>2. Current \in Names /\ Top.at \in Nat \ {0} BY <1>1 DEF Current, Calls
  <1>3. state_dependencies[Current] \in Seq(Names) BY <1>2 DEF DependencyTypes
  <1>4. QED BY <1>1, <1>2, <1>3 DEF AtEnd, Dependency

\* Lemma: the calls after one has returned.
LEMMA ReturnedCalls ==
  ASSUME DependencyTypes, Underway, Len(calls) # 1, NEW n, n = Len(calls) - 1
  PROVE  /\ n \in Nat \ {0} /\ Returned \in Seq(Calls) /\ Len(Returned) = n
         /\ \A i \in 1 .. n : Returned[i].field = calls[i].field
         /\ \A i \in 1 .. n - 1 : Returned[i].at = calls[i].at
         /\ Returned[n].at = calls[n].at + 1
PROOF
  <1>1. calls \in Seq(Calls) /\ n \in Nat \ {0} /\ Len(calls) = n + 1
    <2>1. calls \in Seq(Calls) /\ calls # << >> BY DEF DependencyTypes, Underway, Calls
    <2>2. Len(calls) \in Nat \ {0} BY <2>1
    <2>3. QED BY <2>1, <2>2
  <1> DEFINE cs == Front(calls)
  <1>2. cs \in Seq(Calls) /\ Len(cs) = n /\ \A i \in 1 .. n : cs[i] = calls[i]
    BY <1>1 DEF Front
  <1>3. Returned = GoOn(cs) BY DEF Returned
  <1> HIDE DEF cs
  <1>4. /\ GoOn(cs) \in Seq(Calls) /\ Len(GoOn(cs)) = n
        /\ \A i \in 1 .. n : GoOn(cs)[i].field = cs[i].field
        /\ \A i \in 1 .. n - 1 : GoOn(cs)[i].at = cs[i].at
        /\ GoOn(cs)[n].at = cs[n].at + 1
    BY <1>1, <1>2, GoesOn
  <1>5. n \in 1 .. n /\ \A i \in 1 .. n - 1 : i \in 1 .. n BY <1>1
  <1>6. /\ \A i \in 1 .. n : GoOn(cs)[i].field = calls[i].field
        /\ \A i \in 1 .. n - 1 : GoOn(cs)[i].at = calls[i].at
        /\ GoOn(cs)[n].at = calls[n].at + 1
    BY <1>2, <1>4, <1>5
  <1>7. QED BY <1>1, <1>3, <1>4, <1>6

\* Lemma: all that a finished field depends on has been followed, and nothing else ever is.
LEMMA FollowedIsAll ==
  ASSUME DependencyTypes, NEW f \in Names, NEW d \in Names
  PROVE  /\ Followed(f, d) => DependsOn(f, d)
         /\ f \notin Open /\ DependsOn(f, d) => Followed(f, d)
         /\ Underway /\ AtEnd /\ f = Current /\ (\A i \in DOMAIN calls : calls[i].field = f => i = Len(calls))
              /\ DependsOn(f, d) => Followed(f, d)
PROOF
  <1>1. state_dependencies[f] \in Seq(Names) BY DEF DependencyTypes
  <1>2. DependsOn(f, d) <=> \E k \in DOMAIN state_dependencies[f] : state_dependencies[f][k] = d
    BY <1>1 DEF DependsOn, Contains
  <1>3. ASSUME f \notin Open, DependsOn(f, d) PROVE Followed(f, d) BY <1>2, <1>3 DEF Followed, Open
  <1>4. ASSUME Underway, AtEnd, f = Current, \A i \in DOMAIN calls : calls[i].field = f => i = Len(calls),
               DependsOn(f, d)
        PROVE Followed(f, d)
    <2>1. PICK k \in DOMAIN state_dependencies[f] : state_dependencies[f][k] = d BY <1>2, <1>4
    <2>2. k < Top.at BY <1>1, <1>4, <2>1, TopCall DEF AtEnd
    <2>3. QED BY <1>4, <2>1, <2>2 DEF Followed, Top
  <1>5. QED BY <1>2, <1>3, <1>4 DEF Followed

\* Lemma: a field is called.
LEMMA CallAdded ==
  ASSUME DependencyTypes, CallsChain, NEW f \in Names, f \notin Open, UNCHANGED state_dependencies,
         calls' = Append(calls, CallOf(f)), Underway => ~AtEnd /\ f = Dependency
  PROVE  /\ calls' \in Seq(Calls) /\ Len(calls') = Len(calls) + 1
         /\ \A i \in DOMAIN calls : calls'[i] = calls[i]
         /\ calls'[Len(calls) + 1].field = f
         /\ CallsChain' /\ Open' = Open \cup {f}
         /\ \A g, d \in Names : Followed(g, d)' => g # f /\ Followed(g, d)
PROOF
  <1>1. calls \in Seq(Calls) /\ CallOf(f) \in Calls /\ CallOf(f).field = f /\ CallOf(f).at = 1
    BY DEF DependencyTypes, Calls, CallOf
  <1>n. PICK n : n = Len(calls) OBVIOUS
  <1>2. /\ calls' \in Seq(Calls) /\ Len(calls') = n + 1 /\ n \in Nat
        /\ \A i \in 1 .. n : calls'[i] = calls[i]
        /\ calls'[n + 1].field = f /\ calls'[n + 1].at = 1 /\ n = Len(calls)
    BY <1>1, <1>n
  <1>c. /\ \A i \in 1 .. n : calls[i].at \in 1 .. Len(state_dependencies[calls[i].field]) + 1
        /\ \A i \in 1 .. n - 1 :
             /\ calls[i].at \in DOMAIN state_dependencies[calls[i].field]
             /\ state_dependencies[calls[i].field][calls[i].at] = calls[i + 1].field
    <2>1. DOMAIN calls = 1 .. n /\ n = Len(calls) /\ n \in Nat BY <1>1, <1>2
    <2>2. \A i \in 1 .. n - 1 : i \in 1 .. n /\ i < n BY <2>1
    <2>3. QED BY <2>1, <2>2 DEF CallsChain
  <1>3. CallsChain'
    <2>1. /\ \A i \in 1 .. n : calls'[i] = calls[i] /\ n \in Nat
          /\ \A i \in 1 .. n - 1 : i \in 1 .. n /\ i + 1 \in 1 .. n
      BY <1>2
    <2>2. \A i \in 1 .. n + 1 : calls'[i].at \in 1 .. Len(state_dependencies[calls'[i].field]) + 1
      <3>1. Len(state_dependencies[f]) \in Nat BY DEF DependencyTypes
      <3>2. calls'[n + 1].at \in 1 .. Len(state_dependencies[calls'[n + 1].field]) + 1 BY <3>1, <1>2
      <3>3. n \in Nat BY <1>2
      <3>4. \A i \in 1 .. n + 1 : i = n + 1 \/ i \in 1 .. n BY <3>3
      <3>5. QED BY <3>2, <3>4, <2>1, <1>c
    <2>3. ASSUME NEW i \in 1 .. n
          PROVE  /\ calls'[i].at \in DOMAIN state_dependencies[calls'[i].field]
                 /\ state_dependencies[calls'[i].field][calls'[i].at] = calls'[i + 1].field
      <3>1. CASE i # n
        <4>1. i \in 1 .. n - 1 BY <3>1, <2>1
        <4>2. QED BY <4>1, <2>1, <1>c
      <3>2. CASE i = n
        <4>1. Underway BY <3>2, <1>2 DEF Underway
        <4>2. /\ calls[n].at \in DOMAIN state_dependencies[calls[n].field]
              /\ state_dependencies[calls[n].field][calls[n].at] = f
          BY <4>1, <1>n, TopCall DEF Dependency, Top, Current
        <4>3. QED BY <3>2, <4>2, <1>2
      <3>3. QED BY <3>1, <3>2
    <2>4. DOMAIN calls' = 1 .. n + 1 /\ \A i \in 1 .. n + 1 : i < n + 1 => i \in 1 .. n BY <1>2
    <2>5. QED BY <2>2, <2>3, <2>4, <1>2 DEF CallsChain
  <1>4. Open' = Open \cup {f}
    <2>1. DOMAIN calls = 1 .. n /\ DOMAIN calls' = 1 .. n + 1 BY <1>1, <1>2
    <2>2. Open' = {calls'[i].field : i \in 1 .. n + 1} BY <2>1 DEF Open
    <2>3. QED BY <2>1, <2>2, <1>2 DEF Open
  <1>5. ASSUME NEW g \in Names, NEW d \in Names, Followed(g, d)' PROVE g # f /\ Followed(g, d)
    <2>1. PICK k \in DOMAIN state_dependencies[g] :
            /\ state_dependencies[g][k] = d
            /\ \A i \in DOMAIN calls' : calls'[i].field = g => k < calls'[i].at
      BY <1>5 DEF Followed
    <2>2. k \in Nat \ {0}
      <3>1. state_dependencies[g] \in Seq(Names) BY DEF DependencyTypes
      <3>2. QED BY <2>1, <3>1
    <2>3. g # f BY <1>2, <2>1, <2>2
    <2>4. QED BY <1>1, <1>2, <2>1, <2>3 DEF Followed
  <1>6. QED BY <1>1, <1>2, <1>3, <1>4, <1>5

\* Lemma: a dependency is passed.
LEMMA CallGoesOn ==
  ASSUME DependencyTypes, CallsChain, Underway, ~AtEnd, UNCHANGED state_dependencies,
         calls' = GoOn(calls)
  PROVE  /\ calls' \in Seq(Calls) /\ Len(calls') = Len(calls)
         /\ \A i \in DOMAIN calls : calls'[i].field = calls[i].field
         /\ CallsChain' /\ Open' = Open
         /\ \A g, d \in Names : Followed(g, d)' => Followed(g, d) \/ (g = Current /\ d = Dependency)
PROOF
  <1>n. PICK n : n = Len(calls) OBVIOUS
  <1>1. calls \in Seq(Calls) /\ n \in Nat \ {0} /\ n = Len(calls)
    BY <1>n, TopCall DEF DependencyTypes, Calls
  <1>2. /\ calls' \in Seq(Calls) /\ Len(calls') = n
        /\ \A i \in 1 .. n : calls'[i].field = calls[i].field
        /\ \A i \in 1 .. n - 1 : calls'[i].at = calls[i].at
        /\ calls'[n].at = calls[n].at + 1
    BY <1>1, GoesOn
  <1>3. /\ calls[n].at \in Nat \ {0} /\ calls[n].at <= Len(state_dependencies[calls[n].field])
        /\ Len(state_dependencies[calls[n].field]) \in Nat
    BY <1>n, TopCall DEF AtEnd, Top, Current
  <1>c. /\ \A i \in 1 .. n : calls[i].at \in 1 .. Len(state_dependencies[calls[i].field]) + 1
        /\ \A i \in 1 .. n - 1 :
             /\ calls[i].at \in DOMAIN state_dependencies[calls[i].field]
             /\ state_dependencies[calls[i].field][calls[i].at] = calls[i + 1].field
    <2>1. DOMAIN calls = 1 .. n /\ n = Len(calls) BY <1>1
    <2>2. \A i \in 1 .. n - 1 : i \in 1 .. n /\ i < n BY <1>1
    <2>3. \A i \in 1 .. n : calls[i].at \in 1 .. Len(state_dependencies[calls[i].field]) + 1
      BY <2>1 DEF CallsChain
    <2>4. QED BY <2>1, <2>2, <2>3 DEF CallsChain
  <1>4. CallsChain'
    <2>1. /\ \A i \in 1 .. n - 1 : i \in 1 .. n /\ i + 1 \in 1 .. n
          /\ \A i \in 1 .. n : i = n \/ i \in 1 .. n - 1
      BY <1>1
    <2>2. \A i \in 1 .. n : calls'[i].at \in 1 .. Len(state_dependencies[calls'[i].field]) + 1
      <3>1. calls'[n].at \in 1 .. Len(state_dependencies[calls'[n].field]) + 1 BY <1>1, <1>2, <1>3
      <3>2. QED BY <3>1, <2>1, <1>2, <1>c
    <2>3. \A i \in 1 .. n - 1 :
            /\ calls'[i].at \in DOMAIN state_dependencies[calls'[i].field]
            /\ state_dependencies[calls'[i].field][calls'[i].at] = calls'[i + 1].field
      BY <2>1, <1>2, <1>c
    <2>4. DOMAIN calls' = 1 .. n /\ \A i \in 1 .. n : i < n => i \in 1 .. n - 1 BY <1>1, <1>2
    <2>5. QED BY <2>2, <2>3, <2>4, <1>2 DEF CallsChain
  <1>5. Open' = Open
    <2>1. DOMAIN calls = 1 .. n /\ DOMAIN calls' = 1 .. n BY <1>1, <1>2
    <2>2. QED BY <2>1, <1>2 DEF Open
  <1>6. ASSUME NEW g \in Names, NEW d \in Names, Followed(g, d)',
               ~(g = Current /\ d = Dependency)
        PROVE Followed(g, d)
    <2>1. PICK k \in DOMAIN state_dependencies[g] :
            /\ state_dependencies[g][k] = d
            /\ \A i \in DOMAIN calls' : calls'[i].field = g => k < calls'[i].at
      BY <1>6 DEF Followed
    <2>2. k \in Nat \ {0}
      <3>1. state_dependencies[g] \in Seq(Names) BY DEF DependencyTypes
      <3>2. QED BY <2>1, <3>1
    <2>3. \A i \in 1 .. n - 1 : calls[i].field = g => k < calls[i].at BY <1>1, <1>2, <2>1
    <2>4. ASSUME calls[n].field = g PROVE k < calls[n].at
      <3>1. k < calls[n].at + 1 BY <1>1, <1>2, <2>1, <2>4
      <3>2. k # calls[n].at BY <1>n, <1>6, <2>1, <2>4 DEF Current, Dependency, Top
      <3>3. QED BY <3>1, <3>2, <2>2, <1>3
    <2>5. QED BY <1>1, <2>1, <2>3, <2>4 DEF Followed
  <1>7. QED BY <1>1, <1>2, <1>4, <1>5, <1>6

\* Lemma: a call returns.
LEMMA CallReturns ==
  ASSUME DependencyTypes, CallsChain, Underway, AtEnd, UNCHANGED state_dependencies,
         calls' = Returned,
         \A i, j \in DOMAIN calls : i < j => calls[i].field # calls[j].field
  PROVE  /\ calls' \in Seq(Calls) /\ Len(calls') = Len(calls) - 1
         /\ \A i \in DOMAIN calls' : calls'[i].field = calls[i].field
         /\ CallsChain' /\ Open' = Open \ {Current} /\ Current \in Open
         /\ Len(calls) # 1 => DependsOn(calls[Len(calls) - 1].field, Current)
         /\ \A g, d \in Names : Followed(g, d)' =>
              \/ Followed(g, d)
              \/ (Len(calls) # 1 /\ g = calls[Len(calls) - 1].field /\ d = Current)
PROOF
  <1>n. PICK n : n = Len(calls) OBVIOUS
  <1>1. /\ calls \in Seq(Calls) /\ n \in Nat \ {0} /\ n = Len(calls)
        /\ Current = calls[n].field /\ Current \in Open
        /\ calls[n].at > Len(state_dependencies[Current]) /\ calls[n].at \in Nat
        /\ Len(state_dependencies[Current]) \in Nat
    <2>1. calls \in Seq(Calls) BY DEF DependencyTypes, Calls
    <2>2. QED BY <2>1, <1>n, TopCall DEF Current, Top, AtEnd, Open
  <1>2. /\ calls' \in Seq(Calls) /\ Len(calls') = n - 1
        /\ \A i \in 1 .. n - 1 : calls'[i].field = calls[i].field
        /\ n # 1 => calls'[n - 1].at = calls[n - 1].at + 1
        /\ \A i \in 1 .. n - 2 : calls'[i].at = calls[i].at
    <2>1. CASE n = 1
      <3>1. calls' = << >> BY <1>1, <2>1 DEF Returned
      <3>2. QED BY <3>1, <2>1
    <2>2. CASE n # 1
      <3> DEFINE m == n - 1
      <3>1. m = Len(calls) - 1 /\ m - 1 = n - 2 BY <1>1
      <3>2. /\ m \in Nat \ {0} /\ Returned \in Seq(Calls) /\ Len(Returned) = m
            /\ \A i \in 1 .. m : Returned[i].field = calls[i].field
            /\ \A i \in 1 .. m - 1 : Returned[i].at = calls[i].at
            /\ Returned[m].at = calls[m].at + 1
        BY <1>1, <2>2, <3>1, ReturnedCalls
      <3>3. calls' = Returned /\ m - 1 = n - 2 BY <3>1
      <3> HIDE DEF m
      <3>4. /\ calls' \in Seq(Calls) /\ Len(calls') = m
            /\ \A i \in 1 .. m : calls'[i].field = calls[i].field
            /\ \A i \in 1 .. n - 2 : calls'[i].at = calls[i].at
            /\ calls'[m].at = calls[m].at + 1
        BY <3>2, <3>3
      <3>5. QED BY <3>4 DEF m
    <2>3. QED BY <2>1, <2>2
  <1>c. /\ \A i \in 1 .. n : calls[i].at \in 1 .. Len(state_dependencies[calls[i].field]) + 1
        /\ \A i \in 1 .. n - 1 :
             /\ calls[i].at \in DOMAIN state_dependencies[calls[i].field]
             /\ state_dependencies[calls[i].field][calls[i].at] = calls[i + 1].field
    <2>1. DOMAIN calls = 1 .. n /\ n = Len(calls) BY <1>1
    <2>2. \A i \in 1 .. n - 1 : i \in 1 .. n /\ i < n BY <1>1
    <2>3. \A i \in 1 .. n : calls[i].at \in 1 .. Len(state_dependencies[calls[i].field]) + 1
      BY <2>1 DEF CallsChain
    <2>4. QED BY <2>1, <2>2, <2>3 DEF CallsChain
  <1>3. ASSUME n # 1
        PROVE /\ calls[n - 1].at <= Len(state_dependencies[calls[n - 1].field])
              /\ state_dependencies[calls[n - 1].field][calls[n - 1].at] = Current
              /\ calls[n - 1].at \in Nat \ {0} /\ calls[n - 1].field \in Names
              /\ Len(state_dependencies[calls[n - 1].field]) \in Nat
    <2>1. n - 1 \in 1 .. n - 1 /\ n - 1 \in 1 .. n /\ n - 1 < n /\ n - 1 + 1 = n
      <3>1. n \in Nat \ {0} /\ n # 1 BY <1>1, <1>3
      <3>2. QED BY ONLY <3>1
    <2>2. calls[n - 1] \in Calls BY <1>1, <2>1
    <2>3. calls[n - 1].at \in Nat \ {0} /\ calls[n - 1].field \in Names BY <2>2 DEF Calls
    <2>4. state_dependencies[calls[n - 1].field] \in Seq(Names) BY <2>3 DEF DependencyTypes
    <2>5. /\ calls[n - 1].at \in DOMAIN state_dependencies[calls[n - 1].field]
          /\ state_dependencies[calls[n - 1].field][calls[n - 1].at] = calls[n - 1 + 1].field
      BY <2>1, <1>c
    <2>6. QED BY <1>1, <2>1, <2>3, <2>4, <2>5
  <1>4. CallsChain'
    <2>1. /\ \A i \in 1 .. n - 1 : i \in 1 .. n
          /\ \A i \in 1 .. n - 2 : i \in 1 .. n - 1 /\ i + 1 \in 1 .. n - 1
          /\ \A i \in 1 .. n - 1 : i \in 1 .. n - 2 \/ (i = n - 1 /\ n # 1)
      BY <1>1
    <2>2. \A i \in 1 .. n - 1 : calls'[i].at \in 1 .. Len(state_dependencies[calls'[i].field]) + 1
      <3>1. ASSUME n # 1
            PROVE  calls'[n - 1].at \in 1 .. Len(state_dependencies[calls'[n - 1].field]) + 1
        <4>1. n - 1 \in 1 .. n - 1 BY <3>1, <1>1
        <4>2. calls'[n - 1].field = calls[n - 1].field /\ calls'[n - 1].at = calls[n - 1].at + 1
          BY <3>1, <4>1, <1>2
        <4>3. QED BY <3>1, <4>2, <1>3
      <3>2. QED BY <3>1, <2>1, <1>2, <1>c
    <2>3. \A i \in 1 .. n - 2 :
            /\ calls'[i].at \in DOMAIN state_dependencies[calls'[i].field]
            /\ state_dependencies[calls'[i].field][calls'[i].at] = calls'[i + 1].field
      BY <2>1, <1>2, <1>c
    <2>4. DOMAIN calls' = 1 .. n - 1 /\ \A i \in 1 .. n - 1 : i < n - 1 => i \in 1 .. n - 2
      BY <1>1, <1>2
    <2>5. QED BY <2>2, <2>3, <2>4, <1>2 DEF CallsChain
  <1>5. Open' = Open \ {Current}
    <2>1. DOMAIN calls = 1 .. n /\ DOMAIN calls' = 1 .. n - 1 BY <1>1, <1>2
    <2>2. Open' = {calls[i].field : i \in 1 .. n - 1} BY <2>1, <1>2 DEF Open
    <2>3. \A i \in 1 .. n - 1 : calls[i].field # calls[n].field
      <3> SUFFICES ASSUME NEW i \in 1 .. n - 1 PROVE calls[i].field # calls[n].field OBVIOUS
      <3>1. i \in 1 .. n /\ n \in 1 .. n /\ i < n BY <1>1
      <3> QED BY <3>1, <2>1
    <2>4. Open = {calls[i].field : i \in 1 .. n} BY <2>1 DEF Open
    <2>5. \A i \in 1 .. n : i = n \/ i \in 1 .. n - 1 BY <1>1
    <2>6. Current = calls[n].field /\ n \in 1 .. n /\ \A i \in 1 .. n - 1 : i \in 1 .. n BY <1>1
    <2> HIDE DEF Current
    <2> QED BY ONLY <2>2, <2>3, <2>4, <2>5, <2>6
  <1>6. n # 1 => DependsOn(calls[n - 1].field, Current)
    BY <1>3 DEF DependsOn, Contains
  <1>7. ASSUME NEW g \in Names, NEW d \in Names, Followed(g, d)',
               ~(n # 1 /\ g = calls[n - 1].field /\ d = Current)
        PROVE Followed(g, d)
    <2>1. PICK k \in DOMAIN state_dependencies[g] :
            /\ state_dependencies[g][k] = d
            /\ \A i \in DOMAIN calls' : calls'[i].field = g => k < calls'[i].at
      BY <1>7 DEF Followed
    <2>2. k \in 1 .. Len(state_dependencies[g])
      <3>1. state_dependencies[g] \in Seq(Names) BY DEF DependencyTypes
      <3>2. QED BY <2>1, <3>1
    <2>d. DOMAIN calls' = 1 .. n - 1 BY <1>1, <1>2
    <2>3. ASSUME NEW i \in 1 .. n - 2, calls[i].field = g PROVE k < calls[i].at
      <3>1. i \in 1 .. n - 1 BY <1>1
      <3>2. calls'[i].field = calls[i].field /\ calls'[i].at = calls[i].at BY <3>1, <1>2
      <3>3. QED BY <3>1, <3>2, <2>d, <2>1, <2>3
    <2>4. ASSUME n # 1, calls[n - 1].field = g PROVE k < calls[n - 1].at
      <3>1. k < calls[n - 1].at + 1
        <4>1. n - 1 \in 1 .. n - 1 BY <2>4, <1>1
        <4>2. calls'[n - 1].field = calls[n - 1].field /\ calls'[n - 1].at = calls[n - 1].at + 1
          BY <2>4, <4>1, <1>2
        <4>3. QED BY <4>1, <4>2, <2>d, <2>1, <2>4
      <3>2. k # calls[n - 1].at BY <1>3, <1>7, <2>1, <2>4
      <3>3. QED BY <3>1, <3>2, <2>2, <2>4, <1>3
    <2>5. calls[n].field = g => k < calls[n].at BY <1>1, <2>2
    <2>6. \A i \in 1 .. n : calls[i].field = g => k < calls[i].at
      <3>1. \A i \in 1 .. n : i = n \/ (n # 1 /\ i = n - 1) \/ i \in 1 .. n - 2 BY <1>1
      <3>2. QED BY <3>1, <2>3, <2>4, <2>5
    <2>7. QED BY <1>1, <2>1, <2>6 DEF Followed
  <1>8. DOMAIN calls' = 1 .. n - 1 BY <1>1, <1>2
  <1>9. \A i \in DOMAIN calls' : calls'[i].field = calls[i].field BY <1>2, <1>8
  <1>10. /\ Len(calls') = Len(calls) - 1
         /\ Len(calls) # 1 => DependsOn(calls[Len(calls) - 1].field, Current)
    BY <1>1, <1>2, <1>6
  <1>11. \A g, d \in Names : Followed(g, d)' =>
           \/ Followed(g, d)
           \/ (Len(calls) # 1 /\ g = calls[Len(calls) - 1].field /\ d = Current)
    BY <1>1, <1>7
  <1>12. QED BY <1>1, <1>2, <1>4, <1>5, <1>9, <1>10, <1>11

-----------------------------------------------------------------------------
(* The search for cycles: a field is visited. *)

\* What the loop and the call that visits a field leave alone.
SearchOnly == pass = "cycles" /\ UNCHANGED <<state_dependencies, pass, cyclic, orderVars>>

\* Lemma: a visit puts a field on the stack, with a number above all others.
LEMMA VisitEffect ==
  ASSUME DependencyTypes, SearchInv, SearchOnly, NEW f \in Names, ~Indexed(f), Visit(f),
         Underway => ~AtEnd /\ f = Dependency
  PROVE  /\ f \notin Stacked /\ f \notin Closed /\ f \notin Open
         /\ Stacked' = Stacked \cup {f} /\ Closed' = Closed /\ components' = components
         /\ indices' \in [Names -> Nat] /\ lowlinks' \in [Names -> Nat] /\ counter' \in Nat \ {0}
         /\ stack' \in Seq(Names) /\ counter' = counter + 1
         /\ indices'[f] = counter /\ lowlinks'[f] = counter
         /\ \A g \in Names : g # f => indices'[g] = indices[g] /\ lowlinks'[g] = lowlinks[g]
         /\ \A i, j \in DOMAIN stack' : i < j => indices'[stack'[i]] < indices'[stack'[j]]
PROOF
  <1>1. f \notin Stacked /\ f \notin Closed /\ f \notin Open
    BY DEF SearchInv, Partition, NumbersGrow
  <1>2. /\ indices' \in [Names -> Nat] /\ lowlinks' \in [Names -> Nat] /\ counter' \in Nat \ {0}
        /\ counter' = counter + 1 /\ indices'[f] = counter /\ lowlinks'[f] = counter
        /\ \A g \in Names : g # f => indices'[g] = indices[g] /\ lowlinks'[g] = lowlinks[g]
    BY DEF DependencyTypes, Visit
  <1>m. PICK m : m = Len(stack) OBVIOUS
  <1>3. /\ stack \in Seq(Names) /\ m \in Nat /\ DOMAIN stack = 1 .. m
        /\ stack' \in Seq(Names) /\ DOMAIN stack' = 1 .. m + 1
        /\ \A i \in 1 .. m : stack'[i] = stack[i] /\ stack[i] \in Names
        /\ stack'[m + 1] = f
    BY <1>m DEF DependencyTypes, Visit
  <1>4. \A i \in 1 .. m + 1 : i = m + 1 \/ i \in 1 .. m BY <1>3
  <1>5. Stacked' = Stacked \cup {f}
    <2>1. Stacked' = {stack'[i] : i \in 1 .. m + 1} BY <1>3 DEF Stacked
    <2>2. Stacked = {stack[i] : i \in 1 .. m} BY <1>3 DEF Stacked
    <2>3. 1 .. m + 1 = (1 .. m) \cup {m + 1} BY <1>3
    <2>4. QED BY <2>1, <2>2, <2>3, <1>3
  <1>6. components' = components /\ Closed' = Closed BY DEF Visit, Closed
  <1>7. ASSUME NEW i \in 1 .. m + 1, NEW j \in 1 .. m + 1, i < j
        PROVE  indices'[stack'[i]] < indices'[stack'[j]]
    <2>1. i \in 1 .. m BY <1>3, <1>7
    <2>2. stack[i] \in Names /\ stack[i] \in Stacked /\ stack'[i] = stack[i] /\ stack[i] # f
      BY <2>1, <1>1, <1>3 DEF Stacked
    <2>3. indices'[stack'[i]] = indices[stack[i]] BY <2>2, <1>2
    <2>4. CASE j = m + 1 BY <2>2, <2>3, <2>4, <1>2, <1>3 DEF SearchInv, NumbersGrow
    <2>5. CASE j \in 1 .. m
      <3>1. stack[j] \in Names /\ stack[j] \in Stacked /\ stack'[j] = stack[j] /\ stack[j] # f
        BY <2>5, <1>1, <1>3 DEF Stacked
      <3>2. indices'[stack'[j]] = indices[stack[j]] BY <3>1, <1>2
      <3>3. indices[stack[i]] < indices[stack[j]] BY <2>1, <2>5, <1>3, <1>7 DEF SearchInv, NumbersGrow
      <3>4. QED BY <2>3, <3>2, <3>3
    <2>6. QED BY <1>4, <2>4, <2>5
  <1>8. QED BY <1>1, <1>2, <1>3, <1>5, <1>6, <1>7

\* Lemma: a visit keeps the invariant of the search.
LEMMA VisitKeeps ==
  ASSUME DependencyTypes, SearchInv, SearchOnly, NEW f \in Names, ~Indexed(f), Visit(f),
         Underway => ~AtEnd /\ f = Dependency,
         \A i \in 1 .. begun' : i \in 1 .. begun \/ Fields[i] = f
  PROVE  SearchInv' /\ calls' \in Seq(Calls) /\ stack' \in Seq(Names)
         /\ indices' \in [Names -> Nat] /\ lowlinks' \in [Names -> Nat] /\ counter' \in Nat \ {0}
PROOF
  <1>1. /\ f \notin Stacked /\ f \notin Closed /\ f \notin Open
        /\ Stacked' = Stacked \cup {f} /\ Closed' = Closed /\ components' = components
        /\ indices' \in [Names -> Nat] /\ lowlinks' \in [Names -> Nat] /\ counter' \in Nat \ {0}
        /\ stack' \in Seq(Names) /\ counter' = counter + 1
        /\ indices'[f] = counter /\ lowlinks'[f] = counter
        /\ \A g \in Names : g # f => indices'[g] = indices[g] /\ lowlinks'[g] = lowlinks[g]
        /\ \A i, j \in DOMAIN stack' : i < j => indices'[stack'[i]] < indices'[stack'[j]]
    BY VisitEffect
  <1>n. PICK n : n = Len(calls) OBVIOUS
  <1>2. /\ calls' \in Seq(Calls) /\ Len(calls') = n + 1
        /\ \A i \in DOMAIN calls : calls'[i] = calls[i]
        /\ calls'[n + 1].field = f
        /\ CallsChain' /\ Open' = Open \cup {f}
        /\ \A g, d \in Names : Followed(g, d)' => g # f /\ Followed(g, d)
    BY <1>1, <1>n, CallAdded DEF SearchInv, SearchOnly, Visit
  <1>3. /\ calls \in Seq(Calls) /\ n \in Nat /\ DOMAIN calls = 1 .. n /\ DOMAIN calls' = 1 .. n + 1
        /\ \A i \in 1 .. n : calls[i].field \in Stacked /\ calls'[i].field = calls[i].field
    <2>1. calls \in Seq(Calls) BY DEF DependencyTypes, Calls
    <2>2. Open \subseteq Stacked BY DEF SearchInv, NumbersGrow
    <2>3. QED BY <2>1, <2>2, <1>n, <1>2 DEF Open
  <1>4. /\ \A i \in 1 .. n + 1 : i = n + 1 \/ i \in 1 .. n
        /\ \A i \in 1 .. n : i < n => i + 1 \in 1 .. n
    BY <1>3
  <1>5. Stacked \subseteq Names /\ Closed \subseteq Names BY DEF DependencyTypes, Stacked, Closed
  <1>6. \A g \in Stacked : /\ g # f /\ g \in Names /\ indices'[g] = indices[g] /\ lowlinks'[g] = lowlinks[g]
                           /\ indices[g] \in Nat /\ indices[g] < counter
    BY <1>1, <1>5 DEF DependencyTypes, SearchInv, NumbersGrow
  <1>7. counter \in Nat BY DEF DependencyTypes
  <1>8. Needed' = Needed BY NeededStays DEF SearchOnly
  <1>9. NumbersGrow'
    <2>1. ASSUME NEW g \in Names PROVE indices'[g] < counter'
      <3>1. indices[g] \in Nat /\ indices[g] < counter BY DEF DependencyTypes, SearchInv, NumbersGrow
      <3>2. CASE g = f BY <3>2, <1>1, <1>7
      <3>3. CASE g # f
        <4>1. indices'[g] = indices[g] BY <3>3, <1>1
        <4>2. QED BY <4>1, <3>1, <1>1, <1>7
      <3>4. QED BY <3>2, <3>3
    <2>2. ASSUME NEW i \in 1 .. n + 1, NEW j \in 1 .. n + 1, i < j
          PROVE  indices'[calls'[i].field] < indices'[calls'[j].field]
      <3>1. i \in 1 .. n BY <2>2, <1>3
      <3>2. indices'[calls'[i].field] = indices[calls[i].field] /\ indices[calls[i].field] < counter
        BY <3>1, <1>3, <1>6
      <3>3. CASE j = n + 1 BY <3>2, <3>3, <1>1, <1>2
      <3>4. CASE j \in 1 .. n
        <4>1. indices'[calls'[j].field] = indices[calls[j].field] BY <3>4, <1>3, <1>6
        <4>2. indices[calls[i].field] < indices[calls[j].field]
          BY <3>1, <3>4, <2>2, <1>3 DEF SearchInv, NumbersGrow
        <4>3. QED BY <3>2, <4>1, <4>2
      <3>5. QED BY <3>3, <3>4, <1>4
    <2>3. Open' \subseteq Stacked' BY <1>1, <1>2 DEF SearchInv, NumbersGrow
    <2>4. QED BY <2>1, <2>2, <2>3, <1>1, <1>3 DEF NumbersGrow
  <1>10. Partition'
    <2>1. \A g \in Names : Indexed(g)' <=> Indexed(g) \/ g = f
      BY <1>1, <1>7 DEF Indexed, DependencyTypes
    <2>2. QED BY <2>1, <1>1 DEF SearchInv, Partition
  <1>11. ComponentsAreCycles'
    BY <1>1, <1>8 DEF SearchInv, ComponentsAreCycles, SearchOnly, DependsOn
  <1>12. FollowedAreVisited'
    <2>1. \A g \in Names : Indexed(g)' <=> Indexed(g) \/ g = f
      BY <1>1, <1>7 DEF Indexed, DependencyTypes
    <2>2. QED BY <2>1, <1>2 DEF SearchInv, FollowedAreVisited
  <1>13. ASSUME NEW i \in 1 .. n, NEW g \in Stacked', InRegion(i, g)' PROVE g \in Stacked /\ InRegion(i, g)
    <2>1. indices'[calls'[i].field] <= indices'[g] /\ (i < n + 1 => indices'[g] < indices'[calls'[i + 1].field])
      BY <1>13, <1>2 DEF InRegion
    <2>2. CASE i = n
      <3>1. indices'[g] < counter BY <2>1, <2>2, <1>1, <1>2, <1>3
      <3>2. g \in Stacked BY <3>1, <1>1, <1>7
      <3>3. QED BY <3>2, <2>1, <2>2, <1>3, <1>6, <1>n DEF InRegion
    <2>3. CASE i < n
      <3>1. i + 1 \in 1 .. n BY <2>3, <1>4
      <3>2. indices'[g] < indices[calls[i + 1].field] BY <2>1, <2>3, <3>1, <1>3, <1>6
      <3>3. indices[calls[i + 1].field] < counter BY <3>1, <1>3, <1>6
      <3>4. g \in Stacked BY <3>2, <3>3, <1>1, <1>7, <1>6, <3>1, <1>3
      <3>5. QED BY <3>4, <3>2, <2>1, <2>3, <1>3, <1>6, <1>n DEF InRegion
    <2>4. QED BY <2>2, <2>3, <1>3
  <1>14. ASSUME NEW g \in Stacked', InRegion(n + 1, g)' PROVE g = f
    <2>1. counter <= indices'[g] BY <1>14, <1>1, <1>2 DEF InRegion
    <2>2. ASSUME g \in Stacked PROVE FALSE
      <3>1. indices'[g] = indices[g] /\ indices[g] \in Nat /\ indices[g] < counter BY <2>2, <1>6
      <3>2. QED BY <2>1, <3>1, <1>7
    <2>3. QED BY <2>2, <1>1, <1>14
  <1>15. LowlinksMean'
    <2>1. \A g \in Stacked' : lowlinks'[g] <= indices'[g]
      BY <1>1, <1>6, <1>7 DEF SearchInv, LowlinksMean
    <2>2. ASSUME NEW i \in 1 .. n + 1, NEW g \in Stacked', NEW d \in Stacked', InRegion(i, g)', Followed(g, d)'
          PROVE  lowlinks'[calls'[i].field] <= indices'[d]
      <3>1. g # f /\ Followed(g, d) /\ g \in Names /\ d \in Names BY <2>2, <1>1, <1>2, <1>5
      <3>2. i \in 1 .. n BY <3>1, <2>2, <1>14, <1>4
      <3>3. g \in Stacked /\ InRegion(i, g) BY <3>2, <2>2, <1>13
      <3>4. Indexed(g) /\ Indexed(d) BY <3>1, <3>3 DEF SearchInv, Partition, FollowedAreVisited
      <3>5. d \in Stacked BY <3>4, <1>1
      <3>6. lowlinks[calls[i].field] <= indices[d]
        BY <3>1, <3>2, <3>3, <3>5, <1>3 DEF SearchInv, LowlinksMean
      <3>7. QED BY <3>2, <3>5, <3>6, <1>3, <1>6
    <2>3. ASSUME NEW i \in 1 .. n + 1
          PROVE  \/ lowlinks'[calls'[i].field] = indices'[calls'[i].field]
                 \/ \E h \in Stacked' : indices'[h] = lowlinks'[calls'[i].field] /\ <<calls'[i].field, h>> \in Needed'
      <3>1. CASE i = n + 1 BY <3>1, <1>1, <1>2
      <3>2. CASE i \in 1 .. n
        <4>1. \/ lowlinks[calls[i].field] = indices[calls[i].field]
              \/ \E h \in Stacked : indices[h] = lowlinks[calls[i].field] /\ <<calls[i].field, h>> \in Needed
          BY <3>2, <1>3 DEF SearchInv, LowlinksMean
        <4>2. /\ calls'[i].field = calls[i].field
              /\ indices'[calls[i].field] = indices[calls[i].field]
              /\ lowlinks'[calls[i].field] = lowlinks[calls[i].field]
          BY <3>2, <1>3, <1>6
        <4>3. CASE lowlinks[calls[i].field] = indices[calls[i].field] BY <4>2, <4>3
        <4>4. ASSUME NEW h \in Stacked, indices[h] = lowlinks[calls[i].field], <<calls[i].field, h>> \in Needed
              PROVE  \E k \in Stacked' : indices'[k] = lowlinks'[calls'[i].field] /\ <<calls'[i].field, k>> \in Needed'
          <5>1. h \in Stacked' /\ indices'[h] = indices[h] BY <1>1, <1>6
          <5>2. QED BY <5>1, <4>2, <4>4, <1>8
        <4>5. QED BY <4>1, <4>3, <4>4
      <3>3. QED BY <3>1, <3>2, <1>4
    <2>4. QED BY <2>1, <2>2, <2>3, <1>3 DEF LowlinksMean
  <1>16. StackPaths'
    <2>1. ASSUME NEW i \in 1 .. n + 1, NEW g \in Stacked', InRegion(i, g)'
          PROVE  g = calls'[i].field \/ <<calls'[i].field, g>> \in Needed'
      <3>1. CASE i = n + 1 BY <3>1, <2>1, <1>2, <1>14
      <3>2. CASE i \in 1 .. n
        <4>1. g \in Stacked /\ InRegion(i, g) BY <3>2, <2>1, <1>13
        <4>2. QED BY <4>1, <3>2, <1>3, <1>8 DEF SearchInv, StackPaths
      <3>3. QED BY <3>1, <3>2, <1>4
    <2>2. ASSUME NEW g \in Stacked' \ Open'
          PROVE  \E h \in Stacked' : indices'[h] < indices'[g] /\ <<g, h>> \in Needed'
      <3>1. g \in Stacked \ Open BY <2>2, <1>1, <1>2
      <3>2. PICK h \in Stacked : indices[h] < indices[g] /\ <<g, h>> \in Needed
        BY <3>1 DEF SearchInv, StackPaths
      <3>3. QED BY <3>1, <3>2, <1>1, <1>6, <1>8
    <2>3. ASSUME NEW g \in Stacked' PROVE calls' # << >> /\ indices'[calls'[1].field] <= indices'[g]
      <3>1. calls' # << >> BY <1>2, <1>3
      <3>2. CASE n = 0
        <4>1. Stacked = {} BY <3>2, <1>3 DEF SearchInv, StackPaths
        <4>2. QED BY <4>1, <3>1, <3>2, <1>1, <1>2, <1>7
      <3>3. CASE n # 0
        <4>1. 1 \in 1 .. n BY <3>3, <1>3
        <4>2. indices'[calls'[1].field] = indices[calls[1].field] /\ indices[calls[1].field] < counter
              /\ indices[calls[1].field] \in Nat
          BY <4>1, <1>3, <1>6
        <4>3. CASE g = f BY <4>2, <4>3, <3>1, <1>1, <1>7
        <4>4. CASE g \in Stacked BY <4>2, <4>4, <3>1, <1>6 DEF SearchInv, StackPaths
        <4>5. QED BY <4>3, <4>4, <1>1
      <3>4. QED BY <3>2, <3>3
    <2>4. QED BY <2>1, <2>2, <2>3, <1>3 DEF StackPaths
  <1>17. \A i \in 1 .. begun' : Fields'[i] \in Stacked' \cup Closed' BY <1>1 DEF SearchInv
  <1>18. QED BY <1>1, <1>2, <1>9, <1>10, <1>11, <1>12, <1>15, <1>16, <1>17 DEF SearchInv

-----------------------------------------------------------------------------
(* The search for cycles: a dependency that has its number is passed. *)

\* Lemma: the calls by position, and the fields they are of.
LEMMA CallFacts ==
  ASSUME DependencyTypes, SearchInv, NEW n, n = Len(calls)
  PROVE  /\ calls \in Seq(Calls) /\ n \in Nat /\ DOMAIN calls = 1 .. n
         /\ \A i \in 1 .. n : calls[i].field \in Stacked /\ calls[i].field \in Names
         /\ \A i, j \in 1 .. n : i < j => indices[calls[i].field] < indices[calls[j].field]
         /\ \A i, j \in 1 .. n : i # j => calls[i].field # calls[j].field
         /\ Stacked \subseteq Names /\ Closed \subseteq Names
         /\ \A g \in Stacked : indices[g] \in Nat /\ lowlinks[g] \in Nat /\ lowlinks[g] <= indices[g]
         /\ Underway => n \in 1 .. n /\ Current = calls[n].field
PROOF
  <1>1. calls \in Seq(Calls) BY DEF DependencyTypes, Calls
  <1>2. n \in Nat /\ DOMAIN calls = 1 .. n BY <1>1
  <1>3. Stacked \subseteq Names /\ Closed \subseteq Names BY DEF DependencyTypes, Stacked, Closed
  <1>4. \A i \in 1 .. n : calls[i].field \in Stacked /\ calls[i].field \in Names
    BY <1>2, <1>3 DEF SearchInv, NumbersGrow, Open
  <1>5. \A g \in Stacked : indices[g] \in Nat /\ lowlinks[g] \in Nat /\ lowlinks[g] <= indices[g]
    BY <1>3 DEF DependencyTypes, SearchInv, LowlinksMean
  <1>6. \A i, j \in 1 .. n : i < j => indices[calls[i].field] < indices[calls[j].field]
    BY <1>2 DEF SearchInv, NumbersGrow
  <1>7. \A i, j \in 1 .. n : i # j => calls[i].field # calls[j].field
    <2>1. ASSUME NEW i \in 1 .. n, NEW j \in 1 .. n, i < j PROVE calls[i].field # calls[j].field
      <3>1. indices[calls[i].field] < indices[calls[j].field] /\ indices[calls[i].field] \in Nat
        BY <2>1, <1>4, <1>5, <1>6
      <3>2. QED BY <3>1
    <2>2. \A i, j \in 1 .. n : i # j => i < j \/ j < i BY <1>2
    <2>3. QED BY <2>1, <2>2
  <1>8. Underway => n \in 1 .. n /\ Current = calls[n].field BY <1>1, <1>2 DEF Underway, Current, Top
  <1>9. QED BY <1>1, <1>2, <1>3, <1>4, <1>5, <1>6, <1>7, <1>8

\* Lemma: only its own call has a field in its region.
LEMMA OwnRegion ==
  ASSUME DependencyTypes, SearchInv, NEW i \in 1 .. Len(calls), NEW k \in 1 .. Len(calls),
         InRegion(i, calls[k].field)
  PROVE  i = k
PROOF
  <1>n. PICK n : n = Len(calls) OBVIOUS
  <1>1. /\ n \in Nat /\ i \in 1 .. n /\ k \in 1 .. n
        /\ \A l, j \in 1 .. n : l < j => indices[calls[l].field] < indices[calls[j].field]
        /\ \A l \in 1 .. n : indices[calls[l].field] \in Nat
    BY <1>n, CallFacts
  <1>2. /\ indices[calls[i].field] <= indices[calls[k].field]
        /\ i < n => indices[calls[k].field] < indices[calls[i + 1].field]
    BY <1>n DEF InRegion
  <1>3. ~(k < i)
    <2>1. ASSUME k < i PROVE FALSE
      <3>1. indices[calls[k].field] < indices[calls[i].field] BY <1>1, <2>1
      <3>2. QED BY <3>1, <1>1, <1>2
    <2>2. QED BY <2>1
  <1>4. ~(i < k)
    <2>1. ASSUME i < k PROVE FALSE
      <3>1. i < n /\ i + 1 \in 1 .. n /\ (i + 1 = k \/ i + 1 < k) BY <1>1, <2>1
      <3>2. i + 1 < k => indices[calls[i + 1].field] < indices[calls[k].field] BY <1>1, <3>1
      <3>3. indices[calls[i + 1].field] \in Nat /\ indices[calls[k].field] \in Nat BY <1>1, <3>1
      <3>4. QED BY <1>2, <3>1, <3>2, <3>3
    <2>2. QED BY <2>1
  <1>5. QED BY <1>1, <1>3, <1>4

\* Lemma: passing keeps the invariant of the search.
LEMMA PassKeeps ==
  ASSUME DependencyTypes, SearchInv, SearchOnly, Underway, ~AtEnd, Indexed(Dependency),
         lowlinks' = IF Contains(stack, Dependency) THEN Lower(Current, indices[Dependency]) ELSE lowlinks,
         calls' = GoOn(calls), UNCHANGED <<begun, counter, indices, stack, components>>
  PROVE  SearchInv' /\ calls' \in Seq(Calls) /\ lowlinks' \in [Names -> Nat]
PROOF
  <1> DEFINE c == Current
             d0 == Dependency
  <1>n. PICK n : n = Len(calls) OBVIOUS
  <1>1. /\ calls \in Seq(Calls) /\ n \in Nat /\ DOMAIN calls = 1 .. n
        /\ \A i \in 1 .. n : calls[i].field \in Stacked /\ calls[i].field \in Names
        /\ \A i, j \in 1 .. n : i < j => indices[calls[i].field] < indices[calls[j].field]
        /\ \A i, j \in 1 .. n : i # j => calls[i].field # calls[j].field
        /\ Stacked \subseteq Names /\ Closed \subseteq Names
        /\ \A g \in Stacked : indices[g] \in Nat /\ lowlinks[g] \in Nat /\ lowlinks[g] <= indices[g]
        /\ n \in 1 .. n /\ c = calls[n].field
    BY <1>n, CallFacts
  <1>2. /\ calls' \in Seq(Calls) /\ Len(calls') = n
        /\ \A i \in DOMAIN calls : calls'[i].field = calls[i].field
        /\ CallsChain' /\ Open' = Open
        /\ \A g, d \in Names : Followed(g, d)' => Followed(g, d) \/ (g = c /\ d = d0)
    BY <1>n, CallGoesOn DEF SearchInv, SearchOnly
  <1>3. c \in Names /\ d0 \in Names /\ DependsOn(c, d0)
    <2>1. c \in Names /\ d0 \in Names /\ state_dependencies[c] \in Seq(Names)
          /\ Top.at \in 1 .. Len(state_dependencies[c]) /\ d0 = state_dependencies[c][Top.at]
      BY TopCall DEF Dependency
    <2>2. QED BY <2>1 DEF DependsOn, Contains
  <1>4. <<c, d0>> \in Needed BY <1>3, NeededDirectly
  <1>5. Needed' = Needed /\ Stacked' = Stacked /\ Closed' = Closed
    BY NeededStays DEF SearchOnly, Stacked, Closed
  <1>6. Contains(stack, d0) <=> d0 \in Stacked
    <2>1. DOMAIN stack = 1 .. Len(stack) BY DEF DependencyTypes
    <2>2. QED BY <2>1 DEF Contains, Stacked
  <1>7. /\ lowlinks' \in [Names -> Nat]
        /\ \A g \in Names : g # c => lowlinks'[g] = lowlinks[g]
        /\ \A g \in Stacked : lowlinks'[g] <= lowlinks[g] /\ lowlinks'[g] \in Nat
        /\ lowlinks'[c] = lowlinks[c] \/ (d0 \in Stacked /\ lowlinks'[c] = indices[d0])
        /\ d0 \in Stacked => lowlinks'[c] <= indices[d0]
    <2>1. /\ lowlinks \in [Names -> Nat] /\ lowlinks[c] \in Nat /\ indices[d0] \in Nat
      BY <1>3 DEF DependencyTypes
    <2>2. CASE d0 \notin Stacked
      <3>1. lowlinks' = lowlinks BY <2>2, <1>6
      <3>2. QED BY <3>1, <2>1, <2>2, <1>1
    <2>3. CASE d0 \in Stacked
      <3>1. PICK v : v = IF indices[d0] < lowlinks[c] THEN indices[d0] ELSE lowlinks[c] OBVIOUS
      <3>2. v \in Nat /\ v <= lowlinks[c] /\ v <= indices[d0] /\ (v = lowlinks[c] \/ v = indices[d0])
        BY <3>1, <2>1
      <3>3. lowlinks' = [lowlinks EXCEPT ![c] = v] BY <3>1, <2>3, <1>6 DEF Lower
      <3> HIDE DEF c, d0
      <3>4. /\ lowlinks' \in [Names -> Nat] /\ lowlinks'[c] = v
            /\ \A g \in Names : g # c => lowlinks'[g] = lowlinks[g]
        BY <3>2, <3>3, <2>1, <1>3
      <3>5. \A g \in Stacked : lowlinks'[g] <= lowlinks[g] /\ lowlinks'[g] \in Nat
        <4>1. ASSUME NEW g \in Stacked PROVE lowlinks'[g] <= lowlinks[g] /\ lowlinks'[g] \in Nat
          <5>1. g \in Names /\ lowlinks[g] \in Nat BY <1>1
          <5>2. CASE g = c BY <5>2, <3>2, <3>4
          <5>3. CASE g # c BY <5>1, <5>3, <3>4
          <5>4. QED BY <5>2, <5>3
        <4>2. QED BY <4>1
      <3>6. QED BY <3>2, <3>4, <3>5, <2>3
    <2>4. QED BY <2>2, <2>3
  <1> HIDE DEF c, d0
  <1>8. \A i \in 1 .. n, g \in Stacked : InRegion(i, g)' <=> InRegion(i, g)
    <2>1. ASSUME NEW i \in 1 .. n, NEW g \in Stacked PROVE InRegion(i, g)' <=> InRegion(i, g)
      <3>1. calls'[i].field = calls[i].field BY <1>1, <1>2
      <3>2. i < n => calls'[i + 1].field = calls[i + 1].field
        <4>1. i < n => i + 1 \in 1 .. n BY <1>1
        <4>2. QED BY <4>1, <1>1, <1>2
      <3>3. QED BY <3>1, <3>2, <1>2, <1>5, <1>n DEF InRegion
    <2>2. QED BY <2>1
  <1>9. DOMAIN calls' = 1 .. n /\ \A i \in 1 .. n : calls'[i].field = calls[i].field BY <1>1, <1>2
  <1>10. NumbersGrow' BY <1>1, <1>2, <1>5, <1>9 DEF SearchInv, NumbersGrow
  <1>11. Partition' BY <1>5 DEF SearchInv, Partition, Indexed
  <1>12. ComponentsAreCycles' BY <1>5 DEF SearchInv, ComponentsAreCycles, SearchOnly, DependsOn
  <1>13. FollowedAreVisited'
    <2>1. Indexed(d0) BY DEF d0
    <2>2. QED BY <2>1, <1>2 DEF SearchInv, FollowedAreVisited, Indexed
  <1>14. LowlinksMean'
    <2>1. \A g \in Stacked' : lowlinks'[g] <= indices'[g] BY <1>1, <1>5, <1>7
    <2>2. ASSUME NEW i \in 1 .. n, NEW g \in Stacked, NEW d \in Stacked, InRegion(i, g)', Followed(g, d)'
          PROVE  lowlinks'[calls'[i].field] <= indices'[d]
      <3>1. InRegion(i, g) /\ g \in Names /\ d \in Names BY <2>2, <1>1, <1>8
      <3>2. /\ lowlinks'[calls[i].field] <= lowlinks[calls[i].field]
            /\ lowlinks'[calls[i].field] \in Nat /\ lowlinks[calls[i].field] \in Nat /\ indices[d] \in Nat
        BY <1>1, <1>7
      <3>3. CASE Followed(g, d)
        <4>1. lowlinks[calls[i].field] <= indices[d] BY <3>1, <3>3, <1>1 DEF SearchInv, LowlinksMean
        <4>2. QED BY <4>1, <3>2, <1>9
      <3>4. CASE g = c /\ d = d0
        <4>1. i = n BY <3>1, <3>4, <1>1, <1>n, OwnRegion
        <4>2. QED BY <4>1, <3>4, <1>1, <1>7, <1>9
      <3>5. QED BY <3>1, <3>3, <3>4, <2>2, <1>2
    <2>3. ASSUME NEW i \in 1 .. n
          PROVE  \/ lowlinks'[calls'[i].field] = indices'[calls'[i].field]
                 \/ \E h \in Stacked' : indices'[h] = lowlinks'[calls'[i].field] /\ <<calls'[i].field, h>> \in Needed'
      <3>1. \/ lowlinks[calls[i].field] = indices[calls[i].field]
            \/ \E h \in Stacked : indices[h] = lowlinks[calls[i].field] /\ <<calls[i].field, h>> \in Needed
        BY <1>1 DEF SearchInv, LowlinksMean
      <3>2. CASE lowlinks'[calls[i].field] = lowlinks[calls[i].field] BY <3>1, <3>2, <1>5, <1>9
      <3>3. CASE lowlinks'[calls[i].field] # lowlinks[calls[i].field]
        <4>1. calls[i].field = c BY <3>3, <1>1, <1>7
        <4>2. d0 \in Stacked /\ lowlinks'[c] = indices[d0] BY <3>3, <4>1, <1>7
        <4>3. QED BY <4>1, <4>2, <1>4, <1>5, <1>9
      <3>4. QED BY <3>2, <3>3
    <2>4. QED BY <2>1, <2>2, <2>3, <1>5, <1>9 DEF LowlinksMean
  <1>15. StackPaths'
    <2>1. \A i \in 1 .. n : \A g \in Stacked :
            InRegion(i, g)' => g = calls'[i].field \/ <<calls'[i].field, g>> \in Needed'
      BY <1>1, <1>5, <1>8, <1>9 DEF SearchInv, StackPaths
    <2>2. \A g \in Stacked' \ Open' :
            \E h \in Stacked' : indices'[h] < indices'[g] /\ <<g, h>> \in Needed'
      BY <1>2, <1>5 DEF SearchInv, StackPaths
    <2>3. \A g \in Stacked : calls' # << >> /\ indices'[calls'[1].field] <= indices'[g]
      <3>1. 1 \in 1 .. n /\ calls' # << >> BY <1>1, <1>2
      <3>2. QED BY <3>1, <1>9 DEF SearchInv, StackPaths
    <2>4. QED BY <2>1, <2>2, <2>3, <1>5, <1>9 DEF StackPaths
  <1>16. \A i \in 1 .. begun' : Fields'[i] \in Stacked' \cup Closed' BY <1>5 DEF SearchInv
  <1>17. QED BY <1>2, <1>7, <1>10, <1>11, <1>12, <1>13, <1>14, <1>15, <1>16 DEF SearchInv

-----------------------------------------------------------------------------
(* The search for cycles: a call returns to its caller, which goes on. *)

\* Lemma: a field that is not the root of its component is left on the stack.
LEMMA ReturnKeeps ==
  ASSUME DependencyTypes, SearchInv, SearchOnly, Underway, AtEnd, calls' = Returned,
         lowlinks[Current] # indices[Current],
         lowlinks' = IF Len(calls) = 1 THEN lowlinks
                     ELSE Lower(calls[Len(calls) - 1].field, lowlinks[Current]),
         UNCHANGED <<begun, counter, indices, stack, components>>
  PROVE  SearchInv' /\ calls' \in Seq(Calls) /\ lowlinks' \in [Names -> Nat]
PROOF
  <1>c. PICK c : c = Current OBVIOUS
  <1>n. PICK n : n = Len(calls) OBVIOUS
  <1>1. /\ calls \in Seq(Calls) /\ n \in Nat /\ DOMAIN calls = 1 .. n
        /\ \A i \in 1 .. n : calls[i].field \in Stacked /\ calls[i].field \in Names
        /\ \A i, j \in 1 .. n : i < j => indices[calls[i].field] < indices[calls[j].field]
        /\ \A i, j \in 1 .. n : i # j => calls[i].field # calls[j].field
        /\ Stacked \subseteq Names /\ Closed \subseteq Names
        /\ \A g \in Stacked : indices[g] \in Nat /\ lowlinks[g] \in Nat /\ lowlinks[g] <= indices[g]
        /\ n \in 1 .. n /\ c = calls[n].field
    BY <1>n, <1>c, CallFacts
  <1>2. /\ calls' \in Seq(Calls) /\ Len(calls') = n - 1
        /\ \A i \in DOMAIN calls' : calls'[i].field = calls[i].field
        /\ CallsChain' /\ Open' = Open \ {c}
        /\ n # 1 => DependsOn(calls[n - 1].field, c)
        /\ \A g, d \in Names : Followed(g, d)' =>
             Followed(g, d) \/ (n # 1 /\ g = calls[n - 1].field /\ d = c)
    <2>1. \A i, j \in DOMAIN calls : i < j => calls[i].field # calls[j].field
      <3>1. \A i, j \in 1 .. n : i < j => i # j BY <1>1
      <3>2. QED BY <3>1, <1>1
    <2>2. QED BY <2>1, <1>n, <1>c, CallReturns DEF SearchInv, SearchOnly
  \* What it has lowered to is the number of a field below it: it has a caller.
  <1>3. PICK h0 \in Stacked : indices[h0] = lowlinks[c] /\ <<c, h0>> \in Needed
    BY <1>1, <1>c DEF SearchInv, LowlinksMean
  <1>4. indices[h0] < indices[c]
    <2>1. indices[h0] <= indices[c] /\ indices[h0] # indices[c] /\ indices[h0] \in Nat /\ indices[c] \in Nat
      BY <1>1, <1>3, <1>c
    <2>2. QED BY <2>1
  <1>5. n # 1 /\ n - 1 \in 1 .. n - 1 /\ n - 1 \in 1 .. n
    <2>1. indices[calls[1].field] <= indices[h0] BY DEF SearchInv, StackPaths
    <2>2. n # 1
      <3>1. ASSUME n = 1 PROVE FALSE
        <4>1. indices[c] <= indices[h0] /\ indices[c] \in Nat /\ indices[h0] \in Nat BY <2>1, <3>1, <1>1
        <4>2. QED BY <4>1, <1>4
      <3>2. QED BY <3>1
    <2>3. QED BY <2>2, <1>1
  <1>p. PICK p : p = calls[n - 1].field OBVIOUS
  <1>6. p \in Stacked /\ p \in Names /\ c \in Stacked /\ c \in Names /\ p # c /\ indices[p] < indices[c]
    <2>1. n - 1 < n /\ n - 1 # n BY <1>1
    <2>2. QED BY <2>1, <1>1, <1>5, <1>p
  <1>7. <<p, c>> \in Needed BY <1>2, <1>5, <1>6, <1>p, NeededDirectly
  <1>8. Needed' = Needed /\ Stacked' = Stacked /\ Closed' = Closed
    BY NeededStays DEF SearchOnly, Stacked, Closed
  <1>9. /\ lowlinks' \in [Names -> Nat]
        /\ \A g \in Names : g # p => lowlinks'[g] = lowlinks[g]
        /\ lowlinks'[p] <= lowlinks[p] /\ lowlinks'[p] <= lowlinks[c] /\ lowlinks'[p] \in Nat
        /\ lowlinks'[p] = lowlinks[p] \/ lowlinks'[p] = lowlinks[c]
    <2>1. PICK v : v = IF lowlinks[c] < lowlinks[p] THEN lowlinks[c] ELSE lowlinks[p] OBVIOUS
    <2>2. v \in Nat /\ v <= lowlinks[p] /\ v <= lowlinks[c] /\ (v = lowlinks[p] \/ v = lowlinks[c])
      BY <2>1, <1>1, <1>6
    <2>3. lowlinks' = [lowlinks EXCEPT ![p] = v] BY <2>1, <1>5, <1>c, <1>n, <1>p DEF Lower
    <2>4. lowlinks \in [Names -> Nat] BY DEF DependencyTypes
    <2>5. /\ lowlinks' \in [Names -> Nat] /\ lowlinks'[p] = v
          /\ \A g \in Names : g # p => lowlinks'[g] = lowlinks[g]
      BY <2>2, <2>3, <2>4, <1>6
    <2>6. QED BY <2>2, <2>5
  <1>10. /\ DOMAIN calls' = 1 .. n - 1 /\ \A i \in 1 .. n - 1 : calls'[i].field = calls[i].field /\ i \in 1 .. n
         /\ \A i \in 1 .. n - 1 : i = n - 1 \/ (i < n - 1 /\ i + 1 \in 1 .. n - 1)
         /\ \A i \in 1 .. n - 1 : i # n - 1 => calls[i].field # p
    BY <1>1, <1>2, <1>5, <1>p
  \* The region of the caller takes up that of the call.
  <1>11. ASSUME NEW i \in 1 .. n - 1, NEW g \in Stacked, InRegion(i, g)'
         PROVE  InRegion(i, g) \/ (i = n - 1 /\ InRegion(n, g))
    <2>1. indices[calls[i].field] <= indices[g] BY <1>11, <1>8, <1>10 DEF InRegion
    <2>2. CASE i < n - 1
      <3>1. i + 1 \in 1 .. n - 1 /\ i < n BY <2>2, <1>1, <1>10
      <3>2. indices[g] < indices[calls[i + 1].field] BY <1>11, <3>1, <2>2, <1>2, <1>8, <1>10 DEF InRegion
      <3>3. QED BY <2>1, <3>1, <3>2, <1>n DEF InRegion
    <2>3. CASE i = n - 1
      <3>1. i + 1 = n BY <2>3, <1>1
      <3>2. indices[g] \in Nat /\ indices[calls[n].field] \in Nat BY <1>1
      <3>3. indices[g] < indices[calls[n].field] \/ indices[calls[n].field] <= indices[g] BY <3>2
      <3>4. ~(n < n) BY <1>1
      <3>5. QED BY <2>1, <2>3, <3>1, <3>3, <3>4, <1>n DEF InRegion
    <2>4. QED BY <2>2, <2>3, <1>10
  <1>12. NumbersGrow' BY <1>1, <1>2, <1>8, <1>10 DEF SearchInv, NumbersGrow
  <1>13. Partition' BY <1>8 DEF SearchInv, Partition, Indexed
  <1>14. ComponentsAreCycles' BY <1>8 DEF SearchInv, ComponentsAreCycles, SearchOnly, DependsOn
  <1>15. FollowedAreVisited'
    <2>1. Indexed(c) BY <1>6 DEF SearchInv, Partition
    <2>2. QED BY <2>1, <1>2 DEF SearchInv, FollowedAreVisited, Indexed
  <1>16. LowlinksMean'
    <2>1. \A g \in Stacked : lowlinks'[g] <= lowlinks[g] /\ lowlinks'[g] \in Nat
      <3>1. ASSUME NEW g \in Stacked PROVE lowlinks'[g] <= lowlinks[g] /\ lowlinks'[g] \in Nat
        <4>1. g \in Names /\ lowlinks[g] \in Nat BY <1>1
        <4>2. CASE g = p BY <4>2, <1>9
        <4>3. CASE g # p BY <4>1, <4>3, <1>9
        <4>4. QED BY <4>2, <4>3
      <3>2. QED BY <3>1
    <2>2. \A g \in Stacked' : lowlinks'[g] <= indices'[g] BY <2>1, <1>1, <1>8
    <2>3. ASSUME NEW i \in 1 .. n - 1, NEW g \in Stacked, NEW d \in Stacked, InRegion(i, g)', Followed(g, d)'
          PROVE  lowlinks'[calls'[i].field] <= indices'[d]
      <3>1. /\ g \in Names /\ d \in Names /\ i \in 1 .. n /\ calls'[i].field = calls[i].field
            /\ lowlinks'[calls[i].field] <= lowlinks[calls[i].field]
            /\ lowlinks'[calls[i].field] \in Nat /\ lowlinks[calls[i].field] \in Nat /\ indices[d] \in Nat
        BY <1>1, <1>10, <2>1
      <3>2. CASE Followed(g, d) /\ InRegion(i, g)
        <4>1. lowlinks[calls[i].field] <= indices[d] BY <3>1, <3>2, <1>1 DEF SearchInv, LowlinksMean
        <4>2. QED BY <3>1, <4>1
      <3>3. CASE Followed(g, d) /\ i = n - 1 /\ InRegion(n, g)
        <4>1. lowlinks[c] <= indices[d] BY <3>3, <1>1 DEF SearchInv, LowlinksMean
        <4>2. lowlinks'[p] <= lowlinks[c] /\ lowlinks'[p] \in Nat /\ lowlinks[c] \in Nat BY <1>1, <1>6, <1>9
        <4>3. QED BY <4>1, <4>2, <3>1, <3>3, <1>p
      <3>4. CASE g = p /\ d = c
        <4>1. ~InRegion(n, p) BY <1>1, <1>5, <1>n, <1>p, OwnRegion
        <4>2. InRegion(i, p) BY <4>1, <3>4, <2>3, <1>11
        <4>3. i = n - 1 BY <4>2, <3>1, <1>5, <1>n, <1>p, OwnRegion
        <4>4. lowlinks'[p] <= lowlinks[c] /\ lowlinks[c] <= indices[c] /\ lowlinks'[p] \in Nat
              /\ lowlinks[c] \in Nat /\ indices[c] \in Nat
          BY <1>1, <1>6, <1>9
        <4>5. QED BY <4>3, <4>4, <3>1, <3>4, <1>p
      <3>5. QED BY <3>1, <3>2, <3>3, <3>4, <2>3, <1>2, <1>11, <1>p
    <2>4. ASSUME NEW i \in 1 .. n - 1
          PROVE  \/ lowlinks'[calls'[i].field] = indices'[calls'[i].field]
                 \/ \E h \in Stacked' : indices'[h] = lowlinks'[calls'[i].field] /\ <<calls'[i].field, h>> \in Needed'
      <3>1. \/ lowlinks[calls[i].field] = indices[calls[i].field]
            \/ \E h \in Stacked : indices[h] = lowlinks[calls[i].field] /\ <<calls[i].field, h>> \in Needed
        BY <1>1, <1>10 DEF SearchInv, LowlinksMean
      <3>2. CASE lowlinks'[calls[i].field] = lowlinks[calls[i].field] BY <3>1, <3>2, <1>8, <1>10
      <3>3. CASE lowlinks'[calls[i].field] # lowlinks[calls[i].field]
        <4>1. calls[i].field = p BY <3>3, <1>1, <1>9, <1>10
        <4>2. lowlinks'[p] = lowlinks[c] BY <3>3, <4>1, <1>9
        <4>3. <<p, h0>> \in Needed BY <1>3, <1>7, NeededThrough
        <4>4. QED BY <4>1, <4>2, <4>3, <1>3, <1>8, <1>10
      <3>4. QED BY <3>2, <3>3
    <2>5. QED BY <2>2, <2>3, <2>4, <1>8, <1>10 DEF LowlinksMean
  <1>17. StackPaths'
    <2>1. ASSUME NEW i \in 1 .. n - 1, NEW g \in Stacked, InRegion(i, g)'
          PROVE  g = calls'[i].field \/ <<calls'[i].field, g>> \in Needed'
      <3>1. CASE InRegion(i, g) BY <3>1, <1>1, <1>8, <1>10 DEF SearchInv, StackPaths
      <3>2. CASE i = n - 1 /\ InRegion(n, g)
        <4>1. g = c \/ <<c, g>> \in Needed BY <3>2, <1>1 DEF SearchInv, StackPaths
        <4>2. <<p, g>> \in Needed BY <4>1, <1>7, NeededThrough
        <4>3. QED BY <4>2, <3>2, <1>8, <1>10, <1>p
      <3>3. QED BY <3>1, <3>2, <2>1, <1>11
    <2>2. \A g \in Stacked' \ Open' :
            \E h \in Stacked' : indices'[h] < indices'[g] /\ <<g, h>> \in Needed'
      <3>1. \A g \in Stacked \ Open : \E h \in Stacked : indices[h] < indices[g] /\ <<g, h>> \in Needed
        BY DEF SearchInv, StackPaths
      <3>2. \A g \in Stacked' \ Open' : g = c \/ g \in Stacked \ Open BY <1>2, <1>8
      <3>3. QED BY <3>1, <3>2, <1>3, <1>4, <1>8
    <2>3. \A g \in Stacked : calls' # << >> /\ indices'[calls'[1].field] <= indices'[g]
      <3>1. 1 \in 1 .. n - 1 /\ calls' # << >> BY <1>1, <1>2, <1>5
      <3>2. QED BY <3>1, <1>10 DEF SearchInv, StackPaths
    <2>4. QED BY <2>1, <2>2, <2>3, <1>8, <1>10 DEF StackPaths
  <1>18. \A i \in 1 .. begun' : Fields'[i] \in Stacked' \cup Closed' BY <1>8 DEF SearchInv
  <1>19. QED BY <1>2, <1>9, <1>12, <1>13, <1>14, <1>15, <1>16, <1>17, <1>18 DEF SearchInv

-----------------------------------------------------------------------------
(* The search for cycles: a call finds that it is the root of a component. *)

\* The fields that leave the stack with f.
Component(f) == {g \in Stacked : indices[f] <= indices[g]}

\* Lemma: the fields from f to the top of the stack are those with no smaller number.
LEMMA PopEffect ==
  ASSUME DependencyTypes, SearchInv, NEW c \in Stacked, PopComponent(c)
  PROVE  /\ stack' \in Seq(Names) /\ Stacked' = Stacked \ Component(c)
         /\ components' = Append(components, Component(c))
         /\ \A i, j \in DOMAIN stack' : i < j => indices[stack'[i]] < indices[stack'[j]]
PROOF
  <1>m. PICK m : m = Len(stack) OBVIOUS
  <1>k. PICK k : k = CHOOSE i \in DOMAIN stack : stack[i] = c OBVIOUS
  <1>1. stack \in Seq(Names) /\ m \in Nat /\ DOMAIN stack = 1 .. m /\ \A i \in 1 .. m : stack[i] \in Names
    BY <1>m DEF DependencyTypes
  <1>2. k \in 1 .. m /\ stack[k] = c
    <2>1. \E i \in DOMAIN stack : stack[i] = c BY DEF Stacked
    <2>2. QED BY <2>1, <1>1, <1>k
  <1>3. \A i, j \in 1 .. m : i < j => indices[stack[i]] < indices[stack[j]]
    BY <1>1 DEF SearchInv, NumbersGrow
  <1>4. \A i \in 1 .. m : indices[stack[i]] \in Nat BY <1>1 DEF DependencyTypes
  <1>5. \A i \in 1 .. m : indices[c] <= indices[stack[i]] <=> i \in k .. m
    <2>1. ASSUME NEW i \in 1 .. m PROVE indices[c] <= indices[stack[i]] <=> i \in k .. m
      <3>1. i < k \/ i = k \/ k < i BY <1>1, <1>2
      <3>2. indices[stack[i]] \in Nat /\ indices[stack[k]] \in Nat BY <1>2, <1>4
      <3>3. CASE i < k
        <4>1. indices[stack[i]] < indices[stack[k]] BY <3>3, <1>2, <1>3
        <4>2. i \notin k .. m BY <3>3, <1>1, <1>2
        <4>3. QED BY <4>1, <4>2, <3>2, <1>2
      <3>4. CASE i = k
        <4>1. i \in k .. m BY <3>4, <1>1, <1>2
        <4>2. QED BY <4>1, <3>2, <3>4, <1>2
      <3>5. CASE k < i
        <4>1. indices[stack[k]] < indices[stack[i]] BY <3>5, <1>2, <1>3
        <4>2. i \in k .. m BY <3>5, <1>1, <1>2
        <4>3. QED BY <4>1, <4>2, <3>2, <1>2
      <3>6. QED BY <3>1, <3>3, <3>4, <3>5
    <2>2. QED BY <2>1
  <1>6. {stack[i] : i \in k .. m} = Component(c)
    <2>1. Stacked = {stack[i] : i \in 1 .. m} BY <1>1 DEF Stacked
    <2>2. \A i \in k .. m : i \in 1 .. m BY <1>1, <1>2
    <2>3. QED BY <2>1, <2>2, <1>5 DEF Component
  <1>7. stack' = SubSeq(stack, 1, k - 1) /\ components' = Append(components, {stack[i] : i \in k .. m})
    BY <1>k, <1>m DEF PopComponent
  <1>8. /\ stack' \in Seq(Names) /\ DOMAIN stack' = 1 .. k - 1
        /\ \A i \in 1 .. k - 1 : stack'[i] = stack[i] /\ i \in 1 .. m
    BY <1>1, <1>2, <1>7
  <1>9. Stacked' = Stacked \ Component(c)
    <2>1. Stacked = {stack[i] : i \in 1 .. m} BY <1>1 DEF Stacked
    <2>2. Stacked' = {stack[i] : i \in 1 .. k - 1}
      <3>1. Stacked' = {stack'[i] : i \in 1 .. k - 1} BY <1>8 DEF Stacked
      <3>2. QED BY <3>1, <1>8
    <2>3. \A i \in 1 .. m : i \in 1 .. k - 1 <=> i \notin k .. m BY <1>1, <1>2
    <2>4. \A i \in 1 .. k - 1 : i \in 1 .. m BY <1>8
    <2>5. \A i \in 1 .. m : stack[i] \in Component(c) <=> i \in k .. m BY <2>1, <1>5 DEF Component
    <2>6. QED BY <2>1, <2>2, <2>3, <2>4, <2>5
  <1>10. \A i, j \in DOMAIN stack' : i < j => indices[stack'[i]] < indices[stack'[j]]
    BY <1>3, <1>8
  <1>11. QED BY <1>6, <1>7, <1>8, <1>9, <1>10

\* Lemma: what leaves the stack with the root of a component depends on itself, on what
\* leaves with it, and on earlier components; and its members need each other.
LEMMA ComponentIsCycle ==
  ASSUME DependencyTypes, SearchInv, Underway, AtEnd, NEW c, c = Current, lowlinks[c] = indices[c]
  PROVE  /\ c \in Component(c) /\ Component(c) \cap Open = {c}
         /\ \A g \in Component(c), d \in Names : DependsOn(g, d) => d \in Component(c) \cup Closed
         /\ \A f, g \in Component(c) : f = g \/ <<f, g>> \in Needed
PROOF
  <1>n. PICK n : n = Len(calls) OBVIOUS
  <1>k. PICK K : K = Component(c) OBVIOUS
  <1>1. /\ calls \in Seq(Calls) /\ n \in Nat /\ DOMAIN calls = 1 .. n
        /\ \A i \in 1 .. n : calls[i].field \in Stacked /\ calls[i].field \in Names
        /\ \A i, j \in 1 .. n : i < j => indices[calls[i].field] < indices[calls[j].field]
        /\ \A i, j \in 1 .. n : i # j => calls[i].field # calls[j].field
        /\ Stacked \subseteq Names /\ Closed \subseteq Names
        /\ \A g \in Stacked : indices[g] \in Nat /\ lowlinks[g] \in Nat /\ lowlinks[g] <= indices[g]
        /\ n \in 1 .. n /\ c = calls[n].field
    BY <1>n, CallFacts
  <1>2. c \in Stacked /\ c \in Names /\ c \in K /\ indices[c] \in Nat /\ c \in Open
    BY <1>1, <1>k DEF Component, Open
  <1>3. K \subseteq Stacked /\ K \cap Closed = {} /\ \A g \in K : indices[c] <= indices[g] /\ InRegion(n, g)
    <2>1. K \subseteq Stacked /\ \A g \in K : indices[c] <= indices[g] BY <1>k DEF Component
    <2>2. ~(n < n) BY <1>1
    <2>3. QED BY <2>1, <2>2, <1>1, <1>n DEF InRegion, SearchInv, Partition
  <1>4. K \cap Open = {c}
    <2>1. ASSUME NEW i \in 1 .. n, calls[i].field \in K PROVE calls[i].field = c
      <3>1. InRegion(n, calls[i].field) BY <2>1, <1>3
      <3>2. n = i BY <3>1, <1>1, <1>n, OwnRegion
      <3>3. QED BY <3>2, <1>1
    <2>2. Open = {calls[i].field : i \in 1 .. n} BY <1>1 DEF Open
    <2>3. QED BY <2>1, <2>2, <1>2
  <1>5. ASSUME NEW g \in K, NEW d \in Names, DependsOn(g, d) PROVE d \in K \cup Closed
    <2>1. g \in Names /\ g \in Stacked BY <1>1, <1>3
    <2>2. Followed(g, d)
      <3>1. CASE g = c
        <4>1. \A i \in DOMAIN calls : calls[i].field = c => i = Len(calls) BY <1>1, <1>n
        <4>2. QED BY <4>1, <3>1, <2>1, <1>5, FollowedIsAll
      <3>2. CASE g # c
        <4>1. g \notin Open BY <3>2, <1>4
        <4>2. QED BY <4>1, <2>1, <1>5, FollowedIsAll
      <3>3. QED BY <3>1, <3>2
    <2>3. d \in Stacked \cup Closed
      BY <2>1, <2>2 DEF SearchInv, Partition, FollowedAreVisited
    <2>4. d \in Stacked => indices[c] <= indices[d]
      BY <2>1, <2>2, <1>1, <1>3 DEF SearchInv, LowlinksMean
    <2>5. QED BY <2>3, <2>4, <1>k DEF Component
  <1>6. \A g \in K : g = c \/ <<c, g>> \in Needed BY <1>1, <1>3 DEF SearchInv, StackPaths
  <1>7. \A g \in K : g = c \/ <<g, c>> \in Needed
    <2> DEFINE bad == {indices[g] : g \in {h \in K : h # c /\ <<h, c>> \notin Needed}}
    <2> SUFFICES ASSUME NEW b \in K, b # c, <<b, c>> \notin Needed PROVE FALSE OBVIOUS
    <2>1. bad \subseteq Nat /\ indices[b] \in bad BY <1>1, <1>3
    <2> HIDE DEF bad
    <2>2. PICK l \in bad : \A k \in bad : l <= k BY <2>1, LeastNumber
    <2>3. PICK g \in K : l = indices[g] /\ g # c /\ <<g, c>> \notin Needed BY <2>2 DEF bad
    <2>4. g \in Stacked \ Open BY <2>3, <1>3, <1>4
    <2>5. PICK h \in Stacked : indices[h] < indices[g] /\ <<g, h>> \in Needed
      BY <2>4 DEF SearchInv, StackPaths
    <2>6. IsClosed(K \cup Closed) /\ K \cup Closed \in SUBSET Names
      <3>1. \A f \in Closed, d \in Names : DependsOn(f, d) => d \in Closed
        BY DEF Closed, SearchInv, ComponentsAreCycles
      <3>2. QED BY <3>1, <1>1, <1>3, <1>5 DEF IsClosed
    <2>7. \A d \in Names : DependsOn(g, d) => d \in K \cup Closed BY <1>5
    <2>8. h \in K
      <3>1. h \in K \cup Closed BY <2>5, <2>6, <2>7, NeededInside
      <3>2. QED BY <3>1 DEF SearchInv, Partition
    <2>9. h = c \/ <<h, c>> \in Needed
      <3>1. ASSUME h # c, <<h, c>> \notin Needed PROVE FALSE
        <4>1. indices[h] \in bad BY <3>1, <2>8 DEF bad
        <4>2. indices[g] <= indices[h] /\ indices[g] \in Nat /\ indices[h] \in Nat
          BY <4>1, <2>2, <2>3, <2>8, <1>1, <1>3
        <4>3. QED BY <4>2, <2>5
      <3>2. QED BY <3>1
    <2>10. <<g, c>> \in Needed BY <2>5, <2>9, NeededThrough
    <2>11. QED BY <2>3, <2>10
  <1>8. \A f, g \in K : f = g \/ <<f, g>> \in Needed
    <2>1. ASSUME NEW f \in K, NEW g \in K, f # g PROVE <<f, g>> \in Needed
      <3>1. f = c \/ <<f, c>> \in Needed BY <1>7
      <3>2. g = c \/ <<c, g>> \in Needed BY <1>6
      <3>3. QED BY <3>1, <3>2, <2>1, NeededThrough
    <2>2. QED BY <2>1
  <1>9. QED BY <1>2, <1>4, <1>5, <1>8, <1>k

\* Lemma: a component leaves the stack, and what is left on it keeps its meaning.
LEMMA PopKeeps ==
  ASSUME DependencyTypes, SearchInv, SearchOnly, Underway, AtEnd, calls' = Returned,
         lowlinks[Current] = indices[Current], PopComponent(Current),
         lowlinks' = IF Len(calls) = 1 THEN lowlinks
                     ELSE Lower(calls[Len(calls) - 1].field, lowlinks[Current]),
         UNCHANGED <<begun, counter, indices>>
  PROVE  SearchInv' /\ calls' \in Seq(Calls) /\ lowlinks' \in [Names -> Nat]
         /\ stack' \in Seq(Names) /\ components' \in Seq(SUBSET Names)
PROOF
  <1>c. PICK c : c = Current OBVIOUS
  <1>k. PICK K : K = Component(c) OBVIOUS
  <1>n. PICK n : n = Len(calls) OBVIOUS
  <1>q. PICK q : q = Len(components) OBVIOUS
  <1>1. /\ calls \in Seq(Calls) /\ n \in Nat /\ DOMAIN calls = 1 .. n
        /\ \A i \in 1 .. n : calls[i].field \in Stacked /\ calls[i].field \in Names
        /\ \A i, j \in 1 .. n : i < j => indices[calls[i].field] < indices[calls[j].field]
        /\ \A i, j \in 1 .. n : i # j => calls[i].field # calls[j].field
        /\ Stacked \subseteq Names /\ Closed \subseteq Names
        /\ \A g \in Stacked : indices[g] \in Nat /\ lowlinks[g] \in Nat /\ lowlinks[g] <= indices[g]
        /\ n \in 1 .. n /\ c = calls[n].field
    BY <1>n, <1>c, CallFacts
  <1>2. /\ calls' \in Seq(Calls) /\ Len(calls') = n - 1
        /\ \A i \in DOMAIN calls' : calls'[i].field = calls[i].field
        /\ CallsChain' /\ Open' = Open \ {c}
        /\ \A g, d \in Names : Followed(g, d)' =>
             Followed(g, d) \/ (n # 1 /\ g = calls[n - 1].field /\ d = c)
    <2>1. \A i, j \in DOMAIN calls : i < j => calls[i].field # calls[j].field
      <3>1. \A i, j \in 1 .. n : i < j => i # j BY <1>1
      <3>2. QED BY <3>1, <1>1
    <2>2. QED BY <2>1, <1>n, <1>c, CallReturns DEF SearchInv, SearchOnly
  <1>3. /\ c \in K /\ K \cap Open = {c}
        /\ \A g \in K, d \in Names : DependsOn(g, d) => d \in K \cup Closed
        /\ \A f, g \in K : f = g \/ <<f, g>> \in Needed
    BY <1>c, <1>k, ComponentIsCycle
  <1>4. /\ stack' \in Seq(Names) /\ Stacked' = Stacked \ K /\ components' = Append(components, K)
        /\ \A i, j \in DOMAIN stack' : i < j => indices[stack'[i]] < indices[stack'[j]]
    BY <1>1, <1>c, <1>k, PopEffect
  <1>5. /\ c \in Stacked /\ K \subseteq Stacked /\ K \subseteq Names /\ K \cap Closed = {}
        /\ \A g \in Stacked \ K : indices[g] < indices[c]
    <2>1. c \in Stacked /\ K \subseteq Stacked /\ \A g \in Stacked : g \in K <=> indices[c] <= indices[g]
      BY <1>1, <1>k DEF Component
    <2>2. \A g \in Stacked : indices[g] \in Nat BY <1>1
    <2>3. QED BY <2>1, <2>2, <1>1 DEF SearchInv, Partition
  <1>6. /\ components \in Seq(SUBSET Names) /\ q \in Nat /\ DOMAIN components = 1 .. q
        /\ components' \in Seq(SUBSET Names) /\ DOMAIN components' = 1 .. q + 1
        /\ \A i \in 1 .. q : components'[i] = components[i] /\ components[i] \subseteq Closed
        /\ components'[q + 1] = K
        /\ \A i \in 1 .. q + 1 : i = q + 1 \/ i \in 1 .. q
    <2>1. components \in Seq(SUBSET Names) /\ q \in Nat /\ DOMAIN components = 1 .. q
      BY <1>q DEF DependencyTypes
    <2>2. K \in SUBSET Names BY <1>5
    <2>3. /\ components' \in Seq(SUBSET Names) /\ DOMAIN components' = 1 .. q + 1
          /\ \A i \in 1 .. q : components'[i] = components[i]
          /\ components'[q + 1] = K
      BY <2>1, <2>2, <1>4, <1>q
    <2>4. \A i \in 1 .. q + 1 : i = q + 1 \/ i \in 1 .. q BY <2>1
    <2>5. \A i \in 1 .. q : components[i] \subseteq Closed BY <2>1 DEF Closed
    <2>6. QED BY <2>1, <2>3, <2>4, <2>5
  <1>7. Closed' = Closed \cup K
    <2>1. Closed = UNION {components[i] : i \in 1 .. q} BY <1>6 DEF Closed
    <2>2. Closed' = UNION {components'[i] : i \in 1 .. q + 1} BY <1>6 DEF Closed
    <2>3. 1 .. q + 1 = (1 .. q) \cup {q + 1} BY <1>6
    <2>4. QED BY <2>1, <2>2, <2>3, <1>6
  <1>8. Needed' = Needed BY NeededStays DEF SearchOnly
  <1>9. /\ DOMAIN calls' = 1 .. n - 1
        /\ \A i \in 1 .. n - 1 : calls'[i].field = calls[i].field /\ i \in 1 .. n /\ calls[i].field \in Stacked'
        /\ \A i \in 1 .. n - 1 : i = n - 1 \/ (i < n - 1 /\ i + 1 \in 1 .. n - 1 /\ i < n)
    <2>1. \A i \in 1 .. n - 1 : i \in 1 .. n /\ i # n BY <1>1
    <2>2. \A i \in 1 .. n - 1 : calls[i].field \in Stacked /\ calls[i].field # c /\ calls[i].field \in Open
      BY <2>1, <1>1 DEF Open
    <2>3. \A i \in 1 .. n - 1 : calls[i].field \in Stacked' BY <2>2, <1>3, <1>4
    <2>4. \A i \in 1 .. n - 1 : i = n - 1 \/ (i < n - 1 /\ i + 1 \in 1 .. n - 1 /\ i < n) BY <1>1
    <2>5. DOMAIN calls' = 1 .. n - 1 BY <1>2
    <2>6. QED BY <2>1, <2>3, <2>4, <2>5, <1>2
  \* The caller's number is smaller already.
  <1>10. lowlinks' = lowlinks
    <2>1. CASE n = 1 BY <2>1, <1>n
    <2>2. CASE n # 1
      <3>p. PICK p : p = calls[n - 1].field OBVIOUS
      <3>1. n - 1 \in 1 .. n - 1 BY <2>2, <1>1
      <3>2. p \in Stacked \ K /\ p \in Names BY <3>1, <3>p, <1>1, <1>4, <1>9
      <3>3. /\ lowlinks[p] \in Nat /\ indices[p] \in Nat /\ indices[c] \in Nat
            /\ lowlinks[p] <= indices[p] /\ indices[p] < indices[c] /\ lowlinks[c] = indices[c]
        BY <3>2, <1>1, <1>5, <1>c
      <3>4. ~(lowlinks[c] < lowlinks[p]) BY <3>3
      <3>5. lowlinks' = [lowlinks EXCEPT ![p] = lowlinks[p]] BY <3>4, <3>p, <2>2, <1>c, <1>n DEF Lower
      <3>6. QED BY <3>2, <3>5 DEF DependencyTypes
    <2>3. QED BY <2>1, <2>2
  <1>11. ASSUME NEW i \in 1 .. n - 1, NEW g \in Stacked', InRegion(i, g)' PROVE g \in Stacked /\ InRegion(i, g)
    <2>1. indices[calls[i].field] <= indices[g] BY <1>11, <1>9 DEF InRegion
    <2>2. g \in Stacked \ K BY <1>4
    <2>3. CASE i < n - 1
      <3>1. i + 1 \in 1 .. n - 1 BY <2>3, <1>9, <1>1
      <3>2. indices[g] < indices[calls[i + 1].field] BY <1>11, <3>1, <2>3, <1>2, <1>9 DEF InRegion
      <3>3. QED BY <2>1, <2>2, <3>2, <1>n DEF InRegion
    <2>4. CASE i = n - 1
      <3>1. i + 1 = n BY <2>4, <1>1
      <3>2. indices[g] < indices[calls[n].field] BY <2>2, <1>1, <1>5
      <3>3. QED BY <2>1, <2>2, <3>1, <3>2, <1>n DEF InRegion
    <2>5. QED BY <2>3, <2>4, <1>9
  <1>12. NumbersGrow'
    <2>1. Open' \subseteq Stacked' BY <1>2, <1>3, <1>4 DEF SearchInv, NumbersGrow
    <2>2. ASSUME NEW i \in DOMAIN calls', NEW j \in DOMAIN calls', i < j
          PROVE  indices[calls'[i].field] < indices[calls'[j].field]
      <3>1. i \in 1 .. n /\ j \in 1 .. n BY <1>9
      <3>2. calls'[i].field = calls[i].field /\ calls'[j].field = calls[j].field BY <1>9
      <3>3. indices[calls[i].field] < indices[calls[j].field] BY <2>2, <3>1, <1>1
      <3>4. QED BY <3>2, <3>3
    <2>3. QED BY <2>1, <2>2, <1>4 DEF SearchInv, NumbersGrow
  <1>13. Partition'
    <2>1. \A i, j \in 1 .. q + 1 : i # j => components'[i] \cap components'[j] = {}
      <3>1. \A i, j \in 1 .. q : i # j => components[i] \cap components[j] = {}
        BY <1>6 DEF SearchInv, Partition
      <3>2. \A i \in 1 .. q : components[i] \cap K = {} BY <1>5, <1>6
      <3>3. QED BY <3>1, <3>2, <1>6
    <2>2. \A i \in 1 .. q + 1 : components'[i] # {}
      <3>1. \A i \in 1 .. q : components[i] # {} BY <1>6 DEF SearchInv, Partition
      <3>2. QED BY <3>1, <1>3, <1>6
    <2>3. QED BY <2>1, <2>2, <1>4, <1>5, <1>6, <1>7 DEF SearchInv, Partition, Indexed
  <1>14. ComponentsAreCycles'
    <2>1. ASSUME NEW i \in 1 .. q + 1, NEW f \in components'[i], NEW g \in components'[i]
          PROVE  f = g \/ <<f, g>> \in Needed'
      <3>1. CASE i = q + 1 BY <3>1, <2>1, <1>3, <1>6, <1>8
      <3>2. CASE i \in 1 .. q
        <4>1. f \in components[i] /\ g \in components[i] BY <3>2, <1>6
        <4>2. QED BY <4>1, <3>2, <1>6, <1>8 DEF SearchInv, ComponentsAreCycles
      <3>3. QED BY <3>1, <3>2, <1>6
    <2>2. ASSUME NEW i \in 1 .. q + 1, NEW f \in components'[i], NEW g \in Names, DependsOn(f, g)'
          PROVE  \E j \in 1 .. q + 1 : j <= i /\ g \in components'[j]
      <3>1. DependsOn(f, g) BY <2>2 DEF DependsOn, SearchOnly
      <3>2. CASE i = q + 1
        <4>1. g \in K \cup Closed BY <3>1, <3>2, <1>3, <1>6
        <4>2. CASE g \in K
          <5>1. q + 1 \in 1 .. q + 1 /\ q + 1 <= q + 1 BY <1>6
          <5>2. QED BY <5>1, <4>2, <3>2, <1>6
        <4>3. CASE g \in Closed
          <5>1. PICK j \in 1 .. q : g \in components[j] BY <4>3, <1>6 DEF Closed
          <5>2. j \in 1 .. q + 1 /\ j <= q + 1 BY <1>6
          <5>3. QED BY <5>1, <5>2, <3>2, <1>6
        <4>4. QED BY <4>1, <4>2, <4>3
      <3>3. CASE i \in 1 .. q
        <4>1. PICK j \in 1 .. q : j <= i /\ g \in components[j]
          BY <3>1, <3>3, <1>6 DEF SearchInv, ComponentsAreCycles
        <4>2. j \in 1 .. q + 1 BY <1>6
        <4>3. QED BY <4>1, <4>2, <1>6
      <3>4. QED BY <3>2, <3>3, <1>6
    <2>3. QED BY <2>1, <2>2, <1>6 DEF ComponentsAreCycles
  <1>15. FollowedAreVisited'
    <2>1. Indexed(c) BY <1>1, <1>5 DEF SearchInv, Partition
    <2>2. QED BY <2>1, <1>2 DEF SearchInv, FollowedAreVisited, Indexed
  <1>16. LowlinksMean'
    <2>1. \A g \in Stacked' : lowlinks'[g] <= indices'[g] BY <1>1, <1>4, <1>10
    <2>2. ASSUME NEW i \in 1 .. n - 1, NEW g \in Stacked', NEW d \in Stacked', InRegion(i, g)', Followed(g, d)'
          PROVE  lowlinks'[calls'[i].field] <= indices'[d]
      <3>1. g \in Stacked /\ InRegion(i, g) /\ g \in Names /\ d \in Stacked /\ d \in Names /\ d # c
        BY <2>2, <1>1, <1>3, <1>4, <1>11
      <3>2. Followed(g, d) BY <3>1, <2>2, <1>2
      <3>3. QED BY <3>1, <3>2, <1>1, <1>9, <1>10 DEF SearchInv, LowlinksMean
    <2>3. ASSUME NEW i \in 1 .. n - 1
          PROVE  \/ lowlinks'[calls'[i].field] = indices'[calls'[i].field]
                 \/ \E h \in Stacked' : indices'[h] = lowlinks'[calls'[i].field] /\ <<calls'[i].field, h>> \in Needed'
      <3>1. \/ lowlinks[calls[i].field] = indices[calls[i].field]
            \/ \E h \in Stacked : indices[h] = lowlinks[calls[i].field] /\ <<calls[i].field, h>> \in Needed
        BY <1>1, <1>9 DEF SearchInv, LowlinksMean
      <3>2. CASE lowlinks[calls[i].field] = indices[calls[i].field] BY <3>2, <1>9, <1>10
      <3>3. ASSUME NEW h \in Stacked, indices[h] = lowlinks[calls[i].field], <<calls[i].field, h>> \in Needed
            PROVE  \E k \in Stacked' : indices'[k] = lowlinks'[calls'[i].field] /\ <<calls'[i].field, k>> \in Needed'
        <4>1. calls[i].field \in Stacked \ K BY <1>4, <1>9
        <4>2. indices[h] <= indices[calls[i].field] /\ indices[calls[i].field] < indices[c]
          BY <4>1, <3>3, <1>1, <1>5
        <4>3. indices[h] \in Nat /\ indices[calls[i].field] \in Nat /\ indices[c] \in Nat BY <4>1, <1>1, <1>5
        <4>4. ~(indices[c] <= indices[h]) BY <4>2, <4>3
        <4>5. h \in Stacked' BY <4>4, <1>4, <1>k DEF Component
        <4>6. QED BY <4>5, <3>3, <1>8, <1>9, <1>10
      <3>4. QED BY <3>1, <3>2, <3>3
    <2>4. QED BY <2>1, <2>2, <2>3, <1>9 DEF LowlinksMean
  <1>17. StackPaths'
    <2>1. ASSUME NEW i \in 1 .. n - 1, NEW g \in Stacked', InRegion(i, g)'
          PROVE  g = calls'[i].field \/ <<calls'[i].field, g>> \in Needed'
      <3>1. g \in Stacked /\ InRegion(i, g) BY <2>1, <1>11
      <3>2. QED BY <3>1, <1>1, <1>8, <1>9 DEF SearchInv, StackPaths
    <2>2. ASSUME NEW g \in Stacked' \ Open'
          PROVE  \E h \in Stacked' : indices'[h] < indices'[g] /\ <<g, h>> \in Needed'
      <3>1. g \in Stacked \ K /\ g \in Stacked \ Open BY <2>2, <1>2, <1>3, <1>4
      <3>2. PICK h \in Stacked : indices[h] < indices[g] /\ <<g, h>> \in Needed
        BY <3>1 DEF SearchInv, StackPaths
      <3>3. indices[g] < indices[c] /\ indices[h] \in Nat /\ indices[g] \in Nat /\ indices[c] \in Nat
        BY <3>1, <1>1, <1>5
      <3>4. ~(indices[c] <= indices[h]) BY <3>2, <3>3
      <3>5. h \in Stacked' BY <3>4, <1>4, <1>k DEF Component
      <3>6. QED BY <3>2, <3>5, <1>8
    <2>3. ASSUME NEW g \in Stacked' PROVE calls' # << >> /\ indices'[calls'[1].field] <= indices'[g]
      <3>1. indices[calls[1].field] <= indices[g] /\ g \in Stacked \ K
        BY <1>4 DEF SearchInv, StackPaths
      <3>2. n # 1
        <4>1. ASSUME n = 1 PROVE FALSE
          <5>1. indices[c] <= indices[g] BY <4>1, <3>1, <1>1
          <5>2. QED BY <5>1, <3>1, <1>k DEF Component
        <4>2. QED BY <4>1
      <3>3. 1 \in 1 .. n - 1 /\ calls' # << >> BY <3>2, <1>1, <1>2
      <3>4. QED BY <3>1, <3>3, <1>9
    <2>4. QED BY <2>1, <2>2, <2>3, <1>9 DEF StackPaths
  <1>18. \A i \in 1 .. begun' : Fields'[i] \in Stacked' \cup Closed' BY <1>4, <1>7 DEF SearchInv
  <1>19. QED
    BY <1>2, <1>4, <1>6, <1>10, <1>12, <1>13, <1>14, <1>15, <1>16, <1>17, <1>18 DEF SearchInv, DependencyTypes

-----------------------------------------------------------------------------
(* What the search reports. *)

\* Lemma: when no call is under way, the components are the classes of fields that need each
\* other, and a field needs itself if and only if its component is a cycle.
LEMMA ComponentsTell ==
  ASSUME DependencyTypes, SearchInv, ~Underway, begun = Len(Fields),
         NEW cs, cs = {c \in Range(components) : IsCyclic(c)}
  PROVE  /\ UNION cs = {f \in Names : Needs(f, f)}
         /\ \A c \in cs : \A f \in c, g \in Names : g \in c <=> Needs(f, g) /\ Needs(g, f)
         /\ \A c, d \in cs : c # d => c \cap d = {}
PROOF
  <1>q. PICK q : q = Len(components) OBVIOUS
  <1>1. components \in Seq(SUBSET Names) /\ q \in Nat /\ DOMAIN components = 1 .. q
    BY <1>q DEF DependencyTypes
  <1>2. Stacked = {} BY DEF SearchInv, StackPaths, Underway
  <1>3. \A f \in Names : \E i \in 1 .. q : f \in components[i]
    <2>1. ASSUME NEW f \in Names PROVE \E i \in 1 .. q : f \in components[i]
      <3>1. PICK i \in 1 .. Len(Fields) : f = Fields[i]
        BY DependenciesAssumption DEF Names, Range
      <3>2. f \in Closed BY <3>1, <1>2 DEF SearchInv
      <3>3. QED BY <3>2, <1>1 DEF Closed
    <2>2. QED BY <2>1
  <1>4. /\ \A i \in 1 .. q : components[i] \subseteq Names /\ components[i] # {}
        /\ \A i, j \in 1 .. q : i # j => components[i] \cap components[j] = {}
    BY <1>1 DEF SearchInv, Partition
  <1>5. Range(components) = {components[i] : i \in 1 .. q} BY <1>1 DEF Range
  <1>6. \A i \in 1 .. q : \A f, g \in components[i] : f = g \/ <<f, g>> \in Needed
    BY <1>1 DEF SearchInv, ComponentsAreCycles
  \* What a component needs is in it or in an earlier one.
  <1> DEFINE Upto(k) == {f \in Names : \E j \in 1 .. q : j <= k /\ f \in components[j]}
  <1>7. ASSUME NEW k \in Int, k <= q PROVE IsClosed(Upto(k)) /\ Upto(k) \in SUBSET Names
    <2>1. ASSUME NEW f \in Upto(k), NEW g \in Names, DependsOn(f, g) PROVE g \in Upto(k)
      <3>1. PICK j \in 1 .. q : j <= k /\ f \in components[j] BY <2>1
      <3>2. PICK i \in 1 .. q : i <= j /\ g \in components[i]
        BY <2>1, <3>1, <1>1 DEF SearchInv, ComponentsAreCycles
      <3>3. i <= k BY <3>1, <3>2, <1>1, <1>7
      <3>4. QED BY <3>2, <3>3
    <2>2. QED BY <2>1 DEF IsClosed
  <1>8. ASSUME NEW i \in 1 .. q, NEW f \in components[i], NEW g, <<f, g>> \in Needed
        PROVE  \E j \in 1 .. q : j <= i /\ g \in components[j]
    <2>1. i \in Int /\ i <= q /\ i <= i BY <1>1
    <2>2. f \in Names /\ f \in Upto(i) BY <2>1, <1>4
    <2>3. \A d \in Names : DependsOn(f, d) => d \in Upto(i) BY <2>1, <2>2, <1>7 DEF IsClosed
    <2>4. g \in Upto(i) BY <2>1, <2>3, <1>7, <1>8, NeededInside
    <2>5. QED BY <2>4
  <1>9. ASSUME NEW i \in 1 .. q, NEW f \in components[i], <<f, f>> \in Needed
        PROVE  IsCyclic(components[i])
    <2> SUFFICES ASSUME ~IsCyclic(components[i]) PROVE FALSE OBVIOUS
    <2>1. components[i] = {f} /\ ~DependsOn(f, f) BY DEF IsCyclic
    <2>2. i - 1 \in Int /\ i - 1 <= q /\ ~(i <= i - 1) BY <1>1
    <2>3. \A d \in Names : DependsOn(f, d) => d \in Upto(i - 1)
      <3>1. ASSUME NEW d \in Names, DependsOn(f, d) PROVE d \in Upto(i - 1)
        <4>1. PICK j \in 1 .. q : j <= i /\ d \in components[j]
          BY <3>1, <1>1 DEF SearchInv, ComponentsAreCycles
        <4>2. d # f BY <3>1, <2>1
        <4>3. j # i BY <4>1, <4>2, <2>1
        <4>4. j <= i - 1 BY <4>1, <4>3, <1>1
        <4>5. QED BY <4>1, <4>4
      <3>2. QED BY <3>1
    <2>4. f \in Upto(i - 1) BY <2>2, <2>3, <1>7, <1>9, NeededInside
    <2>5. PICK j \in 1 .. q : j <= i - 1 /\ f \in components[j] BY <2>4
    <2>6. j # i BY <2>2, <2>5
    <2>7. QED BY <2>5, <2>6, <1>4
  <1>10. ASSUME NEW i \in 1 .. q, NEW f \in components[i], IsCyclic(components[i])
         PROVE  <<f, f>> \in Needed
    <2>1. PICK a \in components[i], b \in components[i] : a # b \/ DependsOn(a, a) BY <1>10 DEF IsCyclic
    <2>2. f \in Names /\ a \in Names BY <1>4
    <2>3. CASE \E g \in components[i] : g # f
      <3>1. PICK g \in components[i] : g # f BY <2>3
      <3>2. <<f, g>> \in Needed /\ <<g, f>> \in Needed BY <3>1, <1>6
      <3>3. QED BY <3>2, NeededThrough
    <2>4. CASE \A g \in components[i] : g = f
      <3>1. DependsOn(f, f) BY <2>1, <2>4
      <3>2. QED BY <3>1, <2>2, NeededDirectly
    <2>5. QED BY <2>3, <2>4
  <1> HIDE DEF Upto
  <1>11. UNION cs = {f \in Names : Needs(f, f)}
    <2>1. ASSUME NEW f \in UNION cs PROVE f \in Names /\ Needs(f, f)
      <3>1. PICK c \in cs : f \in c OBVIOUS
      <3>2. PICK i \in 1 .. q : c = components[i] BY <3>1, <1>5
      <3>3. f \in Names BY <3>1, <3>2, <1>4
      <3>4. <<f, f>> \in Needed BY <3>1, <3>2, <1>10
      <3>5. QED BY <3>3, <3>4, NeededIsNeeds
    <2>2. ASSUME NEW f \in Names, Needs(f, f) PROVE f \in UNION cs
      <3>1. PICK i \in 1 .. q : f \in components[i] BY <1>3
      <3>2. <<f, f>> \in Needed BY <2>2, NeededIsNeeds
      <3>3. components[i] \in cs BY <3>1, <3>2, <1>5, <1>9
      <3>4. QED BY <3>1, <3>3
    <2>3. QED BY <2>1, <2>2
  <1>12. ASSUME NEW c \in cs, NEW f \in c, NEW g \in Names
         PROVE  g \in c <=> Needs(f, g) /\ Needs(g, f)
    <2>1. PICK i \in 1 .. q : c = components[i] BY <1>5
    <2>2. f \in Names /\ <<f, f>> \in Needed BY <2>1, <1>4, <1>10
    <2>3. ASSUME g \in c PROVE <<f, g>> \in Needed /\ <<g, f>> \in Needed BY <2>1, <2>2, <2>3, <1>6
    <2>4. ASSUME <<f, g>> \in Needed, <<g, f>> \in Needed PROVE g \in c
      <3>1. PICK j \in 1 .. q : j <= i /\ g \in components[j] BY <2>1, <2>4, <1>8
      <3>2. PICK k \in 1 .. q : k <= j /\ f \in components[k] BY <2>4, <3>1, <1>8
      <3>3. k = i BY <2>1, <3>2, <1>4
      <3>4. j = i BY <3>1, <3>2, <3>3, <1>1
      <3>5. QED BY <2>1, <3>1, <3>4
    <2>5. QED BY <2>2, <2>3, <2>4, NeededIsNeeds
  <1>13. \A c, d \in cs : c # d => c \cap d = {} BY <1>4, <1>5
  <1>14. QED BY <1>11, <1>12, <1>13

-----------------------------------------------------------------------------
(* The polling order. *)

\* What the calls of the ordering leave alone.
OrderOnly == pass = "order" /\ UNCHANGED <<state_dependencies, pass, searchVars, cyclic>>

\* Lemma: the fields that are called need each other in turn, so that none is called twice.
LEMMA OrderFacts ==
  ASSUME DependencyTypes, OrderInv, NEW n, n = Len(calls)
  PROVE  /\ calls \in Seq(Calls) /\ n \in Nat /\ DOMAIN calls = 1 .. n
         /\ \A i \in 1 .. n : calls[i].field \in Open /\ calls[i].field \in Names
         /\ \A i, j \in 1 .. n : i < j => <<calls[i].field, calls[j].field>> \in Needed
         /\ \A i, j \in 1 .. n : i < j => calls[i].field # calls[j].field
         /\ Open = {calls[i].field : i \in 1 .. n} /\ Open \subseteq Names
         /\ Underway => n \in 1 .. n /\ Current = calls[n].field
PROOF
  <1>1. calls \in Seq(Calls) BY DEF DependencyTypes, Calls
  <1>2. n \in Nat /\ DOMAIN calls = 1 .. n BY <1>1
  <1>3. \A i \in 1 .. n : calls[i] \in Calls BY <1>1, <1>2
  <1>4. \A i \in 1 .. n : calls[i].field \in Names BY <1>3 DEF Calls
  <1>5. Open = {calls[i].field : i \in 1 .. n} BY <1>2 DEF Open
  <1>6. \A i, j \in 1 .. n : i < j => <<calls[i].field, calls[j].field>> \in Needed BY <1>2 DEF OrderInv
  <1>7. \A i, j \in 1 .. n : i < j => calls[i].field # calls[j].field BY <1>4, <1>6 DEF OrderInv
  <1>8. Underway => n \in 1 .. n /\ Current = calls[n].field BY <1>1, <1>2 DEF Underway, Current, Top
  <1>9. QED BY <1>1, <1>2, <1>4, <1>5, <1>6, <1>7, <1>8

\* Lemma: calling a field keeps the invariant of the ordering.
LEMMA BeginKeeps ==
  ASSUME DependencyTypes, OrderInv, OrderOnly, NEW f \in Names, f \notin visited \cup visiting, Begin(f),
         Underway => ~AtEnd /\ f = Dependency, UNCHANGED <<visited, order>>,
         \A i \in 1 .. begun' : i \in 1 .. begun \/ Fields[i] = f
  PROVE  OrderInv' /\ calls' \in Seq(Calls)
PROOF
  <1>n. PICK n : n = Len(calls) OBVIOUS
  <1>1. /\ calls \in Seq(Calls) /\ n \in Nat /\ DOMAIN calls = 1 .. n
        /\ \A i \in 1 .. n : calls[i].field \in Open /\ calls[i].field \in Names
        /\ \A i, j \in 1 .. n : i < j => <<calls[i].field, calls[j].field>> \in Needed
        /\ Underway => n \in 1 .. n /\ Current = calls[n].field
    BY <1>n, OrderFacts
  <1>2. f \notin Open BY DEF OrderInv
  <1>3. /\ calls' \in Seq(Calls) /\ Len(calls') = n + 1
        /\ \A i \in DOMAIN calls : calls'[i] = calls[i]
        /\ calls'[n + 1].field = f
        /\ CallsChain' /\ Open' = Open \cup {f}
        /\ \A g, d \in Names : Followed(g, d)' => g # f /\ Followed(g, d)
    BY <1>2, <1>n, CallAdded DEF OrderInv, OrderOnly, Begin
  <1>4. Needed' = Needed BY NeededStays DEF OrderOnly
  <1>5. DOMAIN calls' = 1 .. n + 1 /\ \A i \in 1 .. n : calls'[i].field = calls[i].field BY <1>1, <1>3
  <1>6. \A i \in 1 .. n : <<calls[i].field, f>> \in Needed
    <2>1. ASSUME NEW i \in 1 .. n PROVE <<calls[i].field, f>> \in Needed
      <3>1. Underway /\ n \in 1 .. n /\ Current = calls[n].field
        <4>1. Underway BY <1>1, <1>n DEF Underway
        <4>2. QED BY <4>1, <1>1
      <3>2. DependsOn(Current, f)
        <4>1. /\ Current \in Names /\ state_dependencies[Current] \in Seq(Names)
              /\ Top.at \in 1 .. Len(state_dependencies[Current]) /\ f = state_dependencies[Current][Top.at]
          BY <3>1, TopCall DEF Dependency
        <4>2. QED BY <4>1 DEF DependsOn, Contains
      <3>3. <<calls[n].field, f>> \in Needed BY <3>1, <3>2, <1>1, NeededDirectly
      <3>4. i = n \/ i < n BY <1>1
      <3>5. i < n => <<calls[i].field, calls[n].field>> \in Needed BY <3>1, <1>1
      <3>6. QED BY <3>3, <3>4, <3>5, NeededThrough
    <2>2. QED BY <2>1
  <1>7. \A i, j \in DOMAIN calls' : i < j => <<calls'[i].field, calls'[j].field>> \in Needed'
    <2>1. ASSUME NEW i \in 1 .. n + 1, NEW j \in 1 .. n + 1, i < j
          PROVE  <<calls'[i].field, calls'[j].field>> \in Needed'
      <3>1. i \in 1 .. n /\ (j = n + 1 \/ j \in 1 .. n) BY <2>1, <1>1
      <3>2. CASE j = n + 1 BY <3>1, <3>2, <1>3, <1>4, <1>5, <1>6
      <3>3. CASE j \in 1 .. n
        <4>1. <<calls[i].field, calls[j].field>> \in Needed BY <3>1, <3>3, <2>1, <1>1
        <4>2. QED BY <4>1, <3>1, <3>3, <1>4, <1>5
      <3>4. QED BY <3>1, <3>2, <3>3
    <2>2. QED BY <2>1, <1>5
  <1>8. \A g \in visited' \cup visiting', d \in Names : Followed(g, d)' => d \in visited'
    <2>1. visited' = visited /\ visiting' = visiting \cup {f} BY DEF Begin
    <2>2. visited \cup visiting \subseteq Names BY DEF DependencyTypes
    <2>3. QED BY <2>1, <2>2, <1>3 DEF OrderInv
  <1>9. visiting' = Open' /\ visiting' \cap visited' = {} BY <1>3 DEF OrderInv, Begin
  <1>10. DependenciesComeFirst' BY DEF OrderInv, OrderOnly, DependenciesComeFirst, DependsOn
  <1>11. \A i \in 1 .. begun' : Fields'[i] \in visited' \cup visiting' BY DEF OrderInv, Begin
  <1>12. /\ cyclic' = {} /\ \A g \in Names : <<g, g>> \notin Needed'
         /\ visited' = {order'[i] : i \in DOMAIN order'} /\ IsInjective(order)'
    BY <1>4 DEF OrderInv, OrderOnly, IsInjective
  <1>13. QED BY <1>3, <1>7, <1>8, <1>9, <1>10, <1>11, <1>12 DEF OrderInv

\* Lemma: a dependency that is passed has been emitted: if its call were still under way,
\* the field that needs it would need itself.
LEMMA SkipKeeps ==
  ASSUME DependencyTypes, OrderInv, OrderOnly, Underway, ~AtEnd, Dependency \in visited \cup visiting,
         calls' = GoOn(calls), UNCHANGED <<begun, visiting, visited, order>>
  PROVE  OrderInv' /\ calls' \in Seq(Calls)
PROOF
  <1>n. PICK n : n = Len(calls) OBVIOUS
  <1>c. PICK c : c = Current OBVIOUS
  <1>d. PICK d0 : d0 = Dependency OBVIOUS
  <1>1. /\ calls \in Seq(Calls) /\ n \in Nat /\ DOMAIN calls = 1 .. n
        /\ \A i \in 1 .. n : calls[i].field \in Open /\ calls[i].field \in Names
        /\ \A i, j \in 1 .. n : i < j => <<calls[i].field, calls[j].field>> \in Needed
        /\ Open = {calls[i].field : i \in 1 .. n}
        /\ n \in 1 .. n /\ c = calls[n].field
    BY <1>n, <1>c, OrderFacts
  <1>2. /\ calls' \in Seq(Calls) /\ Len(calls') = n
        /\ \A i \in DOMAIN calls : calls'[i].field = calls[i].field
        /\ CallsChain' /\ Open' = Open
        /\ \A g, d \in Names : Followed(g, d)' => Followed(g, d) \/ (g = c /\ d = d0)
    BY <1>n, <1>c, <1>d, CallGoesOn DEF OrderInv, OrderOnly
  <1>3. c \in Names /\ d0 \in Names /\ DependsOn(c, d0)
    <2>1. c \in Names /\ d0 \in Names /\ state_dependencies[c] \in Seq(Names)
          /\ Top.at \in 1 .. Len(state_dependencies[c]) /\ d0 = state_dependencies[c][Top.at]
      BY <1>c, <1>d, TopCall DEF Dependency
    <2>2. QED BY <2>1 DEF DependsOn, Contains
  <1>4. <<c, d0>> \in Needed BY <1>3, NeededDirectly
  <1>5. d0 \in visited
    <2>1. ASSUME d0 \in Open PROVE FALSE
      <3>1. PICK i \in 1 .. n : d0 = calls[i].field BY <2>1, <1>1
      <3>2. i = n \/ i < n BY <1>1
      <3>3. d0 = c \/ <<d0, c>> \in Needed BY <3>1, <3>2, <1>1
      <3>4. <<c, c>> \in Needed BY <3>3, <1>4, NeededThrough
      <3>5. QED BY <3>4, <1>3 DEF OrderInv
    <2>2. QED BY <2>1, <1>d DEF OrderInv
  <1>6. Needed' = Needed BY NeededStays DEF OrderOnly
  <1>7. \A i, j \in DOMAIN calls' : i < j => <<calls'[i].field, calls'[j].field>> \in Needed'
    BY <1>1, <1>2, <1>6
  <1>8. \A g \in visited' \cup visiting', d \in Names : Followed(g, d)' => d \in visited'
    <2>1. visited \cup visiting \subseteq Names BY DEF DependencyTypes
    <2>2. QED BY <2>1, <1>2, <1>5 DEF OrderInv
  <1>9. DependenciesComeFirst' BY DEF OrderInv, OrderOnly, DependenciesComeFirst, DependsOn
  <1>10. /\ cyclic' = {} /\ \A g \in Names : <<g, g>> \notin Needed'
         /\ visited' = {order'[i] : i \in DOMAIN order'} /\ IsInjective(order)'
         /\ visiting' = Open' /\ visiting' \cap visited' = {}
         /\ \A i \in 1 .. begun' : Fields'[i] \in visited' \cup visiting'
    BY <1>2, <1>6 DEF OrderInv, OrderOnly, IsInjective
  <1>11. QED BY <1>2, <1>7, <1>8, <1>9, <1>10 DEF OrderInv

\* Lemma: a field is emitted when all that it depends on has been.
LEMMA LeaveKeeps ==
  ASSUME DependencyTypes, OrderInv, OrderOnly, Underway, AtEnd, calls' = Returned, UNCHANGED begun,
         visiting' = visiting \ {Current}, visited' = visited \cup {Current}, order' = Output(Current)
  PROVE  OrderInv' /\ calls' \in Seq(Calls) /\ order' \in Seq(Names)
PROOF
  <1>n. PICK n : n = Len(calls) OBVIOUS
  <1>c. PICK c : c = Current OBVIOUS
  <1>m. PICK m : m = Len(order) OBVIOUS
  <1>1. /\ calls \in Seq(Calls) /\ n \in Nat /\ DOMAIN calls = 1 .. n
        /\ \A i \in 1 .. n : calls[i].field \in Open /\ calls[i].field \in Names
        /\ \A i, j \in 1 .. n : i < j => <<calls[i].field, calls[j].field>> \in Needed
        /\ \A i, j \in 1 .. n : i < j => calls[i].field # calls[j].field
        /\ n \in 1 .. n /\ c = calls[n].field
    BY <1>n, <1>c, OrderFacts
  <1>2. /\ calls' \in Seq(Calls) /\ Len(calls') = n - 1
        /\ \A i \in DOMAIN calls' : calls'[i].field = calls[i].field
        /\ CallsChain' /\ Open' = Open \ {c} /\ c \in Open
        /\ \A g, d \in Names : Followed(g, d)' => Followed(g, d) \/ d = c
    <2>1. CallsChain /\ UNCHANGED state_dependencies BY DEF OrderInv, OrderOnly
    <2>2. \A i, j \in DOMAIN calls : i < j => calls[i].field # calls[j].field BY <1>1
    <2>3. /\ calls' \in Seq(Calls) /\ Len(calls') = n - 1
          /\ \A i \in DOMAIN calls' : calls'[i].field = calls[i].field
          /\ CallsChain' /\ Open' = Open \ {c}
          /\ \A g, d \in Names : Followed(g, d)' =>
               Followed(g, d) \/ (n # 1 /\ g = calls[n - 1].field /\ d = c)
      BY <2>1, <2>2, <1>n, <1>c, CallReturns
    <2>4. QED BY <2>3, <1>1
  <1>3. c \in visiting /\ c \notin visited /\ c \in Names BY <1>1, <1>2 DEF OrderInv
  <1>4. \A d \in Names : DependsOn(c, d) => d \in visited
    <2>1. ASSUME NEW d \in Names, DependsOn(c, d) PROVE d \in visited
      <3>1. \A i \in DOMAIN calls : calls[i].field = Current => i = Len(calls)
        <4>1. \A i \in 1 .. n : i = n \/ i < n BY <1>1
        <4>2. QED BY <4>1, <1>1, <1>c, <1>n
      <3>2. Followed(c, d) BY <2>1, <3>1, <1>1, <1>c, FollowedIsAll
      <3>3. QED BY <3>2, <1>3 DEF OrderInv
    <2>2. QED BY <2>1
  <1>5. \A g \in visited, d \in Names : DependsOn(g, d) => d \in visited
    <2>1. ASSUME NEW g \in visited, NEW d \in Names, DependsOn(g, d) PROVE d \in visited
      <3>1. g \in Names /\ g \notin Open BY DEF DependencyTypes, OrderInv
      <3>2. Followed(g, d) BY <2>1, <3>1, FollowedIsAll
      <3>3. QED BY <3>2 DEF OrderInv
    <2>2. QED BY <2>1
  <1>6. /\ order \in Seq(Names) /\ m \in Nat /\ DOMAIN order = 1 .. m
        /\ order' \in Seq(Names) /\ DOMAIN order' = 1 .. m + 1
        /\ \A i \in 1 .. m : order'[i] = order[i] /\ order[i] \in Names /\ order[i] \in visited
        /\ order'[m + 1] = c
        /\ \A i \in 1 .. m + 1 : i = m + 1 \/ i \in 1 .. m
    <2>1. order \in Seq(Names) /\ m \in Nat /\ DOMAIN order = 1 .. m BY <1>m DEF DependencyTypes
    <2>2. order' = Append(order, c) BY <1>c DEF Output
    <2>3. \A i \in 1 .. m + 1 : i = m + 1 \/ i \in 1 .. m BY <2>1
    <2>4. \A i \in 1 .. m : order[i] \in visited BY <2>1 DEF OrderInv
    <2>5. QED BY <2>1, <2>2, <2>3, <2>4, <1>3, <1>m
  <1>7. Needed' = Needed BY NeededStays DEF OrderOnly
  <1>8. \A i, j \in DOMAIN calls' : i < j => <<calls'[i].field, calls'[j].field>> \in Needed'
    <2>1. ASSUME NEW i \in DOMAIN calls', NEW j \in DOMAIN calls', i < j
          PROVE  <<calls'[i].field, calls'[j].field>> \in Needed'
      <3>1. i \in 1 .. n /\ j \in 1 .. n BY <1>1, <1>2
      <3>2. calls'[i].field = calls[i].field /\ calls'[j].field = calls[j].field BY <1>2
      <3>3. <<calls[i].field, calls[j].field>> \in Needed BY <2>1, <3>1, <1>1
      <3>4. QED BY <3>2, <3>3, <1>7
    <2>2. QED BY <2>1
  <1>9. \A g \in visited' \cup visiting', d \in Names : Followed(g, d)' => d \in visited'
    <2>1. visited' = visited \cup {c} /\ visiting' = visiting \ {c} BY <1>c
    <2>2. visited \cup visiting \subseteq Names BY DEF DependencyTypes
    <2>3. QED BY <2>1, <2>2, <1>2, <1>3 DEF OrderInv
  <1>10. visited' = {order'[i] : i \in DOMAIN order'}
    <2>1. visited = {order[i] : i \in 1 .. m} BY <1>6 DEF OrderInv
    <2>2. visited' = visited \cup {c} BY <1>c
    <2>3. \A i \in 1 .. m : i \in 1 .. m + 1 /\ order'[i] = order[i] BY <1>6
    <2>4. m + 1 \in 1 .. m + 1 /\ order'[m + 1] = c BY <1>6
    <2>5. \A x \in visited \cup {c} : \E i \in 1 .. m + 1 : x = order'[i] BY <2>1, <2>3, <2>4
    <2>6. \A i \in 1 .. m + 1 : order'[i] \in visited \cup {c} BY <2>1, <2>3, <2>4, <1>6
    <2>7. DOMAIN order' = 1 .. m + 1 BY <1>6
    <2>8. \A x : x \in visited' <=> x \in {order'[i] : i \in DOMAIN order'} BY <2>2, <2>5, <2>6, <2>7
    <2>9. QED BY <2>8
  <1>11. IsInjective(order)'
    <2>1. \A i, j \in 1 .. m : order[i] = order[j] => i = j BY <1>6 DEF OrderInv, IsInjective
    <2>2. \A i \in 1 .. m : order[i] # c BY <1>3, <1>6
    <2>3. \A i, j \in 1 .. m + 1 : order'[i] = order'[j] => i = j BY <2>1, <2>2, <1>6
    <2>4. QED BY <2>3, <1>6 DEF IsInjective
  <1>12. DependenciesComeFirst'
    <2>1. ASSUME NEW i \in 1 .. m + 1, NEW j \in 1 .. m + 1, DependsOn(order'[i], order'[j]) PROVE j < i
      <3>1. CASE i = m + 1
        <4>1. order'[j] \in visited BY <3>1, <2>1, <1>3, <1>4, <1>6
        <4>2. j # m + 1 BY <4>1, <1>3, <1>6
        <4>3. QED BY <4>2, <3>1, <1>6
      <3>2. CASE i \in 1 .. m
        <4>1. order'[j] \in visited BY <3>2, <2>1, <1>3, <1>5, <1>6
        <4>2. j \in 1 .. m BY <4>1, <1>3, <1>6
        <4>3. DependsOn(order[i], order[j]) BY <3>2, <4>2, <2>1, <1>6
        <4>4. QED BY <3>2, <4>2, <4>3, <1>6 DEF OrderInv, DependenciesComeFirst
      <3>3. QED BY <3>1, <3>2, <1>6
    <2>2. \A f, g \in Names : DependsOn(f, g)' <=> DependsOn(f, g) BY DEF OrderOnly, DependsOn
    <2>3. \A i \in 1 .. m + 1 : order'[i] \in Names BY <1>3, <1>6
    <2>4. state_dependencies' = state_dependencies BY DEF OrderOnly
    <2>5. QED BY <2>1, <2>4, <1>6 DEF DependenciesComeFirst, DependsOn
  <1>13. /\ cyclic' = {} /\ \A g \in Names : <<g, g>> \notin Needed'
         /\ visiting' = Open' /\ visiting' \cap visited' = {}
         /\ \A i \in 1 .. begun' : Fields'[i] \in visited' \cup visiting'
    BY <1>2, <1>3, <1>7, <1>c DEF OrderInv, OrderOnly
  <1>14. QED BY <1>2, <1>6, <1>8, <1>9, <1>10, <1>11, <1>12, <1>13 DEF OrderInv

-----------------------------------------------------------------------------
(* The whole compilation. *)

\* Lemma: the invariant holds initially.
LEMMA InitDependencies == DependenciesInit => DependencyInv
PROOF
  <1> SUFFICES ASSUME DependenciesInit PROVE DependencyInv OBVIOUS
  <1>1. DependencyTypes
    <2>1. state_dependencies \in [Names -> Seq(Names)]
      BY DependenciesAssumption DEF DependenciesInit
    <2>2. Len(Fields) \in Nat BY DependenciesAssumption
    <2>3. 0 \in 0 .. Len(Fields) BY <2>2
    <2>4. << >> \in Seq([field : Names, at : Nat \ {0}]) /\ << >> \in Seq(Names) /\ << >> \in Seq(SUBSET Names)
      OBVIOUS
    <2>5. QED BY <2>1, <2>3, <2>4 DEF DependenciesInit, DependencyTypes
  <1>2. Stacked = {} /\ Closed = {} /\ Open = {} /\ DOMAIN calls = {} /\ DOMAIN stack = {}
        /\ DOMAIN components = {}
    BY DEF DependenciesInit, Stacked, Closed, Open
  <1>3. CallsChain BY <1>2 DEF CallsChain
  <1>4. NumbersGrow BY <1>2 DEF DependenciesInit, NumbersGrow
  <1>5. Partition BY <1>2 DEF DependenciesInit, Partition, Indexed
  <1>6. ComponentsAreCycles BY <1>2 DEF ComponentsAreCycles
  <1>7. FollowedAreVisited BY DEF DependenciesInit, FollowedAreVisited, Indexed
  <1>8. LowlinksMean BY <1>2 DEF LowlinksMean
  <1>9. StackPaths BY <1>2 DEF StackPaths
  <1>10. \A i \in 1 .. begun : Fields[i] \in Stacked \cup Closed
    <2>1. begun = 0 /\ 1 .. 0 = {} BY DEF DependenciesInit
    <2>2. QED BY <2>1
  <1>11. pass = "cycles" /\ Nothing BY DEF DependenciesInit, Nothing
  <1>12. QED
    BY <1>1, <1>3, <1>4, <1>5, <1>6, <1>7, <1>8, <1>9, <1>10, <1>11
    DEF DependencyInv, SearchInv, PolledInOrderOrReported

\* Lemma: the field the loop of either pass is at.
LEMMA LoopFact ==
  ASSUME DependencyTypes, NEW f, LoopsTo(f)
  PROVE  begun' \in 0 .. Len(Fields) /\ \A i \in 1 .. begun' : i \in 1 .. begun \/ Fields[i] = f
PROOF
  <1>1. Len(Fields) \in Nat BY DependenciesAssumption
  <1>2. begun \in 0 .. Len(Fields) /\ begun < Len(Fields) /\ begun' = begun + 1 /\ f = Fields[begun + 1]
    BY DEF DependencyTypes, LoopsTo
  <1>b. PICK b : b = begun + 1 OBVIOUS
  <1>3. b \in 0 .. Len(Fields) /\ \A i \in 1 .. b : i \in 1 .. begun \/ i = b BY <1>1, <1>2, <1>b
  <1>4. QED BY <1>2, <1>3, <1>b

\* Lemma: a step of the search keeps the invariant.
LEMMA FindCyclesKeeps == DependencyInv /\ FindCycles => DependencyInv'
PROOF
  <1> SUFFICES ASSUME DependencyInv, FindCycles PROVE DependencyInv' OBVIOUS
  <1>1. pass = "cycles" /\ DependencyTypes /\ SearchInv /\ Nothing
    BY DEF DependencyInv, FindCycles, SearchFrom, Follow, Return, Report
  <1>2. ASSUME SearchOnly, SearchInv', calls' \in Seq(Calls), stack' \in Seq(Names),
               indices' \in [Names -> Nat], lowlinks' \in [Names -> Nat], counter' \in Nat \ {0},
               components' \in Seq(SUBSET Names), begun' \in 0 .. Len(Fields)
        PROVE  DependencyInv'
    <2>1. DependencyTypes' BY <1>1, <1>2 DEF DependencyTypes, SearchOnly, orderVars, Calls
    <2>2. pass' = "cycles" /\ Nothing' BY <1>1, <1>2 DEF SearchOnly, Nothing, orderVars
    <2>3. QED BY <2>1, <2>2, <1>2 DEF DependencyInv, PolledInOrderOrReported
  <1>3. ASSUME NEW f \in Names, SearchFrom(f) PROVE DependencyInv'
    <2>1. SearchOnly /\ ~Underway /\ LoopsTo(f) BY <1>3 DEF SearchFrom, SearchOnly, LoopsTo
    <2>2. begun' \in 0 .. Len(Fields) /\ \A i \in 1 .. begun' : i \in 1 .. begun \/ Fields[i] = f
      BY <2>1, <1>1, LoopFact
    <2>3. CASE Indexed(f)
      <3>1. UNCHANGED <<calls, searchVars, state_dependencies>> BY <2>3, <1>3 DEF SearchFrom
      <3>2. f \in Stacked \cup Closed BY <2>3, <1>1 DEF SearchInv, Partition
      <3>3. \A i \in 1 .. begun' : Fields'[i] \in Stacked' \cup Closed'
        BY <2>2, <3>1, <3>2, <1>1 DEF SearchInv, Stacked, Closed, searchVars
      <3>4. Needed' = Needed BY <3>1, NeededStays
      <3>5. /\ Stacked' = Stacked /\ Closed' = Closed /\ Open' = Open
            /\ \A g, d \in Names : Followed(g, d)' <=> Followed(g, d)
            /\ \A i, g : InRegion(i, g)' <=> InRegion(i, g)
        BY <3>1 DEF Stacked, Closed, Open, Followed, InRegion, searchVars
      <3>6. CallsChain' /\ NumbersGrow' BY <3>1, <3>5, <1>1 DEF SearchInv, CallsChain, NumbersGrow, searchVars
      <3>7. Partition' /\ ComponentsAreCycles'
        BY <3>1, <3>4, <3>5, <1>1
        DEF SearchInv, Partition, ComponentsAreCycles, searchVars, Indexed, DependsOn
      <3>8. FollowedAreVisited' BY <3>1, <3>5, <1>1 DEF SearchInv, FollowedAreVisited, searchVars, Indexed
      <3>9. LowlinksMean'
        <4>1. Stacked \subseteq Names BY <1>1 DEF DependencyTypes, Stacked
        <4>2. QED BY <4>1, <3>1, <3>4, <3>5, <1>1 DEF SearchInv, LowlinksMean, searchVars
      <3>10. StackPaths' BY <3>1, <3>4, <3>5, <1>1 DEF SearchInv, StackPaths, searchVars
      <3>11. SearchInv' BY <3>3, <3>6, <3>7, <3>8, <3>9, <3>10 DEF SearchInv
      <3>12. /\ calls' \in Seq(Calls) /\ stack' \in Seq(Names) /\ indices' \in [Names -> Nat]
             /\ lowlinks' \in [Names -> Nat] /\ counter' \in Nat \ {0} /\ components' \in Seq(SUBSET Names)
        BY <3>1, <1>1 DEF DependencyTypes, Calls, searchVars
      <3>13. QED BY <3>11, <3>12, <2>1, <2>2, <1>2
    <2>4. CASE ~Indexed(f)
      <3>1. Visit(f) BY <2>4, <1>3 DEF SearchFrom
      <3>2. SearchInv' /\ calls' \in Seq(Calls) /\ stack' \in Seq(Names)
            /\ indices' \in [Names -> Nat] /\ lowlinks' \in [Names -> Nat] /\ counter' \in Nat \ {0}
        BY <3>1, <2>1, <2>2, <2>4, <1>1, VisitKeeps
      <3>3. components' \in Seq(SUBSET Names) BY <3>1, <1>1 DEF Visit, DependencyTypes
      <3>4. QED BY <3>2, <3>3, <2>1, <2>2, <1>2
    <2>5. QED BY <2>3, <2>4
  <1>4. CASE Follow
    <2>1. SearchOnly /\ Underway /\ ~AtEnd /\ begun' = begun BY <1>4 DEF Follow, SearchOnly
    <2>2. begun' \in 0 .. Len(Fields) BY <2>1, <1>1 DEF DependencyTypes
    <2>3. Dependency \in Names BY <2>1, <1>1, TopCall
    <2>4. CASE ~Indexed(Dependency)
      <3>1. Visit(Dependency) BY <2>4, <1>4 DEF Follow
      <3>2. SearchInv' /\ calls' \in Seq(Calls) /\ stack' \in Seq(Names)
            /\ indices' \in [Names -> Nat] /\ lowlinks' \in [Names -> Nat] /\ counter' \in Nat \ {0}
        BY <3>1, <2>1, <2>3, <2>4, <1>1, VisitKeeps
      <3>3. components' \in Seq(SUBSET Names) BY <3>1, <1>1 DEF Visit, DependencyTypes
      <3>4. QED BY <3>2, <3>3, <2>1, <2>2, <1>2
    <2>5. CASE Indexed(Dependency)
      <3>1. /\ lowlinks' = IF Contains(stack, Dependency) THEN Lower(Current, indices[Dependency]) ELSE lowlinks
            /\ calls' = GoOn(calls) /\ UNCHANGED <<begun, counter, indices, stack, components>>
        BY <2>1, <2>5, <1>4 DEF Follow
      <3>2. SearchInv' /\ calls' \in Seq(Calls) /\ lowlinks' \in [Names -> Nat]
        BY <3>1, <2>1, <2>5, <1>1, PassKeeps
      <3>3. /\ stack' \in Seq(Names) /\ indices' \in [Names -> Nat] /\ counter' \in Nat \ {0}
            /\ components' \in Seq(SUBSET Names)
        BY <3>1, <1>1 DEF DependencyTypes
      <3>4. QED BY <3>2, <3>3, <2>1, <2>2, <1>2
    <2>6. QED BY <2>4, <2>5
  <1>5. CASE Return
    <2>1. /\ SearchOnly /\ Underway /\ AtEnd /\ calls' = Returned
          /\ UNCHANGED <<begun, counter, indices>>
          /\ lowlinks' = IF Len(calls) = 1 THEN lowlinks
                         ELSE Lower(calls[Len(calls) - 1].field, lowlinks[Current])
      BY <1>5 DEF Return, SearchOnly
    <2>2. begun' \in 0 .. Len(Fields) /\ indices' \in [Names -> Nat] /\ counter' \in Nat \ {0}
      BY <2>1, <1>1 DEF DependencyTypes
    <2>3. CASE lowlinks[Current] = indices[Current]
      <3>1. PopComponent(Current) BY <2>3, <1>5 DEF Return
      <3>2. SearchInv' /\ calls' \in Seq(Calls) /\ lowlinks' \in [Names -> Nat]
            /\ stack' \in Seq(Names) /\ components' \in Seq(SUBSET Names)
        BY <3>1, <2>1, <2>3, <1>1, PopKeeps
      <3>3. QED BY <3>2, <2>1, <2>2, <1>2
    <2>4. CASE lowlinks[Current] # indices[Current]
      <3>1. UNCHANGED <<stack, components>> BY <2>4, <1>5 DEF Return
      <3>2. SearchInv' /\ calls' \in Seq(Calls) /\ lowlinks' \in [Names -> Nat]
        BY <3>1, <2>1, <2>4, <1>1, ReturnKeeps
      <3>3. stack' \in Seq(Names) /\ components' \in Seq(SUBSET Names) BY <3>1, <1>1 DEF DependencyTypes
      <3>4. QED BY <3>2, <3>3, <2>1, <2>2, <1>2
    <2>5. QED BY <2>3, <2>4
  <1>6. CASE Report
    <2>1. /\ ~Underway /\ begun = Len(Fields) /\ begun' = 0
          /\ cyclic' = {c \in Range(components) : IsCyclic(c)}
          /\ pass' = IF cyclic' = {} THEN "order" ELSE "done"
          /\ UNCHANGED <<state_dependencies, calls, searchVars, orderVars>>
      BY <1>6 DEF Report
    <2>2. /\ UNION cyclic' = {f \in Names : Needs(f, f)}
          /\ \A c \in cyclic' : \A f \in c, g \in Names : g \in c <=> Needs(f, g) /\ Needs(g, f)
          /\ \A c, d \in cyclic' : c # d => c \cap d = {}
      BY <2>1, <1>1, ComponentsTell
    <2>3. \A f, g \in Names : Needs(f, g)' <=> Needs(f, g) BY <2>1 DEF Needs, IsClosed, DependsOn
    <2>4. cyclic' \in SUBSET (SUBSET Names)
      <3>1. components \in Seq(SUBSET Names) BY <1>1 DEF DependencyTypes
      <3>2. \A c \in Range(components) : c \in SUBSET Names BY <3>1 DEF Range
      <3>3. QED BY <3>2, <2>1
    <2>5. CyclesAreReported' BY <2>2, <2>3, <2>4 DEF CyclesAreReported
    <2>6. DependencyTypes'
      <3>1. 0 \in 0 .. Len(Fields)
        <4>1. Len(Fields) \in Nat BY DependenciesAssumption
        <4>2. QED BY <4>1
      <3>2. QED BY <3>1, <2>1, <2>4, <1>1 DEF DependencyTypes, searchVars, orderVars
    <2>7. calls' = << >> /\ DOMAIN calls' = {} /\ Open' = {}
      BY <2>1, <1>1 DEF Underway, Open
    <2>8. visiting' = {} /\ visited' = {} /\ order' = << >> BY <2>1, <1>1 DEF Nothing, orderVars
    <2>9. CASE cyclic' = {}
      <3>1. \A f \in Names : <<f, f>> \notin Needed'
        <4>1. \A f \in Names : ~Needs(f, f) BY <2>2, <2>9
        <4>2. \A f \in Names : <<f, f>> \notin Needed BY <4>1, NeededIsNeeds
        <4>3. QED BY <4>2, <2>1, NeededStays
      <3>2. DOMAIN order' = {} /\ IsInjective(order)' /\ DependenciesComeFirst'
        BY <2>8 DEF IsInjective, DependenciesComeFirst
      <3>3. \A i \in 1 .. begun' : Fields'[i] \in visited' \cup visiting'
        <4>1. 1 .. 0 = {} OBVIOUS
        <4>2. QED BY <4>1, <2>1
      <3>4. OrderInv' BY <2>7, <2>8, <2>9, <3>1, <3>2, <3>3 DEF OrderInv, CallsChain
      <3>5. pass' = "order" BY <2>1, <2>9
      <3>6. QED BY <2>5, <2>6, <3>4, <3>5 DEF DependencyInv, PolledInOrderOrReported
    <2>10. CASE cyclic' # {}
      <3>1. pass' = "done" BY <2>1, <2>10
      <3>2. PolledInOrderOrReported' BY <2>5, <2>8, <2>10 DEF PolledInOrderOrReported
      <3>3. QED BY <2>6, <3>1, <3>2 DEF DependencyInv
    <2>11. QED BY <2>9, <2>10
  <1>7. QED BY <1>3, <1>4, <1>5, <1>6 DEF FindCycles

\* Lemma: a step of the ordering keeps the invariant.
LEMMA SortFieldsKeeps == DependencyInv /\ SortFields => DependencyInv'
PROOF
  <1> SUFFICES ASSUME DependencyInv, SortFields PROVE DependencyInv' OBVIOUS
  <1>1. pass = "order" /\ DependencyTypes /\ OrderInv /\ CyclesAreReported
    BY DEF DependencyInv, SortFields, OrderFrom, Descend, Leave, Ordered
  <1>2. ASSUME UNCHANGED <<state_dependencies, cyclic>> PROVE CyclesAreReported'
    <2>1. \A f, g \in Names : Needs(f, g)' <=> Needs(f, g) BY <1>2 DEF Needs, IsClosed, DependsOn
    <2>2. cyclic \in SUBSET (SUBSET Names) BY <1>1 DEF DependencyTypes
    <2>3. QED BY <2>1, <2>2, <1>1, <1>2 DEF CyclesAreReported
  <1>3. ASSUME OrderOnly, OrderInv', calls' \in Seq(Calls), begun' \in 0 .. Len(Fields),
               visiting' \in SUBSET Names, visited' \in SUBSET Names, order' \in Seq(Names)
        PROVE  DependencyInv'
    <2>1. DependencyTypes' BY <1>1, <1>3 DEF DependencyTypes, OrderOnly, searchVars, Calls
    <2>2. pass' = "order" /\ CyclesAreReported' BY <1>1, <1>2, <1>3 DEF OrderOnly
    <2>3. QED BY <2>1, <2>2, <1>3 DEF DependencyInv, PolledInOrderOrReported
  <1>4. ASSUME NEW f \in Names, OrderFrom(f) PROVE DependencyInv'
    <2>1. OrderOnly /\ ~Underway /\ LoopsTo(f) /\ UNCHANGED <<visited, order>>
      BY <1>4 DEF OrderFrom, OrderOnly, LoopsTo
    <2>2. begun' \in 0 .. Len(Fields) /\ \A i \in 1 .. begun' : i \in 1 .. begun \/ Fields[i] = f
      BY <2>1, <1>1, LoopFact
    <2>3. CASE f \in visited \cup visiting
      <3>1. UNCHANGED <<calls, visiting>> BY <2>3, <1>4 DEF OrderFrom
      <3>2. \A i \in 1 .. begun' : Fields'[i] \in visited' \cup visiting'
        BY <2>1, <2>2, <2>3, <3>1, <1>1 DEF OrderInv
      <3>3. Needed' = Needed BY <2>1, NeededStays DEF OrderOnly
      <3>4. Open' = Open /\ \A g, d \in Names : Followed(g, d)' <=> Followed(g, d)
        BY <2>1, <3>1 DEF Open, Followed, OrderOnly
      <3>5. \A g \in visited' \cup visiting', d \in Names : Followed(g, d)' => d \in visited'
        <4>1. visited \cup visiting \subseteq Names BY <1>1 DEF DependencyTypes
        <4>2. QED BY <4>1, <2>1, <3>1, <3>4, <1>1 DEF OrderInv
      <3>6. CallsChain' /\ DependenciesComeFirst' /\ IsInjective(order)'
        BY <2>1, <3>1, <1>1 DEF OrderInv, OrderOnly, CallsChain, DependenciesComeFirst, DependsOn, IsInjective
      <3>7. OrderInv'
        BY <2>1, <3>1, <3>2, <3>3, <3>4, <3>5, <3>6, <1>1 DEF OrderInv, OrderOnly
      <3>8. /\ calls' \in Seq(Calls) /\ visiting' \in SUBSET Names /\ visited' \in SUBSET Names
            /\ order' \in Seq(Names)
        BY <2>1, <3>1, <1>1 DEF DependencyTypes, Calls
      <3>9. QED BY <3>7, <3>8, <2>1, <2>2, <1>3
    <2>4. CASE f \notin visited \cup visiting
      <3>1. Begin(f) BY <2>4, <1>4 DEF OrderFrom
      <3>2. OrderInv' /\ calls' \in Seq(Calls) BY <3>1, <2>1, <2>2, <2>4, <1>1, BeginKeeps
      <3>3. visiting' \in SUBSET Names /\ visited' \in SUBSET Names /\ order' \in Seq(Names)
        BY <3>1, <2>1, <1>1 DEF DependencyTypes, Begin
      <3>4. QED BY <3>2, <3>3, <2>1, <2>2, <1>3
    <2>5. QED BY <2>3, <2>4
  <1>5. CASE Descend
    <2>1. OrderOnly /\ Underway /\ ~AtEnd /\ UNCHANGED <<begun, visited, order>>
      BY <1>5 DEF Descend, OrderOnly
    <2>2. begun' \in 0 .. Len(Fields) /\ Dependency \in Names
      BY <2>1, <1>1, TopCall DEF DependencyTypes
    <2>3. CASE Dependency \in visited \cup visiting
      <3>1. calls' = GoOn(calls) /\ UNCHANGED visiting BY <2>3, <1>5 DEF Descend
      <3>2. OrderInv' /\ calls' \in Seq(Calls) BY <3>1, <2>1, <2>3, <1>1, SkipKeeps
      <3>3. visiting' \in SUBSET Names /\ visited' \in SUBSET Names /\ order' \in Seq(Names)
        BY <3>1, <2>1, <1>1 DEF DependencyTypes
      <3>4. QED BY <3>2, <3>3, <2>1, <2>2, <1>3
    <2>4. CASE Dependency \notin visited \cup visiting
      <3>1. Begin(Dependency) BY <2>4, <1>5 DEF Descend
      <3>2. OrderInv' /\ calls' \in Seq(Calls) BY <3>1, <2>1, <2>2, <2>4, <1>1, BeginKeeps
      <3>3. visiting' \in SUBSET Names /\ visited' \in SUBSET Names /\ order' \in Seq(Names)
        BY <3>1, <2>1, <2>2, <1>1 DEF DependencyTypes, Begin
      <3>4. QED BY <3>2, <3>3, <2>1, <2>2, <1>3
    <2>5. QED BY <2>3, <2>4
  <1>6. CASE Leave
    <2>1. /\ OrderOnly /\ Underway /\ AtEnd /\ calls' = Returned /\ begun' = begun
          /\ visiting' = visiting \ {Current} /\ visited' = visited \cup {Current} /\ order' = Output(Current)
      BY <1>6 DEF Leave, OrderOnly
    <2>2. OrderInv' /\ calls' \in Seq(Calls) /\ order' \in Seq(Names) BY <2>1, <1>1, LeaveKeeps
    <2>3. Current \in Names BY <2>1, <1>1, TopCall
    <2>4. begun' \in 0 .. Len(Fields) /\ visiting' \in SUBSET Names /\ visited' \in SUBSET Names
      BY <2>1, <2>3, <1>1 DEF DependencyTypes
    <2>5. QED BY <2>1, <2>2, <2>4, <1>3
  <1>7. CASE Ordered
    <2>1. /\ ~Underway /\ begun = Len(Fields) /\ pass' = "done"
          /\ UNCHANGED <<state_dependencies, begun, calls, searchVars, cyclic, orderVars>>
      BY <1>7 DEF Ordered
    <2>2. DependencyTypes' BY <2>1, <1>1 DEF DependencyTypes, searchVars, orderVars
    <2>3. CyclesAreReported' BY <2>1, <1>2
    <2>4. visiting = {} BY <2>1, <1>1 DEF OrderInv, Open, Underway
    <2>5. \A f \in Names : f \in visited
      <3>1. ASSUME NEW f \in Names PROVE f \in visited
        <4>1. PICK i \in 1 .. Len(Fields) : f = Fields[i] BY DependenciesAssumption DEF Names, Range
        <4>2. QED BY <4>1, <2>1, <2>4, <1>1 DEF OrderInv
      <3>2. QED BY <3>1
    <2>6. Range(order) = Names /\ IsInjective(order) /\ DependenciesComeFirst
      <3>1. visited = Range(order) BY <1>1 DEF OrderInv, Range
      <3>2. visited \subseteq Names BY <1>1 DEF DependencyTypes
      <3>3. QED BY <2>5, <3>1, <3>2, <1>1 DEF OrderInv
    <2>7. (Range(order) = Names /\ IsInjective(order) /\ DependenciesComeFirst)'
      BY <2>1, <2>6 DEF Range, IsInjective, DependenciesComeFirst, DependsOn, orderVars
    <2>8. cyclic' = {} BY <2>1, <1>1 DEF OrderInv
    <2>9. PolledInOrderOrReported' BY <2>3, <2>7, <2>8 DEF PolledInOrderOrReported
    <2>10. QED BY <2>1, <2>2, <2>9 DEF DependencyInv
  <1>8. QED BY <1>4, <1>5, <1>6, <1>7 DEF SortFields

\* The invariant holds in every reachable state, for any fields and dependencies.
THEOREM DependencyInvariant == DependencySpec => []DependencyInv
PROOF
  <1>1. DependencyInv /\ UNCHANGED dependencyVars => DependencyInv'
    <2> SUFFICES ASSUME DependencyInv, UNCHANGED dependencyVars PROVE DependencyInv' OBVIOUS
    <2> USE DEF dependencyVars, searchVars, orderVars
    <2>1. DependencyTypes' BY DEF DependencyInv, DependencyTypes
    <2>2. Needed' = Needed /\ \A f, g \in Names : Needs(f, g)' <=> Needs(f, g)
      BY DEF Needed, Needs, IsClosed, DependsOn
    <2>3. pass' = pass /\ Stacked' = Stacked /\ Closed' = Closed /\ Open' = Open
          /\ (\A g, d : Followed(g, d)' <=> Followed(g, d))
          /\ (\A i, h : InRegion(i, h)' <=> InRegion(i, h))
      BY DEF Stacked, Closed, Open, Followed, InRegion
    <2>4. ASSUME SearchInv PROVE SearchInv'
      <3>1. CallsChain' /\ NumbersGrow' BY <2>3, <2>4 DEF SearchInv, CallsChain, NumbersGrow
      <3>2. Partition' /\ ComponentsAreCycles' /\ FollowedAreVisited'
        BY <2>2, <2>3, <2>4 DEF SearchInv, Partition, ComponentsAreCycles, FollowedAreVisited, Indexed, DependsOn
      <3>3. LowlinksMean' BY <2>2, <2>3, <2>4 DEF SearchInv, LowlinksMean
      <3>4. StackPaths'
        <4>1. StackPaths BY <2>4 DEF SearchInv
        <4>2. calls' = calls /\ indices' = indices OBVIOUS
        <4>3. \A i \in DOMAIN calls' : \A g \in Stacked' :
                InRegion(i, g)' => g = calls'[i].field \/ <<calls'[i].field, g>> \in Needed'
          BY <4>1, <4>2, <2>2, <2>3 DEF StackPaths
        <4>4. \A g \in Stacked' \ Open' :
                \E h \in Stacked' : indices'[h] < indices'[g] /\ <<g, h>> \in Needed'
          BY <4>1, <4>2, <2>2, <2>3 DEF StackPaths
        <4>5. \A g \in Stacked' : calls' # << >> /\ indices'[calls'[1].field] <= indices'[g]
          BY <4>1, <4>2, <2>3 DEF StackPaths
        <4>6. QED BY <4>3, <4>4, <4>5 DEF StackPaths
      <3>5. \A i \in 1 .. begun' : Fields'[i] \in Stacked' \cup Closed' BY <2>3, <2>4 DEF SearchInv
      <3>6. QED BY <3>1, <3>2, <3>3, <3>4, <3>5 DEF SearchInv
    <2>5. DependenciesComeFirst <=> DependenciesComeFirst' BY DEF DependenciesComeFirst, DependsOn
    <2>6. ASSUME OrderInv PROVE OrderInv'
      <3>1. CallsChain' /\ IsInjective(order)' BY <2>6 DEF OrderInv, CallsChain, IsInjective
      <3>2. QED BY <2>2, <2>3, <2>5, <2>6, <3>1 DEF OrderInv
    <2>7. DependencyTypes BY DEF DependencyInv
    <2>8. CyclesAreReported => CyclesAreReported'
      <3>1. cyclic \in SUBSET (SUBSET Names) BY <2>7 DEF DependencyTypes
      <3>2. QED BY <2>2, <3>1 DEF CyclesAreReported
    <2>9. PolledInOrderOrReported'
      <3>1. Range(order)' = Range(order) /\ (IsInjective(order)' <=> IsInjective(order)) BY DEF Range, IsInjective
      <3>2. QED BY <2>5, <2>8, <3>1 DEF DependencyInv, PolledInOrderOrReported
    <2>10. Nothing => Nothing' BY DEF Nothing
    <2>11. QED BY <2>1, <2>3, <2>4, <2>6, <2>8, <2>9, <2>10 DEF DependencyInv
  <1>2. DependencyInv /\ [Compile]_dependencyVars => DependencyInv'
    BY <1>1, FindCyclesKeeps, SortFieldsKeeps DEF Compile
  <1>3. QED BY <1>2, InitDependencies, PTL DEF DependencySpec

\* A program is rejected with exactly its cycles, and one without a cycle polls every
\* field once, after all that it depends on.
THEOREM OrderedOrReported == DependencySpec => []PolledInOrderOrReported
PROOF
  <1>1. DependencyInv => PolledInOrderOrReported BY DEF DependencyInv
  <1>2. QED BY <1>1, DependencyInvariant, PTL

-----------------------------------------------------------------------------
(* The prefixes that pointer paths share. *)

Statuses == {"unresolved", "resolved", "module missing", "read failed"}

\* What one poll has come to: the compiler's sets, the status locals, the answers.
Locals ==
  [guaranteed : SUBSET shared, possibly_initialized : SUBSET shared,
   status : [shared -> Statuses], answers : [shared -> Seq(BOOLEAN)]]

Present ==
  [guaranteed |-> guaranteed, possibly_initialized |-> possibly_initialized,
   status |-> status, answers |-> answers]

Reached(s, q) == Len(q) = 1 \/ s.status[Front(q)] = "resolved"

\* A prefix is asked for if what it begins with is resolved, and inherits its failure otherwise.
Settled(s, q) ==
  /\ s.status[q] = "unresolved" => s.answers[q] = << >>
  /\ q \in s.guaranteed => s.status[q] # "unresolved"
  /\ s.status[q] # "unresolved" =>
       /\ q \in s.possibly_initialized
       /\ Reached(s, q) => \E a \in BOOLEAN : s.answers[q] = <<a>> /\ s.status[q] = Outcome(q, a)
       /\ ~Reached(s, q) => s.answers[q] = << >> /\ s.status[q] = s.status[Front(q)]

Consistent(s) == s \in Locals /\ \A q \in shared : Settled(s, q)

\* The plan shares what shared prefixes begin with.
PlanOK ==
  /\ shared = SharedPrefixes
  /\ path \in [Polled -> Paths]
  /\ \A f \in Polled : fields[f] # << >> => fields[f] \in shared

GivenOK ==
  \A f \in Polled : given[f] # "nothing" =>
    given[f] # "unresolved" /\ fields[f] \in shared /\ given[f] = status[fields[f]]

PrefixInv ==
  /\ PlanOK /\ Consistent(Present) /\ GivenOK
  /\ given \in [Polled -> Statuses \cup {"nothing"}] /\ next \in Nat \ {0}

-----------------------------------------------------------------------------
(* Prefixes. *)

\* Lemma: the initial segments of a sequence.
LEMMA InitialSegment ==
  ASSUME NEW S, NEW p \in Seq(S), NEW k \in 1 .. Len(p)
  PROVE  /\ SubSeq(p, 1, k) \in Seq(S) /\ Len(SubSeq(p, 1, k)) = k /\ k \in Nat
         /\ \A j \in 1 .. k : SubSeq(SubSeq(p, 1, k), 1, j) = SubSeq(p, 1, j)
<1>1. k \in Nat /\ 1 \in Int /\ k \in Int /\ Len(p) \in Nat
  OBVIOUS
<1>2. \A i \in 1 .. k : p[i] \in S
  OBVIOUS
<1>3. /\ SubSeq(p, 1, k) \in Seq(S) /\ Len(SubSeq(p, 1, k)) = k
      /\ \A i \in 1 .. k : SubSeq(p, 1, k)[i] = p[i]
  <2>1. /\ SubSeq(p, 1, k) \in Seq(S)
        /\ Len(SubSeq(p, 1, k)) = IF 1 <= k THEN k - 1 + 1 ELSE 0
        /\ \A i \in 1 .. k - 1 + 1 : SubSeq(p, 1, k)[i] = p[1 + i - 1]
    BY <1>1, <1>2, SubSeqProperties
  <2>2. k - 1 + 1 = k /\ 1 <= k /\ \A i \in 1 .. k : 1 + i - 1 = i
    BY <1>1
  <2> QED
    BY <2>1, <2>2
<1>4. ASSUME NEW j \in 1 .. k
      PROVE  SubSeq(SubSeq(p, 1, k), 1, j) = SubSeq(p, 1, j)
  BY <1>1, <1>3
<1> QED
  BY <1>1, <1>3, <1>4

\* Lemma: what begins a segment of a path is one.
LEMMA SegmentsOfSegment ==
  ASSUME NEW S, NEW p \in Seq(S), NEW q \in Segments(p)
  PROVE  /\ q \in Seq(S) /\ Len(q) \in 1 .. Len(p) - 1
         /\ \A j \in 1 .. Len(q) : SubSeq(q, 1, j) \in Segments(p)
<1>1. PICK k \in 1 .. Len(p) - 1 : q = SubSeq(p, 1, k)
  BY DEF Segments
<1>2. k \in 1 .. Len(p)
  OBVIOUS
<1>3. /\ q \in Seq(S) /\ Len(q) = k /\ k \in Nat
      /\ \A j \in 1 .. k : SubSeq(q, 1, j) = SubSeq(p, 1, j)
  BY <1>1, <1>2, InitialSegment
<1>4. \A j \in 1 .. k : j \in 1 .. Len(p) - 1
  OBVIOUS
<1> QED
  BY <1>3, <1>4 DEF Segments

\* Lemma: the paths of the fields.
LEMMA PathType ==
  ASSUME PlanOK, NEW f \in Polled
  PROVE  path[f] \in Seq(Range(path[f]))
BY PrefixAssumption DEF PlanOK

\* Lemma: what begins a shared prefix is shared.
LEMMA SharedSegments ==
  ASSUME PlanOK, NEW q \in shared
  PROVE  /\ Len(q) \in Nat \ {0} /\ SubSeq(q, 1, Len(q)) = q
         /\ \A j \in 1 .. Len(q) : SubSeq(q, 1, j) \in shared /\ Len(SubSeq(q, 1, j)) = j
         /\ \A j \in 1 .. Len(q) : j > 1 => Front(SubSeq(q, 1, j)) = SubSeq(q, 1, j - 1)
<1>1. PICK f \in Polled, g \in Polled :
        f # g /\ q \in Segments(path[f]) /\ q \in Segments(path[g]) /\ CanShare(f, g)
  BY DEF PlanOK, SharedPrefixes
<1> DEFINE S == Range(path[f])
           n == Len(q)
<1>2. /\ q \in Seq(S) /\ n \in Nat \ {0}
      /\ \A j \in 1 .. n : SubSeq(q, 1, j) \in Segments(path[f]) /\ SubSeq(q, 1, j) \in Segments(path[g])
  <2>1. path[f] \in Seq(S) /\ path[g] \in Seq(Range(path[g]))
    BY PathType
  <2> QED
    BY <1>1, <2>1, SegmentsOfSegment
<1>3. \A j \in 1 .. n : SubSeq(q, 1, j) \in shared
  BY <1>1, <1>2 DEF PlanOK, SharedPrefixes, Costly
<1> HIDE DEF S
<1>4. \A j \in 1 .. n : /\ Len(SubSeq(q, 1, j)) = j
                        /\ \A i \in 1 .. j : SubSeq(SubSeq(q, 1, j), 1, i) = SubSeq(q, 1, i)
  BY <1>2, InitialSegment
<1>5. SubSeq(q, 1, n) = q
  BY <1>2
<1>6. ASSUME NEW j \in 1 .. n, j > 1
      PROVE  Front(SubSeq(q, 1, j)) = SubSeq(q, 1, j - 1)
  <2>1. j - 1 \in 1 .. j
    BY <1>6
  <2> QED
    BY <1>4, <2>1 DEF Front
<1> QED
  BY <1>2, <1>3, <1>4, <1>5, <1>6

\* Lemma: the beginning of a shared prefix of more than one question.
LEMMA SharedFront ==
  ASSUME PlanOK, NEW q \in shared, Len(q) # 1
  PROVE  Front(q) \in shared /\ Len(Front(q)) = Len(q) - 1 /\ HasAncestor(q)
<1> DEFINE n == Len(q)
<1>1. /\ n \in Nat \ {0} /\ SubSeq(q, 1, n) = q
      /\ \A j \in 1 .. n : SubSeq(q, 1, j) \in shared /\ Len(SubSeq(q, 1, j)) = j
      /\ \A j \in 1 .. n : j > 1 => Front(SubSeq(q, 1, j)) = SubSeq(q, 1, j - 1)
  BY SharedSegments
<1>2. n \in 1 .. n /\ n > 1 /\ n - 1 \in 1 .. n
  BY <1>1
<1> HIDE DEF n
<1>3. Front(q) = SubSeq(q, 1, n - 1)
  BY <1>1, <1>2
<1> QED
  BY <1>1, <1>2, <1>3 DEF HasAncestor, n

\* Lemma: a field with a shared prefix shares the longest.
LEMMA LongestShared ==
  ASSUME NEW S, NEW f \in Polled, path[f] \in Seq(S), NEW prefixes, LongestOf(f, prefixes) # << >>
  PROVE  LongestOf(f, prefixes) \in prefixes
<1> DEFINE own == Segments(path[f]) \cap prefixes
<1>1. own # {} /\ LongestOf(f, prefixes) = CHOOSE q \in own : \A r \in own : Len(r) <= Len(q)
  BY DEF LongestOf
<1>2. \A q \in own : Len(q) \in Nat /\ Len(q) <= Len(path[f]) - 1
  BY SegmentsOfSegment
<1> DEFINE N == Len(path[f])
           D == {N - Len(q) : q \in own}
<1>3. N \in Nat /\ D \subseteq Nat /\ D # {}
  <2>1. N \in Nat
    OBVIOUS
  <2> HIDE DEF own
  <2> QED
    BY <1>1, <1>2, <2>1
<1>4. PICK d \in D : \A e \in D : d <= e
  <2> HIDE DEF D
  <2> QED
    BY <1>3, LeastNumber
<1>5. PICK q \in own : d = N - Len(q)
  BY <1>4
<1>6. \A r \in own : Len(r) <= Len(q)
  <2> SUFFICES ASSUME NEW r \in own PROVE Len(r) <= Len(q)
    OBVIOUS
  <2>1. d <= N - Len(r)
    BY <1>4
  <2> HIDE DEF own, D
  <2> QED
    BY <1>2, <1>3, <1>5, <2>1
<1>7. (CHOOSE x \in own : \A r \in own : Len(r) <= Len(x)) \in own
  <2> HIDE DEF own
  <2> QED
    BY <1>5, <1>6
<1> QED
  BY <1>1, <1>7

-----------------------------------------------------------------------------
(* The emitted code. *)

\* What a poll knows of a prefix it keeps.
Keeps(s, t) ==
  \A q \in shared : s.status[q] # "unresolved" => t.status[q] = s.status[q]

\* Lemma: an outcome is known.
LEMMA OutcomeType ==
  ASSUME NEW q, NEW a \in BOOLEAN
  PROVE  /\ Outcome(q, a) \in Statuses \ {"unresolved"}
         /\ Outcome(q, a) = "resolved" <=> a = TRUE
BY DEF Outcome, Statuses

\* Lemma: no prefix is known before what it begins with.
LEMMA KnownFront ==
  ASSUME PlanOK, NEW s, Consistent(s), NEW q \in shared, Len(q) # 1, s.status[q] # "unresolved"
  PROVE  s.status[Front(q)] # "unresolved"
BY SharedFront DEF Consistent, Settled, Reached

\* Lemma: resolving a prefix that is not known, after what it begins with.
LEMMA ResolveKeeps ==
  ASSUME PlanOK, NEW s, Consistent(s), NEW q \in shared, NEW conditional \in BOOLEAN,
         NEW answer \in BOOLEAN, s.status[q] = "unresolved",
         Len(q) # 1 => s.status[Front(q)] # "unresolved"
  PROVE  LET t == Record(Resolve(s, q, answer), q, conditional) IN
         Consistent(t) /\ Keeps(s, t) /\ t.status[q] # "unresolved"
<1>1. /\ s \in Locals /\ s.answers[q] = << >> /\ s.status[q] \in Statuses /\ Settled(s, q)
      /\ \A r \in shared : Settled(s, r)
  BY DEF Consistent, Settled, Locals
<1>2. /\ HasAncestor(q) <=> Len(q) # 1
      /\ Len(q) # 1 => Front(q) \in shared /\ Front(q) # q
  <2>1. Len(q) \in Nat \ {0}
    BY SharedSegments
  <2>2. Len(q) # 1 => Front(q) \in shared /\ Len(Front(q)) = Len(q) - 1 /\ HasAncestor(q)
    BY SharedFront
  <2>3. HasAncestor(q) => Len(q) # 1
    <3>1. HasAncestor(q) => Len(q) > 1
      BY DEF HasAncestor
    <3> DEFINE n == Len(q)
    <3>2. n \in Nat /\ (HasAncestor(q) => n > 1)
      BY <2>1, <3>1
    <3> HIDE DEF n
    <3>3. HasAncestor(q) => n # 1
      BY ONLY <3>2
    <3> QED
      BY <3>3 DEF n
  <2>4. Len(q) # 1 => Front(q) # q
    BY <2>1, <2>2
  <2> QED
    BY <2>2, <2>3, <2>4
<1> DEFINE inherited == IF HasAncestor(q) THEN s.status[Front(q)] ELSE "resolved"
           v == IF inherited = "resolved" THEN Outcome(q, answer) ELSE inherited
           w == IF inherited = "resolved" THEN <<answer>> ELSE << >>
           u == Resolve(s, q, answer)
           t == Record(u, q, conditional)
<1>3. v \in Statuses /\ v # "unresolved" /\ w \in Seq(BOOLEAN)
  <2>1. inherited \in Statuses /\ inherited # "unresolved"
    BY <1>1, <1>2 DEF Locals, Statuses
  <2>2. Outcome(q, answer) \in Statuses \ {"unresolved"}
    BY OutcomeType
  <2>3. <<answer>> \in Seq(BOOLEAN) /\ << >> \in Seq(BOOLEAN)
    OBVIOUS
  <2> HIDE DEF inherited
  <2>4. CASE inherited = "resolved"
    <3>1. v = Outcome(q, answer) /\ w = <<answer>>
      BY <2>4
    <3> QED
      BY <2>2, <2>3, <3>1
  <2>5. CASE inherited # "resolved"
    <3>1. v = inherited /\ w = << >>
      BY <2>5
    <3> QED
      BY <2>1, <2>3, <3>1
  <2> QED
    BY <2>4, <2>5
<1>4. /\ u \in Locals /\ u.status = [s.status EXCEPT ![q] = v] /\ u.answers = [s.answers EXCEPT ![q] = w]
      /\ u.guaranteed = s.guaranteed /\ u.possibly_initialized = s.possibly_initialized
  <2> DEFINE a == [s EXCEPT !.status[q] = v]
             b == [a EXCEPT !.answers[q] = w]
  <2> HIDE DEF v, w
  <2>1. /\ a \in Locals /\ a.status = [s.status EXCEPT ![q] = v] /\ a.answers = s.answers
        /\ a.guaranteed = s.guaranteed /\ a.possibly_initialized = s.possibly_initialized
    BY <1>1, <1>3 DEF Locals
  <2> HIDE DEF a
  <2>2. /\ b \in Locals /\ b.status = a.status /\ b.answers = [a.answers EXCEPT ![q] = w]
        /\ b.guaranteed = a.guaranteed /\ b.possibly_initialized = a.possibly_initialized
    BY <1>3, <2>1 DEF Locals
  <2>3. CASE inherited = "resolved"
    <3>1. Append(s.answers[q], answer) = w /\ v = Outcome(q, answer)
      BY <1>1, <2>3 DEF v, w
    <3>2. u = [s EXCEPT !.status[q] = Outcome(q, answer), !.answers[q] = Append(@, answer)]
      BY <2>3 DEF Resolve
    <3>3. u = b
      BY <3>1, <3>2, <1>1 DEF a, Locals
    <3> QED
      BY <2>1, <2>2, <3>3
  <2>4. CASE inherited # "resolved"
    <3>1. u = a
      BY <2>4 DEF Resolve, a, v
    <3>2. s.answers = [s.answers EXCEPT ![q] = w]
      BY <1>1, <2>4 DEF Locals, w
    <3> QED
      BY <2>1, <3>1, <3>2
  <2> QED
    BY <2>3, <2>4
<1> HIDE DEF v, w, u, t
<1>5. /\ t \in Locals /\ t.status[q] = v /\ t.answers[q] = w
      /\ \A r \in shared : r # q => t.status[r] = s.status[r] /\ t.answers[r] = s.answers[r]
      /\ t.possibly_initialized = s.possibly_initialized \cup {q}
      /\ t.guaranteed = IF conditional THEN s.guaranteed ELSE s.guaranteed \cup {q}
  <2>1. /\ u.status[q] = v /\ u.answers[q] = w
        /\ \A r \in shared : r # q => u.status[r] = s.status[r] /\ u.answers[r] = s.answers[r]
    BY <1>1, <1>4 DEF Locals
  <2>2. /\ t.status = u.status /\ t.answers = u.answers
        /\ t.possibly_initialized = u.possibly_initialized \cup {q}
        /\ t.guaranteed = IF conditional THEN u.guaranteed ELSE u.guaranteed \cup {q}
        /\ t \in Locals
    BY <1>4 DEF t, Record, Locals
  <2>3. t.status[q] = v /\ t.answers[q] = w
    BY <2>1, <2>2
  <2>4. \A r \in shared : r # q => t.status[r] = s.status[r] /\ t.answers[r] = s.answers[r]
    BY <2>1, <2>2
  <2>5. /\ t.possibly_initialized = s.possibly_initialized \cup {q}
        /\ t.guaranteed = IF conditional THEN s.guaranteed ELSE s.guaranteed \cup {q}
    BY <1>4, <2>2
  <2> QED
    BY <2>2, <2>3, <2>4, <2>5
<1>6. ASSUME NEW r \in shared PROVE Settled(t, r)
  <2>1. CASE r = q
    <3>1. Len(q) # 1 => t.status[Front(q)] = s.status[Front(q)]
      BY <1>2, <1>5
    <3>2. Reached(t, q) <=> inherited = "resolved"
      BY <1>2, <3>1 DEF Reached
    <3>3. inherited = "resolved" => \E a \in BOOLEAN : w = <<a>> /\ v = Outcome(q, a)
      BY DEF v, w
    <3>4. inherited # "resolved" => w = << >> /\ v = t.status[Front(q)]
      BY <1>2, <3>1 DEF v, w
    <3> QED
      BY <1>3, <1>5, <2>1, <3>2, <3>3, <3>4 DEF Settled
  <2>2. CASE r # q
    <3>1. t.status[r] = s.status[r] /\ t.answers[r] = s.answers[r]
      BY <1>5, <2>2
    <3>2. r \in t.guaranteed => r \in s.guaranteed
      BY <1>5, <2>2
    <3>3. s.status[r] # "unresolved" /\ Len(r) # 1 =>
            Front(r) # q /\ t.status[Front(r)] = s.status[Front(r)]
      <4>1. s.status[r] # "unresolved" /\ Len(r) # 1 => Front(r) \in shared /\ s.status[Front(r)] # "unresolved"
        BY KnownFront, SharedFront
      <4> QED
        BY <1>5, <4>1
    <3>4. s.status[r] # "unresolved" => (Reached(t, r) <=> Reached(s, r))
      BY <3>3 DEF Reached
    <3>5. ~Reached(s, r) => Len(r) # 1
      BY DEF Reached
    <3> QED
      BY <1>1, <1>5, <3>1, <3>2, <3>3, <3>4, <3>5 DEF Settled
  <2> QED
    BY <2>1, <2>2
<1>7. Keeps(s, t)
  BY <1>5 DEF Keeps
<1>8. Record(Resolve(s, q, answer), q, conditional) = t
  BY DEF t, u
<1> QED
  BY <1>3, <1>5, <1>6, <1>7, <1>8 DEF Consistent

\* Lemma: the code for one prefix of a field, run or not.
LEMMA EnsureOneKeeps ==
  ASSUME PlanOK, NEW s, Consistent(s), NEW q \in shared, NEW conditional \in BOOLEAN,
         NEW runs \in BOOLEAN, NEW answer \in BOOLEAN, ~conditional => runs,
         runs /\ Len(q) # 1 => s.status[Front(q)] # "unresolved"
  PROVE  LET t == EnsureOne(s, q, conditional, runs, answer) IN
         Consistent(t) /\ Keeps(s, t) /\ (runs => t.status[q] # "unresolved")
<1> DEFINE skips == Guarded(s, q, conditional) /\ s.status[q] # "unresolved"
<1>1. s \in Locals /\ Settled(s, q)
  BY DEF Consistent
<1>2. CASE q \in s.guaranteed
  <2>1. EnsureOne(s, q, conditional, runs, answer) = s
    BY <1>2 DEF EnsureOne
  <2>2. s.status[q] # "unresolved"
    BY <1>1, <1>2 DEF Settled
  <2> QED
    BY <2>1, <2>2 DEF Keeps
<1>3. CASE q \notin s.guaranteed /\ runs /\ ~skips
  <2>1. s.status[q] = "unresolved"
    BY <1>1, <1>3 DEF Settled, Guarded
  <2>2. EnsureOne(s, q, conditional, runs, answer) = Record(Resolve(s, q, answer), q, conditional)
    BY <1>3 DEF EnsureOne
  <2> QED
    BY <1>3, <2>1, <2>2, ResolveKeeps
<1>4. CASE q \notin s.guaranteed /\ ~(runs /\ ~skips)
  <2> DEFINE t == Record(s, q, conditional)
  <2>1. EnsureOne(s, q, conditional, runs, answer) = t
    BY <1>4 DEF EnsureOne
  <2>2. /\ t \in Locals /\ t.status = s.status /\ t.answers = s.answers
        /\ t.possibly_initialized = s.possibly_initialized \cup {q}
        /\ t.guaranteed = IF conditional THEN s.guaranteed ELSE s.guaranteed \cup {q}
    BY <1>1 DEF Record, Locals
  <2>3. (runs => s.status[q] # "unresolved") /\ (~conditional => s.status[q] # "unresolved")
    BY <1>4
  <2> HIDE DEF t
  <2>4. ASSUME NEW r \in shared PROVE Settled(t, r)
    <3>1. Settled(s, r)
      BY DEF Consistent
    <3>2. Reached(t, r) <=> Reached(s, r)
      BY <2>2 DEF Reached
    <3> QED
      BY <2>2, <2>3, <3>1, <3>2 DEF Settled
  <2> QED
    BY <2>1, <2>2, <2>3, <2>4 DEF Consistent, Keeps
<1> QED
  BY <1>2, <1>3, <1>4
\* What emit_ensure has come to after k questions of a prefix, from what it was before the last.
EnsureNext(e, prefix, k, conditional, runs, answer) ==
  IF SubSeq(prefix, 1, k) \in shared
    THEN EnsureOne(e, SubSeq(prefix, 1, k), conditional, runs, answer[k])
  ELSE e

EnsuredUpTo(e, m, s, prefix, conditional, runs, answer) ==
  e = [k \in 0 .. m |->
         IF k = 0 THEN s ELSE EnsureNext(e[k - 1], prefix, k, conditional, runs, answer)]

\* Lemma: the questions of a prefix can be gone through one by one.
LEMMA EnsuredExists ==
  ASSUME NEW N \in Nat, NEW s, NEW prefix, NEW conditional, NEW runs, NEW answer
  PROVE  \E e : EnsuredUpTo(e, N, s, prefix, conditional, runs, answer)
<1> DEFINE P(m) == \E e : EnsuredUpTo(e, m, s, prefix, conditional, runs, answer)
           S == {m \in Nat : ~P(m)}
<1>1. ASSUME NEW m \in S, \A n \in S : m <= n PROVE FALSE
  <2>1. m \in Nat /\ ~P(m)
    OBVIOUS
  <2>2. CASE m = 0
    <3> DEFINE e == [k \in 0 .. 0 |-> s]
    <3>1. e = [k \in 0 .. 0 |->
                 IF k = 0 THEN s ELSE EnsureNext(e[k - 1], prefix, k, conditional, runs, answer)]
      OBVIOUS
    <3>2. EnsuredUpTo(e, 0, s, prefix, conditional, runs, answer)
      BY <3>1 DEF EnsuredUpTo
    <3> QED
      BY <2>1, <2>2, <3>2
  <2>3. CASE m # 0
    <3>1. m - 1 \in Nat /\ ~(m <= m - 1)
      BY <2>1, <2>3
    <3>2. P(m - 1)
      <4> HIDE DEF P
      <4> QED
        BY <1>1, <3>1
    <3>3. PICK e : EnsuredUpTo(e, m - 1, s, prefix, conditional, runs, answer)
      BY <3>2
    <3>4. e = [k \in 0 .. m - 1 |->
                 IF k = 0 THEN s ELSE EnsureNext(e[k - 1], prefix, k, conditional, runs, answer)]
      BY <3>3 DEF EnsuredUpTo
    <3> DEFINE d == [k \in 0 .. m |->
                       IF k = m THEN EnsureNext(e[m - 1], prefix, m, conditional, runs, answer)
                       ELSE e[k]]
    <3>5. ASSUME NEW k \in 0 .. m
          PROVE  d[k] = IF k = 0 THEN s
                        ELSE EnsureNext(d[k - 1], prefix, k, conditional, runs, answer)
      <4>1. CASE k = m
        <5>1. d[k - 1] = e[m - 1] /\ k # 0
          BY <2>1, <2>3, <4>1
        <5> QED
          BY <4>1, <5>1
      <4>2. CASE k # m
        <5>1. k \in 0 .. m - 1 /\ d[k] = e[k]
          BY <2>1, <4>2
        <5>2. k # 0 => d[k - 1] = e[k - 1]
          BY <2>1, <4>2
        <5> QED
          BY <3>4, <5>1, <5>2
      <4> QED
        BY <4>1, <4>2
    <3>6. d = [k \in 0 .. m |-> d[k]]
      OBVIOUS
    <3> HIDE DEF d
    <3>7. EnsuredUpTo(d, m, s, prefix, conditional, runs, answer)
      BY <3>5, <3>6 DEF EnsuredUpTo
    <3> QED
      BY <2>1, <3>7
  <2> QED
    BY <2>2, <2>3
<1>2. S # {} => \E m \in S : \A n \in S : m <= n
  <2> HIDE DEF P
  <2> QED
    BY LeastNumber
<1>3. N \notin S
  <2> HIDE DEF S
  <2> QED
    BY <1>1, <1>2
<1> QED
  BY <1>3

\* Lemma: the code for the prefix of a field and what it begins with keeps what is known,
\* and if it runs, the prefix is known afterwards.
LEMMA EnsureKeeps ==
  ASSUME PlanOK, NEW s, Consistent(s), NEW prefix \in shared, NEW conditional \in BOOLEAN,
         NEW runs \in BOOLEAN, ~conditional => runs, NEW answer \in [1 .. Len(prefix) -> BOOLEAN],
         NEW t, t = Ensure(s, prefix, conditional, runs, answer)
  PROVE  Consistent(t) /\ Keeps(s, t) /\ (runs => t.status[prefix] # "unresolved")
<1> DEFINE N == Len(prefix)
           G(e) == EnsuredUpTo(e, N, s, prefix, conditional, runs, answer)
           ensured == CHOOSE e : G(e)
<1>1. /\ N \in Nat \ {0} /\ SubSeq(prefix, 1, N) = prefix
      /\ \A j \in 1 .. N : SubSeq(prefix, 1, j) \in shared /\ Len(SubSeq(prefix, 1, j)) = j
      /\ \A j \in 1 .. N : j > 1 => Front(SubSeq(prefix, 1, j)) = SubSeq(prefix, 1, j - 1)
  BY SharedSegments
<1>2. t = ensured[N]
  BY DEF Ensure, EnsuredUpTo, EnsureNext
<1>3. \E e : G(e)
  <2>1. \A n \in Nat : \E e : EnsuredUpTo(e, n, s, prefix, conditional, runs, answer)
    BY EnsuredExists
  <2> QED
    BY <1>1, <2>1
<1>4. G(ensured)
  <2> HIDE DEF G
  <2> QED
    BY <1>3
<1> HIDE DEF ensured
<1>5. ensured = [k \in 0 .. N |->
        IF k = 0 THEN s ELSE EnsureNext(ensured[k - 1], prefix, k, conditional, runs, answer)]
  BY <1>4 DEF EnsuredUpTo
<1> HIDE DEF N, G
<1>6. ensured[0] = s
  BY <1>1, <1>5
<1>7. ASSUME NEW k \in 1 .. N
      PROVE  ensured[k] = EnsureOne(ensured[k - 1], SubSeq(prefix, 1, k), conditional, runs, answer[k])
  <2>1. ensured[k] = EnsureNext(ensured[k - 1], prefix, k, conditional, runs, answer)
    BY <1>1, <1>5
  <2> QED
    BY <1>1, <2>1 DEF EnsureNext
<1> DEFINE Known(k) == k > 0 => ensured[k].status[SubSeq(prefix, 1, k)] # "unresolved"
           Good(k) == Consistent(ensured[k]) /\ Keeps(s, ensured[k]) /\ (runs => Known(k))
           S == {k \in 0 .. N : ~Good(k)}
<1>8. Good(0)
  BY <1>6 DEF Keeps
<1>9. ASSUME NEW k \in 1 .. N, Good(k - 1) PROVE Good(k)
  <2> DEFINE q == SubSeq(prefix, 1, k)
             u == ensured[k - 1]
             v == ensured[k]
  <2>1. /\ q \in shared /\ Len(q) = k /\ answer[k] \in BOOLEAN
        /\ v = EnsureOne(u, q, conditional, runs, answer[k])
        /\ Consistent(u) /\ Keeps(s, u)
    BY <1>1, <1>7, <1>9 DEF N
  <2>2. runs /\ Len(q) # 1 => u.status[Front(q)] # "unresolved"
    <3>1. Len(q) # 1 => k > 1 /\ k - 1 > 0
      BY <1>1, <2>1
    <3> QED
      BY <1>1, <1>9, <3>1
  <2> HIDE DEF q, u, v
  <2>3. Consistent(v) /\ Keeps(u, v) /\ (runs => v.status[q] # "unresolved")
    BY <2>1, <2>2, EnsureOneKeeps
  <2>4. Keeps(s, v)
    BY <2>1, <2>3 DEF Keeps
  <2> QED
    BY <2>3, <2>4 DEF q, v
<1>10. S = {}
  <2> SUFFICES ASSUME S # {} PROVE FALSE
    OBVIOUS
  <2> HIDE DEF Good
  <2>1. PICK k \in S : \A n \in S : k <= n
    <3>1. S \subseteq Nat
      BY <1>1
    <3> HIDE DEF S
    <3> QED
      BY <3>1, LeastNumber
  <2>2. k \in 0 .. N /\ ~Good(k)
    BY <2>1
  <2>3. k \in 1 .. N /\ k - 1 \in 0 .. N /\ ~(k <= k - 1)
    BY <1>1, <1>8, <2>2
  <2>4. Good(k - 1)
    BY <2>1, <2>3
  <2> QED
    BY <1>9, <2>2, <2>3, <2>4
<1>11. N \in 0 .. N /\ N > 0
  BY <1>1
<1>12. Good(N)
  <2> HIDE DEF Good
  <2> QED
    BY <1>10, <1>11
<1> QED
  BY <1>1, <1>2, <1>11, <1>12

-----------------------------------------------------------------------------
(* What a field is read with. *)

AskedOf(s) == {answers[s][i] : i \in DOMAIN answers[s]}

\* Lemma: what one answer, or none, says.
LEMMA AskedOfOne ==
  ASSUME NEW s, NEW a
  PROVE  /\ answers[s] = <<a>> => AskedOf(s) = {a}
         /\ answers[s] = << >> => AskedOf(s) = {}
<1>1. ASSUME answers[s] = <<a>> PROVE AskedOf(s) = {a}
  <2>1. DOMAIN <<a>> = 1 .. 1 /\ <<a>>[1] = a
    OBVIOUS
  <2>2. DOMAIN answers[s] = {1} /\ answers[s][1] = a
    BY <1>1, <2>1
  <2> QED
    BY <2>2 DEF AskedOf
<1>2. ASSUME answers[s] = << >> PROVE AskedOf(s) = {}
  <2>1. DOMAIN << >> = {}
    OBVIOUS
  <2> QED
    BY <1>2, <2>1 DEF AskedOf
<1> QED
  BY <1>1, <1>2

\* Lemma: what a known prefix begins with is known.
LEMMA SegmentsKnown ==
  ASSUME PlanOK, Consistent(Present), NEW q \in shared, status[q] # "unresolved"
  PROVE  \A k \in 1 .. Len(q) : status[SubSeq(q, 1, k)] # "unresolved"
<1> DEFINE N == Len(q)
           Segment(k) == SubSeq(q, 1, k)
           S == {d \in 0 .. N - 1 : status[Segment(N - d)] = "unresolved"}
<1>1. /\ N \in Nat \ {0} /\ Segment(N) = q
      /\ \A j \in 1 .. N : Segment(j) \in shared /\ Len(Segment(j)) = j
      /\ \A j \in 1 .. N : j > 1 => Front(Segment(j)) = Segment(j - 1)
  BY SharedSegments
<1>2. ASSUME NEW r \in shared, Len(r) # 1, status[r] # "unresolved"
      PROVE  status[Front(r)] # "unresolved"
  BY <1>2, KnownFront DEF Present
<1> HIDE DEF N, Segment
<1>3. ASSUME NEW d \in S, \A e \in S : d <= e PROVE FALSE
  <2>1. d \in 0 .. N - 1 /\ status[Segment(N - d)] = "unresolved"
    BY <1>3
  <2>2. d # 0
    <3>1. N - 0 = N
      BY <1>1
    <3> QED
      BY <1>1, <2>1, <3>1
  <2>3. d - 1 \in 0 .. N - 1 /\ ~(d <= d - 1) /\ d - 1 \notin S
    <3>1. d - 1 \in 0 .. N - 1 /\ ~(d <= d - 1)
      BY <1>1, <2>1, <2>2
    <3> HIDE DEF S
    <3> QED
      BY <1>3, <3>1
  <2> DEFINE j == N - (d - 1)
  <2>4. j \in 1 .. N /\ j > 1 /\ j - 1 = N - d /\ j # 1
    BY <1>1, <2>1, <2>2
  <2>5. status[Segment(j)] # "unresolved"
    BY <2>3
  <2> HIDE DEF j
  <2>6. status[Segment(j - 1)] # "unresolved"
    BY <1>1, <1>2, <2>4, <2>5
  <2> QED
    BY <2>1, <2>4, <2>6
<1>4. S = {}
  <2>1. S \subseteq Nat
    BY <1>1
  <2> HIDE DEF S
  <2> QED
    BY <1>3, <2>1, LeastNumber
<1>5. ASSUME NEW k \in 1 .. N PROVE status[Segment(k)] # "unresolved"
  <2>1. N - k \in 0 .. N - 1 /\ N - (N - k) = k
    BY <1>1
  <2> QED
    BY <1>4, <2>1
<1> QED
  BY <1>5 DEF N, Segment

\* Lemma: a known prefix is what the answers along it come to: they were all given and
\* all positive, or the one that was not is what every longer prefix inherits.
LEMMA KnownIsAlong ==
  ASSUME PlanOK, Consistent(Present), NEW q \in shared, status[q] # "unresolved"
  PROVE  status[q] = Along(q)
<1> DEFINE N == Len(q)
           Segment(k) == SubSeq(q, 1, k)
<1>1. /\ N \in Nat \ {0} /\ Segment(N) = q
      /\ \A j \in 1 .. N : Segment(j) \in shared /\ Len(Segment(j)) = j
      /\ \A j \in 1 .. N : j > 1 => Front(Segment(j)) = Segment(j - 1)
  BY SharedSegments
<1>2. \A k \in 1 .. N : status[Segment(k)] # "unresolved"
  BY SegmentsKnown
<1>3. ASSUME NEW r \in shared, status[r] # "unresolved"
      PROVE  /\ Len(r) = 1 \/ status[Front(r)] = "resolved" =>
                  \E a \in BOOLEAN : answers[r] = <<a>> /\ status[r] = Outcome(r, a)
             /\ ~(Len(r) = 1 \/ status[Front(r)] = "resolved") =>
                  answers[r] = << >> /\ status[r] = status[Front(r)]
  <2>1. Settled(Present, r)
    BY DEF Consistent
  <2> QED
    BY <1>3, <2>1 DEF Settled, Reached, Present
<1>4. \A a \in BOOLEAN, r \in shared : Outcome(r, a) = "resolved" <=> a = TRUE
  BY OutcomeType
<1> HIDE DEF N, Segment
<1> DEFINE AllTrue(k) == \A j \in 1 .. k : answers[Segment(j)] = <<TRUE>>
           OneFalse(k) == \E j \in 1 .. k :
             /\ answers[Segment(j)] = <<FALSE>> /\ status[Segment(k)] = Outcome(Segment(j), FALSE)
             /\ \A i \in 1 .. k : i # j => answers[Segment(i)] \in {<<TRUE>>, << >>}
           Good(k) == IF status[Segment(k)] = "resolved" THEN AllTrue(k) ELSE OneFalse(k)
           S == {k \in 1 .. N : ~Good(k)}
<1>5. ASSUME NEW k \in 1 .. N, k = 1 \/ (status[Segment(k - 1)] = "resolved" /\ AllTrue(k - 1))
      PROVE  Good(k)
  <2>1. PICK a \in BOOLEAN : answers[Segment(k)] = <<a>> /\ status[Segment(k)] = Outcome(Segment(k), a)
    <3>1. Segment(k) \in shared /\ status[Segment(k)] # "unresolved" /\ Len(Segment(k)) = k
      BY <1>1, <1>2
    <3>2. k # 1 => k > 1 /\ Front(Segment(k)) = Segment(k - 1)
      BY <1>1
    <3> QED
      BY <1>3, <1>5, <3>1, <3>2
  <2>2. \A j \in 1 .. k : j # k => answers[Segment(j)] = <<TRUE>>
    <3>1. ASSUME NEW j \in 1 .. k, j # k PROVE k # 1 /\ j \in 1 .. k - 1
      BY <3>1
    <3> QED
      BY <1>5, <3>1
  <2>3. k \in 1 .. k
    OBVIOUS
  <2>4. CASE a = TRUE
    <3>1. status[Segment(k)] = "resolved"
      BY <1>1, <1>4, <2>1, <2>4
    <3> QED
      BY <2>1, <2>2, <2>4, <3>1
  <2>5. CASE a = FALSE
    <3>1. status[Segment(k)] # "resolved"
      BY <1>1, <1>4, <2>1, <2>5
    <3>2. OneFalse(k)
      BY <2>1, <2>2, <2>3, <2>5
    <3> QED
      BY <3>1, <3>2
  <2> QED
    BY <2>4, <2>5
<1>6. ASSUME NEW k \in 1 .. N, k # 1, status[Segment(k - 1)] # "resolved", OneFalse(k - 1)
      PROVE  Good(k)
  <2>1. k > 1 /\ k - 1 \in 1 .. k
    BY <1>1, <1>6
  <2>2. answers[Segment(k)] = << >> /\ status[Segment(k)] = status[Segment(k - 1)]
    <3>1. Segment(k) \in shared /\ status[Segment(k)] # "unresolved" /\ Len(Segment(k)) = k
      BY <1>1, <1>2
    <3>2. Front(Segment(k)) = Segment(k - 1)
      BY <1>1, <2>1
    <3> QED
      BY <1>3, <1>6, <3>1, <3>2
  <2>3. PICK j \in 1 .. k - 1 :
          /\ answers[Segment(j)] = <<FALSE>> /\ status[Segment(k - 1)] = Outcome(Segment(j), FALSE)
          /\ \A i \in 1 .. k - 1 : i # j => answers[Segment(i)] \in {<<TRUE>>, << >>}
    BY <1>6
  <2>4. ASSUME NEW i \in 1 .. k, i # j PROVE answers[Segment(i)] \in {<<TRUE>>, << >>}
    <3>1. i = k \/ i \in 1 .. k - 1
      OBVIOUS
    <3> QED
      BY <2>2, <2>3, <2>4, <3>1
  <2>5. j \in 1 .. k
    BY <2>1
  <2> QED
    BY <1>6, <2>2, <2>3, <2>4, <2>5
<1>7. S = {}
  <2> SUFFICES ASSUME S # {} PROVE FALSE
    OBVIOUS
  <2> HIDE DEF Good
  <2>1. S \subseteq Nat
    BY <1>1
  <2>2. PICK k \in S : \A n \in S : k <= n
    <3> HIDE DEF S
    <3> QED
      BY <2>1, LeastNumber
  <2>3. k \in 1 .. N /\ ~Good(k)
    BY <2>2
  <2>4. k # 1
    BY <1>5, <2>3
  <2>5. k - 1 \in 1 .. N /\ ~(k <= k - 1)
    BY <1>1, <2>3, <2>4
  <2>6. Good(k - 1)
    BY <2>2, <2>5
  <2> HIDE DEF AllTrue, OneFalse
  <2> QED
    BY <1>5, <1>6, <2>3, <2>4, <2>6 DEF Good
<1>8. N \in 1 .. N
  BY <1>1
<1>9. Good(N)
  <2> HIDE DEF Good
  <2> QED
    BY <1>7, <1>8
<1> DEFINE all == {SubSeq(q, 1, k) : k \in 1 .. Len(q)}
           failed == {s \in all : FALSE \in AskedOf(s)}
<1>10. all = {Segment(k) : k \in 1 .. N}
  BY DEF Segment, N
<1>11. Along(q) = IF failed # {} THEN Outcome(CHOOSE s \in failed : TRUE, FALSE)
                  ELSE IF \A s \in all : AskedOf(s) = {TRUE} THEN "resolved" ELSE "unresolved"
  BY DEF Along, AskedOf
<1>12. \A r, a : /\ answers[r] = <<a>> => AskedOf(r) = {a}
                 /\ answers[r] = << >> => AskedOf(r) = {}
  BY AskedOfOne
<1> HIDE DEF all
<1>13. CASE status[q] = "resolved"
  <2>1. \A s \in all : AskedOf(s) = {TRUE}
    <3>1. AllTrue(N)
      BY <1>1, <1>9, <1>13
    <3>2. ASSUME NEW k \in 1 .. N PROVE AskedOf(Segment(k)) = {TRUE}
      <4>1. answers[Segment(k)] = <<TRUE>>
        BY <3>1
      <4> QED
        BY <1>12, <4>1
    <3> QED
      BY <1>10, <3>2
  <2>2. failed = {}
    BY <2>1
  <2> HIDE DEF failed
  <2> QED
    BY <1>11, <1>13, <2>1, <2>2
<1>14. CASE status[q] # "resolved"
  <2>1. PICK j \in 1 .. N :
          /\ answers[Segment(j)] = <<FALSE>> /\ status[Segment(N)] = Outcome(Segment(j), FALSE)
          /\ \A i \in 1 .. N : i # j => answers[Segment(i)] \in {<<TRUE>>, << >>}
    BY <1>1, <1>9, <1>14
  <2>2. Segment(j) \in failed
    <3>1. AskedOf(Segment(j)) = {FALSE}
      BY <1>12, <2>1
    <3>2. FALSE \in AskedOf(Segment(j)) /\ Segment(j) \in all
      BY <1>10, <3>1
    <3> QED
      BY <3>2
  <2>3. ASSUME NEW s \in failed PROVE s = Segment(j)
    <3>1. PICK i \in 1 .. N : s = Segment(i)
      BY <1>10
    <3>2. i # j => FALSE \notin AskedOf(Segment(i))
      BY <1>12, <2>1
    <3> QED
      BY <2>3, <3>1, <3>2
  <2> HIDE DEF failed
  <2>4. failed # {} /\ (CHOOSE s \in failed : TRUE) = Segment(j)
    BY <2>2, <2>3
  <2> QED
    BY <1>1, <1>11, <2>1, <2>4
<1> QED
  BY <1>13, <1>14

\* Lemma: the invariant is what the fields must be read with.
LEMMA PrefixInvResolvedOnce == PrefixInv => PrefixesAreResolvedOnce
<1> SUFFICES ASSUME PrefixInv PROVE PrefixesAreResolvedOnce
  OBVIOUS
<1>1. ASSUME NEW q \in shared PROVE Len(answers[q]) <= 1
  <2>1. Settled(Present, q)
    BY DEF PrefixInv, Consistent
  <2>2. answers[q] = << >> \/ \E a \in BOOLEAN : answers[q] = <<a>>
    BY <2>1 DEF Settled, Present
  <2>3. Len(<< >>) <= 1 /\ \A a \in BOOLEAN : Len(<<a>>) <= 1
    OBVIOUS
  <2> QED
    BY <2>2, <2>3
<1>2. ASSUME NEW f \in Polled, given[f] # "nothing"
      PROVE  given[f] # "unresolved" /\ given[f] = Along(fields[f])
  BY <1>2, KnownIsAlong DEF PrefixInv, GivenOK
<1> QED
  BY <1>1, <1>2 DEF PrefixesAreResolvedOnce

-----------------------------------------------------------------------------
(* The steps. *)

\* Lemma: before the poll nothing is known, and the plan is what the compiler made.
LEMMA PrefixInitInv == PrefixInit => PrefixInv
<1> SUFFICES ASSUME PrefixInit PROVE PrefixInv
  OBVIOUS
<1>1. shared = SharedPrefixes /\ path \in [Polled -> Paths]
  BY DEF PrefixInit
<1>2. ASSUME NEW f \in Polled, fields[f] # << >> PROVE fields[f] \in shared
  <2>1. fields[f] = LongestOf(f, shared)
    BY DEF PrefixInit
  <2>2. path[f] \in Seq(Range(path[f]))
    BY <1>1, PrefixAssumption
  <2> QED
    BY <1>2, <2>1, <2>2, LongestShared
<1>3. PlanOK
  BY <1>1, <1>2 DEF PlanOK
<1>4. /\ Present.guaranteed = {} /\ Present.possibly_initialized = {}
      /\ Present.status = [q \in shared |-> "unresolved"]
      /\ Present.answers = [q \in shared |-> << >>]
  BY DEF PrefixInit, Present
<1>5. Present \in Locals
  <2>1. << >> \in Seq(BOOLEAN) /\ "unresolved" \in Statuses
    BY DEF Statuses
  <2> QED
    BY <2>1 DEF PrefixInit, Present, Locals
<1>6. Consistent(Present)
  BY <1>4, <1>5 DEF Consistent, Settled
<1>7. GivenOK /\ given \in [Polled -> Statuses \cup {"nothing"}] /\ next \in Nat \ {0}
  BY DEF PrefixInit, GivenOK
<1> QED
  BY <1>3, <1>6, <1>7 DEF PrefixInv

\* Lemma: the plan is made once.
LEMMA PlanStays == PlanOK /\ UNCHANGED program => PlanOK'
<1> SUFFICES ASSUME PlanOK, UNCHANGED program PROVE PlanOK'
  OBVIOUS
<1>1. /\ path' = path /\ alternatives' = alternatives /\ shared' = shared /\ fields' = fields
  BY DEF program
<1>2. \A x : x \in Costly' <=> x \in Costly
  BY <1>1 DEF Costly
<1>3. \A f, g \in Polled : CanShare(f, g)' <=> CanShare(f, g)
  BY <1>1 DEF CanShare
<1>4. \A x : x \in SharedPrefixes' <=> x \in SharedPrefixes
  BY <1>1, <1>2, <1>3 DEF SharedPrefixes
<1>5. SharedPrefixes' = SharedPrefixes
  BY <1>4
<1> QED
  BY <1>1, <1>5 DEF PlanOK

\* Lemma: so do the locals when nothing is asked for.
LEMMA LocalsStay ==
  Consistent(Present) /\ UNCHANGED <<program, guaranteed, possibly_initialized, status, answers>> =>
    Consistent(Present)'
<1> SUFFICES ASSUME Consistent(Present),
                    UNCHANGED <<program, guaranteed, possibly_initialized, status, answers>>
             PROVE  Consistent(Present)'
  OBVIOUS
<1>1. Present' = Present /\ shared' = shared
  BY DEF Present, program
<1>2. Present \in Locals /\ \A q \in shared : Settled(Present, q)
  BY DEF Consistent
<1>3. Present' \in Locals'
  BY <1>1, <1>2 DEF Locals
<1>4. ASSUME NEW q \in shared PROVE Settled(Present, q)'
  BY <1>1, <1>2 DEF Settled, Reached, Outcome, IsModule
<1> QED
  BY <1>1, <1>3, <1>4 DEF Consistent

\* Lemma: polling a field keeps the invariant.
LEMMA PollFieldKeeps == PrefixInv /\ PollField => PrefixInv'
<1> SUFFICES ASSUME PrefixInv, PollField PROVE PrefixInv'
  OBVIOUS
<1> DEFINE f == Order[next]
<1>1. /\ UNCHANGED program /\ next' \in Nat \ {0}
      /\ given \in [Polled -> Statuses \cup {"nothing"}]
  BY DEF PrefixInv, PollField
<1>2. f \in Polled
  <2>1. next \in 1 .. Len(Order)
    BY DEF PrefixInv, PollField
  <2> QED
    BY <2>1, PrefixAssumption
<1>3. PlanOK'
  BY <1>1, PlanStays DEF PrefixInv
<1>4. CASE fields[f] = << >>
  <2>1. UNCHANGED <<guaranteed, possibly_initialized, status, answers, given>>
    BY <1>4 DEF PollField
  <2>2. Consistent(Present)'
    BY <1>1, <2>1, LocalsStay DEF PrefixInv
  <2>3. GivenOK'
    BY <1>1, <2>1 DEF PrefixInv, GivenOK, program
  <2> QED
    BY <1>1, <1>3, <2>1, <2>2, <2>3 DEF PrefixInv
<1>5. CASE fields[f] # << >>
  <2> DEFINE prefix == fields[f]
             conditional == alternatives[f] # {}
             runs == Exists(f)
  <2>1. PICK answer \in [1 .. Len(prefix) -> BOOLEAN] :
          LET s == Ensure(Present, prefix, conditional, runs, answer) IN
          /\ guaranteed' = s.guaranteed /\ possibly_initialized' = s.possibly_initialized
          /\ status' = s.status /\ answers' = s.answers
          /\ given' = [given EXCEPT ![f] = IF runs THEN s.status[prefix] ELSE @]
    BY <1>5 DEF PollField, Present
  <2> DEFINE t == Ensure(Present, prefix, conditional, runs, answer)
  <2>2. /\ guaranteed' = t.guaranteed /\ possibly_initialized' = t.possibly_initialized
        /\ status' = t.status /\ answers' = t.answers
        /\ given' = [given EXCEPT ![f] = IF runs THEN t.status[prefix] ELSE @]
    BY <2>1
  <2>3. prefix \in shared /\ conditional \in BOOLEAN /\ runs \in BOOLEAN /\ (~conditional => runs)
    BY <1>2, <1>5 DEF PrefixInv, PlanOK, Exists
  <2> HIDE DEF t, prefix, conditional, runs
  <2>4. Consistent(t) /\ Keeps(Present, t) /\ (runs => t.status[prefix] # "unresolved")
    <3>1. PlanOK /\ Consistent(Present) /\ t = Ensure(Present, prefix, conditional, runs, answer)
      BY DEF PrefixInv, t
    <3> QED
      BY <2>3, <3>1, EnsureKeeps
  <2>5. Consistent(Present)'
    <3>1. t \in Locals /\ \A q \in shared : Settled(t, q)
      BY <2>4 DEF Consistent
    <3>2. Present' = t
      BY <2>2, <3>1 DEF Present, Locals
    <3>3. shared' = shared
      BY <1>1 DEF program
    <3>4. Present' \in Locals'
      BY <3>1, <3>2, <3>3 DEF Locals
    <3>5. ASSUME NEW q \in shared PROVE Settled(Present, q)'
      BY <3>1, <3>2 DEF Settled, Reached, Outcome, IsModule
    <3> QED
      BY <3>3, <3>4, <3>5 DEF Consistent
  <2>6. ASSUME NEW g \in Polled, given'[g] # "nothing"
        PROVE  given'[g] # "unresolved" /\ fields[g] \in shared /\ given'[g] = status'[fields[g]]
    <3>1. CASE g = f /\ runs
      <4>1. given'[g] = t.status[prefix]
        BY <1>1, <1>2, <2>2, <3>1
      <4> QED
        BY <2>2, <2>3, <2>4, <3>1, <4>1 DEF prefix
    <3>2. CASE ~(g = f /\ runs)
      <4>1. given'[g] = given[g]
        BY <1>1, <1>2, <2>2, <3>2
      <4>2. given[g] # "unresolved" /\ fields[g] \in shared /\ given[g] = status[fields[g]]
        BY <2>6, <4>1 DEF PrefixInv, GivenOK
      <4>3. t.status[fields[g]] = status[fields[g]]
        BY <2>4, <4>2 DEF Keeps, Present
      <4> QED
        BY <2>2, <4>1, <4>2, <4>3
    <3> QED
      BY <3>1, <3>2
  <2>7. GivenOK'
    BY <1>1, <2>6 DEF GivenOK, program
  <2>8. given' \in [Polled -> Statuses \cup {"nothing"}]
    <3>1. t.status[prefix] \in Statuses
      BY <2>3, <2>4 DEF Consistent, Locals
    <3> QED
      BY <1>1, <1>2, <2>2, <3>1
  <2> QED
    BY <1>1, <1>3, <2>5, <2>7, <2>8 DEF PrefixInv
<1> QED
  BY <1>4, <1>5

\* Theorem: whatever the fields, their paths and what they are conditional on, each shared
\* lookup is asked for at most once in a poll, and every field that exists is read with what
\* the answers along its own path come to, never with a local that nothing has written.
THEOREM ResolvedOnce == PrefixSpec => []PrefixesAreResolvedOnce
<1>1. PrefixInit => PrefixInv
  BY PrefixInitInv
<1>2. PrefixInv /\ [PollField]_prefixVars => PrefixInv'
  <2> SUFFICES ASSUME PrefixInv, UNCHANGED prefixVars PROVE PrefixInv'
    BY PollFieldKeeps
  <2>1. /\ UNCHANGED <<program, guaranteed, possibly_initialized, status, answers>>
        /\ UNCHANGED <<next, given, shared, fields>>
    BY DEF prefixVars, program
  <2>2. PlanOK' /\ Consistent(Present)'
    BY <2>1, PlanStays, LocalsStay DEF PrefixInv
  <2> QED
    BY <2>1, <2>2 DEF PrefixInv, GivenOK
<1>3. PrefixInv => PrefixesAreResolvedOnce
  BY PrefixInvResolvedOnce
<1> QED
  BY <1>1, <1>2, <1>3, PTL DEF PrefixSpec

-----------------------------------------------------------------------------
(* The selection of a process. *)

\* A candidate is held exactly while selectProcess is asked about it, and the
\* list is tried front to back.
StepInv ==
  /\ pc \in {"attach", "size", "list", "loop"} => process = None
  /\ pc = "select" => /\ process # None /\ index \in 1 .. Len(candidates)
                      /\ candidates[index] \in tried
  /\ pc \in {"loop", "select"} =>
       \A i \in 1 .. Len(candidates) : i < index => candidates[i] \in tried
  /\ process = None <=> process_name = None

IInv == TypeOK /\ NoHandleLeaked /\ ListFitsMemory /\ StepInv

USE ConstantsAssumption

LEMMA NamedCount ==
  ASSUME running \subseteq Pids, NEW n
  PROVE  Cardinality(Named(n)) \in Nat
  BY FS_Subset, FS_CardinalityType DEF Named

\* Rounding up to whole pages leaves room for the whole list.
LEMMA PagesSuffice ==
  ASSUME NEW count \in Nat
  PROVE  /\ required_pages(count) \in Nat
         /\ list_pointer + Bytes * count <= required_pages(count) * PageBytes
  <1> DEFINE last == Bytes * count + list_pointer - 1
  <1>1. last \in Nat
    BY DEF Bytes
  <1>2. last \div PageBytes \in Nat /\ last < PageBytes * (last \div PageBytes + 1)
    BY <1>1
  <1> QED
    BY <1>1, <1>2 DEF required_pages, Bytes

LEMMA InitIInv == Init => IInv
  <1> SUFFICES ASSUME Init PROVE IInv
    OBVIOUS
  <1>1. TypeOK
    <2>1. candidates \in Seq(Pids) /\ InitialPages \in InitialPages .. MaxPages
      BY DEF Init
    <2>2. 1 \in 1 .. NameCount
      OBVIOUS
    <2> QED
      BY <2>1, <2>2 DEF Init, TypeOK
  <1>2. NoHandleLeaked /\ ListFitsMemory /\ StepInv
    BY DEF Init, NoHandleLeaked, ListFitsMemory, StepInv
  <1> QED
    BY <1>1, <1>2 DEF IInv

\* Attaching to a candidate takes its one handle; detaching gives it back.
LEMMA AttachTakesOne ==
  ASSUME TypeOK, NoHandleLeaked, process = None, NEW p \in Pids, AttachTo(p)
  PROVE  /\ handles' \in [Pids -> Nat] /\ NoHandleLeaked'
         /\ process' = p /\ process_name' = name /\ p # None
  <1>1. handles' \in [Pids -> Nat]
    BY DEF TypeOK, AttachTo
  <1>2. process' = p /\ process_name' = name /\ p # None
    BY DEF AttachTo
  <1>3. \A q \in Pids : handles[q] = 0
    BY DEF NoHandleLeaked
  <1>4. \A q \in Pids : handles'[q] = IF q = p THEN 1 ELSE 0
    BY <1>3 DEF TypeOK, AttachTo
  <1> QED
    BY <1>1, <1>2, <1>4 DEF NoHandleLeaked

LEMMA DetachGivesBack ==
  ASSUME TypeOK, NoHandleLeaked, process # None, process' = None,
         handles' = [handles EXCEPT ![process] = @ - 1]
  PROVE  handles' \in [Pids -> Nat] /\ NoHandleLeaked'
  <1>1. process \in Pids /\ handles[process] = 1
    BY DEF TypeOK, NoHandleLeaked
  <1>2. \A p \in Pids : handles'[p] = 0
    BY <1>1 DEF TypeOK, NoHandleLeaked
  <1>3. handles' \in [Pids -> Nat]
    BY <1>1 DEF TypeOK
  <1> QED
    BY <1>2, <1>3 DEF NoHandleLeaked

LEMMA TimesMonotone ==
  ASSUME NEW a \in Nat, NEW b \in Nat, NEW c \in Nat, a <= b
  PROVE  a * c <= b * c
  <1>1. b = a + (b - a) /\ b - a \in Nat
    OBVIOUS
  <1>2. (a + (b - a)) * c = a * c + (b - a) * c /\ (b - a) * c \in Nat
    OBVIOUS
  <1> QED
    BY <1>1, <1>2

\* More pages than required leave room for the list too.
LEMMA RoomGrows ==
  ASSUME NEW count \in Nat, NEW n \in Nat, required_pages(count) <= n
  PROVE  list_pointer + Bytes * count <= n * PageBytes
  <1>1. /\ required_pages(count) \in Nat
        /\ list_pointer + Bytes * count <= required_pages(count) * PageBytes
    BY PagesSuffice
  <1>2. required_pages(count) * PageBytes <= n * PageBytes
    <2> DEFINE required == required_pages(count)
    <2>1. required \in Nat /\ required <= n /\ PageBytes \in Nat
      BY <1>1
    <2> HIDE DEF required
    <2>2. required * PageBytes <= n * PageBytes
      BY ONLY <2>1, n \in Nat, TimesMonotone
    <2> QED
      BY <2>2 DEF required
  <1> DEFINE list == list_pointer + Bytes * count
  <1> DEFINE have == required_pages(count) * PageBytes
  <1> DEFINE room == n * PageBytes
  <1>3. list \in Nat /\ have \in Nat /\ room \in Nat
    BY <1>1 DEF Bytes
  <1> HIDE DEF list, have, room
  <1>4. list <= have /\ have <= room
    BY <1>1, <1>2 DEF list, have, room
  <1>5. list <= room
    BY ONLY <1>3, <1>4
  <1> QED
    BY <1>5 DEF list, room

USE DEF IInv, TypeOK, NoHandleLeaked, ListFitsMemory, StepInv, Local

\* Giving up a name changes nothing but the name and the step.
LEMMA NextNamePreserves ==
  ASSUME IInv, NextName, process = None,
         UNCHANGED <<has_selector, running, handles, pages, process, process_name, Local>>
  PROVE  IInv'
  <1>1. name' \in 1 .. NameCount /\ pc' \in {"size", "attach", "host"}
    BY DEF NextName
  <1>2. TypeOK'
    BY <1>1
  <1>3. NoHandleLeaked' /\ ListFitsMemory' /\ StepInv'
    BY <1>1
  <1> QED
    BY <1>2, <1>3

\* Moving on from a candidate that was tried keeps the list's prefix tried.
LEMMA PrefixTried ==
  ASSUME IInv, pc \in {"loop", "select"}, NEW T, tried \subseteq T,
         index \in 1 .. Len(candidates), candidates[index] \in T
  PROVE  \A i \in 1 .. Len(candidates) : i < index + 1 => candidates[i] \in T
  <1> SUFFICES ASSUME NEW i \in 1 .. Len(candidates), i < index + 1
               PROVE  candidates[i] \in T
    OBVIOUS
  <1>1. i = index \/ i < index
    BY ONLY i < index + 1, i \in 1 .. Len(candidates), index \in 1 .. Len(candidates)
  <1>2. CASE i < index
    <2>1. candidates[i] \in tried
      BY <1>2
    <2> QED
      BY <2>1
  <1> QED
    BY <1>1, <1>2

LEMMA NextPreserves == IInv /\ [Next]_vars => IInv'
  <1> SUFFICES ASSUME IInv, [Next]_vars PROVE IInv'
    OBVIOUS
  <1>0. UNCHANGED has_selector
    BY DEF Next, Environment, Update, vars
  <1> USE <1>0
  <1>1. CASE \E p \in Pids : StartProcess(p)
    BY <1>1 DEF StartProcess
  <1>2. CASE \E p \in Pids : ExitProcess(p)
    BY <1>2 DEF ExitProcess
  <1>3. CASE ReleaseClosed
    <2>1. handles' \in [Pids -> Nat] /\ NoHandleLeaked'
      BY <1>3, DetachGivesBack DEF ReleaseClosed
    <2> QED
      BY <1>3, <2>1 DEF ReleaseClosed
  <1>4. CASE BeginUpdate
    BY <1>4 DEF BeginUpdate
  <1>5. CASE AttachByName
    <2>1. process = None
      BY <1>5 DEF AttachByName
    <2>2. CASE Named(name) # {}
      <3> PICK p \in Named(name) : AttachTo(p)
        BY <1>5, <2>2 DEF AttachByName
      <3>1. p \in Pids
        BY DEF Named
      <3>2. /\ handles' \in [Pids -> Nat] /\ NoHandleLeaked'
            /\ process' = p /\ process_name' = name /\ p # None
        BY <2>1, <3>1, AttachTakesOne
      <3> QED
        <4>1. /\ pc' = "host" /\ UNCHANGED <<running, pages, name, Local>>
          BY <1>5, <2>2 DEF AttachByName
        <4>2. process' \in Pids \cup {None} /\ process_name' \in 1 .. NameCount
          BY <3>1, <3>2
        <4>3. TypeOK'
          BY ONLY TypeOK, UNCHANGED has_selector, <3>2, <4>1, <4>2 DEF TypeOK, Local
        <4>4. process_name' # None
          BY ONLY ConstantsAssumption, <4>2 DEF ConstantsAssumption
        <4>5. ListFitsMemory' /\ StepInv'
          BY ONLY <3>2, <4>1, <4>4 DEF ListFitsMemory, StepInv
        <4> QED
          BY <3>2, <4>3, <4>5
    <2>3. CASE Named(name) = {}
      <3>1. NextName /\ UNCHANGED <<running, handles, pages, process, process_name, Local>>
        BY <1>5, <2>3 DEF AttachByName
      <3> QED
        BY ONLY IInv, UNCHANGED has_selector, <2>1, <3>1, NextNamePreserves, ConstantsAssumption
    <2> QED
      BY <2>2, <2>3
  <1>6. CASE QuerySize
    <2>1. capacity' \in Nat /\ capacity' = Cardinality(Named(name))
      BY <1>6, NamedCount DEF QuerySize
    <2>2. CASE capacity' > maximum_count /\ NextName /\ UNCHANGED pages
      <3>1. /\ UNCHANGED <<running, handles, pages, process, process_name, candidates,
                            index, tried>>
            /\ process = None /\ pc' \in {"size", "attach", "host"}
            /\ name' \in 1 .. NameCount
        BY <1>6, <2>2 DEF QuerySize, NextName
      <3>2. TypeOK'
        BY ONLY TypeOK, UNCHANGED has_selector, <2>1, <3>1 DEF TypeOK
      <3>3. NoHandleLeaked' /\ ListFitsMemory' /\ StepInv'
        BY ONLY NoHandleLeaked, StepInv, <3>1 DEF NoHandleLeaked, ListFitsMemory, StepInv
      <3> QED
        BY <3>2, <3>3
    <2>3. CASE pc' = "host" /\ UNCHANGED <<pages, name>>
      BY <1>6, <2>1, <2>3 DEF QuerySize
    <2>4. CASE /\ required_pages(capacity') <= MaxPages
               /\ pages' = IF required_pages(capacity') > pages
                             THEN required_pages(capacity') ELSE pages
               /\ pc' = "list" /\ UNCHANGED name
      <3> DEFINE required == required_pages(capacity')
      <3>1. required \in Nat /\ list_pointer + Bytes * capacity' <= required * PageBytes
        BY <2>1, PagesSuffice
      <3>2. pages' \in InitialPages .. MaxPages /\ required <= pages'
        <4>1. pages \in InitialPages .. MaxPages /\ InitialPages \in Nat /\ MaxPages \in Nat
          BY ConstantsAssumption
        <4>2. required \in Nat /\ required <= MaxPages
          BY ONLY <2>4, <3>1
        <4>3. pages' = IF required > pages THEN required ELSE pages
          BY ONLY <2>4
        <4> HIDE DEF required
        <4> QED
          BY ONLY <4>1, <4>2, <4>3
      <3>3. pages' \in Nat
        BY <3>2, ConstantsAssumption
      <3>4. list_pointer + Bytes * capacity' <= pages' * PageBytes
        BY <2>1, <3>2, <3>3, RoomGrows
      <3> QED
        BY <1>6, <2>1, <2>4, <3>2, <3>4 DEF QuerySize
    <2> QED
      BY <1>6, <2>1, <2>2, <2>3, <2>4 DEF QuerySize
  <1>7. CASE QueryFails
    <2>1. /\ NextName /\ process = None
          /\ UNCHANGED <<running, handles, pages, process, process_name, Local>>
      BY <1>7 DEF QueryFails
    <2> QED
      BY ONLY IInv, UNCHANGED has_selector, <2>1, NextNamePreserves, ConstantsAssumption
  <1>8. CASE QueryList
    <2>1. CASE Cardinality(Named(name)) > capacity
      <3>1. /\ NextName /\ process = None
            /\ UNCHANGED <<running, handles, pages, process, process_name, Local>>
        BY <1>8, <2>1 DEF QueryList
      <3> QED
        BY ONLY IInv, UNCHANGED has_selector, <3>1, NextNamePreserves, ConstantsAssumption
    <2>2. CASE ~(Cardinality(Named(name)) > capacity)
      <3> DEFINE count == Cardinality(Named(name))
      <3>1. count \in Nat /\ count <= capacity
        <4>1. count \in Nat
          BY NamedCount
        <4> QED
          BY ONLY <2>2, <4>1, capacity \in Nat
      <3>2. /\ candidates' \in [1 .. count -> Named(name)]
            /\ index' = 1 /\ tried' = {} /\ pc' = "loop" /\ UNCHANGED name
        BY <1>8, <2>2 DEF QueryList, Orders
      <3>3. candidates' \in Seq(Pids) /\ Len(candidates') = count
        <4>1. Named(name) \subseteq Pids
          BY DEF Named
        <4>2. candidates' \in [1 .. count -> Pids]
          BY <3>2, <4>1
        <4> HIDE DEF count
        <4> QED
          BY ONLY <3>1, <4>2
      <3>4. \A i \in 1 .. Len(candidates') : ~(i < 1)
        BY <3>1, <3>3
      <3>5. UNCHANGED <<running, handles, pages, process, process_name, capacity>>
            /\ process = None
        BY <1>8 DEF QueryList
      <3>6. TypeOK'
        BY ONLY TypeOK, UNCHANGED has_selector, <3>2, <3>3, <3>5 DEF TypeOK
      <3>7. NoHandleLeaked'
        BY ONLY NoHandleLeaked, <3>5 DEF NoHandleLeaked
      <3>8. ListFitsMemory'
        <4>1. pc = "list"
          BY <1>8 DEF QueryList
        <4>2. list_pointer + Bytes * capacity <= pages * PageBytes
          BY <4>1
        <4>3. Len(candidates') <= capacity' /\ capacity' = capacity /\ pages' = pages
          BY ONLY <3>1, <3>3, <3>5
        <4> QED
          BY ONLY <4>2, <4>3 DEF ListFitsMemory
      <3>9. StepInv'
        BY ONLY StepInv, <3>2, <3>4, <3>5 DEF StepInv
      <3> QED
        BY <3>6, <3>7, <3>8, <3>9
    <2> QED
      BY <2>1, <2>2
  <1>9. CASE TryCandidate
    <2> DEFINE p == candidates[index]
    <2>1. index \in 1 .. Len(candidates) /\ process = None
      BY <1>9 DEF TryCandidate
    <2>4. p \in Pids
      BY <2>1
    <2>2. CASE p \in running
      <3>1. /\ handles' \in [Pids -> Nat] /\ NoHandleLeaked'
            /\ process' = p /\ process_name' = name /\ p # None
        BY <1>9, <2>1, <2>2, <2>4, AttachTakesOne DEF TryCandidate
      <3> QED
        <4>1. /\ tried' = tried \cup {p} /\ pc' = "select" /\ pc = "loop"
              /\ UNCHANGED <<running, pages, name, capacity, candidates, index>>
          BY <1>9, <2>2 DEF TryCandidate
        <4>8. tried' \subseteq Pids
          BY <2>4, <4>1
        <4>9. process' \in Pids \cup {None} /\ process_name' \in 1 .. NameCount \cup {None}
          BY <2>4, <3>1
        <4>2. TypeOK'
          BY ONLY TypeOK, UNCHANGED has_selector, <3>1, <4>1, <4>8, <4>9 DEF TypeOK
        <4>7. name \in Nat /\ name # None
          OBVIOUS
        <4>6. process' # None /\ process_name' # None
          BY ONLY <3>1, <4>7
        <4>3. index' \in 1 .. Len(candidates') /\ candidates'[index'] \in tried'
          BY <2>1, <4>1
        <4>4. \A i \in 1 .. Len(candidates') : i < index' => candidates'[i] \in tried'
          BY <4>1
        <4>5. StepInv'
          BY <4>1, <4>3, <4>4, <4>6
        <4> QED
          BY <3>1, <4>1, <4>2, <4>5
    <2>3. CASE p \notin running
      <3>1. /\ index' = index + 1 /\ tried' = tried \cup {p}
            /\ UNCHANGED <<running, handles, pages, process, process_name, pc, name,
                            capacity, candidates>>
        BY <1>9, <2>3 DEF TryCandidate
      <3>2. \A i \in 1 .. Len(candidates') : i < index' => candidates'[i] \in tried'
        BY <1>9, <2>1, <3>1, PrefixTried DEF TryCandidate
      <3>3. TypeOK'
        <4>1. index' \in Nat \ {0}
          BY <3>1
        <4>2. tried' \subseteq Pids
          BY <2>4, <3>1
        <4> QED
          BY ONLY TypeOK, UNCHANGED has_selector, <3>1, <4>1, <4>2 DEF TypeOK
      <3> QED
        BY <1>9, <2>1, <3>1, <3>2, <3>3 DEF TryCandidate
    <2> QED
      BY <2>2, <2>3
  <1>10. CASE PromoteCandidate
    BY <1>10 DEF PromoteCandidate
  <1>11. CASE RejectCandidate
    <2>1. handles' \in [Pids -> Nat] /\ NoHandleLeaked'
      BY <1>11, DetachGivesBack DEF RejectCandidate
    <2>2. /\ process' = None /\ process_name' = None /\ index' = index + 1
          /\ pc' = "loop" /\ pc = "select"
          /\ UNCHANGED <<running, pages, name, capacity, candidates, tried>>
      BY <1>11 DEF RejectCandidate
    <2>5. index \in 1 .. Len(candidates) /\ candidates[index] \in tried
      BY <2>2
    <2>3. TypeOK'
      <3>1. index' \in Nat \ {0}
        BY <2>2
      <3> QED
        BY <2>1, <2>2, <3>1
    <2>4. StepInv'
      BY <2>2, <2>5, PrefixTried
    <2> QED
      BY <2>1, <2>2, <2>3, <2>4, <2>5
  <1>12. CASE ListExhausted
    <2>1. /\ NextName /\ process = None
          /\ UNCHANGED <<running, handles, pages, process, process_name, Local>>
      BY <1>12 DEF ListExhausted
    <2> QED
      BY ONLY IInv, UNCHANGED has_selector, <2>1, NextNamePreserves, ConstantsAssumption
  <1>13. CASE UNCHANGED vars
    BY <1>13 DEF vars
  <1> QED
    BY <1>1, <1>2, <1>3, <1>4, <1>5, <1>6, <1>7, <1>8, <1>9, <1>10, <1>11, <1>12, <1>13 DEF Next, Environment, Update

HIDE DEF IInv, TypeOK, NoHandleLeaked, ListFitsMemory, StepInv

\* The invariant holds in every reachable state.
THEOREM Invariance == Spec => []IInv
  BY InitIInv, NextPreserves, PTL DEF Spec

\* Candidates are of the name being tried, and of a script with selectProcess;
\* a process is recorded under its own name, and kept if it was accepted.
Provenance ==
  /\ pc = "attach" => ~has_selector
  /\ pc \in {"loop", "select"} =>
       has_selector /\ \A i \in 1 .. Len(candidates) : NameOf[candidates[i]] = name
  /\ pc \in {"size", "list"} => has_selector
  /\ process # None => process_name = NameOf[process]

LEMMA ProvenancePreserved ==
  ASSUME IInv, Provenance, PromotedWasAccepted, [Next]_vars
  PROVE  Provenance' /\ PromotedWasAccepted'
  <1> USE DEF IInv, TypeOK, StepInv, Provenance, PromotedWasAccepted, Local
  <1>0. UNCHANGED has_selector /\ has_selector \in BOOLEAN
    BY DEF Next, Environment, Update, vars
  <1>1. CASE \E p \in Pids : StartProcess(p) \/ ExitProcess(p)
    BY <1>0, <1>1 DEF StartProcess, ExitProcess
  <1>2. CASE ReleaseClosed
    BY <1>0, <1>2 DEF ReleaseClosed
  <1>3. CASE BeginUpdate
    BY <1>0, <1>3 DEF BeginUpdate
  <1>4. CASE AttachByName
    BY <1>0, <1>4 DEF AttachByName, AttachTo, NextName, Named
  <1>5. CASE QuerySize
    BY <1>0, <1>5 DEF QuerySize, NextName
  <1>6. CASE QueryFails
    BY <1>0, <1>6 DEF QueryFails, NextName
  <1>7. CASE QueryList
    <2>1. CASE pc' = "loop"
      <3>1. candidates' \in Orders(Named(name)) /\ UNCHANGED <<name, process, process_name>>
        BY <1>7, <2>1 DEF QueryList, NextName
      <3> DEFINE count == Cardinality(Named(name))
      <3>4. count \in Nat /\ candidates' \in [1 .. count -> Named(name)]
        BY <3>1, NamedCount DEF Orders
      <3>2. \A i \in 1 .. Len(candidates') : candidates'[i] \in Named(name)
        <4> HIDE DEF count
        <4> QED
          BY ONLY <3>4
      <3>3. \A i \in 1 .. Len(candidates') : NameOf[candidates'[i]] = name'
        BY <3>1, <3>2 DEF Named
      <3> QED
        BY <1>0, <1>7, <2>1, <3>1, <3>3 DEF QueryList
    <2>2. CASE pc' # "loop"
      BY <1>0, <1>7, <2>2 DEF QueryList, NextName
    <2> QED
      BY <2>1, <2>2
  <1>8. CASE TryCandidate
    <2>1. index \in 1 .. Len(candidates)
      BY <1>8 DEF TryCandidate
    <2>2. NameOf[candidates[index]] = name /\ UNCHANGED <<candidates, name>>
      BY <1>8, <2>1 DEF TryCandidate
    <2>3. CASE candidates[index] \in running
      BY <1>0, <1>8, <2>2, <2>3 DEF TryCandidate, AttachTo
    <2>4. CASE candidates[index] \notin running
      BY <1>0, <1>8, <2>2, <2>4 DEF TryCandidate
    <2> QED
      BY <2>3, <2>4
  <1>9. CASE PromoteCandidate
    BY <1>0, <1>9 DEF PromoteCandidate
  <1>10. CASE RejectCandidate
    BY <1>0, <1>10 DEF RejectCandidate
  <1>11. CASE ListExhausted
    BY <1>0, <1>11 DEF ListExhausted, NextName
  <1>12. CASE UNCHANGED vars
    BY <1>12 DEF vars
  <1> QED
    BY <1>1, <1>2, <1>3, <1>4, <1>5, <1>6, <1>7, <1>8, <1>9, <1>10, <1>11, <1>12
    DEF Next, Environment, Update

\* A process that is kept was accepted by selectProcess, if there is one, and is
\* recorded under the declared name it runs under.
THEOREM OnlyAccepted == Spec => []PromotedWasAccepted
  <1>1. Init => Provenance /\ PromotedWasAccepted
    BY DEF Init, Provenance, PromotedWasAccepted
  <1>2. /\ Provenance /\ PromotedWasAccepted /\ IInv /\ [Next]_vars
        => (Provenance /\ PromotedWasAccepted)'
    BY ProvenancePreserved
  <1> QED
    BY <1>1, <1>2, Invariance, PTL DEF Spec

\* However candidates are listed, attached, rejected or found gone, no process
\* handle leaks: one is held for the module's process, and no other.
THEOREM NoLeak == Spec => []NoHandleLeaked
  BY Invariance, PTL DEF IInv

\* The PID list the host writes always lies inside guest memory.
THEOREM ListFits == Spec => []ListFitsMemory
  BY Invariance, PTL DEF IInv

\* A list is left without a process only when each candidate has been tried.
THEOREM AllTried == Spec => EveryCandidateTried
  <1>1. IInv /\ [Next]_vars =>
          [pc = "loop" /\ pc' \notin {"loop", "select"} =>
             \A i \in DOMAIN candidates : candidates[i] \in tried]_vars
    <2> SUFFICES ASSUME IInv, [Next]_vars, pc = "loop", pc' \notin {"loop", "select"}
                 PROVE  \A i \in DOMAIN candidates : candidates[i] \in tried
      OBVIOUS
    <2>1. index > Len(candidates)
      BY DEF Next, Environment, Update, vars, StartProcess, ExitProcess, ReleaseClosed,
             BeginUpdate, AttachByName, QuerySize, QueryFails, QueryList, TryCandidate,
             PromoteCandidate, RejectCandidate, ListExhausted
    <2>2. candidates \in Seq(Pids) /\ index \in Nat
      BY DEF IInv, TypeOK
    <2>3. \A i \in 1 .. Len(candidates) : i < index => candidates[i] \in tried
      BY DEF IInv, StepInv
    <2> QED
      BY ONLY <2>1, <2>2, <2>3
  <1> QED
    BY Invariance, <1>1, PTL DEF Spec, EveryCandidateTried
=============================================================================
