-------------------------- MODULE StateDependencies --------------------------
(***************************************************************************)
(* The two graph algorithms the compiler runs over the dependencies of     *)
(* state fields: the type checker's search for cycles, by strongly         *)
(* connected components, and the order in which `update` polls the fields. *)
(* One behaviour is one program: its fields in source order, with the      *)
(* dependencies of each in the order in which they were resolved.          *)
(*                                                                         *)
(* Both are recursive functions over one field.  Here `calls` is the stack *)
(* of the calls of `visit` that are under way, each with the position of   *)
(* the dependency it is at; a step follows one dependency, or returns.     *)
(***************************************************************************)
EXTENDS Naturals, Sequences, SequencesExt

CONSTANTS
  Fields,            \* the fields, in source order
  Programs           \* the dependencies of the fields, as lists

Names == Range(Fields)

ASSUME DependenciesAssumption == Fields \in Seq(Names) /\ Programs \subseteq [Names -> Seq(Names)]

VARIABLES
  state_dependencies,
  pass,                        \* "cycles", then "order" if there are none, then "done"
  begun,                       \* how many fields the loop of the pass has begun with
  calls,                       \* the calls of visit: the field, and the position of the dependency
  counter, indices, lowlinks,  \* the numbers of the fields visited so far; 0 for no number yet
  stack, components,
  cyclic,                      \* the fields each diagnostic names
  visiting, visited, order     \* the polling order, empty for a program that is rejected

searchVars     == <<counter, indices, lowlinks, stack, components>>
orderVars      == <<visiting, visited, order>>
dependencyVars == <<state_dependencies, pass, begun, calls, searchVars, cyclic, orderVars>>

DependsOn(f, g) == Contains(state_dependencies[f], g)

-----------------------------------------------------------------------------
(* The calls of visit. *)

CallOf(f) == [field |-> f, at |-> 1]

Underway == calls # << >>
Top      == calls[Len(calls)]
Current  == Top.field

\* The dependency the innermost call is at, if there is one left.
Dependency == state_dependencies[Current][Top.at]
AtEnd      == Top.at > Len(state_dependencies[Current])

GoOn(cs) == [cs EXCEPT ![Len(cs)] = [field |-> @.field, at |-> @.at + 1]]

\* The call returns, and its caller goes on to the next dependency.
Returned == IF Len(calls) = 1 THEN << >> ELSE GoOn(Front(calls))

\* The loop goes on to its next field.
LoopsTo(f) == ~Underway /\ begun < Len(Fields) /\ begun' = begun + 1 /\ f = Fields[begun + 1]

-----------------------------------------------------------------------------
(* Tarjan's algorithm. *)

Indexed(f) == indices[f] # 0

Visit(f) ==
  /\ indices' = [indices EXCEPT ![f] = counter] /\ lowlinks' = [lowlinks EXCEPT ![f] = counter]
  /\ counter' = counter + 1 /\ stack' = Append(stack, f) /\ calls' = Append(calls, CallOf(f))
  /\ UNCHANGED components

Lower(f, low) == [lowlinks EXCEPT ![f] = IF low < @ THEN low ELSE @]

\* Fault: a component is closed as soon as its first member is on the stack.
PopOne(f) ==
  stack' = Front(stack) /\ components' = Append(components, {stack[Len(stack)]})

\* The fields from f to the top of the stack are one component.
PopComponent(f) ==
  LET from == CHOOSE i \in DOMAIN stack : stack[i] = f IN
  /\ stack' = SubSeq(stack, 1, from - 1)
  /\ components' = Append(components, {stack[i] : i \in from .. Len(stack)})

SearchFrom(f) ==
  /\ pass = "cycles" /\ LoopsTo(f)
  /\ IF Indexed(f) THEN UNCHANGED <<calls, searchVars>> ELSE Visit(f)
  /\ UNCHANGED <<state_dependencies, pass, cyclic, orderVars>>

Follow ==
  /\ pass = "cycles" /\ Underway /\ ~AtEnd
  /\ IF ~Indexed(Dependency) THEN Visit(Dependency)
     ELSE /\ lowlinks' = IF Contains(stack, Dependency) THEN Lower(Current, indices[Dependency]) ELSE lowlinks
          /\ calls' = GoOn(calls)
          /\ UNCHANGED <<counter, indices, stack, components>>
  /\ UNCHANGED <<state_dependencies, pass, begun, cyclic, orderVars>>

Return ==
  /\ pass = "cycles" /\ Underway /\ AtEnd /\ calls' = Returned
  /\ IF lowlinks[Current] = indices[Current] THEN PopComponent(Current) ELSE UNCHANGED <<stack, components>>
  /\ lowlinks' = IF Len(calls) = 1 THEN lowlinks
                 ELSE Lower(calls[Len(calls) - 1].field, lowlinks[Current])
  /\ UNCHANGED <<state_dependencies, pass, begun, counter, indices, cyclic, orderVars>>

IsCyclic(component) == \E f, g \in component : f # g \/ DependsOn(f, f)

\* Cycles end the compilation; without one, the code generator orders the fields.
Report ==
  /\ pass = "cycles" /\ ~Underway /\ begun = Len(Fields)
  /\ cyclic' = {c \in Range(components) : IsCyclic(c)}
  /\ pass' = IF cyclic' = {} THEN "order" ELSE "done"
  /\ begun' = 0
  /\ UNCHANGED <<state_dependencies, calls, searchVars, orderVars>>

-----------------------------------------------------------------------------
(* The polling order: depth-first, what a field depends on before it.        *)

Begin(f) == visiting' = visiting \cup {f} /\ calls' = Append(calls, CallOf(f))

OrderFrom(f) ==
  /\ pass = "order" /\ LoopsTo(f)
  /\ IF f \in visited \cup visiting THEN UNCHANGED <<calls, visiting>> ELSE Begin(f)
  /\ UNCHANGED <<state_dependencies, pass, searchVars, cyclic, visited, order>>

Descend ==
  /\ pass = "order" /\ Underway /\ ~AtEnd
  /\ IF Dependency \in visited \cup visiting THEN calls' = GoOn(calls) /\ UNCHANGED visiting
     ELSE Begin(Dependency)
  /\ UNCHANGED <<state_dependencies, pass, begun, searchVars, cyclic, visited, order>>

\* Fault: a field is emitted before what it depends on.
Emitted(f) == <<f>> \o order

Output(f) == Append(order, f)

Leave ==
  /\ pass = "order" /\ Underway /\ AtEnd /\ calls' = Returned
  /\ visiting' = visiting \ {Current} /\ visited' = visited \cup {Current}
  /\ order' = Output(Current)
  /\ UNCHANGED <<state_dependencies, pass, begun, searchVars, cyclic>>

Ordered ==
  /\ pass = "order" /\ ~Underway /\ begun = Len(Fields)
  /\ pass' = "done"
  /\ UNCHANGED <<state_dependencies, begun, calls, searchVars, cyclic, orderVars>>

-----------------------------------------------------------------------------

DependenciesInit ==
  /\ state_dependencies \in Programs
  /\ pass = "cycles" /\ begun = 0 /\ calls = << >>
  /\ counter = 1 /\ indices = [f \in Names |-> 0] /\ lowlinks = [f \in Names |-> 0]
  /\ stack = << >> /\ components = << >> /\ cyclic = {}
  /\ visiting = {} /\ visited = {} /\ order = << >>

FindCycles == (\E f \in Names : SearchFrom(f)) \/ Follow \/ Return \/ Report
SortFields == (\E f \in Names : OrderFrom(f)) \/ Descend \/ Leave \/ Ordered

Compile == FindCycles \/ SortFields

DependencySpec == DependenciesInit /\ [][Compile]_dependencyVars

-----------------------------------------------------------------------------
(* Reference definitions and properties.                                     *)

\* Sets of fields that hold whatever their members depend on.
IsClosed(set) == \A f \in set, g \in Names : DependsOn(f, g) => g \in set

\* f depends on g, directly or through others: g is in every closed set that holds
\* what f depends on.
Needs(f, g) ==
  \A c \in SUBSET Names : IsClosed(c) /\ (\A h \in Names : DependsOn(f, h) => h \in c) => g \in c

\* The diagnostics name exactly the fields that depend on themselves, directly
\* or through others, those of one cycle together and no field twice.
CyclesAreReported ==
  /\ UNION cyclic = {f \in Names : Needs(f, f)}
  /\ \A c \in cyclic : \A f \in c, g \in Names : g \in c <=> Needs(f, g) /\ Needs(g, f)
  /\ \A c, d \in cyclic : c # d => c \cap d = {}

DependenciesComeFirst ==
  \A i, j \in DOMAIN order : DependsOn(order[i], order[j]) => j < i

\* A program whose fields depend on themselves is rejected with all its cycles, and
\* only such a program: the polling order, which would cut a cycle silently, is
\* only ever computed for a program without one, and then polls every field once,
\* after everything it depends on.
PolledInOrderOrReported ==
  pass = "done" => CyclesAreReported /\
    IF cyclic = {}
      THEN Range(order) = Names /\ IsInjective(order) /\ DependenciesComeFirst
      ELSE order = << >>
=============================================================================
