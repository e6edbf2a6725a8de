---------------------------- MODULE ScopedGlobals ----------------------------
(* The analysis of globals without an initializer (src/scoped_globals.rs):    *)
(* whether onAttach or onStart owns such a global, on which paths and in      *)
(* which shapes of the attachment it has been assigned, and which code may    *)
(* use it.  No code may ever read the default of its storage.                 *)
(*                                                                            *)
(* A script is made of blocks, sequences of nodes: uses of globals, calls of  *)
(* helpers and control flow.  A test compares an enum with a variant, or is   *)
(* opaque; what is computed is left out.                                      *)
EXTENDS SequencesExt

CONSTANTS BareGlobals,   \* the globals a script may declare without an initializer
          Dimensions,    \* those of them that describe the shape of the attachment
          Variants,      \* the values of the enums
          DebugGlobals,  \* those of them that only debug statements use
          Helpers        \* the functions of the script

Opaque == [global |-> "opaque", variant |-> "none"]

ASSUME GlobalsAssumption ==
  /\ Dimensions \subseteq BareGlobals /\ DebugGlobals \subseteq BareGlobals
  /\ Opaque.global \notin BareGlobals

\* The shape of a script without dimensions is the empty function.
AttachmentShapes == [Dimensions -> Variants]

\* The shapes in which code runs: the one a test has refined it to, if any.
Unrefined == {}
ActiveShapes(refined, base) == IF refined = Unrefined THEN base ELSE refined

-----------------------------------------------------------------------------
(* The uses of globals and helpers in a block, with the shape each is refined *)
(* to.                                                                        *)

\* An enum that is no dimension is no fact of any shape.
HasFact(shape, test) == test.global \in Dimensions /\ shape[test.global] = test.variant

\* Any test of an enum is understood.
SelectedShapes(test, expected, active) == {s \in active : HasFact(s, test) = expected}
IsUnderstood(test, active) == test # Opaque /\ active # {}

GlobalUse(use, global, refined) == [use |-> use, global |-> global, refined |-> refined]

Tested(test, refined) ==
  IF test.global \in BareGlobals THEN {GlobalUse("read", test.global, refined)} ELSE {}

\* The blocks within a node.
Blocks(node) ==
  CASE node.do = "if"    -> <<node.then, node.else>>
    [] node.do = "try"   -> <<node.block, node.fallback>>
    [] node.do = "match" -> [i \in DOMAIN node.arms |-> node.arms[i].block]
    [] node.do = "debug" -> << <<node.statement>> >>
    [] node.do \in {"while", "loop", "closure", "and"} -> <<node.block>>
    [] OTHER             -> << >>

\* Its blocks, each with the shape it is refined to.
RefinedBlocks(node, refined, shapes) ==
  LET active == ActiveShapes(refined, shapes)
      In(block, selected) == {<<block, {s}>> : s \in selected}
      Branch(block, expected) ==
        IF IsUnderstood(node.test, active) THEN In(block, SelectedShapes(node.test, expected, active))
        ELSE {<<block, refined>>}
      \* The arms of a match, which take the shapes that remain.
      Arm(state, arm) ==
        LET selected == IF arm.variant # "any"
                          THEN SelectedShapes([global |-> node.global, variant |-> arm.variant], TRUE, state.remaining)
                        ELSE IF arm.guarded THEN {} ELSE state.remaining
        IN  [blocks    |-> state.blocks \cup IF selected = {} THEN {<<arm.block, refined>>}
                                             ELSE In(arm.block, selected),
             remaining |-> IF arm.guarded THEN state.remaining ELSE state.remaining \ selected]
  IN  CASE node.do = "if"    -> Branch(node.then, TRUE) \cup Branch(node.else, FALSE)
        [] node.do = "match" -> FoldLeft(Arm, [blocks |-> {}, remaining |-> active], node.arms).blocks
        [] OTHER             -> {<<block, refined>> : block \in ToSet(Blocks(node))}

\* The uses by a node itself.
OwnUses(node, refined) ==
  CASE node.do \in {"read", "call"}    -> {GlobalUse(node.do, node.global, refined)}
    [] node.do \in {"write", "select"} -> {GlobalUse("write", node.global, refined)}
    [] node.do = "if"                  -> Tested(node.test, refined)
    [] node.do = "match"               -> Tested(node, refined)
    [] OTHER                           -> {}

RECURSIVE Uses(_, _, _)
Uses(block, refined, shapes) ==
  UNION {OwnUses(block[i], refined)
           \cup UNION {Uses(b[1], b[2], shapes) : b \in RefinedBlocks(block[i], refined, shapes)} :
         i \in DOMAIN block}

\* The globals a block assigns itself: creating a closure assigns nothing.
RECURSIVE Assignments(_)
Assignments(block) ==
  UNION {IF block[i].do \in {"write", "select"} THEN {block[i].global}
         ELSE IF block[i].do = "closure" THEN {}
         ELSE UNION {Assignments(b) : b \in ToSet(Blocks(block[i]))} : i \in DOMAIN block}

-----------------------------------------------------------------------------
(* What helpers need.  Uses that a test refines are left to the helper.       *)

\* A helper needs what the helpers it calls need.
RECURSIVE Viral(_, _)
Viral(needs, callees) ==
  LET more == [h \in Helpers |-> needs[h] \cup UNION {needs[c] : c \in callees[h]}]
  IN  IF more = needs THEN needs ELSE Viral(more, callees)

FunctionRequirements(uses) ==
  LET Named(h, calls) ==
        {u.global : u \in {x \in uses[h] : x.refined = Unrefined /\ (x.use = "call") = calls}}
  IN  Viral([h \in Helpers |-> Named(h, FALSE)], [h \in Helpers |-> Named(h, TRUE)])

-----------------------------------------------------------------------------
(* Definite initialization. *)

\* A path: the globals it has assigned, and the dimensions it has chosen.
EvalPath(assigned, facts) == [assigned |-> assigned, facts |-> facts]

Flow(normal, returned, reads) == [normal |-> normal, returned |-> returned, reads |-> reads]

JoinFlows(flows) ==
  Flow(FlattenSeq([i \in DOMAIN flows |-> flows[i].normal]),
       FlattenSeq([i \in DOMAIN flows |-> flows[i].returned]),
       UNION {flows[i].reads : i \in DOMAIN flows})

NoFlow == Flow(<< >>, << >>, {})

\* The groups of paths with the same facts, in the order of their first ones.
PathGroups(paths) ==
  LET Group(i) == {j \in DOMAIN paths : paths[j].facts = paths[i].facts}
      firsts   == SelectSeq([i \in DOMAIN paths |-> i], LAMBDA i : i = Min(Group(i)))
  IN  [k \in DOMAIN firsts |-> Group(firsts[k])]

\* Fault: what one of them assigned counts.
CollapseToAny(paths) ==
  LET groups == PathGroups(paths)
  IN  [k \in DOMAIN groups |->
         EvalPath(UNION {paths[i].assigned : i \in groups[k]}, paths[Min(groups[k])].facts)]

\* Of the paths of a group, only what all of them assigned counts.
CollapsePaths(paths) ==
  LET groups == PathGroups(paths)
      Common(group) == {g \in BareGlobals : \A i \in group : g \in paths[i].assigned}
  IN  [k \in DOMAIN groups |-> EvalPath(Common(groups[k]), paths[Min(groups[k])].facts)]

Uninitialized(globals, paths) ==
  {g \in globals : \E i \in DOMAIN paths : g \notin paths[i].assigned}

\* The initializer of globals whose helpers need what needs says.
\* A break of the loop a block is the body of.
RECURSIVE HasBreak(_)
HasBreak(block) ==
  \E i \in DOMAIN block :
    \/ block[i].do = "break"
    \/ block[i].do \in {"if", "match", "try", "and"} /\ \E b \in ToSet(Blocks(block[i])) : HasBreak(b)

\* A statement in an initializer of globals whose helpers need what needs says.
RECURSIVE EvalBlock(_, _, _, _), EvalStatement(_, _, _, _)
EvalStatement(node, input, globals, needs) ==
  LET Reading(read, flow) == [flow EXCEPT !.reads = @ \cup Uninitialized(read \cap globals, input)]
      Assigning(facts) ==
        Flow([i \in DOMAIN input |-> EvalPath(input[i].assigned \cup ({node.global} \cap globals),
                                              facts @@ input[i].facts)], << >>, {})
      \* Each of its blocks on each path, or on all of them at once.
      starts == IF node.do \in {"and", "try"} THEN <<input>> ELSE [i \in DOMAIN input |-> <<input[i]>>]
      blocks == Blocks(node)
      Through(start) == [j \in DOMAIN blocks |-> EvalBlock(blocks[j], Flow(start, << >>, {}), globals, needs)]
      within == JoinFlows(FlattenSeq([i \in DOMAIN starts |-> Through(starts[i])]))
  IN  CASE node.do = "read"   -> Reading({node.global}, Flow(input, << >>, {}))
        [] node.do = "call"   -> Reading(needs[node.global], Flow(input, << >>, {}))
        [] node.do = "write"  -> Assigning(<< >>)
        [] node.do = "select" -> Assigning(IF node.variant = "computed" THEN << >>
                                           ELSE node.global :> node.variant)
        [] node.do = "if"     -> Reading({node.test.global}, within)
        [] node.do = "match"  -> Reading({node.global}, within)
        \* The body may be left at any point, and what it assigns does not count.
        [] node.do = "while"  -> [within EXCEPT !.normal = input]
        [] node.do = "loop"   -> [within EXCEPT !.normal = IF HasBreak(node.block) THEN input ELSE << >>]
        [] node.do \in {"and", "try"}                  -> within
        [] node.do = "return" -> Flow(<< >>, input, {})
        [] node.do \in {"break", "continue", "reject"} -> NoFlow
        [] node.do \in {"closure", "invoke"}           -> Flow(input, << >>, {})

\* A debug statement is not in a release build: it assigns debug globals only,
\* on every path what it assigns on the first, and its control flow does not count.
EvalDebug(node, flow, globals, needs) ==
  LET debugged == EvalStatement(node.statement, flow.normal, globals, needs)
      groups   == CollapsePaths(debugged.normal)
      assigned == IF groups = << >> THEN {} ELSE groups[1].assigned \cap DebugGlobals
  IN  [flow EXCEPT !.normal = [i \in DOMAIN @ |-> [@[i] EXCEPT !.assigned = @ \cup assigned]],
                   !.reads = @ \cup debugged.reads]

\* What is left of a block, from where its paths have come.
EvalBlock(block, flow, globals, needs) ==
  LET next == EvalStatement(block[1], flow.normal, globals, needs)
  IN  IF block = << >> \/ flow.normal = << >> THEN flow
      ELSE EvalBlock(Tail(block),
             IF block[1].do = "debug" THEN EvalDebug(block[1], flow, globals, needs)
             ELSE Flow(CollapsePaths(next.normal), flow.returned \o next.returned, flow.reads \cup next.reads),
             globals, needs)

\* The paths on which an action completes.
CompletedPaths(flow) == flow.returned \o flow.normal

MatchesShape(path, shape) == \A d \in DOMAIN path.facts : path.facts[d] = shape[d]

\* Of the globals, those assigned on all of the paths.
AssignedOnAll(paths, globals) == {g \in globals : \A i \in DOMAIN paths : g \in paths[i].assigned}

-----------------------------------------------------------------------------
(* The analysis of a script: a function from the actions and the helpers to   *)
(* their blocks, and from "poll" to the fields of the state.  The shape is    *)
(* chosen by onAttach, or is automatic.                                       *)

Actions == {"onAttach", "onStart", "whileAttached", "split"}

\* The fields of the state are polled in the shapes they are declared for.
FieldUses(fields, shapes) ==
  UNION {Uses(fields[i].then, {s}, shapes) : <<i, s>> \in
           {x \in (DOMAIN fields) \X shapes : fields[x[1]].test = Opaque \/ HasFact(x[2], fields[x[1]].test)}}

\* The helpers that need an attached process: a refined use counts as well.
AttachedHelpers(uses, attachment) ==
  LET Callees(h) == {u.global : u \in {x \in uses[h] : x.use = "call"}}
      needs == Viral([h \in Helpers |-> {u.global : u \in uses[h]} \cap attachment],
                     [h \in Helpers |-> Callees(h)])
  IN  {h \in Helpers : needs[h] # {}}

\* The start of onAttach.
InitialPaths(automatic) ==
  IF automatic THEN SetToSeq({EvalPath(Dimensions, s) : s \in AttachmentShapes})
  ELSE <<EvalPath({}, << >>)>>

\* What is wrong with one use of code that may use attempt globals or not, and
\* attachment globals in none of the shapes (detached), or all those of base.
Misuses(uses, base, detached, attempt, analysis) ==
  LET Missing(globals, refined) ==
        \E s \in ActiveShapes(refined, base) : globals \ analysis.available[s] # {}
      Lacks(u, globals) ==
        LET attached == globals \cap analysis.attachment
        IN  \/ ~attempt /\ globals \cap analysis.attempt # {}
            \/ detached /\ (attached # {} \/ u.global \in analysis.processes)
            \/ Missing(attached, u.refined)
  IN  {u \in uses : Lacks(u, IF u.use = "call" THEN analysis.needs[u.global] ELSE {u.global})}

Analyze(script, bare, automatic) ==
  LET by_attach  == Assignments(script["onAttach"]) \cup (IF automatic THEN Dimensions ELSE {})
      by_start   == Assignments(script["onStart"])
      attachment == (bare \cap by_attach) \ by_start
      attempt    == (bare \cap by_start) \ by_attach
      helpers    == [h \in Helpers |-> Uses(script[h], Unrefined, AttachmentShapes)]
      needs      == FunctionRequirements(helpers)
      attach     == EvalBlock(script["onAttach"], Flow(InitialPaths(automatic), << >>, {}), attachment, needs)
      start      == EvalBlock(script["onStart"], Flow(<<EvalPath({}, << >>)>>, << >>, {}), attempt, needs)
      PathsTo(s) == SelectSeq(CompletedPaths(attach), LAMBDA path : MatchesShape(path, s))
      reachable  == IF attachment = {} THEN AttachmentShapes ELSE {s \in AttachmentShapes : PathsTo(s) # << >>}
      available  == [s \in AttachmentShapes |->
                       IF s \in reachable THEN AssignedOnAll(PathsTo(s), attachment) ELSE {}]
      analysis   == [attachment |-> attachment, attempt |-> attempt, needs |-> needs, available |-> available,
                     processes |-> AttachedHelpers(helpers, attachment)]
      used       == [a \in Actions \cup Helpers |-> Uses(script[a], Unrefined, reachable)]
      Valid(h)    == {s \in reachable : needs[h] \cap attachment \subseteq available[s]}
      Globals(u)  == IF u.use = "call" THEN needs[u.global] ELSE {u.global}
  IN  [gated |-> {a \in Actions : \E u \in used[a] : Globals(u) \cap attempt # {}},
       attachment |-> attachment, attempt |-> attempt,
       accepted |->
         /\ attachment \cup attempt = bare
         /\ attach.reads = {} /\ start.reads = {}
         /\ \A g \in attachment : \E s \in reachable : g \in available[s]
         /\ attempt = AssignedOnAll(CompletedPaths(start), attempt)
         /\ Misuses(used["onAttach"], {}, FALSE, FALSE, [analysis EXCEPT !.attachment = {}]) = {}
         /\ Misuses(used["onStart"], reachable, TRUE, TRUE, analysis) = {}
         /\ Misuses(used["whileAttached"], reachable, FALSE, FALSE, analysis) = {}
         /\ Misuses(FieldUses(script["poll"], reachable), reachable, FALSE, FALSE, analysis) = {}
         /\ Misuses(used["split"], reachable, FALSE, TRUE, analysis) = {}
         /\ \A h \in Helpers : Misuses(used[h], Valid(h), FALSE, TRUE, analysis) = {}]
=============================================================================
