------------------------------ MODULE MCParts ------------------------------
(* Five small parts, for TLC: the acquisition of a process, the order of the  *)
(* state fields, the prefixes their pointer paths share, the analysis of      *)
(* matches, and that of globals without an initializer.  They share no state, *)
(* so that each behaviour is one of them, and the others rest.                *)
EXTENDS MCProcessSelection, StateDependencies, PointerPrefixes, MCMatch, MCScopedGlobals

CONSTANTS m, address   \* bases of paths: a module, and one that is none

FieldNames == <<"a", "b", "c", "d">>
ListsTo(n) == {s \in UNION {[1..k -> Range(FieldNames)] : k \in 0..n} : IsInjective(s)}
AllLists   == {f @@ g : f \in [{"a", "b"} -> ListsTo(2)], g \in [{"c", "d"} -> ListsTo(1)]}

PolledFields == <<"f", "g", "h">>
PathsAlike   == {<<m, 1, 2>>, <<m, 1, 2, 3>>, <<m, 2, 2>>, <<address, 2, 3>>}
Conditions   == {{}, {"A"}, {"B"}, {"A", "B"}}

\* What the proofs about matches rely on holds here.  That the values are
\* complete does not hold of the two types whose values are cut off.
ASSUME MatchesAreSound == LengthsSuffice /\ OverlapsAreTried /\ EmptyTypesAreEmpty
ASSUME ValuesAreComplete ==
  \A t \in Types : /\ TypeIsInhabited(t) => ValuesOf[t] # {}
                   /\ t \notin {"node", "chain"} => IsComplete(t)

\* The types that are not made of themselves cost this much.  The cheapest are
\* within MaxDepth.
Cost ==
  [bool |-> 1, small |-> 1, text |-> 1, never |-> 1, nevers |-> 1, void |-> 1,
   maybe |-> 6, failed |-> 6, tried |-> 6, step |-> 6, choice |-> 6,
   twice |-> 11, pair |-> 11, point |-> 21, list |-> 26]
ASSUME CostsAreGrounded ==
  LET tallest == Max(Range(Height))
      within  == {t \in DOMAIN Cost : Cost[t] + tallest < MaxDepth}
  IN  /\ \A types \in {DOMAIN Cost, within} : Grounded([t \in types |-> Cost[t]], tallest)
      /\ "maybe" \in within

-----------------------------------------------------------------------------

VARIABLE part     \* the part a behaviour is about

parts == <<vars, dependencyVars, prefixVars, matchVars, scopedVars, part>>

NoSelection ==
  /\ has_selector = FALSE /\ running = {} /\ handles = [p \in Pids |-> 0] /\ pages = InitialPages
  /\ process = None /\ process_name = None /\ pc = "host" /\ name = 1
  /\ capacity = 0 /\ candidates = <<>> /\ index = 1 /\ tried = {}

NoDependencies ==
  /\ state_dependencies = [f \in Names |-> << >>] /\ pass = "none" /\ begun = 0 /\ calls = << >>
  /\ counter = 1 /\ indices = [f \in Names |-> 0] /\ lowlinks = [f \in Names |-> 0]
  /\ stack = << >> /\ components = << >> /\ cyclic = {}
  /\ visiting = {} /\ visited = {} /\ order = << >>

NoPrefixes ==
  /\ path = << >> /\ alternatives = << >> /\ shared = {} /\ fields = << >> /\ holding = {}
  /\ next = Len(PolledFields) + 1 /\ guaranteed = {} /\ possibly_initialized = {}
  /\ status = << >> /\ answers = << >> /\ given = [f \in Polled |-> "nothing"]

NoMatch ==
  /\ matched = "never" /\ arms = << >> /\ unguarded = << >> /\ reported = {} /\ errors = FALSE
  /\ missing = {} /\ phase = "none" /\ value = NoValue /\ arm = 0

NoScript ==
  /\ checked = << >> /\ verdict = Unchecked /\ profile = "none" /\ attached = FALSE /\ attempted = FALSE
  /\ action = "none" /\ rest = << >> /\ closure = << >> /\ assigned = {} /\ kinds = << >> /\ defaults = {}

PartsInit ==
  /\ part \in {"selection", "dependencies", "prefixes", "match", "globals"}
  /\ IF part = "selection"    THEN Init             ELSE NoSelection
  /\ IF part = "dependencies" THEN DependenciesInit ELSE NoDependencies
  /\ IF part = "prefixes"     THEN PrefixInit       ELSE NoPrefixes
  /\ IF part = "match"        THEN MatchInit        ELSE NoMatch
  /\ IF part = "globals"      THEN ScopedInit       ELSE NoScript

Select      == part = "selection" /\ Update /\ UNCHANGED <<dependencyVars, prefixVars, matchVars, scopedVars>>
Live        == part = "selection" /\ Environment
                 /\ UNCHANGED <<dependencyVars, prefixVars, matchVars, scopedVars>>
OrderFields == part = "dependencies" /\ Compile /\ UNCHANGED <<vars, prefixVars, matchVars, scopedVars>>
PollFields  == part = "prefixes" /\ PollField /\ UNCHANGED <<vars, dependencyVars, matchVars, scopedVars>>
Match       == part = "match" /\ MatchNext /\ UNCHANGED <<vars, dependencyVars, prefixVars, scopedVars>>
UseGlobals  == part = "globals" /\ ScopedNext /\ UNCHANGED <<vars, dependencyVars, prefixVars, matchVars>>

\* The host calls update, which selects a process.
PartsSpec ==
  /\ PartsInit
  /\ [][(Select \/ Live \/ OrderFields \/ PollFields \/ Match \/ UseGlobals) /\ UNCHANGED part]_parts
  /\ WF_parts(Select /\ UNCHANGED part)
=============================================================================
