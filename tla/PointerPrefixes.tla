-------------------------- MODULE PointerPrefixes --------------------------
(***************************************************************************)
(* Pointer paths of state fields that begin alike: the code generator      *)
(* plans which module lookups and dereferences several fields share, and   *)
(* emits code that resolves each of them into a local of the update when   *)
(* the first field needs it.  The code is emitted in the order in which it *)
(* runs, so emission and one poll are one pass over the fields here: what  *)
(* the compiler knows (guaranteed, possibly_initialized) and what happens  *)
(* (status, answers) advance together.                                     *)
(*                                                                         *)
(* A path is the sequence of its base and its offsets; a module base is    *)
(* the module and the offset into it.  Every proper initial segment of it  *)
(* is one costly question to the host: a module lookup for a module alone, *)
(* a dereference for any other.  << >> stands for a path with a base that  *)
(* is computed, and for any other source.                                  *)
(***************************************************************************)
EXTENDS Naturals, Sequences, FiniteSets, SequencesExt

CONSTANTS
  Order,          \* the fields in polling order
  Paths,          \* the pointer paths fields may have
  Modules,        \* the bases that are modules
  Shapes,         \* the alternatives of conditional groups
  Groups          \* what a field may be conditional on: sets of alternatives, {} for nothing

Polled == Range(Order)

ASSUME PrefixAssumption ==
  Order \in Seq(Polled) /\ \A p \in Paths : p \in Seq(Range(p))

VARIABLES
  path, alternatives,        \* the program: the path of each field, and when it exists
  shared, fields,            \* the plan: the shared prefixes, and the one of each field
  holding,                   \* the alternatives that hold in this poll
  next,                      \* the field to be polled next, by position
  guaranteed, possibly_initialized,
  status,                    \* the status local of each shared prefix
  answers,                   \* ghost: the host's answers to each prefix in this poll
  given                      \* ghost: the status each field was read with

program    == <<path, alternatives, shared, fields, holding>>
prefixVars == <<program, next, guaranteed, possibly_initialized, status, answers, given>>

-----------------------------------------------------------------------------
(* The plan.                                                               *)

Segments(p) == {SubSeq(p, 1, k) : k \in 1 .. Len(p) - 1}
Costly      == UNION {Segments(path[f]) : f \in Polled}

CanShare(f, g) ==
  alternatives[f] = {} \/ alternatives[g] = {} \/ alternatives[f] \cap alternatives[g] # {}

SharedPrefixes ==
  {q \in Costly : \E f, g \in Polled :
     f # g /\ q \in Segments(path[f]) \cap Segments(path[g]) /\ CanShare(f, g)}

\* The longest shared prefix of a field, if there is one.
LongestOf(f, prefixes) ==
  LET own == Segments(path[f]) \cap prefixes IN
  IF own = {} THEN << >> ELSE CHOOSE q \in own : \A r \in own : Len(r) <= Len(q)

IsModule(q)   == Len(q) = 1 /\ q[1] \in Modules
HasAncestor(q) == Len(q) > 1 /\ Front(q) \in shared

-----------------------------------------------------------------------------
(* Resolving a prefix.  `s` holds the compiler's two sets, the status      *)
(* locals and the answers.                                                 *)

\* What a question that is asked comes to.
Outcome(q, answer) ==
  IF answer THEN "resolved" ELSE IF IsModule(q) THEN "module missing" ELSE "read failed"

\* The code emitted for one prefix that is not guaranteed, run if `runs`.
Resolve(s, q, answer) ==
  LET inherited == IF HasAncestor(q) THEN s.status[Front(q)] ELSE "resolved" IN
  IF inherited = "resolved"
    THEN [s EXCEPT !.status[q] = Outcome(q, answer), !.answers[q] = Append(@, answer)]
    ELSE [s EXCEPT !.status[q] = inherited]

Guarded(s, q, conditional) == conditional \/ q \in s.possibly_initialized

\* Fault: what one conditional field resolves is taken for resolved.
RecordAsGuaranteed(s, q, conditional) ==
  [s EXCEPT !.possibly_initialized = @ \cup {q}, !.guaranteed = @ \cup {q}]

Record(s, q, conditional) ==
  [s EXCEPT !.possibly_initialized = @ \cup {q},
            !.guaranteed = IF conditional THEN @ ELSE @ \cup {q}]

\* emit_ensure for one prefix, its ancestor being ensured.
EnsureOne(s, q, conditional, runs, answer) ==
  IF q \in s.guaranteed THEN s
  ELSE LET skips == Guarded(s, q, conditional) /\ s.status[q] # "unresolved" IN
       Record(IF runs /\ ~skips THEN Resolve(s, q, answer) ELSE s, q, conditional)

\* emit_ensure: the shared ancestors first.  `answer` are the host's answers
\* to the questions that are asked.
Ensure(s, prefix, conditional, runs, answer) ==
  LET ensured[k \in 0 .. Len(prefix)] ==
        IF k = 0 THEN s
        ELSE IF SubSeq(prefix, 1, k) \in shared
          THEN EnsureOne(ensured[k - 1], SubSeq(prefix, 1, k), conditional, runs, answer[k])
        ELSE ensured[k - 1]
  IN ensured[Len(prefix)]

-----------------------------------------------------------------------------

PrefixInit ==
  /\ path \in [Polled -> Paths]
  /\ alternatives \in [Polled -> Groups]
  /\ shared = SharedPrefixes
  /\ fields = [f \in Polled |-> LongestOf(f, shared)]
  /\ holding \in SUBSET Shapes
  /\ next = 1
  /\ guaranteed = {} /\ possibly_initialized = {}
  /\ status = [q \in shared |-> "unresolved"]
  /\ answers = [q \in shared |-> << >>]
  /\ given = [f \in Polled |-> "nothing"]

Exists(f) == alternatives[f] = {} \/ alternatives[f] \cap holding # {}

\* emit_state_field_poll of the next field, within the test of its predicate.
PollField ==
  /\ next <= Len(Order) /\ next' = next + 1
  /\ LET f == Order[next] IN
     IF fields[f] # << >>
       THEN \E answer \in [1 .. Len(fields[f]) -> BOOLEAN] :
              LET before == [guaranteed |-> guaranteed, possibly_initialized |-> possibly_initialized,
                             status |-> status, answers |-> answers]
                  s == Ensure(before, fields[f], alternatives[f] # {}, Exists(f), answer)
              IN /\ guaranteed' = s.guaranteed /\ possibly_initialized' = s.possibly_initialized
                 /\ status' = s.status /\ answers' = s.answers
                 /\ given' = [given EXCEPT ![f] = IF Exists(f) THEN s.status[fields[f]] ELSE @]
       ELSE UNCHANGED <<guaranteed, possibly_initialized, status, answers, given>>
  /\ UNCHANGED program

PrefixSpec == PrefixInit /\ [][PollField]_prefixVars

-----------------------------------------------------------------------------

\* What the host's answers of this poll say of a prefix.
Along(q) ==
  LET asked(s)  == {answers[s][i] : i \in DOMAIN answers[s]}
      all       == {SubSeq(q, 1, k) : k \in 1 .. Len(q)}
      failed    == {s \in all : FALSE \in asked(s)}
  IN IF failed # {} THEN Outcome(CHOOSE s \in failed : TRUE, FALSE)
     ELSE IF \A s \in all : asked(s) = {TRUE} THEN "resolved" ELSE "unresolved"

\* Whatever the order of conditional and unconditional fields, each shared lookup
\* and dereference is asked for at most once in a poll, and every field that
\* exists is read with what the answers along its own path come to, never with a
\* local that nothing has written.
PrefixesAreResolvedOnce ==
  /\ \A q \in shared : Len(answers[q]) <= 1
  /\ \A f \in Polled : given[f] # "nothing" =>
       given[f] # "unresolved" /\ given[f] = Along(fields[f])
=============================================================================
