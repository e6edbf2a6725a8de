----------------------------- MODULE MemoryScan -----------------------------
(***************************************************************************)
(* The signature scans an asynchronous block awaits: each poll inspects    *)
(* one bounded window of one memory range with one signature and yields,   *)
(* keeping its place in the future's state.  The game runs in between: it  *)
(* writes and moves what is looked for, protects and unprotects pages, and *)
(* maps and unmaps ranges.                                                 *)
(*                                                                         *)
(* A range is named and has a size, zero for one that is not readable;     *)
(* what is in memory is the set of candidates <<range, offset, signature>> *)
(* that match at present.  A page and a window stand for the 4096 and      *)
(* 524288 candidates of the code.                                          *)
(***************************************************************************)
EXTENDS Integers, Sequences, FiniteSets, FiniteSetsExt, SequencesExt

CONSTANTS
  Kinds,         \* the operations awaited
  Ranges,        \* the ranges the game maps
  Size,          \* the size of each range
  Lengths,       \* the lengths of the signatures that may be scanned for: a set of sequences
  Page, Window,  \* candidates of one read and of one poll
  Candidates,    \* what may match: <<range, offset, signature>>
  Unreadables,   \* the sets of <<range, offset>> that may be protected
  Maps,          \* the lists of ranges the host may report
  MaxChanges,    \* bound: changes of the memory
  NoMatch, Absent  \* no match yet; scanOnce's None

\* The scans over one range know its address and size; those over the process
\* ask for the mapped ranges in every poll.
OneRange  == {"scan", "scanOnce", "scanAny"}
Processes == {"scanMemory", "scanMemoryAny"}

\* Modules and mappings are whole pages; an explicit range is what the script says.
Whole == {r \in Ranges : Size[r] % Page = 0}

\* A range, an offset in it, and which of the signatures.
Matches == Ranges \X Nat \X (Nat \ {0})

ASSUME ScanAssumption ==
  /\ Kinds \subseteq OneRange \cup Processes
  /\ Page \in Nat \ {0} /\ Window \in Nat \ {0} /\ Window % Page = 0
  /\ Size \in [Ranges -> Nat] /\ Maps \subseteq Seq(Whole)
  /\ Lengths \subseteq Seq(1 .. Page) \ {<< >>}
  /\ Candidates \subseteq Matches
  /\ NoMatch \notin Matches /\ Absent \notin Matches \cup {NoMatch}

VARIABLES
  kind, lengths,         \* the operation: its kind and the lengths of its signatures
  place,                 \* [range, offset, index]: the place kept between polls
  found,                 \* the match that waits to be delivered, or NoMatch
  exhausted,             \* scanOnce has inspected everything
  result,                \* NoMatch while suspended, otherwise what is delivered
  map, present, protected, changes,
  steady                 \* ghost: candidates that have matched and been readable throughout

request  == <<kind, lengths>>
memory   == <<map, present, protected, changes>>
scanVars == <<request, place, found, exhausted, result, memory, steady>>

Fresh == [range |-> 0, offset |-> 0, index |-> 1]

-----------------------------------------------------------------------------
(* ScanProcessRange: the first match of one signature in a range from an   *)
(* offset on, within a limit of bytes.  The bytes are read page by page,   *)
(* each page with as many bytes of the next as a match may reach into, and *)
(* a page that cannot be read is left out.                                 *)

\* Fault: the window ends with the last candidate, not with what it may reach.
LimitOfCandidates(i) == Window

\* The last byte of a window, beyond its candidates, that a match may reach.
Limit(i) == lengths[i] + Window - 1

Smaller(m, n) == IF m <= n THEN m ELSE n

Inspected(r, from, limit, i) ==
  {c \in from .. from + limit - lengths[i] :
     LET read == from + ((c - from) \div Page) * Page
         to   == Smaller(read + Page + lengths[i] - 1, from + limit)
     IN \A b \in read .. to - 1 : <<r, b>> \notin protected}

FirstMatch(r, from, limit, i) ==
  LET matches == {c \in from .. from + limit - lengths[i] :
                    <<r, c, i>> \in present /\ c \in Inspected(r, from, limit, i)} IN
  IF matches = {} THEN NoMatch ELSE <<r, Min(matches), i>>

-----------------------------------------------------------------------------
(* The ghost: what a pass must not miss.                                   *)

Readable(r) == \A b \in 0 .. Size[r] - 1 : <<r, b>> \notin protected
Sought(c)  == c[3] <= Len(lengths) /\ c[2] + lengths[c[3]] <= Size[c[1]]
Visible     == {c \in present : Sought(c) /\ Contains(map, c[1]) /\ Readable(c[1])}

-----------------------------------------------------------------------------

ScanInit ==
  /\ kind \in Kinds
  /\ lengths \in {l \in Lengths : Len(l) = 1 \/ kind \in {"scanAny", "scanMemoryAny"}}
  /\ map \in IF kind \in Processes THEN Maps
             ELSE {<<r>> : r \in IF kind = "scanAny" THEN Whole ELSE Ranges}
  /\ present \in {{}} \cup {{c} : c \in Candidates}
  /\ protected \in Unreadables
  /\ changes = 0
  /\ place = Fresh /\ found = NoMatch /\ exhausted = FALSE /\ result = NoMatch
  /\ steady = Visible

Region     == map[1]
Remaining == Size[Region] - place.offset

Yield(p, f) == place' = p /\ found' = f /\ UNCHANGED result

\* The match of an earlier poll is delivered, and the place cleared for the
\* next execution of the await.
Deliver ==
  /\ result = NoMatch /\ IF kind = "scanOnce" THEN exhausted ELSE found # NoMatch
  /\ result' = IF found = NoMatch THEN Absent ELSE found
  /\ place' = Fresh /\ found' = NoMatch /\ exhausted' = FALSE
  /\ UNCHANGED <<request, memory, steady>>

Suspended == result = NoMatch /\ ~exhausted /\ found = NoMatch

\* emit_range_scan_exhausted
Exhausted == Yield(Fresh, NoMatch) /\ exhausted' = (kind = "scanOnce")

\* emit_cooperative_range_scan
ScanRange ==
  /\ kind \in {"scan", "scanOnce"} /\ Suspended
  /\ IF Remaining < lengths[1] \/ place.offset >= Size[Region]
       THEN Exhausted
       ELSE LET match == FirstMatch(Region, place.offset, Smaller(Remaining, Limit(1)), 1) IN
            IF match # NoMatch THEN Yield(place, match) /\ exhausted' = (kind = "scanOnce")
            ELSE IF Remaining <= Limit(1) THEN Exhausted
            ELSE Yield([place EXCEPT !.offset = @ + Window], NoMatch) /\ UNCHANGED exhausted
  /\ UNCHANGED <<request, memory, steady>>

\* emit_cooperative_module_scan_any: each signature in one window before the next.
ScanModule ==
  /\ kind = "scanAny" /\ Suspended
  /\ LET i == place.index IN
     IF Remaining <= 0 \/ Remaining < lengths[i] THEN Yield(Fresh, NoMatch)
     ELSE LET match == FirstMatch(Region, place.offset, Smaller(Remaining, Limit(i)), i) IN
          Yield(IF match # NoMatch THEN place
                ELSE IF i < Len(lengths) THEN [place EXCEPT !.index = i + 1]
                ELSE [place EXCEPT !.offset = @ + Window, !.index = 1], match)
  /\ UNCHANGED <<request, exhausted, memory, steady>>

\* The range to inspect, counted from the last: a new pass if there is none, or
\* if the list has become shorter.
Current ==
  IF place.range = 0 \/ place.range > Len(map) THEN [Fresh EXCEPT !.range = Len(map)] ELSE place

\* Fault: the offset is that of the range before.
NextRangeKeepingOffset(p) == [p EXCEPT !.range = @ - 1]

NextRange(p) == [Fresh EXCEPT !.range = p.range - 1]

\* emit_cooperative_process_scan and, with several signatures,
\* emit_cooperative_process_scan_any.
ScanProcess ==
  /\ kind \in Processes /\ Suspended
  /\ LET p == Current
         i == p.index
     IN IF p.range = 0 THEN Yield(Fresh, NoMatch)
        ELSE LET r         == map[p.range]
                 remaining == Size[r] - p.offset
             IN IF p.offset >= Size[r] \/ remaining < lengths[i] THEN Yield(NextRange(p), NoMatch)
                ELSE LET match == FirstMatch(r, p.offset, Smaller(remaining, Limit(i)), i) IN
                     Yield(IF match # NoMatch THEN place
                           ELSE IF i < Len(lengths) THEN [p EXCEPT !.index = i + 1]
                           ELSE IF remaining <= Limit(i) THEN NextRange(p)
                           ELSE [p EXCEPT !.offset = @ + Window, !.index = 1], match)
  /\ UNCHANGED <<request, exhausted, memory, steady>>

\* The game goes on.
Game ==
  /\ changes < MaxChanges /\ changes' = changes + 1
  /\ \/ /\ present' \in {{}} \cup {{c} : c \in Candidates}
        /\ UNCHANGED <<map, protected>>
     \/ protected' \in Unreadables /\ UNCHANGED <<map, present>>
     \/ kind \in Processes /\ map' \in Maps /\ UNCHANGED <<present, protected>>
  /\ memory' # memory
  /\ UNCHANGED <<request, place, found, exhausted, result>>
  /\ steady' = IF result = NoMatch THEN steady \cap Visible' ELSE steady

PollScan == ScanRange \/ ScanModule \/ ScanProcess \/ Deliver

ScanNext == PollScan \/ Game

\* The host calls update, which polls the scan.
ScanSpec == ScanInit /\ [][ScanNext]_scanVars /\ WF_scanVars(PollScan)

-----------------------------------------------------------------------------

\* scanOnce reports absence only after one complete pass: no match that was there
\* and readable all the time is passed over at the border of two windows or of
\* two reads, or in the tail of the range.
AbsenceIsEvidence == result = Absent => steady = {}

\* What a poll finds is a match of a signature that was asked for, wholly inside a
\* range that is mapped, and every byte of it could be read, however the pages lie.
MatchIsWhole(m) ==
  /\ m \in present /\ Contains(map, m[1]) /\ m[2] + lengths[m[3]] <= Size[m[1]]
  /\ \A b \in m[2] .. m[2] + lengths[m[3]] - 1 : <<m[1], b>> \notin protected

FoundIsWhole == [][found' \notin {found, NoMatch} => MatchIsWhole(found')]_scanVars

\* "The operation suspends until a match exists", and no longer: a match that is
\* there to stay is found, whatever ranges were mapped and protected before, by
\* the signature after whichever others.
MatchesAreFound ==
  kind # "scanOnce" => (<>[](Visible # {} \/ result # NoMatch) => <>(result # NoMatch))
=============================================================================
