-------------------------- MODULE ProcessSelection --------------------------
(***************************************************************************)
(* How an update acquires its process (emit_process_attachment): by name,  *)
(* or, for a script with `selectProcess`, by listing the processes of each *)
(* declared name in two host calls and asking the block about each one.    *)
(* Processes start and exit between any two host calls.                    *)
(*                                                                         *)
(* Every candidate is attached before it is asked about, so a handle is    *)
(* held for it until it is promoted or rejected.                           *)
(***************************************************************************)
EXTENDS Integers, FiniteSets, Sequences

CONSTANTS
  Pids,                \* process instances
  NameCount, NameOf,   \* declared names 1 .. NameCount, and each instance's name
  Selectors,           \* whether the script has a selectProcess block: the cases considered
  QueryMayFail,        \* the host may fail to list processes
  Wanted,              \* the instances its selectProcess accepts
  list_pointer,        \* where the host writes the PID list
  PageBytes,           \* bytes of a Wasm page (65536)
  AddressBytes,        \* bytes a 32-bit pointer reaches (2^32)
  InitialPages, MaxPages,
  None

ASSUME ConstantsAssumption ==
  /\ IsFiniteSet(Pids)
  /\ NameCount \in Nat \ {0} /\ NameOf \in [Pids -> 1 .. NameCount]
  /\ Selectors \subseteq BOOLEAN /\ QueryMayFail \in BOOLEAN /\ Wanted \subseteq Pids
  /\ {list_pointer, PageBytes, AddressBytes, InitialPages, MaxPages} \subseteq Nat
  /\ PageBytes > 0 /\ 0 < list_pointer /\ list_pointer < InitialPages * PageBytes
  /\ InitialPages <= MaxPages /\ MaxPages * PageBytes <= AddressBytes
  /\ None \notin Pids \cup Nat

VARIABLES
  has_selector,        \* the script, chosen once
  running,             \* instances that are alive
  handles,             \* open handles per instance, as the host counts them
  pages,               \* pages of guest memory
  process, process_name,
  pc, name,            \* the step of the update and the declared name it is at
  capacity, candidates, index,
  tried                \* ghost: the candidates attached, or found gone, so far

vars == <<has_selector, running, handles, pages, process, process_name, pc, name,
          capacity, candidates, index, tried>>

Bytes == 8             \* one PID of the list
maximum_count == (AddressBytes - 1 - list_pointer) \div Bytes

Named(n) == {p \in running : NameOf[p] = n}
Orders(S) == {s \in [1 .. Cardinality(S) -> S] : \A i, j \in DOMAIN s : s[i] = s[j] => i = j}

Init ==
  /\ has_selector \in Selectors
  /\ running \in SUBSET Pids
  /\ handles = [p \in Pids |-> 0]
  /\ pages = InitialPages
  /\ process = None /\ process_name = None
  /\ pc = "host" /\ name = 1
  /\ capacity = 0 /\ candidates = <<>> /\ index = 1 /\ tried = {}

-----------------------------------------------------------------------------
StartProcess(p) ==
  /\ p \notin running /\ handles[p] = 0
  /\ running' = running \cup {p}
  /\ UNCHANGED <<handles, pages, process, process_name, pc, name, capacity,
                 candidates, index, tried>>

ExitProcess(p) ==
  /\ p \in running
  /\ running' = running \ {p}
  /\ UNCHANGED <<handles, pages, process, process_name, pc, name, capacity,
                 candidates, index, tried>>

\* The rest of the update releases a closed process (Attachment!ProcessClosed).
ReleaseClosed ==
  /\ pc = "host" /\ process # None /\ process \notin running
  /\ handles' = [handles EXCEPT ![process] = @ - 1]
  /\ process' = None /\ process_name' = None
  /\ UNCHANGED <<running, pages, pc, name, capacity, candidates, index, tried>>

-----------------------------------------------------------------------------
Local == <<capacity, candidates, index, tried>>

BeginUpdate ==
  /\ pc = "host" /\ process = None
  /\ name' = 1
  /\ pc' = IF has_selector THEN "size" ELSE "attach"
  /\ UNCHANGED <<running, handles, pages, process, process_name, Local>>

\* Fault: the last declared name is never reached.
NextNameButLast ==
  IF name + 1 < NameCount
    THEN name' = name + 1 /\ pc' = IF has_selector THEN "size" ELSE "attach"
    ELSE pc' = "host" /\ UNCHANGED name

\* Give up this name for the present update and go on to the next one.
NextName ==
  /\ IF name < NameCount
       THEN name' = name + 1 /\ pc' = IF has_selector THEN "size" ELSE "attach"
       ELSE pc' = "host" /\ UNCHANGED name

AttachTo(p) ==
  /\ process' = p /\ process_name' = name
  /\ handles' = [handles EXCEPT ![p] = @ + 1]

\* Without selectProcess the host attaches to any process of the name.
AttachByName ==
  /\ pc = "attach"
  /\ IF Named(name) # {}
       THEN /\ \E p \in Named(name) : AttachTo(p)
            /\ pc' = "host" /\ UNCHANGED name
       ELSE NextName /\ UNCHANGED <<process, process_name, handles>>
  /\ UNCHANGED <<running, pages, Local>>

\* Fault: the page that holds the end of the list is not counted.
required_pages_short(count) == (Bytes * count + list_pointer - 1) \div PageBytes

required_pages(count) == (Bytes * count + list_pointer - 1) \div PageBytes + 1

\* The first query only counts; memory is grown to hold that many PIDs.
QuerySize ==
  /\ pc = "size"
  /\ capacity' = Cardinality(Named(name))
  /\ \/ /\ capacity' > maximum_count
        /\ NextName /\ UNCHANGED pages
     \/ /\ capacity' <= maximum_count /\ required_pages(capacity') > MaxPages
        /\ pc' = "host" /\ UNCHANGED <<pages, name>>        \* memory.grow failed
     \/ /\ capacity' <= maximum_count /\ required_pages(capacity') <= MaxPages
        /\ pages' = IF required_pages(capacity') > pages
                      THEN required_pages(capacity') ELSE pages
        /\ pc' = "list" /\ UNCHANGED name
  /\ UNCHANGED <<running, handles, process, process_name, candidates, index, tried>>

QueryFails ==
  /\ QueryMayFail /\ pc \in {"size", "list"}
  /\ NextName
  /\ UNCHANGED <<running, handles, pages, process, process_name, Local>>

\* The second query fills the list, unless processes started in between.
QueryList ==
  /\ pc = "list"
  /\ IF Cardinality(Named(name)) > capacity
       THEN NextName /\ UNCHANGED <<candidates, index, tried>>
       ELSE /\ candidates' \in Orders(Named(name))
            /\ index' = 1 /\ tried' = {}
            /\ pc' = "loop" /\ UNCHANGED name
  /\ UNCHANGED <<running, handles, pages, process, process_name, capacity>>

\* A candidate may have exited since it was listed.
TryCandidate ==
  /\ pc = "loop" /\ index <= Len(candidates)
  /\ tried' = tried \cup {candidates[index]}
  /\ IF candidates[index] \in running
       THEN AttachTo(candidates[index]) /\ pc' = "select" /\ UNCHANGED index
       ELSE index' = index + 1 /\ UNCHANGED <<handles, process, process_name, pc>>
  /\ UNCHANGED <<running, pages, name, capacity, candidates>>

PromoteCandidate ==
  /\ pc = "select" /\ process \in Wanted
  /\ pc' = "host"
  /\ UNCHANGED <<running, handles, pages, process, process_name, name, Local>>

\* Fault: the rejected candidate is not detached.
RejectCandidateKeepingHandle ==
  /\ pc = "select" /\ process \notin Wanted \cap running
  /\ process' = None /\ process_name' = None
  /\ index' = index + 1
  /\ pc' = "loop"
  /\ UNCHANGED <<running, handles, pages, name, capacity, candidates, tried>>

\* The block returned false, fell through, or failed: its reads of a process
\* that exited may fail even when it would have been accepted.
RejectCandidate ==
  /\ pc = "select" /\ process \notin Wanted \cap running
  /\ handles' = [handles EXCEPT ![process] = @ - 1]
  /\ process' = None /\ process_name' = None
  /\ index' = index + 1
  /\ pc' = "loop"
  /\ UNCHANGED <<running, pages, name, capacity, candidates, tried>>

ListExhausted ==
  /\ pc = "loop" /\ index > Len(candidates)
  /\ NextName
  /\ UNCHANGED <<running, handles, pages, process, process_name, Local>>

Environment ==
  /\ \/ \E p \in Pids : StartProcess(p) \/ ExitProcess(p)
     \/ ReleaseClosed
  /\ UNCHANGED has_selector

Update ==
  /\ \/ BeginUpdate \/ AttachByName
     \/ QuerySize \/ QueryFails \/ QueryList
     \/ TryCandidate \/ PromoteCandidate \/ RejectCandidate \/ ListExhausted
  /\ UNCHANGED has_selector

Next == Environment \/ Update

Spec == Init /\ [][Next]_vars /\ WF_vars(Update)

-----------------------------------------------------------------------------
(* Properties. *)

TypeOK ==
  /\ has_selector \in Selectors
  /\ running \subseteq Pids
  /\ handles \in [Pids -> Nat]
  /\ pages \in InitialPages .. MaxPages
  /\ process \in Pids \cup {None}
  /\ process_name \in 1 .. NameCount \cup {None}
  /\ pc \in {"host", "attach", "size", "list", "loop", "select"}
  /\ name \in 1 .. NameCount
  /\ capacity \in Nat /\ index \in Nat \ {0}
  /\ candidates \in Seq(Pids) /\ tried \subseteq Pids

\* Whatever is listed, attached, rejected or found gone, the module holds one
\* handle for its process and none for any other.
NoHandleLeaked ==
  \A p \in Pids : handles[p] = IF p = process THEN 1 ELSE 0

\* The host may write `capacity` PIDs only into memory the module has.
ListFitsMemory ==
  /\ pc \in {"list", "loop", "select"} =>
       list_pointer + Bytes * capacity <= pages * PageBytes
  /\ pc \in {"loop", "select"} => Len(candidates) <= capacity

\* Between updates a process is held only if selectProcess accepted it, under
\* the declared name it was found by.
PromotedWasAccepted ==
  pc = "host" /\ process # None =>
    /\ has_selector => process \in Wanted
    /\ process_name = NameOf[process]

\* One rejected, failing or vanished candidate does not keep another PID of
\* the list from being tried.
EveryCandidateTried ==
  [][pc = "loop" /\ pc' \notin {"loop", "select"} =>
       \A i \in DOMAIN candidates : candidates[i] \in tried]_vars

\* When processes stop starting and exiting, the lists they make have room and
\* queries stop failing, an accepted process is found.  Without selectProcess
\* any process is accepted.
Accepted == IF has_selector THEN Wanted ELSE Pids

Room == \A n \in 1 .. NameCount :
          LET count == Cardinality(Named(n)) IN
          count > maximum_count \/ required_pages(count) <= MaxPages

Listable == {p \in running : Cardinality(Named(NameOf[p])) <= maximum_count}

WantedIsFound ==
  (<>[][FALSE]_running /\ <>[]Room /\ <>[][~QueryFails]_vars) =>
    <>[](process # None \/ Listable \cap Accepted = {})
=============================================================================
