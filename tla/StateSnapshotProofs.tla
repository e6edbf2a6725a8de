------------------------- MODULE StateSnapshotProofs -------------------------
(***************************************************************************)
(* Proofs of the safety properties of StateSnapshot, for every set of      *)
(* fields, order, shape, filter and value.                                 *)
(***************************************************************************)
EXTENDS StateSnapshot, TLAPS

-----------------------------------------------------------------------------
(* The fields polled so far, and what the order says of them.                *)

DoneTo(n) == {Order[i] : i \in 1..n-1}

Done == DoneTo(next)

Accepted(f) == poll_result[f] \notin {Failed, Unread}

\* The predecessors of a field in the order are those polled before it.
LEMMA PolledBefore ==
  ASSUME NEW n \in 1..Len(Order)
  PROVE  Before(Order[n]) = DoneTo(n)
<1>1. Len(Order) \in Nat
  BY ConstantsAssumption
<1>2. ASSUME NEW j \in 1..Len(Order), NEW k \in j+1..Len(Order), Order[k] = Order[n]
      PROVE  j \in 1..n-1
  BY <1>1, <1>2, ConstantsAssumption
<1>3. ASSUME NEW j \in 1..n-1
      PROVE  j \in 1..Len(Order) /\ n \in j+1..Len(Order)
  BY <1>1
<1> QED
  BY <1>1, <1>2, <1>3 DEF Before, DoneTo

\* One more field is polled at a time, and no field twice.
LEMMA PollOne ==
  ASSUME NEW n \in 1..Len(Order)
  PROVE  /\ Order[n] \in Fields /\ Order[n] \notin DoneTo(n)
         /\ DoneTo(n + 1) = DoneTo(n) \cup {Order[n]}
<1>1. Len(Order) \in Nat /\ Order \in [1..Len(Order) -> Fields]
  BY ConstantsAssumption
<1>2. \A i \in 1..n-1 : i \in 1..Len(Order) /\ i # n
  BY <1>1
<1>3. 1..(n+1)-1 = (1..n-1) \cup {n}
  BY <1>1
<1> QED
  BY <1>1, <1>2, <1>3, ConstantsAssumption DEF DoneTo

\* At the start none was, at the end all were.
LEMMA PollEnds == DoneTo(1) = {} /\ DoneTo(Len(Order) + 1) = Fields
<1>1. Len(Order) \in Nat /\ Order \in [1..Len(Order) -> Fields]
  BY ConstantsAssumption
<1>2. 1..(Len(Order)+1)-1 = 1..Len(Order) /\ 1..1-1 = {}
  BY <1>1
<1> QED
  BY <1>1, <1>2, ConstantsAssumption DEF DoneTo

\* What a field depends on is polled before it.
LEMMA DependenciesDone ==
  ASSUME NEW n \in 1..Len(Order)+1
  PROVE  /\ \A f \in DoneTo(n) : f \in Fields /\ Dependencies[f] \subseteq DoneTo(n)
         /\ n <= Len(Order) => Dependencies[Order[n]] \subseteq DoneTo(n)
<1>1. Len(Order) \in Nat /\ Order \in [1..Len(Order) -> Fields]
  BY ConstantsAssumption
<1>2. ASSUME NEW i \in 1..n-1
      PROVE  Order[i] \in Fields /\ Dependencies[Order[i]] \subseteq DoneTo(n)
  <2>1. i \in 1..Len(Order)
    BY <1>1
  <2>2. Before(Order[i]) = DoneTo(i)
    BY <2>1, PolledBefore
  <2>3. 1..i-1 \subseteq 1..n-1
    BY <1>1
  <2>4. DoneTo(i) \subseteq DoneTo(n)
    BY <2>3 DEF DoneTo
  <2> QED
    BY <1>1, <2>1, <2>2, <2>4, ConstantsAssumption
<1>3. ASSUME n <= Len(Order)
      PROVE  Dependencies[Order[n]] \subseteq DoneTo(n)
  <2>1. n \in 1..Len(Order)
    BY <1>1, <1>3
  <2> QED
    BY <1>1, <2>1, PolledBefore, ConstantsAssumption
<1> QED
  BY <1>2, <1>3 DEF DoneTo

-----------------------------------------------------------------------------
(* What polling a field does to the shape.                                   *)

\* The slot of a field that is no discriminator is none of a discriminator.
LEMMA ShapeKept ==
  ASSUME NEW s \in Snapshots, NEW f \in Fields \ Discriminators, NEW v
  PROVE  \A g \in Fields : Holds(g, [s EXCEPT ![Storage[f]] = v]) <=> Holds(g, s)
<1>1. \A d \in Discriminators : Storage[d] # Storage[f] /\ Storage[d] \in Slots
  BY ConstantsAssumption DEF Slots
<1>2. \A d \in Discriminators : [s EXCEPT ![Storage[f]] = v][Storage[d]] = s[Storage[d]]
  BY <1>1 DEF Snapshots
<1> QED
  BY <1>2 DEF Holds

\* Filling the next field changes the existence of none polled so far.
LEMMA ShapeSettled ==
  ASSUME NEW n \in 1..Len(Order), NEW s \in Snapshots, NEW v
  PROVE  \A g \in DoneTo(n) \cup {Order[n]} :
           Holds(g, [s EXCEPT ![Storage[Order[n]]] = v]) <=> Holds(g, s)
<1>1. Order[n] \in Fields /\ Order[n] \notin DoneTo(n)
  BY PollOne
<1>2. \A g \in DoneTo(n) \cup {Order[n]} : g \in Fields /\ Dependencies[g] \subseteq DoneTo(n)
  <2>1. Len(Order) \in Nat
    BY ConstantsAssumption
  <2>2. n \in 1..Len(Order)+1 /\ n <= Len(Order)
    BY <2>1
  <2> QED
    BY <1>1, <2>2, DependenciesDone
<1>3. CASE Order[n] \notin Discriminators
  BY <1>1, <1>2, <1>3, ShapeKept
<1>4. CASE Order[n] \in Discriminators
  <2>1. \A g \in DoneTo(n) \cup {Order[n]} : g \notin Conditional
    BY <1>1, <1>2, <1>4, ConstantsAssumption
  <2> QED
    BY <2>1 DEF Holds
<1> QED
  BY <1>3, <1>4

-----------------------------------------------------------------------------
(* The invariant of polling.                                                 *)

\* Between two updates no local of the last one is left.
HostIsIdle ==
  pc = "host" => /\ next = 1
                 /\ \A f \in Fields : poll_result[f] = Unread
                 /\ \A m \in Statics : host_reads[m] = {}

\* The candidate is a struct of its own until it is published, and only the
\* first snapshot is `old` as well.
CandidateIsApart ==
  /\ pc = "poll" => candidate_state \notin {current, old}
  /\ pc = "attached" => current # old

\* The results are those of the fields polled so far that exist.
ResultsSoFar ==
  pc = "poll" => \A f \in Fields :
    /\ f \notin Done => poll_result[f] = Unread
    /\ f \in Done /\ Holds(f, Candidate) => poll_result[f] # Unread

\* DependenciesAreFresh, while the poll goes on.
FreshSoFar ==
  pc \in {"poll", "attached"} =>
    \A f \in Fields : Accepted(f) => \A d \in Dependencies[f] : Accepted(d)

\* A slot of the read cache holds the one result the host gave, and every field
\* accepted through it has that result.
CacheAgrees ==
  pc = "poll" =>
    /\ active
    /\ \A m \in Statics :
         /\ cache[m] = Unread => host_reads[m] = {}
         /\ cache[m] # Unread => host_reads[m] = {cache[m]}
    /\ \A f \in Fields \ Discriminators :
         ReadsStatic[f] # NoStatic /\ Accepted(f) => poll_result[f] = cache[ReadsStatic[f]]

IInv ==
  /\ SnapshotTypeOK /\ HostIsIdle /\ CandidateIsApart /\ ResultsSoFar /\ FreshSoFar
  /\ CacheAgrees /\ CacheIsClosed

\* What polling a field reads and does to the cache.
LEMMA PollReads ==
  ASSUME IInv, NEW f \in Fields, NEW r, Poll(f, r), r = Failed \/ r \in Readable(f)
  PROVE  /\ pc = "poll" /\ next \in 1..Len(Order) /\ f = Order[next] /\ Holds(f, Candidate)
         /\ cache' \in [Statics -> Values \cup {Failed, Unread}]
         /\ r # Failed => \A d \in Dependencies[f] : poll_result[d] # Failed
         /\ \/ cache' = cache
            \/ /\ f \notin Discriminators /\ ReadsStatic[f] \in Statics
               /\ cache[ReadsStatic[f]] = Unread /\ cache'[ReadsStatic[f]] # Unread
               /\ cache' = [cache EXCEPT ![ReadsStatic[f]] = cache'[ReadsStatic[f]]]
         /\ (r # Failed /\ f \notin Discriminators /\ ReadsStatic[f] # NoStatic)
              => cache'[ReadsStatic[f]] = r /\ r # Unread
<1>1. pc = "poll" /\ next \in 1..Len(Order) /\ f = Order[next] /\ Holds(f, Candidate)
  BY ConstantsAssumption DEF IInv, SnapshotTypeOK, Poll
<1>2. active /\ cache \in [Statics -> Values \cup {Failed, Unread}]
  BY <1>1 DEF IInv, SnapshotTypeOK, CacheAgrees
<1>3. CASE \E d \in Dependencies[f] : poll_result[d] = Failed
  BY <1>1, <1>2, <1>3 DEF Poll
<1>4. CASE ~\E d \in Dependencies[f] : poll_result[d] = Failed
  <2>1. PICK raw \in Readable(f) \cup {Failed} :
          RawRead(f, raw) /\ (r = raw \/ (f \in Filtered /\ r = Failed))
    BY <1>4 DEF Poll
  <2>2. CASE f \in Discriminators \/ ReadsStatic[f] = NoStatic
    BY <1>1, <1>2, <1>4, <2>1, <2>2 DEF RawRead
  <2>3. CASE f \notin Discriminators /\ ReadsStatic[f] # NoStatic
    <3>1. ReadsStatic[f] \in Statics /\ StaticRead(ReadsStatic[f], raw)
      BY <2>1, <2>3, ConstantsAssumption DEF RawRead
    <3>2. Unread \notin Values \cup {Failed}
      BY ConstantsAssumption
    <3>3. CASE cache[ReadsStatic[f]] # Unread
      BY <1>1, <1>2, <1>4, <2>1, <3>1, <3>3 DEF StaticRead
    <3>4. CASE cache[ReadsStatic[f]] = Unread
      <4>1. raw \in Values \cup {Failed} /\ cache' = [cache EXCEPT ![ReadsStatic[f]] = raw]
        BY <3>1, <3>4 DEF StaticRead
      <4>2. cache'[ReadsStatic[f]] = raw
        BY <1>2, <3>1, <4>1
      <4> QED
        BY <1>1, <1>2, <1>4, <2>1, <2>3, <3>1, <3>2, <3>4, <4>1, <4>2
    <3> QED
      BY <3>3, <3>4
  <2> QED
    BY <2>2, <2>3
<1> QED
  BY <1>3, <1>4

LEMMA Initially == SnapshotInit => IInv
<1> SUFFICES ASSUME SnapshotInit PROVE IInv
  OBVIOUS
<1>1. Len(Order) \in Nat
  BY ConstantsAssumption
<1>2. Blank \in Snapshots
  BY DEF Blank, Snapshots, Contents
<1>3. SnapshotTypeOK
  <2>1. heap \in [Objects -> Snapshots] /\ state_ready \in BOOLEAN /\ active \in BOOLEAN
    BY <1>2 DEF SnapshotInit
  <2>4. current \in Objects /\ old \in Objects /\ candidate_state \in Objects
    BY DEF SnapshotInit, Objects
  <2>2. /\ next \in 1..Len(Order)+1
        /\ poll_result \in [Fields -> Values \cup Variants \cup {Failed, Unread}]
    BY <1>1 DEF SnapshotInit
  <2>3. /\ cache \in [Statics -> Values \cup {Failed, Unread}]
        /\ host_reads \in [Statics -> SUBSET (Values \cup {Failed})]
    BY DEF SnapshotInit
  <2> QED
    BY <2>1, <2>2, <2>3, <2>4 DEF SnapshotInit, SnapshotTypeOK
<1> QED
  BY <1>3 DEF SnapshotInit, IInv, HostIsIdle, CandidateIsApart, ResultsSoFar, FreshSoFar,
              Accepted, CacheAgrees, CacheIsClosed

\* The candidate after the slot of the next field was filled.
LEMMA Filled ==
  ASSUME IInv, NEW f \in Fields, NEW r, NEW v \in Contents, Proceed(f, r, v)
  PROVE  /\ Candidate \in Snapshots /\ candidate_state' = candidate_state
         /\ heap' \in [Objects -> Snapshots]
         /\ Candidate' = [Candidate EXCEPT ![Storage[f]] = v]
         /\ \A o \in Objects \ {candidate_state} : heap'[o] = heap[o]
<1>1. heap \in [Objects -> Snapshots] /\ candidate_state \in Objects /\ Storage[f] \in Slots
  BY DEF IInv, SnapshotTypeOK, Slots
<1>2. /\ candidate_state' = candidate_state
      /\ heap' = [heap EXCEPT ![candidate_state][Storage[f]] = v]
  BY DEF Proceed
<1>3. [Candidate EXCEPT ![Storage[f]] = v] \in Snapshots
  BY <1>1 DEF Candidate, Snapshots
<1> QED
  BY <1>1, <1>2, <1>3 DEF Candidate

LEMMA ProceedStep ==
  ASSUME IInv, NEW f \in Fields, NEW r \in Readable(f) \cup {Failed}, NEW v \in Contents,
         Poll(f, r), Proceed(f, r, v)
  PROVE  IInv'
<1> USE DEF IInv
<1>1. /\ pc = "poll" /\ next \in 1..Len(Order) /\ f = Order[next] /\ Holds(f, Candidate)
      /\ cache' \in [Statics -> Values \cup {Failed, Unread}]
      /\ r # Failed => \A d \in Dependencies[f] : poll_result[d] # Failed
  BY PollReads
<1>2. /\ next' = next + 1 /\ pc' = "poll"
      /\ current' = current /\ old' = old /\ state_ready' = state_ready /\ active' = active
      /\ poll_result' = [poll_result EXCEPT ![f] = r]
  BY <1>1 DEF Proceed, globals
<1>3. /\ Candidate \in Snapshots /\ candidate_state' = candidate_state
      /\ heap' \in [Objects -> Snapshots]
      /\ Candidate' = [Candidate EXCEPT ![Storage[f]] = v]
  BY Filled
<1>4. f \notin Done /\ Done' = Done \cup {f}
  BY <1>1, <1>2, PollOne DEF Done, DoneTo
<1>5. r \in Values \cup Variants \cup {Failed} /\ r # Unread
  BY ConstantsAssumption DEF Readable
<1>6. SnapshotTypeOK'
  <2>1. host_reads' \in [Statics -> SUBSET (Values \cup {Failed})]
    <3>1. \/ cache' = cache
          \/ /\ ReadsStatic[f] \in Statics /\ cache'[ReadsStatic[f]] # Unread
             /\ cache' = [cache EXCEPT ![ReadsStatic[f]] = cache'[ReadsStatic[f]]]
      BY PollReads
    <3>2. host_reads \in [Statics -> SUBSET (Values \cup {Failed})]
      BY DEF SnapshotTypeOK
    <3> QED
      BY <1>1, <3>1, <3>2 DEF Proceed
  <2>2. next' \in 1..Len(Order)+1 /\ Len(Order) \in Nat
    BY <1>1, <1>2, ConstantsAssumption
  <2> QED
    BY <1>1, <1>2, <1>3, <1>5, <2>1, <2>2 DEF SnapshotTypeOK
<1>7. ResultsSoFar'
  <2>1. \A g \in Done \cup {f} : Holds(g, Candidate)' <=> Holds(g, Candidate)
    <3>1. \A g \in Done \cup {f} : Holds(g, [Candidate EXCEPT ![Storage[f]] = v])
                                      <=> Holds(g, Candidate)
      BY <1>1, <1>3, ShapeSettled DEF Done
    <3> QED
      BY <1>3, <3>1 DEF Holds
  <2> QED
    BY <1>1, <1>2, <1>4, <1>5, <2>1 DEF ResultsSoFar, SnapshotTypeOK
<1>8. FreshSoFar'
  <2>1. Dependencies[f] \subseteq Done /\ Dependencies[f] \subseteq Fields
        /\ \A g \in Done : Dependencies[g] \subseteq Done
    <3>1. next \in 1..Len(Order)+1 /\ next <= Len(Order)
      BY <1>1, ConstantsAssumption
    <3> QED
      BY <1>1, <3>1, DependenciesDone, ConstantsAssumption DEF Done
  <2>2. ASSUME r # Failed, NEW d \in Dependencies[f]
        PROVE  Accepted(d)
    <3>1. d \in Conditional => f \in Conditional /\ Alternatives[f] \subseteq Alternatives[d]
      BY <2>1, <2>2, ConstantsAssumption
    <3>2. Holds(d, Candidate)
      BY <1>1, <3>1 DEF Holds
    <3> QED
      BY <1>1, <2>1, <2>2, <3>2 DEF ResultsSoFar, Accepted
  <2>3. \A g \in Fields : Accepted(g) /\ g # f => g \in Done
    BY <1>1 DEF ResultsSoFar, Accepted
  <2>4. \A g \in Fields : g # f => poll_result'[g] = poll_result[g]
    BY <1>2 DEF SnapshotTypeOK
  <2>5. poll_result'[f] = r
    BY <1>2 DEF SnapshotTypeOK
  <2>6. \A d \in Dependencies[f] : d # f
    BY <1>4, <2>1
  <2>7. ASSUME NEW g \in Fields, Accepted(g)', NEW d \in Dependencies[g]
        PROVE  Accepted(d)'
    <3>1. CASE g = f
      BY <1>5, <2>1, <2>2, <2>4, <2>5, <2>6, <2>7, <3>1 DEF Accepted
    <3>2. CASE g # f
      <4>1. Accepted(g) /\ d \in Done /\ d \in Fields /\ d # f
        BY <1>4, <2>1, <2>3, <2>4, <2>7, <3>2, ConstantsAssumption DEF Accepted
      <4>2. Accepted(d)
        BY <1>1, <2>7, <4>1 DEF FreshSoFar
      <4> QED
        BY <2>4, <4>1, <4>2 DEF Accepted
    <3> QED
      BY <3>1, <3>2
  <2> QED
    BY <2>7 DEF FreshSoFar
<1>9. CacheAgrees'
  <2>1. /\ active /\ \A m \in Statics :
             /\ cache[m] = Unread => host_reads[m] = {}
             /\ cache[m] # Unread => host_reads[m] = {cache[m]}
    BY <1>1 DEF CacheAgrees
  <2>2. \A g \in Fields \ Discriminators :
          ReadsStatic[g] # NoStatic /\ Accepted(g) =>
            poll_result[g] = cache[ReadsStatic[g]] /\ ReadsStatic[g] \in Statics
    BY <1>1, ConstantsAssumption DEF CacheAgrees
  <2>3. r # Failed /\ f \notin Discriminators /\ ReadsStatic[f] # NoStatic
          => cache'[ReadsStatic[f]] = r
    BY PollReads
  <2>4. /\ cache \in [Statics -> Values \cup {Failed, Unread}]
        /\ host_reads \in [Statics -> SUBSET (Values \cup {Failed})]
        /\ poll_result \in [Fields -> Values \cup Variants \cup {Failed, Unread}]
    BY DEF SnapshotTypeOK
  <2>5. CASE cache' = cache
    <3>1. host_reads' = host_reads
      BY <2>5 DEF Proceed
    <3> QED
      BY <1>2, <2>1, <2>2, <2>3, <2>4, <2>5, <3>1 DEF CacheAgrees, Accepted
  <2>6. CASE /\ ReadsStatic[f] \in Statics
             /\ cache[ReadsStatic[f]] = Unread /\ cache'[ReadsStatic[f]] # Unread
             /\ cache' = [cache EXCEPT ![ReadsStatic[f]] = cache'[ReadsStatic[f]]]
    <3> DEFINE m0 == ReadsStatic[f]
               x  == cache'[ReadsStatic[f]]
    <3>1. /\ host_reads' = [host_reads EXCEPT ![m0] = @ \cup {x}]
          /\ host_reads[m0] = {}
      BY <2>1, <2>6 DEF Proceed
    <3>2. \A m \in Statics : m # m0 => cache'[m] = cache[m] /\ host_reads'[m] = host_reads[m]
      BY <2>4, <2>6, <3>1
    <3>3. host_reads'[m0] = {x}
      BY <2>4, <2>6, <3>1
    <3>4. m0 # NoStatic
      BY <2>6, ConstantsAssumption
    <3>5. \A g \in Fields \ Discriminators : ReadsStatic[g] = m0 => ~Accepted(g)
      <4> SUFFICES ASSUME NEW g \in Fields \ Discriminators, ReadsStatic[g] = m0, Accepted(g)
                   PROVE  FALSE
        OBVIOUS
      <4>1. poll_result[g] = cache[m0] /\ cache[m0] = Unread
        BY <2>2, <2>6, <3>4
      <4> QED
        BY <4>1 DEF Accepted
    <3> HIDE DEF m0, x
    <3>6. \A m \in Statics : /\ cache'[m] = Unread => host_reads'[m] = {}
                             /\ cache'[m] # Unread => host_reads'[m] = {cache'[m]}
      BY <2>1, <2>6, <3>2, <3>3 DEF m0, x
    <3>7. ASSUME NEW g \in Fields \ Discriminators, ReadsStatic[g] # NoStatic, Accepted(g)'
          PROVE  poll_result'[g] = cache'[ReadsStatic[g]]
      <4>1. CASE g = f
        BY <1>2, <2>3, <2>4, <3>7, <4>1 DEF Accepted
      <4>2. CASE g # f
        BY <1>2, <2>2, <2>4, <3>2, <3>5, <3>7, <4>2 DEF Accepted
      <4> QED
        BY <4>1, <4>2
    <3> QED
      BY <1>2, <2>1, <3>6, <3>7 DEF CacheAgrees
  <2> QED
    BY <2>5, <2>6, PollReads
<1>10. HostIsIdle' /\ CandidateIsApart' /\ CacheIsClosed'
  BY <1>1, <1>2, <1>3 DEF HostIsIdle, CandidateIsApart, CacheIsClosed
<1> QED
  BY <1>6, <1>7, <1>8, <1>9, <1>10

\* There is always a struct that neither global refers to.
LEMMA BeginPollStep ==
  ASSUME IInv, BeginPoll
  PROVE  IInv'
<1> USE DEF IInv
<1>1. candidate_state' \in Objects /\ candidate_state' \notin {current, old}
  <2>1. \E o \in Objects : o \notin {current, old}
    BY DEF SnapshotTypeOK, Objects
  <2> QED
    BY <2>1 DEF BeginPoll
<1>2. /\ pc = "host" /\ pc' = "poll" /\ active' = TRUE /\ cache' = [m \in Statics |-> Unread]
      /\ heap' = [heap EXCEPT ![candidate_state'] = Blank]
      /\ current' = current /\ old' = old /\ state_ready' = state_ready
      /\ UNCHANGED <<next, poll_result, host_reads>>
  BY DEF BeginPoll, ClearReads, globals
<1>3. Blank \in Snapshots
  BY DEF Blank, Snapshots, Contents
<1>4. heap' \in [Objects -> Snapshots] /\ cache' \in [Statics -> Values \cup {Failed, Unread}]
  BY <1>1, <1>2, <1>3 DEF SnapshotTypeOK
<1>5. SnapshotTypeOK'
  BY <1>1, <1>2, <1>4 DEF SnapshotTypeOK
<1>6. /\ \A f \in Fields : poll_result'[f] = Unread
      /\ \A m \in Statics : host_reads'[m] = {}
      /\ Done' = {}
  BY <1>2, PollEnds DEF HostIsIdle, Done, DoneTo
<1>7. ResultsSoFar' /\ FreshSoFar'
  BY <1>6 DEF ResultsSoFar, FreshSoFar, Accepted
<1>8. CacheAgrees'
  BY <1>2, <1>6 DEF CacheAgrees, Accepted
<1> QED
  BY <1>1, <1>2, <1>5, <1>7, <1>8 DEF HostIsIdle, CandidateIsApart, CacheIsClosed

LEMMA SkipStep ==
  ASSUME IInv, FieldSkipped
  PROVE  IInv'
<1> USE DEF IInv
<1>1. /\ pc = "poll" /\ next \in 1..Len(Order) /\ next' = next + 1
      /\ ~Holds(Order[next], Candidate)
      /\ UNCHANGED <<heap, current, old, state_ready, candidate_state, poll_result,
                     active, cache, host_reads, pc>>
  BY ConstantsAssumption DEF FieldSkipped, SnapshotTypeOK, globals, reads
<1>2. Candidate' = Candidate
  BY <1>1 DEF Candidate
<1>3. Order[next] \in Fields /\ Done' = Done \cup {Order[next]}
  BY <1>1, PollOne DEF Done, DoneTo
<1>4. next' \in 1..Len(Order)+1
  BY <1>1, ConstantsAssumption
<1>5. SnapshotTypeOK'
  BY <1>1, <1>4 DEF SnapshotTypeOK
<1>6. ResultsSoFar'
  <2>1. \A g \in Fields : Holds(g, Candidate)' <=> Holds(g, Candidate)
    BY <1>2 DEF Holds
  <2> QED
    BY <1>1, <1>3, <2>1 DEF ResultsSoFar
<1> QED
  BY <1>1, <1>5, <1>6 DEF HostIsIdle, CandidateIsApart, FreshSoFar, Accepted,
                          CacheAgrees, CacheIsClosed

\* The update returns, with whatever snapshots.
LEMMA ReturnStep ==
  ASSUME IInv, Return, heap' \in [Objects -> Snapshots], UNCHANGED globals,
         active' = FALSE, cache' \in [Statics -> Values \cup {Failed, Unread}]
  PROVE  IInv'
<1> USE DEF IInv
<1>1. /\ pc' = "host" /\ next' = 1 /\ candidate_state' = current
      /\ current' = current /\ old' = old /\ state_ready' = state_ready
      /\ poll_result' = [f \in Fields |-> Unread]
      /\ host_reads' = [m \in Statics |-> {}]
  BY DEF Return, globals
<1>2. next' \in 1..Len(Order)+1
  BY <1>1, ConstantsAssumption
<1>3. /\ poll_result' \in [Fields -> Values \cup Variants \cup {Failed, Unread}]
      /\ host_reads' \in [Statics -> SUBSET (Values \cup {Failed})]
  BY <1>1
<1>4. SnapshotTypeOK'
  BY <1>1, <1>2, <1>3 DEF SnapshotTypeOK
<1> QED
  BY <1>1, <1>4 DEF HostIsIdle, CandidateIsApart, ResultsSoFar, FreshSoFar, CacheAgrees,
                    CacheIsClosed

\* A failed poll is given up, or the module traps.
LEMMA FailureStep ==
  ASSUME IInv, NEW f \in Fields, SnapshotAbandoned(f) \/ FieldTraps(f)
  PROVE  IInv'
<1> USE DEF IInv
<1>1. Poll(f, Failed)
  BY DEF SnapshotAbandoned, FieldTraps
<1>2. pc = "poll" /\ cache' \in [Statics -> Values \cup {Failed, Unread}]
  BY <1>1, PollReads
<1>3. CASE SnapshotAbandoned(f)
  <2>1. Blank \in Snapshots
    BY DEF Blank, Snapshots, Contents
  <2>2. heap' \in [Objects -> Snapshots]
    BY <1>3, <2>1 DEF SnapshotAbandoned, Abandon, SnapshotTypeOK
  <2> QED
    BY <1>2, <1>3, <2>2, ReturnStep DEF SnapshotAbandoned, Abandon
<1>4. CASE FieldTraps(f)
  <2>1. /\ pc' = "trap"
        /\ UNCHANGED <<heap, current, old, state_ready, candidate_state, next, poll_result,
                       active, host_reads>>
    BY <1>4 DEF FieldTraps, globals
  <2>2. SnapshotTypeOK'
    BY <1>2, <2>1 DEF SnapshotTypeOK
  <2> QED
    BY <2>1, <2>2 DEF HostIsIdle, CandidateIsApart, ResultsSoFar, FreshSoFar, CacheAgrees,
                      CacheIsClosed
<1> QED
  BY <1>3, <1>4

\* A complete candidate is published.
LEMMA PublishStep ==
  ASSUME IInv, PublishFirst \/ Rotate
  PROVE  IInv'
<1> USE DEF IInv
<1>1. /\ pc = "poll" /\ pc' \in {"onStateReady", "attached"} /\ active' = FALSE
      /\ current' = candidate_state /\ old' \in {candidate_state, current}
      /\ state_ready' \in BOOLEAN
      /\ UNCHANGED <<candidate_state, next, poll_result, cache, host_reads>>
  BY DEF PublishFirst, Rotate, Polled, SetBoth, SnapshotTypeOK
<1>2. heap' \in [Objects -> Snapshots]
  <2>1. Blank \in Snapshots /\ heap[current] \in Snapshots /\ Candidate \in Snapshots
    BY DEF SnapshotTypeOK, Blank, Candidate, Snapshots, Contents
  <2>2. Seeded(heap[current], Candidate) \in Snapshots
    BY <2>1 DEF Seeded, Snapshots
  <2>3. CASE PublishFirst
    BY <2>1, <2>3 DEF PublishFirst
  <2>4. CASE Rotate
    BY <2>1, <2>2, <2>4 DEF Rotate
  <2> QED
    BY <2>3, <2>4
<1>3. SnapshotTypeOK'
  BY <1>1, <1>2 DEF SnapshotTypeOK
<1>4. FreshSoFar'
  BY <1>1, ConstantsAssumption DEF FreshSoFar, Accepted
<1>5. pc' = "attached" => current' # old'
  BY <1>1 DEF PublishFirst, Rotate, CandidateIsApart
<1> QED
  BY <1>1, <1>3, <1>4, <1>5 DEF HostIsIdle, CandidateIsApart, ResultsSoFar, CacheAgrees, CacheIsClosed

\* The script, and the end of an attachment.
LEMMA ScriptKeepsInvariant ==
  ASSUME IInv, Teardown \/ ScriptStep
  PROVE  IInv'
<1> USE DEF IInv
<1>1. CASE Teardown
  <2>1. SnapshotTypeOK'
    BY <1>1 DEF Teardown, SnapshotTypeOK, reads
  <2> QED
    BY <1>1, <2>1 DEF Teardown, reads, HostIsIdle, CandidateIsApart, ResultsSoFar, FreshSoFar,
                      CacheAgrees, CacheIsClosed
<1>2. ASSUME NEW f \in Fields, Assign(f)
      PROVE  IInv'
  <2>1. PICK v \in Readable(f) : heap' = [heap EXCEPT ![current][Storage[f]] = v]
    BY <1>2 DEF Assign
  <2>2. v \in Contents /\ Storage[f] \in Slots
    BY DEF Readable, Contents, Slots
  <2>3. heap' \in [Objects -> Snapshots]
    BY <2>1, <2>2 DEF SnapshotTypeOK, Snapshots
  <2>4. /\ pc \in {"onStateReady", "attached"}
        /\ UNCHANGED <<current, old, state_ready, candidate_state, next, poll_result,
                       active, cache, host_reads, pc>>
    BY <1>2 DEF Assign, globals, reads
  <2>5. SnapshotTypeOK'
    BY <2>3, <2>4 DEF SnapshotTypeOK
  <2> QED
    BY <2>4, <2>5 DEF HostIsIdle, CandidateIsApart, ResultsSoFar, FreshSoFar, Accepted,
                      CacheAgrees, CacheIsClosed
<1>3. ASSUME NEW m \in Statics, ScriptReads(m)
      PROVE  IInv'
  <2>1. cache' \in [Statics -> Values \cup {Failed, Unread}]
    BY <1>3 DEF ScriptReads, StaticRead, SnapshotTypeOK
  <2>2. /\ pc \in {"host", "onStateReady", "attached"}
        /\ UNCHANGED <<heap, current, old, state_ready, candidate_state, next, poll_result,
                       active, host_reads, pc>>
    BY <1>3 DEF ScriptReads, globals
  <2>3. SnapshotTypeOK'
    BY <2>1, <2>2 DEF SnapshotTypeOK
  <2> QED
    BY <2>2, <2>3 DEF HostIsIdle, CandidateIsApart, ResultsSoFar, FreshSoFar, Accepted,
                      CacheAgrees, CacheIsClosed
<1>4. CASE EndUpdate
  BY <1>4, ReturnStep DEF EndUpdate, SnapshotTypeOK, CacheIsClosed
<1> QED
  BY <1>1, <1>2, <1>3, <1>4 DEF ScriptStep

LEMMA PolledStep ==
  ASSUME IInv, NEW f \in Fields, FieldAccepted(f) \/ FieldRetained(f)
  PROVE  IInv'
<1>1. CASE FieldAccepted(f)
  <2>1. PICK r \in Readable(f) : Poll(f, r) /\ Proceed(f, r, r)
    BY <1>1 DEF FieldAccepted
  <2>2. r \in Contents
    BY DEF Readable, Contents
  <2> QED
    BY <2>1, <2>2, ProceedStep
<1>2. CASE FieldRetained(f)
  <2>1. heap[current][Storage[f]] \in Contents
    BY DEF IInv, SnapshotTypeOK, Snapshots, Slots
  <2> QED
    BY <1>2, <2>1, ProceedStep DEF FieldRetained
<1> QED
  BY <1>1, <1>2

LEMMA Stutter ==
  ASSUME IInv, UNCHANGED snapshotVars
  PROVE  IInv'
BY DEF snapshotVars, globals, reads, IInv, SnapshotTypeOK, HostIsIdle, CandidateIsApart, ResultsSoFar, Holds,
       Candidate, Done, DoneTo, FreshSoFar, Accepted, CacheAgrees, CacheIsClosed

LEMMA Inductive == IInv /\ [SnapshotNext]_snapshotVars => IInv'
BY BeginPollStep, SkipStep, FailureStep, PublishStep, PolledStep, ScriptKeepsInvariant, Stutter
   DEF SnapshotNext, PollStep

THEOREM Invariance == SnapshotSpec => []IInv
BY Initially, Inductive, PTL DEF SnapshotSpec

\* Every variable of the snapshot keeps its type: the candidate is a whole
\* struct, every result a value or a failure (compile_update, emit_state_field_poll).
THEOREM TypeCorrect == SnapshotSpec => []SnapshotTypeOK
<1>1. IInv => SnapshotTypeOK
  BY DEF IInv
<1> QED
  BY <1>1, Invariance, PTL

\* However a poll ends, published, abandoned or trapped, no callback is served
\* from the managed read cache (emit_cached_managed_static_read).
THEOREM CacheClosed == SnapshotSpec => []CacheIsClosed
<1>1. IInv => CacheIsClosed
  BY DEF IInv
<1> QED
  BY <1>1, Invariance, PTL

\* Fields read through one managed static agree with the only answer the host
\* gave in this poll (emit_state_read_call, emit_cached_managed_static_read).
THEOREM ReadsAgreeAlways == SnapshotSpec => []ReadsAgree
<1>1. IInv => ReadsAgree
  <2> SUFFICES ASSUME IInv, pc = "poll", NEW f \in Fields \ Discriminators, NEW m \in Statics,
                      ReadsStatic[f] = m, poll_result[f] \notin {Failed, Unread}
               PROVE  host_reads[m] = {poll_result[f]}
    BY DEF ReadsAgree
  <2>1. poll_result[f] = cache[m]
    BY ConstantsAssumption DEF IInv, CacheAgrees, Accepted
  <2> QED
    BY <2>1 DEF IInv, CacheAgrees
<1> QED
  BY <1>1, Invariance, PTL

\* A field is computed from accepted values only, through any chain of
\* dependencies and conditional groups (emit_state_field_poll).
THEOREM Freshness == SnapshotSpec => []DependenciesAreFresh
<1>1. IInv => DependenciesAreFresh
  BY DEF IInv, FreshSoFar, Accepted, DependenciesAreFresh
<1> QED
  BY <1>1, Invariance, PTL

-----------------------------------------------------------------------------
(* Completeness, for scripts that leave the shape to the polls.              *)

ScriptLeavesShape == Assignable \cap Discriminators = {}

\* The fields polled so far are filled, and read if nothing can be retained.
CompleteSoFar ==
  pc = "poll" => \A f \in Done : Holds(f, Candidate) =>
    /\ Candidate[Storage[f]] # Default
    /\ ~state_ready => Accepted(f)

CurrentIsComplete ==
  state_ready => \A f \in Fields : Holds(f, heap[current]) => heap[current][Storage[f]] # Default

ScriptNeedsSnapshot == ScriptRuns => state_ready

SInv ==
  /\ CompleteSoFar /\ CurrentIsComplete /\ ScriptNeedsSnapshot
  /\ NoSyntheticState /\ FirstSnapshotIsRead

LEMMA NothingPublished == SnapshotInit => SInv
BY PollEnds DEF SnapshotInit, SInv, CompleteSoFar, CurrentIsComplete, ScriptNeedsSnapshot, ScriptRuns,
                NoSyntheticState, FirstSnapshotIsRead

LEMMA NoDefault == \A f \in Fields : Readable(f) \subseteq Contents \ {Default}
BY ConstantsAssumption DEF Readable, Contents

\* A value that was read, or retained from a complete snapshot, completes the
\* candidate by one field.
LEMMA ProceedCompletes ==
  ASSUME IInv, SInv, NEW f \in Fields, NEW r \in Readable(f) \cup {Failed}, NEW v \in Contents,
         v # Default, state_ready \/ r # Failed, Poll(f, r), Proceed(f, r, v)
  PROVE  SInv'
<1>1. /\ pc = "poll" /\ next \in 1..Len(Order) /\ f = Order[next]
  BY PollReads
<1>2. /\ next' = next + 1 /\ pc' = "poll"
      /\ current' = current /\ old' = old /\ state_ready' = state_ready
      /\ poll_result' = [poll_result EXCEPT ![f] = r]
  BY <1>1 DEF Proceed, globals
<1>3. /\ Candidate \in Snapshots /\ candidate_state' = candidate_state
      /\ Candidate' = [Candidate EXCEPT ![Storage[f]] = v]
      /\ \A o \in Objects \ {candidate_state} : heap'[o] = heap[o]
  BY Filled
<1>4. f \notin Done /\ Done' = Done \cup {f} /\ \A g \in Done : g \in Fields
  <2>1. next \in 1..Len(Order)+1
    BY DEF IInv, SnapshotTypeOK
  <2> QED
    BY <1>1, <1>2, <2>1, PollOne, DependenciesDone DEF Done, DoneTo
<1>5. CompleteSoFar'
  <2>1. \A g \in Done \cup {f} : Holds(g, Candidate)' <=> Holds(g, Candidate)
    <3>1. \A g \in Done \cup {f} : Holds(g, [Candidate EXCEPT ![Storage[f]] = v])
                                      <=> Holds(g, Candidate)
      BY <1>1, <1>3, ShapeSettled DEF Done
    <3> QED
      BY <1>3, <3>1 DEF Holds
  <2>2. poll_result \in [Fields -> Values \cup Variants \cup {Failed, Unread}]
    BY DEF IInv, SnapshotTypeOK
  <2>3. r # Unread
    BY ConstantsAssumption DEF Readable
  <2>4. \A g \in Done \cup {f} : Storage[g] \in Slots
    BY <1>4 DEF Slots
  <2>5. ASSUME NEW g \in Done \cup {f}, Holds(g, Candidate)
        PROVE  Candidate'[Storage[g]] # Default /\ (~state_ready => Accepted(g)')
    <3>1. CASE Storage[g] = Storage[f] /\ g # f
      BY <1>1, <1>2, <1>3, <2>2, <2>4, <2>5, <3>1 DEF SInv, CompleteSoFar, Accepted, Snapshots
    <3>2. CASE Storage[g] # Storage[f]
      BY <1>1, <1>2, <1>3, <2>2, <2>4, <2>5, <3>2 DEF SInv, CompleteSoFar, Accepted, Snapshots
    <3>3. CASE g = f
      BY <1>2, <1>3, <2>2, <2>3, <2>4, <3>3 DEF Accepted, Snapshots
    <3> QED
      BY <3>1, <3>2, <3>3
  <2> QED
    BY <1>2, <1>4, <2>1, <2>5 DEF CompleteSoFar
<1>6. CurrentIsComplete'
  <2>1. heap'[current] = heap[current]
    BY <1>1, <1>3 DEF IInv, SnapshotTypeOK, CandidateIsApart
  <2> QED
    BY <1>2, <2>1 DEF SInv, CurrentIsComplete, Holds
<1> QED
  BY <1>2, <1>5, <1>6 DEF SInv, ScriptNeedsSnapshot, ScriptRuns, NoSyntheticState,
                          FirstSnapshotIsRead

LEMMA PolledCompletes ==
  ASSUME IInv, SInv, NEW f \in Fields, FieldAccepted(f) \/ FieldRetained(f)
  PROVE  SInv'
<1>1. CASE FieldAccepted(f)
  <2>1. PICK r \in Readable(f) : Poll(f, r) /\ Proceed(f, r, r)
    BY <1>1 DEF FieldAccepted
  <2>2. r \in Contents \ {Default} /\ r # Failed
    BY NoDefault, ConstantsAssumption DEF Readable
  <2> QED
    BY <2>1, <2>2, ProceedCompletes
<1>2. CASE FieldRetained(f)
  <2>1. heap[current][Storage[f]] \in Contents
    BY DEF IInv, SnapshotTypeOK, Snapshots, Slots
  <2>2. state_ready /\ Holds(f, heap[current])
    BY <1>2 DEF FieldRetained, AbandonsOnFailure
  <2>3. heap[current][Storage[f]] # Default
    BY <2>2 DEF SInv, CurrentIsComplete
  <2> QED
    BY <1>2, <2>1, <2>2, <2>3, ProceedCompletes DEF FieldRetained
<1> QED
  BY <1>1, <1>2

LEMMA BeginCompletes ==
  ASSUME IInv, SInv, BeginPoll
  PROVE  SInv'
<1>1. candidate_state' \in Objects /\ candidate_state' \notin {current, old}
  <2>1. \E o \in Objects : o \notin {current, old}
    BY DEF IInv, SnapshotTypeOK, Objects
  <2> QED
    BY <2>1 DEF BeginPoll
<1>2. /\ pc = "host" /\ pc' = "poll"
      /\ heap' = [heap EXCEPT ![candidate_state'] = Blank]
      /\ current' = current /\ old' = old /\ state_ready' = state_ready /\ next' = next
  BY DEF BeginPoll, globals
<1>3. heap'[current] = heap[current]
  BY <1>1, <1>2 DEF IInv, SnapshotTypeOK
<1>4. Done' = {}
  BY <1>2, PollEnds DEF IInv, HostIsIdle, Done, DoneTo
<1> QED
  BY <1>2, <1>3, <1>4 DEF SInv, CompleteSoFar, CurrentIsComplete, Holds, ScriptNeedsSnapshot,
                          ScriptRuns, NoSyntheticState, FirstSnapshotIsRead

LEMMA SkipCompletes ==
  ASSUME IInv, SInv, FieldSkipped
  PROVE  SInv'
<1>1. /\ pc = "poll" /\ next \in 1..Len(Order) /\ next' = next + 1
      /\ ~Holds(Order[next], Candidate)
      /\ UNCHANGED <<heap, current, old, state_ready, candidate_state, poll_result, pc>>
  BY ConstantsAssumption DEF IInv, FieldSkipped, SnapshotTypeOK, globals, reads
<1>2. Candidate' = Candidate
  BY <1>1 DEF Candidate
<1>3. Order[next] \in Fields /\ Done' = Done \cup {Order[next]}
  BY <1>1, PollOne DEF Done, DoneTo
<1>4. CompleteSoFar'
  <2>1. \A g \in Fields : Holds(g, Candidate)' <=> Holds(g, Candidate)
    BY <1>2 DEF Holds
  <2>2. \A g \in Done : g \in Fields
    BY DependenciesDone DEF Done, IInv, SnapshotTypeOK
  <2> QED
    BY <1>1, <1>2, <1>3, <2>1, <2>2 DEF SInv, CompleteSoFar, Accepted
<1> QED
  BY <1>1, <1>4 DEF SInv, CurrentIsComplete, Holds, ScriptNeedsSnapshot, ScriptRuns,
                    NoSyntheticState, FirstSnapshotIsRead

LEMMA FailureKeepsSnapshots ==
  ASSUME IInv, SInv, NEW f \in Fields, SnapshotAbandoned(f) \/ FieldTraps(f)
  PROVE  SInv'
<1>1. Poll(f, Failed)
  BY DEF SnapshotAbandoned, FieldTraps
<1>2. pc = "poll"
  BY <1>1, PollReads
<1>3. /\ pc' \in {"host", "trap"} /\ current' = current /\ state_ready' = state_ready
      /\ heap' = heap \/ heap' = [heap EXCEPT ![candidate_state] = Blank]
  BY DEF SnapshotAbandoned, FieldTraps, Abandon, Return, globals
<1>4. heap'[current] = heap[current]
  BY <1>2, <1>3 DEF IInv, SnapshotTypeOK, CandidateIsApart
<1> QED
  BY <1>3, <1>4 DEF SInv, CompleteSoFar, CurrentIsComplete, Holds, ScriptNeedsSnapshot,
                    ScriptRuns, NoSyntheticState, FirstSnapshotIsRead

\* The candidate is complete when the last field was polled.
LEMMA PolledIsComplete ==
  ASSUME IInv, SInv, Polled
  PROVE  \A f \in Fields : Holds(f, Candidate) =>
           Candidate[Storage[f]] # Default /\ (~state_ready => Accepted(f))
<1>1. pc = "poll" /\ next = Len(Order) + 1
  BY ConstantsAssumption DEF Polled, IInv, SnapshotTypeOK
<1>2. Done = Fields
  BY <1>1, PollEnds DEF Done
<1> QED
  BY <1>1, <1>2 DEF SInv, CompleteSoFar

LEMMA PublishFirstCompletes ==
  ASSUME IInv, SInv, PublishFirst
  PROVE  SInv'
<1>1. /\ Polled /\ ~state_ready /\ pc' = "onStateReady" /\ state_ready'
      /\ current' = candidate_state /\ old' = candidate_state
      /\ UNCHANGED poll_result
      /\ heap' = [o \in Objects |-> IF o = candidate_state THEN Candidate ELSE Blank]
  BY DEF PublishFirst, SetBoth
<1>2. heap'[candidate_state] = Candidate
  BY <1>1 DEF IInv, SnapshotTypeOK
<1>3. \A f \in Fields : Holds(f, Candidate) => Candidate[Storage[f]] # Default /\ Accepted(f)
  BY <1>1, PolledIsComplete
<1>4. \A f \in Fields : Holds(f, heap[current])' <=> Holds(f, Candidate)
  BY <1>1, <1>2 DEF Holds
<1> QED
  BY <1>1, <1>2, <1>3, <1>4 DEF SInv, CompleteSoFar, CurrentIsComplete, ScriptNeedsSnapshot,
                                ScriptRuns, NoSyntheticState, FirstSnapshotIsRead, Accepted

\* Seeding gives the snapshot that becomes `old` every field of the new shape.
LEMMA RotateCompletes ==
  ASSUME IInv, SInv, Rotate
  PROVE  SInv'
<1>1. /\ Polled /\ state_ready /\ pc' = "attached" /\ state_ready' = state_ready
      /\ current' = candidate_state /\ old' = current
      /\ candidate_state # current
  BY DEF Rotate, Polled, IInv, CandidateIsApart
<1>2. /\ heap'[candidate_state] = Candidate
      /\ heap'[current] = Seeded(heap[current], Candidate)
  BY <1>1 DEF Rotate, IInv, SnapshotTypeOK
<1>3. \A f \in Fields : Holds(f, Candidate) => Candidate[Storage[f]] # Default
  BY <1>1, PolledIsComplete
<1>4. \A f \in Fields : Holds(f, heap[current])' <=> Holds(f, Candidate)
  BY <1>1, <1>2 DEF Holds
<1>5. ASSUME NEW f \in Fields, Holds(f, Candidate)
      PROVE  Seeded(heap[current], Candidate)[Storage[f]] # Default
  <2>1. Storage[f] \in Slots
    BY DEF Slots
  <2>2. CASE Storage[f] \in Activated(heap[current], Candidate)
    BY <1>3, <1>5, <2>1, <2>2 DEF Seeded
  <2>3. CASE Storage[f] \notin Activated(heap[current], Candidate)
    <3>1. Holds(f, heap[current])
      <4>1. CASE f \in Conditional
        BY <1>5, <2>3, <4>1 DEF Activated
      <4>2. CASE f \notin Conditional
        BY <4>2 DEF Holds
      <4> QED
        BY <4>1, <4>2
    <3> QED
      BY <1>1, <2>1, <2>3, <3>1 DEF Seeded, SInv, CurrentIsComplete
  <2> QED
    BY <2>2, <2>3
<1> QED
  BY <1>1, <1>2, <1>3, <1>4, <1>5 DEF SInv, CompleteSoFar, CurrentIsComplete,
     ScriptNeedsSnapshot, ScriptRuns, NoSyntheticState, FirstSnapshotIsRead

\* An assignment leaves the shape, so what was complete remains so.
LEMMA AssignCompletes ==
  ASSUME ScriptLeavesShape, IInv, SInv, NEW f \in Fields, Assign(f)
  PROVE  SInv'
<1>1. PICK v \in Readable(f) : heap' = [heap EXCEPT ![current][Storage[f]] = v]
  BY DEF Assign
<1>2. /\ f \notin Discriminators /\ v # Default
      /\ pc \in {"onStateReady", "attached"}
      /\ UNCHANGED <<current, old, state_ready, poll_result, pc>>
  BY NoDefault DEF Assign, globals, reads, ScriptLeavesShape
<1>3. heap \in [Objects -> Snapshots] /\ current \in Objects /\ old \in Objects
  BY DEF IInv, SnapshotTypeOK
<1>4. /\ heap'[current] = [heap[current] EXCEPT ![Storage[f]] = v]
      /\ heap'[old] = IF old = current THEN [heap[current] EXCEPT ![Storage[f]] = v]
                                       ELSE heap[old]
  BY <1>1, <1>3
<1>5. \A g \in Fields : Holds(g, heap[current])' <=> Holds(g, heap[current])
  <2>1. \A g \in Fields : Holds(g, [heap[current] EXCEPT ![Storage[f]] = v])
                            <=> Holds(g, heap[current])
    BY <1>2, <1>3, ShapeKept
  <2> QED
    BY <1>2, <1>4, <2>1 DEF Holds
<1>6. \A g \in Fields : Storage[g] \in Slots
  BY DEF Slots
<1>7. ASSUME NEW g \in Fields, Holds(g, heap[current])
      PROVE  heap'[current][Storage[g]] # Default /\ heap'[old][Storage[g]] # Default
  <2>1. heap[current][Storage[g]] # Default /\ heap[old][Storage[g]] # Default
    BY <1>2, <1>7 DEF SInv, NoSyntheticState, ScriptRuns
  <2> QED
    BY <1>2, <1>3, <1>4, <1>6, <2>1 DEF Snapshots
<1> QED
  BY <1>2, <1>5, <1>7 DEF SInv, CompleteSoFar, CurrentIsComplete, ScriptNeedsSnapshot,
                          ScriptRuns, NoSyntheticState, FirstSnapshotIsRead

LEMMA OthersKeepSnapshots ==
  ASSUME IInv, SInv,
         Teardown \/ EndUpdate \/ (\E m \in Statics : ScriptReads(m)) \/ UNCHANGED snapshotVars
  PROVE  SInv'
<1>1. CASE Teardown \/ EndUpdate
  BY <1>1 DEF Teardown, EndUpdate, Return, globals, SInv, CompleteSoFar, CurrentIsComplete, Holds,
              ScriptNeedsSnapshot, ScriptRuns, NoSyntheticState, FirstSnapshotIsRead
<1>2. CASE (\E m \in Statics : ScriptReads(m)) \/ UNCHANGED snapshotVars
  <2>1. UNCHANGED <<heap, current, old, state_ready, candidate_state, next, poll_result, pc>>
    BY <1>2 DEF ScriptReads, snapshotVars, globals
  <2> QED
    BY <2>1 DEF SInv, CompleteSoFar, CurrentIsComplete, Holds, Candidate, Done, DoneTo, Accepted,
                ScriptNeedsSnapshot, ScriptRuns, NoSyntheticState, FirstSnapshotIsRead
<1> QED
  BY <1>1, <1>2

LEMMA StaysComplete == ScriptLeavesShape /\ IInv /\ SInv /\ [SnapshotNext]_snapshotVars => SInv'
BY PolledCompletes, BeginCompletes, SkipCompletes, FailureKeepsSnapshots,
   PublishFirstCompletes, RotateCompletes, AssignCompletes, OthersKeepSnapshots
   DEF SnapshotNext, PollStep, ScriptStep

LEMMA Completeness == ASSUME ScriptLeavesShape PROVE SnapshotSpec => []SInv
<1>1. SInv /\ IInv /\ [SnapshotNext]_snapshotVars => SInv'
  BY StaysComplete
<1> QED
  BY <1>1, NothingPublished, Invariance, PTL DEF SnapshotSpec

\* A script that does not assign the enums its conditional groups test never
\* sees a backend default, in `current` or in `old`: candidates are published
\* whole, failures are retained only from a complete snapshot, and seeding
\* fills what `old` lacks (emit_state_field_poll, compile_update,
\* emit_dynamic_shape_transition_seeding).
THEOREM NoSynthetic == ASSUME ScriptLeavesShape PROVE SnapshotSpec => []NoSyntheticState
<1>1. SInv => NoSyntheticState
  BY DEF SInv
<1> QED
  BY <1>1, Completeness, PTL

\* The first snapshot of an attachment holds only what its own poll accepted,
\* although the structs of the last attachment are still there (compile_update).
THEOREM FirstIsRead == ASSUME ScriptLeavesShape PROVE SnapshotSpec => []FirstSnapshotIsRead
<1>1. SInv => FirstSnapshotIsRead
  BY DEF SInv
<1> QED
  BY <1>1, Completeness, PTL

-----------------------------------------------------------------------------
(* Refinement.                                                               *)

LEMMA SeenIsSnapshot == ASSUME IInv PROVE heap[current] # Nothing
<1>1. heap[current] \in Snapshots
  BY DEF IInv, SnapshotTypeOK
<1> QED
  BY <1>1, ConstantsAssumption

LEMMA PublishFirstImplements ==
  ASSUME IInv, SInv, PublishFirst
  PROVE  History!First
<1>1. IInv' /\ SInv'
  BY PublishStep, PublishFirstCompletes
<1>2. /\ ~state_ready /\ state_ready' /\ current' = old'
  BY DEF PublishFirst, SetBoth
<1>3. heap'[current'] \in [Slots -> Contents] /\ History!Slots = Slots
  BY <1>1 DEF IInv, SnapshotTypeOK, Snapshots, History!Slots, Slots
<1>4. \A f \in Fields : Holds(f, heap'[current']) => heap'[current'][Storage[f]] # Default
  BY <1>1, <1>2 DEF SInv, CurrentIsComplete, Holds
<1> QED
  BY <1>2, <1>3, <1>4 DEF History!First, History!Complete, Seen

LEMMA RotateImplements ==
  ASSUME IInv, SInv, Rotate
  PROVE  History!Advance
<1>1. IInv' /\ SInv'
  BY PublishStep, RotateCompletes
<1>2. /\ state_ready /\ state_ready' /\ current' = candidate_state /\ old' = current
      /\ heap'[candidate_state] = Candidate
      /\ heap'[current] = Seeded(heap[current], Candidate)
  BY DEF Rotate, Polled, IInv, SnapshotTypeOK, CandidateIsApart
<1>3. heap'[current'] \in [Slots -> Contents] /\ History!Slots = Slots
  BY <1>1 DEF IInv, SnapshotTypeOK, Snapshots, History!Slots, Slots
<1>4. \A f \in Fields : Holds(f, heap'[current']) => heap'[current'][Storage[f]] # Default
  BY <1>1, <1>2 DEF SInv, CurrentIsComplete, Holds
<1>5. heap[current] # Nothing
  BY SeenIsSnapshot
<1> QED
  BY <1>2, <1>3, <1>4, <1>5 DEF History!Advance, History!Complete, Seen, Seeded

\* Only the attached callbacks assign, when `old` is another struct.
LEMMA AssignImplements ==
  ASSUME ~AssignsWhenReady, IInv, SInv, NEW f \in Fields, Assign(f)
  PROVE  History!Assign
<1>1. PICK v \in Readable(f) : heap' = [heap EXCEPT ![current][Storage[f]] = v]
  BY DEF Assign
<1>2. /\ pc = "attached" /\ f \in Assignable /\ Holds(f, heap[current])
      /\ current' = current /\ old' = old /\ state_ready' = state_ready
      /\ v \in Contents \ {Default}
  BY NoDefault DEF Assign, globals
<1>3. state_ready /\ current # old
  BY <1>2 DEF IInv, CandidateIsApart, SInv, ScriptNeedsSnapshot, ScriptRuns
<1>4. heap'[current] = [heap[current] EXCEPT ![Storage[f]] = v] /\ heap'[old] = heap[old]
  BY <1>1, <1>3 DEF IInv, SnapshotTypeOK
<1>5. heap[current] # Nothing
  BY SeenIsSnapshot
<1> QED
  BY <1>2, <1>3, <1>4, <1>5 DEF History!Assign, Seen

LEMMA TeardownImplements ==
  ASSUME IInv, Teardown
  PROVE  History!Detach
BY SeenIsSnapshot DEF Teardown, History!Detach, Seen

\* Polling fills a struct that the script does not see.
LEMMA PollingIsUnseen ==
  ASSUME IInv,
         \/ BeginPoll \/ FieldSkipped \/ UNCHANGED snapshotVars
         \/ \E f \in Fields : \/ FieldAccepted(f) \/ FieldRetained(f)
                              \/ SnapshotAbandoned(f) \/ FieldTraps(f)
  PROVE  UNCHANGED History!vars
<1> SUFFICES /\ current' = current /\ old' = old /\ state_ready' = state_ready
             /\ heap'[current] = heap[current] /\ heap'[old] = heap[old]
  BY DEF History!vars, Seen
<1>1. CASE BeginPoll
  <2>1. \E o \in Objects : o \notin {current, old}
    BY DEF IInv, SnapshotTypeOK, Objects
  <2> QED
    BY <1>1, <2>1 DEF BeginPoll, globals, IInv, SnapshotTypeOK
<1>2. CASE FieldSkipped \/ UNCHANGED snapshotVars
  BY <1>2 DEF FieldSkipped, snapshotVars, globals
<1>3. ASSUME NEW f \in Fields, FieldAccepted(f) \/ FieldRetained(f)
      PROVE  /\ current' = current /\ old' = old /\ state_ready' = state_ready
             /\ heap'[current] = heap[current] /\ heap'[old] = heap[old]
  <2>1. PICK r \in Readable(f) \cup {Failed}, v \in Contents : Poll(f, r) /\ Proceed(f, r, v)
    <3>1. heap[current][Storage[f]] \in Contents
      BY DEF IInv, SnapshotTypeOK, Snapshots, Slots
    <3>2. Readable(f) \subseteq Contents
      BY NoDefault
    <3> QED
      BY <1>3, <3>1, <3>2 DEF FieldAccepted, FieldRetained
  <2>2. pc = "poll" /\ \A o \in Objects \ {candidate_state} : heap'[o] = heap[o]
    BY <2>1, PollReads, Filled
  <2> QED
    BY <2>1, <2>2 DEF Proceed, globals, IInv, SnapshotTypeOK, CandidateIsApart
<1>4. ASSUME NEW f \in Fields, SnapshotAbandoned(f) \/ FieldTraps(f)
      PROVE  /\ current' = current /\ old' = old /\ state_ready' = state_ready
             /\ heap'[current] = heap[current] /\ heap'[old] = heap[old]
  <2>1. Poll(f, Failed)
    BY <1>4 DEF SnapshotAbandoned, FieldTraps
  <2>2. pc = "poll"
    BY <2>1, PollReads
  <2>3. /\ UNCHANGED globals
        /\ heap' = heap \/ heap' = [heap EXCEPT ![candidate_state] = Blank]
    BY <1>4 DEF SnapshotAbandoned, FieldTraps, Abandon
  <2> QED
    BY <2>2, <2>3 DEF globals, IInv, SnapshotTypeOK, CandidateIsApart
<1> QED
  BY <1>1, <1>2, <1>3, <1>4

LEMMA CallbacksAreUnseen ==
  ASSUME EndUpdate \/ \E m \in Statics : ScriptReads(m)
  PROVE  UNCHANGED History!vars
BY DEF EndUpdate, ScriptReads, globals, History!vars, Seen

\* A script that neither assigns the enums its conditional groups test nor
\* anything in onStateReady sees what SnapshotHistory promises: complete
\* snapshots only, each with its predecessor as `old` (compile_update).
THEOREM Implements ==
  ASSUME ScriptLeavesShape, ~AssignsWhenReady
  PROVE  SnapshotSpec => ImplementsHistory
<1>1. SnapshotInit => History!Init
  BY DEF SnapshotInit, History!Init, Seen
<1>2. IInv /\ SInv /\ [SnapshotNext]_snapshotVars => [History!Next]_(History!vars)
  BY PublishFirstImplements, RotateImplements, AssignImplements, TeardownImplements,
     PollingIsUnseen, CallbacksAreUnseen
     DEF SnapshotNext, PollStep, ScriptStep, History!Next
<1> QED
  BY <1>1, <1>2, Invariance, Completeness, PTL DEF SnapshotSpec, ImplementsHistory, History!Spec
=============================================================================
