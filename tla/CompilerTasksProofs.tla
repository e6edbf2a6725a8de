-------------------------- MODULE CompilerTasksProofs --------------------------
(***************************************************************************)
(* Proofs about CompilerWorker, for every number of sources and requests   *)
(* and every caller of the connection, then about CompilerTasks, for every *)
(* number of commands, documents, versions and requests.                   *)
(*                                                                         *)
(* An answer is its request's own because a request is in one place at a   *)
(* time: `Consistent` says so of the connection k, the suspended compiles  *)
(* S and the answers H, and is what makes StageBelongsToActive inductive.  *)
(*                                                                         *)
(* The commands use the connection only in ways CompilerWorker allows any  *)
(* caller, so TasksSpec implements WorkerSpec and inherits what is proved  *)
(* of it.  TasksInv adds to the ownership properties that a command which  *)
(* has not begun its task owns nothing, which is what the awaits between   *)
(* its check of the task and its taking of it could break.                 *)
(*                                                                         *)
(* At the end the two halves meet: what a watch has handled, is building   *)
(* or has waiting is the last save (UpToDate), and its newest compile is   *)
(* cancelled only on request (InTurn), which a watch makes only with a     *)
(* newer revision waiting (Told).                                          *)
(***************************************************************************)
EXTENDS CompilerTasks, TLAPS

Own(answer, k) ==
  /\ answer.outcome # "outOfOrder"
  /\ answer.outcome \in {"built", "rejected"} => answer.source = k.posted[answer.id]

\* The messages of the connection k.
QueueOK(k, S) ==
  /\ \A n \in 1 .. Len(k.outgoing) :
       /\ k.outgoing[n].id < k.nextRequestId
       /\ S[k.outgoing[n].id] = "idle"
       /\ k.outgoing[n].kind = "compile" => k.outgoing[n].source = k.posted[k.outgoing[n].id]
  /\ \A m, n \in 1 .. Len(k.outgoing) : k.outgoing[m].id = k.outgoing[n].id => m = n

\* The answers H.
AnswersOK(k, S, H) ==
  /\ \A n \in 1 .. Len(H) :
       H[n].id < k.nextRequestId /\ S[H[n].id] = "idle" /\ Own(H[n], k)
  /\ \A m, n \in 1 .. Len(H) : H[m].id = H[n].id => m = n
  /\ \A m \in 1 .. Len(k.outgoing), n \in 1 .. Len(H) : k.outgoing[m].id # H[n].id

IdsOK(k, S) ==
  /\ \A i \in Ids : S[i] # "idle" => i < k.nextRequestId
  /\ \A i \in k.pending : i < k.nextRequestId

Consistent(k, S, H) == QueueOK(k, S) /\ AnswersOK(k, S, H) /\ IdsOK(k, S)

\* Every pending request is somewhere.
Somewhere(k, S, H, i) == Occurs(k.outgoing, i) \/ S[i] # "idle" \/ Occurs(H, i)
NoneLost(k, S, H) == \A i \in k.pending : Somewhere(k, S, H, i)

ActiveIsSuspended == activeCompileId # Absent => suspended[activeCompileId] # "idle"

WorkerInv ==
  /\ WorkerTypeOK
  /\ Consistent(link, suspended, toHost)
  /\ alive => NoneLost(link, suspended, toHost)
  /\ ActiveIsSuspended
  /\ StageBelongsToActive
  /\ OnlySuspendedAreCancelled

Suspensions == [Ids -> {"idle", "analyzed", "lowered"}]

-----------------------------------------------------------------------------
(* The connection. *)

LEMMA SeqFacts ==
  ASSUME NEW T, NEW q \in Seq(T), q # <<>>
  PROVE  /\ Head(q) = q[1] /\ Head(q) \in T /\ 1 \in 1 .. Len(q)
         /\ Tail(q) \in Seq(T) /\ Len(Tail(q)) = Len(q) - 1
         /\ \A n \in 1 .. Len(Tail(q)) : Tail(q)[n] = q[n + 1] /\ n + 1 \in 1 .. Len(q) /\ n + 1 # 1
  OBVIOUS

LEMMA AppendFacts ==
  ASSUME NEW T, NEW q \in Seq(T), NEW e \in T
  PROVE  /\ Append(q, e) \in Seq(T) /\ Len(Append(q, e)) = Len(q) + 1
         /\ Append(q, e)[Len(q) + 1] = e
         /\ \A n \in 1 .. Len(q) : Append(q, e)[n] = q[n] /\ n \in 1 .. Len(q) + 1
         /\ \A n \in 1 .. Len(q) + 1 : n = Len(q) + 1 \/ n \in 1 .. Len(q)
  OBVIOUS

LEMMA OccursAppend ==
  ASSUME NEW T, NEW q \in Seq(T), NEW e \in T, NEW i
  PROVE  Occurs(Append(q, e), i) <=> Occurs(q, i) \/ e.id = i
<1>1. ASSUME Occurs(q, i) PROVE Occurs(Append(q, e), i)
  <2>1. PICK n \in 1 .. Len(q) : q[n].id = i  BY <1>1 DEF Occurs
  <2>2. n \in 1 .. Len(Append(q, e)) /\ Append(q, e)[n] = q[n]  BY AppendFacts
  <2> QED  BY <2>1, <2>2 DEF Occurs
<1>2. ASSUME e.id = i PROVE Occurs(Append(q, e), i)
  <2>1. Len(q) + 1 \in 1 .. Len(Append(q, e)) /\ Append(q, e)[Len(q) + 1] = e  BY AppendFacts
  <2> QED  BY <1>2, <2>1 DEF Occurs
<1>3. ASSUME Occurs(Append(q, e), i), e.id # i PROVE Occurs(q, i)
  <2>1. PICK n \in 1 .. Len(Append(q, e)) : Append(q, e)[n].id = i  BY <1>3 DEF Occurs
  <2>2. n \in 1 .. Len(q) /\ Append(q, e)[n] = q[n]  BY <2>1, <1>3, AppendFacts
  <2> QED  BY <2>1, <2>2 DEF Occurs
<1> QED  BY <1>1, <1>2, <1>3

LEMMA OccursTail ==
  ASSUME NEW T, NEW q \in Seq(T), q # <<>>, NEW i, Occurs(q, i), Head(q).id # i
  PROVE  Occurs(Tail(q), i)
<1>1. PICK n \in 1 .. Len(q) : q[n].id = i  BY DEF Occurs
<1>2. n # 1  BY <1>1, SeqFacts
<1>3. n - 1 \in 1 .. Len(Tail(q)) /\ Tail(q)[n - 1] = q[n]  BY <1>2, SeqFacts
<1> QED  BY <1>1, <1>3 DEF Occurs

-----------------------------------------------------------------------------
\* Posting a message with a new id.
Posts(k, j, e) ==
  /\ j.outgoing = Append(k.outgoing, e)
  /\ e.id = k.nextRequestId /\ j.nextRequestId = k.nextRequestId + 1
  /\ j.pending = k.pending \cup {e.id}
  /\ \A i \in Ids : i # e.id => j.posted[i] = k.posted[i]
  /\ e.kind = "compile" => j.posted[e.id] = e.source

LEMMA PostKeepsConsistent ==
  ASSUME NEW k \in Links, NEW j \in Links, NEW e \in Messages, Posts(k, j, e),
         NEW S \in Suspensions, NEW H \in Seq(Responses), Consistent(k, S, H)
  PROVE  Consistent(j, S, H)
<1> DEFINE N == Len(k.outgoing)
<1>1. k.outgoing \in Seq(Messages) /\ k.nextRequestId \in Int /\ e.id \in Ids /\ Len(k.outgoing) \in Nat
  BY DEF Links, Messages, Posts, Ids
<1>2. /\ Len(j.outgoing) = N + 1 /\ j.outgoing[N + 1] = e
      /\ \A n \in 1 .. N : j.outgoing[n] = k.outgoing[n]
      /\ \A n \in 1 .. N + 1 : n = N + 1 \/ n \in 1 .. N
  BY <1>1, AppendFacts DEF Posts
<1>0. ASSUME NEW n \in 1 .. N
      PROVE  k.outgoing[n].id < e.id /\ k.outgoing[n].id \in Ids /\ k.outgoing[n].id # e.id
  <2>1. k.outgoing[n] \in Messages  BY <1>1
  <2>2. k.outgoing[n].id \in Ids  BY <2>1 DEF Messages
  <2>3. k.outgoing[n].id < e.id  BY DEF Consistent, QueueOK, Posts
  <2> QED  BY <2>2, <2>3, <1>1 DEF Ids
<1>3. S[e.id] = "idle"
  BY <1>1 DEF Consistent, IdsOK, Posts, Ids
<1>4. QueueOK(j, S)
  <2>1. ASSUME NEW n \in 1 .. N + 1
        PROVE  /\ j.outgoing[n].id < j.nextRequestId
               /\ S[j.outgoing[n].id] = "idle"
               /\ j.outgoing[n].kind = "compile" => j.outgoing[n].source = j.posted[j.outgoing[n].id]
    <3>1. CASE n = N + 1
      <4>1. j.outgoing[n] = e  BY <3>1, <1>2
      <4>2. e.id < j.nextRequestId  BY <1>1 DEF Posts, Ids
      <4> QED  BY <4>1, <4>2, <1>3 DEF Posts
    <3>2. CASE n \in 1 .. N
      <4>1. j.outgoing[n] = k.outgoing[n]  BY <3>2, <1>2
      <4>2. j.outgoing[n].id < j.nextRequestId
        <5>1. k.outgoing[n].id \in Ids /\ k.outgoing[n].id < e.id  BY <3>2, <1>0
        <5> QED  BY <4>1, <5>1, <1>1 DEF Posts, Ids
      <4>3. j.posted[j.outgoing[n].id] = k.posted[k.outgoing[n].id]
        BY <3>2, <4>1, <1>0 DEF Posts
      <4> QED  BY <3>2, <4>1, <4>2, <4>3 DEF Consistent, QueueOK
    <3> QED  BY <3>1, <3>2, <1>2
  <2>2. ASSUME NEW m \in 1 .. N + 1, NEW n \in 1 .. N + 1, j.outgoing[m].id = j.outgoing[n].id
        PROVE  m = n
    BY <2>2, <1>0, <1>1, <1>2 DEF Consistent, QueueOK
  <2> QED  BY <2>1, <2>2, <1>2 DEF QueueOK
<1>5. AnswersOK(j, S, H)
  <2>1. ASSUME NEW n \in 1 .. Len(H)
        PROVE  H[n].id < j.nextRequestId /\ S[H[n].id] = "idle" /\ Own(H[n], j) /\ H[n].id < e.id
    <3>1. H[n] \in Responses  OBVIOUS
    <3>2. H[n].id \in Ids  BY <3>1 DEF Responses
    <3>3. H[n].id < k.nextRequestId /\ S[H[n].id] = "idle" /\ Own(H[n], k)
      BY DEF Consistent, AnswersOK
    <3>4. H[n].id # e.id  BY <3>2, <3>3, <1>1 DEF Posts, Ids
    <3>5. Own(H[n], j)  BY <3>2, <3>3, <3>4 DEF Posts, Own
    <3> QED  BY <3>2, <3>3, <3>5, <1>1 DEF Posts, Ids
  <2>2. ASSUME NEW m \in 1 .. N + 1, NEW n \in 1 .. Len(H)
        PROVE  j.outgoing[m].id # H[n].id
    <3>0. H[n] \in Responses  OBVIOUS
    <3>3. H[n].id \in Ids  BY <3>0 DEF Responses
    <3>1. CASE m = N + 1  BY <3>3, <3>1, <2>1, <1>1, <1>2 DEF Ids
    <3>2. CASE m \in 1 .. N
      <4>1. j.outgoing[m] = k.outgoing[m]  BY <3>2, <1>2
      <4> QED  BY <3>2, <4>1 DEF Consistent, AnswersOK
    <3> QED  BY <3>1, <3>2, <1>2
  <2> QED  BY <2>1, <2>2, <1>2 DEF AnswersOK, Consistent
<1>6. IdsOK(j, S)
  <2>1. ASSUME NEW i \in Ids, S[i] # "idle" PROVE i < j.nextRequestId
    BY <2>1, <1>1 DEF Consistent, IdsOK, Posts, Ids
  <2>2. ASSUME NEW i \in j.pending PROVE i < j.nextRequestId
    <3>1. i \in Ids  BY DEF Links
    <3> QED  BY <3>1, <1>1 DEF Consistent, IdsOK, Posts, Ids
  <2> QED  BY <2>1, <2>2 DEF IdsOK
<1> QED  BY <1>4, <1>5, <1>6 DEF Consistent

LEMMA PostLosesNone ==
  ASSUME NEW k \in Links, NEW j, NEW e \in Messages, Posts(k, j, e),
         NEW S, NEW H, NoneLost(k, S, H)
  PROVE  NoneLost(j, S, H)
<1>1. k.outgoing \in Seq(Messages)  BY DEF Links
<1>2. \A i : Occurs(j.outgoing, i) <=> Occurs(k.outgoing, i) \/ e.id = i
  BY <1>1, OccursAppend DEF Posts
<1> QED  BY <1>2 DEF NoneLost, Somewhere, Posts

LEMMA CompilePosts ==
  ASSUME NEW k \in Links, CanPost(k), NEW s \in Sources
  PROVE  /\ Compile(k, s) \in Links
         /\ CompileMessage(k.nextRequestId, s) \in Messages
         /\ Posts(k, Compile(k, s), CompileMessage(k.nextRequestId, s))
<1>1. CompileMessage(k.nextRequestId, s) \in Messages
  BY DEF Messages, CompileMessage, CanPost
<1>2. k.nextRequestId \in Ids /\ k.nextRequestId + 1 \in 1 .. MaxRequests + 2
  BY WorkerAssumption DEF CanPost, Ids
<1>3. Append(k.outgoing, CompileMessage(k.nextRequestId, s)) \in Seq(Messages)
  BY <1>1 DEF Links
<1>4. Compile(k, s) \in Links
  BY <1>2, <1>3 DEF Compile, Links
<1>5. Posts(k, Compile(k, s), CompileMessage(k.nextRequestId, s))
  BY <1>2 DEF Posts, Compile, CompileMessage, Links
<1> QED  BY <1>1, <1>4, <1>5

LEMMA CancelPosts ==
  ASSUME NEW k \in Links, CanPost(k)
  PROVE  /\ CancelCurrent(k) \in Links
         /\ \/ CancelCurrent(k) = k
            \/ \E e \in Messages : Posts(k, CancelCurrent(k), e)
<1> DEFINE e == CancelMessage(k.nextRequestId, k.activeCompileRequestId)
<1>1. CASE MayCancel(k)
  <2>1. k.nextRequestId \in Ids /\ k.nextRequestId + 1 \in 1 .. MaxRequests + 2
    BY WorkerAssumption DEF CanPost, Ids
  <2>2. e \in Messages
    BY <1>1, <2>1 DEF MayCancel, Messages, CancelMessage, Links
  <2>3. Append(k.outgoing, e) \in Seq(Messages)  BY <2>2 DEF Links
  <2>4. CancelCurrent(k) \in Links
    BY <1>1, <2>1, <2>3 DEF CancelCurrent, Links
  <2>5. Posts(k, CancelCurrent(k), e)
    BY <1>1, <2>1 DEF Posts, CancelCurrent, CancelMessage, Links
  <2> QED  BY <2>2, <2>4, <2>5
<1>2. CASE ~MayCancel(k)
  BY <1>2 DEF CancelCurrent
<1> QED  BY <1>1, <1>2

LEMMA ReactionsKeep ==
  ASSUME NEW k \in Links, NEW j \in Reactions(k),
         NEW S \in Suspensions, NEW H \in Seq(Responses), Consistent(k, S, H)
  PROVE  /\ j \in Links
         /\ Consistent(j, S, H)
         /\ NoneLost(k, S, H) => NoneLost(j, S, H)
         /\ \A i \in Ids : S[i] # "idle" => j.posted[i] = k.posted[i]
<1>1. CASE j = k
  BY <1>1
<1>2. ASSUME CanPost(k), NEW e \in Messages, j \in Links, Posts(k, j, e)
      PROVE  /\ Consistent(j, S, H)
             /\ NoneLost(k, S, H) => NoneLost(j, S, H)
             /\ \A i \in Ids : S[i] # "idle" => j.posted[i] = k.posted[i]
  <2>1. Consistent(j, S, H)  BY <1>2, PostKeepsConsistent
  <2>2. NoneLost(k, S, H) => NoneLost(j, S, H)  BY <1>2, PostLosesNone
  <2>3. ASSUME NEW i \in Ids, S[i] # "idle" PROVE j.posted[i] = k.posted[i]
    <3>1. i < k.nextRequestId  BY <2>3 DEF Consistent, IdsOK
    <3>2. i # e.id  BY <3>1, <1>2 DEF Posts, Ids, Links
    <3> QED  BY <3>2, <1>2 DEF Posts
  <2> QED  BY <2>1, <2>2, <2>3
<1>3. ASSUME CanPost(k), NEW s \in Sources, j = Compile(k, s)
      PROVE  j \in Links /\ \E e \in Messages : Posts(k, j, e)
  BY <1>3, CompilePosts
<1>4. ASSUME CanPost(k), j = CancelCurrent(k)
      PROVE  j \in Links /\ (j = k \/ \E e \in Messages : Posts(k, j, e))
  BY <1>4, CancelPosts
<1>5. j = k \/ (CanPost(k) /\ ((\E s \in Sources : j = Compile(k, s)) \/ j = CancelCurrent(k)))
  BY DEF Reactions
<1>6. j \in Links /\ (j = k \/ (CanPost(k) /\ \E e \in Messages : Posts(k, j, e)))
  BY <1>3, <1>4, <1>5
<1> QED  BY <1>1, <1>2, <1>6

-----------------------------------------------------------------------------
(* A settled request. *)

LEMMA ReleaseType ==
  ASSUME NEW k \in Links, NEW I \in SUBSET Ids
  PROVE  /\ Release(k, I) \in Links
         /\ Release(k, I).outgoing = k.outgoing
         /\ Release(k, I).nextRequestId = k.nextRequestId
         /\ Release(k, I).pending = k.pending \ I
         /\ \A i \in Ids : Release(k, I).posted[i] = IF i \in I THEN NoSource ELSE k.posted[i]
<1> DEFINE posted == [i \in Ids |-> IF i \in I THEN NoSource ELSE k.posted[i]]
<1>1. posted \in [Ids -> Sources \cup {NoSource}]
  BY DEF Links
<1>2. Release(k, I) \in Links /\ Release(k, I).posted = posted
  BY <1>1 DEF Release, Links
<1>3. \A i \in Ids : posted[i] = IF i \in I THEN NoSource ELSE k.posted[i]
  OBVIOUS
<1>4. /\ Release(k, I).outgoing = k.outgoing
      /\ Release(k, I).nextRequestId = k.nextRequestId
      /\ Release(k, I).pending = k.pending \ I
  BY DEF Release, Links
<1> QED  BY <1>2, <1>3, <1>4

LEMMA SettleKeeps ==
  ASSUME NEW k \in Links, NEW S \in Suspensions, NEW H \in Seq(Responses), H # <<>>,
         Consistent(k, S, H)
  PROVE  LET j == SettleRequest(k, Head(H).id)
         IN /\ j \in Links
            /\ Consistent(j, S, Tail(H))
            /\ NoneLost(k, S, H) => NoneLost(j, S, Tail(H))
            /\ \A i \in Ids : S[i] # "idle" => j.posted[i] = k.posted[i]
<1> DEFINE h == Head(H)
           j == SettleRequest(k, h.id)
<1>1. h \in Responses /\ Tail(H) \in Seq(Responses) /\ h.id \in Ids
  <2>1. h \in Responses /\ Tail(H) \in Seq(Responses)  BY SeqFacts
  <2> QED  BY <2>1 DEF Responses
<1>2. /\ j \in Links /\ j.outgoing = k.outgoing /\ j.nextRequestId = k.nextRequestId
      /\ j.pending = k.pending \ {h.id}
      /\ \A i \in Ids : i # h.id => j.posted[i] = k.posted[i]
  <2>1. CASE h.id \in k.pending
    <3>1. j = Release(k, {h.id})  BY <2>1 DEF SettleRequest
    <3> QED  BY <3>1, <1>1, ReleaseType
  <2>2. CASE h.id \notin k.pending
    <3>1. j = k  BY <2>2 DEF SettleRequest
    <3> QED  BY <2>2, <3>1
  <2> QED  BY <2>1, <2>2
<1> HIDE DEF j
<1>3. S[h.id] = "idle"
  BY SeqFacts DEF Consistent, AnswersOK
<1>4. \A n \in 1 .. Len(k.outgoing) : k.outgoing[n].id # h.id /\ k.outgoing[n].id \in Ids
  <2>1. \A n \in 1 .. Len(k.outgoing) : k.outgoing[n].id # h.id
    BY SeqFacts DEF Consistent, AnswersOK
  <2>2. ASSUME NEW n \in 1 .. Len(k.outgoing) PROVE k.outgoing[n].id \in Ids
    <3>1. k.outgoing \in Seq(Messages)  BY DEF Links
    <3>2. k.outgoing[n] \in Messages  BY <3>1
    <3> QED  BY <3>2 DEF Messages
  <2> QED  BY <2>1, <2>2
<1>5. QueueOK(j, S)
  BY <1>2, <1>4 DEF QueueOK, Consistent
<1>6. AnswersOK(j, S, Tail(H))
  <2>1. ASSUME NEW n \in 1 .. Len(Tail(H))
        PROVE  Tail(H)[n].id < j.nextRequestId /\ S[Tail(H)[n].id] = "idle" /\ Own(Tail(H)[n], j)
    <3>1. Tail(H)[n] = H[n + 1] /\ n + 1 \in 1 .. Len(H) /\ n + 1 # 1  BY SeqFacts
    <3>2. H[n + 1].id # h.id  BY <3>1, SeqFacts DEF Consistent, AnswersOK
    <3>3. H[n + 1] \in Responses  BY <3>1
    <3>4. H[n + 1].id \in Ids  BY <3>3 DEF Responses
    <3>5. H[n + 1].id < k.nextRequestId /\ S[H[n + 1].id] = "idle" /\ Own(H[n + 1], k)
      BY <3>1 DEF Consistent, AnswersOK
    <3> QED  BY <1>2, <3>1, <3>2, <3>4, <3>5 DEF Own
  <2>2. ASSUME NEW m \in 1 .. Len(Tail(H)), NEW n \in 1 .. Len(Tail(H)),
               Tail(H)[m].id = Tail(H)[n].id
        PROVE  m = n
    <3>1. /\ Tail(H)[n] = H[n + 1] /\ n + 1 \in 1 .. Len(H)
          /\ Tail(H)[m] = H[m + 1] /\ m + 1 \in 1 .. Len(H)  BY SeqFacts
    <3>2. m + 1 = n + 1  BY <2>2, <3>1 DEF Consistent, AnswersOK
    <3> QED  BY <3>2
  <2>3. ASSUME NEW m \in 1 .. Len(j.outgoing), NEW n \in 1 .. Len(Tail(H))
        PROVE  j.outgoing[m].id # Tail(H)[n].id
    BY <1>2, SeqFacts DEF Consistent, AnswersOK
  <2> QED  BY <2>1, <2>2, <2>3 DEF AnswersOK
<1>7. IdsOK(j, S)
  BY <1>2 DEF IdsOK, Consistent
<1>8. ASSUME NoneLost(k, S, H) PROVE NoneLost(j, S, Tail(H))
  <2>1. ASSUME NEW i \in j.pending PROVE Somewhere(j, S, Tail(H), i)
    <3>1. i \in k.pending /\ h.id # i  BY <1>2, <2>1
    <3>2. Somewhere(k, S, H, i)  BY <3>1, <1>8 DEF NoneLost
    <3>3. Occurs(H, i) => Occurs(Tail(H), i)  BY <3>1, OccursTail
    <3> QED  BY <3>2, <3>3, <1>2 DEF Somewhere
  <2> QED  BY <2>1 DEF NoneLost
<1>9. Consistent(j, S, Tail(H))
  BY <1>5, <1>6, <1>7 DEF Consistent
<1>10. \A i \in Ids : S[i] # "idle" => j.posted[i] = k.posted[i]
  BY <1>2, <1>3
<1> QED  BY <1>2, <1>8, <1>9, <1>10 DEF j

\* What the connection is when the thread is gone.
LEMMA TerminatedType ==
  ASSUME NEW k \in Links
  PROVE  /\ Terminated(k) \in Links /\ Terminated(k).outgoing = <<>>
         /\ Terminated(k).nextRequestId = k.nextRequestId
         /\ Terminated(k).pending \subseteq k.pending
<1>1. k.pending \in SUBSET Ids  BY DEF Links
<1>2. Stop(k) \in Links /\ Stop(k).nextRequestId = k.nextRequestId /\ Stop(k).pending \subseteq k.pending
  <2>1. CASE k.stopped  BY <2>1 DEF Stop
  <2>2. CASE ~k.stopped
    <3>1. Stop(k) = [Release(k, k.pending) EXCEPT !.stopped = TRUE]  BY <2>2 DEF Stop
    <3>2. Release(k, k.pending) \in Links  BY <1>1, ReleaseType
    <3>3. Stop(k) \in Links  BY <3>1, <3>2 DEF Links
    <3>4. /\ Stop(k).nextRequestId = Release(k, k.pending).nextRequestId
          /\ Stop(k).pending = Release(k, k.pending).pending
      BY <3>1, <3>2 DEF Links
    <3> QED  BY <3>3, <3>4, <1>1, ReleaseType
  <2> QED  BY <2>1, <2>2
<1>3. <<>> \in Seq(Messages)  OBVIOUS
<1> QED  BY <1>2, <1>3 DEF Terminated, Links

LEMMA GoneConsistent ==
  ASSUME NEW k \in Links, k.outgoing = <<>>, IdsOK(k, NoSuspended)
  PROVE  Consistent(k, NoSuspended, <<>>)
<1>1. Len(k.outgoing) = 0 /\ Len(<<>>) = 0  OBVIOUS
<1> QED  BY <1>1 DEF Consistent, QueueOK, AnswersOK

-----------------------------------------------------------------------------
(* The steps of the worker. *)

Types == WorkerTypeOK /\ Consistent(link, suspended, toHost)

\* The message is taken from the queue: its id is nowhere else.
LEMMA ReceivedFacts ==
  ASSUME Types, NEW kind, Received(kind)
  PROVE  LET e == Head(link.outgoing)
         IN /\ e \in Messages /\ e.kind = kind /\ e.id \in Ids
            /\ e.id < link.nextRequestId /\ suspended[e.id] = "idle"
            /\ kind = "compile" => e.source = link.posted[e.id]
            /\ \A n \in 1 .. Len(toHost) : toHost[n].id # e.id
            /\ link' \in Links /\ link'.outgoing = Tail(link.outgoing)
            /\ link'.nextRequestId = link.nextRequestId
            /\ link'.posted = link.posted /\ link'.pending = link.pending
            /\ \A n \in 1 .. Len(link'.outgoing) : link'.outgoing[n].id # e.id
            /\ Consistent(link', suspended, toHost)
            /\ \A i \in Ids : i # e.id /\ Occurs(link.outgoing, i) => Occurs(link'.outgoing, i)
<1> DEFINE q == link.outgoing
           e == Head(q)
<1>1. q \in Seq(Messages) /\ q # <<>> /\ link \in Links
  BY DEF Types, WorkerTypeOK, Links, Received
<1>2. e = q[1] /\ e \in Messages /\ 1 \in 1 .. Len(q) /\ Tail(q) \in Seq(Messages)
  BY <1>1, SeqFacts
<1>3. e.id \in Ids /\ e.kind = kind  BY <1>2 DEF Messages, Received
<1>4. /\ e.id < link.nextRequestId /\ suspended[e.id] = "idle"
      /\ kind = "compile" => e.source = link.posted[e.id]
      /\ \A n \in 1 .. Len(toHost) : toHost[n].id # e.id
  BY <1>2, <1>3 DEF Types, Consistent, QueueOK, AnswersOK
<1>5. /\ link' \in Links /\ link'.outgoing = Tail(q)
      /\ link'.nextRequestId = link.nextRequestId
      /\ link'.posted = link.posted /\ link'.pending = link.pending
  BY <1>1, <1>2 DEF Received, Links
<1>6. \A n \in 1 .. Len(Tail(q)) : Tail(q)[n] = q[n + 1] /\ n + 1 \in 1 .. Len(q) /\ n + 1 # 1
  BY <1>1, SeqFacts
<1>7. \A n \in 1 .. Len(Tail(q)) : Tail(q)[n].id # e.id
  BY <1>2, <1>6 DEF Types, Consistent, QueueOK
<1>8. QueueOK(link', suspended)
  <2>1. \A n \in 1 .. Len(Tail(q)) :
          /\ Tail(q)[n].id < link.nextRequestId /\ suspended[Tail(q)[n].id] = "idle"
          /\ Tail(q)[n].kind = "compile" => Tail(q)[n].source = link.posted[Tail(q)[n].id]
    BY <1>6 DEF Types, Consistent, QueueOK
  <2>2. ASSUME NEW m \in 1 .. Len(Tail(q)), NEW n \in 1 .. Len(Tail(q)),
               Tail(q)[m].id = Tail(q)[n].id
        PROVE  m = n
    <3>1. m + 1 = n + 1  BY <1>6, <2>2 DEF Types, Consistent, QueueOK
    <3> QED  BY <3>1
  <2> QED  BY <2>1, <2>2, <1>5 DEF QueueOK
<1>9. AnswersOK(link', suspended, toHost)
  <2>1. \A m \in 1 .. Len(Tail(q)), n \in 1 .. Len(toHost) : Tail(q)[m].id # toHost[n].id
    BY <1>6 DEF Types, Consistent, AnswersOK
  <2> QED  BY <2>1, <1>5 DEF Types, Consistent, AnswersOK, Own
<1>10. IdsOK(link', suspended)
  BY <1>5 DEF Types, Consistent, IdsOK
<1>11. ASSUME NEW i \in Ids, i # e.id, Occurs(q, i) PROVE Occurs(Tail(q), i)
  BY <1>1, <1>11, OccursTail
<1> QED  BY <1>2, <1>3, <1>4, <1>5, <1>7, <1>8, <1>9, <1>10, <1>11 DEF Consistent

\* A request that is in no other place is answered.
LEMMA AnswerKeeps ==
  ASSUME NEW k \in Links, NEW S \in Suspensions, NEW H \in Seq(Responses), Consistent(k, S, H),
         NEW r \in Responses, Own(r, k), r.id < k.nextRequestId,
         \A n \in 1 .. Len(k.outgoing) : k.outgoing[n].id # r.id,
         \A n \in 1 .. Len(H) : H[n].id # r.id,
         NEW T \in Suspensions, T = [S EXCEPT ![r.id] = "idle"]
  PROVE  Consistent(k, T, Append(H, r))
<1> DEFINE N == Len(H)
<1>1. /\ Len(Append(H, r)) = N + 1 /\ Append(H, r)[N + 1] = r /\ N \in Nat
      /\ \A n \in 1 .. N : Append(H, r)[n] = H[n]
      /\ \A n \in 1 .. N + 1 : n = N + 1 \/ n \in 1 .. N
  BY AppendFacts
<1>2. r.id \in Ids  BY DEF Responses
<1>3. \A i \in Ids : T[i] = IF i = r.id THEN "idle" ELSE S[i]
  BY DEF Suspensions
<1>4. ASSUME NEW n \in 1 .. Len(k.outgoing) PROVE k.outgoing[n].id \in Ids
  <2>1. k.outgoing \in Seq(Messages)  BY DEF Links
  <2>2. k.outgoing[n] \in Messages  BY <2>1
  <2> QED  BY <2>2 DEF Messages
<1>5. QueueOK(k, T)
  BY <1>3, <1>4 DEF Consistent, QueueOK
<1>6. ASSUME NEW n \in 1 .. N PROVE H[n].id \in Ids
  <2>1. H[n] \in Responses  OBVIOUS
  <2> QED  BY <2>1 DEF Responses
<1>7. AnswersOK(k, T, Append(H, r))
  <2>1. ASSUME NEW n \in 1 .. N + 1
        PROVE  /\ Append(H, r)[n].id < k.nextRequestId /\ T[Append(H, r)[n].id] = "idle"
               /\ Own(Append(H, r)[n], k)
    <3>1. CASE n = N + 1  BY <3>1, <1>1, <1>2, <1>3
    <3>2. CASE n \in 1 .. N
      BY <3>2, <1>1, <1>3, <1>6 DEF Consistent, AnswersOK
    <3> QED  BY <3>1, <3>2, <1>1
  <2>2. ASSUME NEW m \in 1 .. N + 1, NEW n \in 1 .. N + 1,
               Append(H, r)[m].id = Append(H, r)[n].id
        PROVE  m = n
    BY <2>2, <1>1 DEF Consistent, AnswersOK
  <2>3. ASSUME NEW m \in 1 .. Len(k.outgoing), NEW n \in 1 .. N + 1
        PROVE  k.outgoing[m].id # Append(H, r)[n].id
    BY <1>1 DEF Consistent, AnswersOK
  <2> QED  BY <2>1, <2>2, <2>3, <1>1 DEF AnswersOK
<1>8. IdsOK(k, T)
  BY <1>3 DEF Consistent, IdsOK
<1> QED  BY <1>5, <1>7, <1>8 DEF Consistent

\* A compile that is in no other place yields.
LEMMA SuspendKeeps ==
  ASSUME NEW k \in Links, NEW S \in Suspensions, NEW H \in Seq(Responses), Consistent(k, S, H),
         NEW i \in Ids, i < k.nextRequestId,
         \A n \in 1 .. Len(k.outgoing) : k.outgoing[n].id # i,
         \A n \in 1 .. Len(H) : H[n].id # i,
         NEW v \in {"analyzed", "lowered"}, NEW T \in Suspensions, T = [S EXCEPT ![i] = v]
  PROVE  Consistent(k, T, H)
<1>1. \A j \in Ids : T[j] = IF j = i THEN v ELSE S[j]
  BY DEF Suspensions
<1>2. ASSUME NEW n \in 1 .. Len(k.outgoing) PROVE T[k.outgoing[n].id] = "idle"
  <2>1. k.outgoing \in Seq(Messages)  BY DEF Links
  <2>2. k.outgoing[n] \in Messages  BY <2>1
  <2>3. k.outgoing[n].id \in Ids  BY <2>2 DEF Messages
  <2> QED  BY <2>3, <1>1 DEF Consistent, QueueOK
<1>3. ASSUME NEW n \in 1 .. Len(H) PROVE T[H[n].id] = "idle"
  <2>1. H[n] \in Responses  OBVIOUS
  <2>2. H[n].id \in Ids  BY <2>1 DEF Responses
  <2> QED  BY <2>2, <1>1 DEF Consistent, AnswersOK
<1> QED  BY <1>1, <1>2, <1>3 DEF Consistent, QueueOK, AnswersOK, IdsOK

LEMMA FinishKeeps ==
  ASSUME Types, NEW k \in Links, Consistent(k, suspended, toHost),
         NEW i \in Ids, i < k.nextRequestId,
         \A n \in 1 .. Len(k.outgoing) : k.outgoing[n].id # i,
         \A n \in 1 .. Len(toHost) : toHost[n].id # i,
         NEW C \in SUBSET Ids, NEW outcome \in Outcomes, NEW source \in Sources \cup {NoSource},
         Own(Response(i, outcome, source), k),
         Finish(i, C, outcome, source)
  PROVE  /\ suspended' \in Suspensions /\ toHost' \in Seq(Responses)
         /\ cancelledCompiles' = C \ {i} /\ cancelledCompiles' \in SUBSET Ids
         /\ Consistent(k, suspended', toHost')
         /\ \A j \in Ids : suspended'[j] = IF j = i THEN "idle" ELSE suspended[j]
         /\ \A j \in Ids : j = i \/ Somewhere(k, suspended, toHost, j)
                               => Somewhere(k, suspended', toHost', j)
<1> DEFINE r == Response(i, outcome, source)
<1>1. r \in Responses /\ r.id = i
  BY DEF Responses, Response
<1>2. suspended \in Suspensions /\ toHost \in Seq(Responses)
  BY DEF Types, WorkerTypeOK, Suspensions
<1>3. /\ suspended' = [suspended EXCEPT ![r.id] = "idle"] /\ suspended' \in Suspensions
      /\ \A j \in Ids : suspended'[j] = IF j = i THEN "idle" ELSE suspended[j]
  BY <1>1, <1>2 DEF Finish, Suspensions
<1>4. toHost' = Append(toHost, r) /\ toHost' \in Seq(Responses)
  BY <1>1, <1>2 DEF Finish
<1>5. cancelledCompiles' = C \ {i}  BY DEF Finish
<1> HIDE DEF r
<1>6. Consistent(k, suspended', toHost')
  BY <1>1, <1>2, <1>3, <1>4, AnswerKeeps DEF r
<1>7. ASSUME NEW j \in Ids, j = i \/ Somewhere(k, suspended, toHost, j)
      PROVE  Somewhere(k, suspended', toHost', j)
  <2>1. Occurs(toHost', j) <=> Occurs(toHost, j) \/ r.id = j
    BY <1>1, <1>2, <1>4, OccursAppend
  <2> QED  BY <1>1, <1>3, <1>7, <2>1 DEF Somewhere
<1> QED  BY <1>3, <1>4, <1>5, <1>6, <1>7

LEMMA ReceiveCompileKeeps == ASSUME WorkerInv, ReceiveCompile PROVE WorkerInv'
<1> DEFINE e == Head(link.outgoing)
<1>1. Types  BY DEF WorkerInv, Types
<1>2. Received("compile")  BY DEF ReceiveCompile
<1>3. /\ e \in Messages /\ e.id \in Ids /\ e.id < link'.nextRequestId /\ suspended[e.id] = "idle"
      /\ e.kind = "compile" /\ e.source = link.posted[e.id]
      /\ \A n \in 1 .. Len(toHost) : toHost[n].id # e.id
      /\ link' \in Links /\ link'.posted = link.posted /\ link'.pending = link.pending
      /\ \A n \in 1 .. Len(link'.outgoing) : link'.outgoing[n].id # e.id
      /\ Consistent(link', suspended, toHost)
      /\ \A i \in Ids : i # e.id /\ Occurs(link.outgoing, i) => Occurs(link'.outgoing, i)
  BY <1>1, <1>2, ReceivedFacts
<1>4. e.source \in Sources  BY <1>3 DEF Messages
<1>5. /\ suspended \in Suspensions /\ toHost \in Seq(Responses)
      /\ cancelledCompiles \in SUBSET Ids /\ activeCompileId \in Ids \cup {Absent}
      /\ alive \in BOOLEAN /\ alive' = alive /\ alive
      /\ link.pending \in SUBSET Ids
  BY DEF WorkerInv, WorkerTypeOK, Suspensions, ReceiveCompile, Received, Links
<1>6. Superseded \in SUBSET Ids /\ \A i \in Superseded : suspended[i] # "idle"
  BY <1>5 DEF Superseded, WorkerInv, OnlySuspendedAreCancelled, ActiveIsSuspended
<1> HIDE DEF e
<1>7. CASE /\ activeCompileId' = e.id
           /\ cancelledCompiles' = Superseded
           /\ retained' = [level |-> "analyzed", source |-> e.source]
           /\ suspended' = [suspended EXCEPT ![e.id] = "analyzed"]
           /\ toHost' = toHost
  <2>1. /\ suspended' \in Suspensions
        /\ \A j \in Ids : suspended'[j] = IF j = e.id THEN "analyzed" ELSE suspended[j]
    BY <1>3, <1>5, <1>7 DEF Suspensions
  <2>2. WorkerTypeOK'
    BY <1>3, <1>4, <1>5, <1>6, <1>7, <2>1 DEF WorkerTypeOK, Suspensions
  <2>3. Consistent(link', suspended', toHost')
    BY <1>3, <1>5, <1>7, <2>1, SuspendKeeps
  <2>4. NoneLost(link', suspended', toHost')
    <3>1. ASSUME NEW i \in link'.pending PROVE Somewhere(link', suspended', toHost', i)
      <4>1. i \in Ids /\ Somewhere(link, suspended, toHost, i)
        BY <1>3, <1>5, <3>1 DEF WorkerInv, NoneLost
      <4> QED  BY <4>1, <1>3, <1>7, <2>1 DEF Somewhere
    <3> QED  BY <3>1 DEF NoneLost
  <2>5. ActiveIsSuspended' /\ OnlySuspendedAreCancelled'
    BY <1>3, <1>6, <1>7, <2>1 DEF ActiveIsSuspended, OnlySuspendedAreCancelled
  <2>6. StageBelongsToActive'
    BY <1>3, <1>6, <1>7, <2>1 DEF StageBelongsToActive, Ids, Absent
  <2> QED  BY <2>2, <2>3, <2>4, <2>5, <2>6 DEF WorkerInv
<1>8. ASSUME activeCompileId' = Absent, retained' = Discarded,
             NEW outcome \in Outcomes, NEW source \in Sources \cup {NoSource},
             outcome # "outOfOrder", outcome = "rejected" => source = e.source, outcome # "built",
             Finish(e.id, Superseded, outcome, source)
      PROVE  WorkerInv'
  <2>1. Own(Response(e.id, outcome, source), link')
    BY <1>3, <1>8 DEF Own, Response
  <2>2. /\ suspended' \in Suspensions /\ toHost' \in Seq(Responses)
        /\ cancelledCompiles' = Superseded \ {e.id} /\ cancelledCompiles' \in SUBSET Ids
        /\ Consistent(link', suspended', toHost')
        /\ \A j \in Ids : suspended'[j] = IF j = e.id THEN "idle" ELSE suspended[j]
        /\ \A j \in Ids : j = e.id \/ Somewhere(link', suspended, toHost, j)
                               => Somewhere(link', suspended', toHost', j)
    BY <1>1, <1>3, <1>6, <1>8, <2>1, FinishKeeps
  <2>3. WorkerTypeOK'
    BY <1>3, <1>5, <1>8, <2>2 DEF WorkerTypeOK, Suspensions, Discarded
  <2>4. NoneLost(link', suspended', toHost')
    <3>1. ASSUME NEW i \in link'.pending PROVE Somewhere(link', suspended', toHost', i)
      <4>1. i \in Ids /\ Somewhere(link, suspended, toHost, i)
        BY <1>3, <1>5, <3>1 DEF WorkerInv, NoneLost
      <4>2. i = e.id \/ Somewhere(link', suspended, toHost, i)
        BY <4>1, <1>3 DEF Somewhere
      <4> QED  BY <4>1, <4>2, <2>2
    <3> QED  BY <3>1 DEF NoneLost
  <2>5. ActiveIsSuspended' /\ OnlySuspendedAreCancelled' /\ StageBelongsToActive'
    BY <1>6, <1>8, <2>2 DEF ActiveIsSuspended, OnlySuspendedAreCancelled, StageBelongsToActive, Discarded
  <2> QED  BY <2>2, <2>3, <2>4, <2>5 DEF WorkerInv
<1>9. \/ /\ activeCompileId' = e.id
         /\ cancelledCompiles' = Superseded
         /\ retained' = [level |-> "analyzed", source |-> e.source]
         /\ suspended' = [suspended EXCEPT ![e.id] = "analyzed"]
         /\ toHost' = toHost
      \/ /\ activeCompileId' = Absent
         /\ retained' = Discarded
         /\ \/ Finish(e.id, Superseded, "rejected", e.source)
            \/ Finish(e.id, Superseded, "failed", NoSource)
  BY DEF ReceiveCompile, e
<1>10. ASSUME activeCompileId' = Absent, retained' = Discarded,
              Finish(e.id, Superseded, "rejected", e.source)
       PROVE  WorkerInv'
  BY <1>4, <1>8, <1>10 DEF Outcomes
<1>11. ASSUME activeCompileId' = Absent, retained' = Discarded,
              Finish(e.id, Superseded, "failed", NoSource)
       PROVE  WorkerInv'
  BY <1>8, <1>11 DEF Outcomes
<1> QED  BY <1>7, <1>9, <1>10, <1>11

LEMMA ReceiveCancelKeeps == ASSUME WorkerInv, ReceiveCancel PROVE WorkerInv'
<1> DEFINE e == Head(link.outgoing)
           r == Response(e.id, "ack", NoSource)
<1>1. Types  BY DEF WorkerInv, Types
<1>2. Received("cancel")  BY DEF ReceiveCancel
<1>3. /\ e \in Messages /\ e.id \in Ids /\ e.id < link'.nextRequestId /\ suspended[e.id] = "idle"
      /\ e.kind = "cancel"
      /\ \A n \in 1 .. Len(toHost) : toHost[n].id # e.id
      /\ link' \in Links /\ link'.posted = link.posted /\ link'.pending = link.pending
      /\ \A n \in 1 .. Len(link'.outgoing) : link'.outgoing[n].id # e.id
      /\ Consistent(link', suspended, toHost)
      /\ \A i \in Ids : i # e.id /\ Occurs(link.outgoing, i) => Occurs(link'.outgoing, i)
  BY <1>1, <1>2, ReceivedFacts
<1>4. e.target \in Ids  BY <1>3 DEF Messages
<1>5. r \in Responses /\ r.id = e.id /\ Own(r, link')
  BY <1>3 DEF Responses, Response, Outcomes, Own
<1>6. /\ suspended \in Suspensions /\ suspended' = suspended /\ toHost \in Seq(Responses)
      /\ toHost' = Append(toHost, r) /\ toHost' \in Seq(Responses)
      /\ activeCompileId' = activeCompileId /\ alive' = alive /\ alive
      /\ link.pending \in SUBSET Ids
  BY <1>5 DEF WorkerInv, WorkerTypeOK, Suspensions, ReceiveCancel, Received, Links
<1>7. \/ /\ activeCompileId = e.target
         /\ cancelledCompiles' = cancelledCompiles \cup {e.target}
         /\ retained' = Discarded
      \/ UNCHANGED <<cancelledCompiles, retained>>
  BY DEF ReceiveCancel
<1> HIDE DEF e, r
<1>8. suspended = [suspended EXCEPT ![r.id] = "idle"]
  BY <1>3, <1>5, <1>6 DEF Suspensions
<1>9. Consistent(link', suspended', toHost')
  BY <1>3, <1>5, <1>6, <1>8, AnswerKeeps
<1>10. WorkerTypeOK'
  BY <1>3, <1>4, <1>6, <1>7 DEF WorkerInv, WorkerTypeOK, Suspensions, Discarded
<1>11. NoneLost(link', suspended', toHost')
  <2>1. ASSUME NEW i \in link'.pending PROVE Somewhere(link', suspended', toHost', i)
    <3>1. i \in Ids /\ Somewhere(link, suspended, toHost, i)
      BY <1>3, <1>6, <2>1 DEF WorkerInv, NoneLost
    <3>2. Occurs(toHost', i) <=> Occurs(toHost, i) \/ r.id = i
      BY <1>5, <1>6, OccursAppend
    <3> QED  BY <3>1, <3>2, <1>3, <1>5, <1>6 DEF Somewhere
  <2> QED  BY <2>1 DEF NoneLost
<1>12. ActiveIsSuspended' /\ OnlySuspendedAreCancelled' /\ StageBelongsToActive'
  BY <1>3, <1>4, <1>6, <1>7
     DEF WorkerInv, ActiveIsSuspended, OnlySuspendedAreCancelled, StageBelongsToActive, Discarded, Ids, Absent
<1> QED  BY <1>9, <1>10, <1>11, <1>12 DEF WorkerInv

\* A compile that resumes and ends: it was suspended, so it is nowhere else.
LEMMA SuspendedFacts ==
  ASSUME Types, NEW i \in Ids, suspended[i] # "idle"
  PROVE  /\ i < link.nextRequestId
         /\ \A n \in 1 .. Len(link.outgoing) : link.outgoing[n].id # i
         /\ \A n \in 1 .. Len(toHost) : toHost[n].id # i
  BY DEF Types, Consistent, QueueOK, AnswersOK, IdsOK

LEMMA EndKeeps ==
  ASSUME WorkerInv, NEW i \in Ids, suspended[i] # "idle", UNCHANGED <<link, alive>>,
         NEW outcome \in Outcomes, NEW source \in Sources \cup {NoSource},
         Own(Response(i, outcome, source), link),
         Finish(i, cancelledCompiles, outcome, source), Deactivate(i),
         \/ retained' = Discarded /\ (activeCompileId = i \/ activeCompileId = Absent)
         \/ retained' = retained /\ IsCancelled(i)
  PROVE  WorkerInv'
<1>1. Types /\ link \in Links /\ cancelledCompiles \in SUBSET Ids /\ link.pending \in SUBSET Ids
  BY DEF WorkerInv, Types, WorkerTypeOK, Links
<1>2. /\ i < link.nextRequestId
      /\ \A n \in 1 .. Len(link.outgoing) : link.outgoing[n].id # i
      /\ \A n \in 1 .. Len(toHost) : toHost[n].id # i
  BY <1>1, SuspendedFacts
<1>3. /\ suspended' \in Suspensions /\ toHost' \in Seq(Responses)
      /\ cancelledCompiles' = cancelledCompiles \ {i} /\ cancelledCompiles' \in SUBSET Ids
      /\ Consistent(link, suspended', toHost')
      /\ \A j \in Ids : suspended'[j] = IF j = i THEN "idle" ELSE suspended[j]
      /\ \A j \in Ids : j = i \/ Somewhere(link, suspended, toHost, j)
                             => Somewhere(link, suspended', toHost', j)
  BY <1>1, <1>2, FinishKeeps DEF Types
<1>4. Consistent(link', suspended', toHost')  BY <1>3
<1>5. activeCompileId' = IF activeCompileId = i THEN Absent ELSE activeCompileId
  BY DEF Deactivate
<1>6. WorkerTypeOK'
  BY <1>3, <1>5 DEF WorkerInv, WorkerTypeOK, Suspensions, Discarded
<1>7. alive' => NoneLost(link', suspended', toHost')
  BY <1>1, <1>3 DEF WorkerInv, NoneLost
<1>8. ActiveIsSuspended' /\ OnlySuspendedAreCancelled'
  BY <1>1, <1>3, <1>5
     DEF WorkerInv, WorkerTypeOK, ActiveIsSuspended, OnlySuspendedAreCancelled, Ids, Absent
<1>9. StageBelongsToActive'
  BY <1>1, <1>3, <1>5
     DEF WorkerInv, WorkerTypeOK, StageBelongsToActive, ActiveIsSuspended, IsCancelled, Discarded, Ids, Absent
<1> QED  BY <1>4, <1>6, <1>7, <1>8, <1>9 DEF WorkerInv

LEMMA ThrowCancelledKeeps ==
  ASSUME WorkerInv, NEW i \in Ids, ThrowCancelled(i) PROVE WorkerInv'
<1>1. Own(Response(i, "cancelled", NoSource), link)  BY DEF Own, Response
<1> QED  BY <1>1, EndKeeps DEF ThrowCancelled, Outcomes

\* The stage a compile finds when it resumes uncancelled is its own.
LEMMA ResumedStage ==
  ASSUME WorkerInv, NEW i \in Ids, suspended[i] # "idle", ~IsCancelled(i)
  PROVE  /\ activeCompileId = i /\ i \notin cancelledCompiles
         /\ retained.level = suspended[i] /\ retained.source = link.posted[i]
<1>1. activeCompileId = i /\ i \notin cancelledCompiles /\ i # Absent
  BY DEF IsCancelled, Ids, Absent
<1>2. suspended[i] \in {"idle", "analyzed", "lowered"}
  BY DEF WorkerInv, WorkerTypeOK
<1> QED  BY <1>1, <1>2 DEF WorkerInv, StageBelongsToActive

LEMMA LowerCompileKeeps ==
  ASSUME WorkerInv, NEW i \in Ids, LowerCompile(i) PROVE WorkerInv'
<1>1. /\ activeCompileId = i /\ i \notin cancelledCompiles
      /\ retained.level = "analyzed" /\ retained.source = link.posted[i]
      /\ suspended[i] = "analyzed" /\ UNCHANGED <<link, alive>>
  BY ResumedStage DEF LowerCompile
<1>2. CASE /\ retained' = [retained EXCEPT !.level = "lowered"]
           /\ suspended' = [suspended EXCEPT ![i] = "lowered"]
           /\ UNCHANGED <<activeCompileId, cancelledCompiles, toHost>>
  <2>1. Types /\ link \in Links /\ suspended \in Suspensions /\ toHost \in Seq(Responses)
    BY DEF WorkerInv, Types, WorkerTypeOK, Suspensions
  <2>2. /\ suspended' \in Suspensions
        /\ \A j \in Ids : suspended'[j] = IF j = i THEN "lowered" ELSE suspended[j]
    BY <1>2, <2>1 DEF Suspensions
  <2>3. Consistent(link, suspended', toHost)
    BY <1>1, <1>2, <2>1, <2>2, SuspendedFacts, SuspendKeeps DEF Types
  <2>4. WorkerTypeOK'
    BY <1>1, <1>2, <2>2 DEF WorkerInv, WorkerTypeOK, Suspensions
  <2>5. alive' => NoneLost(link', suspended', toHost')
    <3>1. link.pending \in SUBSET Ids  BY <2>1 DEF Links
    <3> QED  BY <3>1, <1>1, <1>2, <2>2 DEF WorkerInv, NoneLost, Somewhere
  <2>6. ActiveIsSuspended' /\ OnlySuspendedAreCancelled'
    BY <1>1, <1>2, <2>2 DEF WorkerInv, WorkerTypeOK, ActiveIsSuspended, OnlySuspendedAreCancelled
  <2>7. StageBelongsToActive'
    BY <1>1, <1>2, <2>2 DEF WorkerInv, WorkerTypeOK, StageBelongsToActive
  <2> QED  BY <1>1, <1>2, <2>3, <2>4, <2>5, <2>6, <2>7 DEF WorkerInv
<1>3. CASE /\ Finish(i, cancelledCompiles, "failed", NoSource)
           /\ Deactivate(i)
           /\ retained' = Discarded
  <2>1. Own(Response(i, "failed", NoSource), link)  BY DEF Own, Response
  <2> QED  BY <1>1, <1>3, <2>1, EndKeeps DEF Outcomes
<1> QED  BY <1>1, <1>2, <1>3 DEF LowerCompile

LEMMA FinishCompileKeeps ==
  ASSUME WorkerInv, NEW i \in Ids, FinishCompile(i) PROVE WorkerInv'
<1>1. /\ activeCompileId = i /\ i \notin cancelledCompiles
      /\ retained.level = "lowered" /\ retained.source = link.posted[i]
      /\ suspended[i] # "idle" /\ UNCHANGED <<link, alive>> /\ Deactivate(i)
      /\ retained' = Discarded
      /\ \/ Finish(i, cancelledCompiles, "built", retained.source)
         \/ Finish(i, cancelledCompiles, "failed", NoSource)
  BY ResumedStage DEF FinishCompile
<1>2. retained.source \in Sources \cup {NoSource}  BY DEF WorkerInv, WorkerTypeOK
<1>3. CASE Finish(i, cancelledCompiles, "built", retained.source)
  <2>1. Own(Response(i, "built", retained.source), link)  BY <1>1 DEF Own, Response
  <2> QED  BY <1>1, <1>2, <1>3, <2>1, EndKeeps DEF Outcomes
<1>4. CASE Finish(i, cancelledCompiles, "failed", NoSource)
  <2>1. Own(Response(i, "failed", NoSource), link)  BY DEF Own, Response
  <2> QED  BY <1>1, <1>4, <2>1, EndKeeps DEF Outcomes
<1> QED  BY <1>1, <1>3, <1>4

LEMMA CallKeeps == ASSUME WorkerInv, Call PROVE WorkerInv'
<1>1. /\ link \in Links /\ suspended \in Suspensions /\ toHost \in Seq(Responses)
      /\ Consistent(link, suspended, toHost)
      /\ alive => NoneLost(link, suspended, toHost)
  BY DEF WorkerInv, WorkerTypeOK, Suspensions
<1>2. link' \in Reactions(link) /\ UNCHANGED <<alive, worker>>
  BY DEF Call
<1>3. /\ link' \in Links
      /\ Consistent(link', suspended, toHost)
      /\ alive => NoneLost(link', suspended, toHost)
      /\ \A i \in Ids : suspended[i] # "idle" => link'.posted[i] = link.posted[i]
  BY <1>1, <1>2, ReactionsKeep
<1>4. WorkerTypeOK' /\ ActiveIsSuspended' /\ OnlySuspendedAreCancelled'
  BY <1>2, <1>3 DEF WorkerInv, WorkerTypeOK, ActiveIsSuspended, OnlySuspendedAreCancelled, worker
<1>5. StageBelongsToActive'
  BY <1>2, <1>3 DEF WorkerInv, WorkerTypeOK, ActiveIsSuspended, StageBelongsToActive, worker, Ids, Absent
<1>6. Consistent(link', suspended', toHost') /\ (alive' => NoneLost(link', suspended', toHost'))
  BY <1>2, <1>3 DEF worker
<1> QED  BY <1>4, <1>5, <1>6 DEF WorkerInv

LEMMA DeliverKeeps == ASSUME WorkerInv, Deliver PROVE WorkerInv'
<1> DEFINE k == SettleRequest(link, Head(toHost).id)
<1>1. /\ link \in Links /\ suspended \in Suspensions /\ toHost \in Seq(Responses) /\ toHost # <<>>
      /\ Consistent(link, suspended, toHost)
      /\ alive => NoneLost(link, suspended, toHost)
  BY DEF WorkerInv, WorkerTypeOK, Suspensions, Deliver
<1>2. /\ k \in Links
      /\ Consistent(k, suspended, Tail(toHost))
      /\ alive => NoneLost(k, suspended, Tail(toHost))
      /\ \A i \in Ids : suspended[i] # "idle" => k.posted[i] = link.posted[i]
  BY <1>1, SettleKeeps
<1>3. Tail(toHost) \in Seq(Responses)  BY <1>1, SeqFacts
<1>4. link' \in Reactions(k) /\ toHost' = Tail(toHost)
  BY DEF Deliver
<1>5. UNCHANGED <<alive, activeCompileId, cancelledCompiles, suspended, retained>>
  BY DEF Deliver
<1> HIDE DEF k
<1>6. /\ link' \in Links
      /\ Consistent(link', suspended, Tail(toHost))
      /\ alive => NoneLost(link', suspended, Tail(toHost))
      /\ \A i \in Ids : suspended[i] # "idle" => link'.posted[i] = link.posted[i]
  BY <1>1, <1>2, <1>3, <1>4, ReactionsKeep
<1>7. WorkerTypeOK' /\ ActiveIsSuspended' /\ OnlySuspendedAreCancelled'
  BY <1>3, <1>4, <1>5, <1>6
     DEF WorkerInv, WorkerTypeOK, ActiveIsSuspended, OnlySuspendedAreCancelled
<1>8. StageBelongsToActive'
  BY <1>5, <1>6 DEF WorkerInv, WorkerTypeOK, ActiveIsSuspended, StageBelongsToActive, Ids, Absent
<1>9. Consistent(link', suspended', toHost') /\ (alive' => NoneLost(link', suspended', toHost'))
  BY <1>4, <1>5, <1>6
<1> QED  BY <1>7, <1>8, <1>9 DEF WorkerInv

LEMMA TerminateKeeps == ASSUME WorkerInv, Terminate PROVE WorkerInv'
<1>1. link \in Links /\ Consistent(link, suspended, toHost) /\ suspended \in Suspensions
  BY DEF WorkerInv, WorkerTypeOK, Suspensions
<1>2. ASSUME NEW k \in Links, \A i \in k.pending : i < k.nextRequestId, link' = Terminated(k)
      PROVE  link' \in Links /\ Consistent(link', NoSuspended, <<>>)
  <2>1. /\ link' \in Links /\ link'.outgoing = <<>>
        /\ link'.nextRequestId = k.nextRequestId /\ link'.pending \subseteq k.pending
    BY <1>2, TerminatedType
  <2>2. IdsOK(link', NoSuspended)
    BY <2>1, <1>2 DEF IdsOK, NoSuspended
  <2> QED  BY <2>1, <2>2, GoneConsistent
<1>3. \A i \in link.pending : i < link.nextRequestId
  BY <1>1 DEF Consistent, IdsOK
<1>4. ASSUME CanPost(link)
      PROVE  /\ CancelCurrent(link) \in Links
             /\ \A i \in CancelCurrent(link).pending : i < CancelCurrent(link).nextRequestId
  <2>1. CASE CancelCurrent(link) = link  BY <2>1, <1>1, <1>3
  <2>2. ASSUME NEW e \in Messages, Posts(link, CancelCurrent(link), e)
        PROVE  \A i \in CancelCurrent(link).pending : i < CancelCurrent(link).nextRequestId
    <3>1. link.pending \in SUBSET Ids /\ link.nextRequestId \in Int  BY <1>1 DEF Links
    <3> QED  BY <3>1, <2>2, <1>3 DEF Posts, Ids
  <2> QED  BY <1>1, <1>4, <2>1, <2>2, CancelPosts
<1>5. link' \in Links /\ Consistent(link', NoSuspended, <<>>)
  BY <1>1, <1>2, <1>3, <1>4 DEF Terminate
<1>6. /\ alive' = FALSE /\ activeCompileId' = Absent /\ cancelledCompiles' = {}
      /\ suspended' = NoSuspended /\ retained' = Discarded /\ toHost' = <<>>
  BY DEF Terminate, WorkerGone
<1>7. WorkerTypeOK'
  <2>1. NoSuspended \in Suspensions /\ <<>> \in Seq(Responses)
    BY DEF NoSuspended, Suspensions
  <2> QED  BY <2>1, <1>5, <1>6 DEF WorkerTypeOK, Discarded, Suspensions
<1> QED  BY <1>5, <1>6, <1>7
  DEF WorkerInv, ActiveIsSuspended, OnlySuspendedAreCancelled, StageBelongsToActive, Discarded

LEMMA WorkerInit_Inv == ASSUME WorkerInit PROVE WorkerInv
<1>1. NewLink \in Links
  BY WorkerAssumption DEF NewLink, Links, Absent
<1>2. WorkerTypeOK
  BY <1>1 DEF WorkerInit, WorkerTypeOK, NoSuspended, Discarded
<1>3. Consistent(link, suspended, toHost)
  BY <1>1, GoneConsistent DEF WorkerInit, NewLink, IdsOK, NoSuspended
<1> QED  BY <1>2, <1>3
  DEF WorkerInit, WorkerInv, ActiveIsSuspended, OnlySuspendedAreCancelled, StageBelongsToActive,
      Discarded, NoneLost, NewLink

LEMMA WorkerNext_Inv == ASSUME WorkerInv, [WorkerNext]_workerVars PROVE WorkerInv'
<1>1. CASE WorkerStep
  BY <1>1, ReceiveCompileKeeps, ReceiveCancelKeeps, ThrowCancelledKeeps, LowerCompileKeeps,
     FinishCompileKeeps DEF WorkerStep
<1>2. CASE Call  BY <1>2, CallKeeps
<1>3. CASE Deliver  BY <1>3, DeliverKeeps
<1>4. CASE Terminate  BY <1>4, TerminateKeeps
<1>5. CASE UNCHANGED workerVars
  BY <1>5 DEF workerVars, worker, WorkerInv, WorkerTypeOK, ActiveIsSuspended,
              OnlySuspendedAreCancelled, StageBelongsToActive
<1> QED  BY <1>1, <1>2, <1>3, <1>4, <1>5 DEF WorkerNext

LEMMA WorkerInv_Properties ==
  ASSUME WorkerInv PROVE AnswersAreOwn /\ PendingIsInFlight
<1>1. AnswersAreOwn
  BY DEF WorkerInv, Consistent, AnswersOK, Own, AnswersAreOwn
<1>2. ASSUME alive, NEW i \in link.pending
      PROVE  \/ Occurs(link.outgoing, i) /\ suspended[i] = "idle" /\ ~Occurs(toHost, i)
             \/ ~Occurs(link.outgoing, i) /\ suspended[i] # "idle" /\ ~Occurs(toHost, i)
             \/ ~Occurs(link.outgoing, i) /\ suspended[i] = "idle" /\ Occurs(toHost, i)
  <2>1. Occurs(link.outgoing, i) => suspended[i] = "idle" /\ ~Occurs(toHost, i)
    BY DEF WorkerInv, Consistent, QueueOK, AnswersOK, Occurs
  <2>2. Occurs(toHost, i) => suspended[i] = "idle"
    BY DEF WorkerInv, Consistent, AnswersOK, Occurs
  <2>3. Somewhere(link, suspended, toHost, i)
    BY <1>2 DEF WorkerInv, NoneLost
  <2> QED  BY <2>1, <2>2, <2>3 DEF Somewhere
<1> QED  BY <1>1, <1>2 DEF PendingIsInFlight

\* What is true of the worker whatever its caller does.
WorkerSafety ==
  /\ WorkerTypeOK
  /\ StageBelongsToActive
  /\ OnlySuspendedAreCancelled
  /\ AnswersAreOwn
  /\ PendingIsInFlight

\* For every caller of the connection: the retained stage is the active
\* compile's, an answer carries the source of its own request, no pending
\* request is lost or answered twice, and no cancellation outlives its compile.
THEOREM WorkerIsSafe == WorkerSpec => []WorkerSafety
<1>1. WorkerInit => WorkerInv  BY WorkerInit_Inv
<1>2. WorkerInv /\ [WorkerNext]_workerVars => WorkerInv'  BY WorkerNext_Inv
<1>3. WorkerInv => WorkerSafety
  BY WorkerInv_Properties DEF WorkerSafety, WorkerInv
<1> HIDE DEF WorkerInv, WorkerInit, WorkerNext, workerVars, WorkerSafety
<1> QED  BY <1>1, <1>2, <1>3, PTL DEF WorkerSpec
-----------------------------------------------------------------------------
(* The commands. *)

Builds == {NoBuild} \cup [at : {"compiling", "writing", "renaming"}, request : Ids, revision : Versions]

Phases ==
  \A c \in Commands :
    /\ phase[c] = "starting" => first[c] \in Versions /\ c \notin Releases
    /\ phase[c] \in {"new", "asking", "clearing", "saving"} =>
         owner # c /\ pending[c] = Absent /\ build[c] = NoBuild
    /\ c \in Releases => pending[c] = Absent

TasksInv == TasksTypeOK /\ Phases /\ ReleaseKeepsOwnership /\ NoLostSave

-----------------------------------------------------------------------------
(* The pieces of the handlers. *)

LEMMA SnapshotIsSource ==
  ASSUME TasksTypeOK, NEW c \in Commands, NEW r \in Versions
  PROVE  Snapshot(c, r) \in Sources
<1>1. Snapshot(c, r) \in Snapshots
  BY DEF Snapshot, Snapshots, TasksTypeOK
<1> QED  BY <1>1, TasksAssumption

LEMMA BuildFacts ==
  /\ NoBuild \in Builds /\ NoBuild.at = "none"
  /\ \A b \in Builds : b.at \in {"none", "compiling", "writing", "renaming"}
  /\ \A b \in Builds : b.at = "none" <=> b = NoBuild
  /\ \A b \in Builds : b.at # "none" => b.revision \in Versions /\ b.request \in Ids
<1>1. NoBuild \in Builds /\ NoBuild.at = "none"  BY DEF Builds, NoBuild
<1>2. ASSUME NEW b \in Builds
      PROVE  /\ b.at \in {"none", "compiling", "writing", "renaming"}
             /\ b.at = "none" <=> b = NoBuild
             /\ b.at # "none" => b.revision \in Versions /\ b.request \in Ids
  BY DEF Builds, NoBuild
<1> QED  BY <1>1, <1>2

\* A build that is posted.
LEMMA PostBuildFacts ==
  ASSUME TasksTypeOK, NEW c \in Commands, NEW r \in Versions, NEW k, PostBuild(k, c, r)
  PROVE  /\ CanPost(k) /\ link' \in Reactions(k)
         /\ build' \in [Commands -> Builds] /\ build'[c].at = "compiling"
         /\ \A d \in Commands : d # c => build'[d] = build[d]
<1> DEFINE b == [at |-> "compiling", request |-> k.nextRequestId, revision |-> r]
<1>1. b \in Builds /\ b.at = "compiling"  BY DEF PostBuild, CanPost, Builds
<1>2. build \in [Commands -> Builds]  BY DEF TasksTypeOK, Builds
<1>3. build' = [build EXCEPT ![c] = b]  BY DEF PostBuild
<1> HIDE DEF b
<1>4. build' \in [Commands -> Builds] /\ build'[c] = b /\ \A d \in Commands : d # c => build'[d] = build[d]
  BY <1>1, <1>2, <1>3
<1>5. link' \in Reactions(k)
  <2>1. Snapshot(c, r) \in Sources  BY SnapshotIsSource
  <2>2. CanPost(k) /\ link' = Compile(k, Snapshot(c, r))  BY DEF PostBuild
  <2> QED  BY <2>1, <2>2 DEF Reactions
<1> QED  BY <1>1, <1>4, <1>5 DEF PostBuild

LEMMA EndBuildFacts ==
  ASSUME TasksTypeOK, NEW c \in Commands, NEW k, EndBuild(c, k)
  PROVE  /\ link' = k
         /\ build' \in [Commands -> Builds] /\ build'[c] = NoBuild
         /\ \A d \in Commands : d # c => build'[d] = build[d]
<1>1. build \in [Commands -> Builds]  BY DEF TasksTypeOK, Builds
<1>2. build' = [build EXCEPT ![c] = NoBuild] /\ link' = k  BY DEF EndBuild
<1> QED  BY <1>1, <1>2, BuildFacts

\* The head of the loop: afterwards nothing waits that is not being built.
LEMMA DrainFacts ==
  ASSUME TasksTypeOK, NEW c \in Commands, NEW k, DrainNext(c, k)
  PROVE  /\ link' \in Reactions(k)
         /\ build' \in [Commands -> Builds]
         /\ \A d \in Commands : d # c => build'[d] = build[d] /\ pending'[d] = pending[d]
         /\ pending' \in [Commands -> Versions \cup {Absent}]
         /\ owner = c => pending'[c] = Absent
         /\ owner # c => build'[c] = NoBuild /\ pending'[c] = pending[c]
<1>1. pending \in [Commands -> Versions \cup {Absent}]  BY DEF TasksTypeOK
<1>2. CASE owner = c /\ pending[c] # Absent
  <2>1. pending[c] \in Versions /\ PostBuild(k, c, pending[c]) /\ pending' = [pending EXCEPT ![c] = Absent]
    BY <1>1, <1>2 DEF DrainNext
  <2> QED  BY <1>1, <1>2, <2>1, PostBuildFacts
<1>3. CASE ~(owner = c /\ pending[c] # Absent)
  <2>1. EndBuild(c, k) /\ pending' = pending
    BY <1>3 DEF DrainNext
  <2> QED  BY <1>1, <1>3, <2>1, EndBuildFacts DEF Reactions
<1> QED  BY <1>2, <1>3

LEMMA QueueFacts ==
  ASSUME TasksTypeOK, NEW c \in Commands, NEW r \in Versions, QueueWatchBuild(c, r), NoLostSave
  PROVE  /\ CanPost(link) /\ link' \in Reactions(link)
         /\ build' \in [Commands -> Builds] /\ build'[c].at # "none"
         /\ pending' \in [Commands -> Versions \cup {Absent}]
         /\ \A d \in Commands : d # c => build'[d] = build[d] /\ pending'[d] = pending[d]
<1>1. pending \in [Commands -> Versions \cup {Absent}] /\ build \in [Commands -> Builds]
  BY DEF TasksTypeOK, Builds
<1>2. CASE Compiling(c)
  <2>1. /\ pending' = [pending EXCEPT ![c] = r]
        /\ CanPost(link) /\ link' = CancelCurrent(link) /\ build' = build
    BY <1>2 DEF QueueWatchBuild
  <2> QED  BY <1>1, <1>2, <2>1 DEF Compiling, Reactions
<1>3. CASE ~Compiling(c)
  <2>1. PostBuild(link, c, r) /\ pending' = pending
    BY <1>3 DEF QueueWatchBuild
  <2> QED  BY <1>1, <2>1, PostBuildFacts
<1> QED  BY <1>2, <1>3

-----------------------------------------------------------------------------
\* What a step of the builds and of the task leaves of TasksInv to show.
LEMMA TaskStep ==
  ASSUME TasksInv,
         build' \in [Commands -> Builds], pending' \in [Commands -> Versions \cup {Absent}],
         owner' \in Commands \cup {Nobody}, UNCHANGED <<phase, first>>,
         NEW c \in Commands,
         \A d \in Commands : d # c => build'[d] = build[d] /\ pending'[d] = pending[d],
         c \notin Releases,
         phase[c] \notin {"new", "asking", "clearing", "saving"},
         \/ owner' = owner
         \/ owner = c /\ owner' = Nobody,
         owner' = c /\ pending'[c] # Absent => build'[c].at # "none"
  PROVE  Phases' /\ ReleaseKeepsOwnership' /\ NoLostSave'
<1>1. Nobody \notin Commands  BY TasksAssumption
<1>2. Phases'
  BY <1>1 DEF TasksInv, Phases
<1>3. ReleaseKeepsOwnership'
  BY <1>1 DEF TasksInv, ReleaseKeepsOwnership, Compiling
<1>4. NoLostSave'
  BY <1>1 DEF TasksInv, NoLostSave, Compiling, Watching
<1> QED  BY <1>2, <1>3, <1>4

\* Steps that leave the builds, the task and what waits alone.
LEMMA PhaseStep ==
  ASSUME TasksInv, UNCHANGED <<owner, pending, build>>,
         NEW c \in Commands, NEW p, phase' = [phase EXCEPT ![c] = p],
         UNCHANGED first,
         p # "building", phase[c] # "building",
         \/ p \in {"asking", "clearing", "saving"} /\ phase[c] \in {"new", "asking", "clearing", "saving"}
         \/ p = "done"
  PROVE  Phases' /\ ReleaseKeepsOwnership' /\ NoLostSave' /\ phase' \in
           [Commands -> {"new", "asking", "clearing", "saving", "starting", "building", "done"}]
<1>1. \A d \in Commands : phase'[d] = IF d = c THEN p ELSE phase[d]
  BY DEF TasksInv, TasksTypeOK
<1>2. Phases'
  BY <1>1 DEF TasksInv, Phases
<1>3. ReleaseKeepsOwnership'
  BY <1>1 DEF TasksInv, ReleaseKeepsOwnership, Compiling
<1>4. NoLostSave'
  BY <1>1 DEF TasksInv, NoLostSave, Compiling, Watching
<1>5. phase' \in [Commands -> {"new", "asking", "clearing", "saving", "starting", "building", "done"}]
  BY DEF TasksInv, TasksTypeOK
<1> QED  BY <1>2, <1>3, <1>4, <1>5

LEMMA CommandSteps ==
  ASSUME TasksInv, NEW c \in Commands,
         InvokeRelease(c) \/ InvokeWatch(c) \/ Dismiss(c) \/ SaveFailed(c) \/ Cleared(c)
  PROVE  TasksInv' /\ UNCHANGED workerVars
<1>1. PICK p \in {"asking", "saving", "done"} : Go(c, p)
  BY DEF InvokeRelease, InvokeWatch, Dismiss, SaveFailed, Cleared
<1>2. /\ UNCHANGED <<quiet, owner, first>>
      /\ phase[c] \in {"new", "asking", "clearing", "saving"}
  BY DEF InvokeRelease, InvokeWatch, Dismiss, SaveFailed, Cleared
<1>3. Phases' /\ ReleaseKeepsOwnership' /\ NoLostSave' /\ phase' \in
           [Commands -> {"new", "asking", "clearing", "saving", "starting", "building", "done"}]
  BY <1>1, <1>2, PhaseStep DEF Go, quiet
<1>4. TasksTypeOK'
  BY <1>2, <1>3 DEF TasksInv, TasksTypeOK, quiet, taskGhosts
<1> QED  BY <1>2, <1>3, <1>4 DEF TasksInv, quiet

LEMMA EditStep ==
  ASSUME TasksInv, NEW d \in Documents, Edit(d)
  PROVE  TasksInv' /\ UNCHANGED workerVars
<1>1. version[d] \in Versions /\ version[d] + 1 \in Versions
  BY TasksAssumption DEF Edit, TasksInv, TasksTypeOK, Versions
<1>2. TasksTypeOK'
  BY <1>1 DEF Edit, TasksInv, TasksTypeOK, commands, taskGhosts
<1> QED  BY <1>2 DEF Edit, TasksInv, TasksTypeOK, Phases, ReleaseKeepsOwnership, NoLostSave, Compiling, Watching, commands

\* What stopDebugWatch leaves.
LEMMA StopFacts ==
  ASSUME TasksInv, StopDebugWatch
  PROVE  /\ link' = link \/ (CanPost(link) /\ link' = CancelCurrent(link))
         /\ pending' \in [Commands -> Versions \cup {Absent}]
         /\ \A d \in Commands : pending'[d] = Absent \/ pending'[d] = pending[d]
         /\ \/ owner' = owner /\ owner \notin Commands \ Releases
            \/ owner' = Nobody /\ owner \in Commands \ Releases
<1>1. CASE WatchActive
  BY <1>1 DEF StopDebugWatch, WatchActive, TasksInv, TasksTypeOK
<1>2. CASE ~WatchActive
  BY <1>2 DEF StopDebugWatch, WatchActive, TasksInv, TasksTypeOK
<1> QED  BY <1>1, <1>2

\* The task is a watch no longer, and nothing else changes but one phase.
LEMMA StopStep ==
  ASSUME TasksInv, StopDebugWatch, UNCHANGED <<first, build>>,
         \/ UNCHANGED phase
         \/ \E c \in Commands : phase[c] = "asking" /\ phase' = [phase EXCEPT ![c] = "clearing"]
  PROVE  Phases' /\ ReleaseKeepsOwnership' /\ NoLostSave'
<1>1. Nobody \notin Commands  BY TasksAssumption
<1>2. /\ \A d \in Commands : pending'[d] = Absent \/ pending'[d] = pending[d]
      /\ \/ owner' = owner /\ owner \notin Commands \ Releases
         \/ owner' = Nobody /\ owner \in Commands \ Releases
  BY StopFacts
<1>3. \A d \in Commands : phase'[d] = phase[d] \/ (phase[d] = "asking" /\ phase'[d] = "clearing")
  BY DEF TasksInv, TasksTypeOK
<1>4. Phases'
  BY <1>1, <1>2, <1>3 DEF TasksInv, Phases
<1>5. ReleaseKeepsOwnership'
  BY <1>1, <1>2, <1>3 DEF TasksInv, ReleaseKeepsOwnership, Compiling
<1>6. NoLostSave'
  BY <1>1, <1>2, <1>3 DEF TasksInv, NoLostSave, Compiling, Watching
<1> QED  BY <1>4, <1>5, <1>6

LEMMA StopSteps ==
  ASSUME TasksInv, StopCommand \/ \E c \in Commands : StopAndBuild(c)
  PROVE  TasksInv' /\ Call
<1>1. /\ StopDebugWatch
      /\ UNCHANGED <<alive, worker, version, subject, first, build, output, disposed, taskGhosts>>
      /\ \/ UNCHANGED phase
         \/ \E c \in Commands : phase[c] = "asking" /\ phase' = [phase EXCEPT ![c] = "clearing"]
  BY DEF StopCommand, StopAndBuild, Go, commands
<1>2. /\ link' = link \/ (CanPost(link) /\ link' = CancelCurrent(link))
      /\ pending' \in [Commands -> Versions \cup {Absent}]
      /\ owner' = owner \/ owner' = Nobody
  BY <1>1, StopFacts
<1>3. Phases' /\ ReleaseKeepsOwnership' /\ NoLostSave'
  BY <1>1, StopStep
<1>4. TasksTypeOK'
  BY <1>1, <1>2 DEF TasksInv, TasksTypeOK, taskGhosts
<1>5. Call
  BY <1>1, <1>2 DEF Call, Reactions
<1> QED  BY <1>3, <1>4, <1>5 DEF TasksInv

LEMMA SaveStep ==
  ASSUME TasksInv, NEW d \in Documents, Save(d)
  PROVE  TasksInv' /\ Call
<1>1. /\ owner \in Commands \ Releases /\ version[d] \in Versions
      /\ QueueWatchBuild(owner, version[d]) /\ NoLostSave
      /\ UNCHANGED <<alive, worker, version, commands, owner, output, disposed, handled>>
      /\ saved' = [saved EXCEPT ![owner] = version[d]]
      /\ overtaken' = overtaken \/ overtaken' = overtaken \cup {owner}
  BY DEF Save, WatchActive, TasksInv, TasksTypeOK
<1>2. /\ CanPost(link) /\ link' \in Reactions(link)
      /\ build' \in [Commands -> Builds] /\ build'[owner].at # "none"
      /\ pending' \in [Commands -> Versions \cup {Absent}]
      /\ \A e \in Commands : e # owner => build'[e] = build[e] /\ pending'[e] = pending[e]
  BY <1>1, QueueFacts DEF TasksInv
<1>3. phase[owner] \notin {"new", "asking", "clearing", "saving"}
  BY <1>1 DEF TasksInv, Phases
<1>4. Phases' /\ ReleaseKeepsOwnership' /\ NoLostSave'
  BY <1>1, <1>2, <1>3, TaskStep DEF commands
<1>5. TasksTypeOK'
  BY <1>1, <1>2 DEF TasksInv, TasksTypeOK, Builds, commands
<1>6. Call
  BY <1>1, <1>2 DEF Call
<1> QED  BY <1>4, <1>5, <1>6 DEF TasksInv

LEMMA SavedReleaseStep ==
  ASSUME TasksInv, NEW c \in Commands, SavedRelease(c)
  PROVE  TasksInv' /\ [Call]_workerVars
<1>1. /\ phase[c] = "saving" /\ c \in Releases /\ owner # c /\ build[c] = NoBuild /\ pending[c] = Absent
      /\ version[subject[c]] \in Versions
      /\ UNCHANGED <<alive, worker, version, subject, first, pending, output, disposed, taskGhosts>>
  BY DEF SavedRelease, TasksInv, Phases, TasksTypeOK
<1>2. ASSUME Go(c, "done"), UNCHANGED <<build, owner>> PROVE TasksInv'
  <2>1. Phases' /\ ReleaseKeepsOwnership' /\ NoLostSave' /\ phase' \in [Commands -> {"new", "asking", "clearing", "saving", "starting", "building", "done"}]
    BY <1>1, <1>2, PhaseStep DEF Go
  <2>2. TasksTypeOK'
    BY <1>1, <1>2, <2>1 DEF TasksInv, TasksTypeOK, taskGhosts
  <2> QED  BY <2>1, <2>2 DEF TasksInv
<1>3. ASSUME PostBuild(link, c, version[subject[c]]), owner = Nobody, owner' = c, Go(c, "building")
      PROVE  TasksInv'
  <2>0. TasksTypeOK  BY DEF TasksInv
  <2>1. /\ link' \in Reactions(link) /\ build' \in [Commands -> Builds] /\ build'[c].at = "compiling"
        /\ \A d \in Commands : d # c => build'[d] = build[d]
    BY <1>1, <1>3, <2>0, PostBuildFacts
  <2>2. \A d \in Commands : phase'[d] = IF d = c THEN "building" ELSE phase[d]
    BY <1>3, <2>0 DEF Go, TasksTypeOK
  <2>3. TasksTypeOK'
    BY <1>1, <1>3, <2>1 DEF TasksInv, TasksTypeOK, Builds, Go, taskGhosts
  <2>4. Phases'
    BY <1>1, <1>3, <2>1, <2>2 DEF TasksInv, Phases
  <2>5. ReleaseKeepsOwnership'
    BY <1>1, <1>3, <2>1, <2>2, TasksAssumption DEF TasksInv, ReleaseKeepsOwnership, Compiling
  <2>6. NoLostSave'
    BY <1>1, <1>3, <2>1 DEF TasksInv, NoLostSave, Compiling, Watching
  <2> QED  BY <1>1, <2>1, <2>3, <2>4, <2>5, <2>6 DEF TasksInv, Call
<1>4. [Call]_workerVars
  <2>0. TasksTypeOK  BY DEF TasksInv
  <2>1. CASE link' = link  BY <2>1, <1>1 DEF workerVars
  <2>2. CASE CanPost(link) /\ link' = Compile(link, Snapshot(c, version[subject[c]]))
    <3>1. Snapshot(c, version[subject[c]]) \in Sources  BY <1>1, <2>0, SnapshotIsSource
    <3> QED  BY <1>1, <2>2, <3>1 DEF Call, Reactions
  <2> QED  BY <2>1, <2>2 DEF SavedRelease, PostBuild
<1> QED  BY <1>2, <1>3, <1>4 DEF SavedRelease

LEMMA SavedWatchStep ==
  ASSUME TasksInv, NEW c \in Commands, SavedWatch(c)
  PROVE  TasksInv' /\ UNCHANGED workerVars
<1>1. /\ phase[c] = "saving" /\ c \notin Releases /\ owner # c /\ build[c] = NoBuild /\ pending[c] = Absent
      /\ version[subject[c]] \in Versions
      /\ UNCHANGED <<workerVars, version, subject, pending, build, output, disposed, handled, overtaken>>
  BY DEF SavedWatch, TasksInv, Phases, TasksTypeOK
<1>2. CASE Go(c, "done") /\ UNCHANGED <<owner, first, saved>>
  <2>1. Phases' /\ ReleaseKeepsOwnership' /\ NoLostSave' /\ phase' \in [Commands -> {"new", "asking", "clearing", "saving", "starting", "building", "done"}]
    BY <1>1, <1>2, PhaseStep DEF Go
  <2>2. TasksTypeOK'
    BY <1>1, <1>2, <2>1 DEF TasksInv, TasksTypeOK
  <2> QED  BY <1>1, <2>1, <2>2 DEF TasksInv
<1>3. CASE /\ owner = Nobody /\ owner' = c /\ Go(c, "starting")
           /\ first' = [first EXCEPT ![c] = version[subject[c]]]
           /\ saved' = [saved EXCEPT ![c] = version[subject[c]]]
  <2>1. /\ \A d \in Commands : phase'[d] = IF d = c THEN "starting" ELSE phase[d]
        /\ \A d \in Commands : first'[d] = IF d = c THEN version[subject[c]] ELSE first[d]
    BY <1>3 DEF Go, TasksInv, TasksTypeOK
  <2>2. TasksTypeOK'
    BY <1>1, <1>3 DEF TasksInv, TasksTypeOK, Go
  <2>3. Phases'
    BY <1>1, <1>3, <2>1 DEF TasksInv, Phases
  <2>4. ReleaseKeepsOwnership'
    BY <1>1, <1>3, <2>1, TasksAssumption DEF TasksInv, ReleaseKeepsOwnership, Compiling
  <2>5. NoLostSave'
    BY <1>1, <1>3 DEF TasksInv, NoLostSave, Compiling, Watching
  <2> QED  BY <1>1, <2>2, <2>3, <2>4, <2>5 DEF TasksInv
<1> QED  BY <1>2, <1>3 DEF SavedWatch

LEMMA StartedStep ==
  ASSUME TasksInv, NEW c \in Commands, WatchStarted(c)
  PROVE  TasksInv' /\ [Call]_workerVars
<1>1. /\ phase[c] = "starting" /\ first[c] \in Versions /\ c \notin Releases /\ c # Nobody
      /\ UNCHANGED <<alive, worker, version, subject, output, disposed, taskGhosts>>
      /\ Go(c, "done") /\ first' = [first EXCEPT ![c] = Absent]
      /\ TasksTypeOK /\ NoLostSave
  BY TasksAssumption DEF WatchStarted, TasksInv, Phases
<1>2. /\ \A d \in Commands : phase'[d] = IF d = c THEN "done" ELSE phase[d]
      /\ \A d \in Commands : d # c => first'[d] = first[d]
  BY <1>1 DEF Go, TasksTypeOK
<1>3. ASSUME build' \in [Commands -> Builds], pending' \in [Commands -> Versions \cup {Absent}],
             owner' = owner \/ (owner = c /\ owner' = Nobody),
             \A d \in Commands : d # c => build'[d] = build[d] /\ pending'[d] = pending[d],
             owner' = c /\ pending'[c] # Absent => build'[c].at # "none"
      PROVE  TasksInv'
  <2>1. TasksTypeOK'
    BY <1>1, <1>3 DEF TasksTypeOK, Builds, Go, taskGhosts
  <2>2. Phases'
    BY <1>1, <1>2, <1>3, TasksAssumption DEF TasksInv, Phases
  <2>3. ReleaseKeepsOwnership'
    BY <1>1, <1>2, <1>3, TasksAssumption DEF TasksInv, ReleaseKeepsOwnership, Compiling
  <2>4. NoLostSave'
    BY <1>1, <1>3, TasksAssumption DEF TasksInv, NoLostSave, Compiling, Watching
  <2> QED  BY <2>1, <2>2, <2>3, <2>4 DEF TasksInv
<1>4. CASE QueueWatchBuild(c, first[c]) /\ UNCHANGED owner
  <2>1. /\ link' \in Reactions(link)
        /\ build' \in [Commands -> Builds] /\ build'[c].at # "none"
        /\ pending' \in [Commands -> Versions \cup {Absent}]
        /\ \A d \in Commands : d # c => build'[d] = build[d] /\ pending'[d] = pending[d]
    BY <1>1, <1>4, QueueFacts
  <2>2. TasksInv'  BY <1>3, <1>4, <2>1
  <2> QED  BY <1>1, <2>1, <2>2 DEF Call
<1>5. CASE ~(owner = c /\ ~disposed) /\ FinishTask(c) /\ UNCHANGED <<pending, link, build>>
  <2>1. build \in [Commands -> Builds] /\ pending \in [Commands -> Versions \cup {Absent}]
    BY <1>1 DEF TasksTypeOK, Builds
  <2>2. owner' # c /\ (owner' = owner \/ (owner = c /\ owner' = Nobody))
    BY <1>1, <1>5 DEF FinishTask
  <2>3. TasksInv'  BY <1>3, <1>5, <2>1, <2>2
  <2> QED  BY <1>1, <1>5, <2>3 DEF workerVars
<1> QED  BY <1>4, <1>5 DEF WatchStarted

-----------------------------------------------------------------------------
(* The builds. *)

\* A command that builds has begun its task.
LEMMA BuildingFacts ==
  ASSUME TasksInv, NEW c \in Commands, build[c].at # "none"
  PROVE  /\ phase[c] \notin {"new", "asking", "clearing", "saving"}
         /\ build[c] \in Builds /\ build[c].revision \in Versions
         /\ c \in Releases => owner = c /\ phase[c] = "building" /\ pending[c] = Absent
         /\ c # Nobody
<1>1. build[c] \in Builds  BY DEF TasksInv, TasksTypeOK, Builds
<1>2. build[c] # NoBuild  BY BuildFacts
<1> QED  BY <1>1, <1>2, BuildFacts, TasksAssumption
  DEF TasksInv, Phases, ReleaseKeepsOwnership, Compiling

\* A release ends: it builds no more and is no longer the task.
LEMMA ReleaseEnds ==
  ASSUME TasksInv, NEW c \in Releases, build[c].at # "none", NEW k,
         FailBuild(c, k), Done({c}), UNCHANGED <<pending, first>>
  PROVE  /\ Phases' /\ ReleaseKeepsOwnership' /\ NoLostSave'
         /\ phase' \in [Commands -> {"new", "asking", "clearing", "saving", "starting", "building", "done"}]
         /\ build' \in [Commands -> Builds] /\ owner' \in Commands \cup {Nobody}
<1>1. c \in Commands /\ TasksTypeOK  BY TasksAssumption DEF TasksInv
<1>2. /\ build' \in [Commands -> Builds] /\ build'[c] = NoBuild
      /\ \A d \in Commands : d # c => build'[d] = build[d]
  BY <1>1, EndBuildFacts DEF FailBuild
<1>3. owner = c /\ owner' = Nobody /\ phase[c] = "building" /\ pending[c] = Absent
  BY <1>1, BuildingFacts DEF FailBuild, FinishTask
<1>4. /\ \A d \in Commands : phase'[d] = IF d = c THEN "done" ELSE phase[d]
      /\ phase' \in [Commands -> {"new", "asking", "clearing", "saving", "starting", "building", "done"}]
  BY <1>1 DEF Done, TasksTypeOK
<1>5. Phases'
  BY <1>2, <1>3, <1>4, TasksAssumption DEF TasksInv, Phases
<1>6. ReleaseKeepsOwnership'
  BY <1>2, <1>3, <1>4, TasksAssumption, BuildFacts DEF TasksInv, ReleaseKeepsOwnership, Compiling
<1>7. NoLostSave'
  BY <1>3, TasksAssumption DEF NoLostSave, Watching
<1> QED  BY <1>2, <1>3, <1>4, <1>5, <1>6, <1>7

\* The build of a watch goes on or ends.
LEMMA WatchContinues ==
  ASSUME TasksInv, NEW c \in Commands \ Releases, build[c].at # "none", UNCHANGED <<phase, first>>, NEW k,
         \/ DrainNext(c, k) /\ UNCHANGED owner
         \/ FailBuild(c, k) /\ UNCHANGED pending
  PROVE  /\ Phases' /\ ReleaseKeepsOwnership' /\ NoLostSave'
         /\ build' \in [Commands -> Builds] /\ owner' \in Commands \cup {Nobody}
         /\ pending' \in [Commands -> Versions \cup {Absent}]
         /\ link' \in Reactions(k)
<1>1. TasksTypeOK  BY DEF TasksInv
<1>2. /\ phase[c] \notin {"new", "asking", "clearing", "saving"} /\ c # Nobody
  BY BuildingFacts
<1>3. CASE DrainNext(c, k) /\ UNCHANGED owner
  <2>1. /\ link' \in Reactions(k)
        /\ build' \in [Commands -> Builds]
        /\ \A d \in Commands : d # c => build'[d] = build[d] /\ pending'[d] = pending[d]
        /\ pending' \in [Commands -> Versions \cup {Absent}]
        /\ owner = c => pending'[c] = Absent
    BY <1>1, <1>3, DrainFacts
  <2>2. owner' \in Commands \cup {Nobody}  BY <1>1, <1>3 DEF TasksTypeOK
  <2>3. Phases' /\ ReleaseKeepsOwnership' /\ NoLostSave'
    BY <1>2, <1>3, <2>1, <2>2, TaskStep
  <2> QED  BY <2>1, <2>2, <2>3
<1>4. CASE FailBuild(c, k) /\ UNCHANGED pending
  <2>1. /\ link' = k /\ build' \in [Commands -> Builds]
        /\ \A d \in Commands : d # c => build'[d] = build[d]
    BY <1>1, <1>4, EndBuildFacts DEF FailBuild
  <2>2. /\ owner' \in Commands \cup {Nobody} /\ owner' # c
        /\ owner' = owner \/ (owner = c /\ owner' = Nobody)
    BY <1>1, <1>2, <1>4 DEF FailBuild, FinishTask, TasksTypeOK
  <2>3. pending' \in [Commands -> Versions \cup {Absent}]
    BY <1>1, <1>4 DEF TasksTypeOK
  <2>4. Phases' /\ ReleaseKeepsOwnership' /\ NoLostSave'
    BY <1>2, <1>4, <2>1, <2>2, <2>3, TaskStep
  <2> QED  BY <2>1, <2>2, <2>3, <2>4 DEF Reactions
<1> QED  BY <1>3, <1>4

\* A build goes from one await to the next.
LEMMA BuildAdvances ==
  ASSUME TasksInv, NEW c \in Commands, build[c].at # "none",
         NEW a \in {"writing", "renaming"}, build' = [build EXCEPT ![c].at = a],
         UNCHANGED <<owner, pending, phase, first>>
  PROVE  /\ Phases' /\ ReleaseKeepsOwnership' /\ NoLostSave' /\ build' \in [Commands -> Builds]
<1>1. build \in [Commands -> Builds]  BY DEF TasksInv, TasksTypeOK, Builds
<1>2. build[c] \in [at : {"compiling", "writing", "renaming"}, request : Ids, revision : Versions]
  BY <1>1, BuildFacts DEF Builds
<1>3. [build[c] EXCEPT !.at = a] \in Builds /\ [build[c] EXCEPT !.at = a].at = a
  BY <1>2 DEF Builds
<1>4. /\ build' \in [Commands -> Builds] /\ build'[c].at = a
      /\ \A d \in Commands : d # c => build'[d] = build[d]
  BY <1>1, <1>3
<1>5. Phases'
  BY <1>4, BuildingFacts DEF TasksInv, Phases
<1>6. ReleaseKeepsOwnership'
  BY <1>4 DEF TasksInv, ReleaseKeepsOwnership, Compiling
<1>7. NoLostSave'
  BY <1>4 DEF TasksInv, NoLostSave, Compiling, Watching
<1> QED  BY <1>4, <1>5, <1>6, <1>7

LEMMA WriteSteps ==
  ASSUME TasksInv, NEW c \in Commands, Written(c) \/ WriteFailed(c)
  PROVE  TasksInv' /\ UNCHANGED workerVars
<1>1. build[c].at # "none"  BY DEF Written, WriteFailed
<1>2. CASE Written(c)
  <2>1. /\ build' = [build EXCEPT ![c].at = "renaming"]
        /\ UNCHANGED <<workerVars, version, commands, owner, pending, output, disposed, taskGhosts>>
    BY <1>2 DEF Written
  <2>2. Phases' /\ ReleaseKeepsOwnership' /\ NoLostSave' /\ build' \in [Commands -> Builds]
    BY <1>1, <2>1, BuildAdvances DEF commands
  <2>3. TasksTypeOK'
    BY <2>1, <2>2 DEF TasksInv, TasksTypeOK, Builds, commands, taskGhosts
  <2> QED  BY <2>1, <2>2, <2>3 DEF TasksInv
<1>3. CASE WriteFailed(c)
  <2>1. /\ FailBuild(c, link) /\ Done({c})
        /\ UNCHANGED <<alive, worker, version, subject, first, pending, output, disposed, taskGhosts>>
    BY <1>3 DEF WriteFailed
  <2>2. link' = link  BY <2>1 DEF FailBuild, EndBuild
  <2>3. /\ Phases' /\ ReleaseKeepsOwnership' /\ NoLostSave' /\ build' \in [Commands -> Builds]
        /\ owner' \in Commands \cup {Nobody}
        /\ phase' \in [Commands -> {"new", "asking", "clearing", "saving", "starting", "building", "done"}]
    <3>1. CASE c \in Releases
      BY <1>1, <2>1, <3>1, ReleaseEnds
    <3>2. CASE c \notin Releases
      <4>1. phase' = phase  BY <2>1, <3>2 DEF Done, TasksInv, TasksTypeOK
      <4> QED  BY <1>1, <2>1, <3>2, <4>1, WatchContinues DEF TasksInv, TasksTypeOK
    <3> QED  BY <3>1, <3>2
  <2>4. TasksTypeOK'
    BY <2>1, <2>3 DEF TasksInv, TasksTypeOK, Builds, taskGhosts
  <2> QED  BY <2>1, <2>2, <2>3, <2>4 DEF TasksInv, workerVars
<1> QED  BY <1>2, <1>3

LEMMA RenamedStep ==
  ASSUME TasksInv, NEW c \in Commands, Renamed(c)
  PROVE  TasksInv' /\ [Call]_workerVars
<1>1. /\ build[c].at # "none" /\ Done({c})
      /\ output' = [output EXCEPT ![subject[c]] = [by |-> c, revision |-> build[c].revision]]
      /\ UNCHANGED <<alive, worker, version, subject, first, disposed, taskGhosts>>
  BY DEF Renamed
<1>2. output' \in [Documents -> [by : Commands \cup {Nobody}, revision : Versions \cup {Absent}]]
  <2>1. build[c].revision \in Versions  BY <1>1, BuildingFacts
  <2>2. [by |-> c, revision |-> build[c].revision] \in
          [by : Commands \cup {Nobody}, revision : Versions \cup {Absent}]
    BY <2>1
  <2> QED  BY <1>1, <2>2 DEF TasksInv, TasksTypeOK
<1>3. ASSUME Phases', ReleaseKeepsOwnership', NoLostSave', build' \in [Commands -> Builds],
             owner' \in Commands \cup {Nobody}, pending' \in [Commands -> Versions \cup {Absent}],
             phase' \in [Commands -> {"new", "asking", "clearing", "saving", "starting", "building", "done"}]
      PROVE  TasksInv'
  <2>1. TasksTypeOK'
    BY <1>1, <1>2, <1>3 DEF TasksInv, TasksTypeOK, Builds, taskGhosts
  <2> QED  BY <1>3, <2>1 DEF TasksInv
<1>4. CASE c \in Releases
  <2>1. FailBuild(c, link) /\ UNCHANGED pending  BY <1>4 DEF Renamed
  <2>2. link' = link /\ pending' \in [Commands -> Versions \cup {Absent}]
    BY <2>1 DEF FailBuild, EndBuild, TasksInv, TasksTypeOK
  <2>3. TasksInv'
    BY <1>1, <1>3, <1>4, <2>1, <2>2, ReleaseEnds
  <2> QED  BY <1>1, <2>2, <2>3 DEF workerVars
<1>5. CASE c \notin Releases
  <2>1. DrainNext(c, link) /\ UNCHANGED owner  BY <1>5 DEF Renamed
  <2>2. phase' = phase  BY <1>1, <1>5 DEF Done, TasksInv, TasksTypeOK
  <2>3. /\ Phases' /\ ReleaseKeepsOwnership' /\ NoLostSave'
        /\ build' \in [Commands -> Builds] /\ owner' \in Commands \cup {Nobody}
        /\ pending' \in [Commands -> Versions \cup {Absent}]
        /\ link' \in Reactions(link)
    BY <1>1, <1>5, <2>1, <2>2, WatchContinues
  <2>4. TasksInv'
    BY <1>3, <2>2, <2>3 DEF TasksInv, TasksTypeOK
  <2> QED  BY <1>1, <2>3, <2>4 DEF Call
<1> QED  BY <1>4, <1>5

\* What the answered build leaves, whichever command awaits it.
AnswerLeaves(k) ==
  /\ Phases' /\ ReleaseKeepsOwnership' /\ NoLostSave'
  /\ build' \in [Commands -> Builds] /\ owner' \in Commands \cup {Nobody}
  /\ pending' \in [Commands -> Versions \cup {Absent}]
  /\ phase' \in [Commands -> {"new", "asking", "clearing", "saving", "starting", "building", "done"}]
  /\ handled' \in [Commands -> Versions \cup {Absent}]
  /\ link' \in Reactions(k)

LEMMA WatchAnsweredLeaves ==
  ASSUME TasksInv, NEW c \in Commands \ Releases, build[c].at # "none", NEW k, NEW outcome,
         WatchAnswered(c, k, outcome), UNCHANGED <<phase, first>>
  PROVE  AnswerLeaves(k)
<1>1. /\ phase' \in [Commands -> {"new", "asking", "clearing", "saving", "starting", "building", "done"}] /\ handled \in [Commands -> Versions \cup {Absent}]
      /\ pending \in [Commands -> Versions \cup {Absent}] /\ owner \in Commands \cup {Nobody}
      /\ TasksTypeOK
  BY DEF TasksInv, TasksTypeOK
<1>2. ASSUME Handled(c) PROVE handled' \in [Commands -> Versions \cup {Absent}]
  <2>1. build[c].revision \in Versions  BY BuildingFacts
  <2> QED  BY <1>1, <1>2, <2>1 DEF Handled
<1>3. ASSUME handled' \in [Commands -> Versions \cup {Absent}],
             \/ DrainNext(c, k) /\ UNCHANGED owner
             \/ FailBuild(c, k) /\ UNCHANGED pending
      PROVE  AnswerLeaves(k)
  BY <1>1, <1>3, WatchContinues DEF AnswerLeaves
<1>4. ASSUME handled' \in [Commands -> Versions \cup {Absent}], UNCHANGED <<owner, pending>>,
             build' = [build EXCEPT ![c].at = "writing"], link' = k
      PROVE  AnswerLeaves(k)
  BY <1>1, <1>4, BuildAdvances DEF AnswerLeaves, Reactions
<1>5. ASSUME handled' \in [Commands -> Versions \cup {Absent}], UNCHANGED <<owner, pending>>,
             ~(owner # c \/ pending[c] # Absent), EndBuild(c, k)
      PROVE  AnswerLeaves(k)
  <2>1. DrainNext(c, k)  BY <1>5 DEF DrainNext
  <2> QED  BY <1>3, <1>5, <2>1
<1>6. CASE outcome \in {"cancelled", "failed", "outOfOrder"} /\ UNCHANGED handled
  <2>1. \/ DrainNext(c, k) /\ UNCHANGED owner
        \/ FailBuild(c, k) /\ UNCHANGED pending
    BY <1>6 DEF WatchAnswered
  <2> QED  BY <1>1, <1>3, <1>6, <2>1
<1>7. CASE /\ UNCHANGED owner
           /\ \/ DrainNext(c, k) /\ UNCHANGED handled
              \/ /\ Handled(c) /\ UNCHANGED pending /\ ~(owner # c \/ pending[c] # Absent)
                 /\ \/ build' = [build EXCEPT ![c].at = "writing"] /\ link' = k
                    \/ EndBuild(c, k)
  BY <1>1, <1>2, <1>3, <1>4, <1>5, <1>7
<1> QED  BY <1>6, <1>7 DEF WatchAnswered

LEMMA ReleaseAnsweredLeaves ==
  ASSUME TasksInv, NEW c \in Releases, build[c].at # "none", NEW k, NEW outcome,
         ReleaseAnswered(c, k, outcome), UNCHANGED first
  PROVE  AnswerLeaves(k)
<1>1. /\ handled' \in [Commands -> Versions \cup {Absent}] /\ c \in Commands
      /\ pending' = pending /\ pending \in [Commands -> Versions \cup {Absent}]
  BY TasksAssumption DEF TasksInv, TasksTypeOK, ReleaseAnswered
<1>2. CASE FailBuild(c, k) /\ Done({c})
  <2>1. link' = k  BY <1>2 DEF FailBuild, EndBuild
  <2> QED  BY <1>1, <1>2, <2>1, ReleaseEnds DEF AnswerLeaves, Reactions
<1>3. CASE build' = [build EXCEPT ![c].at = "writing"] /\ link' = k /\ UNCHANGED <<owner, phase>>
  <2>1. owner \in Commands \cup {Nobody} /\ phase \in [Commands -> {"new", "asking", "clearing", "saving", "starting", "building", "done"}]
    BY DEF TasksInv, TasksTypeOK
  <2> QED  BY <1>1, <1>3, <2>1, BuildAdvances DEF AnswerLeaves, Reactions
<1> QED  BY <1>2, <1>3 DEF ReleaseAnswered

LEMMA AnswerStep == ASSUME TasksInv, Answer PROVE TasksInv' /\ Deliver
<1> DEFINE k == SettleRequest(link, Head(toHost).id)
           outcome == Head(toHost).outcome
<1>1. /\ toHost # <<>> /\ toHost' = Tail(toHost)
      /\ UNCHANGED <<alive, activeCompileId, cancelledCompiles, suspended, retained, version,
                     subject, first, output, disposed, saved, overtaken>>
  BY DEF Answer
<1>2. \/ \E c \in Commands : /\ Awaits(c, Head(toHost).id)
                             /\ \/ c \notin Releases /\ WatchAnswered(c, k, outcome) /\ UNCHANGED phase
                                \/ c \in Releases /\ ReleaseAnswered(c, k, outcome)
      \/ link' = k /\ UNCHANGED <<owner, pending, build, phase, handled>>
  BY DEF Answer
<1> HIDE DEF k, outcome
<1>3. CASE link' = k /\ UNCHANGED <<owner, pending, build, phase, handled>>
  <2>1. TasksTypeOK'  BY <1>1, <1>3 DEF TasksInv, TasksTypeOK
  <2>2. Phases' /\ ReleaseKeepsOwnership' /\ NoLostSave'
    BY <1>1, <1>3 DEF TasksInv, Phases, ReleaseKeepsOwnership, NoLostSave, Compiling, Watching
  <2>3. Deliver  BY <1>1, <1>3 DEF Deliver, Reactions, k
  <2> QED  BY <2>1, <2>2, <2>3 DEF TasksInv
<1>4. ASSUME NEW c \in Commands, Awaits(c, Head(toHost).id),
             \/ c \notin Releases /\ WatchAnswered(c, k, outcome) /\ UNCHANGED phase
             \/ c \in Releases /\ ReleaseAnswered(c, k, outcome)
      PROVE  TasksInv' /\ Deliver
  <2>1. build[c].at # "none"  BY <1>4 DEF Awaits
  <2>2. AnswerLeaves(k)
    BY <1>1, <1>4, <2>1, WatchAnsweredLeaves, ReleaseAnsweredLeaves
  <2>3. TasksTypeOK'
    BY <1>1, <2>2 DEF TasksInv, TasksTypeOK, AnswerLeaves, Builds
  <2>4. Deliver  BY <1>1, <2>2 DEF Deliver, AnswerLeaves, k
  <2> QED  BY <2>2, <2>3, <2>4 DEF TasksInv, AnswerLeaves
<1> QED  BY <1>2, <1>3, <1>4

-----------------------------------------------------------------------------
(* The worker fails, or the controller is disposed. *)

LEMMA RejectFacts ==
  ASSUME TasksInv, NEW k, RejectBuilds(k)
  PROVE  /\ build' \in [Commands -> Builds]
         /\ \A c \in Commands : build'[c] = IF c \in Rejected(k) THEN NoBuild ELSE build[c]
         /\ phase' \in [Commands -> {"new", "asking", "clearing", "saving", "starting", "building", "done"}]
         /\ \A c \in Commands : phase'[c] = IF c \in Rejected(k) /\ c \in Releases THEN "done" ELSE phase[c]
         /\ Rejected(k) \subseteq Commands /\ \A c \in Rejected(k) : build[c].at # "none"
<1>1. build \in [Commands -> Builds] /\ phase \in [Commands -> {"new", "asking", "clearing", "saving", "starting", "building", "done"}]
  BY DEF TasksInv, TasksTypeOK, Builds
<1>2. /\ build' = [c \in Commands |-> IF c \in Rejected(k) THEN NoBuild ELSE build[c]]
      /\ phase' = [c \in Commands |-> IF c \in Rejected(k) /\ c \in Releases THEN "done" ELSE phase[c]]
  BY DEF RejectBuilds, Done
<1> QED  BY <1>1, <1>2, BuildFacts DEF Rejected

LEMMA RejectStep ==
  ASSUME TasksInv, NEW k, RejectBuilds(k), UNCHANGED first,
         pending' \in [Commands -> Versions \cup {Absent}],
         \A c \in Commands : pending'[c] = pending[c] \/ pending'[c] = Absent,
         \/ owner' = Nobody /\ (owner \in Releases => owner \in Rejected(k))
         \/ owner' = owner /\ owner \notin Rejected(k)
  PROVE  Phases' /\ ReleaseKeepsOwnership' /\ NoLostSave'
<1>1. /\ \A c \in Commands : build'[c] = IF c \in Rejected(k) THEN NoBuild ELSE build[c]
      /\ \A c \in Commands : phase'[c] = IF c \in Rejected(k) /\ c \in Releases THEN "done" ELSE phase[c]
      /\ \A c \in Rejected(k) : c \in Commands /\ build[c].at # "none"
  BY RejectFacts
<1>2. Phases'
  BY <1>1, TasksAssumption DEF TasksInv, Phases
<1>3. ReleaseKeepsOwnership'
  <2>1. ASSUME NEW c \in Releases PROVE Compiling(c)' <=> (owner' = c /\ phase'[c] = "building")
    <3>1. CASE c \in Rejected(k)
      BY <3>1, <1>1, BuildFacts, TasksAssumption DEF Compiling
    <3>2. CASE c \notin Rejected(k)
      BY <3>2, <1>1, TasksAssumption DEF TasksInv, ReleaseKeepsOwnership, Compiling
    <3> QED  BY <3>1, <3>2
  <2> QED  BY <2>1 DEF ReleaseKeepsOwnership, Compiling
<1>4. NoLostSave'
  BY <1>1, TasksAssumption DEF TasksInv, NoLostSave, Compiling, Watching
<1> QED  BY <1>2, <1>3, <1>4

LEMMA WorkerFailsStep == ASSUME TasksInv, WorkerFails PROVE TasksInv' /\ Terminate
<1> DEFINE k == Terminated(link)
<1>1. /\ RejectBuilds(k) /\ link' = k /\ WorkerGone
      /\ owner' = IF owner \in Rejected(k) THEN Nobody ELSE owner
      /\ UNCHANGED <<version, subject, first, pending, output, disposed, taskGhosts>>
  BY DEF WorkerFails, RejectBuilds
<1> HIDE DEF k
<1>2. build' \in [Commands -> Builds] /\ phase' \in [Commands -> {"new", "asking", "clearing", "saving", "starting", "building", "done"}]
  BY <1>1, RejectFacts
<1>3. pending' \in [Commands -> Versions \cup {Absent}]  BY <1>1 DEF TasksInv, TasksTypeOK
<1>4. Phases' /\ ReleaseKeepsOwnership' /\ NoLostSave'
  BY <1>1, <1>3, RejectStep
<1>5. TasksTypeOK'
  BY <1>1, <1>2 DEF TasksInv, TasksTypeOK, Builds, taskGhosts
<1>6. Terminate  BY <1>1 DEF Terminate, k
<1> QED  BY <1>4, <1>5, <1>6 DEF TasksInv

LEMMA DisposeStep == ASSUME TasksInv, Dispose PROVE TasksInv' /\ Terminate
<1>1. PICK k : /\ RejectBuilds(k) /\ link' = k
               /\ k = Terminated(link) \/ (CanPost(link) /\ k = Terminated(CancelCurrent(link)))
  BY DEF Dispose, RejectBuilds
<1>2. /\ WorkerGone /\ disposed' = TRUE
      /\ pending' = [c \in Commands |-> IF Watching(c) THEN Absent ELSE pending[c]]
      /\ owner' = IF WatchActive \/ owner \in Rejected(k) THEN Nobody ELSE owner
      /\ UNCHANGED <<version, subject, first, output, taskGhosts>>
  BY <1>1 DEF Dispose
<1>3. build' \in [Commands -> Builds] /\ phase' \in [Commands -> {"new", "asking", "clearing", "saving", "starting", "building", "done"}]
  BY <1>1, RejectFacts
<1>4. /\ pending' \in [Commands -> Versions \cup {Absent}]
      /\ \A c \in Commands : pending'[c] = pending[c] \/ pending'[c] = Absent
  BY <1>2 DEF TasksInv, TasksTypeOK
<1>5. Phases' /\ ReleaseKeepsOwnership' /\ NoLostSave'
  BY <1>1, <1>2, <1>4, RejectStep DEF WatchActive
<1>6. TasksTypeOK'
  BY <1>2, <1>3, <1>4 DEF TasksInv, TasksTypeOK, Builds, taskGhosts
<1>7. Terminate  BY <1>1, <1>2 DEF Terminate
<1> QED  BY <1>5, <1>6, <1>7 DEF TasksInv

-----------------------------------------------------------------------------
LEMMA TasksInit_Inv == ASSUME TasksInit PROVE TasksInv
<1>1. NoBuild \in Builds  BY BuildFacts
<1>2. TasksTypeOK
  <2>1. 1 \in Versions  BY TasksAssumption DEF Versions
  <2>2. build \in [Commands -> Builds]  BY <1>1 DEF TasksInit
  <2>3. version \in [Documents -> Versions]  BY <2>1 DEF TasksInit
  <2>4. output \in [Documents -> [by : Commands \cup {Nobody}, revision : Versions \cup {Absent}]]
    BY DEF TasksInit, NoOutput
  <2> QED  BY <2>2, <2>3, <2>4 DEF TasksInit, TasksTypeOK, Builds
<1>3. Phases /\ ReleaseKeepsOwnership /\ NoLostSave
  BY TasksAssumption, BuildFacts
  DEF TasksInit, Phases, ReleaseKeepsOwnership, NoLostSave, Compiling, Watching
<1> QED  BY <1>2, <1>3 DEF TasksInv

\* Every step keeps TasksInv and is a step the worker allows its caller.
LEMMA TasksNext_Inv ==
  ASSUME TasksInv, [TasksNext]_tasksVars PROVE TasksInv' /\ [WorkerNext]_workerVars
<1>1. ASSUME WorkerStep, UNCHANGED <<version, commands, owner, pending, build, output, disposed, taskGhosts>>
      PROVE  TasksInv' /\ WorkerNext
  BY <1>1 DEF TasksInv, TasksTypeOK, Phases, ReleaseKeepsOwnership, NoLostSave, Compiling, Watching,
              commands, taskGhosts, WorkerNext
<1>2. ASSUME NEW c \in Commands, Command(c) \/ Cleared(c) \/ WatchStarted(c)
      PROVE  TasksInv' /\ [Call]_workerVars
  <2>1. CASE StopAndBuild(c)  BY <2>1, StopSteps
  <2>2. CASE SavedRelease(c)  BY <2>2, SavedReleaseStep
  <2>3. CASE SavedWatch(c)  BY <2>3, SavedWatchStep
  <2>4. CASE WatchStarted(c)  BY <2>4, StartedStep
  <2>5. CASE InvokeRelease(c) \/ InvokeWatch(c) \/ Dismiss(c) \/ SaveFailed(c) \/ Cleared(c)
    BY <2>5, CommandSteps
  <2> QED  BY <1>2, <2>1, <2>2, <2>3, <2>4, <2>5 DEF Command
<1>3. ASSUME NEW c \in Commands, Written(c) \/ Renamed(c) \/ WriteFailed(c)
      PROVE  TasksInv' /\ [Call]_workerVars
  BY <1>3, WriteSteps, RenamedStep
<1>4. ASSUME NEW d \in Documents, Edit(d) \/ Save(d)
      PROVE  TasksInv' /\ [Call]_workerVars
  BY <1>4, EditStep, SaveStep
<1>5. ASSUME StopCommand PROVE TasksInv' /\ [Call]_workerVars
  BY <1>5, StopSteps
<1>6. ASSUME Answer PROVE TasksInv' /\ Deliver
  BY <1>6, AnswerStep
<1>7. ASSUME WorkerFails \/ Dispose PROVE TasksInv' /\ Terminate
  BY <1>7, WorkerFailsStep, DisposeStep
<1>8. ASSUME UNCHANGED tasksVars PROVE TasksInv' /\ UNCHANGED workerVars
  BY <1>8 DEF TasksInv, TasksTypeOK, Phases, ReleaseKeepsOwnership, NoLostSave, Compiling, Watching,
              tasksVars, commands, taskGhosts
<1>9. CASE TasksNext
  BY <1>1, <1>2, <1>3, <1>4, <1>5, <1>6, <1>7, <1>9 DEF TasksNext, Work, WorkerNext
<1> QED  BY <1>8, <1>9

\* The types of the commands, the ownership of releases and the queue of saves,
\* for every number of commands, documents, versions and requests.
LEMMA TasksInvariant == TasksSpec => []TasksInv
<1>1. TasksInit => TasksInv  BY TasksInit_Inv
<1>2. TasksInv /\ [TasksNext]_tasksVars => TasksInv'  BY TasksNext_Inv
<1> HIDE DEF TasksInit, TasksInv, TasksNext, tasksVars
<1> QED  BY <1>1, <1>2, PTL DEF TasksSpec

THEOREM TasksTypesAreCorrect == TasksSpec => []TasksTypeOK
<1>1. TasksInv => TasksTypeOK  BY DEF TasksInv
<1> HIDE DEF TasksInv, TasksTypeOK
<1> QED  BY <1>1, TasksInvariant, PTL

\* A save that arrives while a watch builds is never left behind.
THEOREM SavesAreNotLost == TasksSpec => []NoLostSave
<1>1. TasksInv => NoLostSave  BY DEF TasksInv
<1> HIDE DEF TasksInv, NoLostSave
<1> QED  BY <1>1, TasksInvariant, PTL

\* A release that is under way is the task until it ends.
THEOREM ReleasesKeepOwnership == TasksSpec => []ReleaseKeepsOwnership
<1>1. TasksInv => ReleaseKeepsOwnership  BY DEF TasksInv
<1> HIDE DEF TasksInv, ReleaseKeepsOwnership
<1> QED  BY <1>1, TasksInvariant, PTL

\* The commands are a caller of the worker: each of their steps is one of its
\* steps or leaves it alone.
THEOREM TasksImplementWorker == TasksSpec => WorkerSpec
<1>1. TasksInit => WorkerInit  BY DEF TasksInit
<1>2. TasksInv /\ [TasksNext]_tasksVars => [WorkerNext]_workerVars  BY TasksNext_Inv
<1> HIDE DEF TasksInit, TasksInv, TasksNext, tasksVars, WorkerInit, WorkerNext, workerVars
<1> QED  BY <1>1, <1>2, TasksInvariant, PTL DEF TasksSpec, WorkerSpec

\* Hence the stage the service retains is the active compile's own under the
\* editor's commands, whatever they overtake,
THEOREM StagesAreOwn == TasksSpec => []StageBelongsToActive
<1>1. WorkerSafety => StageBelongsToActive  BY DEF WorkerSafety
<1> HIDE DEF WorkerSafety, StageBelongsToActive, TasksSpec, WorkerSpec
<1> QED  BY <1>1, TasksImplementWorker, WorkerIsSafe, PTL

\* an answer carries the source of its own request,
THEOREM AnswersAreTheirOwn == TasksSpec => []AnswersAreOwn
<1>1. WorkerSafety => AnswersAreOwn  BY DEF WorkerSafety
<1> HIDE DEF WorkerSafety, AnswersAreOwn, TasksSpec, WorkerSpec
<1> QED  BY <1>1, TasksImplementWorker, WorkerIsSafe, PTL

\* no pending request is lost or answered twice while the worker runs,
THEOREM PendingRequestsAreInFlight == TasksSpec => []PendingIsInFlight
<1>1. WorkerSafety => PendingIsInFlight  BY DEF WorkerSafety
<1> HIDE DEF WorkerSafety, PendingIsInFlight, TasksSpec, WorkerSpec
<1> QED  BY <1>1, TasksImplementWorker, WorkerIsSafe, PTL

\* no cancellation outlives its compile,
THEOREM CancellationsAreForgotten == TasksSpec => []OnlySuspendedAreCancelled
<1>1. WorkerSafety => OnlySuspendedAreCancelled  BY DEF WorkerSafety
<1> HIDE DEF WorkerSafety, OnlySuspendedAreCancelled, TasksSpec, WorkerSpec
<1> QED  BY <1>1, TasksImplementWorker, WorkerIsSafe, PTL

\* and the worker and its connection keep their types.
THEOREM WorkerTypesAreCorrect == TasksSpec => []WorkerTypeOK
<1>1. WorkerSafety => WorkerTypeOK  BY DEF WorkerSafety
<1> HIDE DEF WorkerSafety, WorkerTypeOK, TasksSpec, WorkerSpec
<1> QED  BY <1>1, TasksImplementWorker, WorkerIsSafe, PTL
-----------------------------------------------------------------------------
(* A watch at rest has built the last save. *)

\* What the build under way or the last one will have handled.
Latest(c) ==
  IF pending[c] # Absent THEN pending[c]
  ELSE IF build[c].at = "compiling" THEN build[c].revision ELSE handled[c]

\* The watch has not begun to build, and nothing was saved since its snapshot; or
\* the last save is built, being built or waiting.
UpToDate ==
  \A c \in Commands : Watching(c) /\ c \notin overtaken =>
    \/ phase[c] = "starting" /\ build[c].at = "none" /\ pending[c] = Absent /\ saved[c] = first[c]
    \/ phase[c] = "done" /\ saved[c] = Latest(c)

\* Lemma: a queued revision waits, or is being built with nothing waiting.
LEMMA QueuedRevision ==
  ASSUME TasksInv, NEW c \in Commands, NEW r \in Versions, owner = c, QueueWatchBuild(c, r)
  PROVE  /\ pending'[c] = r \/ (pending'[c] = Absent /\ build'[c].at = "compiling" /\ build'[c].revision = r)
         /\ r # Absent
<1>1. pending \in [Commands -> Versions \cup {Absent}] /\ build \in [Commands -> Builds] /\ r # Absent
  BY DEF TasksInv, TasksTypeOK, Builds, Versions, Absent
<1>2. CASE Compiling(c)
  BY <1>1, <1>2 DEF QueueWatchBuild
<1>3. CASE ~Compiling(c)
  <2>1. PostBuild(link, c, r) /\ pending' = pending
    BY <1>3 DEF QueueWatchBuild
  <2>2. pending[c] = Absent
    BY <1>3 DEF TasksInv, Phases, NoLostSave, Watching
  <2> QED  BY <1>1, <2>1, <2>2 DEF PostBuild
<1> QED  BY <1>2, <1>3

\* Lemma: a save is the last to be built.
LEMMA SaveUpToDate ==
  ASSUME TasksInv, UpToDate, NEW d \in Documents, Save(d)
  PROVE  UpToDate'
<1>1. /\ owner \in Commands \ Releases /\ version[d] \in Versions
      /\ QueueWatchBuild(owner, version[d])
      /\ UNCHANGED <<phase, first, owner, handled>>
      /\ saved'[owner] = version[d]
      /\ phase[owner] = "starting" => owner \in overtaken'
      /\ overtaken \subseteq overtaken'
  BY DEF Save, WatchActive, commands, TasksInv, TasksTypeOK
<1>2. saved'[owner] = Latest(owner)'
  BY <1>1, QueuedRevision DEF Latest
<1> QED  BY <1>1, <1>2 DEF UpToDate, Watching

\* Lemma: a watch that becomes the task, and begins to build.
LEMMA StartUpToDate ==
  ASSUME TasksInv, UpToDate, NEW c \in Commands, SavedWatch(c) \/ WatchStarted(c)
  PROVE  UpToDate'
<1>0. Nobody \notin Commands /\ phase \in [Commands -> {"new", "asking", "clearing", "saving", "starting", "building", "done"}]
  BY TasksAssumption DEF TasksInv, TasksTypeOK
<1>1. CASE SavedWatch(c)
  <2>1. /\ owner # c /\ pending[c] = Absent /\ build[c].at = "none"
        /\ UNCHANGED <<pending, build, handled, overtaken>>
    BY <1>1, BuildFacts DEF SavedWatch, TasksInv, Phases
  <2>2. CASE owner = Nobody
    BY <1>0, <1>1, <2>1, <2>2 DEF SavedWatch, Go, UpToDate, Watching, TasksInv, TasksTypeOK
  <2>3. CASE owner # Nobody
    BY <1>0, <1>1, <2>1, <2>3 DEF SavedWatch, Go, UpToDate, Watching, Latest
  <2> QED  BY <2>2, <2>3
<1>2. CASE WatchStarted(c) /\ owner = c /\ ~disposed
  <2>1. /\ phase[c] = "starting" /\ phase'[c] = "done" /\ owner' = c
        /\ QueueWatchBuild(c, first[c]) /\ UNCHANGED <<saved, handled, overtaken>>
    BY <1>0, <1>2 DEF WatchStarted, Go, taskGhosts
  <2>2. first[c] \in Versions
    BY <2>1 DEF TasksInv, Phases
  <2>3. first[c] = Latest(c)'
    BY <1>2, <2>1, <2>2, QueuedRevision DEF Latest
  <2>4. c \notin overtaken /\ c \notin Releases => saved[c] = first[c]
    BY <1>2, <2>1 DEF UpToDate, Watching
  <2> QED  BY <2>1, <2>3, <2>4 DEF UpToDate, Watching
<1>3. CASE WatchStarted(c) /\ ~(owner = c /\ ~disposed)
  <2>1. UNCHANGED <<pending, build, saved, handled, overtaken>>
    BY <1>3 DEF WatchStarted, taskGhosts
  <2>2. (owner' = owner /\ owner # c) \/ owner' = Nobody
    BY <1>3 DEF WatchStarted, FinishTask
  <2>3. \A e \in Commands : e # c => phase'[e] = phase[e] /\ first'[e] = first[e]
    BY <1>0, <1>3 DEF WatchStarted, Go, TasksInv, TasksTypeOK
  <2> QED  BY <1>0, <2>1, <2>2, <2>3 DEF UpToDate, Watching, Latest
<1> QED  BY <1>1, <1>2, <1>3

\* Lemma: the watch that is the task, if it remains, keeps what it builds and has built.
LEMMA SameUpToDate ==
  ASSUME TasksInv, UpToDate, UNCHANGED <<saved, overtaken>>,
         \A c \in Commands : owner' = c /\ c \notin Releases =>
           /\ owner = c /\ phase'[c] = phase[c] /\ first'[c] = first[c]
           /\ build'[c] = build[c] /\ pending'[c] = pending[c] /\ handled'[c] = handled[c]
  PROVE  UpToDate'
BY DEF UpToDate, Watching, Latest

\* Lemma: the next revision of a watch is built, or its build is over.
LEMMA DrainUpToDate ==
  ASSUME TasksInv, UpToDate, NEW c \in Commands, build[c].at # "none", NEW k, DrainNext(c, k),
         UNCHANGED <<phase, first, owner, saved, overtaken, handled>>,
         pending[c] # Absent \/ build[c].at # "compiling" \/ owner # c
  PROVE  UpToDate'
<1>1. /\ pending \in [Commands -> Versions \cup {Absent}] /\ build \in [Commands -> Builds]
      /\ Nobody \notin Commands
  BY TasksAssumption DEF TasksInv, TasksTypeOK, Builds
<1>2. CASE owner = c /\ pending[c] # Absent
  <2>1. pending'[c] = Absent /\ build'[c].at = "compiling" /\ build'[c].revision = pending[c]
    BY <1>1, <1>2 DEF DrainNext, PostBuild
  <2> QED  BY <1>2, <2>1 DEF UpToDate, Watching, Latest
<1>3. CASE owner = c /\ pending[c] = Absent
  <2>1. build'[c].at = "none" /\ pending' = pending
    BY <1>1, <1>3 DEF DrainNext, EndBuild, NoBuild
  <2> QED  BY <1>3, <2>1 DEF UpToDate, Watching, Latest
<1>4. CASE owner # c
  <2>1. \A e \in Commands : e # c => build'[e] = build[e] /\ pending'[e] = pending[e]
    BY DrainFacts DEF TasksInv
  <2> QED  BY <1>4, <2>1, SameUpToDate
<1> QED  BY <1>2, <1>3, <1>4

\* Lemma: a build that fails takes the task from its watch.
LEMMA FailUpToDate ==
  ASSUME TasksInv, UpToDate, NEW c \in Commands, NEW k, FailBuild(c, k),
         UNCHANGED <<first, saved, overtaken, handled, pending>>,
         \A e \in Commands : e \notin Releases => phase'[e] = phase[e]
  PROVE  UpToDate'
<1>1. \A e \in Commands : e # c => build'[e] = build[e]
  BY EndBuildFacts DEF TasksInv, FailBuild
<1>2. (owner' = owner /\ owner # c) \/ owner' = Nobody
  BY DEF FailBuild, FinishTask
<1>3. Nobody \notin Commands  BY TasksAssumption
<1> QED  BY <1>1, <1>2, <1>3, SameUpToDate

\* Lemma: an answer.
LEMMA AnswerUpToDate ==
  ASSUME TasksInv, UpToDate, Answer
  PROVE  UpToDate'
<1> DEFINE k == SettleRequest(link, Head(toHost).id)
           outcome == Head(toHost).outcome
<1>1. UNCHANGED <<first, saved, overtaken>>
  BY DEF Answer
<1>2. \/ \E c \in Commands : /\ Awaits(c, Head(toHost).id)
                             /\ \/ c \notin Releases /\ WatchAnswered(c, k, outcome) /\ UNCHANGED phase
                                \/ c \in Releases /\ ReleaseAnswered(c, k, outcome)
      \/ UNCHANGED <<owner, pending, build, phase, handled>>
  BY DEF Answer
<1> HIDE DEF k, outcome
<1>3. CASE UNCHANGED <<owner, pending, build, phase, handled>>
  BY <1>1, <1>3, SameUpToDate
<1>4. ASSUME NEW c \in Commands, build[c].at = "compiling", c \notin Releases,
             WatchAnswered(c, k, outcome), UNCHANGED phase
      PROVE  UpToDate'
  <2>1. CASE DrainNext(c, k) /\ UNCHANGED <<owner, handled>> /\ (owner # c \/ pending[c] # Absent)
    BY <1>1, <1>4, <2>1, DrainUpToDate
  <2>2. CASE FailBuild(c, k) /\ UNCHANGED <<pending, handled>>
    BY <1>1, <1>4, <2>2, FailUpToDate
  <2>3. CASE /\ owner = c /\ pending[c] = Absent /\ Handled(c) /\ UNCHANGED <<owner, pending>>
             /\ build' = [build EXCEPT ![c].at = "writing"] \/ EndBuild(c, k)
    <3>1. build \in [Commands -> Builds] /\ handled \in [Commands -> Versions \cup {Absent}]
      BY DEF TasksInv, TasksTypeOK, Builds
    <3>2. handled'[c] = build[c].revision
      BY <2>3, <3>1 DEF Handled
    <3>3. build'[c].at # "compiling"
      BY <2>3, <3>1 DEF EndBuild, NoBuild, Builds
    <3> QED  BY <1>1, <1>4, <2>3, <3>2, <3>3 DEF UpToDate, Watching, Latest
  <2> QED  BY <1>4, <2>1, <2>2, <2>3 DEF WatchAnswered
<1>5. ASSUME NEW c \in Commands, c \in Releases, ReleaseAnswered(c, k, outcome)
      PROVE  UpToDate'
  <2>1. CASE FailBuild(c, k) /\ Done({c}) /\ UNCHANGED <<pending, handled>>
    <3>1. \A e \in Commands : e \notin Releases => phase'[e] = phase[e]
      BY <2>1 DEF Done
    <3> QED  BY <1>1, <2>1, <3>1, FailUpToDate
  <2>2. CASE build' = [build EXCEPT ![c].at = "writing"] /\ UNCHANGED <<owner, phase, pending, handled>>
    <3>1. \A e \in Commands : e # c => build'[e] = build[e]
      BY <2>2 DEF TasksInv, TasksTypeOK
    <3> QED  BY <1>1, <1>5, <2>2, <3>1, SameUpToDate
  <2> QED  BY <1>5, <2>1, <2>2 DEF ReleaseAnswered
<1> QED  BY <1>2, <1>3, <1>4, <1>5 DEF Awaits

\* Lemma: every step keeps UpToDate.
LEMMA UpToDateKept ==
  ASSUME TasksInv, UpToDate, [TasksNext]_tasksVars
  PROVE  UpToDate'
<1>0. /\ Nobody \notin Commands /\ build \in [Commands -> Builds]
      /\ phase \in [Commands -> {"new", "asking", "clearing", "saving", "starting", "building", "done"}]
  BY TasksAssumption DEF TasksInv, TasksTypeOK, Builds
<1>1. CASE UNCHANGED <<commands, owner, pending, build, taskGhosts>>
  BY <1>1, SameUpToDate DEF commands, taskGhosts
<1>2. ASSUME NEW c \in Commands,
             InvokeRelease(c) \/ InvokeWatch(c) \/ Dismiss(c) \/ SaveFailed(c) \/ Cleared(c)
      PROVE  UpToDate'
  <2>1. PICK p : Go(c, p)
    BY <1>2 DEF InvokeRelease, InvokeWatch, Dismiss, SaveFailed, Cleared
  <2>2. /\ UNCHANGED <<quiet, owner, first>>
        /\ phase[c] \in {"new", "asking", "clearing", "saving"}
    BY <1>2 DEF InvokeRelease, InvokeWatch, Dismiss, SaveFailed, Cleared
  <2>3. owner # c
    BY <2>2 DEF TasksInv, Phases
  <2> QED  BY <1>0, <2>1, <2>2, <2>3, SameUpToDate DEF Go, quiet, taskGhosts
<1>3. ASSUME StopCommand \/ \E c \in Commands : StopAndBuild(c)
      PROVE  UpToDate'
  <2>1. StopDebugWatch /\ UNCHANGED <<saved, overtaken>>
    BY <1>3 DEF StopCommand, StopAndBuild, taskGhosts
  <2>2. owner' \notin Commands \ Releases
    BY <1>0, <2>1, StopFacts
  <2> QED  BY <2>2 DEF UpToDate, Watching
<1>4. ASSUME NEW c \in Commands, SavedRelease(c)
      PROVE  UpToDate'
  <2>1. /\ UNCHANGED <<first, pending, taskGhosts>> /\ c \in Releases
        /\ \A e \in Commands : e # c => phase'[e] = phase[e]
        /\ owner' = owner \/ owner' = c
        /\ \A e \in Commands : e # c => build'[e] = build[e]
    BY <1>0, <1>4 DEF SavedRelease, Go, PostBuild
  <2> QED  BY <2>1, SameUpToDate DEF taskGhosts
<1>5. ASSUME NEW c \in Commands, Written(c)
      PROVE  UpToDate'
  <2>1. /\ UNCHANGED <<commands, owner, pending, taskGhosts>> /\ build[c].at = "writing"
        /\ \A e \in Commands : build'[e].at = "compiling" <=> build[e].at = "compiling"
        /\ \A e \in Commands : build'[e].at = "none" <=> build[e].at = "none"
        /\ \A e \in Commands : build'[e].revision = build[e].revision
    BY <1>0, <1>5 DEF Written
  <2> QED  BY <2>1 DEF UpToDate, Watching, Latest, commands, taskGhosts
<1>6. ASSUME NEW c \in Commands, Renamed(c) \/ WriteFailed(c)
      PROVE  UpToDate'
  <2>1. /\ UNCHANGED <<first, taskGhosts>> /\ build[c].at \in {"writing", "renaming"}
        /\ \A e \in Commands : e \notin Releases => phase'[e] = phase[e]
        /\ c \notin Releases => phase' = phase
    BY <1>0, <1>6 DEF Renamed, WriteFailed, Done
  <2>2. \/ FailBuild(c, link) /\ UNCHANGED pending
        \/ c \notin Releases /\ DrainNext(c, link) /\ UNCHANGED owner
    BY <1>6 DEF Renamed, WriteFailed
  <2>3. CASE FailBuild(c, link) /\ UNCHANGED pending
    BY <2>1, <2>3, FailUpToDate DEF taskGhosts
  <2>4. CASE c \notin Releases /\ DrainNext(c, link) /\ UNCHANGED owner
    BY <2>1, <2>4, DrainUpToDate DEF taskGhosts
  <2> QED  BY <2>2, <2>3, <2>4
<1>7. ASSUME WorkerFails \/ Dispose
      PROVE  UpToDate'
  <2>1. PICK k : /\ RejectBuilds(k) /\ UNCHANGED <<first, taskGhosts>>
                 /\ \/ owner' = IF owner \in Rejected(k) THEN Nobody ELSE owner
                    \/ owner' = IF WatchActive \/ owner \in Rejected(k) THEN Nobody ELSE owner
                 /\ \A e \in Commands : ~Watching(e) => pending'[e] = pending[e]
                 /\ owner' # Nobody /\ WatchActive => pending' = pending
    <3>1. CASE WorkerFails
      BY <1>7, <3>1 DEF WorkerFails, RejectBuilds
    <3>2. CASE Dispose
      BY <1>7, <3>2 DEF Dispose, RejectBuilds
    <3> QED  BY <1>7, <3>1, <3>2
  <2>2. /\ \A c \in Commands : build'[c] = IF c \in Rejected(k) THEN NoBuild ELSE build[c]
        /\ \A c \in Commands : phase'[c] = IF c \in Rejected(k) /\ c \in Releases THEN "done" ELSE phase[c]
    BY <2>1, RejectFacts
  <2>3. owner' = Nobody \/ (owner' = owner /\ owner \notin Rejected(k))
    BY <2>1
  <2> QED  BY <1>0, <2>1, <2>2, <2>3, SameUpToDate DEF taskGhosts, WatchActive
<1>8. CASE Work
  BY <1>1, <1>2, <1>5, <1>6, <1>8, StartUpToDate, AnswerUpToDate DEF Work
<1>9. CASE \E c \in Commands : Command(c) \/ WriteFailed(c)
  BY <1>2, <1>3, <1>4, <1>6, <1>9, StartUpToDate DEF Command
<1>10. CASE \E d \in Documents : Edit(d) \/ Save(d)
  BY <1>1, <1>10, SaveUpToDate DEF Edit
<1> QED
  BY <1>1, <1>3, <1>7, <1>8, <1>9, <1>10 DEF TasksNext, tasksVars

\* Theorem: a watch that waits for the next save has handled the last, however saves,
\* answers, cancellations and other commands' compiles cross.
THEOREM RestingIsCurrent == TasksSpec => []RestingWatchIsCurrent
<1>1. TasksInit => UpToDate
  BY TasksAssumption DEF TasksInit, UpToDate, Watching
<1>2. TasksInv /\ UpToDate /\ [TasksNext]_tasksVars => UpToDate'
  BY UpToDateKept
<1>3. TasksInv /\ UpToDate => RestingWatchIsCurrent
  BY DEF TasksInv, NoLostSave, UpToDate, Latest, RestingWatchIsCurrent, AtRest, Compiling
<1> HIDE DEF TasksInit, TasksInv, TasksNext, tasksVars, UpToDate, RestingWatchIsCurrent
<1> QED  BY <1>1, <1>2, <1>3, TasksInvariant, PTL DEF TasksSpec
-----------------------------------------------------------------------------
(* A cancelled watch was superseded. *)

\* Messages are in the order of their ids, after all that was received.
QueueInOrder(k, S) ==
  /\ \A m, n \in 1 .. Len(k.outgoing) : m < n => k.outgoing[m].id < k.outgoing[n].id
  /\ \A n \in 1 .. Len(k.outgoing), i \in Ids : S[i] # "idle" => i < k.outgoing[n].id
  /\ \A n \in 1 .. Len(k.outgoing) : k.outgoing[n].target < k.nextRequestId

\* The compile the connection takes for the active one is the last it posted: once the
\* worker has it, it is the worker's active one, A, too.
NewestIsLast(k, S, A) ==
  /\ k.activeCompileRequestId < k.nextRequestId
  /\ k.activeCompileRequestId # Absent =>
       /\ \A n \in 1 .. Len(k.outgoing) :
            k.outgoing[n].kind = "compile" => k.outgoing[n].id <= k.activeCompileRequestId
       /\ S[k.activeCompileRequestId] # "idle" => A = k.activeCompileRequestId

\* It is cancelled only if the connection was asked to.
CancelledAsAsked(k, H, C) ==
  k.activeCompileRequestId # Absent /\ ~k.cancellationRequested =>
    /\ \A n \in 1 .. Len(k.outgoing) : k.outgoing[n].target # k.activeCompileRequestId
    /\ k.activeCompileRequestId \notin C
    /\ \A n \in 1 .. Len(H) : H[n].outcome = "cancelled" => H[n].id # k.activeCompileRequestId

InTurn(k, S, H, A, C) == QueueInOrder(k, S) /\ NewestIsLast(k, S, A) /\ CancelledAsAsked(k, H, C)

\* Lemma: a message with a new id keeps the order.
LEMMA PostInOrder ==
  ASSUME NEW k \in Links, NEW j, NEW e \in Messages, Posts(k, j, e), e.target < k.nextRequestId,
         NEW S \in Suspensions, NEW H, Consistent(k, S, H), QueueInOrder(k, S)
  PROVE  QueueInOrder(j, S)
<1> DEFINE N == Len(k.outgoing)
<1>1. k.outgoing \in Seq(Messages) /\ k.nextRequestId \in Int /\ e.id \in Ids /\ N \in Nat
  BY DEF Links, Messages, Posts, Ids
<1>2. /\ Len(j.outgoing) = N + 1 /\ j.outgoing[N + 1] = e
      /\ \A n \in 1 .. N : j.outgoing[n] = k.outgoing[n]
      /\ \A n \in 1 .. N + 1 : n = N + 1 \/ n \in 1 .. N
  BY <1>1, AppendFacts DEF Posts
<1>3. \A n \in 1 .. N : k.outgoing[n].id < e.id
  BY DEF Consistent, QueueOK, Posts
<1>4. \A i \in Ids : S[i] # "idle" => i < e.id
  BY DEF Consistent, IdsOK, Posts
<1>5. \A n \in 1 .. N : k.outgoing[n] \in Messages
  BY <1>1
<1>6. \A n \in 1 .. N : k.outgoing[n].target \in Int
  BY <1>5 DEF Messages, Absent, Ids
<1>7. e.target \in Int
  BY DEF Messages, Absent, Ids
<1>8. ASSUME NEW m \in 1 .. N + 1, NEW n \in 1 .. N + 1, m < n
      PROVE  j.outgoing[m].id < j.outgoing[n].id
  <2>1. m \in 1 .. N  BY <1>1, <1>2, <1>8
  <2> QED  BY <1>2, <1>3, <1>8, <2>1 DEF QueueInOrder
<1>9. \A n \in 1 .. N + 1 : j.outgoing[n].target < j.nextRequestId
  BY <1>1, <1>2, <1>6, <1>7 DEF QueueInOrder, Posts
<1> QED  BY <1>2, <1>4, <1>8, <1>9 DEF QueueInOrder

\* Lemma: a compile that is posted is the newest, and nobody asked to cancel it.
LEMMA CompileInTurn ==
  ASSUME NEW k \in Links, CanPost(k), NEW s \in Sources, NEW S \in Suspensions,
         NEW H \in Seq(Responses), NEW A, NEW C \in SUBSET Ids, Consistent(k, S, H),
         InTurn(k, S, H, A, C), \A i \in C : S[i] # "idle"
  PROVE  InTurn(Compile(k, s), S, H, A, C)
<1> DEFINE j == Compile(k, s)
           e == CompileMessage(k.nextRequestId, s)
           N == Len(k.outgoing)
<1>1. e \in Messages /\ Posts(k, j, e) /\ j \in Links
  BY CompilePosts
<1>2. /\ e.target = Absent /\ e.id = k.nextRequestId /\ k.nextRequestId \in Ids
      /\ k.nextRequestId \in Int /\ Absent < k.nextRequestId
      /\ k.outgoing \in Seq(Messages) /\ N \in Nat
  BY WorkerAssumption DEF CompileMessage, CanPost, Ids, Links, Absent
<1>3. /\ j.activeCompileRequestId = k.nextRequestId /\ j.nextRequestId = k.nextRequestId + 1
      /\ j.outgoing = Append(k.outgoing, e)
  BY DEF Compile, Links
<1> HIDE DEF j, e
<1>4. QueueInOrder(j, S)
  BY <1>1, <1>2, PostInOrder DEF InTurn
<1>5. /\ Len(j.outgoing) = N + 1 /\ j.outgoing[N + 1] = e
      /\ \A n \in 1 .. N : j.outgoing[n] = k.outgoing[n]
      /\ \A n \in 1 .. N + 1 : n = N + 1 \/ n \in 1 .. N
  BY <1>1, <1>2, <1>3, AppendFacts
<1>6. \A n \in 1 .. N : k.outgoing[n] \in Messages
  BY <1>2
<1>7. \A n \in 1 .. N : k.outgoing[n].id \in Ids /\ k.outgoing[n].id < k.nextRequestId
  BY <1>6 DEF Messages, Consistent, QueueOK
<1>8. NewestIsLast(j, S, A)
  <2>1. ASSUME NEW n \in 1 .. N + 1
        PROVE  j.outgoing[n].id <= k.nextRequestId
    <3>1. CASE n = N + 1
      BY <1>2, <1>5, <3>1
    <3>2. CASE n \in 1 .. N
      <4>1. k.outgoing[n].id \in Int /\ k.outgoing[n].id < k.nextRequestId
        BY <1>7, <3>2 DEF Ids
      <4>2. j.outgoing[n].id = k.outgoing[n].id
        BY <1>5, <3>2
      <4> QED  BY <1>2, <4>1, <4>2
    <3> QED  BY <1>5, <3>1, <3>2
  <2>2. S[k.nextRequestId] = "idle"
    BY <1>2 DEF Consistent, IdsOK, Ids
  <2> QED  BY <1>2, <1>3, <1>5, <2>1, <2>2 DEF NewestIsLast
<1>9. CancelledAsAsked(j, H, C)
  <2>1. \A n \in 1 .. N : k.outgoing[n].target # k.nextRequestId
    BY <1>2 DEF InTurn, QueueInOrder
  <2>2. k.nextRequestId \notin C
    BY <1>2 DEF Consistent, IdsOK
  <2>3. \A n \in 1 .. Len(H) : H[n].id # k.nextRequestId
    BY <1>2 DEF Consistent, AnswersOK
  <2> QED  BY <1>2, <1>3, <1>5, <2>1, <2>2, <2>3 DEF CancelledAsAsked
<1> QED  BY <1>4, <1>8, <1>9 DEF InTurn, j

\* Lemma: a cancellation that is posted was asked for.
LEMMA CancelInTurn ==
  ASSUME NEW k \in Links, CanPost(k), NEW S \in Suspensions,
         NEW H \in Seq(Responses), NEW A, NEW C \in SUBSET Ids, Consistent(k, S, H),
         InTurn(k, S, H, A, C)
  PROVE  InTurn(CancelCurrent(k), S, H, A, C)
<1> DEFINE j == CancelCurrent(k)
           e == CancelMessage(k.nextRequestId, k.activeCompileRequestId)
           N == Len(k.outgoing)
<1>1. CASE ~MayCancel(k)
  BY <1>1 DEF CancelCurrent
<1>2. CASE MayCancel(k)
  <2>1. /\ k.nextRequestId \in Ids /\ k.nextRequestId \in Int /\ k.activeCompileRequestId \in Ids
        /\ k.outgoing \in Seq(Messages) /\ N \in Nat
    BY <1>2 DEF CanPost, MayCancel, Links, Ids
  <2>2. /\ e \in Messages /\ e.id = k.nextRequestId /\ e.kind = "cancel"
        /\ e.target = k.activeCompileRequestId
    BY <2>1 DEF Messages, CancelMessage
  <2>3. /\ j.activeCompileRequestId = k.activeCompileRequestId /\ j.nextRequestId = k.nextRequestId + 1
        /\ j.outgoing = Append(k.outgoing, e) /\ j.cancellationRequested
    BY <1>2 DEF CancelCurrent, Links
  <2>4. Posts(k, j, e)
    BY <1>2, <2>1 DEF Posts, CancelCurrent, CancelMessage, Links
  <2> HIDE DEF j, e
  <2>5. QueueInOrder(j, S)
    BY <2>2, <2>4, PostInOrder DEF InTurn, NewestIsLast
  <2>6. /\ Len(j.outgoing) = N + 1 /\ j.outgoing[N + 1] = e
        /\ \A n \in 1 .. N : j.outgoing[n] = k.outgoing[n]
        /\ \A n \in 1 .. N + 1 : n = N + 1 \/ n \in 1 .. N
    BY <2>1, <2>2, <2>3, AppendFacts
  <2>7. NewestIsLast(j, S, A)
    BY <2>1, <2>2, <2>3, <2>6 DEF InTurn, NewestIsLast, Ids
  <2>8. CancelledAsAsked(j, H, C)
    BY <2>3 DEF CancelledAsAsked
  <2> QED  BY <2>5, <2>7, <2>8 DEF InTurn, j
<1> QED  BY <1>1, <1>2

\* Lemma: whatever the caller does.
LEMMA ReactionInTurn ==
  ASSUME NEW k \in Links, NEW j \in Reactions(k), NEW S \in Suspensions,
         NEW H \in Seq(Responses), NEW A, NEW C \in SUBSET Ids, Consistent(k, S, H),
         InTurn(k, S, H, A, C), \A i \in C : S[i] # "idle"
  PROVE  InTurn(j, S, H, A, C)
<1>1. j = k \/ (CanPost(k) /\ ((\E s \in Sources : j = Compile(k, s)) \/ j = CancelCurrent(k)))
  BY DEF Reactions
<1> QED  BY <1>1, CompileInTurn, CancelInTurn

\* What becomes of the newest compile when requests settle.
NoNewer(k, j) ==
  /\ j.outgoing = k.outgoing \/ j.outgoing = <<>>
  /\ j.nextRequestId = k.nextRequestId
  /\ \/ /\ j.activeCompileRequestId = k.activeCompileRequestId
        /\ j.cancellationRequested = k.cancellationRequested
     \/ j.activeCompileRequestId = Absent /\ ~j.cancellationRequested

\* Lemma: requests that settle.
LEMMA SettledNoNewer ==
  ASSUME NEW k \in Links
  PROVE  (\A i : NoNewer(k, SettleRequest(k, i))) /\ NoNewer(k, Terminated(k))
<1>1. ASSUME NEW I
      PROVE  /\ NoNewer(k, Release(k, I)) /\ Release(k, I).outgoing = k.outgoing
             /\ NoNewer(k, [Release(k, I) EXCEPT !.stopped = TRUE, !.outgoing = <<>>])
  BY DEF NoNewer, Release, Links
<1>2. ASSUME NEW i
      PROVE  NoNewer(k, SettleRequest(k, i))
  BY <1>1 DEF SettleRequest, NoNewer
<1>3. NoNewer(k, Terminated(k))
  <2>1. CASE k.stopped
    BY <2>1 DEF Terminated, Stop, NoNewer, Links
  <2>2. CASE ~k.stopped
    <3>1. Release(k, k.pending) \in Links
      BY ReleaseType DEF Links
    <3>2. Terminated(k) = [Release(k, k.pending) EXCEPT !.stopped = TRUE, !.outgoing = <<>>]
      BY <2>2, <3>1 DEF Terminated, Stop, Links
    <3> QED  BY <1>1, <3>2
  <2> QED  BY <2>1, <2>2
<1> QED  BY <1>2, <1>3

\* Lemma: an answer that is delivered.
LEMMA SettleInTurn ==
  ASSUME NEW k \in Links, NEW S, NEW H \in Seq(Responses), H # <<>>, NEW A, NEW C,
         InTurn(k, S, H, A, C), NEW j, NoNewer(k, j), j.outgoing = k.outgoing
  PROVE  InTurn(j, S, Tail(H), A, C)
<1>1. k.nextRequestId \in Nat /\ Absent < k.nextRequestId
  BY DEF Links, Absent
<1>2. QueueInOrder(j, S)
  BY DEF InTurn, QueueInOrder, NoNewer
<1>3. NewestIsLast(j, S, A)
  BY <1>1 DEF InTurn, NewestIsLast, NoNewer
<1>4. \A n \in 1 .. Len(Tail(H)) : Tail(H)[n] = H[n + 1] /\ n + 1 \in 1 .. Len(H)
  BY SeqFacts
<1>5. CancelledAsAsked(j, Tail(H), C)
  BY <1>4 DEF InTurn, CancelledAsAsked, NoNewer
<1> QED  BY <1>2, <1>3, <1>5 DEF InTurn

\* The compiles of the worker are superseded and cancelled in turn.
WorkerInTurn == InTurn(link, suspended, toHost, activeCompileId, cancelledCompiles)
\* Lemma: a message that is taken, with what the worker knows afterwards.
LEMMA ReceivedInTurn ==
  ASSUME WorkerInv, WorkerInTurn, NEW kind, Received(kind)
  PROVE  LET e == Head(link.outgoing)
         IN /\ QueueInOrder(link', suspended)
            /\ \A n \in 1 .. Len(link'.outgoing) : e.id < link'.outgoing[n].id
            /\ NewestIsLast(link', suspended, activeCompileId)
            /\ CancelledAsAsked(link', toHost, cancelledCompiles)
            /\ link'.activeCompileRequestId = link.activeCompileRequestId
            /\ link'.cancellationRequested = link.cancellationRequested
            /\ link.activeCompileRequestId # Absent /\ ~link.cancellationRequested
                 => e.target # link.activeCompileRequestId
            /\ kind = "compile" /\ link.activeCompileRequestId # Absent
                 => /\ e.id <= link.activeCompileRequestId
                    /\ suspended[link.activeCompileRequestId] = "idle"
<1> DEFINE q == link.outgoing
           e == Head(q)
           newest == link.activeCompileRequestId
<1>1. q \in Seq(Messages) /\ q # <<>> /\ link \in Links /\ newest \in Ids \cup {Absent}
  BY DEF WorkerInv, WorkerTypeOK, Links, Received
<1>2. /\ link'.outgoing = Tail(q) /\ link'.activeCompileRequestId = newest
      /\ link'.cancellationRequested = link.cancellationRequested
      /\ link'.nextRequestId = link.nextRequestId
      /\ e.kind = kind
  BY <1>1 DEF Received, Links
<1>3. e = q[1] /\ 1 \in 1 .. Len(q) /\ e \in Messages /\ e.id \in Ids
  BY <1>1, SeqFacts DEF Messages
<1>4. \A n \in 1 .. Len(Tail(q)) : Tail(q)[n] = q[n + 1] /\ n + 1 \in 1 .. Len(q) /\ n + 1 # 1
  BY <1>1, SeqFacts
<1>5. \A n \in 1 .. Len(Tail(q)) : e.id < Tail(q)[n].id
  <2>1. ASSUME NEW n \in 1 .. Len(Tail(q))
        PROVE  e.id < Tail(q)[n].id
    <3>1. 1 < n + 1
      OBVIOUS
    <3> QED  BY <1>3, <1>4, <3>1 DEF WorkerInTurn, InTurn, QueueInOrder
  <2> QED  BY <2>1
<1>6. QueueInOrder(link', suspended)
  <2>1. ASSUME NEW m \in 1 .. Len(Tail(q)), NEW n \in 1 .. Len(Tail(q)), m < n
        PROVE  Tail(q)[m].id < Tail(q)[n].id
    <3>1. m + 1 < n + 1
      BY <2>1
    <3> QED  BY <1>4, <3>1 DEF WorkerInTurn, InTurn, QueueInOrder
  <2> QED  BY <1>2, <1>4, <2>1 DEF WorkerInTurn, InTurn, QueueInOrder
<1>7. NewestIsLast(link', suspended, activeCompileId)
  BY <1>2, <1>4 DEF WorkerInTurn, InTurn, NewestIsLast
<1>8. CancelledAsAsked(link', toHost, cancelledCompiles)
  BY <1>2, <1>4 DEF WorkerInTurn, InTurn, CancelledAsAsked
<1>9. newest # Absent /\ ~link.cancellationRequested => e.target # newest
  BY <1>3 DEF WorkerInTurn, InTurn, CancelledAsAsked
<1>10. ASSUME kind = "compile", newest # Absent
       PROVE  e.id <= newest /\ suspended[newest] = "idle"
  <2>1. e.id <= newest
    BY <1>2, <1>3, <1>10 DEF WorkerInTurn, InTurn, NewestIsLast
  <2>2. suspended[newest] # "idle" => newest < e.id
    BY <1>1, <1>3, <1>10 DEF WorkerInTurn, InTurn, QueueInOrder
  <2> QED  BY <1>1, <1>3, <1>10, <2>1, <2>2 DEF Ids
<1> QED  BY <1>2, <1>5, <1>6, <1>7, <1>8, <1>9, <1>10

\* Lemma: an answer that is no cancellation of the newest compile.
LEMMA AnswerInTurn ==
  ASSUME NEW k, NEW H \in Seq(Responses), NEW C, CancelledAsAsked(k, H, C),
         NEW r \in Responses, NEW D \in SUBSET C,
         k.activeCompileRequestId # Absent /\ ~k.cancellationRequested =>
           ~(r.outcome = "cancelled" /\ r.id = k.activeCompileRequestId)
  PROVE  CancelledAsAsked(k, Append(H, r), D)
<1>1. /\ Len(Append(H, r)) = Len(H) + 1 /\ Append(H, r)[Len(H) + 1] = r
      /\ \A n \in 1 .. Len(H) : Append(H, r)[n] = H[n]
      /\ \A n \in 1 .. Len(H) + 1 : n = Len(H) + 1 \/ n \in 1 .. Len(H)
  BY AppendFacts
<1> QED  BY <1>1 DEF CancelledAsAsked

\* Lemma: a compile that is received supersedes older ones only.
LEMMA ReceiveCompileInTurn ==
  ASSUME WorkerInv, WorkerInTurn, ReceiveCompile
  PROVE  WorkerInTurn'
<1> DEFINE e == Head(link.outgoing)
           newest == link.activeCompileRequestId
<1>1. Received("compile")
  BY DEF ReceiveCompile
<1>2. /\ QueueInOrder(link', suspended)
      /\ \A n \in 1 .. Len(link'.outgoing) : e.id < link'.outgoing[n].id
      /\ NewestIsLast(link', suspended, activeCompileId)
      /\ CancelledAsAsked(link', toHost, cancelledCompiles)
      /\ link'.activeCompileRequestId = newest
      /\ newest # Absent => e.id <= newest /\ suspended[newest] = "idle"
  BY <1>1, ReceivedInTurn
<1>3. e \in Messages /\ e.id \in Ids /\ newest \in Ids \cup {Absent} /\ link' \in Links
  BY <1>1, ReceivedFacts DEF WorkerInv, Types, WorkerTypeOK, Links
<1>4. suspended \in Suspensions /\ toHost \in Seq(Responses) /\ cancelledCompiles \in SUBSET Ids
  BY DEF WorkerInv, WorkerTypeOK, Suspensions
<1>5. newest # Absent => activeCompileId # newest
  BY <1>2 DEF WorkerInv, ActiveIsSuspended
<1>6. CancelledAsAsked(link', toHost, Superseded)
  BY <1>2, <1>5 DEF CancelledAsAsked, Superseded
<1>7. CASE /\ activeCompileId' = e.id /\ cancelledCompiles' = Superseded /\ UNCHANGED toHost
           /\ suspended' = [suspended EXCEPT ![e.id] = "analyzed"]
  <2>1. \A i \in Ids : suspended'[i] = IF i = e.id THEN "analyzed" ELSE suspended[i]
    BY <1>4, <1>7 DEF Suspensions
  <2>2. QueueInOrder(link', suspended')
    BY <1>2, <2>1 DEF QueueInOrder
  <2>3. NewestIsLast(link', suspended', activeCompileId')
    BY <1>2, <1>3, <1>7, <2>1 DEF NewestIsLast
  <2> QED  BY <1>6, <1>7, <2>2, <2>3 DEF WorkerInTurn, InTurn
<1>8. ASSUME NEW o \in {"rejected", "failed"}, NEW s \in Sources \cup {NoSource},
             activeCompileId' = Absent, Finish(e.id, Superseded, o, s)
      PROVE  WorkerInTurn'
  <2>1. Response(e.id, o, s) \in Responses
    BY <1>3 DEF Responses, Response, Outcomes
  <2>2. /\ suspended' = [suspended EXCEPT ![e.id] = "idle"]
        /\ cancelledCompiles' = Superseded \ {e.id}
        /\ toHost' = Append(toHost, Response(e.id, o, s))
    BY <1>8 DEF Finish
  <2>3. \A i \in Ids : suspended'[i] # "idle" => suspended[i] # "idle" /\ i # e.id
    BY <1>3, <1>4, <2>2 DEF Suspensions
  <2>4. QueueInOrder(link', suspended')
    BY <1>2, <2>3 DEF QueueInOrder
  <2>5. NewestIsLast(link', suspended', activeCompileId')
    BY <1>2, <1>3, <2>3 DEF NewestIsLast
  <2>6. Response(e.id, o, s).outcome # "cancelled"
    BY DEF Response
  <2>7. CancelledAsAsked(link', toHost', cancelledCompiles')
    BY <1>4, <1>6, <2>1, <2>2, <2>6, AnswerInTurn
  <2> QED  BY <2>4, <2>5, <2>7 DEF WorkerInTurn, InTurn
<1>9. e.source \in Sources \cup {NoSource}
  BY <1>3 DEF Messages
<1> QED  BY <1>7, <1>8, <1>9 DEF ReceiveCompile

\* Lemma: a cancellation that is received was asked for.
LEMMA ReceiveCancelInTurn ==
  ASSUME WorkerInv, WorkerInTurn, ReceiveCancel
  PROVE  WorkerInTurn'
<1> DEFINE e == Head(link.outgoing)
           newest == link.activeCompileRequestId
<1>1. Received("cancel")
  BY DEF ReceiveCancel
<1>2. /\ QueueInOrder(link', suspended)
      /\ NewestIsLast(link', suspended, activeCompileId)
      /\ CancelledAsAsked(link', toHost, cancelledCompiles)
      /\ link'.activeCompileRequestId = newest /\ link'.cancellationRequested = link.cancellationRequested
      /\ newest # Absent /\ ~link.cancellationRequested => e.target # newest
  BY <1>1, ReceivedInTurn
<1>3. e \in Messages /\ e.id \in Ids
  BY <1>1, ReceivedFacts DEF WorkerInv, Types
<1>4. Response(e.id, "ack", NoSource) \in Responses /\ Response(e.id, "ack", NoSource).outcome # "cancelled"
  BY <1>3 DEF Responses, Response, Outcomes
<1>5. toHost \in Seq(Responses)
  BY DEF WorkerInv, WorkerTypeOK
<1>6. /\ toHost' = Append(toHost, Response(e.id, "ack", NoSource))
      /\ UNCHANGED <<activeCompileId, suspended>>
      /\ cancelledCompiles' = cancelledCompiles \/ cancelledCompiles' = cancelledCompiles \cup {e.target}
  BY DEF ReceiveCancel
<1>7. CancelledAsAsked(link', toHost, cancelledCompiles')
  BY <1>2, <1>6 DEF CancelledAsAsked
<1>8. CancelledAsAsked(link', toHost', cancelledCompiles')
  BY <1>4, <1>5, <1>6, <1>7, AnswerInTurn
<1> QED  BY <1>2, <1>6, <1>8 DEF WorkerInTurn, InTurn

\* Lemma: a compile that ends, with an error if it is cancelled.
LEMMA EndInTurn ==
  ASSUME WorkerInv, WorkerInTurn, NEW i \in Ids, suspended[i] # "idle", UNCHANGED link,
         NEW o \in Outcomes, NEW s \in Sources \cup {NoSource},
         Finish(i, cancelledCompiles, o, s), Deactivate(i), o = "cancelled" => IsCancelled(i)
  PROVE  WorkerInTurn'
<1>1. /\ suspended \in Suspensions /\ toHost \in Seq(Responses) /\ cancelledCompiles \in SUBSET Ids
      /\ link.activeCompileRequestId \in Ids \cup {Absent}
  BY DEF WorkerInv, WorkerTypeOK, Suspensions, Links
<1>2. /\ suspended' = [suspended EXCEPT ![i] = "idle"]
      /\ cancelledCompiles' = cancelledCompiles \ {i}
      /\ toHost' = Append(toHost, Response(i, o, s))
  BY DEF Finish
<1>3. Response(i, o, s) \in Responses /\ Response(i, o, s).id = i /\ Response(i, o, s).outcome = o
  BY DEF Responses, Response
<1>4. \A j \in Ids : suspended'[j] # "idle" => suspended[j] # "idle" /\ j # i
  BY <1>1, <1>2 DEF Suspensions
<1>5. QueueInOrder(link', suspended')
  BY <1>4 DEF WorkerInTurn, InTurn, QueueInOrder
<1>6. NewestIsLast(link', suspended', activeCompileId')
  BY <1>1, <1>4 DEF WorkerInTurn, InTurn, NewestIsLast, Deactivate
<1>7. link.activeCompileRequestId = i /\ o = "cancelled" => link.cancellationRequested \/ i = Absent
  BY DEF WorkerInTurn, InTurn, NewestIsLast, CancelledAsAsked, IsCancelled
<1>8. CancelledAsAsked(link', toHost', cancelledCompiles')
  BY <1>1, <1>2, <1>3, <1>7, AnswerInTurn DEF WorkerInTurn, InTurn
<1> QED  BY <1>5, <1>6, <1>8 DEF WorkerInTurn, InTurn

\* Lemma: the steps of a suspended compile.
LEMMA SuspendedInTurn ==
  ASSUME WorkerInv, WorkerInTurn, NEW i \in Ids, ThrowCancelled(i) \/ LowerCompile(i) \/ FinishCompile(i)
  PROVE  WorkerInTurn'
<1>1. suspended[i] # "idle" /\ UNCHANGED link
  BY DEF ThrowCancelled, LowerCompile, FinishCompile
<1>2. retained.source \in Sources \cup {NoSource} /\ suspended \in Suspensions
  BY DEF WorkerInv, WorkerTypeOK, Suspensions
<1>3. CASE ThrowCancelled(i)
  BY <1>1, <1>3, EndInTurn DEF ThrowCancelled, Outcomes
<1>4. CASE /\ suspended' = [suspended EXCEPT ![i] = "lowered"]
           /\ UNCHANGED <<activeCompileId, cancelledCompiles, toHost>>
  <2>1. \A j \in Ids : suspended'[j] # "idle" => suspended[j] # "idle"
    BY <1>1, <1>2, <1>4 DEF Suspensions
  <2>2. link.activeCompileRequestId \in Ids \cup {Absent}
    BY DEF WorkerInv, WorkerTypeOK, Links
  <2> QED  BY <1>1, <1>4, <2>1, <2>2
           DEF WorkerInTurn, InTurn, QueueInOrder, NewestIsLast, CancelledAsAsked
<1>5. CASE \E o \in {"failed", "outOfOrder"} : Finish(i, cancelledCompiles, o, NoSource) /\ Deactivate(i)
  BY <1>1, <1>5, EndInTurn DEF Outcomes
<1>6. CASE Finish(i, cancelledCompiles, "built", retained.source) /\ Deactivate(i)
  BY <1>1, <1>2, <1>6, EndInTurn DEF Outcomes
<1>7. CASE LowerCompile(i)
  BY <1>4, <1>5, <1>7 DEF LowerCompile
<1>8. CASE FinishCompile(i)
  BY <1>5, <1>6, <1>8 DEF FinishCompile
<1> QED  BY <1>3, <1>7, <1>8

\* Lemma: every step of the worker and of any caller.
LEMMA InTurnKept ==
  ASSUME WorkerInv, WorkerInTurn, [WorkerNext]_workerVars
  PROVE  WorkerInTurn'
<1>1. /\ link \in Links /\ suspended \in Suspensions /\ toHost \in Seq(Responses)
      /\ cancelledCompiles \in SUBSET Ids /\ Consistent(link, suspended, toHost)
      /\ \A i \in cancelledCompiles : suspended[i] # "idle"
  BY DEF WorkerInv, WorkerTypeOK, Suspensions, OnlySuspendedAreCancelled
<1>2. CASE WorkerStep
  BY <1>2, ReceiveCompileInTurn, ReceiveCancelInTurn, SuspendedInTurn DEF WorkerStep
<1>3. CASE Call
  <2>1. InTurn(link', suspended, toHost, activeCompileId, cancelledCompiles)
    BY <1>1, <1>3, ReactionInTurn DEF Call, WorkerInTurn
  <2> QED  BY <1>3, <2>1 DEF Call, WorkerInTurn, worker
<1>4. CASE Deliver
  <2> DEFINE k == SettleRequest(link, Head(toHost).id)
  <2>1. toHost # <<>> /\ link' \in Reactions(k) /\ toHost' = Tail(toHost)
    BY <1>4 DEF Deliver
  <2>2. k \in Links /\ Consistent(k, suspended, Tail(toHost))
    BY <1>1, <2>1, SettleKeeps
  <2>3. NoNewer(link, k) /\ k.outgoing = link.outgoing
    BY <1>1, SettledNoNewer DEF SettleRequest, Release, Links
  <2> HIDE DEF k
  <2>4. InTurn(k, suspended, Tail(toHost), activeCompileId, cancelledCompiles)
    BY <1>1, <2>1, <2>3, SettleInTurn DEF WorkerInTurn
  <2>5. Tail(toHost) \in Seq(Responses)
    BY <1>1, <2>1, SeqFacts
  <2>6. InTurn(link', suspended, Tail(toHost), activeCompileId, cancelledCompiles)
    BY <1>1, <2>1, <2>2, <2>4, <2>5, ReactionInTurn
  <2> QED  BY <1>4, <2>1, <2>6 DEF Deliver, WorkerInTurn
<1>5. CASE Terminate
  <2>1. PICK k : /\ k = link \/ (CanPost(link) /\ k = CancelCurrent(link))
                 /\ link' = Terminated(k)
    BY <1>5 DEF Terminate
  <2>2. k \in Links
    BY <1>1, <2>1, CancelPosts
  <2>3. k.activeCompileRequestId < k.nextRequestId
    BY <1>1, <2>1, CancelInTurn DEF WorkerInTurn, InTurn, NewestIsLast
  <2>4. NoNewer(k, link') /\ link'.outgoing = <<>> /\ link' \in Links
    BY <2>1, <2>2, SettledNoNewer, TerminatedType
  <2>5. Absent < k.nextRequestId
    BY <2>2 DEF Links, Absent
  <2>6. link'.activeCompileRequestId < link'.nextRequestId
    BY <2>3, <2>4, <2>5 DEF NoNewer
  <2>7. InTurn(link', NoSuspended, <<>>, Absent, {})
    BY <2>4, <2>6 DEF InTurn, QueueInOrder, NewestIsLast, CancelledAsAsked, NoSuspended, Links
  <2> QED  BY <1>5, <2>7 DEF Terminate, WorkerGone, WorkerInTurn
<1>6. CASE UNCHANGED workerVars
  BY <1>6 DEF workerVars, worker, WorkerInTurn
<1> QED  BY <1>2, <1>3, <1>4, <1>5, <1>6 DEF WorkerNext
\* A watch whose own compile the connection was asked to cancel has a newer revision
\* waiting.
Told ==
  \A c \in Commands :
    Watching(c) /\ build[c].at = "compiling" /\ link.cancellationRequested
      /\ build[c].request = link.activeCompileRequestId
    => pending[c] # Absent

\* Lemma: steps that ask for no cancellation.
LEMMA SameTold ==
  ASSUME Told,
         link'.cancellationRequested /\ link'.activeCompileRequestId # Absent =>
           /\ link.cancellationRequested
           /\ link'.activeCompileRequestId = link.activeCompileRequestId,
         \A c \in Commands : build'[c].at = "compiling" => build'[c].request # Absent,
         \A c \in Commands : owner' = c /\ c \notin Releases /\ build'[c].at = "compiling" =>
           owner = c /\ build'[c] = build[c] /\ pending'[c] = pending[c]
  PROVE  Told'
BY DEF Told, Watching

\* Lemma: a compile that is posted is not to be cancelled.
LEMMA PostedTold ==
  ASSUME link \in Links, NEW k \in Links, NEW c, NEW r, PostBuild(k, c, r) \/ link' = Compile(k, r)
  PROVE  Told'
<1>1. ~link'.cancellationRequested
  BY DEF PostBuild, Compile, Links
<1> QED  BY <1>1 DEF Told

\* Lemma: every step keeps Told.
LEMMA ToldKept ==
  ASSUME TasksInv, TasksInv', WorkerInv, Told, [TasksNext]_tasksVars
  PROVE  Told'
<1>0. /\ Nobody \notin Commands /\ build \in [Commands -> Builds] /\ link \in Links
      /\ \A c \in Commands : build'[c].at = "compiling" => build'[c].request # Absent
  <2>1. build' \in [Commands -> Builds] /\ build \in [Commands -> Builds]
    BY DEF TasksInv, TasksTypeOK, Builds
  <2>2. \A c \in Commands : build'[c] \in Builds
    BY <2>1
  <2>3. \A b \in Builds : b.at = "compiling" => b.request # Absent
    BY BuildFacts DEF Ids, Absent
  <2> QED  BY <2>1, <2>2, <2>3, TasksAssumption DEF WorkerInv, WorkerTypeOK
<1>1. ASSUME UNCHANGED <<owner, pending>>,
             \A c \in Commands : build'[c].at = "compiling" => build'[c] = build[c],
             link' = link \/ NoNewer(link, link')
      PROVE  Told'
  BY <1>0, <1>1, SameTold DEF NoNewer
<1>2. ASSUME WorkerStep, UNCHANGED <<owner, pending, build>>
      PROVE  Told'
  <2>1. \/ link' = link
        \/ link' = [link EXCEPT !.outgoing = Tail(@)]
    BY <1>2 DEF WorkerStep, ReceiveCompile, ReceiveCancel, Received, ThrowCancelled, LowerCompile, FinishCompile
  <2>2. /\ link'.cancellationRequested = link.cancellationRequested
        /\ link'.activeCompileRequestId = link.activeCompileRequestId
    BY <1>0, <2>1 DEF Links
  <2> QED  BY <1>0, <1>2, <2>2, SameTold
<1>3. ASSUME NEW c \in Commands, NEW k \in Links, link = k \/ NoNewer(link, k), DrainNext(c, k), UNCHANGED owner
      PROVE  Told'
  <2>1. CASE owner = c /\ pending[c] # Absent
    BY <1>0, <1>3, <2>1, PostedTold DEF DrainNext
  <2>2. CASE ~(owner = c /\ pending[c] # Absent)
    <3>1. EndBuild(c, k) /\ UNCHANGED pending
      BY <1>3, <2>2 DEF DrainNext
    <3>2. link' = k /\ \A e \in Commands : build'[e].at = "compiling" => build'[e] = build[e]
      BY <3>1, EndBuildFacts, BuildFacts DEF TasksInv
    <3> QED  BY <1>1, <1>3, <3>1, <3>2
  <2> QED  BY <2>1, <2>2
<1>4. ASSUME NEW c \in Commands, NEW k \in Links, link = k \/ NoNewer(link, k), FailBuild(c, k), UNCHANGED pending
      PROVE  Told'
  <2>1. link' = k /\ \A e \in Commands : build'[e].at = "compiling" => build'[e] = build[e]
    BY <1>4, EndBuildFacts, BuildFacts DEF TasksInv, FailBuild
  <2>2. \A e \in Commands : owner' = e => owner = e
    BY <1>0, <1>4 DEF FailBuild, FinishTask
  <2> QED  BY <1>0, <1>4, <2>1, <2>2, SameTold DEF NoNewer
<1>5. ASSUME NEW c \in Commands, NEW r, owner = c, owner' = owner, r # Absent, QueueWatchBuild(c, r)
      PROVE  Told'
  <2>1. CASE Compiling(c)
    <3>1. pending'[c] = r
      BY <1>5, <2>1 DEF QueueWatchBuild, TasksInv, TasksTypeOK
    <3> QED  BY <1>5, <3>1 DEF Told, Watching
  <2>2. CASE ~Compiling(c)
    BY <1>0, <1>5, <2>2, PostedTold DEF QueueWatchBuild
  <2> QED  BY <2>1, <2>2
<1>6. ASSUME NEW c \in Commands,
             InvokeRelease(c) \/ InvokeWatch(c) \/ Dismiss(c) \/ SaveFailed(c) \/ Cleared(c) \/ Written(c)
      PROVE  Told'
  <2>1. UNCHANGED <<owner, pending, link>>
    BY <1>6 DEF InvokeRelease, InvokeWatch, Dismiss, SaveFailed, Cleared, Written, quiet, workerVars
  <2>2. \A e \in Commands : build'[e].at = "compiling" => build'[e] = build[e]
    <3>1. CASE Written(c)
      <4>1. build' = [build EXCEPT ![c].at = "renaming"]
        BY <3>1 DEF Written
      <4>2. \A e \in Commands : e # c => build'[e] = build[e]
        BY <1>0, <4>1
      <4>3. build'[c].at # "compiling"
        BY <1>0, <4>1 DEF Builds, NoBuild
      <4> QED  BY <4>2, <4>3
    <3>2. CASE ~Written(c)
      BY <1>6, <3>2 DEF InvokeRelease, InvokeWatch, Dismiss, SaveFailed, Cleared, quiet
    <3> QED  BY <3>1, <3>2
  <2> QED  BY <1>1, <2>1, <2>2
<1>7. ASSUME NEW c \in Commands, SavedWatch(c)
      PROVE  Told'
  <2>1. UNCHANGED <<pending, build, link>> /\ build[c].at = "none"
    BY <1>7, BuildFacts DEF SavedWatch, workerVars, TasksInv, Phases
  <2>2. owner' = owner \/ owner' = c
    BY <1>7 DEF SavedWatch
  <2> QED  BY <1>0, <2>1, <2>2, SameTold
<1>8. ASSUME NEW c \in Commands, SavedRelease(c)
      PROVE  Told'
  <2>1. CASE disposed
    BY <1>1, <1>8, <2>1 DEF SavedRelease
  <2>2. CASE ~disposed
    BY <1>0, <1>8, <2>2, PostedTold DEF SavedRelease
  <2> QED  BY <2>1, <2>2
<1>9. ASSUME NEW c \in Commands, WatchStarted(c)
      PROVE  Told'
  <2>1. CASE owner = c /\ ~disposed
    <3>1. first[c] # Absent
      BY <1>9 DEF WatchStarted, TasksInv, Phases, Versions, Absent
    <3> QED  BY <1>5, <1>9, <2>1, <3>1 DEF WatchStarted
  <2>2. CASE ~(owner = c /\ ~disposed)
    <3>1. UNCHANGED <<pending, link, build>> /\ FinishTask(c)
      BY <1>9, <2>2 DEF WatchStarted
    <3>2. \A e \in Commands : owner' = e => owner = e
      BY <1>0, <3>1 DEF FinishTask
    <3> QED  BY <1>0, <3>1, <3>2, SameTold
  <2> QED  BY <2>1, <2>2
<1>10. ASSUME StopCommand \/ \E c \in Commands : StopAndBuild(c)
       PROVE  Told'
  <2>1. StopDebugWatch
    BY <1>10 DEF StopCommand, StopAndBuild
  <2>2. owner' \notin Commands \ Releases
    BY <1>0, <2>1, StopFacts
  <2> QED  BY <2>2 DEF Told, Watching
<1>11. ASSUME NEW d \in Documents, Save(d)
       PROVE  Told'
  <2>1. owner \in Commands /\ version[d] # Absent /\ QueueWatchBuild(owner, version[d]) /\ owner' = owner
    BY <1>11 DEF Save, WatchActive, TasksInv, TasksTypeOK, Versions, Absent
  <2> QED  BY <1>5, <2>1
<1>12. ASSUME NEW c \in Commands, Renamed(c) \/ WriteFailed(c)
       PROVE  Told'
  BY <1>0, <1>3, <1>4, <1>12 DEF Renamed, WriteFailed
<1>13. ASSUME Answer
       PROVE  Told'
  <2> DEFINE k == SettleRequest(link, Head(toHost).id)
             outcome == Head(toHost).outcome
  <2>1. \/ \E c \in Commands : \/ c \notin Releases /\ WatchAnswered(c, k, outcome)
                               \/ c \in Releases /\ ReleaseAnswered(c, k, outcome)
        \/ link' = k /\ UNCHANGED <<owner, pending, build, phase, handled>>
    BY <1>13 DEF Answer
  <2>2. NoNewer(link, k)
    BY <1>0, SettledNoNewer
  <2>3. k \in Links
    <3>1. toHost # <<>> /\ toHost \in Seq(Responses) /\ suspended \in Suspensions
          /\ Consistent(link, suspended, toHost)
      BY <1>13 DEF Answer, WorkerInv, WorkerTypeOK, Suspensions
    <3> QED  BY <1>0, <3>1, SettleKeeps
  <2> HIDE DEF k, outcome
  <2>4. ASSUME NEW c \in Commands, build' = [build EXCEPT ![c].at = "writing"], link' = k,
               UNCHANGED <<owner, pending>>
        PROVE  Told'
    <3>1. \A e \in Commands : build'[e].at = "compiling" => build'[e] = build[e]
      <4>1. build'[c].at # "compiling"
        BY <1>0, <2>4 DEF Builds, NoBuild
      <4>2. \A e \in Commands : e # c => build'[e] = build[e]
        BY <1>0, <2>4
      <4> QED  BY <4>1, <4>2
    <3> QED  BY <1>1, <2>2, <2>4, <3>1
  <2>5. ASSUME NEW c \in Commands, EndBuild(c, k), UNCHANGED <<owner, pending>>
        PROVE  Told'
    <3>1. link' = k /\ \A e \in Commands : build'[e].at = "compiling" => build'[e] = build[e]
      BY <2>5, EndBuildFacts, BuildFacts DEF TasksInv
    <3> QED  BY <1>1, <2>2, <2>5, <3>1
  <2>6. ASSUME NEW c \in Commands, WatchAnswered(c, k, outcome)
        PROVE  Told'
    BY <1>3, <1>4, <2>2, <2>3, <2>4, <2>5, <2>6 DEF WatchAnswered
  <2>7. ASSUME NEW c \in Commands, ReleaseAnswered(c, k, outcome)
        PROVE  Told'
    BY <1>4, <2>2, <2>3, <2>4, <2>7 DEF ReleaseAnswered
  <2>8. CASE link' = k /\ UNCHANGED <<owner, pending, build, phase, handled>>
    BY <1>1, <2>2, <2>8
  <2> QED  BY <2>1, <2>6, <2>7, <2>8
<1>14. ASSUME WorkerFails
       PROVE  Told'
  <2> DEFINE k == Terminated(link)
  <2>1. /\ RejectBuilds(k) /\ link' = k /\ UNCHANGED pending
        /\ owner' = IF owner \in Rejected(k) THEN Nobody ELSE owner
    BY <1>14 DEF WorkerFails, RejectBuilds
  <2>2. NoNewer(link, k)
    BY <1>0, SettledNoNewer
  <2> HIDE DEF k
  <2>3. \A e \in Commands : build'[e].at = "compiling" => build'[e] = build[e]
    BY <2>1, RejectFacts, BuildFacts
  <2>4. \A e \in Commands : owner' = e => owner = e
    BY <1>0, <2>1
  <2> QED  BY <1>0, <2>1, <2>2, <2>3, <2>4, SameTold DEF NoNewer
<1>15. ASSUME Dispose
       PROVE  Told'
  <2>1. \A e \in Commands : owner' = e => e \in Releases
    BY <1>0, <1>15 DEF Dispose, WatchActive
  <2> QED  BY <2>1 DEF Told, Watching
<1>16. CASE UNCHANGED <<owner, pending, build, link>>
  BY <1>1, <1>16
<1>17. CASE Work
  BY <1>2, <1>6, <1>9, <1>12, <1>13, <1>17 DEF Work
<1>18. CASE \E c \in Commands : Command(c) \/ WriteFailed(c)
  BY <1>6, <1>7, <1>8, <1>10, <1>12, <1>18 DEF Command
<1>19. CASE \E d \in Documents : Edit(d) \/ Save(d)
  BY <1>11, <1>16, <1>19 DEF Edit, workerVars
<1> QED
  BY <1>10, <1>14, <1>15, <1>16, <1>17, <1>18, <1>19 DEF TasksNext, tasksVars, workerVars

\* Lemma: a step that ends a watch with a cancelled answer is that answer.
LEMMA EndsByAnswer ==
  ASSUME TasksInv, WorkerInv, TasksNext, NEW c \in Commands, EndsCancelled(c)
  PROVE  /\ Awaits(c, Head(toHost).id) /\ pending[c] = Absent /\ Watching(c)
         /\ Head(toHost).outcome = "cancelled" /\ toHost # <<>>
<1>1. /\ Watching(c) /\ owner' # c /\ owner = c /\ c \notin Releases
      /\ toHost # <<>> /\ toHost' = Tail(toHost) /\ alive'
      /\ Head(toHost).outcome = "cancelled"
  BY DEF EndsCancelled, Watching
<1>2. toHost \in Seq(Responses)
  BY DEF WorkerInv, WorkerTypeOK
<1>3. toHost' # toHost
  <2>1. Len(Tail(toHost)) = Len(toHost) - 1 /\ Len(toHost) \in Nat
    BY <1>1, <1>2, SeqFacts
  <2>2. Len(toHost') = Len(toHost) - 1
    BY ONLY <1>1, <2>1
  <2>3. Len(toHost') # Len(toHost)
    BY ONLY <2>1, <2>2
  <2> QED  BY <2>3, Zenon
<1>4. ~(UNCHANGED worker) /\ ~(UNCHANGED owner) /\ ~(WorkerGone)
  BY <1>1, <1>3 DEF worker, WorkerGone
<1>5. Answer
  <2>1. CASE \E d \in Commands : Command(d) \/ WriteFailed(d)
    BY <1>4, <2>1 DEF Command, InvokeRelease, InvokeWatch, Dismiss, StopAndBuild, SaveFailed, SavedRelease,
       SavedWatch, WriteFailed, quiet, workerVars
  <2>2. CASE \E d \in Documents : Edit(d) \/ Save(d)
    BY <1>4, <2>2 DEF Edit, Save
  <2>3. CASE StopCommand \/ WorkerFails \/ Dispose
    BY <1>4, <2>3 DEF StopCommand, WorkerFails, Dispose
  <2>4. CASE \E d \in Commands : Cleared(d) \/ WatchStarted(d) \/ Written(d) \/ Renamed(d)
    BY <1>4, <2>4 DEF Cleared, WatchStarted, Written, Renamed, quiet, workerVars
  <2> QED  BY <1>4, <2>1, <2>2, <2>3, <2>4 DEF TasksNext, Work
<1> DEFINE k == SettleRequest(link, Head(toHost).id)
           outcome == Head(toHost).outcome
<1>6. PICK d \in Commands : /\ Awaits(d, Head(toHost).id)
                            /\ \/ d \notin Releases /\ WatchAnswered(d, k, outcome)
                               \/ d \in Releases /\ ReleaseAnswered(d, k, outcome)
  BY <1>4, <1>5 DEF Answer
<1> HIDE DEF k
<1>7. owner' # owner => owner = d
  BY <1>6 DEF WatchAnswered, ReleaseAnswered, FailBuild, FinishTask
<1>8. d = c
  BY <1>1, <1>7
<1>9. pending[c] = Absent
  BY <1>1, <1>6, <1>8 DEF WatchAnswered
<1> QED  BY <1>1, <1>6, <1>8, <1>9

\* Lemma: what the worker's part says holds under the commands too.
LEMMA TasksInTurn == TasksSpec => [](WorkerInv /\ WorkerInTurn /\ Told)
<1>1. TasksInit => WorkerInv /\ WorkerInTurn /\ Told
  <2> SUFFICES ASSUME TasksInit  PROVE WorkerInv /\ WorkerInTurn /\ Told
    OBVIOUS
  <2>1. WorkerInv
    BY WorkerInit_Inv DEF TasksInit
  <2>2. /\ link.outgoing = <<>> /\ link.activeCompileRequestId = Absent /\ link.nextRequestId = 2
        /\ toHost = <<>> /\ suspended = NoSuspended
    BY DEF TasksInit, WorkerInit, NewLink
  <2>3. WorkerInTurn
    BY <2>2 DEF WorkerInTurn, InTurn, QueueInOrder, NewestIsLast, CancelledAsAsked, Absent
  <2>4. Told
    BY TasksAssumption DEF TasksInit, Told, Watching
  <2> QED  BY <2>1, <2>3, <2>4
<1>2. TasksInv /\ TasksInv' /\ WorkerInv /\ WorkerInTurn /\ Told /\ [TasksNext]_tasksVars
        => (WorkerInv /\ WorkerInTurn /\ Told)'
  BY TasksNext_Inv, WorkerNext_Inv, InTurnKept, ToldKept
<1> HIDE DEF TasksInit, TasksInv, TasksNext, tasksVars, WorkerInv, WorkerInTurn, Told
<1> QED  BY <1>1, <1>2, TasksInvariant, PTL DEF TasksSpec

\* Theorem: a watch whose compile is answered as cancelled ends only if another
\* command's compile has taken its place, however saves, stops and answers cross.
THEOREM CancelledAreSuperseded == TasksSpec => CancelledWatchWasSuperseded
<1>1. TasksInv /\ WorkerInv /\ WorkerInTurn /\ Told /\ [TasksNext]_tasksVars
        => [\A c \in Commands : EndsCancelled(c) => link.activeCompileRequestId # Head(toHost).id]_tasksVars
  <2> SUFFICES ASSUME TasksInv, WorkerInv, WorkerInTurn, Told, TasksNext,
                      NEW c \in Commands, EndsCancelled(c),
                      link.activeCompileRequestId = Head(toHost).id
               PROVE  FALSE
    OBVIOUS
  <2>1. /\ Awaits(c, Head(toHost).id) /\ pending[c] = Absent /\ Watching(c)
        /\ Head(toHost).outcome = "cancelled" /\ toHost # <<>>
    BY EndsByAnswer
  <2>2. toHost \in Seq(Responses)
    BY DEF WorkerInv, WorkerTypeOK
  <2>3. Head(toHost) = toHost[1] /\ 1 \in 1 .. Len(toHost) /\ Head(toHost) \in Responses
    BY <2>1, <2>2, SeqFacts
  <2>4. Head(toHost).id # Absent
    BY <2>3 DEF Responses, Ids, Absent
  <2>5. link.cancellationRequested
    BY <2>1, <2>3, <2>4 DEF WorkerInTurn, InTurn, CancelledAsAsked
  <2> QED  BY <2>1, <2>5 DEF Told, Awaits
<1> HIDE DEF TasksInv, TasksNext, tasksVars, WorkerInv, WorkerInTurn, Told, EndsCancelled
<1> QED  BY <1>1, TasksInvariant, TasksInTurn, PTL DEF TasksSpec, CancelledWatchWasSuperseded
=============================================================================
