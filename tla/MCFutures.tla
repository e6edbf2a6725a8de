------------------------------ MODULE MCFutures ------------------------------
(* Scripts for Futures: onAttach awaits a body x, a combinator y over x, z   *)
(* and itself, and a leaf or an inner combinator z, in several orders.       *)
EXTENDS Futures

CONSTANTS x, y, z

Await(f)    == [do |-> "await", future |-> f]
Push(r, f)  == [do |-> "push", future |-> f, array |-> r]
Set(r, f)   == [do |-> "set", future |-> f, array |-> r]
Clear(r)    == [do |-> "clear", array |-> r]
Tick        == [do |-> "nextTick"]

BodyOf(script)     == [kind |-> "body", script |-> script]
RaceOf(children)   == [kind |-> "race", operations |-> children]
TimeoutOf(f, time) == [kind |-> "timeout", operation |-> f, duration |-> time]
Leaf(kind)         == [kind |-> kind]

MainBodies == {BodyOf(s) : s \in
  {<<Await(y), Await(z)>>, <<Await(x), Await(y)>>, <<Await(z), Await(y), Await(x)>>,
   <<Await(y), Tick, Await(y)>>}}

Waiting == {BodyOf(s) : s \in
  { << >>, <<Tick>>, <<Await(z)>>, <<Tick, Await(z)>>, <<Await(z), Await(y)>>,
    <<Await(x)>>, <<Await(z), Await(z)>> }}

\* A change of a race's array is followed by a suspension.
Changing == {BodyOf(s) : s \in
  { <<Push(y, z), Tick>>, <<Clear(y), Tick>>, <<Push(y, y)>> }}

Races    == {RaceOf(s) : s \in
  { <<x>>, <<x, z>>, <<z, x>>, <<x, x>>, <<y, z>>, <<x, y, z>> }}
Timeouts == {TimeoutOf(f, time) : f \in {x, z}, time \in 0 .. MaxDuration}
Inner    == {Leaf("nextTick"), Leaf("query"), TimeoutOf(x, 1), RaceOf(<<x, x>>)}

Script4(m, b, c, l) ==
  [f \in Frames |-> CASE f = Main -> m [] f = x -> b [] f = y -> c [] f = z -> l]

AllPrograms ==
  {Script4(m, b, c, l) : m \in MainBodies, b \in Waiting, l \in Inner,
                         c \in Races \cup Timeouts \cup {RaceOf(<< >>)}}
    \cup {Script4(m, b, c, l) : m \in MainBodies, b \in Changing, c \in Races, l \in Inner}

\* The first child changes the array and completes in the same poll.
ChangingAtOnce ==
  {Script4(BodyOf(<<Await(y)>>), BodyOf(<<o>>), RaceOf(<<x, z>>), l) :
     o \in {Set(y, z), Clear(y), Push(y, z)}, l \in Inner}
=============================================================================
