--------------------------- MODULE MCScopedGlobals ---------------------------
(* Scripts for ScopedGlobalUse: families of blocks put together. *)
EXTENDS ScopedGlobalUse

Read(g)      == [do |-> "read", global |-> g]
Write(g)     == [do |-> "write", global |-> g]
Choose(v)    == [do |-> "select", global |-> "kind", variant |-> v]
Call(h)      == [do |-> "call", global |-> h]
If(t, b, c)  == [do |-> "if", test |-> t, then |-> b, else |-> c]
Some(b, c)   == If(Opaque, b, c)
Is(v)        == [global |-> "kind", variant |-> v]
While(b)     == [do |-> "while", block |-> b]
Loop(b)      == [do |-> "loop", block |-> b]
And(b)       == [do |-> "and", block |-> b]
Try(b, c)    == [do |-> "try", block |-> b, fallback |-> c]
Debug(n)     == [do |-> "debug", statement |-> n]
Jumps(do)    == [do |-> do]
MatchKind(arms) == [do |-> "match", global |-> "kind", arms |-> arms]
Arm(v, guarded, b) == [variant |-> v, guarded |-> guarded, block |-> b]

X == Write("x")
Y == Write("y")
BothKinds == MatchKind(<<Arm("A", FALSE, <<Read("x")>>), Arm("B", FALSE, <<Read("y")>>)>>)

\* What onAttach is made of.  Left out: a dimension that is computed or chosen
\* in a loop, an assignment on the right of `&&`, and a helper with a refined use.
Statements ==
  {X, Y, Read("x"), Choose("A"), Choose("B"), Call("f"),
   Some(<<X>>, << >>), Some(<<X>>, <<X>>), Some(<<X>>, <<Y>>),
   Some(<<X, Choose("A"), Jumps("return")>>, << >>),
   Some(<<Choose("A"), X>>, <<Choose("B"), Y>>),
   Some(<<Jumps("reject")>>, <<X>>),
   While(<<X>>), While(<<Read("x"), Jumps("continue")>>), While(<<Y, Jumps("return")>>),
   Loop(<<Some(<<Jumps("break")>>, << >>), X>>), Loop(<<X, Some(<<Jumps("return")>>, << >>)>>),
   Try(<<X>>, <<Jumps("reject")>>), And(<<Read("x")>>),
   MatchKind(<<Arm("A", FALSE, <<X>>), Arm("any", FALSE, <<X>>)>>)}

AttachBlocks == UNION {[1 .. n -> Statements] : n \in 1 .. 3}

Later ==
  {<<BothKinds>>, <<If(Is("A"), <<Read("x")>>, <<Read("y")>>)>>,
   <<If(Is("B"), <<Call("f")>>, << >>)>>,
   <<MatchKind(<<Arm("A", TRUE, <<Read("x")>>), Arm("any", FALSE, <<Read("y")>>)>>)>>}

Script(attach, start, later, split, poll, f, g) ==
  [onAttach |-> attach, onStart |-> start, whileAttached |-> later, split |-> split,
   poll |-> poll, f |-> f, g |-> g]

\* Attachment globals.
AttachScripts ==
  {[bare |-> {"kind", "x", "y"}, automatic |-> FALSE,
    script |-> Script(attach, << >>, later, << >>, << >>, <<Call("g")>>, <<Read("x")>>)] :
     attach \in AttachBlocks, later \in Later}

\* Fields of the state, and a shape that is selected automatically.
PollScripts ==
  {[bare |-> {"kind", "x"}, automatic |-> automatic,
    script |-> Script(attach, << >>, << >>, << >>, <<If(test, <<Read("x")>>, << >>)>>, << >>, << >>)] :
     attach \in {<<X>>, <<MatchKind(<<Arm("A", FALSE, <<X>>), Arm("B", FALSE, << >>)>>)>>,
                 <<Some(<<X, Choose("A")>>, <<Choose("B")>>)>>, <<Choose("A"), X>>},
     automatic \in BOOLEAN, test \in {Opaque, Is("A"), Is("B")}}

\* Attempt globals, and globals of debug builds.
AttemptScripts ==
  {[bare |-> {"kind", "x"}, automatic |-> FALSE,
    script |-> Script(<<Choose("A")>>, start, later, split, << >>, <<Call("g")>>, g)] :
     start \in {<<X>>, <<Some(<<X>>, << >>)>>, <<Some(<<X>>, <<X>>)>>, <<Read("x"), X>>,
                <<Call("f"), X>>, <<X, Call("f")>>, <<Some(<<X, Jumps("return")>>, << >>), X>>},
     later \in {<< >>, <<Read("x")>>, <<Call("f")>>, <<If(Is("A"), <<Read("x")>>, << >>)>>},
     split \in {<< >>, <<Read("x")>>, <<Call("f")>>, <<If(Is("A"), <<Read("x")>>, << >>)>>,
                <<[do |-> "closure", block |-> <<Read("x")>>], Jumps("invoke")>>},
     g \in {<< >>, <<Read("x")>>, <<Read("kind")>>}}

DebugScripts ==
  {[bare |-> {"d", "x", "kind"}, automatic |-> FALSE,
    script |-> Script(<<Choose("A")>> \o attach, << >>, <<Debug(Read("d")), Read("x")>>, << >>, << >>, << >>, << >>)] :
     attach \in [1 .. 3 -> {Debug(Write("d")), X, Debug(Some(<<Write("d")>>, << >>)), Debug(X), Debug(Read("d"))}]}

SoundScripts == AttachScripts \cup PollScripts \cup AttemptScripts \cup DebugScripts

-----------------------------------------------------------------------------
\* An ordinary enum, which describes no attachment, is tested before an attempt's
\* global is used.
Mode(v) == [global |-> "mode", variant |-> v]

ModeScripts ==
  {[bare |-> {"x"}, automatic |-> FALSE,
    script |-> Script(<< >>, <<X>>, << >>, <<If(Mode("A"), <<Read("x")>>, << >>)>>, << >>, << >>, << >>)]}
\* Dimensions of scripts whose attachments have one shape.
NoDimensions == {}
ScopedSpec == ScopedInit /\ [][ScopedNext]_scopedVars
=============================================================================
