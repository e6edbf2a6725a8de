------------------------------ MODULE MCAsync ------------------------------
(* The two parts of asynchronous code, for TLC: the futures that await one    *)
(* another, and the scans whose places they keep.  They share no state, so    *)
(* that each behaviour is one of them, and the other rests.                   *)
EXTENDS MCFutures, MemoryScan

CONSTANTS low, high, part, hole   \* the hole is mapped and not readable

Sizes  == [r \in Ranges |-> CASE r = low -> 4 [] r = high -> 6 [] r = part -> 5 [] r = hole -> 0]
Placed == {c \in {low, high, part} \X {0, 3, 4, 5} \X {1, 2} : c[2] < Sizes[c[1]]}

\* TLC evaluates what a constant is replaced with at every use, and what that
\* names once.
MCSize        == Sizes
MCCandidates  == Placed
MCLengths     == {<<1>>, <<2>>, <<1, 2>>, <<2, 1>>}
MCUnreadables == {{}, {<<high, 2>>}, {<<high, 3>>}, {<<low, 0>>}}
MCMaps        == {<< >>, <<low>>, <<hole, high>>, <<low, high>>}

-----------------------------------------------------------------------------

NoScan ==
  /\ kind = NoMatch /\ lengths = << >> /\ place = Fresh /\ found = NoMatch /\ exhausted = FALSE
  /\ result = Absent /\ map = << >> /\ present = {} /\ protected = {} /\ changes = 0 /\ steady = {}

NoFutures ==
  /\ program = CHOOSE p \in Programs : TRUE
  /\ operations = [f \in Futures |-> << >>] /\ version = [f \in Futures |-> 0]
  /\ state = [f \in Frames |-> Complete]
  /\ child = [f \in Frames |-> None] /\ value = [f \in Frames |-> None]
  /\ begun = [f \in Futures |-> FALSE] /\ age = [f \in Futures |-> 0]
  /\ polled = {} /\ stack = << >> /\ answer = "none" /\ trapped = FALSE
  /\ taken = [f \in Frames |-> << >>] /\ ran = {}

Scan  == kind \in Kinds /\ PollScan /\ UNCHANGED vars
AwaitFutures == kind = NoMatch /\ Next /\ UNCHANGED scanVars

AsyncInit == \/ Init /\ NoScan
             \/ NoFutures /\ ScanInit

AsyncNext == \/ AwaitFutures
             \/ Scan
             \/ kind \in Kinds /\ Game /\ UNCHANGED vars

\* The host calls update, which polls the futures and the scan.
AsyncSpec == /\ AsyncInit /\ [][AsyncNext]_<<vars, scanVars>>
             /\ WF_<<vars, scanVars>>(Scan) /\ WF_<<vars, scanVars>>(AwaitFutures)
=============================================================================
