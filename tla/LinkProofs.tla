----------------------------- MODULE LinkProofs -----------------------------
(***************************************************************************)
(* Proofs about Link for any number of calls: type correctness, that work  *)
(* runs at most once and not after a refusal, that exclusive work is alone, *)
(* and that Link implements SerialCalls.                                    *)
(***************************************************************************)
EXTENDS Link, TLAPS

\* Nobody has begun, answered or taken the call.
Fresh(c) == starts[c] = 0 /\ reply[c] = "none"

\* Calls that nobody has accepted are fresh, and held by no goroutine.
OfferedInv ==
    \A c \in Calls : caller[c] \in {"idle", "offering"} =>
        Fresh(c) /\ c \notin {first, next, work}

\* What is begun or answered, whoever holds it.
CountInv ==
    \A c \in Calls :
        /\ starts[c] <= 1 /\ reply[c] # "twice"
        /\ reply[c] = "refused" => starts[c] = 0
        /\ reply[c] = "ran" => starts[c] = 1
        /\ c \in lost => starts[c] = 1 /\ reply[c] = "none"
        /\ (starts[c] = 1 /\ reply[c] = "none" /\ c \notin lost) =>
              \/ run = "exclusive" /\ c = first
              \/ radio = "working" /\ c = work

\* The call that Run holds.
RunInv ==
    /\ next # NoCall => Fresh(next)
    /\ run = "exclusive" => /\ first \in Exclusives
                           /\ starts[first] = 1 /\ reply[first] = "none"
                           /\ first \notin lost
    /\ run = "dial" => first \in Calls \ Exclusives /\ Fresh(first) /\ first # work
    /\ (run \in {"dialing", "claim"} /\ ~claimed) =>
          first \in Calls \ Exclusives /\ Fresh(first)

\* The call that the radio goroutine holds, and who may answer the first one.
RadioInv ==
    /\ work \notin Exclusives
    /\ (radio = "connecting" /\ ~claimed) =>
          run \in {"dialing", "claim"} /\ work = first
    /\ radio \in {"connected", "working", "serving"} => claimed
    /\ radio = "connected" => work \in Calls /\ Fresh(work)
    /\ radio = "working" => /\ work \in Calls
                           /\ starts[work] = 1 /\ reply[work] = "none"
                           /\ work \notin lost
    /\ run = "dialing" => radio # "idle"
    /\ (running /\ radio # "idle") => run = "dialing"
    /\ operating => radio = "idle"

LinkInv == TypeOK /\ OfferedInv /\ CountInv /\ RunInv /\ RadioInv

-----------------------------------------------------------------------------
LEMMA AnswerEffect ==
    ASSUME TypeOK, NEW c \in Calls, NEW r \in {"ran", "refused"},
           reply[c] = "none", Answer(c, r)
    PROVE  /\ reply' \in [Calls -> Replies]
           /\ reply'[c] = r
           /\ \A d \in Calls \ {c} : reply'[d] = reply[d]
BY DEF Answer, TypeOK, Replies

LEMMA BeginEffect ==
    ASSUME TypeOK, NEW c \in Calls, starts[c] = 0, Begin(c)
    PROVE  /\ starts' \in [Calls -> 0..2]
           /\ starts'[c] = 1
           /\ \A d \in Calls \ {c} : starts'[d] = starts[d]
BY DEF Begin, TypeOK

LEMMA AcceptEffect ==
    ASSUME TypeOK, NEW c \in Calls, Accept(c)
    PROVE  /\ caller' \in [Calls -> CallerPoints]
           /\ caller[c] = "offering" /\ caller'[c] = "waiting"
           /\ \A d \in Calls \ {c} : caller'[d] = caller[d]
BY DEF Accept, TypeOK, CallerPoints

LEMMA LinkInvKept == Spec => []LinkInv
<1> USE CallsAssumption
    DEF callerVars, runVars, radioVars, stateVars, Fresh
<1>1. Init => LinkInv
  <2> SUFFICES ASSUME Init PROVE LinkInv
    OBVIOUS
  <2>1. claimed \in BOOLEAN /\ drop \in BOOLEAN /\ connected \in BOOLEAN
        /\ busy \in BOOLEAN /\ running \in BOOLEAN /\ operating \in BOOLEAN
    BY Zenon DEF Init
  <2>2. TypeOK
    BY <2>1 DEF Init, TypeOK, CallerPoints, RunPoints, RadioPoints, Replies
  <2>3. OfferedInv /\ CountInv
    BY DEF Init, OfferedInv, CountInv
  <2>4. RunInv /\ RadioInv
    BY DEF Init, RunInv, RadioInv
  <2>. QED
    BY <2>2, <2>3, <2>4 DEF LinkInv
<1>2. LinkInv /\ [Next]_vars => LinkInv'
  <2> SUFFICES ASSUME LinkInv, [Next]_vars PROVE LinkInv'
    OBVIOUS
  <2>0. TypeOK /\ OfferedInv /\ CountInv /\ RunInv /\ RadioInv
    BY DEF LinkInv
  <2>1. ASSUME NEW c \in Calls, Offer(c) \/ Leave(c) \/ TakeReply(c)
        PROVE  LinkInv'
    <3>1. /\ caller' \in [Calls -> CallerPoints]
          /\ \A d \in Calls : caller'[d] \in {"idle", "offering"}
                                 => caller[d] \in {"idle", "offering"}
          /\ UNCHANGED <<reply, runVars, radioVars, stateVars, drop, running, starts, lost>>
      BY <2>0, <2>1 DEF Offer, Leave, TakeReply, TypeOK, CallerPoints
    <3>2. TypeOK'
      BY <2>0, <3>1 DEF TypeOK
    <3>3. OfferedInv' /\ CountInv' /\ RunInv' /\ RadioInv'
      BY <2>0, <3>1 DEF OfferedInv, CountInv, RunInv, RadioInv
    <3>. QED
      BY <3>2, <3>3 DEF LinkInv
  <2>2. CASE Disconnect \/ Shutdown \/ UNCHANGED vars
    <3>1. /\ UNCHANGED <<callerVars, runVars, radioVars, stateVars, starts, lost>>
          /\ running' => running
      BY <2>2 DEF Disconnect, Shutdown, vars
    <3>2. drop' \in BOOLEAN /\ running' \in BOOLEAN
      BY <2>0, <2>2, Zenon DEF Disconnect, Shutdown, vars, TypeOK
    <3>3. TypeOK'
      BY <2>0, <3>1, <3>2 DEF TypeOK
    <3>4. OfferedInv' /\ CountInv' /\ RunInv' /\ RadioInv'
      BY <2>0, <3>1 DEF OfferedInv, CountInv, RunInv, RadioInv
    <3>. QED
      BY <3>3, <3>4 DEF LinkInv
  <2>3. CASE RunNext
    <3>1. next # NoCall => /\ starts' \in [Calls -> 0..2] /\ starts'[next] = 1
                           /\ \A d \in Calls \ {next} : starts'[d] = starts[d]
      BY <2>0, <2>3, BeginEffect DEF RunNext, TypeOK, RunInv
    <3>2. TypeOK'
      <4>1. CASE next = NoCall
        BY <2>0, <2>3, <4>1 DEF RunNext, TypeOK, RunPoints
      <4>2. CASE next # NoCall
        BY <2>0, <2>3, <3>1, <4>2 DEF RunNext, TypeOK, RunPoints
      <4>. QED
        BY <4>1, <4>2
    <3>3. OfferedInv'
      BY <2>0, <2>3, <3>1 DEF RunNext, TypeOK, OfferedInv, CountInv, RunInv, RadioInv
    <3>4. CountInv'
      BY <2>0, <2>3, <3>1 DEF RunNext, TypeOK, OfferedInv, CountInv, RunInv, RadioInv
    <3>5. RunInv'
      BY <2>0, <2>3, <3>1 DEF RunNext, TypeOK, OfferedInv, CountInv, RunInv, RadioInv
    <3>6. RadioInv'
      BY <2>0, <2>3, <3>1 DEF RunNext, TypeOK, OfferedInv, CountInv, RunInv, RadioInv
    <3>. QED
      BY <3>2, <3>3, <3>4, <3>5, <3>6 DEF LinkInv
  <2>4. CASE RunStop \/ RunDrop
    <3>1. /\ run = "select" /\ run' \in {"next", "done"}
          /\ UNCHANGED <<callerVars, first, next, radioVars, stateVars, running, starts, lost>>
      BY <2>4 DEF RunStop, RunDrop
    <3>2. drop' \in BOOLEAN
      BY <2>0, <2>4, Zenon DEF RunStop, RunDrop, TypeOK
    <3>3. TypeOK'
      BY <2>0, <3>1, <3>2 DEF TypeOK, RunPoints
    <3>4. OfferedInv' /\ CountInv' /\ RunInv' /\ RadioInv'
      BY <2>0, <3>1 DEF OfferedInv, CountInv, RunInv, RadioInv
    <3>. QED
      BY <3>3, <3>4 DEF LinkInv
  <2>5. ASSUME NEW c \in Calls, RunAccept(c) PROVE LinkInv'
    <3>1. /\ caller' \in [Calls -> CallerPoints]
          /\ caller[c] = "offering" /\ caller'[c] = "waiting"
          /\ \A d \in Calls \ {c} : caller'[d] = caller[d]
          /\ c \in Exclusives => /\ starts' \in [Calls -> 0..2] /\ starts'[c] = 1
                                 /\ \A d \in Calls \ {c} : starts'[d] = starts[d]
      BY <2>0, <2>5, AcceptEffect, BeginEffect DEF RunAccept, OfferedInv
    <3>2. TypeOK'
      BY <2>0, <2>5, <3>1 DEF RunAccept, TypeOK, RunPoints, RadioPoints
    <3>3. OfferedInv'
      BY <2>0, <2>5, <3>1 DEF RunAccept, TypeOK, OfferedInv, CountInv, RunInv, RadioInv
    <3>4. CountInv'
      BY <2>0, <2>5, <3>1 DEF RunAccept, TypeOK, OfferedInv, CountInv, RunInv, RadioInv
    <3>5. RunInv'
      BY <2>0, <2>5, <3>1 DEF RunAccept, TypeOK, OfferedInv, CountInv, RunInv, RadioInv
    <3>6. RadioInv'
      BY <2>0, <2>5, <3>1 DEF RunAccept, TypeOK, OfferedInv, CountInv, RunInv, RadioInv
    <3>. QED
      BY <3>2, <3>3, <3>4, <3>5, <3>6 DEF LinkInv
  <2>6. CASE ExclusiveEnds
    <3>1. /\ reply' \in [Calls -> Replies] /\ reply'[first] = "ran"
          /\ \A d \in Calls \ {first} : reply'[d] = reply[d]
          /\ first \in Calls
      BY <2>0, <2>6, AnswerEffect DEF ExclusiveEnds, RunInv, TypeOK
    <3>2. TypeOK'
      BY <2>0, <2>6, <3>1 DEF ExclusiveEnds, TypeOK, RunPoints, RadioPoints
    <3>3. OfferedInv'
      BY <2>0, <2>6, <3>1 DEF ExclusiveEnds, TypeOK, OfferedInv, CountInv, RunInv, RadioInv
    <3>4. CountInv'
      BY <2>0, <2>6, <3>1 DEF ExclusiveEnds, TypeOK, OfferedInv, CountInv, RunInv, RadioInv
    <3>5. RunInv'
      BY <2>0, <2>6, <3>1 DEF ExclusiveEnds, TypeOK, OfferedInv, CountInv, RunInv, RadioInv
    <3>6. RadioInv'
      BY <2>0, <2>6, <3>1 DEF ExclusiveEnds, TypeOK, OfferedInv, CountInv, RunInv, RadioInv
    <3>. QED
      BY <3>2, <3>3, <3>4, <3>5, <3>6 DEF LinkInv
  <2>7. CASE Dial
    BY <2>0, <2>7 DEF Dial, RadioFree, LinkInv, TypeOK, RunPoints, RadioPoints, OfferedInv,
                      CountInv, RunInv, RadioInv
  <2>8. CASE DialRefused
    <3>1. /\ reply' \in [Calls -> Replies] /\ reply'[first] = "refused"
          /\ \A d \in Calls \ {first} : reply'[d] = reply[d]
          /\ first \in Calls
      BY <2>0, <2>8, AnswerEffect DEF DialRefused, RunInv
    <3>2. TypeOK'
      BY <2>0, <2>8, <3>1 DEF DialRefused, Disconnected, TypeOK, RunPoints, RadioPoints
    <3>3. OfferedInv'
      BY <2>0, <2>8, <3>1 DEF DialRefused, Disconnected, TypeOK, OfferedInv, CountInv, RunInv, RadioInv
    <3>4. CountInv'
      BY <2>0, <2>8, <3>1 DEF DialRefused, Disconnected, TypeOK, OfferedInv, CountInv, RunInv, RadioInv
    <3>5. RunInv'
      BY <2>0, <2>8, <3>1 DEF DialRefused, Disconnected, TypeOK, OfferedInv, CountInv, RunInv, RadioInv
    <3>6. RadioInv'
      BY <2>0, <2>8, <3>1 DEF DialRefused, Disconnected, TypeOK, OfferedInv, CountInv, RunInv, RadioInv
    <3>. QED
      BY <3>2, <3>3, <3>4, <3>5, <3>6 DEF LinkInv
  <2>9. CASE AbandonDial
    BY <2>0, <2>9 DEF AbandonDial, LinkInv, TypeOK, RunPoints, OfferedInv,
                      CountInv, RunInv, RadioInv
  <2>10. CASE Claim
    <3>1. ~claimed => /\ reply' \in [Calls -> Replies] /\ reply'[first] = "refused"
                      /\ \A d \in Calls \ {first} : reply'[d] = reply[d]
                      /\ first \in Calls
      BY <2>0, <2>10, AnswerEffect DEF Claim, RunInv
    <3>2. TypeOK'
      BY <2>0, <2>10, <3>1 DEF Claim, Disconnected, TypeOK, RunPoints, RadioPoints
    <3>3. OfferedInv'
      BY <2>0, <2>10, <3>1 DEF Claim, Disconnected, TypeOK, OfferedInv, CountInv, RunInv, RadioInv
    <3>4. CountInv'
      BY <2>0, <2>10, <3>1 DEF Claim, Disconnected, TypeOK, OfferedInv, CountInv, RunInv, RadioInv
    <3>5. RunInv'
      BY <2>0, <2>10, <3>1 DEF Claim, Disconnected, TypeOK, OfferedInv, CountInv, RunInv, RadioInv
    <3>6. RadioInv'
      BY <2>0, <2>10, <3>1 DEF Claim, Disconnected, TypeOK, OfferedInv, CountInv, RunInv, RadioInv
    <3>. QED
      BY <3>2, <3>3, <3>4, <3>5, <3>6 DEF LinkInv
  <2>11. CASE ConnectFails \/ Close
    BY <2>0, <2>11 DEF ConnectFails, Close, RadioEnds, LinkInv, TypeOK, RunPoints,
                      RadioPoints, OfferedInv, CountInv, RunInv, RadioInv
  <2>12. CASE Connect
    BY <2>0, <2>12 DEF Connect, LinkInv, TypeOK, RadioPoints, OfferedInv,
                      CountInv, RunInv, RadioInv
  <2>13. CASE Connected
    <3>1. /\ starts' \in [Calls -> 0..2] /\ starts'[work] = 1
          /\ \A d \in Calls \ {work} : starts'[d] = starts[d]
      BY <2>0, <2>13, BeginEffect DEF Connected, RadioInv
    <3>2. TypeOK'
      BY <2>0, <2>13, <3>1 DEF Connected, TypeOK, RunPoints, RadioPoints
    <3>3. OfferedInv'
      BY <2>0, <2>13, <3>1 DEF Connected, TypeOK, OfferedInv, CountInv, RunInv, RadioInv
    <3>4. CountInv'
      BY <2>0, <2>13, <3>1 DEF Connected, TypeOK, OfferedInv, CountInv, RunInv, RadioInv
    <3>5. RunInv'
      BY <2>0, <2>13, <3>1 DEF Connected, TypeOK, OfferedInv, CountInv, RunInv, RadioInv
    <3>6. RadioInv'
      BY <2>0, <2>13, <3>1 DEF Connected, TypeOK, OfferedInv, CountInv, RunInv, RadioInv
    <3>. QED
      BY <3>2, <3>3, <3>4, <3>5, <3>6 DEF LinkInv
  <2>14. CASE WorkEnds
    <3>1. /\ reply' \in [Calls -> Replies] /\ reply'[work] = "ran"
          /\ \A d \in Calls \ {work} : reply'[d] = reply[d]
          /\ work \in Calls
      BY <2>0, <2>14, AnswerEffect DEF WorkEnds, RadioInv
    <3>2. TypeOK'
      BY <2>0, <2>14, <3>1 DEF WorkEnds, TypeOK, RunPoints, RadioPoints
    <3>3. OfferedInv'
      BY <2>0, <2>14, <3>1 DEF WorkEnds, TypeOK, OfferedInv, CountInv, RunInv, RadioInv
    <3>4. CountInv'
      BY <2>0, <2>14, <3>1 DEF WorkEnds, TypeOK, OfferedInv, CountInv, RunInv, RadioInv
    <3>5. RunInv'
      BY <2>0, <2>14, <3>1 DEF WorkEnds, TypeOK, OfferedInv, CountInv, RunInv, RadioInv
    <3>6. RadioInv'
      BY <2>0, <2>14, <3>1 DEF WorkEnds, TypeOK, OfferedInv, CountInv, RunInv, RadioInv
    <3>. QED
      BY <3>2, <3>3, <3>4, <3>5, <3>6 DEF LinkInv
  <2>p. CASE WorkPanics
    <3>1. /\ work \in Calls /\ lost' = lost \cup {work}
          /\ starts[work] = 1 /\ reply[work] = "none"
      BY <2>0, <2>p DEF WorkPanics, RadioInv
    <3>2. TypeOK'
      BY <2>0, <2>p, <3>1 DEF WorkPanics, TypeOK, RadioPoints
    <3>3. OfferedInv' /\ CountInv'
      BY <2>0, <2>p, <3>1 DEF WorkPanics, TypeOK, OfferedInv, CountInv, RunInv, RadioInv
    <3>4. RunInv' /\ RadioInv'
      BY <2>0, <2>p, <3>1 DEF WorkPanics, TypeOK, OfferedInv, CountInv, RunInv, RadioInv
    <3>. QED
      BY <3>2, <3>3, <3>4 DEF LinkInv
  <2>15. CASE ServeEnds \/ ServeDrop
    <3>1. /\ radio = "serving" /\ radio' = "closing"
          /\ UNCHANGED <<callerVars, runVars, work, claimed, operating, stateVars, running, starts, lost>>
      BY <2>15 DEF ServeEnds, ServeDrop
    <3>2. drop' \in BOOLEAN
      BY <2>0, <2>15, Zenon DEF ServeEnds, ServeDrop, TypeOK
    <3>3. TypeOK'
      BY <2>0, <3>1, <3>2 DEF TypeOK, RadioPoints
    <3>4. OfferedInv' /\ CountInv' /\ RunInv' /\ RadioInv'
      BY <2>0, <3>1 DEF OfferedInv, CountInv, RunInv, RadioInv
    <3>. QED
      BY <3>3, <3>4 DEF LinkInv
  <2>16. ASSUME NEW c \in Calls, ServeAccept(c) PROVE LinkInv'
    <3>1. /\ caller' \in [Calls -> CallerPoints]
          /\ caller[c] = "offering" /\ caller'[c] = "waiting"
          /\ \A d \in Calls \ {c} : caller'[d] = caller[d]
          /\ c \notin Exclusives => /\ starts' \in [Calls -> 0..2] /\ starts'[c] = 1
                                    /\ \A d \in Calls \ {c} : starts'[d] = starts[d]
      BY <2>0, <2>16, AcceptEffect, BeginEffect DEF ServeAccept, OfferedInv
    <3>2. TypeOK'
      <4>1. CASE c \in Exclusives
        BY <2>0, <2>16, <3>1, <4>1 DEF ServeAccept, TypeOK, RadioPoints
      <4>2. CASE c \notin Exclusives
        BY <2>0, <2>16, <3>1, <4>2 DEF ServeAccept, TypeOK, RadioPoints
      <4>. QED
        BY <4>1, <4>2
    <3>3. OfferedInv'
      BY <2>0, <2>16, <3>1 DEF ServeAccept, TypeOK, OfferedInv, CountInv, RunInv, RadioInv
    <3>4. CountInv'
      BY <2>0, <2>16, <3>1 DEF ServeAccept, TypeOK, OfferedInv, CountInv, RunInv, RadioInv
    <3>5. RunInv'
      BY <2>0, <2>16, <3>1 DEF ServeAccept, TypeOK, OfferedInv, CountInv, RunInv, RadioInv
    <3>6. RadioInv'
      BY <2>0, <2>16, <3>1 DEF ServeAccept, TypeOK, OfferedInv, CountInv, RunInv, RadioInv
    <3>. QED
      BY <3>2, <3>3, <3>4, <3>5, <3>6 DEF LinkInv
  <2>17. CASE Operate \/ OperationEnds
    <3>1. UNCHANGED <<callerVars, runVars, radio, work, claimed, stateVars, drop,
                     running, starts, lost>>
      BY <2>17 DEF Operate, OperationEnds
    <3>2. operating' \in BOOLEAN /\ (operating' => radio = "idle")
      BY <2>17, Zenon DEF Operate, OperationEnds, RadioFree
    <3>3. TypeOK'
      BY <2>0, <3>1, <3>2 DEF TypeOK
    <3>4. OfferedInv' /\ CountInv' /\ RunInv' /\ RadioInv'
      BY <2>0, <3>1, <3>2 DEF OfferedInv, CountInv, RunInv, RadioInv
    <3>. QED
      BY <3>3, <3>4 DEF LinkInv
  <2>. QED
    BY <2>1, <2>2, <2>3, <2>4, <2>5, <2>6, <2>7, <2>8, <2>9, <2>10, <2>11, <2>12, <2>13, <2>14, <2>p,
       <2>15, <2>16, <2>17 DEF Next, Run, Radio
<1>. QED
  BY <1>1, <1>2, PTL DEF Spec

-----------------------------------------------------------------------------
\* Every reachable state has the types of the session's fields.
THEOREM TypeCorrect == Spec => []TypeOK
<1>1. LinkInv => TypeOK
  BY DEF LinkInv
<1>. QED
  BY <1>1, LinkInvKept, PTL

\* No work is begun twice, no call is answered twice, and a call that was refused
\* has not run, however late its dial connects.
THEOREM WorkRunsOnce == Spec => []RunsOnce
<1>1. LinkInv => RunsOnce
  BY DEF LinkInv, CountInv, RunsOnce
<1>. QED
  BY <1>1, LinkInvKept, PTL

\* Exclusive work has no session beside it until the daemon stops, and an
\* operation that it leaves at its deadline never has one.
THEOREM ExclusiveIsAlone == Spec => []ExclusiveAlone
<1>1. LinkInv => ExclusiveAlone
  BY DEF LinkInv, RadioInv, ExclusiveAlone
<1>. QED
  BY <1>1, LinkInvKept, PTL

\* What State reports: no connection without a session, and busy with all work.
THEOREM StateIsHonest == Spec => []StateHonest
<1>1. Init => StateHonest
  BY DEF Init, StateHonest
<1>2. LinkInv /\ StateHonest /\ [Next]_vars => StateHonest'
  <2> SUFFICES ASSUME LinkInv, StateHonest, [Next]_vars PROVE StateHonest'
    OBVIOUS
  <2> USE DEF callerVars, runVars, radioVars, stateVars, StateHonest
  <2>0. (running /\ radio # "idle") => run = "dialing"
    BY DEF LinkInv, RadioInv
  <2>1. ASSUME NEW c \in Calls, Offer(c) \/ Leave(c) \/ TakeReply(c)
        PROVE  StateHonest'
    BY <2>1 DEF Offer, Leave, TakeReply
  <2>2. CASE Disconnect \/ Shutdown \/ ServeEnds \/ Operate \/ OperationEnds
             \/ UNCHANGED vars
    BY <2>2 DEF Disconnect, Shutdown, ServeEnds, Operate, OperationEnds, vars
  <2>3. CASE RunNext \/ RunStop \/ RunDrop
    BY <2>0, <2>3 DEF RunNext, RunStop, RunDrop
  <2>4. ASSUME NEW c \in Calls, RunAccept(c) PROVE StateHonest'
    BY <2>0, <2>4 DEF RunAccept
  <2>5. CASE ExclusiveEnds \/ Dial \/ DialRefused
    BY <2>0, <2>5 DEF ExclusiveEnds, Dial, DialRefused, Disconnected
  <2>6. CASE AbandonDial \/ Claim
    BY <2>0, <2>6 DEF AbandonDial, Claim, Disconnected
  <2>7. CASE ConnectFails \/ Close
    BY <2>0, <2>7 DEF ConnectFails, Close, RadioEnds
  <2>8. CASE Connect \/ Connected \/ WorkEnds \/ WorkPanics \/ ServeDrop
    BY <2>0, <2>8 DEF Connect, Connected, WorkEnds, WorkPanics, ServeDrop
  <2>9. ASSUME NEW c \in Calls, ServeAccept(c) PROVE StateHonest'
    BY <2>0, <2>9 DEF ServeAccept
  <2>. QED
    BY <2>1, <2>2, <2>3, <2>4, <2>5, <2>6, <2>7, <2>8, <2>9 DEF Next, Run, Radio
<1>. QED
  BY <1>1, <1>2, LinkInvKept, PTL DEF Spec

-----------------------------------------------------------------------------
\* The serial executor has nothing under way unless Run or the radio has.
LEMMA QuietEffect ==
    ASSUME LinkInv, run # "exclusive", radio # "working"
    PROVE  \A c \in Calls : Stage(c) # "running"
<1> SUFFICES ASSUME NEW c \in Calls, reply[c] \notin {"ran", "refused"}, starts[c] # 0,
                    c \notin lost
             PROVE  FALSE
  BY DEF Stage
<1>1. reply[c] = "none" /\ starts[c] = 1
  BY DEF LinkInv, TypeOK, CountInv, Replies
<1>. QED
  BY <1>1 DEF LinkInv, CountInv

\* Two goroutines, their channels and the late dials together behave as one
\* executor that runs each call at most once, and until shutdown one at a time.
THEOREM SerialImplemented == Spec => ImplementsSerial
<1> USE CallsAssumption
    DEF callerVars, runVars, radioVars, stateVars, Serial!serialVars, Stage
<1>1. Init => Serial!Init
  BY DEF Init, Serial!Init
<1>2. LinkInv /\ [Next]_vars => [Serial!Next]_(Serial!serialVars)
  <2> SUFFICES ASSUME LinkInv, [Next]_vars
               PROVE  Serial!Next \/ UNCHANGED Serial!serialVars
    OBVIOUS
  <2>0. TypeOK /\ OfferedInv /\ CountInv /\ RunInv /\ RadioInv
    BY DEF LinkInv
  <2>q. (run # "exclusive" /\ radio # "working") => Serial!Quiet
    BY QuietEffect DEF Serial!Quiet
  <2>b. ASSUME NEW c \in Calls, Fresh(c), Begin(c), UNCHANGED <<reply, operating, running, lost>>,
               (radio' # "idle") = (radio # "idle"),
               running => (run # "exclusive" /\ radio # "working"),
               IF c \in Exclusives THEN running => radio = "idle" ELSE radio # "idle"
        PROVE  Serial!Next
    <3>1. /\ starts' \in [Calls -> 0..2] /\ starts'[c] = 1
          /\ \A d \in Calls \ {c} : starts'[d] = starts[d]
      BY <2>0, <2>b, BeginEffect DEF Fresh
    <3>w. c \notin lost
      BY <2>0, <2>b DEF CountInv, Fresh
    <3>2. \A d \in Calls : Stage(d)' = IF d = c THEN "running" ELSE Stage(d)
      BY <2>b, <3>1, <3>w DEF Fresh
    <3>3. Stage(c) = "waiting"
      BY <2>b, <3>w DEF Fresh
    <3>4. Serial!Begin(c)
      BY <2>q, <2>b, <3>2, <3>3 DEF Serial!Begin
    <3>. QED
      BY <3>4 DEF Serial!Next
  <2>e. ASSUME NEW c \in Calls, starts[c] = 1, reply[c] = "none", c \notin lost, Answer(c, "ran"),
               UNCHANGED <<starts, operating, running, lost>>,
               (radio' # "idle") = (radio # "idle")
        PROVE  Serial!Next
    <3>1. /\ reply' \in [Calls -> Replies] /\ reply'[c] = "ran"
          /\ \A d \in Calls \ {c} : reply'[d] = reply[d]
      BY <2>0, <2>e, AnswerEffect
    <3>2. \A d \in Calls : Stage(d)' = IF d = c THEN "ran" ELSE Stage(d)
      BY <2>e, <3>1
    <3>3. Stage(c) = "running"
      BY <2>e
    <3>4. Serial!End(c)
      BY <2>e, <3>2, <3>3 DEF Serial!End
    <3>. QED
      BY <3>4 DEF Serial!Next
  <2>r. ASSUME NEW c \in Calls \ Exclusives, Fresh(c), Answer(c, "refused"),
               UNCHANGED <<starts, operating, running, lost>>,
               (radio' # "idle") = (radio # "idle")
        PROVE  Serial!Next
    <3>1. /\ reply' \in [Calls -> Replies] /\ reply'[c] = "refused"
          /\ \A d \in Calls \ {c} : reply'[d] = reply[d]
      BY <2>0, <2>r, AnswerEffect DEF Fresh
    <3>2. \A d \in Calls : Stage(d)' = IF d = c THEN "refused" ELSE Stage(d)
      BY <2>r, <3>1 DEF Fresh
    <3>3. Stage(c) = "waiting"
      BY <2>0, <2>r DEF CountInv, Fresh
    <3>4. Serial!Refuse(c)
      BY <2>r, <3>2, <3>3 DEF Serial!Refuse
    <3>. QED
      BY <3>4 DEF Serial!Next
  <2>1. ASSUME NEW c \in Calls, Offer(c) \/ Leave(c) \/ TakeReply(c)
        PROVE  UNCHANGED Serial!serialVars
    BY <2>1 DEF Offer, Leave, TakeReply
  <2>2. CASE Disconnect \/ RunStop \/ RunDrop \/ AbandonDial \/ UNCHANGED vars
    BY <2>2 DEF Disconnect, RunStop, RunDrop, AbandonDial, vars
  <2>3. CASE Connect \/ ServeEnds \/ ServeDrop
    BY <2>3 DEF Connect, ServeEnds, ServeDrop
  <2>4. CASE Shutdown
    BY <2>4 DEF Shutdown, Serial!Next, Serial!Stop
  <2>5. CASE RunNext
    <3>1. CASE next = NoCall
      BY <2>5, <3>1 DEF RunNext
    <3>2. CASE next # NoCall
      BY <2>0, <2>5, <2>b, <3>2 DEF RunNext, RunInv, RadioInv, TypeOK
    <3>. QED
      BY <3>1, <3>2
  <2>6. ASSUME NEW c \in Calls, RunAccept(c)
        PROVE  Serial!Next \/ UNCHANGED Serial!serialVars
    <3>1. CASE c \in Exclusives
      BY <2>0, <2>6, <2>b, <3>1 DEF RunAccept, Accept, OfferedInv, RadioInv
    <3>2. CASE c \notin Exclusives
      BY <2>6, <3>2 DEF RunAccept
    <3>. QED
      BY <3>1, <3>2
  <2>7. CASE ExclusiveEnds
    BY <2>0, <2>7, <2>e DEF ExclusiveEnds, RunInv
  <2>8. CASE Dial
    BY <2>q, <2>8 DEF Dial, RadioFree, Serial!Next, Serial!Open
  <2>9. CASE DialRefused
    BY <2>0, <2>9, <2>r DEF DialRefused, RunInv
  <2>10. CASE Claim
    BY <2>0, <2>10, <2>r DEF Claim, RunInv
  <2>11. CASE ConnectFails \/ Close
    <3>1. running => Serial!Quiet
      BY <2>0, <2>q, <2>11 DEF ConnectFails, Close, RadioInv
    <3>. QED
      BY <2>11, <3>1 DEF ConnectFails, Close, RadioEnds, Serial!Next, Serial!Close
  <2>12. CASE Connected
    BY <2>0, <2>12, <2>b DEF Connected, RadioInv
  <2>13. CASE WorkEnds
    BY <2>0, <2>13, <2>e DEF WorkEnds, RadioInv
  <2>p. CASE WorkPanics
    <3>1. PICK c \in Calls : /\ c = work /\ c \notin lost
                             /\ starts[c] = 1 /\ reply[c] = "none"
      BY <2>0, <2>p DEF WorkPanics, RadioInv
    <3>2. /\ Stage(c) = "running"
          /\ \A d \in Calls : Stage(d)' = IF d = c THEN "ran" ELSE Stage(d)
      BY <2>p, <3>1 DEF WorkPanics
    <3>3. Serial!End(c)
      BY <2>p, <3>2 DEF WorkPanics, Serial!End
    <3>. QED
      BY <3>3 DEF Serial!Next
  <2>14. ASSUME NEW c \in Calls, ServeAccept(c)
         PROVE  Serial!Next \/ UNCHANGED Serial!serialVars
    <3>1. CASE c \in Exclusives
      BY <2>14, <3>1 DEF ServeAccept
    <3>2. CASE c \notin Exclusives
      <4>1. Fresh(c) /\ (running => run = "dialing")
        BY <2>0, <2>14 DEF ServeAccept, Accept, OfferedInv, RadioInv
      <4>2. /\ Begin(c) /\ UNCHANGED <<reply, operating, running, lost>>
            /\ radio = "serving" /\ radio' = "working"
        BY <2>14, <3>2 DEF ServeAccept
      <4>. QED
        BY <2>b, <3>2, <4>1, <4>2
    <3>. QED
      BY <3>1, <3>2
  <2>15. CASE Operate
    <3>1. first \in Exclusives /\ Stage(first) = "running"
      BY <2>0, <2>15 DEF Operate, RunInv
    <3>2. Serial!Operate
      BY <2>15, <3>1 DEF Operate, RadioFree, Serial!Operate
    <3>. QED
      BY <3>2 DEF Serial!Next
  <2>16. CASE OperationEnds
    BY <2>16 DEF OperationEnds, Serial!Next, Serial!OperationEnds
  <2>. QED
    BY <2>1, <2>2, <2>3, <2>4, <2>5, <2>6, <2>7, <2>8, <2>9, <2>10, <2>11, <2>12,
       <2>13, <2>14, <2>p, <2>15, <2>16 DEF Next, Run, Radio
<1>. QED
  BY <1>1, <1>2, LinkInvKept, PTL DEF Spec, ImplementsSerial, Serial!Spec
=============================================================================
