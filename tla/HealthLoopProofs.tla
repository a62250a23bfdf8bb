-------------------------- MODULE HealthLoopProofs --------------------------
(***************************************************************************)
(* Proofs about HealthLoop, for batches, pools and channels of any size    *)
(* and any number of restarts.                                             *)
(***************************************************************************)
EXTENDS HealthLoop, TLAPS

\* The nodes of a stream's batch, wherever they are.
Accounted(s) == s.todo \cup s.probing \cup s.sending \cup s.buf \cup s.got

\* A stream that is not open is empty.  Unless it was cancelled it loses no node,
\* and it is drained once all are dispatched.  A closed one has no workers left.
StreamOK(s, cancelled) ==
  /\ s.pc = "none" => s = NoStream
  /\ ~cancelled => s.batch = Accounted(s)
  /\ ~cancelled /\ s.pc \in {"drain", "closed"} => s.todo = {}
  /\ s.pc = "closed" => s.probing \cup s.sending = {}

StreamsOK == \A c \in Callers : StreamOK(stream[c], Cancelled(c))

\* The flag is up while a stream is open, and at most one is.
OneStream ==
  /\ \A c \in Callers : stream[c] # NoStream => running
  /\ \A c, d \in Callers : stream[c] # NoStream /\ stream[d] # NoStream => c = d

\* A loop's stream is open only while the loop is at its check, and a Stop that
\* has returned has seen the loop end.
LoopOK(g) ==
  /\ stream[g] # NoStream => loop[g].pc = "check"
  /\ stopper[g] = "returned" => loop[g].pc = "ended"
LoopsOK == \A g \in Loops : LoopOK(g)

LoopInv == TypeOK /\ StreamsOK /\ OneStream /\ LoopsOK

-----------------------------------------------------------------------------

LEMMA NoStreamFacts ==
  /\ NoStream \in Stream
  /\ NoStream.pc = "none"
  /\ \A b : StreamOK(NoStream, b)
BY DEF NoStream, Stream, StreamOK, Accounted

\* A step inside an open stream that keeps the stream well formed.
LEMMA InsideStream ==
  ASSUME LoopInv, NEW c \in Callers, NEW new \in Stream, StreamStep(c, new),
         stream[c].pc # "none", new.pc # "none", StreamOK(new, Cancelled(c))
  PROVE  LoopInv'
<1>1. /\ stream' = [stream EXCEPT ![c] = new]
      /\ UNCHANGED <<current, loop, stopper, running>>
  BY DEF StreamStep
<1>2. stream \in [Callers -> Stream]
  BY DEF LoopInv, TypeOK
<1>3. stream[c] # NoStream
  BY NoStreamFacts
<1>4. \A d \in Callers : Cancelled(d)' = Cancelled(d)
  BY <1>1 DEF Cancelled
<1>5. TypeOK'
  BY <1>1, <1>2 DEF LoopInv, TypeOK
<1>6. StreamsOK'
  BY <1>1, <1>2, <1>4 DEF LoopInv, StreamsOK
<1>7. OneStream'
  BY <1>1, <1>2, <1>3 DEF LoopInv, OneStream
<1>8. LoopsOK'
  BY <1>1, <1>2, <1>3 DEF LoopInv, LoopsOK, LoopOK, Callers
<1> QED
  BY <1>5, <1>6, <1>7, <1>8 DEF LoopInv

\* Every step of a dispatcher, a worker or the reader is of that kind.
LEMMA WorkingStep ==
  ASSUME LoopInv, NEW c \in Callers,
         \/ \E n \in Nodes : Dispatch(c, n) \/ Probed(c, n) \/ Send(c, n) \/ GiveUp(c, n) \/ Receive(c, n)
         \/ EndDispatch(c) \/ Close(c)
  PROVE  LoopInv'
<1> DEFINE s == stream[c]
<1>1. s \in Stream /\ StreamOK(s, Cancelled(c))
  BY DEF LoopInv, TypeOK, StreamsOK
<1>2. ASSUME NEW n \in Nodes, Dispatch(c, n) PROVE LoopInv'
  <2> DEFINE new == [s EXCEPT !.todo = @ \ {n}, !.probing = @ \cup {n}]
  <2>1. s.pc = "dispatch" /\ n \in s.todo /\ StreamStep(c, new)
    BY <1>2 DEF Dispatch
  <2>2. new \in Stream /\ new.pc = "dispatch"
    BY <1>1, <2>1 DEF Stream
  <2>3. StreamOK(new, Cancelled(c))
    BY <1>1, <2>1 DEF StreamOK, Accounted, Stream
  <2> QED
    BY <2>1, <2>2, <2>3, InsideStream
<1>3. ASSUME NEW n \in Nodes, Probed(c, n) PROVE LoopInv'
  <2> DEFINE new == [s EXCEPT !.probing = @ \ {n}, !.sending = @ \cup {n}]
  <2>1. n \in s.probing /\ StreamStep(c, new)
    BY <1>3 DEF Probed
  <2>2. s.pc \notin {"none", "closed"}
    BY <1>1, <2>1 DEF StreamOK, NoStream
  <2>3. new \in Stream /\ new.pc = s.pc
    BY <1>1, <2>1 DEF Stream
  <2>4. StreamOK(new, Cancelled(c))
    BY <1>1, <2>1, <2>2 DEF StreamOK, Accounted, Stream
  <2> QED
    BY <2>1, <2>2, <2>3, <2>4, InsideStream
<1>4. ASSUME NEW n \in Nodes, Send(c, n) PROVE LoopInv'
  <2> DEFINE new == [s EXCEPT !.sending = @ \ {n}, !.buf = @ \cup {n}]
  <2>1. n \in s.sending /\ StreamStep(c, new)
    BY <1>4 DEF Send
  <2>2. s.pc \notin {"none", "closed"}
    BY <1>1, <2>1 DEF StreamOK, NoStream
  <2>3. new \in Stream /\ new.pc = s.pc
    BY <1>1, <2>1 DEF Stream
  <2>4. StreamOK(new, Cancelled(c))
    BY <1>1, <2>1, <2>2 DEF StreamOK, Accounted, Stream
  <2> QED
    BY <2>1, <2>2, <2>3, <2>4, InsideStream
<1>5. ASSUME NEW n \in Nodes, GiveUp(c, n) PROVE LoopInv'
  <2> DEFINE new == [s EXCEPT !.sending = @ \ {n}]
  <2>1. n \in s.sending /\ Cancelled(c) /\ StreamStep(c, new)
    BY <1>5 DEF GiveUp
  <2>2. s.pc \notin {"none", "closed"}
    BY <1>1, <2>1 DEF StreamOK, NoStream
  <2>3. new \in Stream /\ new.pc = s.pc
    BY <1>1, <2>1 DEF Stream
  <2>4. StreamOK(new, Cancelled(c))
    BY <1>1, <2>1, <2>2 DEF StreamOK, Stream
  <2> QED
    BY <2>1, <2>2, <2>3, <2>4, InsideStream
<1>6. ASSUME NEW n \in Nodes, Receive(c, n) PROVE LoopInv'
  <2> DEFINE new == [s EXCEPT !.buf = @ \ {n}, !.got = @ \cup {n}]
  <2>1. n \in s.buf /\ StreamStep(c, new)
    BY <1>6 DEF Receive
  <2>2. s.pc # "none"
    BY <1>1, <2>1 DEF StreamOK, NoStream
  <2>3. new \in Stream /\ new.pc = s.pc
    BY <1>1, <2>1 DEF Stream
  <2>4. StreamOK(new, Cancelled(c))
    BY <1>1, <2>1, <2>2 DEF StreamOK, Accounted, Stream
  <2> QED
    BY <2>1, <2>2, <2>3, <2>4, InsideStream
<1>7. ASSUME EndDispatch(c) PROVE LoopInv'
  <2> DEFINE new == [s EXCEPT !.pc = "drain"]
  <2>1. s.pc = "dispatch" /\ (s.todo = {} \/ Cancelled(c)) /\ StreamStep(c, new)
    BY <1>7 DEF EndDispatch
  <2>2. new \in Stream /\ new.pc = "drain"
    BY <1>1 DEF Stream
  <2>3. StreamOK(new, Cancelled(c))
    BY <1>1, <2>1 DEF StreamOK, Accounted, Stream
  <2> QED
    BY <2>1, <2>2, <2>3, InsideStream
<1>8. ASSUME Close(c) PROVE LoopInv'
  <2> DEFINE new == [s EXCEPT !.pc = "closed"]
  <2>1. s.pc = "drain" /\ s.probing \cup s.sending = {} /\ StreamStep(c, new)
    BY <1>8 DEF Close, Workers
  <2>2. new \in Stream /\ new.pc = "closed"
    BY <1>1 DEF Stream
  <2>3. StreamOK(new, Cancelled(c))
    BY <1>1, <2>1 DEF StreamOK, Accounted, Stream
  <2> QED
    BY <2>1, <2>2, <2>3, InsideStream
<1> QED
  BY <1>2, <1>3, <1>4, <1>5, <1>6, <1>7, <1>8

\* A check that begins finds no other, and one that ends leaves none.
LEMMA OpensKeeps ==
  ASSUME LoopInv, NEW c \in Callers, NEW batch \in Batches, ~running, Opens(c, batch),
         UNCHANGED <<current, stopper>>,
         \/ c = Hand /\ UNCHANGED loop
         \/ c \in Loops /\ loop[c].pc = "select"
            /\ loop' = [loop EXCEPT ![c].timer = FALSE, ![c].pc = "check"]
  PROVE  LoopInv'
<1> DEFINE new == [NoStream EXCEPT !.pc = "dispatch", !.batch = batch, !.todo = batch]
<1>1. running' = TRUE /\ stream' = [stream EXCEPT ![c] = new]
  BY DEF Opens
<1>2. stream \in [Callers -> Stream] /\ loop \in [Loops -> LoopState]
  BY DEF LoopInv, TypeOK
<1>3. \A d \in Callers : stream[d] = NoStream
  BY DEF LoopInv, OneStream
<1>4. batch \subseteq Nodes
  <2>1. PICK k \in 0..MaxBatch : batch = 1..k
    BY DEF Batches
  <2> QED
    BY <2>1, LoopAssumption DEF Nodes
<1>5. new \in Stream /\ \A b : StreamOK(new, b)
  BY <1>4 DEF Stream, StreamOK, Accounted, NoStream
<1>6. loop' \in [Loops -> LoopState] /\ \A g \in Loops : loop'[g].cancelled = loop[g].cancelled
  BY <1>2 DEF LoopState
<1>7. TypeOK'
  BY <1>1, <1>2, <1>5, <1>6 DEF LoopInv, TypeOK
<1>8. StreamsOK'
  <2> SUFFICES ASSUME NEW d \in Callers PROVE StreamOK(stream'[d], Cancelled(d)')
    BY DEF StreamsOK
  <2>1. CASE d = c
    BY <2>1, <1>1, <1>2, <1>5
  <2>2. CASE d # c
    BY <2>2, <1>1, <1>2, <1>3, NoStreamFacts
  <2> QED
    BY <2>1, <2>2
<1>9. OneStream'
  BY <1>1, <1>2, <1>3 DEF OneStream
<1>10. LoopsOK'
  <2> SUFFICES ASSUME NEW g \in Loops PROVE LoopOK(g)'
    BY DEF LoopsOK
  <2>1. g \in Callers /\ LoopOK(g) /\ Hand \notin Loops
    BY LoopAssumption DEF LoopInv, LoopsOK, Callers
  <2>2. CASE g = c
    BY <2>1, <2>2, <1>1, <1>2 DEF LoopOK, LoopState
  <2>3. CASE g # c
    <3>1. stream'[g] = NoStream /\ loop'[g] = loop[g]
      BY <2>1, <2>3, <1>1, <1>2, <1>3
    <3> QED
      BY <3>1, <2>1 DEF LoopOK
  <2> QED
    BY <2>2, <2>3
<1> QED
  BY <1>7, <1>8, <1>9, <1>10 DEF LoopInv

LEMMA EndCheckKeeps ==
  ASSUME LoopInv, NEW c \in Callers, EndCheck(c)
  PROVE  LoopInv'
<1>1. /\ stream[c].pc = "closed"
      /\ stream' = [stream EXCEPT ![c] = NoStream]
      /\ running' = FALSE
      /\ loop' = IF c = Hand THEN loop ELSE [loop EXCEPT ![c].pc = "select"]
      /\ UNCHANGED <<current, stopper>>
  BY DEF EndCheck
<1>2. stream \in [Callers -> Stream] /\ loop \in [Loops -> LoopState]
  BY DEF LoopInv, TypeOK
<1>3. stream[c] # NoStream
  BY <1>1, NoStreamFacts
<1>4. \A d \in Callers : stream'[d] = NoStream
  BY <1>1, <1>2, <1>3 DEF LoopInv, OneStream
<1>5. loop' \in [Loops -> LoopState]
  BY <1>1, <1>2 DEF LoopState, Callers
<1>6. TypeOK'
  BY <1>1, <1>2, <1>5, NoStreamFacts DEF LoopInv, TypeOK
<1>7. StreamsOK' /\ OneStream'
  BY <1>4, NoStreamFacts DEF StreamsOK, OneStream
<1>8. LoopsOK'
  <2> SUFFICES ASSUME NEW g \in Loops PROVE LoopOK(g)'
    BY DEF LoopsOK
  <2>1. g \in Callers /\ LoopOK(g) /\ Hand \notin Loops
    BY LoopAssumption DEF LoopInv, LoopsOK, Callers
  <2>2. CASE g = c
    BY <2>1, <2>2, <1>1, <1>3, <1>4 DEF LoopOK
  <2>3. CASE g # c
    <3>1. loop'[g] = loop[g]
      BY <2>3, <1>1, <1>2
    <3> QED
      BY <3>1, <2>1, <1>1, <1>4 DEF LoopOK
  <2> QED
    BY <2>2, <2>3
<1> QED
  BY <1>6, <1>7, <1>8 DEF LoopInv

\* A step of a loop, its timer or its stopper, outside a check.
LEMMA OutsideChecks ==
  ASSUME LoopInv, NEW g \in Loops, NEW here \in LoopState, NEW there,
         there \in {"none", "cancel", "close", "wait", "returned"},
         loop' = [loop EXCEPT ![g] = here],
         stopper' = [stopper EXCEPT ![g] = there],
         current' \in 0..MaxStarts, UNCHANGED <<running, stream>>,
         loop[g].cancelled => here.cancelled,
         loop[g].pc = "check" => here.pc = "check",
         there = "returned" => here.pc = "ended"
  PROVE  LoopInv'
<1>1. /\ loop \in [Loops -> LoopState]
      /\ stopper \in [Loops -> {"none", "cancel", "close", "wait", "returned"}]
      /\ stream \in [Callers -> Stream]
  BY DEF LoopInv, TypeOK
<1>2. TypeOK'
  BY <1>1 DEF LoopInv, TypeOK
<1>3. StreamsOK'
  <2> SUFFICES ASSUME NEW d \in Callers PROVE StreamOK(stream[d], Cancelled(d)')
    BY DEF StreamsOK
  <2>1. Cancelled(d) => Cancelled(d)'
    BY <1>1 DEF Cancelled
  <2>2. StreamOK(stream[d], Cancelled(d))
    BY DEF LoopInv, StreamsOK
  <2> QED
    BY <2>1, <2>2 DEF StreamOK
<1>4. OneStream'
  BY DEF LoopInv, OneStream
<1>5. LoopsOK'
  <2> SUFFICES ASSUME NEW h \in Loops PROVE LoopOK(h)'
    BY DEF LoopsOK
  <2>1. LoopOK(h)
    BY DEF LoopInv, LoopsOK
  <2>2. CASE h = g
    BY <1>1, <2>1, <2>2 DEF LoopOK
  <2>3. CASE h # g
    BY <1>1, <2>1, <2>3 DEF LoopOK
  <2> QED
    BY <2>2, <2>3
<1> QED
  BY <1>2, <1>3, <1>4, <1>5 DEF LoopInv

\* Every step keeps LoopInv.
LEMMA LoopStep ==
  ASSUME LoopInv, [Next]_vars
  PROVE  LoopInv'
<1> USE DEF Stopping
<1>1. /\ loop \in [Loops -> LoopState]
      /\ stopper \in [Loops -> {"none", "cancel", "close", "wait", "returned"}]
      /\ current \in 0..MaxStarts
  BY DEF LoopInv, TypeOK
<1>2. \A g \in Loops :
        /\ loop = [loop EXCEPT ![g] = loop[g]]
        /\ stopper = [stopper EXCEPT ![g] = stopper[g]]
        /\ stopper[g] \in {"none", "cancel", "close", "wait", "returned"}
  BY <1>1
<1>3. \A g \in Loops : stopper[g] = "returned" => loop[g].pc = "ended"
  BY DEF LoopInv, LoopsOK, LoopOK
<1>4. ASSUME NEW c \in Callers, Working(c) PROVE LoopInv'
  BY <1>4, WorkingStep, EndCheckKeeps DEF Working
<1>5. ASSUME NEW g \in Loops, TimerFires(g) PROVE LoopInv'
  <2> DEFINE here == [loop[g] EXCEPT !.timer = TRUE]
  <2>1. here \in LoopState /\ here.pc = loop[g].pc /\ here.cancelled = loop[g].cancelled
    BY <1>1 DEF LoopState
  <2>2. /\ loop' = [loop EXCEPT ![g] = here]
        /\ UNCHANGED <<current, stopper, running, stream>>
    BY <1>1, <1>5 DEF TimerFires
  <2> HIDE DEF here
  <2> QED
    BY <1>1, <1>2, <1>3, <2>1, <2>2, OutsideChecks
<1>6. ASSUME NEW g \in Loops, NEW batch \in Batches, TakeTimer(g, batch) PROVE LoopInv'
  <2>1. CASE running \/ batch = {}
    <3> DEFINE here == [loop[g] EXCEPT !.timer = FALSE]
    <3>1. here \in LoopState /\ here.pc = loop[g].pc /\ here.cancelled = loop[g].cancelled
      BY <1>1 DEF LoopState
    <3>2. /\ loop' = [loop EXCEPT ![g] = here]
          /\ UNCHANGED <<current, stopper, running, stream>>
      BY <1>1, <1>6, <2>1 DEF TakeTimer
    <3> HIDE DEF here
    <3> QED
      BY <1>1, <1>2, <1>3, <3>1, <3>2, OutsideChecks
  <2>2. CASE ~(running \/ batch = {})
    BY <1>6, <2>2, OpensKeeps DEF TakeTimer, Callers
  <2> QED
    BY <2>1, <2>2
<1>7. ASSUME NEW g \in Loops, TakeWake(g) PROVE LoopInv'
  <2> DEFINE here == [loop[g] EXCEPT !.timer = FALSE, !.wake = FALSE]
  <2>1. here \in LoopState /\ here.pc = loop[g].pc /\ here.cancelled = loop[g].cancelled
    BY <1>1 DEF LoopState
  <2>2. /\ loop' = [loop EXCEPT ![g] = here]
        /\ UNCHANGED <<current, stopper, running, stream>>
    BY <1>1, <1>7 DEF TakeWake
  <2> HIDE DEF here
  <2> QED
    BY <1>1, <1>2, <1>3, <2>1, <2>2, OutsideChecks
<1>8. ASSUME NEW g \in Loops, TakeStop(g) PROVE LoopInv'
  <2> DEFINE here == [loop[g] EXCEPT !.timer = FALSE, !.pc = "ended"]
  <2>1. here \in LoopState /\ here.pc = "ended" /\ here.cancelled = loop[g].cancelled
    BY <1>1 DEF LoopState
  <2>2. /\ loop[g].pc = "select"
        /\ loop' = [loop EXCEPT ![g] = here]
        /\ UNCHANGED <<current, stopper, running, stream>>
    BY <1>1, <1>8 DEF TakeStop
  <2> HIDE DEF here
  <2> QED
    BY <1>1, <1>2, <2>1, <2>2, OutsideChecks
<1>9. ASSUME NEW g \in Loops, StopCancels(g) PROVE LoopInv'
  <2> DEFINE here == [loop[g] EXCEPT !.cancelled = TRUE]
  <2>1. here \in LoopState /\ here.pc = loop[g].pc /\ here.cancelled
    BY <1>1 DEF LoopState
  <2>2. /\ loop' = [loop EXCEPT ![g] = here]
        /\ stopper' = [stopper EXCEPT ![g] = "close"]
        /\ UNCHANGED <<current, running, stream>>
    BY <1>1, <1>9 DEF StopCancels
  <2> HIDE DEF here
  <2> QED
    BY <1>1, <2>1, <2>2, OutsideChecks
<1>10. ASSUME NEW g \in Loops, StopCloses(g) PROVE LoopInv'
  <2> DEFINE here == [loop[g] EXCEPT !.stop = TRUE]
  <2>1. here \in LoopState /\ here.pc = loop[g].pc /\ here.cancelled = loop[g].cancelled
    BY <1>1 DEF LoopState
  <2>2. /\ loop' = [loop EXCEPT ![g] = here]
        /\ stopper' = [stopper EXCEPT ![g] = "wait"]
        /\ UNCHANGED <<current, running, stream>>
    BY <1>1, <1>10 DEF StopCloses
  <2> HIDE DEF here
  <2> QED
    BY <1>1, <2>1, <2>2, OutsideChecks
<1>11. ASSUME NEW g \in Loops, StopDone(g) PROVE LoopInv'
  <2>1. /\ loop[g].pc = "ended"
        /\ stopper' = [stopper EXCEPT ![g] = "returned"]
        /\ UNCHANGED <<current, loop, running, stream>>
    BY <1>11 DEF StopDone
  <2>2. loop' = [loop EXCEPT ![g] = loop[g]] /\ loop[g] \in LoopState
    BY <1>1, <1>2, <2>1
  <2> QED
    BY <1>1, <2>1, <2>2, OutsideChecks
<1>12. ASSUME NEW batch \in Batches, RunOnce(batch) PROVE LoopInv'
  BY <1>12, OpensKeeps DEF RunOnce, Callers
<1>13. ASSUME StartBackground PROVE LoopInv'
  <2>1. PICK g \in Loops : /\ loop[g].pc = "none"
                           /\ current' = g
                           /\ loop' = [loop EXCEPT ![g].pc = "select"]
    BY <1>13 DEF StartBackground
  <2> DEFINE here == [loop[g] EXCEPT !.pc = "select"]
  <2>2. here \in LoopState /\ here.pc = "select" /\ here.cancelled = loop[g].cancelled
    BY <1>1 DEF LoopState
  <2>3. /\ loop' = [loop EXCEPT ![g] = here]
        /\ UNCHANGED <<stopper, running, stream>>
    BY <1>1, <1>13, <2>1 DEF StartBackground
  <2>4. stopper[g] # "returned"
    BY <1>3, <2>1
  <2>5. current' \in 0..MaxStarts
    BY <2>1, LoopAssumption DEF Loops
  <2>6. loop[g].pc # "check"
    BY <2>1
  <2> HIDE DEF here
  <2> QED
    BY <1>2, <2>2, <2>3, <2>4, <2>5, <2>6, OutsideChecks
<1>14. ASSUME StopBackground PROVE LoopInv'
  <2>1. PICK g \in Loops : g = current
    BY <1>1, <1>14, LoopAssumption DEF StopBackground, Loops
  <2>2. /\ stopper' = [stopper EXCEPT ![g] = "cancel"]
        /\ current' = 0
        /\ UNCHANGED <<loop, running, stream>>
    BY <1>14, <2>1 DEF StopBackground
  <2>3. current' \in 0..MaxStarts
    BY <2>2, LoopAssumption
  <2>4. loop' = [loop EXCEPT ![g] = loop[g]] /\ loop[g] \in LoopState
    BY <1>1, <1>2, <2>2
  <2> QED
    BY <2>1, <2>2, <2>3, <2>4, OutsideChecks
<1>15. ASSUME UpdateConfig PROVE LoopInv'
  <2>1. PICK g \in Loops : g = current
    BY <1>1, <1>15, LoopAssumption DEF UpdateConfig, Loops
  <2> DEFINE here == [loop[g] EXCEPT !.wake = TRUE]
  <2>2. here \in LoopState /\ here.pc = loop[g].pc /\ here.cancelled = loop[g].cancelled
    BY <1>1 DEF LoopState
  <2>3. /\ loop' = [loop EXCEPT ![g] = here]
        /\ UNCHANGED <<current, stopper, running, stream>>
    BY <1>1, <1>15, <2>1 DEF UpdateConfig
  <2> HIDE DEF here
  <2> QED
    BY <1>1, <1>2, <1>3, <2>1, <2>2, <2>3, OutsideChecks
<1>16. ASSUME UNCHANGED vars PROVE LoopInv'
  BY <1>16 DEF vars, LoopInv, TypeOK, StreamsOK, OneStream, LoopsOK, LoopOK, Cancelled
<1> QED
  BY <1>4, <1>5, <1>6, <1>7, <1>8, <1>9, <1>10, <1>11, <1>12, <1>13, <1>14, <1>15, <1>16 DEF Next

LEMMA LoopStart == Init => LoopInv
<1> SUFFICES ASSUME Init PROVE LoopInv
  OBVIOUS
<1>1. TypeOK
  <2>1. loop \in [Loops -> LoopState]
    BY DEF Init, LoopState
  <2>2. stream \in [Callers -> Stream]
    BY NoStreamFacts DEF Init
  <2>3. current \in 0..MaxStarts
    BY LoopAssumption DEF Init
  <2>4. stopper \in [Loops -> {"none", "cancel", "close", "wait", "returned"}] /\ running \in BOOLEAN
    BY DEF Init
  <2> QED
    BY <2>1, <2>2, <2>3, <2>4 DEF TypeOK
<1>2. \A c \in Callers : stream[c] = NoStream
  BY DEF Init
<1>3. StreamsOK /\ OneStream
  BY <1>2, NoStreamFacts DEF StreamsOK, OneStream
<1>4. LoopsOK
  BY <1>2 DEF Init, LoopsOK, LoopOK, Callers
<1> QED
  BY <1>1, <1>3, <1>4 DEF LoopInv

-----------------------------------------------------------------------------
(* Theorems.                                                               *)

\* LoopInv is an invariant of the background health check.
THEOREM LoopInvariant == Spec => []LoopInv
<1>1. Init => LoopInv
  BY LoopStart
<1>2. LoopInv /\ [Next]_vars => LoopInv'
  BY LoopStep
<1> QED
  BY <1>1, <1>2, PTL DEF Spec

\* The variables of the loop, its stoppers and its streams keep their types.
THEOREM LoopTypeOK == Spec => []TypeOK
<1>1. LoopInv => TypeOK
  BY DEF LoopInv
<1> QED
  BY <1>1, LoopInvariant, PTL

\* ValidateStream closes its channel when no worker can send any more, and a check
\* that was not cancelled has a result for every node of its batch, for a channel
\* and a pool of any size.
THEOREM StreamComplete == Spec => []ClosedStreamIsComplete
<1>1. LoopInv => ClosedStreamIsComplete
  <2> SUFFICES ASSUME LoopInv, NEW c \in Callers, stream[c].pc = "closed"
               PROVE  /\ Workers(c) = {}
                      /\ ~Cancelled(c) => stream[c].batch = stream[c].buf \cup stream[c].got
    BY DEF ClosedStreamIsComplete
  <2>1. StreamOK(stream[c], Cancelled(c))
    BY DEF LoopInv, StreamsOK
  <2>2. Workers(c) = {}
    BY <2>1 DEF StreamOK, Workers
  <2>3. ASSUME ~Cancelled(c) PROVE stream[c].batch = stream[c].buf \cup stream[c].got
    BY <2>1, <2>2, <2>3 DEF StreamOK, Accounted, Workers
  <2> QED
    BY <2>2, <2>3
<1> QED
  BY <1>1, LoopInvariant, PTL

\* Checks of the background loops and of RunOnce never overlap, and a
\* StopBackground that has returned leaves no worker and no result of its loop
\* behind, however often the loop is started again meanwhile.
THEOREM StopLeavesNothing == Spec => []StoppedLoopIsQuiet
<1>1. LoopInv => StoppedLoopIsQuiet
  BY DEF LoopInv, OneStream, LoopsOK, LoopOK, StoppedLoopIsQuiet
<1> QED
  BY <1>1, LoopInvariant, PTL
=============================================================================
