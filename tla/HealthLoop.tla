----------------------------- MODULE HealthLoop -----------------------------
(***************************************************************************)
(* The background health check (checker/health_checker.go) and the worker  *)
(* pool it drives (ValidateStream, validator/validator.go): a loop that    *)
(* waits for its timer, a dispatcher, a worker per node behind a           *)
(* semaphore, a bounded channel of results, and the reader that writes     *)
(* them back.  StopBackground cancels what is under way and waits for the  *)
(* loop; StartBackground may be called again before the old loop is gone.  *)
(*                                                                         *)
(* A Go select with several ready cases takes any of them.  What a result  *)
(* does to a row is in NodeHealth.                                         *)
(***************************************************************************)
EXTENDS Integers, FiniteSets

CONSTANTS
  MaxBatch,      \* HealthCheckBatchSize
  Concurrency,   \* ValidateConcurrency
  BufferFactor,  \* 10 in the code
  MaxStarts,     \* bound: calls of StartBackground that take effect
  Hand           \* a call of RunOnce, outside the loops

\* A node is its place in the batch.
Nodes == 1..MaxBatch
Batches == {1..k : k \in 0..MaxBatch}

Loops == 1..MaxStarts
Callers == Loops \cup {Hand}

ASSUME LoopAssumption ==
  /\ MaxBatch \in Nat
  /\ Concurrency \in Nat \ {0}
  /\ BufferFactor \in Nat
  /\ MaxStarts \in Nat
  /\ Hand \notin Loops

VARIABLES
  current,  \* the loop bgStop, bgDone, bgWake and bgCancel belong to; 0: bgStarted is false
  loop,     \* per loop: where it is, and what its select can see
  stopper,  \* per loop: the StopBackground call that took it
  running,  \* the flag that keeps batches from overlapping
  stream    \* per caller: the ValidateStream it reads

vars == <<current, loop, stopper, running, stream>>

LoopState ==
  [pc : {"none", "select", "check", "ended"},
   timer : BOOLEAN,      \* timer.C is ready
   wake : BOOLEAN,       \* wake holds a token
   stop : BOOLEAN,       \* stop is closed
   cancelled : BOOLEAN]  \* ctx is done

Stream ==
  [pc : {"none", "dispatch", "drain", "closed"},  \* the dispatcher
   batch   : SUBSET Nodes,
   todo    : SUBSET Nodes,  \* not dispatched
   probing : SUBSET Nodes,  \* workers in ValidateOneResult
   sending : SUBSET Nodes,  \* workers at their send
   buf     : SUBSET Nodes,  \* the channel
   got     : SUBSET Nodes]  \* results written back

NoStream ==
  [pc |-> "none", batch |-> {}, todo |-> {}, probing |-> {}, sending |-> {},
   buf |-> {}, got |-> {}]

\* RunOnce runs under context.Background().
Cancelled(c) == c \in Loops /\ loop[c].cancelled

-----------------------------------------------------------------------------
(* ValidateStream.                                                         *)

Workers(c) == stream[c].probing \cup stream[c].sending
Capacity(c) ==
  IF Cardinality(stream[c].batch) < Concurrency * BufferFactor
  THEN Cardinality(stream[c].batch) ELSE Concurrency * BufferFactor

StreamStep(c, new) ==
  /\ stream' = [stream EXCEPT ![c] = new]
  /\ UNCHANGED <<current, loop, stopper, running>>

\* A worker keeps its place in the semaphore until its send is over.
Dispatch(c, n) ==
  /\ stream[c].pc = "dispatch"
  /\ n \in stream[c].todo
  /\ \A m \in stream[c].todo : n <= m
  /\ Cardinality(Workers(c)) < Concurrency
  /\ StreamStep(c, [stream[c] EXCEPT !.todo = @ \ {n}, !.probing = @ \cup {n}])

\* Mutant of EndDispatch: a cancelled dispatcher returns without closing the channel.
EndDispatchOpen(c) ==
  /\ stream[c].pc = "dispatch"
  /\ stream[c].todo = {} \/ Cancelled(c)
  /\ StreamStep(c, [stream[c] EXCEPT !.pc = IF Cancelled(c) THEN "none" ELSE "drain"])

\* The dispatcher waits for the workers once every node is dispatched, or as soon
\* as its select notices the cancellation.
EndDispatch(c) ==
  /\ stream[c].pc = "dispatch"
  /\ stream[c].todo = {} \/ Cancelled(c)
  /\ StreamStep(c, [stream[c] EXCEPT !.pc = "drain"])

\* ValidateOneResult returns, at the latest when its timeouts expire.
Probed(c, n) ==
  /\ n \in stream[c].probing
  /\ StreamStep(c, [stream[c] EXCEPT !.probing = @ \ {n}, !.sending = @ \cup {n}])

Send(c, n) ==
  /\ n \in stream[c].sending
  /\ Cardinality(stream[c].buf) < Capacity(c)
  /\ StreamStep(c, [stream[c] EXCEPT !.sending = @ \ {n}, !.buf = @ \cup {n}])

\* The other case of the worker's select: the result is dropped.
GiveUp(c, n) ==
  /\ n \in stream[c].sending
  /\ Cancelled(c)
  /\ StreamStep(c, [stream[c] EXCEPT !.sending = @ \ {n}])

\* Mutant of Close: workers are not counted before they have a result.
CloseEarly(c) ==
  /\ stream[c].pc = "drain"
  /\ stream[c].sending = {}
  /\ StreamStep(c, [stream[c] EXCEPT !.pc = "closed"])

\* wg.Wait, close(ch).
Close(c) ==
  /\ stream[c].pc = "drain"
  /\ Workers(c) = {}
  /\ StreamStep(c, [stream[c] EXCEPT !.pc = "closed"])

-----------------------------------------------------------------------------
(* One check: runOnceWithContext.                                          *)

\* The reader writes one result back.
Receive(c, n) ==
  /\ n \in stream[c].buf
  /\ StreamStep(c, [stream[c] EXCEPT !.buf = @ \ {n}, !.got = @ \cup {n}])

\* With another check under way, without nodes to check, or without a
\* configuration, RunOnce returns at once.
Opens(c, batch) ==
  /\ running' = TRUE
  /\ stream' = [stream EXCEPT ![c] = [NoStream EXCEPT !.pc = "dispatch", !.batch = batch,
                                                      !.todo = batch]]
RunOnce(batch) ==
  /\ ~running
  /\ batch # {}
  /\ Opens(Hand, batch)
  /\ UNCHANGED <<current, loop, stopper>>

\* The channel is closed and empty.
EndCheck(c) ==
  /\ stream[c].pc = "closed"
  /\ stream[c].buf = {}
  /\ stream' = [stream EXCEPT ![c] = NoStream]
  /\ running' = FALSE
  /\ loop' = IF c = Hand THEN loop ELSE [loop EXCEPT ![c].pc = "select"]
  /\ UNCHANGED <<current, stopper>>

-----------------------------------------------------------------------------
(* The loop.                                                               *)

StartBackground ==
  /\ current = 0
  /\ \E g \in Loops :
       /\ loop[g].pc = "none"
       /\ \A h \in Loops : h < g => loop[h].pc # "none"
       /\ current' = g
       /\ loop' = [loop EXCEPT ![g].pc = "select"]
  /\ UNCHANGED <<stopper, running, stream>>

TimerFires(g) ==
  /\ loop[g].pc = "select"
  /\ ~loop[g].timer
  /\ loop' = [loop EXCEPT ![g].timer = TRUE]
  /\ UNCHANGED <<current, stopper, running, stream>>

\* Every turn of the loop makes a new timer.
TakeTimer(g, batch) ==
  /\ loop[g].pc = "select"
  /\ loop[g].timer
  /\ IF running \/ batch = {}
     THEN /\ loop' = [loop EXCEPT ![g].timer = FALSE]
          /\ UNCHANGED <<running, stream>>
     ELSE /\ loop' = [loop EXCEPT ![g].timer = FALSE, ![g].pc = "check"]
          /\ Opens(g, batch)
  /\ UNCHANGED <<current, stopper>>

TakeWake(g) ==
  /\ loop[g].pc = "select"
  /\ loop[g].wake
  /\ loop' = [loop EXCEPT ![g].timer = FALSE, ![g].wake = FALSE]
  /\ UNCHANGED <<current, stopper, running, stream>>

TakeStop(g) ==
  /\ loop[g].pc = "select"
  /\ loop[g].stop
  /\ loop' = [loop EXCEPT ![g].timer = FALSE, ![g].pc = "ended"]
  /\ UNCHANGED <<current, stopper, running, stream>>

\* UpdateConfig after a save: the token is dropped when one is waiting already.
UpdateConfig ==
  /\ current # 0
  /\ loop' = [loop EXCEPT ![current].wake = TRUE]
  /\ UNCHANGED <<current, stopper, running, stream>>

\* StopBackground takes the loop over under bgMu, then cancels the batch, closes
\* stop and waits for done.
StopBackground ==
  /\ current # 0
  /\ stopper' = [stopper EXCEPT ![current] = "cancel"]
  /\ current' = 0
  /\ UNCHANGED <<loop, running, stream>>

StopCancels(g) ==
  /\ stopper[g] = "cancel"
  /\ stopper' = [stopper EXCEPT ![g] = "close"]
  /\ loop' = [loop EXCEPT ![g].cancelled = TRUE]
  /\ UNCHANGED <<current, running, stream>>

StopCloses(g) ==
  /\ stopper[g] = "close"
  /\ stopper' = [stopper EXCEPT ![g] = "wait"]
  /\ loop' = [loop EXCEPT ![g].stop = TRUE]
  /\ UNCHANGED <<current, running, stream>>

\* Mutant of StopDone: nobody waits for done.
StopDoneAtOnce(g) ==
  /\ stopper[g] = "wait"
  /\ stopper' = [stopper EXCEPT ![g] = "returned"]
  /\ UNCHANGED <<current, loop, running, stream>>

StopDone(g) ==
  /\ stopper[g] = "wait"
  /\ loop[g].pc = "ended"
  /\ stopper' = [stopper EXCEPT ![g] = "returned"]
  /\ UNCHANGED <<current, loop, running, stream>>

-----------------------------------------------------------------------------

Init ==
  /\ current = 0
  /\ loop = [g \in Loops |-> [pc |-> "none", timer |-> FALSE, wake |-> FALSE,
                              stop |-> FALSE, cancelled |-> FALSE]]
  /\ stopper = [g \in Loops |-> "none"]
  /\ running = FALSE
  /\ stream = [c \in Callers |-> NoStream]

Working(c) ==
  \/ \E n \in Nodes : Dispatch(c, n) \/ Probed(c, n) \/ Send(c, n) \/ GiveUp(c, n) \/ Receive(c, n)
  \/ EndDispatch(c) \/ Close(c) \/ EndCheck(c)

Stopping(g) == StopCancels(g) \/ StopCloses(g) \/ StopDone(g)

Next ==
  \/ \E c \in Callers : Working(c)
  \/ \E g \in Loops :
       \/ TimerFires(g) \/ TakeWake(g) \/ TakeStop(g) \/ Stopping(g)
       \/ \E batch \in Batches : TakeTimer(g, batch)
  \/ \E batch \in Batches : RunOnce(batch)
  \/ StartBackground \/ StopBackground \/ UpdateConfig

Spec == Init /\ [][Next]_vars

\* Goroutines run, probes time out, and a select that finds stop ready again and
\* again takes it some time.
Fairness ==
  /\ \A c \in Callers : WF_vars(Working(c))
  /\ \A g \in Loops : WF_vars(Stopping(g)) /\ SF_vars(TakeStop(g))

FairSpec == Spec /\ Fairness

-----------------------------------------------------------------------------
(* Properties.                                                             *)

TypeOK ==
  /\ current \in 0..MaxStarts
  /\ loop \in [Loops -> LoopState]
  /\ stopper \in [Loops -> {"none", "cancel", "close", "wait", "returned"}]
  /\ running \in BOOLEAN
  /\ stream \in [Callers -> Stream]

\* The channel is closed once no worker is left that could send on it, and unless
\* the check was cancelled every node's result is in it or was read from it,
\* however full the channel was in between.
ClosedStreamIsComplete ==
  \A c \in Callers : stream[c].pc = "closed" =>
    /\ Workers(c) = {}
    /\ ~Cancelled(c) => stream[c].batch = stream[c].buf \cup stream[c].got

\* Checks do not overlap, also when a loop is started while a stopped one is
\* still at its last batch, and once StopBackground has returned nothing of its
\* loop is left: no worker dials and no result is written.
StoppedLoopIsQuiet ==
  /\ \A c, d \in Callers : stream[c] # NoStream /\ stream[d] # NoStream => c = d
  /\ \A g \in Loops : stopper[g] = "returned" => stream[g] = NoStream

\* StopBackground returns, whatever the loop, the dispatcher, the workers and a
\* full channel were doing when it was called.
StopReturns ==
  \A g \in Loops : stopper[g] # "none" ~> stopper[g] = "returned"
=============================================================================
