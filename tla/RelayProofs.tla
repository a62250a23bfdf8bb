---------------------------- MODULE RelayProofs ----------------------------
(***************************************************************************)
(* Proofs about the tunnel relay, for any amount of data and any idle      *)
(* time: the inductive invariant RelayInv and what follows from it.        *)
(***************************************************************************)
EXTENDS Relay, TLAPS

\* The shape of a copier's state: what it has read it has written or holds,
\* and a copier that reports a clean end has passed on all there was.
CopierOK ==
  \A d \in Dirs :
    /\ copy[d].got <= peer[From(d)].sent
    /\ copy[d].pc = "write" => copy[d].held > 0 /\ copy[d].bytes + copy[d].held = copy[d].got
    /\ copy[d].pc \in {"idle", "read", "notify"} => copy[d].held = 0 /\ copy[d].bytes = copy[d].got
    /\ copy[d].pc = "idle" => copy[d].got = 0
    /\ copy[d].pc = "notify" => copy[d].bytes > 0
    /\ copy[d].pc # "done" => copy[d].err = "none"
    /\ copy[d].pc = "done" /\ copy[d].err = "none" =>
         peer[From(d)].fin /\ copy[d].bytes = peer[From(d)].sent
    /\ copy[d].pc = "idle" <=> \/ main.pc = "reply"
                               \/ main.pc = "returned" /\ copy[d].pc # "done"

\* The results the coordinator has taken.
Taken ==
  IF main.pc \in {"arm", "shut", "cut", "second"} THEN {main.first.dir}
  ELSE IF main.pc \in {"propagate", "close", "account"} THEN Dirs
  ELSE {}

\* Every result in the channel, and every one taken, is the result of a copier
\* that is done, and there is one for each.
ResultsOK ==
  /\ \A i \in 1..Len(results) :
       /\ copy[results[i].dir].pc = "done"
       /\ copy[results[i].dir].err = results[i].err
       /\ results[i].dir \notin Taken
  /\ \A i, j \in 1..Len(results) : results[i].dir = results[j].dir => i = j
  /\ \A d \in Taken : copy[d].pc = "done"
  /\ main.pc \in {"arm", "shut"} => main.first.err = "none" /\ copy[main.first.dir].err = "none"
  /\ main.pc = "propagate" => copy[main.second.dir].err = "none"
  /\ main.pc = "returned" => \A d \in Dirs : copy[d].pc \in {"idle", "done"}

\* A half-closed connection: the copier that fed it has come to a clean end.
ShutOK ==
  \A d \in Dirs : conn[To(d)] = "shut" => copy[d].pc = "done" /\ copy[d].err = "none"

\* A deadline runs only for the direction that is left, and it runs out no
\* sooner than after the idle time without a completed write.
Remaining(d) ==
  /\ main.first = [dir |-> Other(d), err |-> "none"]
  /\ main.pc \notin {"reply", "first", "arm"}

DeadlineOK ==
  \A d \in Dirs :
    /\ dl[d].left # Off => dl[d].armed
    /\ dl[d].armed => Remaining(d) /\ dl[d].left # Off
    /\ dl[d].armed /\ copy[d].pc # "notify" => quiet[d] + dl[d].left >= Idle
    /\ copy[d].err = "timeout" => Remaining(d) /\ quiet[d] = Idle

\* Success is recorded with the first byte for the client; only a delivery
\* whose onWrite is still to come may be missing.
BooksOK ==
  /\ node.success => node.chosen /\ copy["down"].bytes > 0
  /\ node.chosen /\ copy["down"].bytes > 0 /\ copy["down"].pc # "notify" => node.success
  /\ main.pc = "returned" => node.released = (node.chosen /\ copy["down"].bytes = 0)

\* What is closed at the end; a connection that was never copied from may stay
\* with net/http.
ClosedOK ==
  /\ main.pc = "account" => \A e \in Ends : conn[e] = "closed"
  /\ main.pc = "returned" =>
       /\ conn["upstream"] = "closed"
       /\ conn["client"] = "closed" \/ copy["up"].pc = "idle"

\* The inductive invariant.
RelayInv ==
  /\ TypeOK
  /\ CopierOK
  /\ ResultsOK
  /\ ShutOK
  /\ DeadlineOK
  /\ BooksOK
  /\ ClosedOK
-----------------------------------------------------------------------------
(* The initial state, and facts about the state's types.                   *)

\* The relay begins in the invariant.
LEMMA InitInv == Init => RelayInv
<1> SUFFICES ASSUME Init PROVE RelayInv
  OBVIOUS
<1> USE RelayAssumption DEF Init
<1>1. TypeOK
  <2>1. peer \in [Ends -> Peer] /\ conn \in [Ends -> {"open", "shut", "closed"}]
    BY DEF Peer, Bytes
  <2>2. copy \in [Dirs -> Copier]
    BY DEF Copier, Bytes, Errors
  <2>3. dl \in [Dirs -> Deadline] /\ quiet \in [Dirs -> 0..Idle]
    BY DEF Deadline
  <2>4. results \in Seq(Result) /\ Len(results) <= 2
    OBVIOUS
  <2>5. NoResult \in Result
    BY DEF NoResult, Result, Dirs, Errors
  <2>6. main \in Coordinator
    BY <2>5 DEF Coordinator
  <2>7. node \in Node
    BY DEF Node
  <2>8. QED
    BY <2>1, <2>2, <2>3, <2>4, <2>6, <2>7 DEF TypeOK
<1>2. CopierOK
  BY DEF CopierOK, Dirs, Ends, From
<1>3. ResultsOK
  BY DEF ResultsOK, Taken
<1>4. ShutOK
  BY DEF ShutOK, Dirs, Ends, To
<1>5. DeadlineOK
  BY DEF DeadlineOK, Dirs, Off
<1>6. BooksOK /\ ClosedOK
  <2>1. copy["down"].bytes = 0 /\ main.pc = "reply" /\ node.success = FALSE
    BY DEF Dirs
  <2>2. QED
    BY <2>1 DEF BooksOK, ClosedOK
<1>7. QED
  BY <1>1, <1>2, <1>3, <1>4, <1>5, <1>6 DEF RelayInv

\* What the type invariant says of each record.
LEMMA FieldTypes ==
  ASSUME RelayInv
  PROVE  /\ \A e \in Ends : /\ peer[e] \in Peer
                            /\ peer[e].sent \in Bytes
         /\ \A d \in Dirs : /\ copy[d] \in Copier
                            /\ copy[d].got \in Nat
                            /\ copy[d].held \in Nat
                            /\ copy[d].bytes \in Nat
                            /\ copy[d].err \in Errors
                            /\ dl[d] \in Deadline
                            /\ dl[d].armed \in BOOLEAN
                            /\ dl[d].left \in {Off} \cup (0..Idle)
                            /\ quiet[d] \in 0..Idle
         /\ \A i \in 1..Len(results) : /\ results[i] \in Result
                                       /\ results[i].dir \in Dirs
                                       /\ results[i].err \in Errors
         /\ main.first \in Result /\ main.first.dir \in Dirs
         /\ main.second \in Result /\ main.second.dir \in Dirs
         /\ main.fast \in BOOLEAN
<1> USE DEF RelayInv, TypeOK
<1>1. \A e \in Ends : peer[e] \in Peer /\ peer[e].sent \in Bytes
  BY DEF Peer
<1>2. ASSUME NEW d \in Dirs
      PROVE  /\ copy[d] \in Copier
             /\ copy[d].got \in Nat /\ copy[d].held \in Nat /\ copy[d].bytes \in Nat
             /\ copy[d].err \in Errors
  <2>1. copy[d] \in Copier
    OBVIOUS
  <2>2. QED
    BY <2>1, RelayAssumption DEF Copier, Bytes
<1>3. ASSUME NEW d \in Dirs
      PROVE  /\ dl[d] \in Deadline
             /\ dl[d].armed \in BOOLEAN
             /\ dl[d].left \in {Off} \cup (0..Idle)
             /\ quiet[d] \in 0..Idle
  BY DEF Deadline
<1>4. ASSUME NEW i \in 1..Len(results)
      PROVE  results[i] \in Result /\ results[i].dir \in Dirs /\ results[i].err \in Errors
  <2>1. results[i] \in Result
    OBVIOUS
  <2>2. QED
    BY <2>1 DEF Result
<1>5. /\ main.first \in Result /\ main.first.dir \in Dirs
      /\ main.second \in Result /\ main.second.dir \in Dirs
      /\ main.fast \in BOOLEAN
  BY DEF Coordinator, Result
<1>6. QED
  BY <1>1, <1>2, <1>3, <1>4, <1>5

\* Where the bytes of a direction come from and go to.
LEMMA Directions ==
  ASSUME NEW d \in Dirs
  PROVE  /\ From(d) \in Ends /\ To(d) \in Ends /\ Other(d) \in Dirs
         /\ Other(d) # d /\ To(d) # From(d) /\ Other(Other(d)) = d
         /\ \A x \in Dirs : x # d => x = Other(d) /\ To(x) # To(d) /\ From(x) # From(d)
BY DEF Dirs, Ends, From, To, Other

-----------------------------------------------------------------------------
(* The peers and the clock.                                                *)

\* A peer may send, finish and reset at any time: the copiers' books are not
\* affected, except that a peer that has finished sends no more.
LEMMA PeersKeep == ASSUME RelayInv, Peers PROVE RelayInv'
<1>1. PICK e \in Ends : PeerSends(e) \/ PeerFinishes(e) \/ PeerResets(e)
  BY DEF Peers
<1>2. UNCHANGED <<conn, copy, dl, results, main, node, quiet>>
  BY <1>1 DEF PeerSends, PeerFinishes, PeerResets
<1>3. peer' \in [Ends -> Peer]
  <2>1. peer \in [Ends -> Peer] /\ peer[e] \in Peer /\ peer[e].sent \in 0..MaxBytes
    BY DEF RelayInv, TypeOK, Peer, Bytes
  <2>2. CASE PeerSends(e)
    <3>1. peer[e].sent + 1 \in Bytes
      BY <2>1, <2>2, RelayAssumption DEF PeerSends, Bytes
    <3>2. QED
      BY <2>1, <2>2, <3>1 DEF PeerSends, Peer
  <2>3. CASE PeerFinishes(e)
    BY <2>1, <2>3 DEF PeerFinishes, Peer
  <2>4. CASE PeerResets(e)
    BY <2>1, <2>4 DEF PeerResets, Peer
  <2>5. QED
    BY <1>1, <2>2, <2>3, <2>4
<1>4. \A x \in Ends : /\ peer'[x].sent \in Nat
                      /\ peer'[x].sent >= peer[x].sent
                      /\ peer[x].fin => peer'[x].fin /\ peer'[x].sent = peer[x].sent
  <2> TAKE x \in Ends
  <2>1. /\ peer \in [Ends -> Peer] /\ peer[x] \in Peer /\ peer[e] \in Peer
        /\ peer[x].sent \in Nat /\ peer[e].sent \in Nat
    BY RelayAssumption DEF RelayInv, TypeOK, Peer, Bytes
  <2>2. CASE PeerSends(e)
    BY <2>1, <2>2 DEF PeerSends, Peer
  <2>3. CASE PeerFinishes(e)
    BY <2>1, <2>3 DEF PeerFinishes, Peer
  <2>4. CASE PeerResets(e)
    BY <2>1, <2>4 DEF PeerResets, Peer
  <2>5. QED
    BY <1>1, <2>2, <2>3, <2>4
<1>5. TypeOK'
  BY <1>2, <1>3 DEF RelayInv, TypeOK
<1>6. CopierOK'
  <2> SUFFICES ASSUME NEW d \in Dirs PROVE CopierOK!(d)'
    BY DEF CopierOK
  <2>1. From(d) \in Ends
    BY Directions
  <2>2. peer[From(d)].sent \in Nat /\ copy[d].got \in Nat
    BY <2>1, FieldTypes, RelayAssumption DEF Bytes
  <2>3. QED
    BY <1>2, <1>4, <2>1, <2>2 DEF RelayInv, CopierOK
<1>7. (ResultsOK /\ ShutOK /\ DeadlineOK /\ BooksOK /\ ClosedOK)'
  BY <1>2 DEF RelayInv, ResultsOK, Taken, ShutOK, DeadlineOK, Remaining, BooksOK, ClosedOK
<1>8. QED
  BY <1>5, <1>6, <1>7 DEF RelayInv

\* A tick brings a deadline nearer by as much as it makes the direction quiet.
LEMMA TickKeeps == ASSUME RelayInv, Tick PROVE RelayInv'
<1>1. UNCHANGED <<peer, conn, copy, results, main, node>>
  BY DEF Tick
<1>2. \A d \in Dirs :
        /\ dl'[d] \in Deadline
        /\ dl'[d].armed = dl[d].armed
        /\ dl'[d].left = IF dl[d].left > 0 THEN dl[d].left - 1 ELSE dl[d].left
        /\ quiet'[d] = IF quiet[d] < Idle THEN quiet[d] + 1 ELSE quiet[d]
  <2> TAKE d \in Dirs
  <2>1. dl[d] \in Deadline /\ dl[d].left \in {Off} \cup (0..Idle)
    BY FieldTypes
  <2> DEFINE l == IF dl[d].left > 0 THEN dl[d].left - 1 ELSE dl[d].left
  <2>2. l \in {Off} \cup (0..Idle)
    BY <2>1, RelayAssumption DEF Off
  <2>3. dl'[d] = [dl[d] EXCEPT !.left = l] /\ quiet'[d] = IF quiet[d] < Idle THEN quiet[d] + 1 ELSE quiet[d]
    BY DEF Tick
  <2> HIDE DEF l
  <2>4. dl'[d] \in Deadline /\ dl'[d].armed = dl[d].armed /\ dl'[d].left = l
    BY <2>1, <2>2, <2>3 DEF Deadline
  <2>5. QED
    BY <2>3, <2>4 DEF l
<1>3. TypeOK'
  <2>1. dl' \in [Dirs -> Deadline]
    BY <1>2 DEF Tick
  <2>2. quiet' \in [Dirs -> 0..Idle]
    BY <1>2, FieldTypes, RelayAssumption DEF Tick
  <2>3. QED
    BY <1>1, <2>1, <2>2 DEF RelayInv, TypeOK
<1>4. DeadlineOK'
  <2> SUFFICES ASSUME NEW d \in Dirs PROVE DeadlineOK!(d)'
    BY DEF DeadlineOK
  <2>1. dl[d].left \in {Off} \cup (0..Idle) /\ quiet[d] \in 0..Idle
    BY FieldTypes
  <2>2. QED
    BY <1>1, <1>2, <2>1, RelayAssumption DEF RelayInv, DeadlineOK, Remaining, Off
<1>5. (CopierOK /\ ResultsOK /\ ShutOK /\ BooksOK /\ ClosedOK)'
  BY <1>1 DEF RelayInv, CopierOK, ResultsOK, Taken, ShutOK, BooksOK, ClosedOK
<1>6. QED
  BY <1>3, <1>4, <1>5 DEF RelayInv

-----------------------------------------------------------------------------
(* The copiers.                                                            *)

\* A copier that goes on copying has no result in the channel.
LEMMA GoingOn ==
  ASSUME RelayInv, NEW d \in Dirs,
         copy[d].pc \in {"read", "write", "notify"},
         copy'[d].pc \in {"read", "write", "notify"},
         \A x \in Dirs : x # d => copy'[x] = copy[x],
         UNCHANGED <<results, main>>
  PROVE  ResultsOK'
<1>1. \A x \in Dirs : copy[x].pc = "done" => copy'[x] = copy[x]
  OBVIOUS
<1>2. Taken' = Taken /\ Taken \subseteq Dirs
  BY FieldTypes DEF Taken
<1>3. \A i \in 1..Len(results) : results[i].dir \in Dirs
  BY FieldTypes
<1>4. /\ main.first.dir \in Dirs /\ main.second.dir \in Dirs
      /\ \A x \in Taken : copy[x].pc = "done"
      /\ main.pc \in {"arm", "shut"} => main.first.dir \in Taken
      /\ main.pc = "propagate" => main.second.dir \in Taken
  BY FieldTypes DEF Taken, RelayInv, ResultsOK
<1>5. main.pc # "returned"
  BY DEF RelayInv, ResultsOK
<1>6. /\ main.pc \in {"arm", "shut"} => copy'[main.first.dir] = copy[main.first.dir]
      /\ main.pc = "propagate" => copy'[main.second.dir] = copy[main.second.dir]
      /\ \A x \in Taken : copy'[x] = copy[x]
  BY <1>1, <1>2, <1>4
<1>7. \A i \in 1..Len(results) : copy'[results[i].dir] = copy[results[i].dir]
  BY <1>1, <1>3 DEF RelayInv, ResultsOK
<1>8. QED
  BY <1>2, <1>5, <1>6, <1>7 DEF RelayInv, ResultsOK

\* A copier that returns puts its one result into the channel, which has room
\* for it: at most the other direction's is there.
LEMMA Reporting ==
  ASSUME RelayInv, NEW d \in Dirs, copy[d].pc \in {"read", "write"},
         NEW c \in Copier, NEW err \in Errors, Report(d, c, err), UNCHANGED main
  PROVE  /\ copy' \in [Dirs -> Copier]
         /\ copy'[d].pc = "done" /\ copy'[d].err = err
         /\ copy'[d].got = c.got /\ copy'[d].bytes = c.bytes
         /\ \A x \in Dirs : x # d => copy'[x] = copy[x]
         /\ results' \in Seq(Result) /\ Len(results') <= 2
         /\ ResultsOK'
<1> DEFINE n == [c EXCEPT !.pc = "done", !.held = 0, !.err = err]
           r == [dir |-> d, err |-> err]
<1>1. /\ n \in Copier /\ n.pc = "done" /\ n.err = err
      /\ n.got = c.got /\ n.bytes = c.bytes
  <2>1. 0 \in Bytes
    BY RelayAssumption DEF Bytes
  <2>2. QED
    BY <2>1 DEF Copier
<1>2. copy' = [copy EXCEPT ![d] = n] /\ results' = Append(results, r)
  BY DEF Report
<1>3. r \in Result /\ r.dir = d /\ r.err = err
  BY DEF Result
<1> HIDE DEF n, r
<1>4. /\ copy' \in [Dirs -> Copier] /\ copy'[d] = n
      /\ \A x \in Dirs : x # d => copy'[x] = copy[x]
  BY <1>1, <1>2 DEF RelayInv, TypeOK
<1>5. /\ results \in Seq(Result) /\ Len(results) \in Nat /\ Len(results) <= 2
      /\ \A i \in 1..Len(results) : /\ results[i].dir \in Dirs
                                    /\ results[i].dir # d
                                    /\ copy[results[i].dir].pc = "done"
                                    /\ copy[results[i].dir].err = results[i].err
                                    /\ results[i].dir \notin Taken
      /\ \A i, j \in 1..Len(results) : results[i].dir = results[j].dir => i = j
  <2>1. results \in Seq(Result) /\ Len(results) \in Nat /\ Len(results) <= 2
    BY DEF RelayInv, TypeOK
  <2>2. ASSUME NEW i \in 1..Len(results)
        PROVE  /\ results[i].dir \in Dirs
               /\ results[i].dir # d
               /\ copy[results[i].dir].pc = "done"
               /\ copy[results[i].dir].err = results[i].err
               /\ results[i].dir \notin Taken
    <3>1. results[i] \in Result
      BY <2>1
    <3>2. results[i].dir \in Dirs
      BY <3>1 DEF Result
    <3>3. /\ copy[results[i].dir].pc = "done"
          /\ copy[results[i].dir].err = results[i].err
          /\ results[i].dir \notin Taken
      BY DEF RelayInv, ResultsOK
    <3>4. QED
      BY <3>2, <3>3
  <2>3. \A i, j \in 1..Len(results) : results[i].dir = results[j].dir => i = j
    BY DEF RelayInv, ResultsOK
  <2>4. QED
    BY <2>1, <2>2, <2>3
<1>6. Len(results) < 2
  <2>1. Len(results) \in Nat /\ Len(results) <= 2
    BY <1>5
  <2>2. Len(results) # 2
    <3> SUFFICES ASSUME Len(results) = 2 PROVE FALSE
      OBVIOUS
    <3>1. 1 \in 1..Len(results) /\ 2 \in 1..Len(results)
      OBVIOUS
    <3>2. results[1].dir = Other(d) /\ results[2].dir = Other(d)
      BY <1>5, <3>1, Directions
    <3>3. QED
      BY <1>5, <3>1, <3>2
  <2> DEFINE n2 == Len(results)
  <2> HIDE DEF n2
  <2>3. n2 \in Nat /\ n2 <= 2 /\ n2 # 2 => n2 < 2
    OBVIOUS
  <2>4. QED
    BY <2>1, <2>2, <2>3 DEF n2
<1>7. /\ results' \in Seq(Result) /\ Len(results') = Len(results) + 1
      /\ \A i \in 1..Len(results) : results'[i] = results[i]
      /\ results'[Len(results) + 1] = r
  BY <1>2, <1>3, <1>5
<1>8. /\ Taken' = Taken /\ Taken \subseteq Dirs
      /\ \A x \in Taken : copy[x].pc = "done" /\ x # d
      /\ main.pc \in {"arm", "shut"} => main.first.dir \in Taken
      /\ main.pc = "propagate" => main.second.dir \in Taken
      /\ main.pc # "returned"
  BY FieldTypes DEF Taken, RelayInv, ResultsOK
<1>9. ResultsOK'
  <2>1. ASSUME NEW i \in 1..Len(results')
        PROVE  /\ copy'[results'[i].dir].pc = "done"
               /\ copy'[results'[i].dir].err = results'[i].err
               /\ results'[i].dir \notin Taken'
    <3>1. CASE i = Len(results) + 1
      BY <1>1, <1>3, <1>4, <1>7, <1>8, <3>1
    <3>2. CASE i # Len(results) + 1
      <4>1. i \in 1..Len(results) /\ results'[i] = results[i]
        BY <1>5, <1>7, <3>2
      <4>2. QED
        BY <1>4, <1>5, <1>8, <4>1
    <3>3. QED
      BY <3>1, <3>2
  <2>2. ASSUME NEW i \in 1..Len(results'), NEW j \in 1..Len(results'),
               results'[i].dir = results'[j].dir
        PROVE  i = j
    <3>1. i = Len(results) + 1 \/ (i \in 1..Len(results) /\ results'[i] = results[i])
      BY <1>5, <1>7
    <3>2. j = Len(results) + 1 \/ (j \in 1..Len(results) /\ results'[j] = results[j])
      BY <1>5, <1>7
    <3>3. QED
      BY <1>3, <1>5, <1>7, <2>2, <3>1, <3>2
  <2>3. \A x \in Taken' : copy'[x] = copy[x]
    BY <1>4, <1>8
  <2>4. /\ main.pc \in {"arm", "shut"} => copy'[main.first.dir] = copy[main.first.dir]
        /\ main.pc = "propagate" => copy'[main.second.dir] = copy[main.second.dir]
    BY <1>8, <2>3
  <2>5. QED
    BY <1>8, <2>1, <2>2, <2>3, <2>4 DEF RelayInv, ResultsOK
<1>10. QED
  BY <1>1, <1>4, <1>5, <1>6, <1>7, <1>9

\* Reading moves bytes from the connection into the copier's hands.
LEMMA ReadDataKeeps == ASSUME RelayInv, NEW d \in Dirs, ReadData(d) PROVE RelayInv'
<1>1. PICK n \in 1..Pending(d) :
        copy' = [copy EXCEPT ![d].pc = "write", ![d].got = @ + n, ![d].held = n]
  BY DEF ReadData
<1>2. UNCHANGED <<peer, conn, dl, results, main, node, quiet>> /\ copy[d].pc = "read"
  BY DEF ReadData
<1>3. /\ copy \in [Dirs -> Copier] /\ copy[d] \in Copier
      /\ copy[d].got \in Nat /\ copy[d].held \in Nat /\ copy[d].bytes \in Nat
      /\ peer[From(d)].sent \in 0..MaxBytes
      /\ copy[d].held = 0 /\ copy[d].bytes = copy[d].got /\ copy[d].err = "none"
  BY <1>2, FieldTypes, Directions DEF RelayInv, TypeOK, Bytes, CopierOK
<1>4. n \in Nat /\ n > 0 /\ copy[d].got + n <= peer[From(d)].sent
  BY <1>3, RelayAssumption DEF Pending
<1>5. n \in Bytes /\ copy[d].got + n \in Bytes
  BY <1>3, <1>4, RelayAssumption DEF Bytes
<1> DEFINE c == [copy[d] EXCEPT !.pc = "write", !.got = copy[d].got + n, !.held = n]
<1>6. /\ c \in Copier /\ c.pc = "write" /\ c.got = copy[d].got + n /\ c.held = n
      /\ c.bytes = copy[d].bytes /\ c.err = "none"
  BY <1>3, <1>5 DEF Copier
<1>7. copy' = [copy EXCEPT ![d] = c]
  BY <1>1, <1>3 DEF Copier
<1> HIDE DEF c
<1>8. /\ copy' \in [Dirs -> Copier] /\ copy'[d] = c
      /\ \A x \in Dirs : x # d => copy'[x] = copy[x]
  BY <1>3, <1>6, <1>7
<1>9. TypeOK'
  BY <1>2, <1>8 DEF RelayInv, TypeOK
<1>10. CopierOK'
  <2> SUFFICES ASSUME NEW x \in Dirs PROVE CopierOK!(x)'
    BY DEF CopierOK
  <2>1. CASE x = d
    BY <1>2, <1>3, <1>4, <1>6, <1>8, <2>1 DEF RelayInv, CopierOK
  <2>2. CASE x # d
    BY <1>2, <1>8, <2>2 DEF RelayInv, CopierOK
  <2>3. QED
    BY <2>1, <2>2
<1>11. ResultsOK'
  BY <1>2, <1>6, <1>8, GoingOn
<1>12. (ShutOK /\ ClosedOK)'
  <2>1. ShutOK'
    BY <1>2, <1>8 DEF RelayInv, ShutOK
  <2>2. main.pc # "returned"
    BY <1>2, <1>8 DEF RelayInv, ResultsOK
  <2>3. QED
    BY <1>2, <1>8, <2>1, <2>2 DEF RelayInv, ClosedOK
<1>13. DeadlineOK'
  <2> SUFFICES ASSUME NEW x \in Dirs PROVE DeadlineOK!(x)'
    BY DEF DeadlineOK
  <2>1. CASE x = d
    BY <1>2, <1>3, <1>6, <1>8, <2>1 DEF RelayInv, DeadlineOK, Remaining
  <2>2. CASE x # d
    BY <1>2, <1>8, <2>2 DEF RelayInv, DeadlineOK, Remaining
  <2>3. QED
    BY <2>1, <2>2
<1>14. BooksOK'
  <2>1. copy'["down"].bytes = copy["down"].bytes
    BY <1>6, <1>8 DEF Dirs
  <2>2. copy["down"].pc = "notify" => copy'["down"] = copy["down"]
    BY <1>2, <1>8 DEF Dirs
  <2>3. QED
    BY <1>2, <2>1, <2>2 DEF RelayInv, BooksOK
<1>15. QED
  BY <1>9, <1>10, <1>11, <1>12, <1>13, <1>14 DEF RelayInv

\* A report leaves alone what the coordinator and the deadlines rely on; the
\* three ways to report share this part.
LEMMA ReportKeeps ==
  ASSUME RelayInv, NEW d \in Dirs, copy[d].pc \in {"read", "write"},
         NEW c \in Copier, NEW err \in Errors, Report(d, c, err),
         c.got = copy[d].got,
         err = "none" => peer[From(d)].fin /\ c.bytes = peer[From(d)].sent,
         err = "timeout" => Remaining(d) /\ quiet[d] = Idle,
         UNCHANGED <<peer, conn, main, quiet>>
  PROVE  /\ copy' \in [Dirs -> Copier]
         /\ results' \in Seq(Result) /\ Len(results') <= 2
         /\ copy'[d].pc = "done" /\ copy'[d].bytes = c.bytes
         /\ \A x \in Dirs : x # d => copy'[x] = copy[x]
         /\ CopierOK' /\ ResultsOK' /\ ShutOK' /\ ClosedOK'
         /\ \A x \in Dirs : copy'[x].err = "timeout" => Remaining(x)' /\ quiet'[x] = Idle
<1>1. /\ copy' \in [Dirs -> Copier]
      /\ copy'[d].pc = "done" /\ copy'[d].err = err
      /\ copy'[d].got = c.got /\ copy'[d].bytes = c.bytes
      /\ \A x \in Dirs : x # d => copy'[x] = copy[x]
      /\ results' \in Seq(Result) /\ Len(results') <= 2
      /\ ResultsOK'
  BY Reporting
<1>2. main.pc \notin {"reply", "returned"}
  BY DEF RelayInv, CopierOK, ResultsOK
<1>3. CopierOK'
  <2> SUFFICES ASSUME NEW x \in Dirs PROVE CopierOK!(x)'
    BY DEF CopierOK
  <2>1. CASE x = d
    BY <1>1, <1>2, <2>1 DEF RelayInv, CopierOK
  <2>2. CASE x # d
    BY <1>1, <2>2 DEF RelayInv, CopierOK
  <2>3. QED
    BY <2>1, <2>2
<1>4. (ShutOK /\ ClosedOK)'
  <2>1. ShutOK'
    BY <1>1 DEF RelayInv, ShutOK
  <2>2. main.pc # "returned"
    BY <1>1 DEF RelayInv, ResultsOK
  <2>3. QED
    BY <1>1, <2>1, <2>2 DEF RelayInv, ClosedOK
<1>5. \A x \in Dirs : copy'[x].err = "timeout" => Remaining(x)' /\ quiet'[x] = Idle
  BY <1>1 DEF RelayInv, DeadlineOK, Remaining
<1>6. QED
  BY <1>1, <1>3, <1>4, <1>5

\* A deadline that is over belongs to the direction that is left, and no write
\* was completed for the idle time.
LEMMA LateIsIdle ==
  ASSUME RelayInv, NEW d \in Dirs, Late(d), copy[d].pc # "notify"
  PROVE  Remaining(d) /\ quiet[d] = Idle
BY FieldTypes, RelayAssumption DEF RelayInv, DeadlineOK, Late, Off

\* The end of file, or an error, is reported; nothing has moved.
LEMMA ReadEndsKeep ==
  ASSUME RelayInv, NEW d \in Dirs, ReadEOF(d) \/ ReadFails(d)
  PROVE  RelayInv'
<1>1. copy[d].pc = "read" /\ UNCHANGED <<peer, conn, dl, main, node, quiet>>
  BY DEF ReadEOF, ReadFails
<1>2. /\ copy[d] \in Copier /\ copy[d].got \in Nat /\ copy[d].bytes = copy[d].got
      /\ peer[From(d)].sent \in Nat
  BY <1>1, FieldTypes, Directions, RelayAssumption DEF RelayInv, CopierOK, Bytes
<1>3. PICK err \in Errors :
        /\ Report(d, copy[d], err)
        /\ err = "none" => peer[From(d)].fin /\ copy[d].bytes = peer[From(d)].sent
        /\ err = "timeout" => Remaining(d) /\ quiet[d] = Idle
  <2>1. CASE ReadEOF(d)
    BY <1>2, <2>1 DEF ReadEOF, Pending, Errors
  <2>2. CASE ReadFails(d)
    <3>1. Report(d, copy[d], IF Usable(From(d)) THEN "timeout" ELSE "error")
          /\ (Usable(From(d)) => Late(d))
      BY <2>2 DEF ReadFails
    <3>2. CASE Usable(From(d))
      BY <1>1, <3>1, <3>2, LateIsIdle DEF Errors
    <3>3. CASE ~Usable(From(d))
      BY <3>1, <3>3 DEF Errors
    <3>4. QED
      BY <3>2, <3>3
  <2>3. QED
    BY <2>1, <2>2
<1>4. /\ copy' \in [Dirs -> Copier]
      /\ results' \in Seq(Result) /\ Len(results') <= 2
      /\ copy'[d].pc = "done" /\ copy'[d].bytes = copy[d].bytes
      /\ \A x \in Dirs : x # d => copy'[x] = copy[x]
      /\ CopierOK' /\ ResultsOK' /\ ShutOK' /\ ClosedOK'
      /\ \A x \in Dirs : copy'[x].err = "timeout" => Remaining(x)' /\ quiet'[x] = Idle
  BY <1>1, <1>2, <1>3, ReportKeeps
<1>5. TypeOK'
  BY <1>1, <1>4 DEF RelayInv, TypeOK
<1>6. DeadlineOK'
  BY <1>1, <1>4 DEF RelayInv, DeadlineOK, Remaining
<1>7. BooksOK'
  <2>1. /\ copy'["down"].bytes = copy["down"].bytes
        /\ copy["down"].pc = "notify" => copy'["down"] = copy["down"]
    BY <1>1, <1>4 DEF Dirs
  <2>2. QED
    BY <1>1, <2>1 DEF RelayInv, BooksOK
<1>8. QED
  BY <1>4, <1>5, <1>6, <1>7 DEF RelayInv

\* A completed write: the quiet time of the direction starts again; onWrite is due.
LEMMA WriteAllKeeps == ASSUME RelayInv, NEW d \in Dirs, WriteAll(d) PROVE RelayInv'
<1>1. /\ copy[d].pc = "write"
      /\ quiet' = [quiet EXCEPT ![d] = 0]
      /\ UNCHANGED <<peer, conn, dl, results, main, node>>
  BY DEF WriteAll
<1>2. /\ copy \in [Dirs -> Copier] /\ copy[d] \in Copier
      /\ copy[d].got \in Nat /\ copy[d].held \in Nat /\ copy[d].bytes \in Nat
      /\ copy[d].held > 0 /\ copy[d].bytes + copy[d].held = copy[d].got
      /\ copy[d].got \in Bytes /\ copy[d].err = "none"
  BY <1>1, FieldTypes DEF RelayInv, TypeOK, CopierOK, Copier
<1> DEFINE c == [copy[d] EXCEPT !.pc = "notify", !.bytes = copy[d].bytes + copy[d].held,
                                !.held = 0]
<1>3. /\ c \in Copier /\ c.pc = "notify" /\ c.bytes = copy[d].got /\ c.held = 0
      /\ c.got = copy[d].got /\ c.err = "none"
  <2>1. 0 \in Bytes /\ copy[d].bytes + copy[d].held \in Bytes
    BY <1>2, RelayAssumption DEF Bytes
  <2>2. QED
    BY <1>2, <2>1 DEF Copier
<1>4. copy' = [copy EXCEPT ![d] = c]
  BY <1>2 DEF WriteAll, Copier
<1> HIDE DEF c
<1>5. /\ copy' \in [Dirs -> Copier] /\ copy'[d] = c
      /\ \A x \in Dirs : x # d => copy'[x] = copy[x]
  BY <1>2, <1>3, <1>4
<1>6. /\ quiet' \in [Dirs -> 0..Idle] /\ quiet'[d] = 0
      /\ \A x \in Dirs : x # d => quiet'[x] = quiet[x]
  BY <1>1, RelayAssumption DEF RelayInv, TypeOK
<1>7. TypeOK'
  BY <1>1, <1>5, <1>6 DEF RelayInv, TypeOK
<1>8. CopierOK'
  <2> SUFFICES ASSUME NEW x \in Dirs PROVE CopierOK!(x)'
    BY DEF CopierOK
  <2>1. CASE x = d
    BY <1>1, <1>2, <1>3, <1>5, <2>1 DEF RelayInv, CopierOK
  <2>2. CASE x # d
    BY <1>1, <1>5, <2>2 DEF RelayInv, CopierOK
  <2>3. QED
    BY <2>1, <2>2
<1>9. ResultsOK'
  BY <1>1, <1>3, <1>5, GoingOn
<1>10. (ShutOK /\ ClosedOK)'
  <2>1. ShutOK'
    BY <1>1, <1>5 DEF RelayInv, ShutOK
  <2>2. main.pc # "returned"
    BY <1>1, <1>5 DEF RelayInv, ResultsOK
  <2>3. QED
    BY <1>1, <1>5, <2>1, <2>2 DEF RelayInv, ClosedOK
<1>11. DeadlineOK'
  <2> SUFFICES ASSUME NEW x \in Dirs PROVE DeadlineOK!(x)'
    BY DEF DeadlineOK
  <2>1. CASE x = d
    BY <1>1, <1>3, <1>5, <2>1 DEF RelayInv, DeadlineOK, Remaining
  <2>2. CASE x # d
    BY <1>1, <1>5, <1>6, <2>2 DEF RelayInv, DeadlineOK, Remaining
  <2>3. QED
    BY <2>1, <2>2
<1>12. BooksOK'
  <2>1. CASE d = "down"
    <3>1. copy'["down"].pc = "notify" /\ copy'["down"].bytes > 0 /\ main.pc # "returned"
      BY <1>1, <1>2, <1>3, <1>5, <2>1 DEF RelayInv, ResultsOK
    <3>2. QED
      BY <1>1, <3>1 DEF RelayInv, BooksOK
  <2>2. CASE d # "down"
    <3>1. copy'["down"] = copy["down"]
      BY <1>5, <2>2 DEF Dirs
    <3>2. QED
      BY <1>1, <3>1 DEF RelayInv, BooksOK
  <2>3. QED
    BY <2>1, <2>2
<1>13. QED
  BY <1>7, <1>8, <1>9, <1>10, <1>11, <1>12 DEF RelayInv

\* What onWrite does: it moves the deadline of a direction that has one, and a
\* chosen node gets its success with the client's first bytes.
LEMMA OnWriteFacts ==
  ASSUME RelayInv, NEW d \in Dirs, OnWrite(d)
  PROVE  /\ dl' \in [Dirs -> Deadline]
         /\ dl'[d].armed = dl[d].armed
         /\ dl'[d].left = IF dl[d].armed THEN Idle ELSE dl[d].left
         /\ \A x \in Dirs : x # d => dl'[x] = dl[x]
         /\ node' \in Node
         /\ node'.chosen = node.chosen /\ node'.released = node.released
         /\ node'.success = (node.success \/ (d = "down" /\ node.chosen))
<1>1. /\ dl \in [Dirs -> Deadline] /\ dl[d] \in Deadline
      /\ dl[d].left \in {Off} \cup (0..Idle) /\ Idle \in 0..Idle
  BY FieldTypes, RelayAssumption DEF RelayInv, TypeOK
<1> DEFINE l == IF dl[d].armed THEN Idle ELSE dl[d].left
           e == [dl[d] EXCEPT !.left = l]
<1>2. l \in {Off} \cup (0..Idle)
  BY <1>1
<1>3. dl' = [dl EXCEPT ![d] = e]
  BY <1>1 DEF OnWrite, Progress, Deadline
<1> HIDE DEF l
<1>4. e \in Deadline /\ e.armed = dl[d].armed /\ e.left = l
  BY <1>1, <1>2 DEF Deadline
<1> HIDE DEF e
<1>5. dl' \in [Dirs -> Deadline] /\ dl'[d] = e /\ \A x \in Dirs : x # d => dl'[x] = dl[x]
  BY <1>1, <1>3, <1>4
<1>6. node' \in Node
  BY DEF OnWrite, RelayInv, TypeOK, Node
<1>7. /\ node'.chosen = node.chosen /\ node'.released = node.released
      /\ node'.success = (node.success \/ (d = "down" /\ node.chosen))
  BY DEF OnWrite, RelayInv, TypeOK, Node
<1>8. QED
  BY <1>4, <1>5, <1>6, <1>7 DEF l

\* onWrite settles what the delivery left open.
LEMMA NotifyKeeps == ASSUME RelayInv, NEW d \in Dirs, Notify(d) PROVE RelayInv'
<1>1. /\ copy[d].pc = "notify" /\ OnWrite(d)
      /\ copy' = [copy EXCEPT ![d].pc = "read"]
      /\ UNCHANGED <<peer, conn, results, main, quiet>>
  BY DEF Notify
<1>2. /\ dl' \in [Dirs -> Deadline]
      /\ dl'[d].armed = dl[d].armed
      /\ dl'[d].left = IF dl[d].armed THEN Idle ELSE dl[d].left
      /\ \A x \in Dirs : x # d => dl'[x] = dl[x]
      /\ node' \in Node
      /\ node'.chosen = node.chosen /\ node'.released = node.released
      /\ node'.success = (node.success \/ (d = "down" /\ node.chosen))
  BY <1>1, OnWriteFacts
<1>3. copy \in [Dirs -> Copier] /\ copy[d] \in Copier
  BY FieldTypes DEF RelayInv, TypeOK
<1> DEFINE c == [copy[d] EXCEPT !.pc = "read"]
<1>4. /\ c \in Copier /\ c.pc = "read" /\ c.bytes = copy[d].bytes /\ c.held = copy[d].held
      /\ c.got = copy[d].got /\ c.err = copy[d].err
  BY <1>3 DEF Copier
<1>5. copy' = [copy EXCEPT ![d] = c]
  BY <1>1, <1>3 DEF Copier
<1> HIDE DEF c
<1>6. /\ copy' \in [Dirs -> Copier] /\ copy'[d] = c
      /\ \A x \in Dirs : x # d => copy'[x] = copy[x]
  BY <1>3, <1>4, <1>5
<1>7. TypeOK'
  BY <1>1, <1>2, <1>6 DEF RelayInv, TypeOK
<1>8. CopierOK'
  <2> SUFFICES ASSUME NEW x \in Dirs PROVE CopierOK!(x)'
    BY DEF CopierOK
  <2>1. CASE x = d
    BY <1>1, <1>4, <1>6, <2>1 DEF RelayInv, CopierOK
  <2>2. CASE x # d
    BY <1>1, <1>6, <2>2 DEF RelayInv, CopierOK
  <2>3. QED
    BY <2>1, <2>2
<1>9. ResultsOK'
  BY <1>1, <1>4, <1>6, GoingOn
<1>10. (ShutOK /\ ClosedOK)'
  BY <1>1, <1>6 DEF RelayInv, ShutOK, ClosedOK
<1>11. DeadlineOK'
  <2> SUFFICES ASSUME NEW x \in Dirs PROVE DeadlineOK!(x)'
    BY DEF DeadlineOK
  <2>1. CASE x = d
    <3>1. quiet[d] \in Nat /\ Idle \in Nat /\ Idle # Off /\ copy[d].err = "none"
      BY <1>1, FieldTypes, RelayAssumption DEF Off, RelayInv, CopierOK
    <3>2. QED
      BY <1>1, <1>2, <1>4, <1>6, <2>1, <3>1 DEF RelayInv, DeadlineOK, Remaining
  <2>2. CASE x # d
    BY <1>1, <1>2, <1>6, <2>2 DEF RelayInv, DeadlineOK, Remaining
  <2>3. QED
    BY <2>1, <2>2
<1>12. BooksOK'
  <2>1. main.pc # "returned" /\ copy[d].bytes \in Nat
    BY <1>1, FieldTypes DEF RelayInv, ResultsOK
  <2>2. CASE d = "down"
    <3>1. copy'["down"].bytes = copy["down"].bytes
      BY <1>4, <1>6, <2>2
    <3>2. copy["down"].bytes > 0
      BY <1>1, <2>2 DEF RelayInv, CopierOK
    <3>3. QED
      BY <1>1, <1>2, <2>1, <2>2, <3>1, <3>2 DEF RelayInv, BooksOK
  <2>3. CASE d # "down"
    <3>1. copy'["down"] = copy["down"]
      BY <1>6, <2>3 DEF Dirs
    <3>2. QED
      BY <1>1, <1>2, <2>3, <3>1 DEF RelayInv, BooksOK
  <2>4. QED
    BY <2>2, <2>3
<1>13. QED
  BY <1>7, <1>8, <1>9, <1>10, <1>11, <1>12 DEF RelayInv

\* A write that fails: what got across counts.
LEMMA WriteFailsKeeps == ASSUME RelayInv, NEW d \in Dirs, WriteFails(d) PROVE RelayInv'
<1>1. PICK n \in 0..(copy[d].held - 1) :
        /\ Report(d, [copy[d] EXCEPT !.bytes = @ + n],
                  IF CanWrite(d) THEN "timeout" ELSE "error")
        /\ IF n > 0 THEN OnWrite(d) ELSE UNCHANGED <<dl, node>>
  BY DEF WriteFails
<1>2. /\ copy[d].pc = "write" /\ (~CanWrite(d) \/ Late(d))
      /\ UNCHANGED <<peer, conn, main, quiet>>
  BY DEF WriteFails
<1>3. /\ copy[d] \in Copier
      /\ copy[d].got \in Nat /\ copy[d].held \in Nat /\ copy[d].bytes \in Nat
      /\ copy[d].bytes + copy[d].held = copy[d].got /\ copy[d].got \in Bytes
  BY <1>2, FieldTypes DEF RelayInv, CopierOK, Copier
<1>4. n \in Nat /\ copy[d].bytes + n \in Bytes
  BY <1>3, RelayAssumption DEF Bytes
<1> DEFINE c == [copy[d] EXCEPT !.bytes = @ + n]
           err == IF CanWrite(d) THEN "timeout" ELSE "error"
<1>5. c \in Copier /\ c.got = copy[d].got /\ c.bytes = copy[d].bytes + n
  BY <1>3, <1>4 DEF Copier
<1>6. /\ err \in Errors /\ err # "none"
      /\ err = "timeout" => Remaining(d) /\ quiet[d] = Idle
  BY <1>2, LateIsIdle DEF Errors
<1>7. Report(d, c, err)
  BY <1>1
<1> HIDE DEF c, err
<1>8. /\ copy' \in [Dirs -> Copier]
      /\ results' \in Seq(Result) /\ Len(results') <= 2
      /\ copy'[d].pc = "done" /\ copy'[d].bytes = c.bytes
      /\ \A x \in Dirs : x # d => copy'[x] = copy[x]
      /\ CopierOK' /\ ResultsOK' /\ ShutOK' /\ ClosedOK'
      /\ \A x \in Dirs : copy'[x].err = "timeout" => Remaining(x)' /\ quiet'[x] = Idle
  BY <1>2, <1>5, <1>6, <1>7, ReportKeeps
<1>9. /\ dl' \in [Dirs -> Deadline]
      /\ dl'[d].armed = dl[d].armed
      /\ dl'[d].left = dl[d].left \/ (dl[d].armed /\ dl'[d].left = Idle)
      /\ \A x \in Dirs : x # d => dl'[x] = dl[x]
      /\ node' \in Node
      /\ node'.chosen = node.chosen /\ node'.released = node.released
      /\ node'.success = (node.success \/ (n > 0 /\ d = "down" /\ node.chosen))
  <2>1. CASE n > 0
    <3>1. OnWrite(d)
      BY <1>1, <2>1
    <3>2. QED
      BY <2>1, <3>1, OnWriteFacts
  <2>2. CASE ~(n > 0)
    <3>1. dl' = dl /\ node' = node
      BY <1>1, <2>2
    <3>2. dl \in [Dirs -> Deadline] /\ node \in Node
      BY DEF RelayInv, TypeOK
    <3>3. QED
      BY <2>2, <3>1, <3>2 DEF Node
  <2>3. QED
    BY <2>1, <2>2
<1>10. TypeOK'
  BY <1>2, <1>8, <1>9 DEF RelayInv, TypeOK
<1>11. DeadlineOK'
  <2> SUFFICES ASSUME NEW x \in Dirs PROVE DeadlineOK!(x)'
    BY DEF DeadlineOK
  <2>1. CASE x = d
    <3>1. quiet[d] \in Nat /\ Idle \in Nat /\ Idle # Off
      BY FieldTypes, RelayAssumption DEF Off
    <3>2. QED
      BY <1>2, <1>8, <1>9, <2>1, <3>1 DEF RelayInv, DeadlineOK, Remaining
  <2>2. CASE x # d
    BY <1>2, <1>8, <1>9, <2>2 DEF RelayInv, DeadlineOK, Remaining
  <2>3. QED
    BY <2>1, <2>2
<1>12. BooksOK'
  <2>1. main.pc # "returned"
    BY <1>2 DEF RelayInv, ResultsOK
  <2>2. CASE d = "down"
    <3>1. copy'["down"].bytes = copy["down"].bytes + n
      BY <1>5, <1>8, <2>2
    <3>2. node.chosen /\ copy["down"].bytes > 0 => node.success
      BY <1>2, <2>2 DEF RelayInv, BooksOK
    <3>3. node.success => node.chosen /\ copy["down"].bytes > 0
      BY DEF RelayInv, BooksOK
    <3>4. copy'["down"].bytes > 0 <=> (n > 0 \/ copy["down"].bytes > 0)
      BY <1>3, <1>4, <2>2, <3>1
    <3>5. node'.success = (node.success \/ (n > 0 /\ node.chosen)) /\ node'.chosen = node.chosen
      BY <1>9, <2>2
    <3>6. QED
      BY <1>2, <2>1, <3>2, <3>3, <3>4, <3>5, Zenon DEF BooksOK
  <2>3. CASE d # "down"
    <3>1. copy'["down"] = copy["down"]
      BY <1>8, <2>3 DEF Dirs
    <3>2. QED
      BY <1>2, <1>9, <2>3, <3>1 DEF RelayInv, BooksOK
  <2>4. QED
    BY <2>2, <2>3
<1>13. QED
  BY <1>8, <1>10, <1>11, <1>12 DEF RelayInv

-----------------------------------------------------------------------------
(* The coordinator.                                                        *)

\* What Goto leaves of the coordinator.
LEMMA GotoFacts ==
  ASSUME RelayInv,
         NEW pc \in {"first", "shut", "second", "close", "account", "returned"},
         main' = Goto(pc)
  PROVE  /\ main' \in Coordinator /\ main'.pc = pc
         /\ main'.first = main.first /\ main'.second = main.second
         /\ main'.fast = main.fast
BY DEF Goto, RelayInv, TypeOK, Coordinator

\* The books of the copiers and the node do not look at the coordinator between
\* the reply and the return.
LEMMA Underway ==
  ASSUME RelayInv,
         main.pc \notin {"reply", "returned"}, main'.pc \notin {"reply", "returned"},
         UNCHANGED <<peer, copy, node>>
  PROVE  CopierOK' /\ BooksOK'
<1>1. CopierOK'
  <2> SUFFICES ASSUME NEW d \in Dirs PROVE CopierOK!(d)'
    BY DEF CopierOK
  <2>1. QED
    BY DEF RelayInv, CopierOK
<1>2. BooksOK'
  BY DEF RelayInv, BooksOK
<1>3. QED
  BY <1>1, <1>2

\* The deadlines stay as they are while the coordinator remembers its first
\* result.
LEMMA DeadlinesStay ==
  ASSUME RelayInv, main'.first = main.first,
         main.pc \notin {"reply", "first", "arm"} => main'.pc \notin {"reply", "first", "arm"},
         UNCHANGED <<copy, dl, quiet>>
  PROVE  DeadlineOK'
<1> SUFFICES ASSUME NEW d \in Dirs PROVE DeadlineOK!(d)'
  BY DEF DeadlineOK
<1>1. Remaining(d) => Remaining(d)'
  BY DEF Remaining
<1>2. QED
  BY <1>1 DEF RelayInv, DeadlineOK

\* The copying begins.
LEMMA ReplySentKeeps == ASSUME RelayInv, ReplySent PROVE RelayInv'
<1>1. /\ main.pc = "reply" /\ main' = Goto("first")
      /\ copy' = [d \in Dirs |-> [copy[d] EXCEPT !.pc = "read"]]
      /\ UNCHANGED <<peer, conn, dl, results, node, quiet>>
  BY DEF ReplySent
<1>2. /\ main' \in Coordinator /\ main'.pc = "first"
      /\ main'.first = main.first /\ main'.second = main.second /\ main'.fast = main.fast
  BY <1>1, GotoFacts
<1>3. \A d \in Dirs : /\ copy'[d] \in Copier /\ copy'[d].pc = "read"
                      /\ copy'[d].got = copy[d].got /\ copy'[d].held = copy[d].held
                      /\ copy'[d].bytes = copy[d].bytes /\ copy'[d].err = copy[d].err
  <2> TAKE d \in Dirs
  <2>1. copy[d] \in Copier /\ copy'[d] = [copy[d] EXCEPT !.pc = "read"]
    BY <1>1, FieldTypes
  <2>2. QED
    BY <2>1 DEF Copier
<1>4. \A d \in Dirs : copy[d].pc = "idle"
  BY <1>1 DEF RelayInv, CopierOK
<1>5. TypeOK'
  BY <1>1, <1>2, <1>3 DEF RelayInv, TypeOK
<1>6. CopierOK'
  <2> SUFFICES ASSUME NEW d \in Dirs PROVE CopierOK!(d)'
    BY DEF CopierOK
  <2>1. QED
    BY <1>1, <1>2, <1>3, <1>4 DEF RelayInv, CopierOK
<1>7. ResultsOK'
  <2>1. \A i \in 1..Len(results) : FALSE
    BY <1>4, FieldTypes DEF RelayInv, ResultsOK
  <2>2. Taken' = {}
    BY <1>2 DEF Taken
  <2>3. QED
    BY <1>1, <1>2, <2>1, <2>2 DEF ResultsOK
<1>8. (ShutOK /\ ClosedOK)'
  BY <1>1, <1>2, <1>4 DEF RelayInv, ShutOK, ClosedOK
<1>9. DeadlineOK'
  <2> SUFFICES ASSUME NEW d \in Dirs PROVE DeadlineOK!(d)'
    BY DEF DeadlineOK
  <2>1. ~dl[d].armed /\ copy[d].err = "none" /\ copy'[d].err = "none"
    BY <1>1, <1>3, <1>4 DEF RelayInv, DeadlineOK, Remaining, CopierOK
  <2>2. QED
    BY <1>1, <2>1 DEF RelayInv, DeadlineOK
<1>10. BooksOK'
  <2>1. copy'["down"].bytes = copy["down"].bytes /\ copy["down"].pc = "idle"
    BY <1>3, <1>4 DEF Dirs
  <2>2. QED
    BY <1>1, <1>2, <2>1 DEF RelayInv, BooksOK
<1>11. QED
  BY <1>5, <1>6, <1>7, <1>8, <1>9, <1>10 DEF RelayInv

\* Nothing was copied: the session is released.
LEMMA ReplyFailsKeeps == ASSUME RelayInv, ReplyFails PROVE RelayInv'
<1>1. /\ main.pc = "reply" /\ main' = Goto("returned")
      /\ conn' = [conn EXCEPT !["upstream"] = "closed", !["client"] = conn["client"]]
           \/ conn' = [conn EXCEPT !["upstream"] = "closed", !["client"] = "closed"]
      /\ node' = [node EXCEPT !.released = node.chosen]
      /\ UNCHANGED <<peer, copy, dl, results, quiet>>
  BY DEF ReplyFails
<1>2. /\ main' \in Coordinator /\ main'.pc = "returned"
      /\ main'.first = main.first /\ main'.second = main.second /\ main'.fast = main.fast
  BY <1>1, GotoFacts
<1>3. /\ node' \in Node /\ node'.chosen = node.chosen /\ node'.success = node.success
      /\ node'.released = node.chosen
  BY <1>1 DEF RelayInv, TypeOK, Node
<1>4. \A d \in Dirs : copy[d].pc = "idle" /\ copy[d].bytes = 0
  BY <1>1 DEF RelayInv, CopierOK
<1>5. /\ conn' \in [Ends -> {"open", "shut", "closed"}] /\ conn'["upstream"] = "closed"
      /\ \A e \in Ends : conn'[e] = conn[e] \/ conn'[e] = "closed"
  BY <1>1 DEF RelayInv, TypeOK, Ends
<1>6. TypeOK'
  BY <1>1, <1>2, <1>3, <1>5 DEF RelayInv, TypeOK
<1>7. CopierOK'
  <2> SUFFICES ASSUME NEW d \in Dirs PROVE CopierOK!(d)'
    BY DEF CopierOK
  <2>1. QED
    BY <1>1, <1>2, <1>4 DEF RelayInv, CopierOK
<1>8. ResultsOK'
  <2>1. \A i \in 1..Len(results) : FALSE
    BY <1>4, FieldTypes DEF RelayInv, ResultsOK
  <2>2. Taken' = {}
    BY <1>2 DEF Taken
  <2>3. QED
    BY <1>1, <1>2, <1>4, <2>1, <2>2 DEF ResultsOK
<1>9. (ShutOK /\ ClosedOK)'
  <2>1. ShutOK'
    BY <1>1, <1>5, Directions DEF RelayInv, ShutOK
  <2>2. ClosedOK'
    BY <1>1, <1>2, <1>4, <1>5 DEF ClosedOK, Dirs
  <2>3. QED
    BY <2>1, <2>2
<1>10. DeadlineOK'
  BY <1>1, <1>2, DeadlinesStay
<1>11. BooksOK'
  <2>1. copy["down"].bytes = 0 /\ copy'["down"].bytes = 0
    BY <1>1, <1>4 DEF Dirs
  <2>2. ~node.success /\ ~(copy'["down"].bytes > 0)
    BY <2>1 DEF RelayInv, BooksOK
  <2>3. node'.released = (node'.chosen /\ copy'["down"].bytes = 0)
    BY <1>3, <2>1 DEF RelayInv, TypeOK, Node
  <2>4. QED
    BY <1>3, <2>2, <2>3 DEF BooksOK
<1>12. QED
  BY <1>6, <1>7, <1>8, <1>9, <1>10, <1>11 DEF RelayInv

\* Taking a result: the others move up, and none of them is of its direction.
LEMMA Taking ==
  ASSUME RelayInv, results # <<>>, results' = Tail(results)
  PROVE  /\ Head(results) = results[1] /\ 1 \in 1..Len(results)
         /\ results' \in Seq(Result) /\ Len(results') <= 2
         /\ Len(results') = Len(results) - 1 /\ Len(results) \in Nat
         /\ \A i \in 1..Len(results') :
              /\ i + 1 \in 1..Len(results) /\ results'[i] = results[i + 1]
              /\ results'[i].dir # Head(results).dir
         /\ Head(results) \in Result /\ Head(results).dir \in Dirs
         /\ copy[Head(results).dir].pc = "done"
         /\ copy[Head(results).dir].err = Head(results).err
         /\ Head(results).dir \notin Taken
<1>1. results \in Seq(Result) /\ Len(results) \in Nat /\ Len(results) <= 2
  BY DEF RelayInv, TypeOK
<1>2. Head(results) = results[1] /\ 1 \in 1..Len(results)
  BY <1>1
<1>3. /\ results' \in Seq(Result) /\ Len(results') = Len(results) - 1
      /\ \A i \in 1..Len(results') : results'[i] = results[i + 1]
  BY <1>1
<1>4. \A i \in 1..Len(results') : i + 1 \in 1..Len(results) /\ i + 1 # 1
  BY <1>1, <1>3
<1>5. \A i \in 1..Len(results') : results'[i].dir # results[1].dir
  BY <1>2, <1>3, <1>4 DEF RelayInv, ResultsOK
<1>6. Len(results') <= 2
  BY <1>1, <1>3
<1>7. /\ Head(results) \in Result /\ Head(results).dir \in Dirs
      /\ copy[Head(results).dir].pc = "done"
      /\ copy[Head(results).dir].err = Head(results).err
      /\ Head(results).dir \notin Taken
  BY <1>2, FieldTypes DEF RelayInv, ResultsOK
<1>8. QED
  BY <1>1, <1>2, <1>3, <1>4, <1>5, <1>6, <1>7

\* The first result decides between the half-close and the fast close.
LEMMA TakeFirstKeeps == ASSUME RelayInv, TakeFirst PROVE RelayInv'
<1> DEFINE r == Head(results)
           p == IF r.err = "none" THEN "arm" ELSE "cut"
           f == r.err # "none"
<1>1. /\ main.pc = "first" /\ results # <<>> /\ results' = Tail(results)
      /\ main' = [main EXCEPT !.first = r, !.fast = f, !.pc = p]
      /\ UNCHANGED <<peer, conn, copy, dl, node, quiet>>
  BY DEF TakeFirst
<1>2. /\ results' \in Seq(Result) /\ Len(results') <= 2
      /\ \A i \in 1..Len(results') :
           /\ i + 1 \in 1..Len(results) /\ results'[i] = results[i + 1]
           /\ results'[i].dir # r.dir
      /\ r \in Result /\ r.dir \in Dirs
      /\ copy[r.dir].pc = "done" /\ copy[r.dir].err = r.err
  BY <1>1, Taking
<1>3. p \in {"arm", "cut"} /\ f \in BOOLEAN /\ (p = "arm" => r.err = "none")
  OBVIOUS
<1> HIDE DEF r, p, f
<1>4. main' \in Coordinator /\ main'.first = r /\ main'.pc = p
  BY <1>1, <1>2, <1>3 DEF RelayInv, TypeOK, Coordinator
<1>5. TypeOK'
  BY <1>1, <1>2, <1>4 DEF RelayInv, TypeOK
<1>6. (CopierOK /\ BooksOK)'
  BY <1>1, <1>3, <1>4, Underway
<1>7. ResultsOK'
  <2>1. Taken' = {r.dir}
    BY <1>3, <1>4 DEF Taken
  <2>2. \A i \in 1..Len(results') :
          /\ copy'[results'[i].dir].pc = "done"
          /\ copy'[results'[i].dir].err = results'[i].err
          /\ results'[i].dir \notin Taken'
    BY <1>1, <1>2, <2>1 DEF RelayInv, ResultsOK
  <2>3. \A i, j \in 1..Len(results') : results'[i].dir = results'[j].dir => i = j
    <3> SUFFICES ASSUME NEW i \in 1..Len(results'), NEW j \in 1..Len(results'),
                        results'[i].dir = results'[j].dir
                 PROVE  i = j
      OBVIOUS
    <3>1. i + 1 = j + 1
      BY <1>2 DEF RelayInv, ResultsOK
    <3>2. QED
      BY <3>1
  <2>4. QED
    BY <1>1, <1>2, <1>3, <1>4, <2>1, <2>2, <2>3 DEF ResultsOK
<1>8. (ShutOK /\ ClosedOK)'
  BY <1>1, <1>3, <1>4 DEF RelayInv, ShutOK, ClosedOK
<1>9. DeadlineOK'
  <2> SUFFICES ASSUME NEW d \in Dirs PROVE DeadlineOK!(d)'
    BY DEF DeadlineOK
  <2>1. ~dl[d].armed /\ copy[d].err # "timeout"
    BY <1>1 DEF RelayInv, DeadlineOK, Remaining
  <2>2. QED
    BY <1>1, <2>1 DEF RelayInv, DeadlineOK
<1>10. QED
  BY <1>5, <1>6, <1>7, <1>8, <1>9 DEF RelayInv

\* The coordinator stays with its first result: the channel and what was taken
\* are not disturbed.
LEMMA SameFirst ==
  ASSUME RelayInv, main.pc \in {"arm", "shut", "cut"}, main'.pc \in {"shut", "cut", "second"},
         main'.first = main.first, main'.pc = "shut" => main.pc = "arm",
         UNCHANGED <<copy, results>>
  PROVE  ResultsOK'
<1>1. Taken' = Taken
  BY DEF Taken
<1>2. QED
  BY <1>1 DEF RelayInv, ResultsOK

\* The direction that is left gets a deadline, or the tunnel is cut.
LEMMA ArmRemainingKeeps == ASSUME RelayInv, ArmRemaining PROVE RelayInv'
<1> DEFINE o == Other(main.first.dir)
<1>1. main.pc = "arm" /\ UNCHANGED <<peer, conn, copy, results, node>>
  BY DEF ArmRemaining
<1>2. /\ main.first \in Result /\ main.first.dir \in Dirs /\ main.first.err = "none"
      /\ o \in Dirs /\ Other(o) = main.first.dir
  BY <1>1, FieldTypes, Directions DEF RelayInv, ResultsOK
<1>3. main.first = [dir |-> Other(o), err |-> "none"]
  BY <1>2 DEF Result
<1>4. /\ main' \in Coordinator /\ main'.pc \in {"shut", "cut"} /\ main'.first = main.first
      /\ quiet' \in [Dirs -> 0..Idle] /\ dl' \in [Dirs -> Deadline]
      /\ \A d \in Dirs :
           \/ dl'[d] = dl[d] /\ quiet'[d] = quiet[d]
           \/ /\ d = o /\ dl'[d].armed /\ dl'[d].left = Idle /\ quiet'[d] = 0
  <2>1. CASE main' = [main EXCEPT !.fast = TRUE, !.pc = "cut"] /\ UNCHANGED <<dl, quiet>>
    <3>1. main' \in Coordinator /\ main'.pc = "cut" /\ main'.first = main.first
      BY <2>1 DEF RelayInv, TypeOK, Coordinator
    <3>2. QED
      BY <2>1, <3>1 DEF RelayInv, TypeOK
  <2>2. CASE /\ dl' = ArmedFor(o) /\ quiet' = [quiet EXCEPT ![o] = 0]
             /\ main' = Goto("shut")
    <3>1. main' \in Coordinator /\ main'.pc = "shut" /\ main'.first = main.first
      BY <2>2, GotoFacts
    <3> DEFINE a == [armed |-> TRUE, left |-> Idle]
    <3>2. a \in Deadline /\ a.armed /\ a.left = Idle
      BY RelayAssumption DEF Deadline
    <3>3. dl' = [dl EXCEPT ![o] = a]
      BY <2>2 DEF ArmedFor
    <3> HIDE DEF a, o
    <3>4. /\ dl' \in [Dirs -> Deadline] /\ dl'[o] = a
          /\ \A d \in Dirs : d # o => dl'[d] = dl[d]
      BY <1>2, <3>2, <3>3 DEF RelayInv, TypeOK
    <3>5. /\ quiet' \in [Dirs -> 0..Idle] /\ quiet'[o] = 0
          /\ \A d \in Dirs : d # o => quiet'[d] = quiet[d]
      BY <1>2, <2>2, RelayAssumption DEF RelayInv, TypeOK
    <3>6. QED
      BY <3>1, <3>2, <3>4, <3>5
  <2>3. QED
    BY <2>1, <2>2 DEF ArmRemaining
<1> HIDE DEF o
<1>5. TypeOK'
  BY <1>1, <1>4 DEF RelayInv, TypeOK
<1>6. (CopierOK /\ BooksOK)'
  BY <1>1, <1>4, Underway
<1>7. ResultsOK'
  BY <1>1, <1>4, SameFirst
<1>8. (ShutOK /\ ClosedOK)'
  BY <1>1, <1>4 DEF RelayInv, ShutOK, ClosedOK
<1>9. DeadlineOK'
  <2> SUFFICES ASSUME NEW d \in Dirs PROVE DeadlineOK!(d)'
    BY DEF DeadlineOK
  <2>1. ~dl[d].armed /\ copy[d].err # "timeout"
    BY <1>1 DEF RelayInv, DeadlineOK, Remaining
  <2>2. CASE dl'[d] = dl[d]
    BY <1>1, <2>1, <2>2 DEF RelayInv, DeadlineOK
  <2>3. CASE d = o /\ dl'[d].armed /\ dl'[d].left = Idle /\ quiet'[d] = 0
    <3>1. Remaining(d)'
      BY <1>3, <1>4, <2>3 DEF Remaining
    <3>2. QED
      BY <1>1, <2>1, <2>3, <3>1, RelayAssumption DEF Off
  <2>4. QED
    BY <1>4, <2>2, <2>3
<1>10. QED
  BY <1>5, <1>6, <1>7, <1>8, <1>9 DEF RelayInv

\* The end of file is passed on: the copier of that direction ended cleanly.
LEMMA ShutFirstKeeps == ASSUME RelayInv, ShutFirst PROVE RelayInv'
<1>1. main.pc = "shut" /\ UNCHANGED <<peer, copy, dl, results, node, quiet>>
  BY DEF ShutFirst
<1>2. /\ main' \in Coordinator /\ main'.pc \in {"second", "cut"} /\ main'.first = main.first
  <2>1. CASE main' = Goto("second")
    BY <2>1, GotoFacts
  <2>2. CASE main' = [main EXCEPT !.fast = TRUE, !.pc = "cut"]
    BY <2>2 DEF RelayInv, TypeOK, Coordinator
  <2>3. QED
    BY <2>1, <2>2 DEF ShutFirst
<1>3. conn' = [conn EXCEPT ![To(main.first.dir)] = "shut"] \/ conn' = conn
  BY DEF ShutFirst
<1>4. /\ main.first.dir \in Dirs
      /\ copy[main.first.dir].pc = "done" /\ copy[main.first.dir].err = "none"
  BY <1>1, FieldTypes DEF RelayInv, ResultsOK, Taken
<1>5. conn' \in [Ends -> {"open", "shut", "closed"}]
  BY <1>3 DEF RelayInv, TypeOK
<1>6. TypeOK'
  BY <1>1, <1>2, <1>5 DEF RelayInv, TypeOK
<1>7. (CopierOK /\ BooksOK)'
  BY <1>1, <1>2, Underway
<1>8. ResultsOK'
  BY <1>1, <1>2, SameFirst
<1>9. ShutOK'
  <2> SUFFICES ASSUME NEW d \in Dirs, conn'[To(d)] = "shut"
               PROVE  copy[d].pc = "done" /\ copy[d].err = "none"
    BY <1>1 DEF ShutOK
  <2>1. CASE d = main.first.dir
    BY <1>4, <2>1
  <2>2. CASE d # main.first.dir
    <3>1. conn'[To(d)] = conn[To(d)]
      BY <1>3, <1>4, <2>2, Directions DEF RelayInv, TypeOK
    <3>2. QED
      BY <3>1 DEF RelayInv, ShutOK
  <2>3. QED
    BY <2>1, <2>2
<1>10. DeadlineOK'
  BY <1>1, <1>2, DeadlinesStay
<1>11. ClosedOK'
  BY <1>2 DEF ClosedOK
<1>12. QED
  BY <1>6, <1>7, <1>8, <1>9, <1>10, <1>11 DEF RelayInv

\* Closing: no deadline is left, and no connection is half open.
LEMMA Closing ==
  ASSUME RelayInv, dl' = AllClear, conn' = AllClosed
  PROVE  /\ dl' \in [Dirs -> Deadline]
         /\ \A d \in Dirs : dl'[d].armed = FALSE /\ dl'[d].left = Off
         /\ conn' \in [Ends -> {"open", "shut", "closed"}]
         /\ \A e \in Ends : conn'[e] = "closed"
         /\ ShutOK' /\ ClosedOK'
<1>1. \A d \in Dirs : dl'[d] = [armed |-> FALSE, left |-> Off]
  BY FieldTypes DEF AllClear, RelayInv, DeadlineOK
<1>2. [armed |-> FALSE, left |-> Off] \in Deadline
  BY DEF Deadline
<1>3. dl' \in [Dirs -> Deadline] /\ \A d \in Dirs : dl'[d].armed = FALSE /\ dl'[d].left = Off
  BY <1>1, <1>2 DEF AllClear
<1>4. conn' \in [Ends -> {"open", "shut", "closed"}] /\ \A e \in Ends : conn'[e] = "closed"
  BY DEF AllClosed
<1>5. ShutOK' /\ ClosedOK'
  <2>1. ShutOK'
    BY <1>4, Directions DEF ShutOK
  <2>2. ClosedOK'
    BY <1>4 DEF ClosedOK, Ends
  <2>3. QED
    BY <2>1, <2>2
<1>6. QED
  BY <1>3, <1>4, <1>5

\* The fast close.
LEMMA CutKeeps == ASSUME RelayInv, Cut PROVE RelayInv'
<1>1. /\ main.pc = "cut" /\ dl' = AllClear /\ conn' = AllClosed /\ main' = Goto("second")
      /\ UNCHANGED <<peer, copy, results, node, quiet>>
  BY DEF Cut
<1>2. /\ main' \in Coordinator /\ main'.pc = "second" /\ main'.first = main.first
  BY <1>1, GotoFacts
<1>3. /\ dl' \in [Dirs -> Deadline]
      /\ \A d \in Dirs : dl'[d].armed = FALSE /\ dl'[d].left = Off
      /\ conn' \in [Ends -> {"open", "shut", "closed"}]
      /\ ShutOK' /\ ClosedOK'
  BY <1>1, Closing
<1>4. TypeOK'
  BY <1>1, <1>2, <1>3 DEF RelayInv, TypeOK
<1>5. (CopierOK /\ BooksOK)'
  BY <1>1, <1>2, Underway
<1>6. ResultsOK'
  BY <1>1, <1>2, SameFirst
<1>7. DeadlineOK'
  BY <1>1, <1>2, <1>3 DEF RelayInv, DeadlineOK, Remaining
<1>8. QED
  BY <1>3, <1>4, <1>5, <1>6, <1>7 DEF RelayInv

\* The second result is the other direction's, and the last.
LEMMA TakeSecondKeeps == ASSUME RelayInv, TakeSecond PROVE RelayInv'
<1> DEFINE r == Head(results)
           p == IF ~main.fast /\ r.err = "none" THEN "propagate" ELSE "close"
<1>1. /\ main.pc = "second" /\ results # <<>> /\ results' = Tail(results)
      /\ main' = [main EXCEPT !.second = r, !.pc = p]
      /\ UNCHANGED <<peer, conn, copy, dl, node, quiet>>
  BY DEF TakeSecond
<1>2. /\ results' \in Seq(Result) /\ Len(results') <= 2
      /\ \A i \in 1..Len(results') :
           /\ i + 1 \in 1..Len(results) /\ results'[i] = results[i + 1]
           /\ results'[i].dir # r.dir
      /\ r \in Result /\ r.dir \in Dirs
      /\ copy[r.dir].pc = "done" /\ copy[r.dir].err = r.err
      /\ r.dir \notin Taken
  BY <1>1, Taking
<1>3. p \in {"propagate", "close"} /\ (p = "propagate" => r.err = "none")
  OBVIOUS
<1> HIDE DEF r, p
<1>4. /\ main' \in Coordinator /\ main'.first = main.first /\ main'.second = r
      /\ main'.pc = p
  BY <1>1, <1>2, <1>3 DEF RelayInv, TypeOK, Coordinator
<1>5. TypeOK'
  BY <1>1, <1>2, <1>4 DEF RelayInv, TypeOK
<1>6. (CopierOK /\ BooksOK)'
  BY <1>1, <1>3, <1>4, Underway
<1>7. ResultsOK'
  <2>1. Taken = {main.first.dir} /\ main.first.dir \in Dirs
    BY <1>1, FieldTypes DEF Taken
  <2>2. Taken' = Dirs
    BY <1>3, <1>4 DEF Taken
  <2>3. \A d \in Dirs : d = r.dir \/ d = main.first.dir
    BY <1>2, <2>1 DEF Dirs
  <2>4. \A d \in Dirs : copy[d].pc = "done"
    BY <1>2, <2>1, <2>3 DEF RelayInv, ResultsOK
  <2>5. \A i \in 1..Len(results') : FALSE
    <3> SUFFICES ASSUME NEW i \in 1..Len(results') PROVE FALSE
      OBVIOUS
    <3>1. /\ results'[i].dir \in Dirs /\ results'[i].dir # r.dir
          /\ results'[i].dir \notin Taken
      BY <1>2, FieldTypes DEF RelayInv, ResultsOK
    <3>2. QED
      BY <2>1, <2>3, <3>1
  <2>6. QED
    BY <1>1, <1>2, <1>3, <1>4, <2>2, <2>4, <2>5 DEF ResultsOK
<1>8. (ShutOK /\ ClosedOK)'
  BY <1>1, <1>3, <1>4 DEF RelayInv, ShutOK, ClosedOK
<1>9. DeadlineOK'
  BY <1>1, <1>3, <1>4, DeadlinesStay
<1>10. QED
  BY <1>5, <1>6, <1>7, <1>8, <1>9 DEF RelayInv

\* Both results are taken: the coordinator's last steps leave the channel alone.
LEMMA BothTaken ==
  ASSUME RelayInv, main.pc \in {"propagate", "close", "account"},
         main'.pc \in {"close", "account", "returned"},
         UNCHANGED <<copy, results>>
  PROVE  ResultsOK' /\ \A d \in Dirs : copy[d].pc = "done"
<1>1. Taken = Dirs /\ Taken' \subseteq Dirs
  BY DEF Taken
<1>2. \A d \in Dirs : copy[d].pc = "done"
  BY <1>1 DEF RelayInv, ResultsOK
<1>3. \A i \in 1..Len(results) : FALSE
  BY <1>1, FieldTypes DEF RelayInv, ResultsOK
<1>4. ResultsOK'
  BY <1>1, <1>2, <1>3 DEF ResultsOK
<1>5. QED
  BY <1>2, <1>4

\* The second end of file is passed on.
LEMMA PropagateKeeps == ASSUME RelayInv, Propagate PROVE RelayInv'
<1>1. /\ main.pc = "propagate" /\ main' = Goto("close")
      /\ conn' = [conn EXCEPT ![To(main.second.dir)] = "shut"] \/ conn' = conn
      /\ UNCHANGED <<peer, copy, dl, results, node, quiet>>
  BY DEF Propagate
<1>2. main' \in Coordinator /\ main'.pc = "close" /\ main'.first = main.first
  BY <1>1, GotoFacts
<1>3. ResultsOK' /\ \A d \in Dirs : copy[d].pc = "done"
  BY <1>1, <1>2, BothTaken
<1>4. main.second.dir \in Dirs /\ copy[main.second.dir].err = "none"
  BY <1>1, FieldTypes DEF RelayInv, ResultsOK
<1>5. TypeOK'
  BY <1>1, <1>2 DEF RelayInv, TypeOK
<1>6. (CopierOK /\ BooksOK)'
  BY <1>1, <1>2, Underway
<1>7. ShutOK'
  <2> SUFFICES ASSUME NEW d \in Dirs, conn'[To(d)] = "shut"
               PROVE  copy[d].pc = "done" /\ copy[d].err = "none"
    BY <1>1 DEF ShutOK
  <2>1. CASE d = main.second.dir
    BY <1>3, <1>4, <2>1
  <2>2. CASE d # main.second.dir
    <3>1. conn'[To(d)] = conn[To(d)]
      BY <1>1, <1>4, <2>2, Directions DEF RelayInv, TypeOK
    <3>2. QED
      BY <3>1 DEF RelayInv, ShutOK
  <2>3. QED
    BY <2>1, <2>2
<1>8. DeadlineOK'
  BY <1>1, <1>2, DeadlinesStay
<1>9. ClosedOK'
  BY <1>2 DEF ClosedOK
<1>10. QED
  BY <1>3, <1>5, <1>6, <1>7, <1>8, <1>9 DEF RelayInv

\* Both connections are closed.
LEMMA CloseBothKeeps == ASSUME RelayInv, CloseBoth PROVE RelayInv'
<1>1. /\ main.pc = "close" /\ dl' = AllClear /\ conn' = AllClosed /\ main' = Goto("account")
      /\ UNCHANGED <<peer, copy, results, node, quiet>>
  BY DEF CloseBoth
<1>2. /\ main' \in Coordinator /\ main'.pc = "account" /\ main'.first = main.first
  BY <1>1, GotoFacts
<1>3. /\ dl' \in [Dirs -> Deadline]
      /\ \A d \in Dirs : dl'[d].armed = FALSE /\ dl'[d].left = Off
      /\ conn' \in [Ends -> {"open", "shut", "closed"}]
      /\ ShutOK' /\ ClosedOK'
  BY <1>1, Closing
<1>4. TypeOK'
  BY <1>1, <1>2, <1>3 DEF RelayInv, TypeOK
<1>5. (CopierOK /\ BooksOK)'
  BY <1>1, <1>2, Underway
<1>6. ResultsOK'
  BY <1>1, <1>2, BothTaken
<1>7. DeadlineOK'
  BY <1>1, <1>2, <1>3 DEF RelayInv, DeadlineOK, Remaining
<1>8. QED
  BY <1>3, <1>4, <1>5, <1>6, <1>7 DEF RelayInv

\* The session is released when the client got nothing.
LEMMA AccountKeeps == ASSUME RelayInv, Account PROVE RelayInv'
<1> DEFINE rel == node.chosen /\ copy["down"].bytes = 0
<1>1. /\ main.pc = "account" /\ main' = Goto("returned")
      /\ node' = [node EXCEPT !.released = rel]
      /\ UNCHANGED <<peer, conn, copy, dl, results, quiet>>
  BY DEF Account
<1>2. /\ main' \in Coordinator /\ main'.pc = "returned" /\ main'.first = main.first
  BY <1>1, GotoFacts
<1>3. rel \in BOOLEAN /\ (rel = (node.chosen /\ copy'["down"].bytes = 0))
  BY <1>1 DEF RelayInv, TypeOK, Node
<1> HIDE DEF rel
<1>4. /\ node' \in Node /\ node'.chosen = node.chosen /\ node'.success = node.success
      /\ node'.released = rel
  BY <1>1, <1>3 DEF RelayInv, TypeOK, Node
<1>5. ResultsOK' /\ \A d \in Dirs : copy[d].pc = "done"
  BY <1>1, <1>2, BothTaken
<1>6. TypeOK'
  BY <1>1, <1>2, <1>4 DEF RelayInv, TypeOK
<1>7. CopierOK'
  <2> SUFFICES ASSUME NEW d \in Dirs PROVE CopierOK!(d)'
    BY DEF CopierOK
  <2>1. QED
    BY <1>1, <1>2, <1>5 DEF RelayInv, CopierOK
<1>8. BooksOK'
  <2>1. /\ node.success => node.chosen /\ copy["down"].bytes > 0
        /\ node.chosen /\ copy["down"].bytes > 0 => node.success
    BY <1>5 DEF RelayInv, BooksOK, Dirs
  <2>2. /\ node'.success => node'.chosen /\ copy'["down"].bytes > 0
        /\ node'.chosen /\ copy'["down"].bytes > 0 => node'.success
    BY <1>1, <1>4, <2>1
  <2>3. node'.released = (node'.chosen /\ copy'["down"].bytes = 0)
    BY <1>3, <1>4
  <2>4. QED
    BY <2>2, <2>3, Zenon DEF BooksOK
<1>9. (ShutOK /\ ClosedOK)'
  <2>1. ShutOK'
    BY <1>1 DEF RelayInv, ShutOK
  <2>2. ClosedOK'
    BY <1>1, <1>2 DEF RelayInv, ClosedOK, Ends
  <2>3. QED
    BY <2>1, <2>2
<1>10. DeadlineOK'
  BY <1>1, <1>2, DeadlinesStay
<1>11. QED
  BY <1>5, <1>6, <1>7, <1>8, <1>9, <1>10 DEF RelayInv

-----------------------------------------------------------------------------
(* The theorems.                                                           *)

\* RelayInv is an invariant of the relay, for any amount of data and any idle
\* time.
THEOREM RelayInvariant == Spec => []RelayInv
<1>1. RelayInv /\ [Next]_vars => RelayInv'
  <2> SUFFICES ASSUME RelayInv, [Next]_vars PROVE RelayInv'
    OBVIOUS
  <2>1. CASE Peers
    BY <2>1, PeersKeep
  <2>2. CASE Tick
    BY <2>2, TickKeeps
  <2>3. CASE \E d \in Dirs : Copying(d) \/ WriteAll(d)
    <3>1. PICK d \in Dirs : Copying(d) \/ WriteAll(d)
      BY <2>3
    <3>2. QED
      BY <3>1, ReadDataKeeps, ReadEndsKeep, WriteAllKeeps, NotifyKeeps, WriteFailsKeeps
      DEF Copying
  <2>4. CASE Coordinating
    BY <2>4, ReplySentKeeps, ReplyFailsKeeps, TakeFirstKeeps, ArmRemainingKeeps,
       ShutFirstKeeps, CutKeeps, TakeSecondKeeps, PropagateKeeps, CloseBothKeeps,
       AccountKeeps
    DEF Coordinating
  <2>5. CASE UNCHANGED vars
    BY <2>5 DEF vars, RelayInv, TypeOK, CopierOK, ResultsOK, Taken, ShutOK, DeadlineOK,
                Remaining, BooksOK, ClosedOK
  <2>6. QED
    BY <2>1, <2>2, <2>3, <2>4, <2>5 DEF Next
<1>2. QED
  BY InitInv, <1>1, PTL DEF Spec

\* Types, and the two places of the result channel are enough.
THEOREM RelayTypeOK == Spec => []TypeOK
BY RelayInvariant, PTL DEF RelayInv

\* relaySOCKS5's half-close: "end of file" is passed on only after every byte.
THEOREM HalfCloseHonest == Spec => []EofIsHonest
<1>1. RelayInv => EofIsHonest
  <2> SUFFICES ASSUME RelayInv, NEW d \in Dirs, conn[To(d)] = "shut"
               PROVE  peer[From(d)].fin /\ copy[d].bytes = peer[From(d)].sent
    BY DEF EofIsHonest
  <2>1. copy[d].pc = "done" /\ copy[d].err = "none"
    BY DEF RelayInv, ShutOK
  <2>2. QED
    BY <2>1 DEF RelayInv, CopierOK
<1>2. QED
  BY <1>1, RelayInvariant, PTL

\* socks5RelayIdleDeadline: a timeout is one of the direction that is left after
\* an end of file, and no write of it was completed for the idle time.
THEOREM IdleOnly == Spec => []OnlyIdleIsCut
<1>1. RelayInv => OnlyIdleIsCut
  BY DEF RelayInv, DeadlineOK, Remaining, OnlyIdleIsCut
<1>2. QED
  BY <1>1, RelayInvariant, PTL

\* The call of RecordForwardSuccess and the release of the session agree with the
\* bytes delivered.
THEOREM BooksBalance == Spec => []BooksAgree
<1>1. RelayInv => BooksAgree
  <2> SUFFICES ASSUME RelayInv, main.pc = "returned"
               PROVE  /\ node.success = (node.chosen /\ copy["down"].bytes > 0)
                      /\ node.released = (node.chosen /\ copy["down"].bytes = 0)
    BY DEF BooksAgree
  <2>1. copy["down"].pc # "notify" /\ node.success \in BOOLEAN
    BY DEF RelayInv, ResultsOK, Dirs, TypeOK, Node
  <2>2. /\ node.success => node.chosen /\ copy["down"].bytes > 0
        /\ node.chosen /\ copy["down"].bytes > 0 => node.success
        /\ node.released = (node.chosen /\ copy["down"].bytes = 0)
    BY <2>1 DEF RelayInv, BooksOK
  <2>3. QED
    BY <2>1, <2>2, Zenon
<1>2. QED
  BY <1>1, RelayInvariant, PTL

\* When relaySOCKS5 has returned no goroutine and no connection is left.
THEOREM NothingStays == Spec => []NothingLeft
<1>1. RelayInv => NothingLeft
  BY DEF RelayInv, ResultsOK, ClosedOK, NothingLeft
<1>2. QED
  BY <1>1, RelayInvariant, PTL
=============================================================================
