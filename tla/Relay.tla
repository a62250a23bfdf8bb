------------------------------- MODULE Relay -------------------------------
(***************************************************************************)
(* One tunnel of the gateway after its upstream connection stands: the     *)
(* reply to the client, then relaySOCKS5 (proxy/socks5_server.go), which   *)
(* both the SOCKS5 entry and the HTTP CONNECT entry (relayHTTPConnect,     *)
(* proxy/server.go) use.                                                   *)
(*                                                                         *)
(* Two goroutines copy, one per direction, and report to a coordinator.    *)
(* The peers send, finish, reset and stop reading as they like.  A         *)
(* direction is named after the way its bytes travel.                      *)
(***************************************************************************)
EXTENDS Integers, Sequences

CONSTANTS
  MaxBytes,   \* bound on what a peer sends
  Idle        \* idleTimeout, in ticks

VARIABLES
  peer,       \* end -> what the peer has done
  conn,       \* end -> the gateway's side of the connection
  copy,       \* direction -> its copying goroutine
  dl,         \* direction -> its socks5RelayIdleDeadline
  results,    \* the channel of copy results
  main,       \* the coordinator
  node,       \* what the request does to its node's records
  quiet       \* history: ticks since a write of the direction was completed, or
              \* its deadline armed

vars == <<peer, conn, copy, dl, results, main, node, quiet>>

Dirs == {"up", "down"}
Ends == {"client", "upstream"}
From(d) == IF d = "up" THEN "client" ELSE "upstream"
To(d) == IF d = "up" THEN "upstream" ELSE "client"
Other(d) == IF d = "up" THEN "down" ELSE "up"

Bytes == 0..MaxBytes
Errors == {"none", "timeout", "error"}     \* none: io.Copy saw EOF
Off == -1

Peer == [sent : Bytes, fin : BOOLEAN, reset : BOOLEAN]

\* got counts the bytes read, held those read and not yet written, bytes those
\* written: io.Copy's result.
Copier ==
  [pc : {"idle", "read", "write", "notify", "done"},
   got : Bytes, held : Bytes, bytes : Bytes, err : Errors]

Deadline == [armed : BOOLEAN, left : {Off} \cup (0..Idle)]
Result == [dir : Dirs, err : Errors]
NoResult == [dir |-> "up", err |-> "error"]

Coordinator ==
  [pc : {"reply", "first", "arm", "shut", "cut", "second", "propagate", "close",
         "account", "returned"},
   first : Result, second : Result, fast : BOOLEAN]

\* chosen: the tunnel goes through a node of the pool (else it bypasses it).
Node == [chosen : BOOLEAN, success : BOOLEAN, released : BOOLEAN]

ASSUME RelayAssumption == MaxBytes \in Nat /\ Idle \in Nat \ {0}

-----------------------------------------------------------------------------
(* The peers.                                                              *)

PeerSends(e) ==
  /\ ~peer[e].fin
  /\ ~peer[e].reset
  /\ peer[e].sent < MaxBytes
  /\ peer' = [peer EXCEPT ![e].sent = @ + 1]
  /\ UNCHANGED <<conn, copy, dl, results, main, node, quiet>>

PeerFinishes(e) ==
  /\ ~peer[e].fin
  /\ peer' = [peer EXCEPT ![e].fin = TRUE]
  /\ UNCHANGED <<conn, copy, dl, results, main, node, quiet>>

PeerResets(e) ==
  /\ ~peer[e].reset
  /\ peer' = [peer EXCEPT ![e].reset = TRUE]
  /\ UNCHANGED <<conn, copy, dl, results, main, node, quiet>>

Tick ==
  /\ \E d \in Dirs : dl[d].left > 0
  /\ dl' = [d \in Dirs |-> [dl[d] EXCEPT !.left = IF @ > 0 THEN @ - 1 ELSE @]]
  /\ quiet' = [d \in Dirs |-> IF quiet[d] < Idle THEN quiet[d] + 1 ELSE quiet[d]]
  /\ UNCHANGED <<peer, conn, copy, results, main, node>>

-----------------------------------------------------------------------------
(* socks5RelayIdleDeadline; its mutex makes every operation one step.      *)

Late(d) == dl[d].left = 0

ArmedFor(d) == [dl EXCEPT ![d] = [armed |-> TRUE, left |-> Idle]]

\* Mutant of Progress: the deadline stays where arm put it.
ProgressNot(d) == dl

\* progress: nothing before arm and after clear.
Progress(d) == [dl EXCEPT ![d].left = IF dl[d].armed THEN Idle ELSE @]

\* clear, for both directions.
AllClear == [d \in Dirs |-> [armed |-> FALSE,
                             left |-> IF dl[d].armed THEN Off ELSE dl[d].left]]

-----------------------------------------------------------------------------
(* copySOCKS5Relay: io.Copy into a socks5RelayObservedWriter.              *)

\* Mutant of Report: the goroutine goes on after an error.
ReportAndGoOn(d, c, err) ==
  /\ copy' = [copy EXCEPT ![d] = [c EXCEPT !.pc = "read", !.held = 0, !.err = err]]
  /\ results' = Append(results, [dir |-> d, err |-> err])

\* io.Copy returns and the result is sent; the channel has room for both.
Report(d, c, err) ==
  /\ copy' = [copy EXCEPT ![d] = [c EXCEPT !.pc = "done", !.held = 0, !.err = err]]
  /\ results' = Append(results, [dir |-> d, err |-> err])

Pending(d) == peer[From(d)].sent - copy[d].got
Usable(e) == conn[e] # "closed" /\ ~peer[e].reset

ReadData(d) ==
  /\ copy[d].pc = "read"
  /\ Usable(From(d))
  /\ ~Late(d)
  /\ \E n \in 1..Pending(d) :
       copy' = [copy EXCEPT ![d].pc = "write", ![d].got = @ + n, ![d].held = n]
  /\ UNCHANGED <<peer, conn, dl, results, main, node, quiet>>

ReadEOF(d) ==
  /\ copy[d].pc = "read"
  /\ Usable(From(d))
  /\ ~Late(d)
  /\ peer[From(d)].fin
  /\ Pending(d) = 0
  /\ Report(d, copy[d], "none")
  /\ UNCHANGED <<peer, conn, dl, main, node, quiet>>

\* The connection is closed or reset, or the deadline is over.
ReadFails(d) ==
  /\ copy[d].pc = "read"
  /\ ~Usable(From(d)) \/ Late(d)
  /\ Report(d, copy[d], IF Usable(From(d)) THEN "timeout" ELSE "error")
  /\ UNCHANGED <<peer, conn, dl, main, node, quiet>>

CanWrite(d) == conn[To(d)] = "open" /\ ~peer[To(d)].reset

\* The peer takes everything; onWrite follows.
WriteAll(d) ==
  /\ copy[d].pc = "write"
  /\ CanWrite(d)
  /\ ~Late(d)
  /\ copy' = [copy EXCEPT ![d].pc = "notify", ![d].bytes = @ + copy[d].held, ![d].held = 0]
  /\ quiet' = [quiet EXCEPT ![d] = 0]
  /\ UNCHANGED <<peer, conn, dl, results, main, node>>

\* onWrite: progress, and the success of the node, recorded once, when the
\* client gets the first byte.  success says that RecordForwardSuccess was
\* called: its error is only logged, and it is not called again.
OnWrite(d) ==
  /\ dl' = Progress(d)
  /\ node' = [node EXCEPT !.success = @ \/ (d = "down" /\ node.chosen)]

Notify(d) ==
  /\ copy[d].pc = "notify"
  /\ OnWrite(d)
  /\ copy' = [copy EXCEPT ![d].pc = "read"]
  /\ UNCHANGED <<peer, conn, results, main, quiet>>

\* Mutant of WriteFails: a failing write is not looked at.
WriteFailsUnseen(d) ==
  /\ copy[d].pc = "write"
  /\ ~CanWrite(d) \/ Late(d)
  /\ \E n \in 0..(copy[d].held - 1) :
       Report(d, [copy[d] EXCEPT !.bytes = @ + n],
              IF CanWrite(d) THEN "timeout" ELSE "error")
  /\ UNCHANGED <<peer, conn, dl, main, node, quiet>>

\* The connection is gone, or the peer has not taken everything when the
\* deadline is over: n bytes may have got across.
WriteFails(d) ==
  /\ copy[d].pc = "write"
  /\ ~CanWrite(d) \/ Late(d)
  /\ \E n \in 0..(copy[d].held - 1) :
       /\ Report(d, [copy[d] EXCEPT !.bytes = @ + n],
                 IF CanWrite(d) THEN "timeout" ELSE "error")
       /\ IF n > 0 THEN OnWrite(d) ELSE UNCHANGED <<dl, node>>
  /\ UNCHANGED <<peer, conn, main, quiet>>

-----------------------------------------------------------------------------
(* relaySOCKS5 and its callers.                                            *)

Goto(pc) == [main EXCEPT !.pc = pc]
AllClosed == [e \in Ends |-> "closed"]

\* The client is told that the tunnel stands, and the copying begins.
ReplySent ==
  /\ main.pc = "reply"
  /\ copy' = [d \in Dirs |-> [copy[d] EXCEPT !.pc = "read"]]
  /\ main' = Goto("first")
  /\ UNCHANGED <<peer, conn, dl, results, node, quiet>>

\* It cannot be told: no hijack, in which case net/http keeps the client's
\* connection, or the reply cannot be written.
ReplyFails ==
  /\ main.pc = "reply"
  /\ \E client \in {conn["client"], "closed"} :
       conn' = [conn EXCEPT !["upstream"] = "closed", !["client"] = client]
  /\ node' = [node EXCEPT !.released = node.chosen]
  /\ main' = Goto("returned")
  /\ UNCHANGED <<peer, copy, dl, results, quiet>>

TakeFirst ==
  /\ main.pc = "first"
  /\ results # <<>>
  /\ LET r == Head(results)
     IN main' = [main EXCEPT !.first = r, !.fast = r.err # "none",
                             !.pc = IF r.err = "none" THEN "arm" ELSE "cut"]
  /\ results' = Tail(results)
  /\ UNCHANGED <<peer, conn, copy, dl, node, quiet>>

\* Mutant of ArmRemaining: the deadline of the direction that has ended.
ArmCompleted ==
  /\ main.pc = "arm"
  /\ dl' = ArmedFor(main.first.dir)
  /\ quiet' = [quiet EXCEPT ![main.first.dir] = 0]
  /\ main' = Goto("shut")
  /\ UNCHANGED <<peer, conn, copy, results, node>>

\* armRemainingSOCKS5Relay: the direction that still works gets a deadline ...
ArmRemaining ==
  /\ main.pc = "arm"
  /\ \/ /\ dl' = ArmedFor(Other(main.first.dir))
        /\ quiet' = [quiet EXCEPT ![Other(main.first.dir)] = 0]
        /\ main' = Goto("shut")
     \/ /\ main' = [main EXCEPT !.fast = TRUE, !.pc = "cut"]
        /\ UNCHANGED <<dl, quiet>>
  /\ UNCHANGED <<peer, conn, copy, results, node>>

\* Mutant of ShutFirst: the end of file goes back where it came from.
ShutSource ==
  /\ main.pc = "shut"
  /\ conn' = [conn EXCEPT ![From(main.first.dir)] = "shut"]
  /\ main' = Goto("second")
  /\ UNCHANGED <<peer, copy, dl, results, node, quiet>>

\* ... and the end of file is passed on; CloseWrite may fail.
ShutFirst ==
  /\ main.pc = "shut"
  /\ \/ /\ conn' = [conn EXCEPT ![To(main.first.dir)] = "shut"]
        /\ main' = Goto("second")
     \/ /\ main' = [main EXCEPT !.fast = TRUE, !.pc = "cut"]
        /\ UNCHANGED conn
  /\ UNCHANGED <<peer, copy, dl, results, node, quiet>>

\* The fast close, which makes the other copier return.
Cut ==
  /\ main.pc = "cut"
  /\ dl' = AllClear
  /\ conn' = AllClosed
  /\ main' = Goto("second")
  /\ UNCHANGED <<peer, copy, results, node, quiet>>

\* Mutant of TakeSecond: after a fast close nobody waits.
TakeSecondIfSlow ==
  /\ main.pc = "second"
  /\ main.fast \/ results # <<>>
  /\ main' = Goto("close")
  /\ UNCHANGED <<peer, conn, copy, dl, results, node, quiet>>

TakeSecond ==
  /\ main.pc = "second"
  /\ results # <<>>
  /\ LET r == Head(results)
     IN main' = [main EXCEPT !.second = r,
                   !.pc = IF ~main.fast /\ r.err = "none" THEN "propagate" ELSE "close"]
  /\ results' = Tail(results)
  /\ UNCHANGED <<peer, conn, copy, dl, node, quiet>>

\* propagateSOCKS5RelayEOF; an error is only logged.
Propagate ==
  /\ main.pc = "propagate"
  /\ \/ conn' = [conn EXCEPT ![To(main.second.dir)] = "shut"]
     \/ UNCHANGED conn
  /\ main' = Goto("close")
  /\ UNCHANGED <<peer, copy, dl, results, node, quiet>>

CloseBoth ==
  /\ main.pc = "close"
  /\ dl' = AllClear
  /\ conn' = AllClosed
  /\ main' = Goto("account")
  /\ UNCHANGED <<peer, copy, results, node, quiet>>

\* The session loses its binding when the client got nothing.
Account ==
  /\ main.pc = "account"
  /\ node' = [node EXCEPT !.released = node.chosen /\ copy["down"].bytes = 0]
  /\ main' = Goto("returned")
  /\ UNCHANGED <<peer, conn, copy, dl, results, quiet>>

-----------------------------------------------------------------------------
Init ==
  /\ peer = [e \in Ends |-> [sent |-> 0, fin |-> FALSE, reset |-> FALSE]]
  /\ conn = [e \in Ends |-> "open"]
  /\ copy = [d \in Dirs |-> [pc |-> "idle", got |-> 0, held |-> 0, bytes |-> 0,
                             err |-> "none"]]
  /\ dl = [d \in Dirs |-> [armed |-> FALSE, left |-> Off]]
  /\ results = <<>>
  /\ main = [pc |-> "reply", first |-> NoResult, second |-> NoResult, fast |-> FALSE]
  /\ node \in [chosen : BOOLEAN, success : {FALSE}, released : {FALSE}]
  /\ quiet = [d \in Dirs |-> 0]

Peers == \E e \in Ends : PeerSends(e) \/ PeerFinishes(e) \/ PeerResets(e)

\* The steps of a copier that do not wait for the peer to take data.
Copying(d) == ReadData(d) \/ ReadEOF(d) \/ ReadFails(d) \/ Notify(d) \/ WriteFails(d)

Coordinating ==
  \/ ReplySent \/ ReplyFails \/ TakeFirst \/ ArmRemaining \/ ShutFirst \/ Cut
  \/ TakeSecond \/ Propagate \/ CloseBoth \/ Account

Next ==
  \/ Peers
  \/ Tick
  \/ \E d \in Dirs : Copying(d) \/ WriteAll(d)
  \/ Coordinating

Spec == Init /\ [][Next]_vars

\* The gateway's goroutines run and its clock ticks.  Nothing is assumed of the
\* peers: they may be silent, never finish and never read.
FairSpec ==
  /\ Spec
  /\ WF_vars(Tick)
  /\ WF_vars(Coordinating)
  /\ \A d \in Dirs : WF_vars(Copying(d))

-----------------------------------------------------------------------------
(* Properties.                                                             *)

\* Every variable keeps its type; the result channel never needs more than the
\* two places it has.
TypeOK ==
  /\ peer \in [Ends -> Peer]
  /\ conn \in [Ends -> {"open", "shut", "closed"}]
  /\ copy \in [Dirs -> Copier]
  /\ dl \in [Dirs -> Deadline]
  /\ results \in Seq(Result)
  /\ Len(results) <= 2
  /\ main \in Coordinator
  /\ node \in Node
  /\ quiet \in [Dirs -> 0..Idle]

\* A half-close never lies: a peer is told "end of file" only when it has been
\* given every byte that the other peer sent before its own.
EofIsHonest ==
  \A d \in Dirs : conn[To(d)] = "shut" =>
    /\ peer[From(d)].fin
    /\ copy[d].bytes = peer[From(d)].sent

\* A direction times out only when the other one had already come to its end of
\* file, and when no write of its own was completed for the whole idle time: a
\* quiet direction of a tunnel that is open both ways may stay quiet, and one
\* that completes a write gets the full time again, however late onWrite runs.
\* Bytes of a write that is still going on do not count: progress runs after
\* Write has returned, so a peer that takes one long write slowly is cut too.
OnlyIdleIsCut ==
  \A d \in Dirs : copy[d].err = "timeout" =>
    /\ main.first = [dir |-> Other(d), err |-> "none"]
    /\ quiet[d] = Idle

\* The books agree with the bytes: when the tunnel is over, its node's success
\* was reported exactly if the client got a byte, those of a write that failed
\* half-way included, and otherwise the session is released from the node; a
\* bypassed pool is not told anything.
BooksAgree ==
  main.pc = "returned" =>
    /\ node.success = (node.chosen /\ copy["down"].bytes > 0)
    /\ node.released = (node.chosen /\ copy["down"].bytes = 0)

\* When the handler has returned nothing of the tunnel is left: both connections
\* are closed (the client's may live on if nothing was ever copied) and no
\* goroutine still copies.
NothingLeft ==
  main.pc = "returned" =>
    /\ conn["upstream"] = "closed"
    /\ conn["client"] = "closed" \/ copy["up"].pc = "idle"
    /\ \A d \in Dirs : copy[d].pc \in {"idle", "done"}

\* Once a direction has ended the tunnel is given back, though the peers may
\* neither send nor read nor close: the deadline of the other direction, or the
\* fast close, sees to it.  (A peer sends at most MaxBytes; one that never stops
\* sending to a peer that never stops reading may keep the tunnel open.)
EndedTunnelReturns == (\E d \in Dirs : copy[d].pc = "done") ~> (main.pc = "returned")
=============================================================================
