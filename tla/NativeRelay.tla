---------------------------- MODULE NativeRelay ----------------------------
(***************************************************************************)
(* The way of an operation from the virtual controller to the physical one *)
(* and back: broker.cpp on the Windows host, run-lab.py (relay.py is the   *)
(* same loop without a limit on the gateway's life) and gateway.py on the  *)
(* Linux client, joined by the pipes of two ssh processes.                 *)
(*                                                                         *)
(* A pipe holds whole lines, and a writer waits while it is full.  The     *)
(* relay is one thread: while it waits for room in one pipe it reads from  *)
(* none.  The driver below the broker is HidDriver's: here an operation is *)
(* queued, polled and then completed by an answer, its two-second deadline *)
(* or the end of the session.                                              *)
(***************************************************************************)
EXTENDS Naturals, Sequences, FiniteSets

CONSTANTS
  Ops,       \* operations that the HID stack asks for
  PipeLines, \* lines that a pipe holds
  NULL

ASSUME RelayAssumption == PipeLines \in Nat \ {0} /\ NULL \notin Ops

VARIABLES
  op,       \* what the driver knows of each operation
  executed, \* how often the puck has carried it out
  session,  \* the virtual device exists
  broker,   \* its command thread: "none", "read", "join" (of the poller), "gone"
  polls,    \* its poller thread goes on asking the driver for operations
  polled,   \* the operation that this thread is printing, or NULL
  relay,    \* what the relay is doing
  peer,     \* the ssh process that it forwards to, or that it stops
  lines,    \* lines that it has read and not yet forwarded
  gateway,  \* "init", "up" or "gone"
  pending,  \* lines that the gateway has read and not yet handled
  answer,   \* the line that it is printing, or NULL
  stdin, stdout, \* the two pipes of each ssh process
  shut,     \* ssh processes whose stdin the relay has closed
  link      \* ssh processes that run

driver  == <<op, executed, session>>
windows == <<broker, polls, polled>>
linux   == <<gateway, pending, answer>>
forward == <<relay, peer, lines>>
pipes   == <<stdin, stdout, shut, link>>
vars    == <<driver, windows, linux, forward, pipes>>

Peers == {"windows", "linux"}
Q(o) == <<"Q", o>>
R(o, ok) == <<"R", o, ok>>
I == <<"I">>
X == <<"X">>
Lines == {Q(o) : o \in Ops} \cup {R(o, ok) : o \in Ops, ok \in BOOLEAN}
           \cup {I, X}

Put(pipe, p, line) == [pipe EXCEPT ![p] = Append(@, line)]
Room(pipe, p) == Len(pipe[p]) < PipeLines

(* A process reads its stdin to the end.                                   *)
EndOfFile(p) == stdin[p] = <<>> /\ (p \in shut \/ p \notin link)
-----------------------------------------------------------------------------
(* The driver.                                                             *)
Ask(o) ==
  /\ session /\ op[o] = "idle"
  /\ op' = [op EXCEPT ![o] = "queued"]
  /\ UNCHANGED <<executed, session, windows, linux, forward, pipes>>

Pending(o) == op[o] \in {"queued", "polled"}

Deadline(o) ==
  /\ Pending(o)
  /\ op' = [op EXCEPT ![o] = "dropped"]
  /\ UNCHANGED <<executed, session, windows, linux, forward, pipes>>

(* stop, the cleanup of the broker's handle or the release of the device   *)
(* ends the session.                                                       *)
EndSession ==
  /\ session' = FALSE
  /\ op' = [o \in Ops |-> IF Pending(o) THEN "dropped" ELSE op[o]]
  /\ UNCHANGED executed

(* The device goes away, or is disabled, under the broker.                 *)
DeviceReleased ==
  /\ session /\ EndSession
  /\ UNCHANGED <<windows, linux, forward, pipes>>
-----------------------------------------------------------------------------
(* The broker's command thread.                                            *)
BrokerInput ==
  /\ broker = "read" /\ stdin["windows"] # <<>>
  /\ Head(stdin["windows"]) = I
  /\ stdin' = [stdin EXCEPT !["windows"] = Tail(@)]
  /\ UNCHANGED <<driver, windows, linux, forward, stdout, shut, link>>

(* The driver takes an answer only for an operation that was polled and is *)
(* not completed.                                                          *)
BrokerReply(o, ok) ==
  /\ broker = "read" /\ stdin["windows"] # <<>>
  /\ Head(stdin["windows"]) = R(o, ok)
  /\ stdin' = [stdin EXCEPT !["windows"] = Tail(@)]
  /\ op' = [op EXCEPT ![o] = IF @ # "polled" THEN @
                             ELSE IF ok THEN "succeeded" ELSE "failed"]
  /\ UNCHANGED <<executed, session, windows, linux, forward, stdout, shut, link>>

BrokerStops ==
  /\ broker = "read"
  /\ EndOfFile("windows") \/ (stdin["windows"] # <<>> /\ Head(stdin["windows"]) = X)
  /\ broker' = "join" /\ polls' = FALSE
  /\ UNCHANGED <<driver, polled, linux, forward, pipes>>

(* Mutant of PollerPolls: an operation that is handed out stays queued.    *)
PollerPollsAgain(o) ==
  /\ polls /\ polled = NULL /\ op[o] = "queued"
  /\ polled' = o
  /\ UNCHANGED <<driver, broker, polls, linux, forward, pipes>>

(* The poller looks at done only between two operations.                   *)
PollerPolls(o) ==
  /\ polls /\ polled = NULL /\ op[o] = "queued"
  /\ polled' = o /\ op' = [op EXCEPT ![o] = "polled"]
  /\ UNCHANGED <<executed, session, broker, polls, linux, forward, pipes>>

(* The driver refuses it once the broker owns no session: the thread ends, *)
(* and the command thread reads on.                                        *)
PollerFails ==
  /\ polls /\ polled = NULL /\ ~session
  /\ polls' = FALSE
  /\ UNCHANGED <<driver, broker, polled, linux, forward, pipes>>

PollerPrints ==
  /\ polled # NULL /\ broker # "gone"
  /\ polled' = NULL
  /\ \/ /\ "windows" \in link /\ Room(stdout, "windows")
        /\ stdout' = Put(stdout, "windows", Q(polled))
     \/ "windows" \notin link /\ UNCHANGED stdout
  /\ UNCHANGED <<driver, broker, polls, linux, forward, stdin, shut, link>>

BrokerExits ==
  /\ broker = "join" /\ polled = NULL
  /\ broker' = "gone" /\ EndSession
  /\ link' = link \ {"windows"}
  /\ UNCHANGED <<polls, polled, linux, forward, stdin, stdout, shut>>

BrokerDies ==
  /\ broker \in {"read", "join"}
  /\ broker' = "gone" /\ polls' = FALSE /\ polled' = NULL /\ EndSession
  /\ link' = link \ {"windows"}
  /\ UNCHANGED <<linux, forward, stdin, stdout, shut>>
-----------------------------------------------------------------------------
(* The gateway: one thread, which handles all it has read before it looks  *)
(* at its endpoints again.                                                 *)
Selecting == gateway = "up" /\ pending = <<>> /\ answer = NULL

(* It has found the puck and prints READY.                                 *)
GatewayStarts ==
  /\ gateway = "init" /\ gateway' = "up"
  /\ UNCHANGED <<driver, windows, forward, pending, answer, pipes>>

GatewayInput ==
  /\ Selecting /\ answer' = I
  /\ UNCHANGED <<driver, windows, forward, gateway, pending, pipes>>

GatewayReads ==
  /\ Selecting /\ stdin["linux"] # <<>>
  /\ pending' = stdin["linux"]
  /\ stdin' = [stdin EXCEPT !["linux"] = <<>>]
  /\ UNCHANGED <<driver, windows, forward, gateway, answer, stdout, shut, link>>

(* Mutant of GatewayHandles: a request that it refuses is answered as if   *)
(* it had been carried out.                                                *)
GatewayApproves(ok) ==
  /\ gateway = "up" /\ pending # <<>> /\ answer = NULL /\ Head(pending) # X
  /\ LET o == Head(pending)[2] IN
       /\ answer' = R(o, TRUE)
       /\ executed' = [executed EXCEPT ![o] = IF ok THEN @ + 1 ELSE @]
  /\ pending' = Tail(pending)
  /\ UNCHANGED <<op, session, windows, forward, gateway, pipes>>

(* It checks a request and passes it to the puck, or finds it bad.         *)
GatewayHandles(ok) ==
  /\ gateway = "up" /\ pending # <<>> /\ answer = NULL /\ Head(pending) # X
  /\ LET o == Head(pending)[2] IN
       /\ answer' = R(o, ok)
       /\ executed' = [executed EXCEPT ![o] = IF ok THEN @ + 1 ELSE @]
  /\ pending' = Tail(pending)
  /\ UNCHANGED <<op, session, windows, forward, gateway, pipes>>

GatewayPrints ==
  /\ gateway = "up" /\ answer # NULL /\ "linux" \in link /\ Room(stdout, "linux")
  /\ stdout' = Put(stdout, "linux", answer) /\ answer' = NULL
  /\ UNCHANGED <<driver, windows, forward, gateway, pending, stdin, shut, link>>

GatewayGone ==
  /\ gateway' = "gone" /\ pending' = <<>> /\ answer' = NULL
  /\ link' = link \ {"linux"}
  /\ UNCHANGED <<driver, windows, forward, stdin, stdout, shut>>

GatewayExits ==
  /\ \/ Selecting /\ EndOfFile("linux")
     \/ gateway = "up" /\ pending # <<>> /\ answer = NULL /\ Head(pending) = X
     \/ gateway = "up" /\ answer # NULL /\ "linux" \notin link
  /\ GatewayGone

(* timeout ends it after the session's minutes and ten seconds, the loss   *)
(* of its device at any time.                                              *)
GatewayEnds == gateway # "gone" /\ GatewayGone
-----------------------------------------------------------------------------
(* The relay.  Once the gateway is ready it starts the broker.             *)
Ready ==
  /\ relay = "starting" /\ gateway = "up"
  /\ relay' = "select" /\ broker' = "read" /\ polls' = TRUE /\ session' = TRUE
  /\ link' = link \cup {"windows"}
  /\ UNCHANGED <<op, executed, polled, peer, lines, linux, stdin, stdout, shut>>

Other(p) == IF p = "windows" THEN "linux" ELSE "windows"

(* It reads all that one endpoint has written.                             *)
Read(p) ==
  /\ relay = "select" /\ stdout[p] # <<>>
  /\ lines' = stdout[p] /\ stdout' = [stdout EXCEPT ![p] = <<>>]
  /\ peer' = Other(p) /\ relay' = "write"
  /\ UNCHANGED <<driver, windows, linux, stdin, shut, link>>

Forward ==
  /\ relay = "write" /\ peer \in link /\ Room(stdin, peer)
  /\ stdin' = Put(stdin, peer, Head(lines))
  /\ lines' = Tail(lines)
  /\ relay' = IF Tail(lines) = <<>> THEN "select" ELSE "write"
  /\ UNCHANGED <<driver, windows, linux, peer, stdout, shut, link>>

(* finally: the broker is stopped first, if it was started.                *)
StopPeers ==
  /\ relay' = "X" /\ lines' = <<>>
  /\ peer' = IF broker = "none" THEN "linux" ELSE "windows"
  /\ UNCHANGED <<driver, windows, linux, pipes>>

(* An endpoint is closed or cannot be written to, the time is up, or       *)
(* somebody ends the relay.                                                *)
Disconnected ==
  /\ \/ relay = "starting" /\ gateway = "gone"
     \/ relay = "select" /\ \E p \in Peers : p \notin link /\ stdout[p] = <<>>
     \/ relay = "write" /\ peer \notin link
  /\ StopPeers

Interrupted == relay \in {"starting", "select", "write"} /\ StopPeers

NextPeer ==
  /\ relay' = IF peer = "windows" THEN "X" ELSE "ended"
  /\ peer' = "linux"
  /\ UNCHANGED lines

(* Writing X has no time-out: it waits for room.                           *)
WriteX ==
  /\ relay = "X" /\ peer \in link /\ Room(stdin, peer)
  /\ stdin' = Put(stdin, peer, X) /\ shut' = shut \cup {peer}
  /\ relay' = "wait"
  /\ UNCHANGED <<driver, windows, linux, peer, lines, stdout, link>>

PeerGone ==
  /\ relay \in {"X", "wait"} /\ peer \notin link
  /\ NextPeer
  /\ UNCHANGED <<driver, windows, linux, pipes>>

(* Mutant of Kill: the relay waits for the gateway only.                   *)
KillLinux ==
  /\ relay = "wait" /\ peer = "linux" /\ peer \in link
  /\ link' = link \ {peer}
  /\ NextPeer
  /\ UNCHANGED <<driver, windows, linux, stdin, stdout, shut>>

(* After ten seconds it kills the ssh process.                             *)
Kill ==
  /\ relay = "wait" /\ peer \in link
  /\ link' = link \ {peer}
  /\ NextPeer
  /\ UNCHANGED <<driver, windows, linux, stdin, stdout, shut>>

(* The network fails under an ssh process.                                 *)
LinkLost(p) ==
  /\ p \in link /\ link' = link \ {p}
  /\ UNCHANGED <<driver, windows, linux, forward, stdin, stdout, shut>>
-----------------------------------------------------------------------------
Init ==
  /\ op = [o \in Ops |-> "idle"] /\ executed = [o \in Ops |-> 0]
  /\ session = FALSE /\ broker = "none" /\ polls = FALSE /\ polled = NULL
  /\ relay = "starting" /\ peer = "linux" /\ lines = <<>>
  /\ gateway = "init" /\ pending = <<>> /\ answer = NULL
  /\ stdin = [p \in Peers |-> <<>>] /\ stdout = [p \in Peers |-> <<>>]
  /\ shut = {} /\ link = {"linux"}

Broker ==
  \/ BrokerInput \/ BrokerStops \/ BrokerExits
  \/ \E o \in Ops, ok \in BOOLEAN : BrokerReply(o, ok)
Poller  == PollerPrints \/ PollerFails \/ \E o \in Ops : PollerPolls(o)
Gateway == \/ GatewayStarts \/ GatewayReads \/ GatewayPrints \/ GatewayExits
           \/ \E ok \in BOOLEAN : GatewayHandles(ok)
Relay   == \/ Ready \/ Forward \/ Disconnected \/ WriteX \/ PeerGone \/ Kill
           \/ \E p \in Peers : Read(p)

Next ==
  \/ Broker \/ Poller \/ Gateway \/ Relay \/ Interrupted
  \/ BrokerDies \/ DeviceReleased \/ GatewayInput \/ GatewayEnds
  \/ \E o \in Ops : Ask(o) \/ Deadline(o)
  \/ \E p \in Peers : LinkLost(p)

(* The processes run, and the gateway's time limit comes.                  *)
Spec == /\ Init /\ [][Next]_vars
        /\ WF_vars(Broker) /\ WF_vars(Poller) /\ WF_vars(Gateway)
        /\ WF_vars(Relay) /\ WF_vars(GatewayEnds)
-----------------------------------------------------------------------------
Pipe == UNION {[1 .. n -> Lines] : n \in 0 .. PipeLines}

TypeOK ==
  /\ op \in [Ops -> {"idle", "queued", "polled", "succeeded", "failed",
                     "dropped"}]
  /\ executed \in [Ops -> 0 .. 1] /\ session \in BOOLEAN
  /\ broker \in {"none", "read", "join", "gone"}
  /\ polls \in BOOLEAN /\ polled \in Ops \cup {NULL}
  /\ relay \in {"starting", "select", "write", "X", "wait", "ended"}
  /\ peer \in Peers /\ lines \in Pipe
  /\ gateway \in {"init", "up", "gone"} /\ pending \in Pipe
  /\ answer \in Lines \cup {NULL}
  /\ stdin \in [Peers -> Pipe] /\ stdout \in [Peers -> Pipe]
  /\ shut \subseteq Peers /\ link \subseteq Peers

(* An operation that the HID stack is told has succeeded was carried out   *)
(* by the puck, and no operation is carried out twice, whatever is lost or *)
(* arrives after its deadline on the way (gateway.py:23-41,                *)
(* broker.cpp:118-162).                                                    *)
HonestAnswers ==
  \A o \in Ops : executed[o] <= 1 /\ (op[o] = "succeeded" => executed[o] = 1)

(* The relay always ends and takes the virtual device with it ("Ctrl+C     *)
(* removes the virtual device", run-lab.py:2), although relay and gateway  *)
(* may come to wait for each other with full pipes, and the poller for a   *)
(* relay that no longer reads.                                             *)
RelayEnds == <>(relay = "ended" /\ ~session /\ gateway = "gone")
=============================================================================
