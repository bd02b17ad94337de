-------------------------- MODULE NativeRelayProofs --------------------------
(***************************************************************************)
(* Proofs about NativeRelay, for every set of operations and every size of *)
(* the pipes.                                                              *)
(***************************************************************************)
EXTENDS NativeRelay, SequenceTheorems, TLAPS

Requests == {Q(o) : o \in Ops}
Replies  == {R(o, ok) : o \in Ops, ok \in BOOLEAN} \cup {I}

(* A pipe, or a batch of lines read from one, that carries lines of L.     *)
Carries(s, L) == s \in Seq(L) /\ Len(s) <= PipeLines

Holds(s, line) == \E i \in 1 .. Len(s) : s[i] = line

(* No request is in it twice.                                              *)
Once(s) ==
  \A o \in Ops : \A i, j \in 1 .. Len(s) : s[i] = Q(o) /\ s[j] = Q(o) => i = j

(* Lines are told apart by what they are and by their operation.           *)
LEMMA Distinct ==
  /\ \A o, g \in Ops : Q(o) = Q(g) => o = g
  /\ \A o, g \in Ops, ok \in BOOLEAN : Q(o) # R(g, ok)
  /\ \A o \in Ops : Q(o) # X /\ Q(o) # I /\ Q(o)[2] = o
  /\ \A o, g \in Ops, ok \in BOOLEAN : R(o, TRUE) = R(g, ok) => o = g /\ ok
  /\ \A o \in Ops : R(o, TRUE) # X /\ R(o, TRUE) # I
  /\ I # X
<1>1. \A o \in Ops : Q(o)[1] = "Q" /\ Q(o)[2] = o
  BY DEF Q
<1>2. \A o \in Ops, ok \in BOOLEAN :
        R(o, ok)[1] = "R" /\ R(o, ok)[2] = o /\ R(o, ok)[3] = ok
  BY DEF R
<1>3. I[1] = "I" /\ X[1] = "X"
  BY DEF I, X
<1>4. ASSUME NEW o \in Ops, NEW g \in Ops, Q(o) = Q(g) PROVE o = g
  BY <1>1, <1>4
<1>5. ASSUME NEW o \in Ops, NEW g \in Ops, NEW ok \in BOOLEAN PROVE Q(o) # R(g, ok)
  BY <1>1, <1>2
<1>6. ASSUME NEW o \in Ops PROVE Q(o) # X /\ Q(o) # I /\ Q(o)[2] = o
  BY <1>1, <1>3
<1>7. ASSUME NEW o \in Ops PROVE R(o, TRUE) # X /\ R(o, TRUE) # I
  BY <1>2, <1>3
<1>8. I # X
  BY <1>3
<1>9. ASSUME NEW o \in Ops, NEW g \in Ops, NEW ok \in BOOLEAN, R(o, TRUE) = R(g, ok)
      PROVE  o = g /\ ok
  <2>1. R(o, TRUE)[2] = o /\ R(o, TRUE)[3] = TRUE
    BY <1>2
  <2>2. R(g, ok)[2] = g /\ R(g, ok)[3] = ok
    BY <1>2
  <2> QED BY <1>9, <2>1, <2>2, Zenon
<1> QED
  BY <1>4, <1>5, <1>6, <1>7, <1>8, <1>9

(* What an empty, a shortened and a lengthened pipe hold.                  *)
LEMMA NothingHeld == Once(<<>>) /\ \A line : ~Holds(<<>>, line)
  BY DEF Once, Holds

LEMMA TailHolds ==
  ASSUME NEW L, NEW s, Carries(s, L), s # <<>>
  PROVE  /\ Carries(Tail(s), L) /\ Head(s) \in L /\ Holds(s, Head(s))
         /\ \A line : Holds(Tail(s), line) => Holds(s, line)
         /\ Once(s) => /\ Once(Tail(s))
                       /\ \A o \in Ops : Head(s) = Q(o) => ~Holds(Tail(s), Q(o))
<1>1. /\ Tail(s) \in Seq(L) /\ Len(Tail(s)) = Len(s) - 1 /\ Len(s) \in Nat \ {0}
      /\ \A i \in 1 .. Len(Tail(s)) : Tail(s)[i] = s[i + 1]
      /\ Head(s) \in L /\ Head(s) = s[1]
  BY HeadTailProperties, EmptySeq DEF Carries
<1>2. PipeLines \in Nat
  BY RelayAssumption
<1>3. Carries(Tail(s), L)
  BY <1>1, <1>2 DEF Carries
<1>4. Holds(s, Head(s))
  BY <1>1 DEF Holds
<1>5. \A line : Holds(Tail(s), line) => Holds(s, line)
  BY <1>1 DEF Holds
<1>6. Once(s) => Once(Tail(s))
  <2> SUFFICES ASSUME Once(s), NEW o \in Ops,
                      NEW i \in 1 .. Len(Tail(s)), NEW j \in 1 .. Len(Tail(s)),
                      Tail(s)[i] = Q(o), Tail(s)[j] = Q(o)
               PROVE  i = j
    BY DEF Once
  <2>1. i + 1 \in 1 .. Len(s) /\ j + 1 \in 1 .. Len(s)
    BY <1>1
  <2>2. s[i + 1] = Q(o) /\ s[j + 1] = Q(o)
    BY <1>1
  <2>3. i + 1 = j + 1
    BY <2>1, <2>2 DEF Once
  <2> QED BY <2>3
<1>7. Once(s) => \A o \in Ops : Head(s) = Q(o) => ~Holds(Tail(s), Q(o))
  <2> SUFFICES ASSUME Once(s), NEW o \in Ops, Head(s) = Q(o),
                      NEW i \in 1 .. Len(Tail(s)), Tail(s)[i] = Q(o)
               PROVE  FALSE
    BY DEF Holds
  <2>1. i + 1 \in 1 .. Len(s) /\ 1 \in 1 .. Len(s) /\ i + 1 # 1
    BY <1>1
  <2>2. s[i + 1] = Q(o) /\ s[1] = Q(o)
    BY <1>1
  <2> QED BY <2>1, <2>2 DEF Once
<1> QED
  BY <1>1, <1>3, <1>4, <1>5, <1>6, <1>7

LEMMA AppendHolds ==
  ASSUME NEW L, NEW s, Carries(s, L), NEW line \in L, Len(s) < PipeLines
  PROVE  /\ Carries(Append(s, line), L)
         /\ \A other : Holds(Append(s, line), other) => Holds(s, other) \/ other = line
         /\ Once(s) /\ ~Holds(s, line) => Once(Append(s, line))
         /\ Once(s) /\ line \notin Requests => Once(Append(s, line))
<1> DEFINE t == Append(s, line)
<1>1. /\ t \in Seq(L) /\ Len(t) = Len(s) + 1 /\ Len(s) \in Nat
      /\ \A i \in 1 .. Len(s) : t[i] = s[i]
      /\ t[Len(s) + 1] = line
  BY AppendProperties, LenProperties DEF Carries
<1>2. PipeLines \in Nat
  BY RelayAssumption
<1>3. Carries(t, L)
  BY <1>1, <1>2 DEF Carries
<1> HIDE DEF t
<1>4. \A other : Holds(t, other) => Holds(s, other) \/ other = line
  BY <1>1 DEF Holds
<1>5. ASSUME Once(s), NEW o \in Ops, NEW i \in 1 .. Len(t), NEW j \in 1 .. Len(t),
             t[i] = Q(o), t[j] = Q(o), ~Holds(s, line) \/ line \notin Requests
      PROVE  i = j
  <2>1. CASE i \in 1 .. Len(s) /\ j \in 1 .. Len(s)
    BY <1>1, <1>5, <2>1 DEF Once
  <2>2. CASE i = Len(s) + 1 /\ j = Len(s) + 1
    BY <2>2
  <2>3. CASE i = Len(s) + 1 /\ j \in 1 .. Len(s)
    BY <1>1, <1>5, <2>3 DEF Holds, Requests
  <2>4. CASE i \in 1 .. Len(s) /\ j = Len(s) + 1
    BY <1>1, <1>5, <2>4 DEF Holds, Requests
  <2> QED BY <1>1, <2>1, <2>2, <2>3, <2>4
<1>6. Once(s) /\ (~Holds(s, line) \/ line \notin Requests) => Once(t)
  BY <1>5 DEF Once
<1> QED
  BY <1>3, <1>4, <1>6 DEF t
-----------------------------------------------------------------------------
(* The inductive invariant.  Everything but the pipes is well typed.       *)
PartsOK ==
  /\ op \in [Ops -> {"idle", "queued", "polled", "succeeded", "failed",
                     "dropped"}]
  /\ executed \in [Ops -> 0 .. 1] /\ session \in BOOLEAN
  /\ broker \in {"none", "read", "join", "gone"}
  /\ polled \in Ops \cup {NULL}
  /\ relay \in {"starting", "select", "write", "X", "wait", "ended"}
  /\ peer \in Peers
  /\ gateway \in {"init", "up", "gone"}
  /\ shut \subseteq Peers /\ link \subseteq Peers

(* Requests go one way and replies the other.                              *)
Ways ==
  /\ stdin = [p \in Peers |-> stdin[p]] /\ stdout = [p \in Peers |-> stdout[p]]
  /\ Carries(stdout["windows"], Requests)
  /\ Carries(stdin["linux"], Requests \cup {X})
  /\ Carries(pending, Requests \cup {X})
  /\ Carries(stdout["linux"], Replies)
  /\ Carries(stdin["windows"], Replies \cup {X})
  /\ answer \in Replies \cup {NULL}
  /\ Carries(lines, IF peer = "linux" THEN Requests ELSE Replies)
  /\ relay = "write" <=> lines # <<>>

(* A request is in one place at a time and only once in it, none is on its *)
(* way before the operation is polled or after the puck has it.            *)
Places == {"poller", "stdout", "relay", "stdin", "gateway"}

At(o, place) ==
  \/ place = "poller"  /\ polled = o
  \/ place = "stdout"  /\ Holds(stdout["windows"], Q(o))
  \/ place = "relay"   /\ Holds(lines, Q(o))
  \/ place = "stdin"   /\ Holds(stdin["linux"], Q(o))
  \/ place = "gateway" /\ Holds(pending, Q(o))

OnePlace == \A o \in Ops : \A a, b \in Places : At(o, a) /\ At(o, b) => a = b

OnceEach ==
  /\ Once(stdout["windows"]) /\ Once(lines)
  /\ Once(stdin["linux"]) /\ Once(pending)

Fresh(o) == op[o] \in {"idle", "queued"}

NotYet ==
  \A o \in Ops : /\ \A a \in Places : At(o, a) => ~Fresh(o) /\ executed[o] = 0
                 /\ Fresh(o) => executed[o] = 0

(* That an operation has been carried out is on its way only if it has.    *)
Told(o) ==
  \/ answer # NULL /\ answer = R(o, TRUE)
  \/ Holds(stdout["linux"], R(o, TRUE))
  \/ Holds(lines, R(o, TRUE))
  \/ Holds(stdin["windows"], R(o, TRUE))
  \/ op[o] = "succeeded"

ToldTrue == \A o \in Ops : Told(o) => executed[o] = 1

Requested == OnePlace /\ OnceEach /\ NotYet
RelayInv  == PartsOK /\ polls \in BOOLEAN /\ Ways /\ Requested /\ ToldTrue

(* Next, action by action.                                                 *)
LEMMA StepCases ==
  ASSUME [Next]_vars
  PROVE  \/ BrokerInput \/ BrokerStops \/ BrokerExits \/ BrokerDies
         \/ \E o \in Ops, ok \in BOOLEAN : BrokerReply(o, ok)
         \/ DeviceReleased
         \/ PollerPrints \/ PollerFails \/ \E o \in Ops : PollerPolls(o)
         \/ GatewayStarts \/ GatewayInput \/ GatewayReads \/ GatewayPrints
         \/ GatewayGone \/ \E ok \in BOOLEAN : GatewayHandles(ok)
         \/ Ready \/ Forward \/ WriteX \/ PeerGone \/ Kill
         \/ StopPeers \/ \E p \in Peers : Read(p)
         \/ \E o \in Ops : Ask(o) \/ Deadline(o)
         \/ \E p \in Peers : LinkLost(p)
         \/ UNCHANGED vars
  BY DEF Next, Broker, Poller, Gateway, Relay, GatewayExits, GatewayEnds,
         Disconnected, Interrupted

LEMMA InitInv ==
  ASSUME Init
  PROVE  RelayInv
<1>1. PartsOK
  <2>1. session \in BOOLEAN
    BY Zenon DEF Init
  <2> QED BY <2>1 DEF Init, PartsOK, Peers
<1>2. \A L : Carries(<<>>, L)
  BY EmptySeq, RelayAssumption DEF Carries
<1>3. /\ stdin["windows"] = <<>> /\ stdin["linux"] = <<>>
      /\ stdout["windows"] = <<>> /\ stdout["linux"] = <<>>
  BY DEF Init, Peers
<1>4. Ways
  BY <1>2, <1>3 DEF Init, Ways
<1>5. Requested
  BY <1>3, NothingHeld, RelayAssumption
  DEF Init, Requested, OnePlace, OnceEach, NotYet, At, Places, Fresh
<1>6. ToldTrue
  BY <1>3, NothingHeld DEF Init, ToldTrue, Told
<1>7. polls \in BOOLEAN
  BY Zenon DEF Init
<1> QED
  BY <1>1, <1>4, <1>5, <1>6, <1>7 DEF RelayInv

(* Whether the poller goes on is always known.                             *)
LEMMA PollsStep ==
  ASSUME polls \in BOOLEAN, [Next]_vars
  PROVE  polls' \in BOOLEAN
<1>1. \/ UNCHANGED polls
      \/ BrokerStops \/ BrokerDies \/ PollerFails \/ Ready
  BY StepCases
  DEF BrokerInput, BrokerExits, DeviceReleased, BrokerReply, PollerPrints,
      PollerPolls, GatewayStarts, GatewayInput, GatewayReads, GatewayPrints,
      GatewayGone, GatewayHandles, Forward, WriteX, PeerGone, Kill, StopPeers,
      Read, Ask, Deadline, LinkLost, vars, windows
<1>2. CASE BrokerStops \/ BrokerDies \/ PollerFails \/ Ready
  BY <1>2, Zenon DEF BrokerStops, BrokerDies, PollerFails, Ready
<1> QED
  BY <1>1, <1>2

(* The parts stay well typed.  The gateway carries out what it was asked   *)
(* for, which it has not done yet.                                         *)
LEMMA PartsStep ==
  ASSUME RelayInv, [Next]_vars
  PROVE  PartsOK'
<1>0. PartsOK
  BY DEF RelayInv
<1>1. CASE BrokerInput \/ BrokerStops
  BY <1>0, <1>1 DEF BrokerInput, BrokerStops, PartsOK, driver, windows, linux,
                    forward, pipes
<1>2. CASE BrokerExits \/ BrokerDies \/ DeviceReleased
  <2>1. session' \in BOOLEAN
    BY <1>2, Zenon DEF BrokerExits, BrokerDies, DeviceReleased, EndSession
  <2> QED BY <1>0, <1>2, <2>1
          DEF BrokerExits, BrokerDies, DeviceReleased, EndSession, PartsOK,
              windows, linux, forward, pipes
<1>3. CASE \E o \in Ops, ok \in BOOLEAN : BrokerReply(o, ok)
  BY <1>0, <1>3 DEF BrokerReply, PartsOK, windows, linux, forward
<1>4. CASE PollerPrints \/ PollerFails \/ \E o \in Ops : PollerPolls(o)
  BY <1>0, <1>4 DEF PollerPrints, PollerFails, PollerPolls, PartsOK, driver,
                    linux, forward, pipes
<1>5. CASE GatewayStarts \/ GatewayInput \/ GatewayReads \/ GatewayPrints
  BY <1>0, <1>5
  DEF GatewayStarts, GatewayInput, GatewayReads, GatewayPrints, PartsOK, driver,
      windows, forward, pipes
<1>6. CASE GatewayGone
  BY <1>0, <1>6 DEF GatewayGone, PartsOK, driver, windows, forward
<1>7. CASE \E ok \in BOOLEAN : GatewayHandles(ok)
  <2> PICK ok \in BOOLEAN : GatewayHandles(ok)
    BY <1>7
  <2> DEFINE g == Head(pending)[2]
  <2>1. /\ executed' = [executed EXCEPT ![g] = IF ok THEN @ + 1 ELSE @]
        /\ pending # <<>> /\ Head(pending) # X
        /\ UNCHANGED <<op, session, broker, polled, relay, peer, gateway, shut, link>>
    BY DEF GatewayHandles, windows, forward, pipes
  <2>2. Head(pending) \in Requests /\ Holds(pending, Head(pending))
    BY <2>1, TailHolds DEF RelayInv, Ways
  <2>3. g \in Ops /\ Head(pending) = Q(g)
    BY <2>2, Distinct DEF Requests
  <2>4. executed[g] = 0
    BY <2>2, <2>3 DEF RelayInv, Requested, NotYet, At, Places
  <2> HIDE DEF g
  <2>5. executed' \in [Ops -> 0 .. 1]
    BY <1>0, <2>1, <2>3, <2>4 DEF PartsOK
  <2> QED BY <1>0, <2>1, <2>5 DEF PartsOK
<1>8. CASE Ready
  <2>1. session' \in BOOLEAN
    BY <1>8, Zenon DEF Ready
  <2> QED BY <1>0, <1>8, <2>1 DEF Ready, PartsOK, linux, Peers
<1>9. CASE Forward \/ WriteX \/ StopPeers
  BY <1>0, <1>9
  DEF Forward, WriteX, StopPeers, PartsOK, driver, windows, linux, pipes, Peers
<1>10. CASE PeerGone \/ Kill
  BY <1>0, <1>10
  DEF PeerGone, Kill, NextPeer, PartsOK, driver, windows, linux, pipes, Peers
<1>11. CASE \E p \in Peers : Read(p)
  BY <1>0, <1>11 DEF Read, Other, PartsOK, driver, windows, linux, Peers
<1>12. CASE \E o \in Ops : Ask(o) \/ Deadline(o)
  BY <1>0, <1>12 DEF Ask, Deadline, PartsOK, windows, linux, forward, pipes
<1>13. CASE \E p \in Peers : LinkLost(p)
  BY <1>0, <1>13 DEF LinkLost, PartsOK, driver, windows, linux, forward
<1>14. CASE UNCHANGED vars
  BY <1>0, <1>14 DEF vars, PartsOK, driver, windows, linux, forward, pipes
<1> QED
  BY StepCases, <1>1, <1>2, <1>3, <1>4, <1>5, <1>6, <1>7, <1>8, <1>9, <1>10,
     <1>11, <1>12, <1>13, <1>14

(* Every line stays on its way.                                            *)
LEMMA WaysStep ==
  ASSUME RelayInv, [Next]_vars
  PROVE  Ways'
<1>0. PartsOK /\ Ways
  BY DEF RelayInv
<1>a. "windows" \in Peers /\ "linux" \in Peers /\ Peers = {"windows", "linux"}
  BY DEF Peers
<1>e. \A L : Carries(<<>>, L)
  BY EmptySeq, RelayAssumption DEF Carries
<1>1. CASE UNCHANGED <<stdin, stdout, peer, lines, relay, pending, answer>>
  BY <1>0, <1>1 DEF Ways
<1>2. CASE BrokerInput \/ \E o \in Ops, ok \in BOOLEAN : BrokerReply(o, ok)
  <2>1. /\ stdin["windows"] # <<>>
        /\ stdin' = [stdin EXCEPT !["windows"] = Tail(stdin["windows"])]
        /\ UNCHANGED <<stdout, peer, lines, relay, pending, answer>>
    BY <1>2 DEF BrokerInput, BrokerReply, linux, forward
  <2>2. Carries(Tail(stdin["windows"]), Replies \cup {X})
    BY <1>0, <2>1, TailHolds DEF Ways
  <2> QED BY <1>0, <1>a, <2>1, <2>2 DEF Ways
<1>3. CASE PollerPrints
  <2>1. UNCHANGED <<stdin, peer, lines, relay, pending, answer>> /\ polled \in Ops
    BY <1>0, <1>3 DEF PollerPrints, PartsOK, linux, forward
  <2>2. CASE UNCHANGED stdout
    BY <1>1, <2>1, <2>2
  <2>3. CASE /\ Room(stdout, "windows")
             /\ stdout' = Put(stdout, "windows", Q(polled))
    <3>1. Q(polled) \in Requests
      BY <2>1 DEF Requests
    <3>2. Carries(Append(stdout["windows"], Q(polled)), Requests)
      BY <1>0, <2>3, <3>1, AppendHolds DEF Ways, Room
    <3> QED BY <1>0, <1>a, <2>1, <2>3, <3>2 DEF Ways, Put
  <2> QED BY <1>3, <2>2, <2>3 DEF PollerPrints
<1>4. CASE GatewayInput
  BY <1>0, <1>4 DEF GatewayInput, Ways, forward, pipes, Replies
<1>5. CASE GatewayReads
  <2>1. /\ pending' = stdin["linux"] /\ stdin' = [stdin EXCEPT !["linux"] = <<>>]
        /\ UNCHANGED <<stdout, peer, lines, relay, answer>>
    BY <1>5 DEF GatewayReads, forward
  <2> QED BY <1>0, <1>a, <1>e, <2>1 DEF Ways
<1>6. CASE GatewayPrints
  <2>1. /\ answer # NULL /\ Room(stdout, "linux")
        /\ stdout' = Put(stdout, "linux", answer) /\ answer' = NULL
        /\ UNCHANGED <<stdin, peer, lines, relay, pending>>
    BY <1>6 DEF GatewayPrints, forward
  <2>2. Carries(Append(stdout["linux"], answer), Replies)
    BY <1>0, <2>1, AppendHolds DEF Ways, Room
  <2> QED BY <1>0, <1>a, <2>1, <2>2 DEF Ways, Put
<1>7. CASE GatewayGone
  BY <1>0, <1>7, <1>e DEF GatewayGone, Ways, forward
<1>8. CASE \E ok \in BOOLEAN : GatewayHandles(ok)
  <2> PICK ok \in BOOLEAN : GatewayHandles(ok)
    BY <1>8
  <2> DEFINE g == Head(pending)[2]
  <2>1. /\ pending # <<>> /\ Head(pending) # X
        /\ answer' = R(g, ok) /\ pending' = Tail(pending)
        /\ UNCHANGED <<stdin, stdout, peer, lines, relay>>
    BY DEF GatewayHandles, forward, pipes
  <2>2. Head(pending) \in Requests /\ Carries(Tail(pending), Requests \cup {X})
    BY <1>0, <2>1, TailHolds DEF Ways
  <2>3. g \in Ops
    BY <2>2, Distinct DEF Requests
  <2>4. R(g, ok) \in Replies
    BY <2>3 DEF Replies
  <2> HIDE DEF g
  <2> QED BY <1>0, <2>1, <2>2, <2>4 DEF Ways
<1>9. CASE Ready
  <2>1. /\ relay = "starting" /\ relay' = "select"
        /\ UNCHANGED <<stdin, stdout, peer, lines, pending, answer>>
    BY <1>9 DEF Ready, linux
  <2> QED BY <1>0, <2>1 DEF Ways
<1>10. CASE \E p \in Peers : Read(p)
  <2> PICK p \in Peers : Read(p)
    BY <1>10
  <2>1. /\ stdout[p] # <<>> /\ lines' = stdout[p]
        /\ stdout' = [stdout EXCEPT ![p] = <<>>]
        /\ peer' = Other(p) /\ relay' = "write"
        /\ UNCHANGED <<stdin, pending, answer>>
    BY DEF Read, linux
  <2>2. CASE p = "windows"
    BY <1>0, <1>a, <1>e, <2>1, <2>2 DEF Ways, Other
  <2>3. CASE p = "linux"
    BY <1>0, <1>a, <1>e, <2>1, <2>3 DEF Ways, Other
  <2> QED BY <1>a, <2>2, <2>3
<1>11. CASE Forward
  <2>1. /\ relay = "write" /\ Room(stdin, peer)
        /\ stdin' = Put(stdin, peer, Head(lines)) /\ lines' = Tail(lines)
        /\ relay' = IF Tail(lines) = <<>> THEN "select" ELSE "write"
        /\ UNCHANGED <<stdout, peer, pending, answer>>
    BY <1>11 DEF Forward, linux
  <2>2. lines # <<>>
    BY <1>0, <2>1 DEF Ways
  <2>3. CASE peer = "linux"
    <3>1. Carries(lines, Requests)
      BY <1>0, <2>3 DEF Ways
    <3>2. Carries(Tail(lines), Requests) /\ Head(lines) \in Requests \cup {X}
      BY <2>2, <3>1, TailHolds
    <3>3. Carries(Append(stdin["linux"], Head(lines)), Requests \cup {X})
      BY <1>0, <2>1, <2>3, <3>2, AppendHolds DEF Ways, Room
    <3> QED BY <1>0, <1>a, <2>1, <2>3, <3>2, <3>3 DEF Ways, Put
  <2>4. CASE peer = "windows"
    <3>1. Carries(lines, Replies)
      BY <1>0, <2>4 DEF Ways
    <3>2. Carries(Tail(lines), Replies) /\ Head(lines) \in Replies \cup {X}
      BY <2>2, <3>1, TailHolds
    <3>3. Carries(Append(stdin["windows"], Head(lines)), Replies \cup {X})
      BY <1>0, <2>1, <2>4, <3>2, AppendHolds DEF Ways, Room
    <3> QED BY <1>0, <1>a, <2>1, <2>4, <3>2, <3>3 DEF Ways, Put
  <2> QED BY <1>0, <2>3, <2>4 DEF PartsOK, Peers
<1>12. CASE WriteX
  <2>1. /\ relay = "X" /\ Room(stdin, peer) /\ stdin' = Put(stdin, peer, X)
        /\ relay' = "wait"
        /\ UNCHANGED <<stdout, peer, lines, pending, answer>>
    BY <1>12 DEF WriteX, linux
  <2>2. CASE peer = "linux"
    <3>1. Carries(Append(stdin["linux"], X), Requests \cup {X})
      BY <1>0, <2>1, <2>2, AppendHolds DEF Ways, Room
    <3> QED BY <1>0, <1>a, <2>1, <2>2, <3>1 DEF Ways, Put
  <2>3. CASE peer = "windows"
    <3>1. Carries(Append(stdin["windows"], X), Replies \cup {X})
      BY <1>0, <2>1, <2>3, AppendHolds DEF Ways, Room
    <3> QED BY <1>0, <1>a, <2>1, <2>3, <3>1 DEF Ways, Put
  <2> QED BY <1>0, <2>2, <2>3 DEF PartsOK, Peers
<1>13. CASE StopPeers
  BY <1>0, <1>13, <1>e DEF StopPeers, Ways, linux, pipes
<1>14. CASE PeerGone \/ Kill
  <2>1. /\ relay \in {"X", "wait"} /\ relay' # "write" /\ lines' = lines
        /\ UNCHANGED <<stdin, stdout, pending, answer>>
    BY <1>14 DEF PeerGone, Kill, NextPeer, linux, pipes
  <2>2. lines = <<>>
    BY <1>0, <2>1 DEF Ways
  <2> QED BY <1>0, <1>e, <2>1, <2>2 DEF Ways
<1>15. CASE BrokerStops \/ BrokerExits \/ BrokerDies \/ DeviceReleased
            \/ PollerFails \/ \E o \in Ops : PollerPolls(o)
  BY <1>1, <1>15
  DEF BrokerStops, BrokerExits, BrokerDies, DeviceReleased, PollerFails,
      PollerPolls, linux, forward, pipes
<1>16. CASE GatewayStarts \/ \E o \in Ops : Ask(o) \/ Deadline(o)
  BY <1>1, <1>16 DEF GatewayStarts, Ask, Deadline, linux, forward, pipes
<1>17. CASE (\E p \in Peers : LinkLost(p)) \/ UNCHANGED vars
  BY <1>1, <1>17 DEF LinkLost, vars, linux, forward, pipes
<1> QED
  BY StepCases, <1>2, <1>3, <1>4, <1>5, <1>6, <1>7, <1>8, <1>9, <1>10, <1>11,
     <1>12, <1>13, <1>14, <1>15, <1>16, <1>17
-----------------------------------------------------------------------------
(* Requests that leave place a for place b, or for good, and no others.    *)
LEMMA Moved ==
  ASSUME RelayInv, NEW a \in Places, NEW b \in Places, OnceEach',
         executed' = executed, \A o \in Ops : Fresh(o)' => Fresh(o),
         \A o \in Ops : \A c \in Places \ {b} : At(o, c)' => At(o, c),
         \A o \in Ops : At(o, b)' => At(o, b) \/ (At(o, a) /\ ~At(o, a)')
  PROVE  Requested'
<1>0. OnePlace /\ NotYet
  BY DEF RelayInv, Requested
<1>1. \A o \in Ops : \A c \in Places : At(o, c)' => \E d \in Places : At(o, d)
  OBVIOUS
<1>2. NotYet'
  BY <1>0, <1>1 DEF NotYet
<1>3. ASSUME NEW o \in Ops, NEW c \in Places, NEW d \in Places, At(o, c)', At(o, d)',
             c # b
      PROVE  c = d
  BY <1>0, <1>3 DEF OnePlace
<1>4. OnePlace'
  BY <1>3 DEF OnePlace
<1> QED
  BY <1>2, <1>4 DEF Requested

(* Requests that stay where they are, or are lost.                         *)
LEMMA Stayed ==
  ASSUME RelayInv, OnceEach',
         executed' = executed, \A o \in Ops : Fresh(o)' => Fresh(o),
         \A o \in Ops : \A c \in Places : At(o, c)' => At(o, c)
  PROVE  Requested'
<1>1. "relay" \in Places
  BY DEF Places
<1> QED
  BY <1>1, Moved

(* Replies hold no request, and only requests can be held twice.           *)
LEMMA RepliesApart ==
  ASSUME NEW s, Carries(s, Replies)
  PROVE  Once(s) /\ \A o \in Ops : ~Holds(s, Q(o))
<1>1. \A i \in 1 .. Len(s) : s[i] \in Replies
  BY ElementOfSeq DEF Carries
<1>2. \A o \in Ops : Q(o) \notin Replies
  BY Distinct DEF Replies
<1> QED
  BY <1>1, <1>2 DEF Holds, Once

(* Requests are not doubled, and none comes back.                          *)
LEMMA RequestedStep ==
  ASSUME RelayInv, [Next]_vars
  PROVE  Requested'
<1>0. PartsOK /\ Ways /\ OnePlace /\ OnceEach /\ NotYet
  BY DEF RelayInv, Requested
<1>a. "windows" \in Peers /\ "linux" \in Peers /\ Peers = {"windows", "linux"}
  BY DEF Peers
<1>b. \A o \in Ops : o # NULL
  BY RelayAssumption
<1>c. /\ "poller" \in Places /\ "stdout" \in Places /\ "relay" \in Places
      /\ "stdin" \in Places /\ "gateway" \in Places
  BY DEF Places
<1>1. CASE /\ UNCHANGED <<polled, lines, pending, executed>>
           /\ stdout'["windows"] = stdout["windows"]
           /\ stdin'["linux"] = stdin["linux"]
           /\ \A o \in Ops : Fresh(o)' => Fresh(o)
  <2>1. OnceEach' /\ \A o \in Ops : \A c \in Places : At(o, c)' = At(o, c)
    BY <1>0, <1>1 DEF OnceEach, At
  <2> QED BY <1>1, <2>1, Stayed
<1>2. CASE BrokerInput \/ BrokerStops \/ PollerFails \/ GatewayStarts
           \/ GatewayInput \/ GatewayPrints \/ Ready \/ PeerGone \/ Kill
           \/ (\E p \in Peers : LinkLost(p)) \/ UNCHANGED vars
  <2>1. UNCHANGED <<polled, lines, pending, executed, op>>
    BY <1>2
    DEF BrokerInput, BrokerStops, PollerFails, GatewayStarts, GatewayInput,
        GatewayPrints, Ready, PeerGone, Kill, NextPeer, LinkLost, vars, driver, windows, linux,
        forward, pipes
  <2>2. stdout'["windows"] = stdout["windows"] /\ stdin'["linux"] = stdin["linux"]
    BY <1>0, <1>a, <1>2
    DEF BrokerInput, BrokerStops, PollerFails, GatewayStarts, GatewayInput,
        GatewayPrints, Ready, PeerGone, Kill, LinkLost, vars, pipes, Put, Ways
  <2> QED BY <1>1, <2>1, <2>2 DEF Fresh
<1>3. CASE BrokerExits \/ DeviceReleased \/ \E o \in Ops : Ask(o) \/ Deadline(o)
  <2>1. UNCHANGED <<polled, lines, pending, executed, stdin, stdout>>
    BY <1>3 DEF BrokerExits, DeviceReleased, EndSession, Ask, Deadline, windows,
                linux, forward, pipes
  <2>2. \A o \in Ops : Fresh(o)' => Fresh(o)
    BY <1>0, <1>3 DEF BrokerExits, DeviceReleased, EndSession, Ask, Deadline,
                      Fresh, Pending, PartsOK
  <2> QED BY <1>1, <2>1, <2>2
<1>4. CASE \E o \in Ops, ok \in BOOLEAN : BrokerReply(o, ok)
  <2>1. /\ UNCHANGED <<polled, lines, pending, executed, stdout>>
        /\ stdin'["linux"] = stdin["linux"]
    BY <1>0, <1>a, <1>4 DEF BrokerReply, windows, linux, forward, Ways
  <2>2. \A o \in Ops : Fresh(o)' => Fresh(o)
    BY <1>0, <1>4 DEF BrokerReply, Fresh, PartsOK
  <2> QED BY <1>1, <2>1, <2>2
<1>5. CASE BrokerDies
  <2>1. /\ polled' = NULL
        /\ UNCHANGED <<lines, pending, executed, stdin, stdout>>
    BY <1>5 DEF BrokerDies, EndSession, linux, forward
  <2>2. \A o \in Ops : Fresh(o)' => Fresh(o)
    BY <1>0, <1>5 DEF BrokerDies, EndSession, Fresh, Pending, PartsOK
  <2>3. OnceEach' /\ \A o \in Ops : \A c \in Places : At(o, c)' => At(o, c)
    BY <1>0, <1>b, <2>1 DEF OnceEach, At
  <2> QED BY <2>1, <2>2, <2>3, Stayed
<1>6. CASE \E o \in Ops : PollerPolls(o)
  <2> PICK g \in Ops : PollerPolls(g)
    BY <1>6
  <2>1. /\ op[g] = "queued" /\ polled = NULL /\ polled' = g
        /\ op' = [op EXCEPT ![g] = "polled"]
        /\ UNCHANGED <<lines, pending, executed, stdin, stdout>>
    BY DEF PollerPolls, linux, forward, pipes
  <2>2. ~Fresh(g)' /\ \A o \in Ops \ {g} : Fresh(o)' = Fresh(o)
    BY <1>0, <2>1 DEF Fresh, PartsOK
  <2>3. (\A c \in Places : ~At(g, c)) /\ executed[g] = 0
    BY <1>0, <2>1 DEF NotYet, Fresh
  <2>4. /\ \A c \in Places : At(g, c)' => c = "poller"
        /\ \A o \in Ops \ {g} : \A c \in Places : At(o, c)' => At(o, c)
    BY <2>1, <2>3 DEF At
  <2>5. OnePlace' /\ NotYet' /\ OnceEach'
    BY <1>0, <2>1, <2>2, <2>3, <2>4 DEF OnePlace, NotYet, OnceEach
  <2> QED BY <2>5 DEF Requested
<1>7. CASE PollerPrints
  <2>1. /\ polled \in Ops /\ polled' = NULL
        /\ UNCHANGED <<op, lines, pending, executed, stdin>>
    BY <1>0, <1>7 DEF PollerPrints, PartsOK, driver, linux, forward
  <2>2. \A o \in Ops : Fresh(o)' => Fresh(o)
    BY <2>1 DEF Fresh
  <2>3. CASE UNCHANGED stdout
    <3>1. OnceEach' /\ \A o \in Ops : \A c \in Places : At(o, c)' => At(o, c)
      BY <1>0, <1>b, <2>1, <2>3 DEF OnceEach, At
    <3> QED BY <2>1, <2>2, <3>1, Stayed
  <2>4. CASE /\ Room(stdout, "windows")
             /\ stdout' = Put(stdout, "windows", Q(polled))
    <3>1. At(polled, "poller")
      BY DEF At
    <3>2. ~Holds(stdout["windows"], Q(polled))
      BY <1>0, <1>c, <2>1, <3>1 DEF OnePlace, At
    <3>3. Q(polled) \in Requests
      BY <2>1 DEF Requests
    <3>4. stdout'["windows"] = Append(stdout["windows"], Q(polled))
      BY <1>0, <1>a, <2>4 DEF Put, Ways
    <3>5. /\ Once(stdout'["windows"])
          /\ \A line : Holds(stdout'["windows"], line) =>
               Holds(stdout["windows"], line) \/ line = Q(polled)
      <4>1. /\ Carries(stdout["windows"], Requests) /\ Once(stdout["windows"])
            /\ Len(stdout["windows"]) < PipeLines
        BY <1>0, <2>4 DEF Ways, OnceEach, Room
      <4> QED BY <3>2, <3>3, <3>4, <4>1, AppendHolds
    <3>6. \A o \in Ops : ~At(o, "poller")'
      BY <1>b, <2>1 DEF At
    <3>7. \A o \in Ops : At(o, "stdout")' =>
            At(o, "stdout") \/ (At(o, "poller") /\ ~At(o, "poller")')
      BY <2>1, <3>5, <3>6, Distinct DEF At
    <3>8. \A o \in Ops : \A c \in Places \ {"stdout"} : At(o, c)' => At(o, c)
      BY <1>b, <2>1 DEF At
    <3>9. OnceEach'
      BY <1>0, <2>1, <3>5 DEF OnceEach
    <3> QED BY <1>c, <2>1, <2>2, <3>7, <3>8, <3>9, Moved
  <2> QED BY <1>7, <2>3, <2>4 DEF PollerPrints
<1>8. CASE GatewayReads
  <2>1. /\ pending = <<>> /\ pending' = stdin["linux"]
        /\ stdin'["linux"] = <<>>
        /\ UNCHANGED <<op, polled, lines, executed, stdout>>
    BY <1>0, <1>a, <1>8
    DEF GatewayReads, Selecting, Ways, driver, windows, forward
  <2>2. \A o \in Ops : ~At(o, "stdin")'
    BY <2>1, NothingHeld DEF At
  <2>3. \A o \in Ops : At(o, "gateway")' => At(o, "stdin") /\ ~At(o, "stdin")'
    BY <2>1, <2>2 DEF At
  <2>4. \A o \in Ops : \A c \in Places \ {"gateway"} : At(o, c)' => At(o, c)
    BY <2>1, NothingHeld DEF At
  <2>5. OnceEach' /\ \A o \in Ops : Fresh(o)' => Fresh(o)
    BY <1>0, <2>1, NothingHeld DEF OnceEach, Fresh
  <2> QED BY <1>c, <2>1, <2>3, <2>4, <2>5, Moved
<1>9. CASE GatewayGone \/ StopPeers
  <2>1. /\ UNCHANGED <<op, polled, executed, stdin, stdout>>
        /\ pending' \in {pending, <<>>} /\ lines' \in {lines, <<>>}
    BY <1>9 DEF GatewayGone, StopPeers, driver, windows, linux, forward, pipes
  <2>2. OnceEach' /\ \A o \in Ops : Fresh(o)' => Fresh(o)
    BY <1>0, <2>1, NothingHeld DEF OnceEach, Fresh
  <2>3. \A o \in Ops : \A c \in Places : At(o, c)' => At(o, c)
    BY <2>1, NothingHeld DEF At
  <2> QED BY <2>1, <2>2, <2>3, Stayed
<1>10. CASE \E ok \in BOOLEAN : GatewayHandles(ok)
  <2> PICK ok \in BOOLEAN : GatewayHandles(ok)
    BY <1>10
  <2>1. /\ executed' = [executed EXCEPT ![Head(pending)[2]] = IF ok THEN @ + 1 ELSE @]
        /\ pending # <<>> /\ Head(pending) # X /\ pending' = Tail(pending)
        /\ UNCHANGED <<op, polled, lines, stdin, stdout>>
    BY DEF GatewayHandles, windows, forward, pipes
  <2>2. Head(pending) \in Requests /\ Holds(pending, Head(pending))
    BY <1>0, <2>1, TailHolds DEF Ways
  <2>3. PICK g \in Ops : Head(pending) = Q(g) /\ g = Head(pending)[2]
    BY <2>2, Distinct DEF Requests
  <2>4. At(g, "gateway")
    BY <2>2, <2>3 DEF At
  <2>5. /\ Once(pending')
        /\ ~Holds(pending', Q(g))
        /\ \A line : Holds(pending', line) => Holds(pending, line)
    BY <1>0, <2>1, <2>3, TailHolds DEF Ways, OnceEach
  <2>6. \A o \in Ops : \A c \in Places : At(o, c)' => At(o, c)
    BY <2>1, <2>5 DEF At
  <2>7. \A c \in Places : ~At(g, c)'
    <3>1. ASSUME NEW c \in Places, At(g, c)' PROVE FALSE
      <4>1. c = "gateway"
        BY <1>0, <1>c, <2>3, <2>4, <2>6, <3>1 DEF OnePlace
      <4> QED BY <2>5, <3>1, <4>1 DEF At
    <3> QED BY <3>1
  <2>8. ~Fresh(g) /\ \A o \in Ops \ {g} : executed'[o] = executed[o]
    BY <1>0, <1>c, <2>1, <2>3, <2>4 DEF NotYet, PartsOK
  <2>9. OnePlace' /\ OnceEach'
    BY <1>0, <2>1, <2>5, <2>6 DEF OnePlace, OnceEach
  <2>10. NotYet'
    BY <1>0, <2>1, <2>6, <2>7, <2>8 DEF NotYet, Fresh
  <2> QED BY <2>9, <2>10 DEF Requested
<1>11. CASE \E p \in Peers : Read(p)
  <2> PICK p \in Peers : Read(p)
    BY <1>11
  <2>1. /\ lines = <<>> /\ lines' = stdout[p]
        /\ stdout' = [stdout EXCEPT ![p] = <<>>]
        /\ UNCHANGED <<op, polled, pending, executed, stdin>>
    BY <1>0 DEF Read, Ways, driver, windows, linux
  <2>2. \A o \in Ops : Fresh(o)' => Fresh(o)
    BY <2>1 DEF Fresh
  <2>3. CASE p = "windows"
    <3>1. stdout'["windows"] = <<>>
      BY <1>0, <1>a, <2>1, <2>3 DEF Ways
    <3>2. \A o \in Ops : ~At(o, "stdout")'
      BY <3>1, NothingHeld DEF At
    <3>3. \A o \in Ops : At(o, "relay")' => At(o, "stdout") /\ ~At(o, "stdout")'
      BY <2>1, <2>3, <3>2 DEF At
    <3>4. \A o \in Ops : \A c \in Places \ {"relay"} : At(o, c)' => At(o, c)
      BY <2>1, <3>1, NothingHeld DEF At
    <3>5. OnceEach'
      BY <1>0, <2>1, <2>3, <3>1, NothingHeld DEF OnceEach
    <3> QED BY <1>c, <2>1, <2>2, <3>3, <3>4, <3>5, Moved
  <2>4. CASE p = "linux"
    <3>1. stdout'["windows"] = stdout["windows"]
      BY <1>0, <1>a, <2>1, <2>4 DEF Ways
    <3>2. Once(lines') /\ \A o \in Ops : ~Holds(lines', Q(o))
      BY <1>0, <2>1, <2>4, RepliesApart DEF Ways
    <3>3. OnceEach' /\ \A o \in Ops : \A c \in Places : At(o, c)' => At(o, c)
      BY <1>0, <2>1, <3>1, <3>2 DEF OnceEach, At
    <3> QED BY <2>1, <2>2, <3>3, Stayed
  <2> QED BY <1>a, <2>3, <2>4
<1>12. CASE Forward
  <2>1. /\ lines # <<>> /\ Room(stdin, peer)
        /\ stdin' = Put(stdin, peer, Head(lines)) /\ lines' = Tail(lines)
        /\ UNCHANGED <<op, polled, pending, executed, stdout>>
    BY <1>0, <1>12 DEF Forward, Ways, driver, windows, linux
  <2>2. \A o \in Ops : Fresh(o)' => Fresh(o)
    BY <2>1 DEF Fresh
  <2>3. CASE peer = "linux"
    <3>1. Carries(lines, Requests)
      BY <1>0, <2>3 DEF Ways
    <3>2. /\ Head(lines) \in Requests /\ Holds(lines, Head(lines))
          /\ Once(lines')
          /\ \A line : Holds(lines', line) => Holds(lines, line)
          /\ \A o \in Ops : Head(lines) = Q(o) => ~Holds(lines', Q(o))
      BY <1>0, <2>1, <3>1, TailHolds DEF OnceEach
    <3>3. PICK g \in Ops : Head(lines) = Q(g)
      BY <3>2 DEF Requests
    <3>4. At(g, "relay") /\ ~At(g, "relay")'
      BY <3>2, <3>3 DEF At
    <3>5. ~Holds(stdin["linux"], Q(g))
      BY <1>0, <1>c, <3>4 DEF OnePlace, At
    <3>6. stdin'["linux"] = Append(stdin["linux"], Q(g))
      BY <1>0, <1>a, <2>1, <2>3, <3>3 DEF Put, Ways
    <3>7. Q(g) \in Requests \cup {X}
      BY <3>2, <3>3
    <3>8. /\ Once(stdin'["linux"])
          /\ \A line : Holds(stdin'["linux"], line) =>
               Holds(stdin["linux"], line) \/ line = Q(g)
      <4>1. /\ Carries(stdin["linux"], Requests \cup {X}) /\ Once(stdin["linux"])
            /\ Len(stdin["linux"]) < PipeLines
        BY <1>0, <2>1, <2>3 DEF Ways, OnceEach, Room
      <4> QED BY <3>5, <3>6, <3>7, <4>1, AppendHolds
    <3>9. \A o \in Ops : At(o, "stdin")' =>
            At(o, "stdin") \/ (At(o, "relay") /\ ~At(o, "relay")')
      BY <3>4, <3>8, Distinct DEF At
    <3>10. \A o \in Ops : \A c \in Places \ {"stdin"} : At(o, c)' => At(o, c)
      BY <2>1, <3>2 DEF At
    <3>11. OnceEach'
      BY <1>0, <2>1, <3>2, <3>8 DEF OnceEach
    <3> QED BY <1>c, <2>1, <2>2, <3>9, <3>10, <3>11, Moved
  <2>4. CASE peer = "windows"
    <3>1. stdin'["linux"] = stdin["linux"]
      BY <1>0, <1>a, <2>1, <2>4 DEF Put, Ways
    <3>2. Once(lines') /\ \A line : Holds(lines', line) => Holds(lines, line)
      BY <1>0, <2>1, TailHolds DEF Ways, OnceEach
    <3>3. OnceEach' /\ \A o \in Ops : \A c \in Places : At(o, c)' => At(o, c)
      BY <1>0, <2>1, <3>1, <3>2 DEF OnceEach, At
    <3> QED BY <2>1, <2>2, <3>3, Stayed
  <2> QED BY <1>0, <2>3, <2>4 DEF PartsOK, Peers
<1>13. CASE WriteX
  <2>1. /\ Room(stdin, peer) /\ stdin' = Put(stdin, peer, X)
        /\ UNCHANGED <<op, polled, lines, pending, executed, stdout>>
    BY <1>13 DEF WriteX, driver, windows, linux
  <2>2. \A o \in Ops : Fresh(o)' => Fresh(o)
    BY <2>1 DEF Fresh
  <2>3. CASE peer = "windows"
    <3>1. stdin'["linux"] = stdin["linux"]
      BY <1>0, <1>a, <2>1, <2>3 DEF Put, Ways
    <3> QED BY <1>1, <2>1, <2>2, <3>1
  <2>4. CASE peer = "linux"
    <3>1. stdin'["linux"] = Append(stdin["linux"], X)
      BY <1>0, <1>a, <2>1, <2>4 DEF Put, Ways
    <3>2. X \in Requests \cup {X} /\ X \notin Requests
      BY Distinct DEF Requests
    <3>3. /\ Once(stdin'["linux"])
          /\ \A line : Holds(stdin'["linux"], line) =>
               Holds(stdin["linux"], line) \/ line = X
      <4>1. /\ Carries(stdin["linux"], Requests \cup {X}) /\ Once(stdin["linux"])
            /\ Len(stdin["linux"]) < PipeLines
        BY <1>0, <2>1, <2>4 DEF Ways, OnceEach, Room
      <4> QED BY <3>1, <3>2, <4>1, AppendHolds
    <3>4. OnceEach' /\ \A o \in Ops : \A c \in Places : At(o, c)' => At(o, c)
      BY <1>0, <2>1, <3>3, Distinct DEF OnceEach, At
    <3> QED BY <2>1, <2>2, <3>4, Stayed
  <2> QED BY <1>0, <2>3, <2>4 DEF PartsOK, Peers
<1> QED
  BY StepCases, <1>2, <1>3, <1>4, <1>5, <1>6, <1>7, <1>8, <1>9, <1>10, <1>11,
     <1>12, <1>13
-----------------------------------------------------------------------------
(* Nothing is forgotten that was carried out, and nothing new is told.     *)
LEMMA NothingNew ==
  ASSUME RelayInv, executed' = executed, \A o \in Ops : Told(o)' => Told(o)
  PROVE  ToldTrue'
  BY DEF RelayInv, ToldTrue

(* The gateway alone says that an operation has been carried out.          *)
LEMMA ToldStep ==
  ASSUME RelayInv, [Next]_vars
  PROVE  ToldTrue'
<1>0. PartsOK /\ Ways /\ NotYet /\ ToldTrue
  BY DEF RelayInv, Requested
<1>a. "windows" \in Peers /\ "linux" \in Peers /\ Peers = {"windows", "linux"}
  BY DEF Peers
<1>1. CASE /\ UNCHANGED <<answer, lines, executed>>
           /\ stdout'["linux"] = stdout["linux"]
           /\ stdin'["windows"] = stdin["windows"]
           /\ \A o \in Ops : op'[o] = "succeeded" => op[o] = "succeeded"
  <2>1. \A o \in Ops : Told(o)' => Told(o)
    BY <1>1 DEF Told
  <2> QED BY <1>1, <2>1, NothingNew
<1>2. CASE BrokerStops \/ PollerPrints \/ PollerFails \/ GatewayStarts
           \/ GatewayReads \/ Ready \/ PeerGone \/ Kill \/ (\E p \in Peers : LinkLost(p)) \/ UNCHANGED vars
  <2>1. UNCHANGED <<answer, lines, executed, op>>
    BY <1>2
    DEF BrokerStops, PollerPrints, PollerFails, GatewayStarts, GatewayReads,
        Ready, PeerGone,
        Kill, NextPeer, LinkLost, vars, driver, linux, forward, pipes
  <2>2. stdout'["linux"] = stdout["linux"] /\ stdin'["windows"] = stdin["windows"]
    BY <1>0, <1>a, <1>2
    DEF BrokerStops, PollerPrints, PollerFails, GatewayStarts, GatewayReads,
        Ready, PeerGone,
        Kill, LinkLost, vars, pipes, Put, Ways
  <2> QED BY <1>1, <2>1, <2>2
<1>3. CASE BrokerExits \/ BrokerDies \/ DeviceReleased
           \/ (\E o \in Ops : PollerPolls(o))
           \/ \E o \in Ops : Ask(o) \/ Deadline(o)
  <2>1. UNCHANGED <<answer, lines, executed, stdin, stdout>>
    BY <1>3
    DEF BrokerExits, BrokerDies, DeviceReleased, EndSession, PollerPolls, Ask,
        Deadline, windows,
        linux, forward, pipes
  <2>2. \A o \in Ops : op'[o] = "succeeded" => op[o] = "succeeded"
    BY <1>0, <1>3
    DEF BrokerExits, BrokerDies, DeviceReleased, EndSession, PollerPolls, Ask,
        Deadline, PartsOK
  <2> QED BY <1>1, <2>1, <2>2
<1>4. CASE BrokerInput \/ \E o \in Ops, ok \in BOOLEAN : BrokerReply(o, ok)
  <2>1. /\ stdin["windows"] # <<>> /\ stdin'["windows"] = Tail(stdin["windows"])
        /\ UNCHANGED <<answer, lines, executed, stdout>>
    BY <1>0, <1>a, <1>4
    DEF BrokerInput, BrokerReply, driver, linux, forward, Ways
  <2>2. /\ Holds(stdin["windows"], Head(stdin["windows"]))
        /\ \A line : Holds(stdin'["windows"], line) => Holds(stdin["windows"], line)
    BY <1>0, <2>1, TailHolds DEF Ways
  <2>3. \A o \in Ops : op'[o] = "succeeded" =>
          op[o] = "succeeded" \/ Head(stdin["windows"]) = R(o, TRUE)
    <3>1. CASE BrokerInput
      BY <3>1 DEF BrokerInput, driver
    <3>2. CASE \E o \in Ops, ok \in BOOLEAN : BrokerReply(o, ok)
      BY <1>0, <3>2 DEF BrokerReply, PartsOK
    <3> QED BY <1>4, <3>1, <3>2
  <2>4. \A o \in Ops : Told(o)' => Told(o)
    BY <2>1, <2>2, <2>3 DEF Told
  <2> QED BY <2>1, <2>4, NothingNew
<1>5. CASE GatewayInput \/ GatewayGone
  <2>1. /\ UNCHANGED <<lines, executed, op, stdin, stdout>> /\ answer' \in {I, NULL}
    BY <1>5 DEF GatewayInput, GatewayGone, driver, forward, pipes
  <2>2. \A o \in Ops : Told(o)' => Told(o)
    BY <2>1, Distinct DEF Told
  <2> QED BY <2>1, <2>2, NothingNew
<1>6. CASE GatewayPrints
  <2>1. /\ answer # NULL /\ Room(stdout, "linux") /\ answer' = NULL
        /\ stdout'["linux"] = Append(stdout["linux"], answer)
        /\ UNCHANGED <<lines, executed, op, stdin>>
    BY <1>0, <1>a, <1>6 DEF GatewayPrints, driver, forward, Put, Ways
  <2>2. /\ Carries(stdout["linux"], Replies) /\ answer \in Replies
        /\ Len(stdout["linux"]) < PipeLines
    BY <1>0, <2>1 DEF Ways, Room
  <2>3. \A line : Holds(stdout'["linux"], line) =>
          Holds(stdout["linux"], line) \/ line = answer
    BY <2>1, <2>2, AppendHolds
  <2>4. \A o \in Ops : Told(o)' => Told(o)
    BY <2>1, <2>3 DEF Told
  <2> QED BY <2>1, <2>4, NothingNew
<1>7. CASE \E ok \in BOOLEAN : GatewayHandles(ok)
  <2> PICK ok \in BOOLEAN : GatewayHandles(ok)
    BY <1>7
  <2>1. /\ executed' = [executed EXCEPT ![Head(pending)[2]] = IF ok THEN @ + 1 ELSE @]
        /\ pending # <<>> /\ Head(pending) # X
        /\ answer' = R(Head(pending)[2], ok)
        /\ UNCHANGED <<op, lines, stdin, stdout>>
    BY DEF GatewayHandles, forward, pipes
  <2>2. Head(pending) \in Requests /\ Holds(pending, Head(pending))
    BY <1>0, <2>1, TailHolds DEF Ways
  <2>3. PICK g \in Ops : Head(pending) = Q(g) /\ g = Head(pending)[2]
    BY <2>2, Distinct DEF Requests
  <2>4. executed[g] = 0
    BY <1>0, <2>2, <2>3 DEF NotYet, At, Places
  <2>5. /\ \A o \in Ops : executed[o] = 1 => executed'[o] = 1
        /\ ok => executed'[g] = 1
    BY <1>0, <2>1, <2>3, <2>4 DEF PartsOK
  <2>6. ASSUME NEW o \in Ops, answer' = R(o, TRUE)
        PROVE  o = g /\ ok
    <3>1. R(o, TRUE) = R(g, ok)
      BY <2>1, <2>3, <2>6, Zenon
    <3> QED BY <3>1, Distinct, Zenon
  <2>7. ASSUME NEW o \in Ops, Told(o)'
        PROVE  Told(o) \/ answer' = R(o, TRUE)
    BY <2>1, <2>7, Zenon DEF Told
  <2>8. \A o \in Ops : Told(o)' => Told(o) \/ (o = g /\ ok)
    BY <2>6, <2>7, Zenon
  <2> QED BY <1>0, <2>5, <2>8, Zenon DEF ToldTrue
<1>8. CASE StopPeers
  <2>1. lines' = <<>> /\ UNCHANGED <<answer, executed, op, stdin, stdout>>
    BY <1>8 DEF StopPeers, driver, linux, pipes
  <2>2. \A o \in Ops : Told(o)' => Told(o)
    BY <2>1, NothingHeld DEF Told
  <2> QED BY <2>1, <2>2, NothingNew
<1>9. CASE \E p \in Peers : Read(p)
  <2> PICK p \in Peers : Read(p)
    BY <1>9
  <2>1. /\ lines' = stdout[p] /\ stdout' = [stdout EXCEPT ![p] = <<>>]
        /\ UNCHANGED <<answer, executed, op, stdin>>
    BY DEF Read, driver, linux
  <2>2. \A o \in Ops : Holds(lines', R(o, TRUE)) => Holds(stdout["linux"], R(o, TRUE))
    <3>1. CASE p = "linux"
      BY <2>1, <3>1
    <3>2. CASE p = "windows"
      <4>1. \A i \in 1 .. Len(lines') : lines'[i] \in Requests
        BY <1>0, <2>1, <3>2, ElementOfSeq DEF Ways, Carries
      <4>2. \A o \in Ops : R(o, TRUE) \notin Requests
        BY Distinct DEF Requests
      <4> QED BY <4>1, <4>2 DEF Holds
    <3> QED BY <1>a, <3>1, <3>2
  <2>3. stdout'["linux"] \in {stdout["linux"], <<>>}
    BY <1>0, <1>a, <2>1 DEF Ways
  <2>4. \A o \in Ops : Told(o)' => Told(o)
    BY <2>1, <2>2, <2>3, NothingHeld DEF Told
  <2> QED BY <2>1, <2>4, NothingNew
<1>10. CASE Forward
  <2>1. /\ lines # <<>> /\ Room(stdin, peer) /\ lines' = Tail(lines)
        /\ stdin' = Put(stdin, peer, Head(lines))
        /\ UNCHANGED <<answer, executed, op, stdout>>
    BY <1>0, <1>10 DEF Forward, Ways, driver, linux
  <2>2. /\ Holds(lines, Head(lines))
        /\ \A line : Holds(lines', line) => Holds(lines, line)
    BY <1>0, <2>1, TailHolds DEF Ways
  <2>3. \A line : Holds(stdin'["windows"], line) =>
          Holds(stdin["windows"], line) \/ line = Head(lines)
    <3>1. CASE peer = "linux"
      BY <1>0, <1>a, <2>1, <3>1 DEF Put, Ways
    <3>2. CASE peer = "windows"
      <4>1. Carries(lines, Replies)
        BY <1>0, <3>2 DEF Ways
      <4>2. Head(lines) \in Replies \cup {X}
        BY <2>1, <4>1, TailHolds
      <4>3. /\ Carries(stdin["windows"], Replies \cup {X})
            /\ Len(stdin["windows"]) < PipeLines
            /\ stdin'["windows"] = Append(stdin["windows"], Head(lines))
        BY <1>0, <1>a, <2>1, <3>2 DEF Ways, Room, Put
      <4> QED BY <4>2, <4>3, AppendHolds
    <3> QED BY <1>0, <3>1, <3>2 DEF PartsOK, Peers
  <2>4. \A o \in Ops : Told(o)' => Told(o)
    BY <2>1, <2>2, <2>3 DEF Told
  <2> QED BY <2>1, <2>4, NothingNew
<1>11. CASE WriteX
  <2>1. /\ Room(stdin, peer) /\ stdin' = Put(stdin, peer, X)
        /\ UNCHANGED <<answer, lines, executed, op, stdout>>
    BY <1>11 DEF WriteX, driver, linux
  <2>2. \A line : Holds(stdin'["windows"], line) =>
          Holds(stdin["windows"], line) \/ line = X
    <3>1. CASE peer = "linux"
      BY <1>0, <1>a, <2>1, <3>1 DEF Put, Ways
    <3>2. CASE peer = "windows"
      <4>1. X \in Replies \cup {X}
        OBVIOUS
      <4>2. /\ Carries(stdin["windows"], Replies \cup {X})
            /\ Len(stdin["windows"]) < PipeLines
            /\ stdin'["windows"] = Append(stdin["windows"], X)
        BY <1>0, <1>a, <2>1, <3>2 DEF Ways, Room, Put
      <4> QED BY <4>1, <4>2, AppendHolds
    <3> QED BY <1>0, <3>1, <3>2 DEF PartsOK, Peers
  <2>3. \A o \in Ops : Told(o)' => Told(o)
    BY <2>1, <2>2, Distinct DEF Told
  <2> QED BY <2>1, <2>3, NothingNew
<1> QED
  BY StepCases, <1>2, <1>3, <1>4, <1>5, <1>6, <1>7, <1>8, <1>9, <1>10, <1>11
-----------------------------------------------------------------------------
LEMMA RelayInvariant == Spec => []RelayInv
<1>1. Init => RelayInv
  BY InitInv
<1>2. RelayInv /\ [Next]_vars => RelayInv'
  BY PartsStep, PollsStep, WaysStep, RequestedStep, ToldStep DEF RelayInv
<1> QED
  BY <1>1, <1>2, PTL DEF Spec

(* A batch of lines fits a pipe.                                           *)
LEMMA CarriesPipe ==
  ASSUME NEW L \in SUBSET Lines, NEW s, Carries(s, L)
  PROVE  s \in Pipe
<1>1. /\ Len(s) \in 0 .. PipeLines /\ s \in [1 .. Len(s) -> L]
  BY RelayAssumption, LenProperties DEF Carries
<1>2. s \in [1 .. Len(s) -> Lines]
  BY <1>1
<1> QED
  BY <1>1, <1>2 DEF Pipe

LEMMA RelayTyped == RelayInv => TypeOK
<1> SUFFICES ASSUME RelayInv PROVE TypeOK
  OBVIOUS
<1>1. PartsOK /\ Ways
  BY DEF RelayInv
<1>2. /\ Requests \in SUBSET Lines /\ Requests \cup {X} \in SUBSET Lines
      /\ Replies \in SUBSET Lines /\ Replies \cup {X} \in SUBSET Lines
  BY DEF Requests, Replies, Lines
<1>3. lines \in Pipe /\ pending \in Pipe
  BY <1>1, <1>2, CarriesPipe DEF Ways
<1>4. answer \in Lines \cup {NULL}
  BY <1>1, <1>2 DEF Ways
<1>5. /\ stdin["windows"] \in Pipe /\ stdin["linux"] \in Pipe
      /\ stdout["windows"] \in Pipe /\ stdout["linux"] \in Pipe
  BY <1>1, <1>2, CarriesPipe DEF Ways
<1>6. stdin \in [Peers -> Pipe] /\ stdout \in [Peers -> Pipe]
  BY <1>1, <1>5 DEF Ways, Peers
<1> QED
  BY <1>1, <1>3, <1>4, <1>6, Zenon DEF RelayInv, PartsOK, TypeOK

(* Whatever the processes and the pipes do to each other, a pipe holds at  *)
(* most the lines it has room for and every process is in a state that its *)
(* loop knows (broker.cpp:118-168, run-lab.py:35-78, gateway.py:13-41).    *)
THEOREM TypeCorrect == Spec => []TypeOK
  BY RelayInvariant, RelayTyped, PTL

(* What the HID stack is told of an operation is true, and the puck        *)
(* carries none out twice: for every number of operations, every size of   *)
(* the pipes and every moment at which an answer comes late, a link breaks *)
(* or a process ends (gateway.py:23-41, broker.cpp:118-162).               *)
THEOREM AnswersHonest == Spec => []HonestAnswers
<1>1. RelayInv => HonestAnswers
  <2> SUFFICES ASSUME RelayInv, NEW o \in Ops
               PROVE  executed[o] <= 1 /\ (op[o] = "succeeded" => executed[o] = 1)
    BY DEF HonestAnswers
  <2>1. executed[o] \in 0 .. 1
    BY DEF RelayInv, PartsOK
  <2>2. op[o] = "succeeded" => executed[o] = 1
    BY DEF RelayInv, ToldTrue, Told
  <2> QED BY <2>1, <2>2
<1> QED
  BY <1>1, RelayInvariant, PTL
=============================================================================
