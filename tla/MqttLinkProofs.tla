--------------------------- MODULE MqttLinkProofs ---------------------------
(***************************************************************************)
(* Proofs about MqttLink for every channel bound, number of disturbances   *)
(* and dog period.                                                         *)
(*                                                                         *)
(* The frames of one connection are told apart by what the broker has      *)
(* seen.  Inv is the inductive invariant: types, what a socket state       *)
(* implies for the wire (LinkShape), the flags (the three checked          *)
(* invariants about them) and the handshake (SessionShape).                *)
(***************************************************************************)
EXTENDS MqttLink, TLAPS

Once(q, f) == \A i, j \in 1..Len(q) : q[i] = f /\ q[j] = f => i = j

LinkShape ==
    /\ pendingClose => sock = "Connecting"
    /\ sock \in {"Unconnected", "Connecting"} =>
         toBroker = << >> /\ fromBroker = << >> /\ broker = "idle" /\ ~acked
    /\ sock = "Connecting" => path
    /\ ~path => toBroker = << >> /\ fromBroker = << >> /\ broker = "idle"
    /\ isOnline2 => dog

\* The three stages of a connection whose path is alive.
AwaitsConnect ==
    /\ broker = "idle" /\ ~acked
    /\ toBroker # << >> /\ Head(toBroker) = "CONNECT"
    /\ Once(toBroker, "CONNECT")
    /\ ~Has(toBroker, "SUBSCRIBE")
    /\ fromBroker = << >>

AwaitsConnack ==
    /\ broker = "session" /\ ~acked
    /\ ~Has(toBroker, "CONNECT") /\ ~Has(toBroker, "SUBSCRIBE")
    /\ Has(fromBroker, "CONNACK") /\ Once(fromBroker, "CONNACK")

Acknowledged ==
    /\ broker \in {"session", "subscribed"} /\ acked
    /\ ~Has(toBroker, "CONNECT")
    /\ Has(toBroker, "SUBSCRIBE") <=> broker = "session"
    /\ Once(toBroker, "SUBSCRIBE")
    /\ ~Has(fromBroker, "CONNACK")

SessionShape ==
    sock \in {"Connected", "Closing"} /\ path =>
        AwaitsConnect \/ AwaitsConnack \/ Acknowledged

Inv ==
    /\ TypeOK
    /\ LinkShape
    /\ KeepAliveTracksLink
    /\ StaleOnlineIsBounded
    /\ ClosingIsOffline
    /\ SessionShape

-----------------------------------------------------------------------------
(* Sequences of frames                                                     *)

\* A frame of a channel is its head or in its tail.
LEMMA HasTail ==
    ASSUME NEW S, NEW q \in Seq(S), q # << >>, NEW f
    PROVE  Has(q, f) <=> Head(q) = f \/ Has(Tail(q), f)
  <1>1. ASSUME NEW i \in 1..Len(q), q[i] = f, i # 1 PROVE Has(Tail(q), f)
    <2>1. i - 1 \in 1..Len(Tail(q)) /\ Tail(q)[i - 1] = f
      BY <1>1
    <2> QED
      BY <2>1 DEF Has
  <1>2. ASSUME NEW i \in 1..Len(Tail(q)), Tail(q)[i] = f PROVE Has(q, f)
    <2>1. i + 1 \in 1..Len(q) /\ q[i + 1] = f
      BY <1>2
    <2> QED
      BY <2>1 DEF Has
  <1>3. Head(q) = q[1] /\ 1 \in 1..Len(q)
    OBVIOUS
  <1> QED
    BY <1>1, <1>2, <1>3 DEF Has

\* Taking the head keeps a frame unique, and removes it if it was the head.
LEMMA OnceTail ==
    ASSUME NEW S, NEW q \in Seq(S), q # << >>, NEW f, Once(q, f)
    PROVE  /\ Once(Tail(q), f)
           /\ Head(q) = f => ~Has(Tail(q), f)
  <1>1. \A i \in 1..Len(Tail(q)) :
            i + 1 \in 1..Len(q) /\ Tail(q)[i] = q[i + 1] /\ i \in Nat
    OBVIOUS
  <1>2. Head(q) = q[1] /\ 1 \in 1..Len(q)
    OBVIOUS
  <1>3. Once(Tail(q), f)
    <2> SUFFICES ASSUME NEW i \in 1..Len(Tail(q)), NEW j \in 1..Len(Tail(q)),
                        Tail(q)[i] = f, Tail(q)[j] = f
                 PROVE  i = j
      BY DEF Once
    <2>1. i + 1 = j + 1
      BY <1>1 DEF Once
    <2> QED
      BY <2>1, <1>1
  <1>4. ASSUME Head(q) = f, NEW i \in 1..Len(Tail(q)), Tail(q)[i] = f
        PROVE  FALSE
    <2>1. i + 1 = 1
      BY <1>1, <1>2, <1>4 DEF Once
    <2> QED
      BY <2>1
  <1> QED
    BY <1>3, <1>4 DEF Has

\* What appending one frame does to a channel.
LEMMA AppendFrame ==
    ASSUME NEW S, NEW q \in Seq(S), NEW x \in S, NEW f
    PROVE  /\ q \o <<x>> = Append(q, x)
           /\ Append(q, x) \in Seq(S) /\ Append(q, x) # << >>
           /\ Has(Append(q, x), f) <=> Has(q, f) \/ x = f
           /\ q # << >> => Head(Append(q, x)) = Head(q)
           /\ Once(q, f) /\ x # f => Once(Append(q, x), f)
           /\ ~Has(q, f) => Once(Append(q, x), f)
  <1>1. q \o <<x>> = Append(q, x)
    OBVIOUS
  <1>2. /\ Len(Append(q, x)) = Len(q) + 1
        /\ Append(q, x)[Len(q) + 1] = x
        /\ \A i \in 1..Len(q) : Append(q, x)[i] = q[i]
        /\ Append(q, x) \in Seq(S)
    OBVIOUS
  <1>3. q # << >> => Head(Append(q, x)) = Head(q)
    OBVIOUS
  <1>4. Once(q, f) /\ x # f => Once(Append(q, x), f)
    BY <1>2 DEF Once
  <1>5. ~Has(q, f) => Once(Append(q, x), f)
    BY <1>2 DEF Once, Has
  <1>6. Append(q, x) # << >>
    BY <1>2, Len(<< >>) = 0
  <1>7. Has(Append(q, x), f) <=> Has(q, f) \/ x = f
    BY <1>2 DEF Has
  <1> QED
    BY <1>1, <1>2, <1>3, <1>4, <1>5, <1>6, <1>7

-----------------------------------------------------------------------------
(* The invariant                                                           *)

Plain == {"PUBLISH", "PINGREQ", "DISCONNECT"}

\* A step that writes one plain frame and leaves the handshake alone.
SendsPlain ==
    /\ \/ SendFrames(<<"PUBLISH">>)
       \/ SendFrames(<<"PINGREQ">>)
       \/ SendFrames(<<"DISCONNECT">>)
    /\ acked' = acked
    /\ sock' = sock \/ (sock = "Connected" /\ sock' = "Closing")

\* Frames other than CONNECT and SUBSCRIBE do not disturb the handshake, and
\* a frame is written on a connected socket only.
LEMMA SendPlain ==
    ASSUME Inv, SendsPlain
    PROVE  /\ toBroker' \in Seq(OutFrames)
           /\ sock \notin {"Connected"} \/ ~path => UNCHANGED toBroker
           /\ SessionShape'
  <1> USE DEF Inv
  <1>0. PICK f \in Plain :
           /\ UNCHANGED <<fromBroker, broker, path>>
           /\ IF sock = "Connected" /\ path THEN toBroker' = toBroker \o <<f>>
                                           ELSE UNCHANGED toBroker
    BY DEF SendsPlain, SendFrames, Plain
  <1> USE DEF SendsPlain
  <1>1. CASE sock = "Connected" /\ path
    <2>1. toBroker' = toBroker \o <<f>> /\ UNCHANGED <<fromBroker, broker, path>>
      BY <1>0, <1>1
    <2>2. f \in OutFrames /\ f # "CONNECT" /\ f # "SUBSCRIBE"
      BY DEF Plain, OutFrames
    <2>3. /\ toBroker' \in Seq(OutFrames) /\ toBroker' # << >>
          /\ toBroker # << >> => Head(toBroker') = Head(toBroker)
          /\ \A g \in {"CONNECT", "SUBSCRIBE"} :
               /\ Has(toBroker', g) <=> Has(toBroker, g)
               /\ Once(toBroker, g) => Once(toBroker', g)
      <3>1. toBroker \in Seq(OutFrames)
        BY DEF TypeOK
      <3>2. toBroker' = Append(toBroker, f)
        BY <2>1, <2>2, <3>1, AppendFrame
      <3>3. /\ toBroker' \in Seq(OutFrames) /\ toBroker' # << >>
            /\ toBroker # << >> => Head(toBroker') = Head(toBroker)
        BY <2>2, <3>1, <3>2, AppendFrame
      <3>4. ASSUME NEW g \in {"CONNECT", "SUBSCRIBE"}
            PROVE  /\ Has(toBroker', g) <=> Has(toBroker, g)
                   /\ Once(toBroker, g) => Once(toBroker', g)
        BY <2>2, <3>1, <3>2, AppendFrame
      <3> QED
        BY <3>3, <3>4
    <2>4. AwaitsConnect => AwaitsConnect'
      BY <2>1, <2>3 DEF AwaitsConnect
    <2>5. AwaitsConnack => AwaitsConnack'
      BY <2>1, <2>3 DEF AwaitsConnack
    <2>6. Acknowledged => Acknowledged'
      BY <2>1, <2>3 DEF Acknowledged
    <2> QED
      BY <1>1, <2>1, <2>3, <2>4, <2>5, <2>6 DEF SessionShape
  <1>2. CASE ~(sock = "Connected" /\ path)
    <2>1. UNCHANGED <<toBroker, fromBroker, broker, path>>
      BY <1>0, <1>2
    <2>2. sock \in {"Connected", "Closing"} /\ path => SessionShape'
      BY <2>1 DEF SessionShape, AwaitsConnect, AwaitsConnack, Acknowledged
    <2> QED
      BY <1>2, <2>1, <2>2 DEF SessionShape, TypeOK
  <1> QED
    BY <1>1, <1>2

\* The invariant holds at start-up.
LEMMA InitInv == Init => Inv
  <1> SUFFICES ASSUME Init PROVE Inv
    OBVIOUS
  <1>1. TypeOK
    <2>1. << >> \in Seq(OutFrames) /\ << >> \in Seq(InFrames)
      OBVIOUS
    <2>2. 0 \in 0..DogPeriod /\ 0 \in 0..MaxFaults
      BY ConstantsOK
    <2> QED
      BY <2>1, <2>2 DEF Init, TypeOK, SockStates
  <1>2. LinkShape /\ KeepAliveTracksLink /\ StaleOnlineIsBounded
        /\ ClosingIsOffline /\ SessionShape
    BY DEF Init, LinkShape, KeepAliveTracksLink, StaleOnlineIsBounded,
           ClosingIsOffline, SessionShape
  <1> QED
    BY <1>1, <1>2 DEF Inv

\* Every step keeps the types; SendPlain and the sequence operators give the
\* types of the channels.
LEMMA TypeStep == Inv /\ [Next]_vars => TypeOK'
  <1> SUFFICES ASSUME Inv, [Next]_vars PROVE TypeOK'
    OBVIOUS
  <1> USE ConstantsOK DEF TypeOK, SockStates, flags, tcp, wire
  <1>0. TypeOK
    BY DEF Inv
  <1>a. Disturb => faults' \in 0..MaxFaults
    BY <1>0 DEF Disturb
  <1>b. 0 \in 0..DogPeriod
    OBVIOUS
  <1>c. << >> \in Seq(OutFrames) /\ << >> \in Seq(InFrames)
    OBVIOUS
  <1>1. CASE TcpConnected
    <2>1. toBroker' \in Seq(OutFrames)
      BY <1>0, <1>1 DEF TcpConnected, OutFrames
    <2> QED
      BY <1>0, <1>1, <2>1 DEF TcpConnected, StartKeepAlive
  <1>2. CASE TcpRefused
    BY <1>0, <1>2, <1>a DEF TcpRefused
  <1>3. CASE LinkDrops
    BY <1>0, <1>3, <1>a, <1>c DEF LinkDrops, SocketDisconnected, ForgetWire,
                            MqttDisConnectted
  <1>4. CASE CloseDone
    BY <1>0, <1>4, <1>c DEF CloseDone, SocketDisconnected, ForgetWire,
                      MqttDisConnectted
  <1>5. CASE PathDies
    BY <1>0, <1>5, <1>a, <1>c DEF PathDies, ForgetWire
  <1>6. CASE BrokerNext
    <2>1. ASSUME NEW f, BrokerReads(f)
          PROVE  toBroker' \in Seq(OutFrames)
      BY <1>0, <2>1 DEF BrokerReads
    <2>2. ASSUME NEW f \in InFrames, BrokerAnswers(f)
          PROVE  fromBroker' \in Seq(InFrames)
      BY <1>0, <2>2 DEF BrokerAnswers
    <2>3. CASE BrokerAccepts
      BY <1>0, <2>1, <2>2, <2>3 DEF BrokerAccepts, BrokerReads, InFrames
    <2>4. CASE BrokerSubscribes
      BY <1>0, <2>1, <2>4 DEF BrokerSubscribes, BrokerReads
    <2>5. CASE BrokerPongs
      BY <1>0, <2>1, <2>2, <2>5 DEF BrokerPongs, BrokerReads, InFrames
    <2>6. CASE BrokerTakes
      BY <1>0, <2>1, <2>6 DEF BrokerTakes, BrokerReads
    <2> QED
      BY <1>6, <2>3, <2>4, <2>5, <2>6 DEF BrokerNext
  <1>7. CASE ReceiveConnack
    <2>1. PICK version \in BOOLEAN :
             toBroker' = toBroker \o OnConnectedFrames(version)
      BY <1>7 DEF ReceiveConnack
    <2>2. "SUBSCRIBE" \in OutFrames /\ "PUBLISH" \in OutFrames
      BY DEF OutFrames
    <2>3. toBroker' \in Seq(OutFrames)
      <3>1. toBroker \o <<"SUBSCRIBE">> \in Seq(OutFrames)
        BY <1>0, <2>2
      <3>2. toBroker \o <<"SUBSCRIBE", "PUBLISH">> \in Seq(OutFrames)
        BY <1>0, <2>2
      <3> QED
        BY <2>1, <3>1, <3>2 DEF OnConnectedFrames
    <2> QED
      BY <1>0, <1>7, <2>3 DEF ReceiveConnack, Receive
  <1>8. CASE ReceivePingresp
    BY <1>0, <1>8 DEF ReceivePingresp, Receive
  <1>9. ASSUME PingPeriod PROVE age' \in 0..DogPeriod
    BY <1>0, <1>9 DEF PingPeriod
  <1>10. ASSUME NEW f \in Plain, SendFrames(<<f>>)
         PROVE  toBroker' \in Seq(OutFrames) /\ fromBroker' \in Seq(InFrames)
                /\ path' \in BOOLEAN /\ broker' = broker
    <2>1. f \in OutFrames
      BY DEF Plain, OutFrames
    <2>2. toBroker \o <<f>> \in Seq(OutFrames)
      BY <1>0, <2>1
    <2> QED
      BY <1>0, <1>10, <2>2 DEF SendFrames
  <1>11. CASE Tick \/ TickLate
    <2>1. PingPeriod /\ faults' \in 0..MaxFaults
      BY <1>0, <1>a, <1>11 DEF Tick, TickLate
    <2>2. CASE keepAlive
      BY <1>0, <1>9, <1>10, <2>1, <2>2 DEF PingPeriod, Plain
    <2>3. CASE ~keepAlive
      BY <1>0, <1>9, <2>1, <2>3 DEF PingPeriod
    <2> QED
      BY <2>2, <2>3
  <1>12. CASE DogOnTime \/ DogLate
    <2>1. CheckDog /\ faults' \in 0..MaxFaults
      BY <1>0, <1>a, <1>12 DEF DogOnTime, DogLate
    <2>2. CASE DogBites
      BY <1>0, <1>b, <1>10, <2>1, <2>2 DEF CheckDog, DogBites, DisconnectFromHost, Plain
    <2>3. CASE DogHeard \/ DogSulks
      BY <1>0, <1>b, <2>1, <2>3 DEF CheckDog, DogHeard, DogSulks
    <2> QED
      BY <2>1, <2>2, <2>3 DEF CheckDog
  <1>13. ASSUME InitMqtt PROVE sock' \in SockStates /\ UNCHANGED <<toBroker, fromBroker, broker, keepAlive, acked>> /\ path' \in BOOLEAN /\ pendingClose' \in BOOLEAN
    BY <1>0, <1>13 DEF InitMqtt, ConnectToHost
  <1>14. CASE Sample
    <2>1. CASE SendDataReturns
      BY <1>0, <1>10, <1>14, <2>1 DEF Sample, Publish, Plain
    <2>2. CASE ~SendDataReturns
      BY <1>0, <1>13, <1>14, <2>2 DEF Sample
    <2> QED
      BY <2>1, <2>2
  <1>15. CASE Notify
    <2>1. CASE sock = "Connected"
      BY <1>0, <1>10, <1>15, <2>1 DEF Notify, Publish, Plain
    <2>2. CASE sock # "Connected"
      BY <1>0, <1>15, <2>2 DEF Notify
    <2> QED
      BY <2>1, <2>2
  <1>16. CASE NetworkOnline
    BY <1>0, <1>13, <1>16 DEF NetworkOnline
  <1>17. CASE NetworkOffline
    BY <1>0, <1>a, <1>17 DEF NetworkOffline, MqttDisConnectted
  <1>18. CASE Restart
    BY <1>0, <1>a, <1>b, <1>c, <1>18 DEF Restart, ForgetWire
  <1>19. CASE UNCHANGED vars
    BY <1>0, <1>19 DEF vars
  <1> QED
    BY <1>1, <1>2, <1>3, <1>4, <1>5, <1>6, <1>7, <1>8, <1>11, <1>12, <1>14,
       <1>15, <1>16, <1>17, <1>18, <1>19 DEF Next

\* The flags and the socket: LinkShape and the three invariants about them.
Flags == LinkShape /\ KeepAliveTracksLink /\ StaleOnlineIsBounded
           /\ ClosingIsOffline

\* Every step keeps what relates the flags to the link.
LEMMA FlagStep == Inv /\ [Next]_vars => Flags'
  <1> SUFFICES ASSUME Inv, [Next]_vars PROVE Flags'
    OBVIOUS
  <1> USE DEF Flags, LinkShape, KeepAliveTracksLink, StaleOnlineIsBounded,
              ClosingIsOffline, SockStates, flags, tcp, wire
  <1>0. TypeOK /\ Flags
    BY DEF Inv
  <1>1. CASE TcpConnected
    BY <1>0, <1>1 DEF TcpConnected, StartKeepAlive, TypeOK
  <1>2. CASE TcpRefused
    BY <1>0, <1>2 DEF TcpRefused, TypeOK
  <1>3. CASE LinkDrops \/ CloseDone
    BY <1>0, <1>3 DEF LinkDrops, CloseDone, SocketDisconnected, ForgetWire,
                      MqttDisConnectted, TypeOK
  <1>4. CASE PathDies
    BY <1>0, <1>4 DEF PathDies, ForgetWire, TypeOK
  <1>5. CASE BrokerNext
    <2>1. path /\ toBroker # << >>
          /\ UNCHANGED <<sock, pendingClose, path, keepAlive, acked, flags>>
      BY <1>5 DEF BrokerNext, BrokerAccepts, BrokerSubscribes, BrokerPongs,
                  BrokerTakes, BrokerReads
    <2>2. sock \in {"Connected", "Closing"}
      BY <1>0, <2>1 DEF TypeOK
    <2> QED
      BY <1>0, <2>1, <2>2
  <1>6. CASE ReceiveConnack
    BY <1>0, <1>6 DEF ReceiveConnack, Receive, TypeOK
  <1>7. CASE ReceivePingresp
    BY <1>0, <1>7 DEF ReceivePingresp, Receive, TypeOK
  <1>8. ASSUME NEW fs, SendFrames(fs)
        PROVE  /\ sock # "Connected" => UNCHANGED wire
               /\ ~path => UNCHANGED wire
               /\ UNCHANGED <<path, fromBroker, broker>>
    BY <1>8 DEF SendFrames
  <1>9. CASE Tick \/ TickLate
    <2>1. PingPeriod
      BY <1>9 DEF Tick, TickLate
    <2>2. CASE keepAlive
      BY <1>0, <1>8, <2>1, <2>2 DEF PingPeriod, TypeOK
    <2>3. CASE ~keepAlive
      BY <1>0, <2>1, <2>3 DEF PingPeriod
    <2> QED
      BY <2>2, <2>3
  <1>10. CASE DogOnTime \/ DogLate
    <2>1. CheckDog
      BY <1>10 DEF DogOnTime, DogLate
    <2>2. CASE DogBites
      <3>1. SendFrames(<<"DISCONNECT">>)
        BY <2>2 DEF DogBites, DisconnectFromHost
      <3> QED
        BY <1>0, <1>8, <2>1, <2>2, <3>1
           DEF CheckDog, DogBites, DisconnectFromHost, TypeOK
    <2>3. CASE DogHeard
      BY <1>0, <2>1, <2>3 DEF CheckDog, DogHeard, TypeOK
    <2>4. CASE DogSulks
      BY <1>0, <2>1, <2>4 DEF CheckDog, DogSulks, TypeOK
    <2> QED
      BY <2>1, <2>2, <2>3, <2>4 DEF CheckDog
  <1>11. ASSUME ~isOnline, InitMqtt, UNCHANGED <<flags, isOn>>
         PROVE  Flags'
    BY <1>0, <1>11 DEF InitMqtt, ConnectToHost, TypeOK
  <1>12. CASE Sample
    <2>1. CASE isOnline
      BY <1>0, <1>8, <1>12, <2>1 DEF Sample, SendDataReturns, Publish, TypeOK
    <2>2. CASE ~isOnline
      BY <1>11, <1>12, <2>2 DEF Sample, SendDataReturns
    <2> QED
      BY <2>1, <2>2
  <1>13. CASE Notify
    <2>1. CASE sock = "Connected"
      BY <1>0, <1>8, <1>13, <2>1 DEF Notify, Publish, TypeOK
    <2>2. CASE sock # "Connected"
      BY <1>0, <1>13, <2>2 DEF Notify
    <2> QED
      BY <2>1, <2>2
  <1>14. CASE NetworkOnline
    <2>1. CASE isOnline
      BY <1>0, <1>14, <2>1 DEF NetworkOnline, InitMqtt
    <2>2. CASE ~isOnline
      BY <1>11, <1>14, <2>2 DEF NetworkOnline
    <2> QED
      BY <2>1, <2>2
  <1>15. CASE NetworkOffline
    BY <1>0, <1>15 DEF NetworkOffline, MqttDisConnectted, TypeOK
  <1>16. CASE Restart
    BY <1>16 DEF Restart, ForgetWire
  <1>17. CASE UNCHANGED vars
    BY <1>0, <1>17 DEF vars
  <1> QED
    BY <1>1, <1>2, <1>3, <1>4, <1>5, <1>6, <1>7, <1>9, <1>10, <1>12, <1>13,
       <1>14, <1>15, <1>16, <1>17 DEF Next

-----------------------------------------------------------------------------

\* The handshake: CONNECT first and once, then CONNACK, then one SUBSCRIBE.
LEMMA SessionStep == Inv /\ [Next]_vars => SessionShape'
  <1> SUFFICES ASSUME Inv, [Next]_vars PROVE SessionShape'
    OBVIOUS
  <1> USE DEF flags, tcp, wire
  <1>0. TypeOK /\ LinkShape /\ SessionShape
    BY DEF Inv
  <1>1. ASSUME UNCHANGED <<wire, acked>>,
               sock' \in {"Connected", "Closing"} =>
                   sock \in {"Connected", "Closing"}
        PROVE  SessionShape'
    BY <1>0, <1>1 DEF SessionShape, AwaitsConnect, AwaitsConnack, Acknowledged
  <1>a. SendsPlain => SessionShape'
    BY SendPlain
  <1>2. CASE TcpConnected
    <2>1. toBroker = << >> /\ fromBroker = << >> /\ broker = "idle" /\ ~acked
      BY <1>0, <1>2 DEF TcpConnected, LinkShape
    <2>2. toBroker' = <<"CONNECT">> /\ UNCHANGED <<fromBroker, broker, acked>>
      BY <1>2, <2>1 DEF TcpConnected
    <2>3. AwaitsConnect'
      BY <2>1, <2>2 DEF AwaitsConnect, Once, Has
    <2> QED
      BY <2>3 DEF SessionShape
  <1>3. CASE TcpRefused \/ LinkDrops \/ CloseDone
    BY <1>3 DEF TcpRefused, LinkDrops, CloseDone, SocketDisconnected,
                SessionShape
  <1>4. CASE PathDies
    BY <1>4 DEF PathDies, SessionShape
  <1>5. CASE BrokerNext
    <2>1. PICK f : BrokerReads(f) /\ f \in OutFrames
                   /\ \/ f = "CONNECT" /\ BrokerAccepts
                      \/ f = "SUBSCRIBE" /\ BrokerSubscribes
                      \/ f = "PINGREQ" /\ BrokerPongs
                      \/ f \in {"PUBLISH", "DISCONNECT"} /\ BrokerTakes
      BY <1>5 DEF BrokerNext, BrokerAccepts, BrokerSubscribes, BrokerPongs,
                  BrokerTakes, OutFrames
    <2>2. /\ path /\ toBroker # << >> /\ f = Head(toBroker)
          /\ toBroker' = Tail(toBroker) /\ UNCHANGED <<sock, path, acked>>
      BY <2>1 DEF BrokerReads
    <2>3. toBroker \in Seq(OutFrames) /\ fromBroker \in Seq(InFrames)
      BY <1>0 DEF TypeOK
    <2>4. ASSUME NEW g
          PROVE  /\ Has(toBroker, g) <=> f = g \/ Has(toBroker', g)
                 /\ Once(toBroker, g) => Once(toBroker', g)
                 /\ Once(toBroker, g) /\ f = g => ~Has(toBroker', g)
      BY <2>2, <2>3, HasTail, OnceTail
    <2>5. SessionShape => AwaitsConnect \/ AwaitsConnack \/ Acknowledged
      BY <1>0, <2>2 DEF SessionShape, LinkShape, TypeOK, SockStates
    <2>6. CASE BrokerAccepts
      <3>1. f = "CONNECT" /\ broker = "idle" /\ broker' = "session"
            /\ fromBroker' = Append(fromBroker, "CONNACK")
        BY <2>1, <2>2, <2>6 DEF BrokerAccepts, BrokerReads, BrokerAnswers
      <3>2. AwaitsConnect
        BY <1>0, <2>5, <3>1 DEF AwaitsConnack, Acknowledged
      <3>3. fromBroker' = <<"CONNACK">>
        BY <3>1, <3>2 DEF AwaitsConnect
      <3>4. Has(fromBroker', "CONNACK") /\ Once(fromBroker', "CONNACK")
        BY <3>3 DEF Has, Once
      <3>5. AwaitsConnack'
        BY <2>2, <2>4, <3>1, <3>2, <3>4 DEF AwaitsConnect, AwaitsConnack
      <3> QED
        BY <3>5 DEF SessionShape
    <2>7. CASE BrokerSubscribes
      <3>1. f = "SUBSCRIBE" /\ broker = "session" /\ broker' = "subscribed"
            /\ UNCHANGED fromBroker
        BY <2>1, <2>2, <2>7 DEF BrokerSubscribes, BrokerReads
      <3>2. Acknowledged
        BY <1>0, <2>4, <2>5, <3>1 DEF AwaitsConnack, AwaitsConnect
      <3>3. Acknowledged'
        BY <2>2, <2>4, <3>1, <3>2 DEF Acknowledged
      <3> QED
        BY <3>3 DEF SessionShape
    <2>8. CASE BrokerPongs
      <3>1. f = "PINGREQ" /\ UNCHANGED broker
            /\ fromBroker' = Append(fromBroker, "PINGRESP")
        BY <2>1, <2>2, <2>8 DEF BrokerPongs, BrokerReads, BrokerAnswers
      <3>2. /\ Has(fromBroker', "CONNACK") <=> Has(fromBroker, "CONNACK")
            /\ Once(fromBroker, "CONNACK") => Once(fromBroker', "CONNACK")
        <4>1. "PINGRESP" \in InFrames /\ "PINGRESP" # "CONNACK"
          BY DEF InFrames
        <4> QED
          BY <2>3, <3>1, <4>1, AppendFrame
      <3>3. CASE AwaitsConnack
        BY <2>2, <2>4, <3>1, <3>2, <3>3 DEF AwaitsConnack, SessionShape
      <3>4. CASE Acknowledged
        BY <2>2, <2>4, <3>1, <3>2, <3>4 DEF Acknowledged, SessionShape
      <3>5. ~AwaitsConnect
        BY <2>2, <3>1 DEF AwaitsConnect
      <3> QED
        BY <1>0, <2>5, <3>3, <3>4, <3>5
    <2>9. CASE BrokerTakes
      <3>1. f \in {"PUBLISH", "DISCONNECT"} /\ UNCHANGED <<fromBroker, broker>>
        BY <2>1, <2>2, <2>9 DEF BrokerTakes, BrokerReads
      <3>2. CASE AwaitsConnack
        BY <2>2, <2>4, <3>1, <3>2 DEF AwaitsConnack, SessionShape
      <3>3. CASE Acknowledged
        BY <2>2, <2>4, <3>1, <3>3 DEF Acknowledged, SessionShape
      <3>4. ~AwaitsConnect
        BY <2>2, <3>1 DEF AwaitsConnect
      <3> QED
        BY <1>0, <2>5, <3>2, <3>3, <3>4
    <2> QED
      BY <1>5, <2>6, <2>7, <2>8, <2>9 DEF BrokerNext
  <1>6. CASE ReceiveConnack
    <2>1. /\ sock = "Connected" /\ fromBroker # << >>
          /\ Head(fromBroker) = "CONNACK" /\ fromBroker' = Tail(fromBroker)
          /\ acked' = TRUE /\ UNCHANGED <<sock, path, broker>>
      BY <1>6 DEF ReceiveConnack, Receive
    <2>2. PICK version \in BOOLEAN :
             toBroker' = toBroker \o OnConnectedFrames(version)
      BY <1>6 DEF ReceiveConnack
    <2>3. toBroker \in Seq(OutFrames) /\ fromBroker \in Seq(InFrames)
      BY <1>0 DEF TypeOK
    <2>4. SUFFICES ASSUME path PROVE Acknowledged'
      BY <2>1 DEF SessionShape
    <2>5. Has(fromBroker, "CONNACK")
      BY <2>1, <2>3, HasTail
    <2>6. AwaitsConnack
      BY <1>0, <2>1, <2>4, <2>5 DEF SessionShape, AwaitsConnect, Acknowledged
    <2>7. ~Has(fromBroker', "CONNACK")
      BY <2>1, <2>3, <2>6, OnceTail DEF AwaitsConnack
    <2>8. DEFINE q == Append(toBroker, "SUBSCRIBE")
    <2>9. "SUBSCRIBE" \in OutFrames /\ "PUBLISH" \in OutFrames
      BY DEF OutFrames
    <2>10. q \in Seq(OutFrames) /\ ~Has(q, "CONNECT") /\ Has(q, "SUBSCRIBE")
           /\ Once(q, "SUBSCRIBE")
      BY <2>3, <2>6, <2>9, AppendFrame DEF AwaitsConnack
    <2>11. toBroker' = q \/ toBroker' = Append(q, "PUBLISH")
      <3>1. toBroker \o <<"SUBSCRIBE">> = q
        BY <2>3, <2>9
      <3>2. toBroker \o <<"SUBSCRIBE", "PUBLISH">> = Append(q, "PUBLISH")
        BY <2>3, <2>9
      <3> QED
        BY <2>2, <3>1, <3>2 DEF OnConnectedFrames
    <2>12. ~Has(toBroker', "CONNECT") /\ Has(toBroker', "SUBSCRIBE")
           /\ Once(toBroker', "SUBSCRIBE")
      <3> HIDE DEF q
      <3>1. CASE toBroker' = q
        BY <2>10, <3>1
      <3>2. CASE toBroker' = Append(q, "PUBLISH")
        <4>1. /\ Has(Append(q, "PUBLISH"), "CONNECT") <=> Has(q, "CONNECT")
              /\ Has(Append(q, "PUBLISH"), "SUBSCRIBE") <=> Has(q, "SUBSCRIBE")
          BY <2>9, <2>10, AppendFrame
        <4>2. Once(Append(q, "PUBLISH"), "SUBSCRIBE")
          BY <2>9, <2>10, AppendFrame
        <4> QED
          BY <2>10, <3>2, <4>1, <4>2
      <3> QED
        BY <2>11, <3>1, <3>2
    <2> QED
      BY <2>1, <2>6, <2>7, <2>12 DEF AwaitsConnack, Acknowledged
  <1>7. CASE ReceivePingresp
    <2>1. /\ sock = "Connected" /\ fromBroker # << >>
          /\ Head(fromBroker) = "PINGRESP" /\ fromBroker' = Tail(fromBroker)
          /\ UNCHANGED <<sock, path, broker, toBroker, acked>>
      BY <1>7 DEF ReceivePingresp, Receive
    <2>2. /\ Has(fromBroker', "CONNACK") <=> Has(fromBroker, "CONNACK")
          /\ Once(fromBroker, "CONNACK") => Once(fromBroker', "CONNACK")
      <3>1. fromBroker \in Seq(InFrames)
        BY <1>0 DEF TypeOK
      <3> QED
        BY <2>1, <3>1, HasTail, OnceTail
    <2>3. ~AwaitsConnect
      BY <2>1 DEF AwaitsConnect
    <2>4. AwaitsConnack => AwaitsConnack'
      BY <2>1, <2>2 DEF AwaitsConnack
    <2>5. Acknowledged => Acknowledged'
      BY <2>1, <2>2 DEF Acknowledged
    <2> QED
      BY <1>0, <2>1, <2>3, <2>4, <2>5 DEF SessionShape
  <1>8. CASE Tick \/ TickLate
    <2>1. PingPeriod
      BY <1>8 DEF Tick, TickLate
    <2>2. CASE keepAlive
      <3>1. SendsPlain
        BY <2>1, <2>2 DEF PingPeriod, SendsPlain
      <3> QED
        BY <1>a, <3>1
    <2>3. CASE ~keepAlive
      BY <1>1, <2>1, <2>3 DEF PingPeriod
    <2> QED
      BY <2>2, <2>3
  <1>9. CASE DogOnTime \/ DogLate
    <2>1. CheckDog
      BY <1>9 DEF DogOnTime, DogLate
    <2>2. CASE DogBites
      <3>1. SendsPlain
        BY <2>2 DEF DogBites, DisconnectFromHost, SendsPlain
      <3> QED
        BY <1>a, <3>1
    <2>3. CASE DogHeard \/ DogSulks
      BY <1>1, <2>3 DEF DogHeard, DogSulks
    <2> QED
      BY <2>1, <2>2, <2>3 DEF CheckDog
  <1>10. ASSUME InitMqtt PROVE SessionShape'
    <2>1. CASE UNCHANGED tcp
      BY <1>1, <2>1
    <2>2. CASE sock' = "Connecting"
      BY <2>2 DEF SessionShape
    <2> QED
      BY <1>10, <2>1, <2>2 DEF InitMqtt, ConnectToHost
  <1>11. CASE Sample
    <2>1. CASE isOnline
      <3>1. SendsPlain
        BY <1>11, <2>1
           DEF Sample, SendDataReturns, Publish, SendsPlain
      <3> QED
        BY <1>a, <3>1
    <2>2. CASE ~isOnline
      BY <1>10, <1>11, <2>2 DEF Sample, SendDataReturns
    <2> QED
      BY <2>1, <2>2
  <1>12. CASE Notify
    <2>1. CASE sock = "Connected"
      <3>1. SendsPlain
        BY <1>12, <2>1 DEF Notify, Publish, SendsPlain
      <3> QED
        BY <1>a, <3>1
    <2>2. CASE sock # "Connected"
      BY <1>1, <1>12, <2>2 DEF Notify
    <2> QED
      BY <2>1, <2>2
  <1>13. CASE NetworkOnline
    BY <1>10, <1>13 DEF NetworkOnline
  <1>14. CASE NetworkOffline
    BY <1>1, <1>14 DEF NetworkOffline
  <1>15. CASE Restart
    BY <1>15 DEF Restart, SessionShape
  <1>16. CASE UNCHANGED vars
    BY <1>1, <1>16 DEF vars
  <1> QED
    BY <1>2, <1>3, <1>4, <1>5, <1>6, <1>7, <1>8, <1>9, <1>11, <1>12, <1>13,
       <1>14, <1>15, <1>16 DEF Next

-----------------------------------------------------------------------------
(* Theorems of the specification                                           *)

\* Inv is inductive.
LEMMA InvStep == Inv /\ [Next]_vars => Inv'
  BY TypeStep, FlagStep, SessionStep DEF Inv, Flags

\* Inv holds in every reachable state, whatever the bounds.
THEOREM Invariance == Spec => []Inv
  BY InitInv, InvStep, PTL DEF Spec

\* The variables keep their types; in particular nothing but the five frames
\* the client knows is ever written, and age and faults stay in their bounds.
THEOREM TypeCorrect == Spec => []TypeOK
  <1>1. Inv => TypeOK
    BY DEF Inv
  <1> QED
    BY <1>1, Invariance, PTL

\* startKeepAlive and stopKeepAlive bracket every connection.
THEOREM KeepAliveBracketsLink == Spec => []KeepAliveTracksLink
  <1>1. Inv => KeepAliveTracksLink
    BY DEF Inv
  <1> QED
    BY <1>1, Invariance, PTL

\* A flag the dog has raised over a dead socket falls at its next timeout.
THEOREM StaleFlagFalls == Spec => []StaleOnlineIsBounded
  <1>1. Inv => StaleOnlineIsBounded
    BY DEF Inv
  <1> QED
    BY <1>1, Invariance, PTL

\* No component is told the gateway is online while the client closes.
THEOREM NeverOnlineWhileClosing == Spec => []ClosingIsOffline
  <1>1. Inv => ClosingIsOffline
    BY DEF Inv
  <1> QED
    BY <1>1, Invariance, PTL

\* Inv knows the channel in each stage of a connection, hence the order of
\* CONNECT, CONNACK and SUBSCRIBE.
LEMMA InvOrdersHandshake == Inv => ConnectFirst /\ OneSubscription
  <1> SUFFICES ASSUME Inv PROVE ConnectFirst /\ OneSubscription
    OBVIOUS
  <1>0. TypeOK /\ LinkShape /\ SessionShape
    BY DEF Inv
  <1>1. \A f : ~Has(<< >>, f)
    BY DEF Has
  <1>2. CASE sock \in {"Unconnected", "Connecting"} \/ ~path
    <2>1. toBroker = << >> /\ fromBroker = << >> /\ broker = "idle"
          /\ (sock \in {"Unconnected", "Connecting"} => ~acked)
      BY <1>0, <1>2 DEF LinkShape
    <2> QED
      BY <1>1, <1>2, <2>1 DEF ConnectFirst, OneSubscription
  <1>3. CASE sock \in {"Connected", "Closing"} /\ path
    <2>1. AwaitsConnect \/ AwaitsConnack \/ Acknowledged
      BY <1>0, <1>3 DEF SessionShape
    <2>2. CASE AwaitsConnect
      BY <1>1, <2>2 DEF AwaitsConnect, ConnectFirst, OneSubscription
    <2>3. CASE AwaitsConnack
      BY <2>3 DEF AwaitsConnack, ConnectFirst, OneSubscription
    <2>4. CASE Acknowledged
      BY <2>4 DEF Acknowledged, ConnectFirst, OneSubscription
    <2> QED
      BY <2>1, <2>2, <2>3, <2>4
  <1> QED
    BY <1>0, <1>2, <1>3 DEF TypeOK, SockStates

\* The broker sees CONNECT before anything else and once per connection,
\* whatever samples, notifications and pings are written meanwhile.
THEOREM ConnectLeads == Spec => []ConnectFirst
  BY InvOrdersHandshake, Invariance, PTL

\* Each connection asks for its subscription once, after CONNACK.
THEOREM SubscribesOnce == Spec => []OneSubscription
  BY InvOrdersHandshake, Invariance, PTL

-----------------------------------------------------------------------------
(* MqttLink implements LinkContract                                        *)

\* Every step of the link is a step its users expect, or none they see.
LEMMA ContractStep ==
    Inv /\ [Next]_vars => [Contract!LinkNext]_(Contract!linkVars)
  <1> SUFFICES ASSUME Inv, [Next]_vars
               PROVE  [Contract!LinkNext]_(Contract!linkVars)
    OBVIOUS
  <1> USE DEF flags, tcp, wire
  <1>0. /\ TypeOK /\ LinkShape /\ SessionShape
        /\ StaleOnlineIsBounded /\ ClosingIsOffline
    BY DEF Inv
  <1>a. ASSUME UNCHANGED <<sock, acked, isOnline>>
        PROVE  UNCHANGED Contract!linkVars
    BY <1>a DEF Contract!linkVars, phase
  <1>b. ASSUME UNCHANGED <<sock, acked>>, isOnline' \in BOOLEAN,
               sock = "Closing" => ~isOnline'
        PROVE  Contract!FlagChange
    BY <1>0, <1>b DEF Contract!FlagChange, phase, TypeOK, SockStates
  <1>c. ASSUME InitMqtt, UNCHANGED isOnline
        PROVE  UNCHANGED Contract!linkVars
    BY <1>0, <1>c DEF InitMqtt, ConnectToHost, Contract!linkVars, phase
  <1>1. CASE TcpConnected
    <2>1. phase = "down" /\ UNCHANGED isOnline
          /\ phase' = IF pendingClose THEN "closing" ELSE "tcp"
      BY <1>0, <1>1 DEF TcpConnected, phase, LinkShape, TypeOK
    <2>2. pendingClose => ~isOnline
      BY <1>0 DEF ClosingIsOffline
    <2>3. Contract!TcpUp
      BY <1>0, <2>1, <2>2 DEF Contract!TcpUp, TypeOK
    <2> QED
      BY <2>3 DEF Contract!LinkNext
  <1>2. CASE TcpRefused
    BY <1>2 DEF TcpRefused, Contract!linkVars, phase
  <1>3. CASE LinkDrops \/ CloseDone
    <2>1. sock \in {"Connected", "Closing"} /\ sock' = "Unconnected"
          /\ isOnline' = FALSE
      BY <1>3 DEF LinkDrops, CloseDone, SocketDisconnected, MqttDisConnectted
    <2>2. Contract!LinkLost
      BY <2>1 DEF Contract!LinkLost, phase
    <2> QED
      BY <2>2 DEF Contract!LinkNext
  <1>4. CASE PathDies
    BY <1>4, <1>a DEF PathDies
  <1>5. CASE BrokerNext
    BY <1>5, <1>a DEF BrokerNext, BrokerAccepts, BrokerSubscribes,
                      BrokerPongs, BrokerTakes, BrokerReads
  <1>6. CASE ReceiveConnack
    <2>1. sock = "Connected" /\ sock' = sock /\ acked' = TRUE
          /\ isOnline' = TRUE /\ fromBroker # << >>
          /\ Head(fromBroker) = "CONNACK"
      BY <1>6 DEF ReceiveConnack, Receive
    <2>2. Has(fromBroker, "CONNACK")
      BY <1>0, <2>1, HasTail DEF TypeOK
    <2>3. ~acked
      BY <2>2, InvOrdersHandshake DEF OneSubscription
    <2>4. Contract!LinkReady
      BY <2>1, <2>3 DEF Contract!LinkReady, phase
    <2> QED
      BY <2>4 DEF Contract!LinkNext
  <1>7. CASE ReceivePingresp
    <2>1. Contract!FlagChange
      BY <1>7, <1>b DEF ReceivePingresp, Receive
    <2> QED
      BY <2>1 DEF Contract!LinkNext
  <1>8. CASE Tick \/ TickLate
    BY <1>8, <1>a DEF Tick, TickLate, PingPeriod
  <1>9. CASE DogOnTime \/ DogLate
    <2>1. CheckDog
      BY <1>9 DEF DogOnTime, DogLate
    <2>2. CASE DogBites /\ sock = "Connected"
      <3>1. sock' = "Closing" /\ isOnline' = FALSE
        BY <2>2 DEF DogBites, DisconnectFromHost
      <3>2. Contract!LinkClosing
        BY <2>2, <3>1 DEF Contract!LinkClosing, Contract!Established, phase
      <3> QED
        BY <3>2 DEF Contract!LinkNext
    <2>3. CASE DogBites /\ sock # "Connected"
      <3>1. UNCHANGED <<sock, acked>> /\ isOnline' = FALSE
        BY <2>3 DEF DogBites, DisconnectFromHost
      <3>2. Contract!FlagChange
        BY <1>b, <3>1
      <3> QED
        BY <3>2 DEF Contract!LinkNext
    <2>4. CASE DogHeard \/ DogSulks
      <3>1. Contract!FlagChange
        BY <1>0, <1>b, <2>4 DEF DogHeard, DogSulks, ClosingIsOffline
      <3> QED
        BY <3>1 DEF Contract!LinkNext
    <2> QED
      BY <2>1, <2>2, <2>3, <2>4 DEF CheckDog
  <1>10. CASE Sample
    <2>1. CASE isOnline
      BY <1>10, <1>a, <2>1 DEF Sample, SendDataReturns
    <2>2. CASE ~isOnline
      BY <1>10, <1>c, <2>2 DEF Sample, SendDataReturns
    <2> QED
      BY <2>1, <2>2
  <1>11. CASE Notify
    <2>1. Contract!FlagChange
      BY <1>0, <1>11, <1>b DEF Notify, TypeOK, ClosingIsOffline
    <2> QED
      BY <2>1 DEF Contract!LinkNext
  <1>12. CASE NetworkOnline
    BY <1>12, <1>c DEF NetworkOnline
  <1>13. CASE NetworkOffline
    <2>1. Contract!FlagChange
      BY <1>13, <1>b DEF NetworkOffline, MqttDisConnectted
    <2> QED
      BY <2>1 DEF Contract!LinkNext
  <1>14. CASE Restart
    <2>1. phase' = "down" /\ isOnline' = FALSE
      BY <1>14 DEF Restart, phase
    <2>2. CASE phase = "down"
      BY <2>1, <2>2 DEF Contract!LinkNext, Contract!FlagChange
    <2>3. CASE phase # "down"
      BY <2>1, <2>3 DEF Contract!LinkNext, Contract!LinkLost
    <2> QED
      BY <2>2, <2>3
  <1>15. CASE UNCHANGED vars
    BY <1>15, <1>a DEF vars
  <1> QED
    BY <1>1, <1>2, <1>3, <1>4, <1>5, <1>6, <1>7, <1>8, <1>9, <1>10, <1>11,
       <1>12, <1>13, <1>14, <1>15 DEF Next

\* The link refines its contract: what Resend assumes of phase and isOnline
\* is what sockets, broker, dog and slots produce.
THEOREM LinkRefinesContract == Spec => ImplementsContract
  <1>1. Init => Contract!LinkInit
    BY DEF Init, Contract!LinkInit, phase
  <1> QED
    BY <1>1, Invariance, ContractStep, PTL
       DEF Spec, ImplementsContract, Contract!LinkSpec

-----------------------------------------------------------------------------
(* What the link's recovery rests on, but for scheduling.  The dog's period *)
(* holds two pings or more: six in the code.                                *)

Live == sock = "Connected" /\ path

\* The dog will have heard an answer when it looks next: one is marked, or a
\* ping is under way, or the dog has only just looked.
DogSafe ==
    dog => /\ age >= 2 => isOnline2
           /\ age = 1 => \/ isOnline2
                         \/ Has(toBroker, "PINGREQ")
                         \/ Has(fromBroker, "PINGRESP")

\* Online, the management topic subscribed, and the dog content.
Settled == Live /\ broker = "subscribed" /\ isOnline /\ DogSafe

\* How often the dog may still close the link: once, unless it has already and
\* has heard nothing since, or a live link gives it no reason to.
Bites == IF (Live /\ DogSafe) \/ (~first /\ ~isOnline2) THEN 0 ELSE 1

\* What has still to happen before the link is settled, if the dog does not
\* bite: a socket to close, a stale flag to fall, a connection to be asked for
\* and made, CONNECT, CONNACK and SUBSCRIBE to arrive, a ping to be answered.
Stage ==
    IF sock = "Connecting" THEN IF pendingClose THEN 10 ELSE 5
    ELSE IF sock = "Unconnected" THEN
      IF isOnline2 THEN 8 ELSE IF isOnline THEN 7 ELSE 6
    ELSE IF ~Live THEN 9
    ELSE IF broker = "idle" THEN 4
    ELSE IF ~acked THEN 3
    ELSE IF broker = "session" THEN 2
    ELSE IF Settled THEN 0 ELSE 1

Distance == IF Bites = 1 THEN Stage + 11 ELSE Stage

\* The steps that bring the link nearer to being settled.
Helpful ==
    \/ TcpConnected \/ CloseDone
    \/ sock = "Unconnected" /\ ((isOnline /\ DogOnTime) \/ (~isOnline /\ Sample))
    \/ Live /\ (BrokerAccepts \/ ReceiveConnack \/ BrokerSubscribes)
    \/ Live /\ broker = "subscribed" /\ ~Settled /\ ReceivePingresp

Undisturbed == faults' = faults

\* The steps that are no disturbance.
LEMMA UndisturbedSteps ==
    ASSUME TypeOK, [Next]_vars, Undisturbed
    PROVE  \/ TcpConnected \/ CloseDone \/ BrokerNext
           \/ ReceiveConnack \/ ReceivePingresp
           \/ Tick \/ DogOnTime
           \/ Sample \/ Notify \/ NetworkOnline \/ UNCHANGED vars
  <1>1. ~Disturb
    BY DEF TypeOK, Undisturbed, Disturb
  <1> QED
    BY <1>1 DEF Next, TcpRefused, LinkDrops, PathDies, TickLate, DogLate,
      NetworkOffline, Restart

\* Writing frames behind the others loses none of them.
LEMMA HasConcat ==
    ASSUME NEW S, NEW q \in Seq(S), NEW p \in Seq(S), NEW f, Has(q, f)
    PROVE  Has(q \o p, f)
  <1>1. PICK i \in 1..Len(q) : q[i] = f
    BY DEF Has
  <1>2. i \in 1..Len(q \o p) /\ (q \o p)[i] = f
    BY <1>1
  <1> QED
    BY <1>2 DEF Has

\* What any slot writes leaves the pings under way where they are.
LEMMA SendKeepsSafe ==
    ASSUME TypeOK, DogSafe, NEW fs \in Seq(OutFrames), SendFrames(fs),
           UNCHANGED <<isOnline2, dog, age>>
    PROVE  DogSafe'
  <1>1. toBroker \in Seq(OutFrames)
    BY DEF TypeOK
  <1>2. Has(toBroker, "PINGREQ") => Has(toBroker', "PINGREQ")
    <2>1. toBroker' = toBroker \o fs \/ toBroker' = toBroker
      BY DEF SendFrames
    <2> QED
      BY <1>1, <2>1, HasConcat
  <1> QED
    BY <1>2 DEF DogSafe, SendFrames, Has

\* A live link that gives the dog no reason to close it stays so until it is
\* disturbed: every ping is answered before the next is due.
LEMMA SafeStep ==
    ASSUME Inv, [Next]_vars, Undisturbed, DogPeriod >= 2, Live, DogSafe
    PROVE  Live' /\ DogSafe'
  <1>0. /\ TypeOK /\ KeepAliveTracksLink
        /\ toBroker \in Seq(OutFrames) /\ fromBroker \in Seq(InFrames)
        /\ age \in 0..DogPeriod /\ DogPeriod \in Nat \ {0}
    BY ConstantsOK DEF Inv, TypeOK
  <1>a. ASSUME UNCHANGED <<toBroker, fromBroker, isOnline2, dog, age>>
        PROVE  DogSafe'
    BY <1>a DEF DogSafe, Has
  <1>b. /\ <<"PUBLISH">> \in Seq(OutFrames) /\ <<"PINGREQ">> \in Seq(OutFrames)
        /\ \A version \in BOOLEAN : OnConnectedFrames(version) \in Seq(OutFrames)
    <2>1. "PUBLISH" \in OutFrames /\ "PINGREQ" \in OutFrames
          /\ "SUBSCRIBE" \in OutFrames
      BY DEF OutFrames
    <2>2. /\ <<"SUBSCRIBE">> \in Seq(OutFrames)
          /\ <<"SUBSCRIBE", "PUBLISH">> \in Seq(OutFrames)
      BY <2>1
    <2> QED
      BY <2>1, <2>2 DEF OnConnectedFrames
  <1>c. ASSUME InitMqtt PROVE UNCHANGED tcp
    BY <1>c DEF InitMqtt, ConnectToHost, Live
  <1>1. CASE TcpConnected \/ CloseDone
    BY <1>1 DEF TcpConnected, CloseDone, Live
  <1>2. CASE BrokerNext
    <2>1. PICK f : BrokerReads(f)
      BY <1>2 DEF BrokerNext, BrokerAccepts, BrokerSubscribes, BrokerPongs,
                  BrokerTakes
    <2>2. /\ toBroker # << >> /\ f = Head(toBroker) /\ toBroker' = Tail(toBroker)
          /\ UNCHANGED <<sock, path, dog, isOnline2, age>>
      BY <2>1 DEF BrokerReads, flags
    <2>3. Live'
      BY <2>2 DEF Live
    <2>4. CASE BrokerPongs
      <3>1. fromBroker' = Append(fromBroker, "PINGRESP")
        BY <2>4 DEF BrokerPongs, BrokerAnswers
      <3>2. Has(fromBroker', "PINGRESP")
        BY <1>0, <3>1, AppendFrame DEF InFrames
      <3> QED
        BY <2>2, <2>3, <3>2 DEF DogSafe
    <2>5. CASE BrokerAccepts \/ BrokerSubscribes \/ BrokerTakes
      <3>1. f # "PINGREQ"
        BY <2>2, <2>5 DEF BrokerAccepts, BrokerSubscribes, BrokerTakes,
                          BrokerReads
      <3>2. Has(toBroker, "PINGREQ") => Has(toBroker', "PINGREQ")
        BY <1>0, <2>2, <3>1, HasTail
      <3>3. \/ fromBroker' = fromBroker
            \/ fromBroker' = Append(fromBroker, "CONNACK")
        BY <2>5 DEF BrokerAccepts, BrokerSubscribes, BrokerTakes, BrokerAnswers
      <3>4. Has(fromBroker, "PINGRESP") => Has(fromBroker', "PINGRESP")
        <4>1. "CONNACK" \in InFrames
          BY DEF InFrames
        <4>2. CASE fromBroker' = Append(fromBroker, "CONNACK")
          <5>1. Has(Append(fromBroker, "CONNACK"), "PINGRESP")
                  <=> Has(fromBroker, "PINGRESP") \/ "CONNACK" = "PINGRESP"
            BY <1>0, <4>1, AppendFrame
          <5> QED
            BY <4>2, <5>1
        <4> QED
          BY <3>3, <4>2
      <3> QED
        BY <2>2, <2>3, <3>2, <3>4 DEF DogSafe
    <2> QED
      BY <1>2, <2>4, <2>5 DEF BrokerNext
  <1>3. CASE ReceiveConnack
    <2>1. /\ fromBroker # << >> /\ Head(fromBroker) = "CONNACK"
          /\ fromBroker' = Tail(fromBroker)
          /\ UNCHANGED <<sock, path, dog, isOnline2, age>>
      BY <1>3 DEF ReceiveConnack, Receive
    <2>2. PICK version \in BOOLEAN :
            toBroker' = toBroker \o OnConnectedFrames(version)
      BY <1>3 DEF ReceiveConnack
    <2>3. Has(toBroker, "PINGREQ") => Has(toBroker', "PINGREQ")
      BY <1>0, <1>b, <2>2, HasConcat
    <2>4. Has(fromBroker, "PINGRESP") => Has(fromBroker', "PINGRESP")
      BY <1>0, <2>1, HasTail
    <2> QED
      BY <2>1, <2>3, <2>4 DEF DogSafe, Live
  <1>4. CASE ReceivePingresp
    BY <1>4 DEF ReceivePingresp, Receive, Live, DogSafe
  <1>5. CASE Tick
    <2>1. /\ PingPeriod /\ Quiet
          /\ UNCHANGED <<sock, isOnline2, dog>>
      BY <1>5 DEF Tick, PingPeriod, flags
    <2>2. ~Has(toBroker, "PINGREQ") /\ ~Has(fromBroker, "PINGRESP")
      <3>1. /\ \A i \in 1..Len(toBroker) : toBroker[i] = "PUBLISH"
            /\ fromBroker = << >>
        BY <2>1 DEF Quiet, Live
      <3> QED
        BY <3>1 DEF Has
    <2>3. SendFrames(<<"PINGREQ">>)
      BY <1>0, <2>1 DEF PingPeriod, KeepAliveTracksLink, Live
    <2>4. Live' /\ Has(toBroker', "PINGREQ")
      <3>1. path' = path /\ toBroker' = toBroker \o <<"PINGREQ">>
        BY <2>3 DEF SendFrames, Live
      <3>2. "PINGREQ" \in OutFrames
        BY DEF OutFrames
      <3>3. Has(toBroker', "PINGREQ")
        <4>1. toBroker' = Append(toBroker, "PINGREQ")
          BY <1>0, <3>1, <3>2
        <4> QED
          BY <1>0, <3>2, <4>1, AppendFrame
      <3> QED
        BY <2>1, <3>1, <3>3 DEF Live
    <2>5. dog => age' = age + 1
      BY <2>1 DEF PingPeriod
    <2> QED
      BY <1>0, <2>1, <2>2, <2>4, <2>5 DEF DogSafe
  <1>6. CASE DogOnTime
    <2>1. dog /\ age >= 2 /\ isOnline2
      BY <1>0, <1>6 DEF DogOnTime, CheckDog, DogSafe
    <2>2. DogHeard /\ age' = 0
      BY <1>6, <2>1 DEF DogOnTime, CheckDog, DogBites, DogSulks
    <2> QED
      BY <2>2 DEF DogHeard, tcp, wire, Live, DogSafe
  <1>7. CASE Sample
    <2>1. UNCHANGED <<sock, path, isOnline2, dog, age>>
      BY <1>7, <1>c DEF Sample, Publish, SendFrames, flags, tcp, wire
    <2>2. CASE isOnline
      <3>1. SendFrames(<<"PUBLISH">>)
        BY <1>7, <2>2 DEF Sample, SendDataReturns, Publish
      <3> QED
        BY <1>0, <1>b, <2>1, <3>1, SendKeepsSafe DEF Live
    <2>3. CASE ~isOnline
      <3>1. UNCHANGED tcp
        BY <1>7, <1>c, <2>3 DEF Sample, SendDataReturns
      <3> QED
        BY <1>a, <2>1, <3>1 DEF tcp, wire, Live
    <2> QED
      BY <2>2, <2>3
  <1>8. CASE Notify
    <2>1. /\ SendFrames(<<"PUBLISH">>)
          /\ UNCHANGED <<sock, isOnline2, dog, age>>
      BY <1>8 DEF Notify, Publish, Live
    <2> QED
      BY <1>0, <1>b, <2>1, SendKeepsSafe DEF Live, SendFrames
  <1>9. CASE NetworkOnline
    <2>1. UNCHANGED <<tcp, isOnline2, dog, age>>
      BY <1>9, <1>c DEF NetworkOnline, flags
    <2> QED
      BY <1>a, <2>1 DEF tcp, wire, Live
  <1>10. CASE UNCHANGED vars
    BY <1>a, <1>10 DEF vars, tcp, flags, wire, Live
  <1> QED
    BY <1>0, <1>1, <1>2, <1>3, <1>4, <1>5, <1>6, <1>7, <1>8, <1>9, <1>10,
       UndisturbedSteps

\* The dog bites only where it was counted, and is not counted again.
LEMMA BitesFall ==
    ASSUME Inv, Inv', [Next]_vars, Undisturbed, DogPeriod >= 2
    PROVE  /\ Bites' <= Bites
           /\ DogOnTime /\ DogBites => Bites' < Bites
  <1>0. TypeOK /\ LinkShape' /\ age \in Nat /\ DogPeriod \in Nat
    BY ConstantsOK DEF Inv, TypeOK
  <1>1. CASE Live /\ DogSafe
    <2>1. Bites = 0 /\ Bites' = 0
      BY <1>1, SafeStep DEF Bites
    <2>2. ~(DogOnTime /\ DogBites)
      BY <1>0, <1>1 DEF DogOnTime, CheckDog, DogBites, DogSafe
    <2> QED
      BY <2>1, <2>2
  <1>2. CASE ~first /\ ~isOnline2
    <2>1. ~DogBites
      BY <1>2 DEF DogBites
    <2>2. CASE ReceivePingresp
      <3>1. isOnline2' /\ sock' = "Connected"
        BY <2>2 DEF ReceivePingresp, Receive
      <3>2. path'
        <4>1. fromBroker # << >> /\ path' = path
          BY <2>2 DEF ReceivePingresp, Receive
        <4> QED
          BY <4>1 DEF Inv, LinkShape
      <3> QED
        <4>1. Live' /\ DogSafe'
          BY <3>1, <3>2 DEF Live, DogSafe
        <4>2. Bites = 0 /\ Bites' = 0
          BY <1>2, <4>1 DEF Bites
        <4> QED
          BY <2>1, <4>2
    <2>3. CASE ~ReceivePingresp
      <3>1. UNCHANGED <<first, isOnline2>> \/ DogOnTime
        BY <1>0, <2>3, UndisturbedSteps DEF TcpConnected, CloseDone,
          SocketDisconnected, MqttDisConnectted, BrokerNext, BrokerAccepts,
          BrokerSubscribes, BrokerPongs, BrokerTakes, BrokerReads,
          ReceiveConnack, Tick, PingPeriod, Sample, Notify, NetworkOnline,
          vars, flags
      <3>2. UNCHANGED <<first, isOnline2>>
        BY <1>2, <3>1 DEF DogOnTime, CheckDog, DogHeard, DogBites, DogSulks
      <3>3. Bites = 0 /\ Bites' = 0
        BY <1>2, <3>2 DEF Bites
      <3> QED
        BY <2>1, <3>3
    <2> QED
      BY <2>1, <2>2, <2>3
  <1>3. CASE ~(Live /\ DogSafe) /\ ~(~first /\ ~isOnline2)
    <2>1. Bites = 1 /\ Bites' \in {0, 1}
      BY <1>3 DEF Bites
    <2>2. ASSUME DogOnTime, DogBites PROVE Bites' = 0
      BY <2>2 DEF DogBites, Bites
    <2> QED
      BY <2>1, <2>2
  <1> QED
    BY <1>1, <1>2, <1>3

\* A step that leaves the connection and the flags as they are moves nothing,
\* as long as a settled link stays settled.
LEMMA StageSame ==
    ASSUME TypeOK, UNCHANGED <<sock, pendingClose, path, broker, acked>>,
           UNCHANGED isOnline2, Settled => Settled',
           sock = "Unconnected" => UNCHANGED isOnline
    PROVE  Stage' <= Stage
  <1>1. Live' = Live
    BY DEF Live
  <1>2. CASE sock # "Unconnected"
    BY <1>1, <1>2 DEF Stage, TypeOK, SockStates
  <1>3. CASE sock = "Unconnected"
    BY <1>3 DEF Stage, Live
  <1> QED
    BY <1>2, <1>3

\* As long as the dog does not bite, no step takes the link further from being
\* settled.
LEMMA StageFalls ==
    ASSUME Inv, Inv', [Next]_vars, Undisturbed, DogPeriod >= 2,
           ~(DogOnTime /\ DogBites)
    PROVE  Stage' <= Stage
  <1>0. /\ TypeOK /\ LinkShape /\ SessionShape /\ StaleOnlineIsBounded
        /\ LinkShape' /\ SessionShape' /\ ClosingIsOffline
    BY DEF Inv
  <1>s. ASSUME Settled, isOnline', broker' = broker PROVE Settled'
    BY <1>s, SafeStep DEF Settled
  <1>c. ASSUME InitMqtt, sock # "Unconnected" PROVE UNCHANGED tcp
    BY <1>c DEF InitMqtt, ConnectToHost
  <1>1. CASE TcpConnected
    <2>1. /\ sock = "Connecting"
          /\ sock' = IF pendingClose THEN "Closing" ELSE "Connected"
      BY <1>1 DEF TcpConnected
    <2>2. path' /\ broker' = "idle"
      BY <1>0, <1>1 DEF TcpConnected, LinkShape
    <2>3. CASE pendingClose
      BY <2>1, <2>3 DEF Stage, Live
    <2>4. CASE ~pendingClose
      BY <2>1, <2>2, <2>4 DEF Stage, Live
    <2> QED
      BY <2>3, <2>4
  <1>2. CASE CloseDone
    <2>1. Stage = 9 /\ sock' = "Unconnected"
      BY <1>2 DEF CloseDone, SocketDisconnected, Stage, Live
    <2>2. Stage' \in {6, 7, 8}
      BY <2>1 DEF Stage, Live
    <2> QED
      BY <2>1, <2>2
  <1>3. CASE BrokerNext
    <2>1. UNCHANGED <<sock, pendingClose, path, acked, isOnline, isOnline2>>
      BY <1>3 DEF BrokerNext, BrokerAccepts, BrokerSubscribes, BrokerPongs,
        BrokerTakes, BrokerReads, flags
    <2>2. CASE broker' = broker
      BY <1>0, <1>s, <2>1, <2>2, StageSame DEF Settled
    <2>3. CASE BrokerAccepts \/ BrokerSubscribes
      BY <2>1, <2>3 DEF BrokerAccepts, BrokerSubscribes, Stage, Live, Settled
    <2> QED
      BY <1>3, <2>2, <2>3 DEF BrokerNext, BrokerPongs, BrokerTakes
  <1>4. CASE ReceiveConnack
    <2>1. /\ sock = "Connected" /\ sock' = sock /\ path' = path
          /\ broker' = broker /\ acked'
          /\ fromBroker # << >> /\ Head(fromBroker) = "CONNACK"
          /\ fromBroker \in Seq(InFrames)
      BY <1>0, <1>4 DEF ReceiveConnack, Receive, TypeOK
    <2>2. Has(fromBroker, "CONNACK")
      BY <2>1, HasTail
    <2>3. ~acked
      BY <2>2, InvOrdersHandshake DEF OneSubscription
    <2> QED
      BY <2>1, <2>3 DEF Stage, Live
  <1>5. CASE ReceivePingresp
    <2>1. /\ sock = "Connected" /\ isOnline' /\ isOnline2'
          /\ UNCHANGED <<sock, pendingClose, path, broker, acked>>
      BY <1>5 DEF ReceivePingresp, Receive
    <2>2. Settled => Settled'
      BY <1>s, <2>1
    <2>3. Live' = Live
      BY <2>1 DEF Live
    <2> QED
      BY <2>1, <2>2, <2>3 DEF Stage, Live
  <1>6. CASE Tick
    <2>1. UNCHANGED <<sock, pendingClose, path, broker, acked, isOnline,
                      isOnline2>>
      BY <1>6 DEF Tick, PingPeriod, SendFrames, flags, wire
    <2> QED
      BY <1>0, <1>s, <2>1, StageSame DEF Settled
  <1>7. CASE DogOnTime
    <2>1. UNCHANGED tcp /\ (DogHeard \/ DogSulks)
      BY <1>7 DEF DogOnTime, CheckDog, DogHeard, DogSulks
    <2>2. Live' = Live
      BY <2>1 DEF Live, tcp, wire
    <2>3. CASE DogHeard
      <3>1. Settled => Settled'
        BY <1>s, <2>1, <2>3 DEF DogHeard, tcp, wire
      <3> QED
        BY <1>0, <2>1, <2>2, <2>3, <3>1
           DEF DogHeard, Stage, tcp, wire, TypeOK, SockStates
    <2>4. CASE DogSulks
      <3>1. ~Settled
        BY <1>0, <1>7, <2>4, ConstantsOK
           DEF DogOnTime, CheckDog, DogSulks, Settled, DogSafe, TypeOK
      <3> QED
        BY <1>0, <2>1, <2>2, <2>4, <3>1
           DEF DogSulks, Stage, tcp, wire, TypeOK, SockStates
    <2> QED
      BY <2>1, <2>3, <2>4
  <1>8. CASE Sample
    <2>1. CASE isOnline \/ sock # "Unconnected"
      <3>1. UNCHANGED <<sock, pendingClose, path, broker, acked, isOnline,
                        isOnline2>>
        BY <1>8, <1>c, <2>1 DEF Sample, SendDataReturns, Publish, SendFrames,
          InitMqtt, flags, tcp, wire
      <3> QED
        BY <1>0, <1>s, <3>1, StageSame DEF Settled
    <2>2. CASE ~isOnline /\ sock = "Unconnected"
      <3>1. sock' = "Connecting" /\ ~pendingClose'
        BY <1>8, <2>2 DEF Sample, SendDataReturns, InitMqtt, ConnectToHost
      <3> QED
        BY <2>2, <3>1 DEF Stage, Live
    <2> QED
      BY <2>1, <2>2
  <1>9. CASE Notify
    <2>1. UNCHANGED <<sock, pendingClose, path, broker, acked, isOnline2>>
      BY <1>9 DEF Notify, Publish, SendFrames, wire
    <2>2. CASE sock = "Connected"
      <3>1. UNCHANGED isOnline
        BY <1>9, <2>2 DEF Notify
      <3> QED
        BY <1>0, <1>s, <2>1, <3>1, StageSame DEF Settled
    <2>3. CASE sock # "Connected"
      BY <1>9, <2>1, <2>3 DEF Notify, Stage, Live
    <2> QED
      BY <2>2, <2>3
  <1>10. CASE NetworkOnline
    <2>1. CASE isOnline \/ sock # "Unconnected"
      <3>1. UNCHANGED <<sock, pendingClose, path, broker, acked, isOnline,
                        isOnline2>>
        BY <1>10, <1>c, <2>1 DEF NetworkOnline, InitMqtt, flags, tcp, wire
      <3> QED
        BY <1>0, <1>s, <3>1, StageSame DEF Settled
    <2>2. CASE ~isOnline /\ sock = "Unconnected"
      <3>1. sock' = "Connecting" /\ ~pendingClose'
        BY <1>10, <2>2 DEF NetworkOnline, InitMqtt, ConnectToHost
      <3> QED
        BY <2>2, <3>1 DEF Stage, Live
    <2> QED
      BY <2>1, <2>2
  <1>11. CASE UNCHANGED vars
    <2>1. UNCHANGED <<sock, pendingClose, path, broker, acked, isOnline,
                      isOnline2>>
      BY <1>11 DEF vars, tcp, wire, flags
    <2> QED
      BY <1>0, <1>s, <2>1, StageSame DEF Settled
  <1> QED
    BY <1>0, <1>1, <1>2, <1>3, <1>4, <1>5, <1>6, <1>7, <1>8, <1>9, <1>10,
       <1>11, UndisturbedSteps

\* The dog's bite outweighs every stage.
LEMMA Measure ==
    ASSUME NEW s \in 0..10, NEW t \in 0..10, NEW b \in {0, 1},
           NEW c \in {0, 1}, c <= b
    PROVE  LET d == IF b = 1 THEN s + 11 ELSE s
               e == IF c = 1 THEN t + 11 ELSE t
           IN  /\ c < b => e < d /\ e <= d
               /\ t < s => e < d
               /\ t <= s => e <= d
  OBVIOUS

\* A helpful step takes the link a stage further, and is never the dog's bite.
LEMMA HelpfulFalls ==
    ASSUME Inv, Inv', [Next]_vars, Undisturbed, DogPeriod >= 2, Helpful
    PROVE  Distance' < Distance
  <1>0. /\ TypeOK /\ LinkShape /\ SessionShape /\ StaleOnlineIsBounded
        /\ LinkShape' /\ ClosingIsOffline
    BY DEF Inv
  <1>a. Bites \in {0, 1} /\ Bites' \in {0, 1} /\ Bites' <= Bites
    BY BitesFall DEF Bites
  <1>b. Stage \in 0..10 /\ Stage' \in 0..10
    BY DEF Stage, Live
  <1>d. /\ Bites' < Bites => Distance' < Distance
        /\ Stage' < Stage => Distance' < Distance
    BY <1>a, <1>b, Measure DEF Distance
  <1>1. CASE TcpConnected
    <2>1. /\ sock = "Connecting"
          /\ sock' = IF pendingClose THEN "Closing" ELSE "Connected"
          /\ path' /\ broker' = "idle"
      BY <1>0, <1>1 DEF TcpConnected, LinkShape
    <2>2. Stage' < Stage
      BY <2>1 DEF Stage, Live
    <2> QED
      BY <1>d, <2>2
  <1>2. CASE CloseDone
    <2>1. Stage = 9 /\ sock' = "Unconnected"
      BY <1>2 DEF CloseDone, SocketDisconnected, Stage, Live
    <2>2. Stage' < Stage
      BY <2>1 DEF Stage, Live
    <2> QED
      BY <1>d, <2>2
  <1>3. CASE sock = "Unconnected" /\ isOnline /\ DogOnTime
    <2>1. CASE DogBites
      <3>1. Bites' < Bites
        BY <1>3, <2>1, BitesFall
      <3> QED
        BY <1>d, <3>1
    <2>2. CASE DogHeard \/ DogSulks
      <3>1. sock' = "Unconnected"
        BY <1>3, <2>2 DEF DogHeard, DogSulks, tcp
      <3>2. Stage' < Stage
        BY <1>3, <2>2, <3>1 DEF DogHeard, DogSulks, Stage, Live
      <3> QED
        BY <1>d, <3>2
    <2> QED
      BY <1>3, <2>1, <2>2 DEF DogOnTime, CheckDog
  <1>4. CASE sock = "Unconnected" /\ ~isOnline /\ Sample
    <2>1. sock' = "Connecting" /\ ~pendingClose'
      BY <1>4 DEF Sample, SendDataReturns, InitMqtt, ConnectToHost
    <2>2. Stage' < Stage
      BY <1>4, <2>1 DEF Stage, Live
    <2> QED
      BY <1>d, <2>2
  <1>5. CASE Live /\ BrokerAccepts
    <2>1. /\ Live' /\ broker = "idle" /\ broker' = "session"
          /\ acked' = acked
      BY <1>5 DEF BrokerAccepts, BrokerReads, Live
    <2>2. ~acked
      BY <1>0, <2>1, <1>5 DEF SessionShape, AwaitsConnect, AwaitsConnack,
        Acknowledged, Live
    <2>3. Stage' < Stage
      BY <1>5, <2>1, <2>2 DEF Stage, Live
    <2> QED
      BY <1>d, <2>3
  <1>6. CASE Live /\ ReceiveConnack
    <2>1. /\ Live' /\ acked' /\ broker' = broker
          /\ fromBroker # << >> /\ Head(fromBroker) = "CONNACK"
          /\ fromBroker \in Seq(InFrames)
      BY <1>0, <1>6 DEF ReceiveConnack, Receive, Live, TypeOK
    <2>2. Has(fromBroker, "CONNACK")
      BY <2>1, HasTail
    <2>3. broker = "session" /\ ~acked
      BY <2>2, InvOrdersHandshake DEF OneSubscription
    <2>4. Stage' < Stage
      BY <1>6, <2>1, <2>3 DEF Stage, Live
    <2> QED
      BY <1>d, <2>4
  <1>7. CASE Live /\ BrokerSubscribes
    <2>1. /\ Live' /\ broker = "session" /\ broker' = "subscribed"
          /\ acked' = acked
          /\ toBroker # << >> /\ Head(toBroker) = "SUBSCRIBE"
          /\ toBroker \in Seq(OutFrames)
      BY <1>0, <1>7 DEF BrokerSubscribes, BrokerReads, Live, TypeOK
    <2>2. Has(toBroker, "SUBSCRIBE")
      BY <2>1, HasTail
    <2>3. acked
      BY <2>2, InvOrdersHandshake DEF OneSubscription
    <2>4. Stage' < Stage
      BY <1>7, <2>1, <2>3 DEF Stage, Live
    <2> QED
      BY <1>d, <2>4
  <1>8. CASE Live /\ broker = "subscribed" /\ ~Settled /\ ReceivePingresp
    <2>1. /\ Live' /\ broker' = broker /\ acked' = acked
          /\ isOnline' = TRUE /\ isOnline2' = TRUE
      BY <1>8 DEF ReceivePingresp, Receive, Live
    <2>2. acked
      BY <1>0, <1>8 DEF SessionShape, AwaitsConnect, AwaitsConnack,
        Acknowledged, Live
    <2>3. Settled'
      BY <1>8, <2>1 DEF Settled, DogSafe
    <2>4. Stage' < Stage
      BY <1>8, <2>1, <2>2, <2>3 DEF Stage, Live
    <2> QED
      BY <1>d, <2>4
  <1> QED
    BY <1>1, <1>2, <1>3, <1>4, <1>5, <1>6, <1>7, <1>8 DEF Helpful

\* Distance 0 is the settled link, and nothing lies beyond 21.
LEMMA DistanceZero ==
    ASSUME Inv PROVE Distance \in 0..21 /\ (Distance = 0 <=> Settled)
  <1>0. TypeOK /\ SessionShape
    BY DEF Inv
  <1>1. Bites \in {0, 1} /\ Stage \in 0..10
    BY DEF Bites, Stage
  <1>2. ASSUME Settled PROVE Bites = 0 /\ Stage = 0
    <2>1. Live /\ broker = "subscribed" /\ DogSafe
      BY <1>2 DEF Settled
    <2>2. acked
      BY <1>0, <2>1 DEF SessionShape, AwaitsConnect, AwaitsConnack,
        Acknowledged, Live
    <2> QED
      BY <1>2, <2>1, <2>2 DEF Bites, Stage, Live
  <1>3. ASSUME Stage = 0 PROVE Settled
    BY <1>3 DEF Stage, Live
  <1>4. Distance \in 0..21 /\ (Distance = 0 => Stage = 0)
    BY <1>1 DEF Distance
  <1>5. Bites = 0 /\ Stage = 0 => Distance = 0
    BY DEF Distance
  <1> QED
    BY <1>2, <1>3, <1>4, <1>5

\* The dog's second thoughts about a link that is settled never come: online,
\* subscribed and safe, it stays all three through every sample, notification,
\* ping and answer, until something disturbs it.
THEOREM SettledStays ==
    DogPeriod >= 2 /\ Spec => [][Settled /\ Undisturbed => Settled']_vars
  <1>1. ASSUME DogPeriod >= 2, Inv, Inv', [Next]_vars, Settled, Undisturbed
        PROVE  Settled'
    <2>1. Bites = 0 /\ Distance = 0 /\ Stage = 0
      <3>1. Stage \in 0..10 /\ Bites \in {0, 1}
        BY DEF Stage, Bites
      <3>2. Distance = 0
        BY <1>1, DistanceZero
      <3> QED
        BY <3>1, <3>2 DEF Distance
    <2>2. ~(DogOnTime /\ DogBites)
      <3>1. Bites' \in {0, 1}
        BY DEF Bites
      <3> QED
        BY <1>1, <2>1, <3>1, BitesFall
    <2>3. Stage' <= Stage /\ Stage' \in 0..10
      <3>1. Stage' \in 0..10
        BY DEF Stage, Live
      <3> QED
        BY <1>1, <2>2, <3>1, StageFalls
    <2>4. Stage' = 0
      BY <2>1, <2>3
    <2> QED
      BY <2>4 DEF Stage, Live
  <1>2. ASSUME DogPeriod >= 2
        PROVE  Inv /\ Inv' /\ [Next]_vars
                 => [Settled /\ Undisturbed => Settled']_vars
    BY <1>1, <1>2
  <1>3. CASE DogPeriod >= 2
    BY <1>2, <1>3, Invariance, PTL DEF Spec
  <1> QED
    BY <1>3

\* What remains of Recovers when scheduling is taken away: the link is never
\* more than 21 helpful steps from being settled, whatever broke before, and
\* between two disturbances no step of any slot, timer or broker takes it
\* further away; in particular the dog, whatever it remembers of earlier
\* links, closes a fresh one at most once.
THEOREM NeverFurther ==
    DogPeriod >= 2 /\ Spec =>
        /\ [](Distance \in 0..21 /\ (Distance = 0 <=> Settled))
        /\ [][Undisturbed => /\ Distance' <= Distance
                             /\ Helpful => Distance' < Distance]_vars
  <1>1. ASSUME DogPeriod >= 2, Inv, Inv', [Next]_vars, Undisturbed
        PROVE  /\ Distance' <= Distance
               /\ Helpful => Distance' < Distance
    <2>1. Stage \in 0..10 /\ Stage' \in 0..10 /\ Bites \in {0, 1}
          /\ Bites' \in {0, 1}
      BY DEF Stage, Bites
    <2>2. Bites' <= Bites
      BY <1>1, BitesFall
    <2>d. /\ Bites' < Bites => Distance' <= Distance
          /\ Stage' <= Stage => Distance' <= Distance
      BY <2>1, <2>2, Measure DEF Distance
    <2>3. CASE DogOnTime /\ DogBites
      <3>1. Bites' < Bites
        BY <1>1, <2>3, BitesFall
      <3> QED
        BY <1>1, <2>d, <3>1, HelpfulFalls
    <2>4. CASE ~(DogOnTime /\ DogBites)
      <3>1. Stage' <= Stage
        BY <1>1, <2>4, StageFalls
      <3> QED
        BY <1>1, <2>d, <3>1, HelpfulFalls
    <2> QED
      BY <2>3, <2>4
  <1>2. CASE DogPeriod >= 2
    <2>1. Inv /\ Inv' /\ [Next]_vars
            => [Undisturbed => /\ Distance' <= Distance
                               /\ Helpful => Distance' < Distance]_vars
      BY <1>1, <1>2
    <2>2. Inv => Distance \in 0..21 /\ (Distance = 0 <=> Settled)
      BY DistanceZero
    <2> QED
      BY <2>1, <2>2, Invariance, PTL DEF Spec
  <1> QED
    BY <1>2
=============================================================================
