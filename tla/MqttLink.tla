------------------------------ MODULE MqttLink ------------------------------
(***************************************************************************)
(* The MQTT link of the gateway: QTcpSocket and QMQTT::Client below,       *)
(* MqttOperator's liveness flags in the middle, and on top the slots of    *)
(* Helper and MainWindow that open, use and watch the connection.          *)
(*                                                                         *)
(* Everything the client does here runs on the GUI thread, one slot at a   *)
(* time, so each slot is one action.  The broker, the path to it and the   *)
(* timers are the environment.  Frames arrive whole; PUBACK and SUBACK,    *)
(* which only touch QMQTT's bookkeeping maps, are left out.                *)
(***************************************************************************)
EXTENDS Naturals, Sequences

CONSTANTS
    MaxFrames,   \* bound: frames in flight in each direction
    MaxFaults,   \* bound: disturbances of a behaviour (see `faults')
    DogPeriod    \* the dog's interval in ping periods (aliave*1000*6: 6)

ASSUME ConstantsOK ==
    /\ MaxFrames \in Nat /\ MaxFrames >= 3
    /\ MaxFaults \in Nat
    /\ DogPeriod \in Nat \ {0}

VARIABLES
    sock,          \* state of the QTcpSocket
    pendingClose,  \* QAbstractSocket: close as soon as connected
    path,          \* packets of this connection still reach the broker
    toBroker,      \* frames written and not yet read by the broker
    fromBroker,    \* frames sent by the broker and not yet read here
    broker,        \* the broker's view of the connection
    keepAlive,     \* ClientPrivate::_timer runs
    acked,         \* history: connected() was emitted on this connection
    isOnline,      \* MqttOperator::isOnline
    isOnline2,     \* MqttOperator::isOnline2: a PINGRESP since the last check
    dog,           \* MqttOperator::dog exists and runs
    first,         \* the static of checkDog
    isOn,          \* DataOperator::isOn, the switch of the re-push thread
    age,           \* ping periods since the dog last fired
    faults         \* disturbances so far: lost links, refusals, late timers,
                   \* offline reports, restarts

wire  == <<path, toBroker, fromBroker, broker>>
tcp   == <<sock, pendingClose, wire, keepAlive, acked>>
flags == <<isOnline, isOnline2, dog, first>>
vars  == <<tcp, flags, isOn, age, faults>>

SockStates == {"Unconnected", "Connecting", "Connected", "Closing"}
OutFrames  == {"CONNECT", "SUBSCRIBE", "PUBLISH", "PINGREQ", "DISCONNECT"}
InFrames   == {"CONNACK", "PINGRESP"}

Has(q, f) == \E i \in 1..Len(q) : q[i] = f

TypeOK ==
    /\ sock \in SockStates
    /\ pendingClose \in BOOLEAN
    /\ path \in BOOLEAN
    /\ toBroker \in Seq(OutFrames)
    /\ fromBroker \in Seq(InFrames)
    /\ broker \in {"idle", "session", "subscribed"}
    /\ keepAlive \in BOOLEAN
    /\ acked \in BOOLEAN
    /\ isOnline \in BOOLEAN
    /\ isOnline2 \in BOOLEAN
    /\ dog \in BOOLEAN
    /\ first \in BOOLEAN
    /\ isOn \in BOOLEAN
    /\ age \in 0..DogPeriod
    /\ faults \in 0..MaxFaults

\* Helper's constructor has called initMqtt: the first attempt is under way.
Init ==
    /\ sock = "Connecting"
    /\ pendingClose = FALSE
    /\ path = TRUE
    /\ toBroker = << >>
    /\ fromBroker = << >>
    /\ broker = "idle"
    /\ keepAlive = FALSE
    /\ acked = FALSE
    /\ isOnline = FALSE
    /\ isOnline2 = FALSE
    /\ dog = FALSE
    /\ first = TRUE
    /\ isOn = TRUE
    /\ age = 0
    /\ faults = 0

Disturb == faults < MaxFaults /\ faults' = faults + 1

-----------------------------------------------------------------------------
(* QMQTT::Network and QMQTT::ClientPrivate                                 *)

\* Seeded fault of SendFrames: no look at the socket's state, so that frames
\* pile up in the device before the connection stands.
SendFramesUnchecked(fs) ==
    /\ UNCHANGED <<fromBroker, broker, path>>
    /\ Len(toBroker) + Len(fs) <= MaxFrames
    /\ toBroker' = toBroker \o fs

\* sendFrame writes only to a connected socket and drops the frame without a
\* word otherwise; on a dead path what is written never arrives.
SendFrames(fs) ==
    /\ UNCHANGED <<fromBroker, broker, path>>
    /\ IF sock = "Connected" /\ path
         THEN /\ Len(toBroker) + Len(fs) <= MaxFrames
              /\ toBroker' = toBroker \o fs
         ELSE UNCHANGED toBroker

\* QAbstractSocket::connectToHost works from the unconnected state only; in
\* any other state Qt warns and ignores the call.
ConnectToHost ==
    IF sock = "Unconnected"
      THEN /\ sock' = "Connecting"
           /\ pendingClose' = FALSE
           /\ path' = TRUE
           /\ UNCHANGED <<toBroker, fromBroker, broker, keepAlive, acked>>
      ELSE UNCHANGED tcp

\* disconnectFromHost: the DISCONNECT frame, then the socket.  A socket that
\* is still connecting is only marked; a connected one has bytes to flush and
\* closes later.
DisconnectFromHost ==
    /\ SendFrames(<<"DISCONNECT">>)
    /\ sock' = IF sock = "Connected" THEN "Closing" ELSE sock
    /\ pendingClose' = (pendingClose \/ sock = "Connecting")
    /\ UNCHANGED <<keepAlive, acked>>

\* Seeded fault of StartKeepAlive: the interval is set, the timer not started.
StartKeepAliveNever == UNCHANGED keepAlive

StartKeepAlive == keepAlive' = TRUE

\* onNetworkConnected: sendConnect and startKeepAlive.  A connection that was
\* given up while connecting is closed right after.
TcpConnected ==
    /\ sock = "Connecting"
    /\ sock' = IF pendingClose THEN "Closing" ELSE "Connected"
    /\ pendingClose' = FALSE
    /\ toBroker' = Append(toBroker, "CONNECT")
    /\ StartKeepAlive
    /\ UNCHANGED <<path, fromBroker, broker, acked, flags, isOn, age, faults>>

\* The attempt fails.  Qt emits error(), not disconnected(), and nobody
\* handles it.
TcpRefused ==
    /\ sock = "Connecting"
    /\ Disturb
    /\ sock' = "Unconnected"
    /\ pendingClose' = FALSE
    /\ UNCHANGED <<wire, keepAlive, acked, flags, isOn, age>>

\* Seeded fault of MqttDisConnectted: the re-push stops, the flag stays up.
MqttDisConnecttedFlagKept ==
    /\ isOn' = FALSE
    /\ UNCHANGED flags

\* MainWindow::mqttDisConnectted.  The wait for the re-push thread inside
\* rePushPendingData_stop is modelled in Resend.
MqttDisConnectted ==
    /\ isOnline' = FALSE
    /\ isOn' = FALSE
    /\ UNCHANGED <<isOnline2, dog, first>>

\* What is in flight when a connection ends is gone; nothing is sent again.
ForgetWire ==
    /\ toBroker' = << >>
    /\ fromBroker' = << >>
    /\ broker' = "idle"

\* QMQTT's onNetworkDisconnected, then the slot connected to disconnected().
SocketDisconnected ==
    /\ sock' = "Unconnected"
    /\ ForgetWire
    /\ keepAlive' = FALSE
    /\ acked' = FALSE
    /\ UNCHANGED <<pendingClose, path>>
    /\ MqttDisConnectted
    /\ UNCHANGED age

\* The link breaks while it is in use: the broker or the network closes it.
LinkDrops ==
    /\ sock \in {"Connected", "Closing"}
    /\ Disturb
    /\ SocketDisconnected

\* A close that was asked for completes; on a dead path the kernel gives up.
CloseDone ==
    /\ sock = "Closing" \/ (sock = "Connected" /\ ~path)
    /\ SocketDisconnected
    /\ UNCHANGED faults

-----------------------------------------------------------------------------
(* The path and the broker (environment)                                   *)

\* A half-open connection: the socket stays connected, nothing gets through.
PathDies ==
    /\ sock = "Connected" /\ path
    /\ Disturb
    /\ path' = FALSE
    /\ ForgetWire
    /\ UNCHANGED <<sock, pendingClose, keepAlive, acked, flags, isOn, age>>

BrokerReads(f) ==
    /\ path
    /\ toBroker # << >> /\ Head(toBroker) = f
    /\ toBroker' = Tail(toBroker)
    /\ UNCHANGED <<sock, pendingClose, path, keepAlive, acked, flags, isOn,
                   age, faults>>

BrokerAnswers(f) ==
    /\ Len(fromBroker) < MaxFrames
    /\ fromBroker' = Append(fromBroker, f)

BrokerAccepts ==
    /\ BrokerReads("CONNECT")
    /\ broker = "idle"
    /\ broker' = "session"
    /\ BrokerAnswers("CONNACK")

BrokerSubscribes ==
    /\ BrokerReads("SUBSCRIBE")
    /\ broker = "session"
    /\ broker' = "subscribed"
    /\ UNCHANGED fromBroker

BrokerPongs ==
    /\ BrokerReads("PINGREQ")
    /\ BrokerAnswers("PINGRESP")
    /\ UNCHANGED broker

BrokerTakes ==
    /\ BrokerReads("PUBLISH") \/ BrokerReads("DISCONNECT")
    /\ UNCHANGED <<fromBroker, broker>>

BrokerNext == BrokerAccepts \/ BrokerSubscribes \/ BrokerPongs \/ BrokerTakes

-----------------------------------------------------------------------------
(* Frames from the broker.  A closing socket is no longer read.            *)

Receive(f) ==
    /\ sock = "Connected"
    /\ fromBroker # << >> /\ Head(fromBroker) = f
    /\ fromBroker' = Tail(fromBroker)

\* Seeded faults of OnConnectedFrames: the subscription is forgotten; a frame
\* only a broker may send is written.
VersionOnly(version) == IF version THEN <<"PUBLISH">> ELSE << >>
WrongFrame(version)  == <<"SUBSCRIBE", "CONNACK">>

\* What on_connected writes: the subscription, then the version unless
\* sendVersion cannot read its file.
OnConnectedFrames(version) ==
    IF version THEN <<"SUBSCRIBE", "PUBLISH">> ELSE <<"SUBSCRIBE">>

\* handleConnack emits connected(): MqttOperator::on_connected, then
\* MainWindow::mqttConnectted.
ReceiveConnack ==
    /\ Receive("CONNACK")
    /\ Len(toBroker) + 2 <= MaxFrames
    /\ \E version \in BOOLEAN :
         toBroker' = toBroker \o OnConnectedFrames(version)
    /\ acked' = TRUE
    /\ isOnline' = TRUE
    /\ isOn' = TRUE
    /\ UNCHANGED <<sock, pendingClose, path, broker, keepAlive, isOnline2, dog,
                   first, age, faults>>

\* onPingresp creates the dog on the first answer of the process.
ReceivePingresp ==
    /\ Receive("PINGRESP")
    /\ dog' = TRUE
    /\ isOnline' = TRUE
    /\ isOnline2' = TRUE
    /\ UNCHANGED <<sock, pendingClose, path, toBroker, broker, keepAlive,
                   acked, first, isOn, age, faults>>

-----------------------------------------------------------------------------
(* The timers                                                              *)

\* A broker that answers within a ping period has answered everything but
\* publications, and no connection is half way up or down.
Quiet ==
    path => /\ sock \notin {"Connecting", "Closing"}
            /\ \A i \in 1..Len(toBroker) : toBroker[i] = "PUBLISH"
            /\ fromBroker = << >>

\* A ping period passes: onTimerPingReq if the keep-alive timer runs.
PingPeriod ==
    /\ dog => age < DogPeriod
    /\ age' = IF dog THEN age + 1 ELSE 0
    /\ IF keepAlive THEN SendFrames(<<"PINGREQ">>) ELSE UNCHANGED wire
    /\ UNCHANGED <<sock, pendingClose, keepAlive, acked, flags, isOn>>

Tick == Quiet /\ PingPeriod /\ UNCHANGED faults

\* The same with answers still outstanding: a slow network is a disturbance.
TickLate == ~Quiet /\ Disturb /\ PingPeriod

\* Seeded fault of DogHeard: the heard mark is not used up.
DogHeardForever ==
    /\ isOnline2
    /\ isOnline' = TRUE
    /\ first' = TRUE
    /\ UNCHANGED <<tcp, isOnline2>>

\* Seeded fault of DogBites: the flag waits for disconnected().
DogBitesQuietly ==
    /\ ~isOnline2 /\ first
    /\ DisconnectFromHost
    /\ first' = FALSE
    /\ UNCHANGED <<isOnline, isOnline2>>

\* MqttOperator::checkDog, the three cases.
DogHeard ==
    /\ isOnline2
    /\ isOnline2' = FALSE
    /\ isOnline' = TRUE
    /\ first' = TRUE
    /\ UNCHANGED tcp

DogBites ==
    /\ ~isOnline2 /\ first
    /\ DisconnectFromHost
    /\ first' = FALSE
    /\ isOnline' = FALSE
    /\ UNCHANGED isOnline2

DogSulks ==
    /\ ~isOnline2 /\ ~first
    /\ isOnline' = FALSE
    /\ UNCHANGED <<tcp, isOnline2, first>>

CheckDog ==
    /\ dog
    /\ DogHeard \/ DogBites \/ DogSulks
    /\ age' = 0
    /\ UNCHANGED <<dog, isOn>>

DogOnTime == age = DogPeriod /\ CheckDog /\ UNCHANGED faults

\* A GUI thread that was blocked runs overdue timers back to back, so the dog
\* can fire with fewer pings since the last time than its period holds.
DogLate == age < DogPeriod /\ Disturb /\ CheckDog

-----------------------------------------------------------------------------
(* The users of the link                                                   *)

\* One publication.  The bound on the channel leaves the room that the slots
\* answering the broker and the timers need.
Publish ==
    /\ Len(toBroker) + 3 <= MaxFrames
    /\ SendFrames(<<"PUBLISH">>)

\* Seeded fault of InitMqtt: an existing client is never connected again.
InitMqttOnce == UNCHANGED tcp

\* Helper::initMqtt once mqttOperator exists.
InitMqtt ==
    IF isOnline THEN UNCHANGED tcp ELSE ConnectToHost

\* What MqttOperator::sendData would answer now, and whether its frame would be
\* handed to a connected socket.
SendDataReturns == isOnline
SendDataWrites  == isOnline /\ sock = "Connected"

\* The end of Helper::timerEvent: sendData, and initMqtt when that fails.
\* sendData looks at isOnline, never at the socket.
Sample ==
    /\ IF SendDataReturns
         THEN /\ Publish
              /\ UNCHANGED <<sock, pendingClose, keepAlive, acked>>
         ELSE InitMqtt
    /\ UNCHANGED <<flags, isOn, age, faults>>

\* sendDoor, sendPower, sendSensor: they ask the socket, and correct the flag.
Notify ==
    /\ IF sock = "Connected"
         THEN Publish /\ UNCHANGED isOnline
         ELSE UNCHANGED wire /\ isOnline' = FALSE
    /\ UNCHANGED <<sock, pendingClose, keepAlive, acked, isOnline2, dog,
                   first, isOn, age, faults>>

\* networkStatusChanges(true), and the MQTT button of the main window.
NetworkOnline ==
    /\ InitMqtt
    /\ UNCHANGED <<flags, isOn, age, faults>>

\* networkStatusChanges(false): the flag and the re-push thread, not the
\* socket.
NetworkOffline ==
    /\ Disturb
    /\ MqttDisConnectted
    /\ UNCHANGED <<tcp, age>>

\* The process ends (the 12 h timer, a command from the broker, a power cut)
\* and is started again.
Restart ==
    /\ Disturb
    /\ sock' = "Connecting"
    /\ pendingClose' = FALSE
    /\ path' = TRUE
    /\ ForgetWire
    /\ keepAlive' = FALSE
    /\ acked' = FALSE
    /\ isOnline' = FALSE
    /\ isOnline2' = FALSE
    /\ dog' = FALSE
    /\ first' = TRUE
    /\ isOn' = TRUE
    /\ age' = 0

-----------------------------------------------------------------------------

Next ==
    \/ TcpConnected \/ TcpRefused \/ LinkDrops \/ CloseDone
    \/ PathDies \/ BrokerNext
    \/ ReceiveConnack \/ ReceivePingresp
    \/ Tick \/ TickLate \/ DogOnTime \/ DogLate
    \/ Sample \/ Notify \/ NetworkOnline \/ NetworkOffline \/ Restart

Spec == Init /\ [][Next]_vars

\* Once nothing disturbs it the environment answers and the event loop runs
\* every timer and every socket event.
Fairness ==
    /\ WF_vars(TcpConnected) /\ WF_vars(CloseDone)
    /\ WF_vars(BrokerNext)
    /\ WF_vars(ReceiveConnack) /\ WF_vars(ReceivePingresp)
    /\ WF_vars(Tick) /\ WF_vars(DogOnTime)
    /\ WF_vars(Sample)

FairSpec == Spec /\ Fairness

-----------------------------------------------------------------------------
(* Properties                                                              *)

\* The keep-alive timer runs exactly as long as the socket is connected: it
\* is started by onNetworkConnected, stopped by onNetworkDisconnected, and no
\* path of Qt's state machine gets past one of the two.
KeepAliveTracksLink ==
    keepAlive <=> sock \in {"Connected", "Closing"}

\* With the socket down isOnline can still be true, because the dog raises it
\* again from an isOnline2 set before the link was lost; but that uses up
\* isOnline2, so the very next dog timeout lowers the flag for good.
StaleOnlineIsBounded ==
    sock \in {"Unconnected", "Connecting"} /\ isOnline => dog /\ ~isOnline2

\* While the client itself is closing the link, or has asked for that, no
\* component is told the gateway is online.
ClosingIsOffline ==
    sock = "Closing" \/ pendingClose => ~isOnline /\ ~isOnline2

\* CONNECT is the first frame of a connection and occurs once, whatever the
\* samples, notifications and pings that other slots write meanwhile.
ConnectFirst ==
    /\ broker # "idle" => ~Has(toBroker, "CONNECT")
    /\ broker = "idle" /\ toBroker # << >> => Head(toBroker) = "CONNECT"

\* One subscription per connection, requested after CONNACK: on a live link
\* the CONNACK is still to be read, or the SUBSCRIBE is on its way, or the
\* broker has it, and no two of these at once.
OneSubscription ==
    /\ Has(fromBroker, "CONNACK") =>
         broker = "session" /\ ~acked /\ ~Has(toBroker, "SUBSCRIBE")
    /\ Has(toBroker, "SUBSCRIBE") => broker = "session" /\ acked
    /\ sock = "Connected" /\ path /\ acked =>
         (Has(toBroker, "SUBSCRIBE") <=> broker # "subscribed")

\* After the last disturbance the gateway ends up online with its management
\* topic subscribed, and stays so: the samples reconnect, the dog's second
\* thoughts about a fresh link happen at most once.
Recovers == <>[](isOnline /\ broker = "subscribed")

\* sendData's "@return: true = sent, false = failed": success is reported
\* only for a frame that was handed to a connected socket.
SentMeansWritten == SendDataReturns => SendDataWrites

phase ==
    IF sock \in {"Unconnected", "Connecting"} THEN "down"
    ELSE IF sock = "Closing" THEN "closing"
    ELSE IF acked THEN "ready" ELSE "tcp"

Contract ==
    INSTANCE LinkContract
      WITH phase <- phase, isOnline <- isOnline

\* The link keeps the contract the store-and-forward component relies on.
ImplementsContract == Contract!LinkSpec
=============================================================================
