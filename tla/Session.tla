------------------------------ MODULE Session ------------------------------
(***************************************************************************)
(* The MQTT client of helper/Mqtt below the flags that MqttLink models:    *)
(* the byte parser of QMQTT::Network, the frames of QMQTT::Frame and the   *)
(* message ids of QMQTT::ClientPrivate, against a broker that keeps to the *)
(* protocol. What the client sends is kept as frames; what the broker      *)
(* sends is bytes, which the client reads one at a time (the loop of       *)
(* onSocketReadReady, cut as finely as TCP may cut it).                    *)
(***************************************************************************)
EXTENDS Integers, Sequences, FiniteSets

CONSTANTS
    Base,           \* digits of a frame's length are 0..Base-1 (128)
    IdCount,        \* number of message ids, 0..IdCount-1 (2^16)
    MaxMessages,    \* bound: messages published
    MaxInFlight,    \* bound: published and unanswered on one connection
    MaxConnects,    \* bound: connections
    MaxCommands,    \* bound: commands and pings on one connection
    MaxWire         \* bound: bytes under way to the client

ASSUME SessionAssumption ==
    /\ Base \in Nat \ {0, 1}
    /\ IdCount \in Nat \ {0, 1}
    /\ {MaxMessages, MaxInFlight, MaxConnects, MaxCommands} \subseteq Nat
    /\ MaxInFlight + 2 <= IdCount

VARIABLES
    sock,           \* "down" | "connecting" | "up"
    toBroker,       \* frames written by the client, not yet read
    wire,           \* bytes written by the broker, not yet read
    readState,      \* Network::_readState: "Header" | "Length" | "PayLoad"
    header, length, data,               \* the frame being read
    shift,          \* the weight of the next digit of its length: 2^_shift
    gmid,           \* ClientPrivate::_gmid
    midToMessage,   \* ClientPrivate::_midToMessage, id -> message
    midToTopic,     \* ClientPrivate::_midToTopic, the ids in it
    count,          \* messages published so far; a message is its number
    connects,       \* connections so far
    commands,       \* commands and pings on this connection
    subscribed,     \* the broker has the gateway's subscription
    taken,          \* history: messages the broker has taken
    emitted,        \* history: published signals, [msg, sound]
    queue, last,    \* history: frames under way to the client, last received
    sound           \* history: no reset within a frame on this connection

parser == <<readState, header, length, shift, data>>
ids == <<gmid, midToMessage, midToTopic>>
bounds == <<count, connects, commands>>
channel == <<queue, last, sound>>
history == <<taken, emitted, channel>>
vars == <<sock, toBroker, wire, parser, ids, bounds, subscribed, history>>

NoMessage == 0
NoFrame == [header |-> 0, data |-> << >>]
Ids == 0..(IdCount - 1)

(* The upper half of a header byte.                                        *)
CONNECT == 1     CONNACK == 2     PUBLISH == 3      PUBACK == 4
PUBREC == 5      PUBREL == 6      PUBCOMP == 7      SUBSCRIBE == 8
SUBACK == 9      UNSUBACK == 11   PINGREQ == 12     PINGRESP == 13

-----------------------------------------------------------------------------
(* The codec.                                                              *)

(* encodeLength: digits to the base, lowest first, marked when more follow.*)
encodeLength(n) ==
    LET digits[m \in 0..n] ==
          IF m < Base THEN <<m>>
          ELSE <<Base + (m % Base)>> \o digits[m \div Base]
    IN  digits[n]

writeInt(i) == <<i \div 256, i % 256>>

(* Frame::write. An empty frame is its header and a zero.                  *)
write(frame) ==
    <<frame.header>> \o
    IF frame.data = << >> THEN <<0>>
    ELSE encodeLength(Len(frame.data)) \o frame.data

(* readInt. On a frame with fewer than two bytes QByteArray::at reads      *)
(* beyond the end: any id.                                                 *)
readInt(bytes) ==
    IF Len(bytes) >= 2 THEN {(256 * bytes[1] + bytes[2]) % IdCount} ELSE Ids

BrokerFrame(type, bytes) == [header |-> 16 * type, data |-> bytes]

-----------------------------------------------------------------------------
(* The client's side of the ids.                                           *)

(* sendFrame: nothing is written unless the socket is connected.           *)
Written(frames) == IF sock = "up" THEN toBroker \o frames ELSE toBroker

(* Seeded faults of nextmid: every message has the same id; no wrap.       *)
nextmidStuck(mid) == mid
nextmidUnwrapped(mid) == mid + 1

nextmid(mid) == (mid + 1) % IdCount

Init ==
    /\ sock = "down"
    /\ toBroker = << >>
    /\ wire = << >>
    /\ readState = "Header"
    /\ header = 0 /\ length = 0 /\ shift = 0 /\ data = << >>
    /\ gmid = 1
    /\ midToMessage = << >>
    /\ midToTopic = {}
    /\ count = 0 /\ connects = 0 /\ commands = 0
    /\ subscribed = FALSE
    /\ taken = {}
    /\ emitted = {}
    /\ queue = << >> /\ last = NoFrame /\ sound = TRUE

(* publish at QoS 1: the id is drawn and the message remembered whether    *)
(* or not the socket takes the frame.                                      *)
Remember(map, id, m) == [i \in DOMAIN map \cup {id} |-> IF i = id THEN m ELSE map[i]]
Publish ==
    /\ count < MaxMessages
    /\ Cardinality(DOMAIN midToMessage) < MaxInFlight
    /\ count' = count + 1
    /\ toBroker' = Written(<<[type |-> PUBLISH, id |-> gmid, msg |-> count + 1]>>)
    /\ midToMessage' = Remember(midToMessage, gmid, count + 1)
    /\ gmid' = nextmid(gmid)
    /\ UNCHANGED <<sock, wire, parser, midToTopic, connects, commands, subscribed, history>>

(* onTimerPingReq                                                          *)
PingReq ==
    /\ sock = "up"
    /\ commands < MaxCommands
    /\ commands' = commands + 1
    /\ toBroker' = Written(<<[type |-> PINGREQ, id |-> 0, msg |-> NoMessage]>>)
    /\ UNCHANGED <<sock, wire, parser, ids, count, connects, subscribed, history>>

-----------------------------------------------------------------------------
(* The connection.                                                         *)

(* connectToHost resets the parser before it asks the socket, and the      *)
(* socket ignores the request unless it is unconnected.                    *)
ConnectToHost ==
    /\ sock = "down" => connects < MaxConnects
    /\ readState' = "Header"
    /\ sock' = IF sock = "down" THEN "connecting" ELSE sock
    /\ connects' = IF sock = "down" THEN connects + 1 ELSE connects
    /\ IF sock = "up" /\ readState # "Header"
       THEN sound' = FALSE /\ queue' = << >>
       ELSE UNCHANGED <<sound, queue>>
    /\ UNCHANGED <<toBroker, wire, header, length, shift, data, ids, count, commands,
                   subscribed, taken, emitted, last>>

(* onNetworkConnected, sendConnect                                         *)
NetworkConnected ==
    /\ sock = "connecting"
    /\ sock' = "up"
    /\ toBroker' = <<[type |-> CONNECT, id |-> 0, msg |-> NoMessage]>>
    /\ commands' = 0
    /\ sound' = TRUE
    /\ UNCHANGED <<wire, parser, ids, count, connects, subscribed, taken, emitted, queue, last>>

(* A socket that never was connected emits no disconnected: the maps stay. *)
ConnectRefused ==
    /\ sock = "connecting"
    /\ sock' = "down"
    /\ UNCHANGED <<toBroker, wire, parser, ids, bounds, subscribed, history>>

(* onNetworkDisconnected: both maps are forgotten; so are the frames under *)
(* way. The parser stays where it is until the next connectToHost.         *)
NetworkDisconnected ==
    /\ sock = "up"
    /\ sock' = "down"
    /\ toBroker' = << >> /\ wire' = << >>
    /\ midToMessage' = << >> /\ midToTopic' = {}
    /\ subscribed' = FALSE
    /\ queue' = << >> /\ sound' = TRUE
    /\ UNCHANGED <<parser, gmid, bounds, taken, emitted, last>>

-----------------------------------------------------------------------------
(* The broker.                                                             *)

BrokerWrites(frame) ==
    /\ wire' = wire \o write(frame)
    /\ queue' = IF sound THEN Append(queue, frame) ELSE queue

Answer(frame) ==
    CASE frame.type = CONNECT   -> <<BrokerFrame(CONNACK, <<0, 0>>)>>
      [] frame.type = PUBLISH   -> <<BrokerFrame(PUBACK, writeInt(frame.id))>>
      [] frame.type = SUBSCRIBE -> <<BrokerFrame(SUBACK, writeInt(frame.id) \o <<0>>)>>
      [] frame.type = PINGREQ   -> <<BrokerFrame(PINGRESP, << >>)>>
      [] OTHER                  -> << >>

BrokerAnswers ==
    /\ toBroker # << >>
    /\ Len(wire) < MaxWire
    /\ LET frame == Head(toBroker)
           answer == Answer(frame)
       IN  /\ taken' = IF frame.type = PUBLISH THEN taken \cup {frame.msg} ELSE taken
           /\ subscribed' = (subscribed \/ frame.type = SUBSCRIBE)
           /\ IF answer # << >> THEN BrokerWrites(answer[1]) ELSE UNCHANGED <<wire, queue>>
    /\ toBroker' = Tail(toBroker)
    /\ UNCHANGED <<sock, parser, ids, bounds, emitted, last, sound>>

(* A command for the gateway: the topic, one letter, and one byte.         *)
BrokerCommands ==
    /\ sock = "up"
    /\ subscribed
    /\ commands < MaxCommands
    /\ Len(wire) < MaxWire
    /\ commands' = commands + 1
    /\ BrokerWrites(BrokerFrame(PUBLISH, <<0, 1, 116, 49>>))
    /\ UNCHANGED <<sock, toBroker, parser, ids, count, connects, subscribed, taken, emitted,
                   last, sound>>

-----------------------------------------------------------------------------
(* onNetworkReceived: what the client does with a frame.                   *)

Emits(m) == emitted' = emitted \cup {[msg |-> m, sound |-> sound]}
Forget(map, id) == [i \in DOMAIN map \ {id} |-> map[i]]

(* connected is emitted; on_connected subscribes and sends the version,    *)
(* if its file can be read.                                                *)
handleConnack ==
    \E version \in BOOLEAN :
      LET publishes == version /\ count < MaxMessages
          id2 == nextmid(gmid)
          subscribe == [type |-> SUBSCRIBE, id |-> gmid, msg |-> NoMessage]
          publish == [type |-> PUBLISH, id |-> id2, msg |-> count + 1]
      IN  /\ midToTopic' = midToTopic \cup {gmid}
          /\ gmid' = IF publishes THEN nextmid(id2) ELSE id2
          /\ toBroker' = Written(IF publishes THEN <<subscribe, publish>> ELSE <<subscribe>>)
          /\ midToMessage' = IF publishes THEN Remember(midToMessage, id2, count + 1)
                             ELSE midToMessage
          /\ count' = IF publishes THEN count + 1 ELSE count
          /\ UNCHANGED emitted

(* A message of QoS 1 or 2 is answered with the id behind its topic;       *)
(* received is emitted.                                                    *)
AfterString(bytes) ==
    IF Len(bytes) < 2 THEN << >>
    ELSE SubSeq(bytes, 3 + 256 * bytes[1] + bytes[2], Len(bytes))
Puback(type, id) == [type |-> type, id |-> id, msg |-> NoMessage]
handlePublish(frame) ==
    LET qos == (frame.header \div 2) % 4
    IN  /\ \/ qos \notin {1, 2} /\ UNCHANGED toBroker
           \/ /\ qos \in {1, 2}
              /\ \E id \in readInt(AfterString(frame.data)) :
                   toBroker' = Written(<<Puback(IF qos = 1 THEN PUBACK ELSE PUBREC, id)>>)
        /\ UNCHANGED <<ids, count, emitted>>

(* Seeded fault of handlePuback: published only at the end of QoS 2.       *)
handlePubackQuiet(type, id) ==
    /\ IF type = PUBCOMP
       THEN Emits(IF id \in DOMAIN midToMessage THEN midToMessage[id] ELSE NoMessage)
       ELSE UNCHANGED emitted
    /\ midToMessage' = Forget(midToMessage, id)
    /\ UNCHANGED <<toBroker, gmid, midToTopic, count>>

(* take of an id that is not there yields an empty message.                *)
handlePuback(type, id) ==
    /\ IF type \in {PUBACK, PUBCOMP}
       THEN /\ Emits(IF id \in DOMAIN midToMessage THEN midToMessage[id] ELSE NoMessage)
            /\ midToMessage' = Forget(midToMessage, id)
            /\ UNCHANGED toBroker
       ELSE /\ toBroker' = Written(<<Puback(IF type = PUBREC THEN PUBREL ELSE PUBCOMP, id)>>)
            /\ UNCHANGED <<midToMessage, emitted>>
    /\ UNCHANGED <<gmid, midToTopic, count>>

onNetworkReceived(frame) ==
    LET type == frame.header \div 16
    IN  \/ type = CONNACK /\ handleConnack
        \/ type = PUBLISH /\ handlePublish(frame)
        \/ /\ type \in {PUBACK, PUBREC, PUBREL, PUBCOMP}
           /\ \E id \in readInt(frame.data) : handlePuback(type, id)
        \/ /\ type \in {SUBACK, UNSUBACK}
           /\ \E id \in readInt(frame.data) : midToTopic' = midToTopic \ {id}
           /\ UNCHANGED <<toBroker, gmid, midToMessage, count, emitted>>
        \/ /\ type \notin {CONNACK, PUBLISH, PUBACK, PUBREC, PUBREL, PUBCOMP, SUBACK,
                           UNSUBACK}
           /\ UNCHANGED <<toBroker, ids, count, emitted>>

(* A frame is complete: it is handed on at once, within the same slot.     *)
(* What was read of it is not looked at again and is set to nothing here.  *)
Received(frame) ==
    /\ readState' = "Header"
    /\ header' = 0 /\ length' = 0 /\ shift' = 0 /\ data' = << >>
    /\ last' = frame
    /\ queue' = IF queue # << >> THEN Tail(queue) ELSE queue
    /\ onNetworkReceived(frame)

NothingReceived == UNCHANGED <<toBroker, ids, count, emitted, queue, last>>

HeaderByte(byte) ==
    /\ readState = "Header"
    /\ readState' = "Length"
    /\ header' = byte
    /\ length' = 0 /\ shift' = 1 /\ data' = << >>
    /\ NothingReceived

(* Seeded fault of LengthByte: the digits of the length are not shifted.   *)
LengthByteUnshifted(byte) ==
    LET read == length + (byte % Base)
        more == (byte \div Base) % 2 = 1
    IN  /\ readState = "Length"
        /\ IF ~more /\ read = 0
           THEN Received([header |-> header, data |-> data])
           ELSE /\ readState' = IF more THEN "Length" ELSE "PayLoad"
                /\ length' = read
                /\ shift' = shift * Base
                /\ UNCHANGED <<header, data>>
                /\ NothingReceived

(* _length |= (byte & 0x7F) << _shift; the high bit says more follow.      *)
LengthByte(byte) ==
    LET read == length + (byte % Base) * shift
        more == (byte \div Base) % 2 = 1
    IN  /\ readState = "Length"
        /\ IF ~more /\ read = 0
           THEN Received([header |-> header, data |-> data])
           ELSE /\ readState' = IF more THEN "Length" ELSE "PayLoad"
                /\ length' = read
                /\ shift' = shift * Base
                /\ UNCHANGED <<header, data>>
                /\ NothingReceived

PayLoadByte(byte) ==
    /\ readState = "PayLoad"
    /\ IF length = 1
       THEN Received([header |-> header, data |-> Append(data, byte)])
       ELSE /\ data' = Append(data, byte)
            /\ length' = length - 1
            /\ UNCHANGED <<readState, header, shift>>
            /\ NothingReceived

(* One byte of onSocketReadReady.                                          *)
Read ==
    /\ sock = "up"
    /\ wire # << >>
    /\ wire' = Tail(wire)
    /\ \/ HeaderByte(Head(wire))
       \/ LengthByte(Head(wire))
       \/ PayLoadByte(Head(wire))
    /\ UNCHANGED <<sock, connects, commands, subscribed, taken, sound>>

Next ==
    \/ Publish
    \/ PingReq
    \/ ConnectToHost
    \/ NetworkConnected
    \/ ConnectRefused
    \/ NetworkDisconnected
    \/ BrokerAnswers
    \/ BrokerCommands
    \/ Read

(* The event loop hands over what has arrived, and the broker answers.     *)
Spec == Init /\ [][Next]_vars /\ WF_vars(Read) /\ WF_vars(BrokerAnswers)

-----------------------------------------------------------------------------
TypeOK ==
    /\ sock \in {"down", "connecting", "up"}
    /\ readState \in {"Header", "Length", "PayLoad"}
    /\ gmid \in Ids
    /\ DOMAIN midToMessage \subseteq Ids
    /\ \A i \in DOMAIN midToMessage : midToMessage[i] \in 1..MaxMessages
    /\ midToTopic \subseteq Ids
    /\ sock = "up" \/ (toBroker = << >> /\ wire = << >>)

(* A published signal on a connection whose parser was never reset within  *)
(* a frame names a message the broker has taken: neither an empty message  *)
(* nor one that shares its id, also when the ids have wrapped and when     *)
(* messages were given to a dead socket before.                            *)
(* (ClientPrivate::nextmid, publish, handlePuback, onNetworkDisconnected)  *)
AckMeansTaken ==
    \A e \in emitted : e.sound => e.msg \in taken

(* On one connection the frames are delivered whole, once and in order,    *)
(* however TCP cuts the bytes, as long as nobody calls connectToHost on a  *)
(* connected socket in the middle of a frame.                              *)
(* (Network::onSocketReadReady, connectToHost; Frame::write)               *)
Channel == INSTANCE FrameChannel WITH queue <- queue, last <- last, sound <- sound
ImplementsChannel == Channel!Spec

(* A message that was written to a live connection is answered, unless the *)
(* connection or the borders of the frames are lost first.                 *)
(* (ClientPrivate::publish to handlePuback, through the parser)            *)
WrittenOn(m) == \E k \in 1..Len(toBroker) : toBroker[k].msg = m
Answered ==
    \A m \in 1..MaxMessages :
        WrittenOn(m) ~> \/ \E e \in emitted : e.msg = m
                        \/ sock # "up"
                        \/ ~sound
=============================================================================
