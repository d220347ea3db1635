---------------------------- MODULE Acquisition ----------------------------
(***************************************************************************)
(* The sampling half of the gateway: Helper::initSerial, gotoRun, stopRun  *)
(* and timerEvent, with the requests of DeviceOperator below them.         *)
(*                                                                         *)
(* One round of timerEvent reads the modules one after the other and       *)
(* blocks the GUI thread meanwhile, so only answers of the devices come    *)
(* between two reads.  A request first clears the port, then takes all     *)
(* that arrives until the line is silent for one frame: an answer that     *)
(* missed its own window can turn up in the next one on the same port.     *)
(* What timerEvent does with the values it has collected is modelled in    *)
(* MqttLink and Resend.                                                    *)
(***************************************************************************)
EXTENDS Integers, Sequences

CONSTANTS
    Modules,     \* enterprise.Modules: a sequence of [com, id], id being the
                 \* address in use on the port: Id, over ZigBee ZigBeeId
    Slash,       \* comName is a path, "/dev/ttyS2", not the bare name
    RetryCount,  \* dasData.RetryCount
    MaxFaults    \* bound: answers that go wrong, ports that do not open,
                 \* and visits to the settings dialog

PortNames == {"ttyS1", "ttyS2", "ttyS4"}
Index     == 1..Len(Modules)

ASSUME ConstantsOK ==
    /\ Modules \in Seq([com : PortNames, id : Nat])
    /\ \A i, j \in Index : Modules[i] = Modules[j] => i = j
    /\ Slash \in BOOLEAN
    /\ RetryCount \in Nat \ {0}
    /\ MaxFaults \in Nat

VARIABLES
    ports,    \* Helper::serialList: name and whether it is open
    opts,     \* Helper::deviceOptList: for each operator its port's index
    toAdd,    \* the module initSerial adds next, beyond the last: returned
    running,  \* timerId # -1
    at,       \* the module timerEvent reads next, 0 outside of a round
    buf,      \* dasDataBuf, one entry per module: Absent is -1
    counter,  \* dasDataCounter
    late,     \* per port an answer that missed its window, or Nothing
    fails,    \* history: failed reads since the last good one
    faults    \* faults so far

vars == <<ports, opts, toAdd, running, at, buf, counter, late, fails, faults>>

\* Values are told apart by the device that measured them and their age in
\* rounds; ages are capped where nothing is told apart any more.
AgeCap  == RetryCount + 3
Absent  == [from |-> 0, age |-> 0]
Values  == [from : Index, age : 0..AgeCap]
Nothing == Absent
Aged(v) == IF v.from = 0 \/ v.age = AgeCap THEN v ELSE [v EXCEPT !.age = @ + 1]

TypeOK ==
    /\ ports \in Seq([name : PortNames, open : BOOLEAN])
    /\ opts \in Seq(1..Len(ports)) /\ Len(opts) <= Len(Modules)
    /\ toAdd \in 1..(Len(Modules) + 1)
    /\ running \in BOOLEAN
    /\ at \in 0..Len(opts)
    /\ buf \in [Index -> Values \cup {Absent}]
    /\ counter \in [Index -> -1..(RetryCount - 1)]
    /\ late \in [PortNames -> Values \cup {Nothing}]
    /\ fails \in [Index -> 0..RetryCount]
    /\ faults \in 0..MaxFaults

Disturb(n) == faults + n <= MaxFaults /\ faults' = faults + n

-----------------------------------------------------------------------------
(* initSerial                                                              *)

\* comName.indexOf(portName): QSerialPort drops the "/dev/" of a name.
IndexOf(com, name) == IF com # name THEN -1 ELSE IF Slash THEN 5 ELSE 0

\* One pass of the loop: the module takes the last port for which indexOf is
\* true as a C++ truth value, and else a new one, which must open; a port
\* opens only once.
AddModule ==
    /\ toAdd \in Index
    /\ LET com  == Modules[toAdd].com
           hits == {k \in 1..Len(ports) : IndexOf(com, ports[k].name) # 0}
           busy == \E k \in 1..Len(ports) : ports[k].name = com
       IN  \/ /\ \E k \in hits : /\ \A l \in hits : l <= k
                                /\ opts' = Append(opts, k)
              /\ toAdd' = toAdd + 1
              /\ UNCHANGED <<ports, faults>>
           \/ /\ hits = {} /\ ~busy
              /\ ports' = Append(ports, [name |-> com, open |-> TRUE])
              /\ opts' = Append(opts, Len(ports) + 1)
              /\ toAdd' = toAdd + 1
              /\ UNCHANGED faults
           \/ /\ hits = {}
              /\ Disturb(IF busy THEN 0 ELSE 1)
              /\ ports' = Append(ports, [name |-> com, open |-> FALSE])
              /\ toAdd' = Len(Modules) + 1
              /\ UNCHANGED opts
    /\ UNCHANGED <<running, at, buf, counter, late, fails>>

\* The constructor: all is ready for initSerial, which gotoRun follows.
Init ==
    /\ ports = << >>
    /\ opts = << >>
    /\ toAdd = 1
    /\ running = FALSE
    /\ at = 0
    /\ buf = [i \in Index |-> Absent]
    /\ counter = [i \in Index |-> -1]
    /\ late = [p \in PortNames |-> Nothing]
    /\ fails = [i \in Index |-> 0]
    /\ faults = 0

-----------------------------------------------------------------------------
(* One request: readDevRegister                                            *)

IsZigbee(name) == name = "ttyS1"

\* The RS-485 transmitter a port is wired to, and the one the code drives:
\* portName().indexOf("S2") is true, as a number, for every name but "S2...".
Wired(name)  == IF name = "ttyS2" THEN "UART2" ELSE "UART4"
Driven(name) == "UART2"

\* The devices that hear a request of operator i on port p.
Hearers(i, p) ==
    {j \in Index : /\ Modules[j] = [com |-> p.name, id |-> Modules[i].id]
                   /\ IsZigbee(p.name) \/ Wired(p.name) = Driven(p.name)}

\* The answer to that request, measured now.
Answer(i, p) ==
    IF Hearers(i, p) = {} THEN Nothing
    ELSE [from |-> CHOOSE j \in Hearers(i, p) : TRUE, age |-> 0]

\* What becomes of an answer: read in its window, too late for it, lost on
\* the way, damaged; or the request itself could not be written.
Fates == {"intime", "late", "lost", "damaged", "unsent"}

\* All that arrives in the window: the answer that was late for the window
\* before, unless clear() has taken it, and this one.
Frames(v) == IF v = Nothing THEN << >> ELSE <<v>>

Window(i, p, fate, stray) ==
    Frames(IF stray THEN late[p.name] ELSE Nothing)
    \o Frames(IF fate = "intime" THEN Answer(i, p) ELSE Nothing)

\* Seeded fault of Accepts: the sender's address is not compared.
AcceptsAnyone(i, w) == Len(w) = 1

\* The checks on length, CRC and sender: one whole frame, from the module
\* that was asked.  (Over ZigBee a stray answer can also fall into the window
\* of setNetAddress before: a failure that leaves the values alone, which
\* two frames in one window are as well.)
Accepts(i, w) ==
    Len(w) = 1 /\ Modules[w[1].from].id = Modules[i].id

\* A read that fails leaves the values alone, except over ZigBee: there a
\* silent device and a failed write set them to -1.
AfterFailure(i, p, w, fate) ==
    IF ~IsZigbee(p.name) THEN {buf[i]}
    ELSE CASE fate = "unsent"                -> {buf[i], Absent}
           [] w = << >> /\ fate # "damaged"  -> {Absent}
           [] OTHER                          -> {buf[i]}

-----------------------------------------------------------------------------
(* timerEvent                                                              *)

\* Seeded faults of GoodRead and BadRead: the counter is kept on success; the
\* values outlive the retries; the counter is not started again.
GoodReadKeepsCounter(i, v) ==
    /\ buf' = [buf EXCEPT ![i] = v]
    /\ fails' = [fails EXCEPT ![i] = 0]
    /\ UNCHANGED counter

BadReadKeepsValue(i, v) ==
    /\ fails' = [fails EXCEPT ![i] = IF @ < RetryCount THEN @ + 1 ELSE @]
    /\ counter' = [counter EXCEPT ![i] =
                     IF @ + 1 = RetryCount THEN 0 ELSE @ + 1]
    /\ buf' = [buf EXCEPT ![i] = v]

BadReadCountsOn(i, v) ==
    /\ fails' = [fails EXCEPT ![i] = IF @ < RetryCount THEN @ + 1 ELSE @]
    /\ counter' = [counter EXCEPT ![i] = IF @ > RetryCount THEN @ ELSE @ + 1]
    /\ buf' = [buf EXCEPT ![i] =
                 IF counter[i] + 1 = RetryCount THEN Absent ELSE v]

GoodRead(i, v) ==
    /\ buf' = [buf EXCEPT ![i] = v]
    /\ counter' = [counter EXCEPT ![i] = 0]
    /\ fails' = [fails EXCEPT ![i] = 0]

\* ++dasDataCounter[i] == RetryCount: start again and give the values up.
BadRead(i, v) ==
    LET exhausted == counter[i] + 1 = RetryCount IN
    /\ fails' = [fails EXCEPT ![i] = IF @ < RetryCount THEN @ + 1 ELSE @]
    /\ counter' = [counter EXCEPT ![i] = IF exhausted THEN 0 ELSE @ + 1]
    /\ buf' = [buf EXCEPT ![i] = IF exhausted THEN Absent ELSE v]

\* Seeded fault of BeginRound: the loop starts at the second operator.
BeginRoundSkipsFirst ==
    /\ running /\ at = 0
    /\ at' = IF Len(opts) < 2 THEN 0 ELSE 2
    /\ buf' = [i \in Index |-> Aged(buf[i])]
    /\ late' = [p \in PortNames |-> Aged(late[p])]
    /\ UNCHANGED <<ports, opts, toAdd, running, counter, fails, faults>>

BeginRound ==
    /\ running /\ at = 0
    /\ at' = IF opts = << >> THEN 0 ELSE 1
    /\ buf' = [i \in Index |-> Aged(buf[i])]
    /\ late' = [p \in PortNames |-> Aged(late[p])]
    /\ UNCHANGED <<ports, opts, toAdd, running, counter, fails, faults>>

\* Module i's turn.  A closed port fails at once; else clear() or the window
\* takes what was late, and this answer meets its fate.
ReadModule(i) ==
    /\ at = i
    /\ at' = IF i = Len(opts) THEN 0 ELSE i + 1
    /\ LET p == ports[opts[i]] IN
       IF ~p.open
         THEN BadRead(i, buf[i]) /\ UNCHANGED <<late, faults>>
         ELSE \E fate \in Fates, stray \in BOOLEAN :
           LET w == IF fate = "unsent" THEN << >> ELSE Window(i, p, fate, stray)
           IN
           /\ Disturb(IF fate = "intime" THEN 0 ELSE 1)
           /\ late' = [late EXCEPT ![p.name] =
                         IF fate = "late" THEN Answer(i, p) ELSE Nothing]
           /\ IF fate \in {"intime", "late", "lost"} /\ Accepts(i, w)
                THEN GoodRead(i, w[1])
                ELSE \E v \in AfterFailure(i, p, w, fate) : BadRead(i, v)
    /\ UNCHANGED <<ports, opts, toAdd, running>>

-----------------------------------------------------------------------------
(* gotoRun and stopRun, around the settings dialog                         *)

\* Closing a port discards what still arrives on it.
StopRun ==
    /\ at = 0 /\ running
    /\ Disturb(1)
    /\ running' = FALSE
    /\ ports' = [k \in 1..Len(ports) |-> [ports[k] EXCEPT !.open = FALSE]]
    /\ late' = [p \in PortNames |-> Nothing]
    /\ UNCHANGED <<opts, toAdd, at, buf, counter, fails>>

\* From the constructor and when the dialog closes.  serialList is filled, so
\* initSerial has nothing to do; the results of open() are not looked at, and
\* an open port stays open.
GotoRun ==
    /\ toAdd \notin Index
    /\ ~running
    /\ running' = TRUE
    /\ \E opening \in SUBSET PortNames :
         /\ Disturb(IF opening = PortNames THEN 0 ELSE 1)
         /\ ports' = [k \in 1..Len(ports) |->
              [ports[k] EXCEPT !.open =
                 \/ ports[k].open
                 \/ /\ ports[k].name \in opening
                    /\ \A l \in 1..Len(ports) : ports[l].name = ports[k].name
                         => ~ports[l].open /\ k <= l]]
    /\ UNCHANGED <<opts, toAdd, at, buf, counter, late, fails>>

Next ==
    \/ AddModule
    \/ BeginRound
    \/ \E i \in 1..Len(opts) : ReadModule(i)
    \/ StopRun \/ GotoRun

Spec == Init /\ [][Next]_vars

\* The sampling timer fires and a round that has begun is finished.
FairSpec ==
    Spec /\ WF_vars(BeginRound) /\ WF_vars(\E i \in Index : ReadModule(i))

-----------------------------------------------------------------------------
(* Properties                                                              *)

Present(i) == buf[i] # Absent

\* The values under a module's name are that module's, whichever answers
\* arrive in its window: they are what the server, the report and the display
\* get to see.
ValuesAreOwn == \A i \in 1..Len(opts) : Present(i) => buf[i].from = i

\* A value that is still shown was measured at most RetryCount rounds ago.  A
\* module that is alone can be one round worse off: there the next request
\* takes an answer that missed its window for its own.
BoundedAge ==
    \A i \in 1..Len(opts) :
      Present(i) => buf[i].age <= RetryCount + (IF Len(opts) = 1 THEN 1 ELSE 0)

\* timerEvent reads "with a tolerance of 3 faults" (helper.cpp:186; RetryCount in
\* the code): on an RS-485 line a module's values are given up only after
\* RetryCount failures in a row, so that a failed read must leave them alone,
\* against the comment of readDevRegister (deviceoperator.cpp:302, "on a read
\* error pRegs is set to -1").  Over ZigBee, where the values are set to -1 at
\* once, the tolerance is not kept: one silent device is enough.
ToleratesFailures ==
    [][\A i \in 1..Len(opts) :
         /\ ~IsZigbee(ports[opts[i]].name)
         /\ Present(i) /\ buf'[i] = Absent
         => fails'[i] >= RetryCount]_vars

\* Once the devices answer in time and the dialog stays closed, every module
\* that can be reached gets its values back, new ones in every round.
Reachable(i) == ports[opts[i]].open /\ Hearers(i, ports[opts[i]]) # {}

ReadingsReturn ==
    <>[]running =>
      <>[](\A i \in 1..Len(opts) : Reachable(i) => Present(i) /\ buf[i].age <= 1)

\* "ttyS4 485 modbus need control GPIO0_13": a module on a line of its own is
\* read once its port is open and the devices answer.
EveryModuleRead ==
    <>[](running /\ \A i \in Index : i <= Len(opts) /\ ports[opts[i]].open) =>
      <>[](\A i \in Index : Present(i))
=============================================================================
