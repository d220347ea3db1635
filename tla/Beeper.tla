------------------------------- MODULE Beeper -------------------------------
(***************************************************************************)
(* The alarm inputs and the beeper: GPIOset.  Its thread waits for an edge  *)
(* of the door contact or of the power monitor, tells Helper what changed   *)
(* and switches the beeper; the beep timer runs on the GUI thread and reads *)
(* `type', which the thread writes, to choose its rhythm.                   *)
(***************************************************************************)
EXTENDS Integers, Sequences

CONSTANTS
    Breakages,  \* sets of sysfs files that may turn out not to open
    MaxEvents,  \* bound: inputs change while fewer events than this wait
    NumCap      \* bound: values of num from here on are not told apart

Inputs == {"DOOR", "ACDC"}

ASSUME BeeperConstants == MaxEvents \in Nat /\ NumCap \in Nat /\ NumCap > 7

VARIABLES
    broken,   \* the files that do not open
    level,    \* the inputs' levels, TRUE being 1
    edge,     \* inputs with an edge that poll has yet to report
    thread,   \* where run() is: poll, then the two inputs, then the switch
    revents,  \* inputs the last poll reported
    isDoor, isDcAc, type,  \* members of GPIOset with these names
    events,   \* signals queued to the GUI thread
    beeping,  \* the timer beeper is active
    pin,      \* the beeper's output
    num,      \* the static of on_beep
    kinds     \* history: the values of type beeps were made for

beeperVars == <<broken, level, edge, thread, revents, isDoor, isDcAc, type,
                events, beeping, pin, num, kinds>>

Signals == {"beepSwitch", "door", "dcac"}

BeeperTypeOK ==
    /\ broken \in Breakages
    /\ level \in [Inputs -> BOOLEAN]
    /\ edge \subseteq Inputs /\ revents \subseteq Inputs
    /\ thread \in {"poll", "DOOR", "ACDC", "switch", "ended"}
    /\ {isDoor, isDcAc, beeping} \subseteq BOOLEAN
    /\ type \in Inputs \cup {"NON"}
    /\ \A n \in DOMAIN events : events[n] \in Signals \X BOOLEAN
    /\ pin \in {0, 1}
    /\ num \in 0..NumCap
    /\ kinds \subseteq Inputs

-----------------------------------------------------------------------------
(* sysfs: 0, or -1 for a file that does not open                            *)

Opened(f)       == IF f \in broken THEN -1 ELSE 0
gpio_export     == Opened(<<"all", "export">>)
gpio_set_dir(g) == Opened(<<g, "direction">>)
gpio_set_edge(g) == Opened(<<g, "edge">>)
gpio_fd_open(g) == Opened(<<g, "value">>)

\* The beeper's output after a write; a failure is not noticed.
gpio_set_value(v) == IF Opened(<<"Beeper", "value">>) = 0 THEN v ELSE pin

\* Whether all that the program uses could be set up: one sum of results.
initUart ==
    6 * gpio_export + gpio_set_dir("UART2") + gpio_set_dir("UART4")
      + gpio_set_edge("DOOR") + gpio_set_edge("ACDC")
      + gpio_set_dir("Beeper") + gpio_set_dir("G3") = 0

\* A value file reports an edge to the first poll after it was opened.
BeeperInit ==
    /\ broken \in Breakages
    /\ level \in [Inputs -> BOOLEAN]
    /\ edge = {i \in Inputs : gpio_fd_open(i) = 0}
    /\ thread = IF initUart THEN "poll" ELSE "ended"
    /\ revents = {}
    /\ isDoor = FALSE /\ isDcAc = FALSE /\ type = "NON"
    /\ events = << >>
    /\ beeping = FALSE /\ pin = 0 /\ num = 0
    /\ kinds = {}

-----------------------------------------------------------------------------
(* The thread                                                               *)

\* The outside world: an input changes.
Flip(i) ==
    /\ Len(events) < MaxEvents
    /\ level' = [level EXCEPT ![i] = ~@]
    /\ edge' = IF gpio_fd_open(i) = 0 THEN edge \cup {i} ELSE edge
    /\ UNCHANGED <<broken, thread, revents, isDoor, isDcAc, type, events,
                   beeping, pin, num, kinds>>

PollReturns ==
    /\ thread = "poll" /\ edge # {}
    /\ revents' = edge
    /\ thread' = "DOOR"
    /\ UNCHANGED <<broken, level, edge, isDoor, isDcAc, type, events,
                   beeping, pin, num, kinds>>

\* An error of poll ends the thread; the timer goes on as it is.
PollFails ==
    /\ thread = "poll"
    /\ thread' = "ended"
    /\ UNCHANGED <<broken, level, edge, revents, isDoor, isDcAc, type, events,
                   beeping, pin, num, kinds>>

\* Reading takes the level of now and acknowledges the edge; a door that is
\* found as it was is passed over.
ReadDoor ==
    /\ thread = "DOOR" /\ thread' = "ACDC"
    /\ LET changed == "DOOR" \in revents /\ level["DOOR"] # isDoor
       IN  /\ isDoor' = IF changed THEN level["DOOR"] ELSE isDoor
           /\ events' = IF changed THEN Append(events, <<"door", level["DOOR"]>>)
                        ELSE events
    /\ edge' = edge \ (revents \cap {"DOOR"})
    /\ UNCHANGED <<broken, level, revents, isDcAc, type, beeping, pin, num,
                   kinds>>

ReadPower ==
    /\ thread = "ACDC" /\ thread' = "switch"
    /\ IF "ACDC" \in revents
       THEN /\ isDcAc' = level["ACDC"]
            /\ events' = Append(events, <<"dcac", level["ACDC"]>>)
       ELSE UNCHANGED <<isDcAc, events>>
    /\ edge' = edge \ (revents \cap {"ACDC"})
    /\ UNCHANGED <<broken, level, revents, isDoor, type, beeping, pin, num,
                   kinds>>

SwitchBeeper ==
    /\ thread = "switch" /\ thread' = "poll"
    /\ type' = IF isDoor THEN "DOOR" ELSE IF isDcAc THEN "ACDC" ELSE "NON"
    /\ events' = Append(events, <<"beepSwitch", isDoor \/ isDcAc>>)
    /\ UNCHANGED <<broken, level, edge, revents, isDoor, isDcAc, beeping, pin,
                   num, kinds>>

-----------------------------------------------------------------------------
(* The GUI thread                                                           *)

\* Seeded fault of on_beepSwitch: the timer is not stopped.
on_beepSwitchOnly(isOn) ==
    /\ pin' = gpio_set_value(IF isOn THEN 1 ELSE 0)
    /\ beeping' = (beeping \/ isOn)

on_beepSwitch(isOn) ==
    /\ pin' = gpio_set_value(IF isOn THEN 1 ELSE 0)
    /\ beeping' = isOn

\* The event loop takes the next signal; Helper::sendDoor and sendPower are
\* modelled in MqttLink and Resend.
HandleEvent ==
    /\ events # << >>
    /\ LET e == Head(events)
       IN  IF e[1] = "beepSwitch"
           THEN on_beepSwitch(e[2])
           ELSE UNCHANGED <<pin, beeping>>
    /\ events' = Tail(events)
    /\ UNCHANGED <<broken, level, edge, thread, revents, isDoor, isDcAc, type,
                   num, kinds>>

\* Seeded fault of Counted: the count is not started again.
CountedOnce == IF type = "NON" \/ num = NumCap THEN num ELSE num + 1

\* The next value of num: the old one is compared, and only for equality.
Counted ==
    LET last == IF type = "DOOR" THEN 4 ELSE 6
    IN  IF type = "NON" THEN num
        ELSE IF num = last THEN 0
        ELSE IF num = NumCap THEN NumCap ELSE num + 1

on_beep ==
    /\ beeping
    /\ num' = Counted
    /\ pin' = gpio_set_value(IF num' # 0 THEN 0 ELSE 1)
    /\ kinds' = kinds \cup ({type} \ {"NON"})
    /\ UNCHANGED <<broken, level, edge, thread, revents, isDoor, isDcAc, type,
                   events, beeping>>

-----------------------------------------------------------------------------
RunStep == PollReturns \/ ReadDoor \/ ReadPower \/ SwitchBeeper

BeeperNext ==
    \/ \E i \in Inputs : Flip(i)
    \/ RunStep \/ PollFails \/ HandleEvent \/ on_beep

-----------------------------------------------------------------------------
(* Properties                                                               *)

\* Once everything on the way has arrived the beeper runs exactly while an
\* input it can read is at its alarm level, and is silent otherwise: signals
\* that overtook changes of the inputs leave nothing behind.
BeeperFollowsInputs ==
    (thread = "poll" /\ edge = {} /\ events = << >>)
      => /\ beeping = \E i \in Inputs : gpio_fd_open(i) = 0 /\ level[i]
         /\ ~beeping => pin = 0

\* The beeper of an alarm that stays keeps sounding as long as all beeps since
\* the program's start were for one kind of alarm.  After both kinds it may
\* fall silent for ever: num, above 4 from a power alarm, is never 4 again.
OneKindSounds ==
    <>[](beeping /\ kinds \in {{"DOOR"}, {"ACDC"}} /\ <<"Beeper", "value">> \notin broken)
      => []<>(pin = 1)
=============================================================================
