---------------------------- MODULE PanelProofs ----------------------------
(***************************************************************************)
(* Proofs about Panel for every set of files that may not open, every       *)
(* number of waiting signals, and every enterprise, password and geometry.  *)
(*                                                                         *)
(* The beeper's thread and the event loop never agree on anything by        *)
(* themselves: what ties them together is that the last signal queued       *)
(* always carries what the thread knows (LastWord), and that what the       *)
(* thread knows of an input is its level unless an edge is still pending    *)
(* (NoEdgeMissed).  The report's part is proved in ReportProofs.            *)
(***************************************************************************)
EXTENDS Panel, ReportProofs, TLAPS

Readable(i) == gpio_fd_open(i) = 0

\* What the thread last found at an input.
Found(i) == IF i = "DOOR" THEN isDoor ELSE isDcAc

BeeperTypes ==
    /\ level \in [Inputs -> BOOLEAN]
    /\ edge \subseteq Inputs /\ revents \subseteq Inputs
    /\ thread \in {"poll", "DOOR", "ACDC", "switch", "ended"}
    /\ isDoor \in BOOLEAN /\ isDcAc \in BOOLEAN /\ beeping \in BOOLEAN
    /\ type \in Inputs \cup {"NON"}
    /\ events \in Seq(Signals \X BOOLEAN)
    /\ pin \in {0, 1}
    /\ num \in 0..NumCap
    /\ kinds \subseteq Inputs

\* An input that cannot be read is never reported, and never at its level.
OnlyReadable ==
    \A i \in Inputs : ~Readable(i) =>
        i \notin edge /\ i \notin revents /\ Found(i) = FALSE

\* A difference between an input and what was found there has an edge pending.
NoEdgeMissed ==
    \A i \in Inputs : (Readable(i) /\ i \notin edge) => Found(i) = level[i]

\* Between two rounds of the thread, the last switch on the way to the beeper,
\* or the one that arrived last, says what the thread has found.
LastWord ==
    thread = "poll" =>
        IF events = << >> THEN beeping = (isDoor \/ isDcAc)
        ELSE events[Len(events)] = <<"beepSwitch", isDoor \/ isDcAc>>

\* The beeper's output is low while its timer does not run.
Silent ==
    /\ ~beeping => pin = 0
    /\ <<"Beeper", "value">> \in broken => pin = 0

BeeperInv == BeeperTypes /\ OnlyReadable /\ NoEdgeMissed /\ LastWord /\ Silent

-----------------------------------------------------------------------------
(* The beeper                                                               *)

\* The rest of a queue ends as the queue does.
LEMMA LastOfTail ==
    ASSUME NEW S, NEW q \in Seq(S), q # << >>
    PROVE  /\ Tail(q) \in Seq(S)
           /\ Tail(q) = << >> => q[Len(q)] = Head(q)
           /\ Tail(q) # << >> => Tail(q)[Len(Tail(q))] = q[Len(q)]
  <1>1. Tail(q) \in Seq(S)
    OBVIOUS
  <1>2. Len(q) \in Nat /\ Len(q) > 0 /\ Len(Tail(q)) = Len(q) - 1
    OBVIOUS
  <1>3. \A i \in 1..Len(q) - 1 : Tail(q)[i] = q[i + 1]
    OBVIOUS
  <1>4. Head(q) = q[1]
    OBVIOUS
  <1>5. ASSUME Tail(q) = << >> PROVE q[Len(q)] = Head(q)
    <2>0. Len(<< >>) = 0
      OBVIOUS
    <2>1. Len(Tail(q)) = 0
      BY <2>0, <1>5, Zenon
    <2>2. Len(q) = 1
      BY <2>1, <1>2
    <2> QED
      BY <2>2, <1>4
  <1>6. ASSUME Tail(q) # << >>
        PROVE  Tail(q)[Len(Tail(q))] = q[Len(q)]
    <2>1. Len(q) - 1 \in 1..Len(q) - 1
      BY <1>1, <1>2, <1>6
    <2> QED
      BY <2>1, <1>2, <1>3
  <1> QED
    BY <1>1, <1>5, <1>6

\* Nothing is on its way when the program has started.
LEMMA BeeperStarts ==
    ASSUME BeeperInit PROVE BeeperInv
  <1>1. BeeperTypes
    <2>1. thread \in {"poll", "ended"}
      BY DEF BeeperInit
    <2>2. edge \subseteq Inputs
      BY DEF BeeperInit
    <2>3. num = 0 /\ 0 \in 0..NumCap
      BY BeeperConstants DEF BeeperInit
    <2>4. events \in Seq(Signals \X BOOLEAN)
      BY DEF BeeperInit
    <2> QED
      BY <2>1, <2>2, <2>3, <2>4 DEF BeeperInit, BeeperTypes
  <1>2. OnlyReadable
    BY DEF BeeperInit, OnlyReadable, Readable, Found, Inputs
  <1>3. NoEdgeMissed
    BY DEF BeeperInit, NoEdgeMissed, Readable, Found, Inputs
  <1>4. LastWord
    BY DEF BeeperInit, LastWord
  <1>5. Silent
    BY DEF BeeperInit, Silent
  <1> QED
    BY <1>1, <1>2, <1>3, <1>4, <1>5 DEF BeeperInv

\* A change of an input's level leaves an edge to find it by.
LEMMA FlipKeeps ==
    ASSUME BeeperInv, NEW i \in Inputs, Flip(i) PROVE BeeperInv'
  <1> USE DEF Inputs, Readable
  <1>0. \A k \in Inputs : gpio_fd_open(k)' = gpio_fd_open(k)
    BY DEF Flip, gpio_fd_open, Opened
  <1>1. BeeperTypes'
    BY DEF BeeperInv, BeeperTypes, Flip
  <1>2. OnlyReadable'
    BY <1>0 DEF BeeperInv, OnlyReadable, Found, Flip
  <1>3. NoEdgeMissed'
    BY <1>0 DEF BeeperInv, BeeperTypes, NoEdgeMissed, Found, Flip
  <1>4. LastWord'
    BY DEF BeeperInv, LastWord, Flip
  <1>5. Silent'
    BY DEF BeeperInv, Silent, Flip
  <1> QED
    BY <1>1, <1>2, <1>3, <1>4, <1>5 DEF BeeperInv

\* poll reports the edges there are, or fails.
LEMMA PollKeeps ==
    ASSUME BeeperInv, PollReturns \/ PollFails PROVE BeeperInv'
  <1> USE DEF Inputs, Readable
  <1>0. \A k \in Inputs : gpio_fd_open(k)' = gpio_fd_open(k)
    BY DEF PollReturns, PollFails, gpio_fd_open, Opened
  <1>1. BeeperTypes'
    BY DEF BeeperInv, BeeperTypes, PollReturns, PollFails
  <1>2. OnlyReadable'
    BY <1>0 DEF BeeperInv, OnlyReadable, Found, PollReturns, PollFails
  <1>3. NoEdgeMissed'
    BY <1>0 DEF BeeperInv, NoEdgeMissed, Found, PollReturns, PollFails
  <1>4. LastWord'
    BY DEF BeeperInv, LastWord, PollReturns, PollFails
  <1>5. Silent'
    BY DEF BeeperInv, Silent, PollReturns, PollFails
  <1> QED
    BY <1>1, <1>2, <1>3, <1>4, <1>5 DEF BeeperInv

\* What is found at the door is its level of the moment the edge is taken.
LEMMA ReadDoorKeeps ==
    ASSUME BeeperInv, ReadDoor PROVE BeeperInv'
  <1> USE DEF Inputs, Readable
  <1>0. \A k \in Inputs : gpio_fd_open(k)' = gpio_fd_open(k)
    BY DEF ReadDoor, gpio_fd_open, Opened
  <1>1. BeeperTypes'
    <2>1. level["DOOR"] \in BOOLEAN
      BY DEF BeeperInv, BeeperTypes
    <2>2. isDoor' \in BOOLEAN
      BY <2>1 DEF BeeperInv, BeeperTypes, ReadDoor
    <2>3. events' \in Seq(Signals \X BOOLEAN)
      <3>1. <<"door", level["DOOR"]>> \in Signals \X BOOLEAN
        BY <2>1 DEF Signals
      <3> QED
        BY <3>1 DEF BeeperInv, BeeperTypes, ReadDoor
    <2> QED
      BY <2>2, <2>3 DEF BeeperInv, BeeperTypes, ReadDoor
  <1>2. OnlyReadable'
    BY <1>0 DEF BeeperInv, OnlyReadable, Found, ReadDoor
  <1>3. NoEdgeMissed'
    <2>1. (Readable("DOOR") /\ "DOOR" \notin edge') => isDoor' = level["DOOR"]
      <3>1. CASE "DOOR" \in revents
        BY <3>1 DEF ReadDoor
      <3>2. CASE "DOOR" \notin revents
        BY <3>2 DEF BeeperInv, NoEdgeMissed, Found, ReadDoor
      <3> QED
        BY <3>1, <3>2
    <2>2. (Readable("ACDC") /\ "ACDC" \notin edge') => isDcAc' = level["ACDC"]
      BY DEF BeeperInv, NoEdgeMissed, Found, ReadDoor
    <2> QED
      BY <1>0, <2>1, <2>2 DEF NoEdgeMissed, Found, ReadDoor
  <1>4. LastWord'
    BY DEF LastWord, ReadDoor
  <1>5. Silent'
    BY DEF BeeperInv, Silent, ReadDoor
  <1> QED
    BY <1>1, <1>2, <1>3, <1>4, <1>5 DEF BeeperInv

\* The same for the power monitor.
LEMMA ReadPowerKeeps ==
    ASSUME BeeperInv, ReadPower PROVE BeeperInv'
  <1> USE DEF Inputs, Readable
  <1>0. \A k \in Inputs : gpio_fd_open(k)' = gpio_fd_open(k)
    BY DEF ReadPower, gpio_fd_open, Opened
  <1>1. BeeperTypes'
    <2>1. level["ACDC"] \in BOOLEAN
      BY DEF BeeperInv, BeeperTypes
    <2>2. isDcAc' \in BOOLEAN
      BY <2>1 DEF BeeperInv, BeeperTypes, ReadPower
    <2>3. events' \in Seq(Signals \X BOOLEAN)
      <3>1. <<"dcac", level["ACDC"]>> \in Signals \X BOOLEAN
        BY <2>1 DEF Signals
      <3> QED
        BY <3>1 DEF BeeperInv, BeeperTypes, ReadPower
    <2> QED
      BY <2>2, <2>3 DEF BeeperInv, BeeperTypes, ReadPower
  <1>2. OnlyReadable'
    BY <1>0 DEF BeeperInv, OnlyReadable, Found, ReadPower
  <1>3. NoEdgeMissed'
    <2>1. (Readable("ACDC") /\ "ACDC" \notin edge') => isDcAc' = level["ACDC"]
      <3>1. CASE "ACDC" \in revents
        BY <3>1 DEF ReadPower
      <3>2. CASE "ACDC" \notin revents
        BY <3>2 DEF BeeperInv, NoEdgeMissed, Found, ReadPower
      <3> QED
        BY <3>1, <3>2
    <2>2. (Readable("DOOR") /\ "DOOR" \notin edge') => isDoor' = level["DOOR"]
      BY DEF BeeperInv, NoEdgeMissed, Found, ReadPower
    <2> QED
      BY <1>0, <2>1, <2>2 DEF NoEdgeMissed, Found, ReadPower
  <1>4. LastWord'
    BY DEF LastWord, ReadPower
  <1>5. Silent'
    BY DEF BeeperInv, Silent, ReadPower
  <1> QED
    BY <1>1, <1>2, <1>3, <1>4, <1>5 DEF BeeperInv

\* A round of the thread ends with its last word.
LEMMA SwitchKeeps ==
    ASSUME BeeperInv, SwitchBeeper PROVE BeeperInv'
  <1> USE DEF Inputs, Readable
  <1>0. \A k \in Inputs : gpio_fd_open(k)' = gpio_fd_open(k)
    BY DEF SwitchBeeper, gpio_fd_open, Opened
  <1> DEFINE word == <<"beepSwitch", isDoor \/ isDcAc>>
  <1>a. word \in Signals \X BOOLEAN
    BY DEF Signals
  <1>b. /\ events' \in Seq(Signals \X BOOLEAN)
        /\ events' # << >> /\ events'[Len(events')] = word
    <2> HIDE DEF word
    <2> QED
      BY <1>a DEF BeeperInv, BeeperTypes, SwitchBeeper, word
  <1>1. BeeperTypes'
    BY <1>b DEF BeeperInv, BeeperTypes, SwitchBeeper
  <1>2. OnlyReadable'
    BY <1>0 DEF BeeperInv, OnlyReadable, Found, SwitchBeeper
  <1>3. NoEdgeMissed'
    BY <1>0 DEF BeeperInv, NoEdgeMissed, Found, SwitchBeeper
  <1>4. LastWord'
    BY <1>b DEF LastWord, SwitchBeeper
  <1>5. Silent'
    BY DEF BeeperInv, Silent, SwitchBeeper
  <1> QED
    BY <1>1, <1>2, <1>3, <1>4, <1>5 DEF BeeperInv

\* The event loop takes the signals in their order, the last word last.
LEMMA HandleEventKeeps ==
    ASSUME BeeperInv, HandleEvent PROVE BeeperInv'
  <1> USE DEF Inputs, Readable
  <1>0. \A k \in Inputs : gpio_fd_open(k)' = gpio_fd_open(k)
    BY DEF HandleEvent, gpio_fd_open, Opened
  <1>a. events \in Seq(Signals \X BOOLEAN) /\ events # << >>
    BY DEF BeeperInv, BeeperTypes, HandleEvent
  <1>b. Head(events) \in Signals \X BOOLEAN
    BY <1>a
  <1>c. Head(events)[2] \in BOOLEAN
    BY <1>b
  <1>d. /\ Tail(events) \in Seq(Signals \X BOOLEAN)
        /\ Tail(events) = << >> => events[Len(events)] = Head(events)
        /\ Tail(events) # << >> =>
              Tail(events)[Len(Tail(events))] = events[Len(events)]
    <2> DEFINE Sigs == Signals \X BOOLEAN
    <2> HIDE DEF Sigs
    <2>1. events \in Seq(Sigs)
      BY <1>a DEF Sigs
    <2> QED
      BY <2>1, <1>a, LastOfTail DEF Sigs
  <1>e. /\ beeping' \in BOOLEAN /\ pin' \in {0, 1}
        /\ ~beeping' => pin' = 0
        /\ <<"Beeper", "value">> \in broken => pin' = 0
    <2>1. CASE Head(events)[1] = "beepSwitch"
      BY <2>1, <1>c DEF BeeperInv, BeeperTypes, Silent, HandleEvent,
        on_beepSwitch, gpio_set_value, Opened
    <2>2. CASE Head(events)[1] # "beepSwitch"
      BY <2>2 DEF BeeperInv, BeeperTypes, Silent, HandleEvent
    <2> QED
      BY <2>1, <2>2
  <1>1. BeeperTypes'
    BY <1>d, <1>e DEF BeeperInv, BeeperTypes, HandleEvent
  <1>2. OnlyReadable'
    BY <1>0 DEF BeeperInv, OnlyReadable, Found, HandleEvent
  <1>3. NoEdgeMissed'
    BY <1>0 DEF BeeperInv, NoEdgeMissed, Found, HandleEvent
  <1>4. LastWord'
    <2> SUFFICES ASSUME thread = "poll"
                 PROVE  IF Tail(events) = << >> THEN beeping' = (isDoor \/ isDcAc)
                        ELSE Tail(events)[Len(Tail(events))]
                               = <<"beepSwitch", isDoor \/ isDcAc>>
      BY DEF LastWord, HandleEvent
    <2>1. events[Len(events)] = <<"beepSwitch", isDoor \/ isDcAc>>
      BY <1>a DEF BeeperInv, LastWord
    <2>2. CASE Tail(events) = << >>
      <3>1. Head(events) = <<"beepSwitch", isDoor \/ isDcAc>>
        BY <2>1, <2>2, <1>d
      <3>2. Head(events)[1] = "beepSwitch" /\ Head(events)[2] = (isDoor \/ isDcAc)
        BY <3>1
      <3> QED
        BY <2>2, <3>2 DEF HandleEvent, on_beepSwitch
    <2>3. CASE Tail(events) # << >>
      BY <2>1, <2>3, <1>d
    <2> QED
      BY <2>2, <2>3
  <1>5. Silent'
    BY <1>e DEF Silent, HandleEvent
  <1> QED
    BY <1>1, <1>2, <1>3, <1>4, <1>5 DEF BeeperInv

\* A beep changes the output of a running beeper only.
LEMMA BeepKeeps ==
    ASSUME BeeperInv, on_beep PROVE BeeperInv'
  <1> USE DEF Inputs, Readable
  <1>0. \A k \in Inputs : gpio_fd_open(k)' = gpio_fd_open(k)
    BY DEF on_beep, gpio_fd_open, Opened
  <1>a. num' \in 0..NumCap
    BY BeeperConstants DEF BeeperInv, BeeperTypes, on_beep, Counted
  <1>b. pin' \in {0, 1} /\ (<<"Beeper", "value">> \in broken => pin' = 0)
    BY DEF BeeperInv, BeeperTypes, Silent, on_beep, gpio_set_value, Opened
  <1>1. BeeperTypes'
    BY <1>a, <1>b DEF BeeperInv, BeeperTypes, on_beep
  <1>2. OnlyReadable'
    BY <1>0 DEF BeeperInv, OnlyReadable, Found, on_beep
  <1>3. NoEdgeMissed'
    BY <1>0 DEF BeeperInv, NoEdgeMissed, Found, on_beep
  <1>4. LastWord'
    BY DEF BeeperInv, LastWord, on_beep
  <1>5. Silent'
    BY <1>b DEF Silent, on_beep
  <1> QED
    BY <1>1, <1>2, <1>3, <1>4, <1>5 DEF BeeperInv

\* Every step of the beeper's half keeps its invariant.
LEMMA BeeperSteps ==
    ASSUME BeeperInv, BeeperNext PROVE BeeperInv'
  BY FlipKeeps, PollKeeps, ReadDoorKeeps, ReadPowerKeeps, SwitchKeeps,
     HandleEventKeeps, BeepKeeps DEF BeeperNext, RunStep

\* When nothing is on the way, the last word is the inputs' own.
LEMMA BeeperAtRest ==
    ASSUME BeeperInv PROVE BeeperFollowsInputs
  <1> SUFFICES ASSUME thread = "poll", edge = {}, events = << >>
               PROVE  /\ beeping = \E i \in Inputs : gpio_fd_open(i) = 0 /\ level[i]
                      /\ ~beeping => pin = 0
    BY DEF BeeperFollowsInputs
  <1>1. beeping = (isDoor \/ isDcAc)
    BY DEF BeeperInv, LastWord
  <1>2. /\ IF Readable("DOOR") THEN isDoor = level["DOOR"] ELSE isDoor = FALSE
        /\ IF Readable("ACDC") THEN isDcAc = level["ACDC"] ELSE isDcAc = FALSE
    BY DEF BeeperInv, BeeperTypes, OnlyReadable, NoEdgeMissed, Found, Inputs
  <1>3. level["DOOR"] \in BOOLEAN /\ level["ACDC"] \in BOOLEAN
    BY DEF BeeperInv, BeeperTypes, Inputs
  <1>4. (isDoor \/ isDcAc) = \E i \in Inputs : Readable(i) /\ level[i]
    BY <1>2, <1>3 DEF Inputs, BeeperInv, BeeperTypes
  <1> QED
    BY <1>1, <1>4 DEF BeeperInv, Silent, Readable

-----------------------------------------------------------------------------
(* The screens                                                              *)

\* What one channel's part of the main window can be.
Boxes == [title : UnitNums \cup {0}, value : Values, raw : BOOLEAN,
          visible : BOOLEAN, text : {"", "on", "off"}]

\* A label that can be seen is true of the channel it stands for.
Truthful(c, box) ==
    box.visible => /\ box.title # 0 /\ c \in DOMAIN Units[box.title]
                   /\ Units[box.title][c] = "AC"
                   /\ \/ box.value = 1 /\ box.text = "on"
                      \/ box.value = 0 /\ box.text = "off"

WindowInv ==
    /\ modeNum \in UnitNums
    /\ grid \in [Channels -> Boxes]
    /\ \A c \in Channels : Truthful(c, grid[c])

PadTypes ==
    /\ screen \in {"main", "numpad", "settings"}
    /\ mmm \in Seq(Digits) /\ Len(mmm) <= Len(Password) + 1
    /\ running \in BOOLEAN /\ isOriginal \in BOOLEAN /\ isFull \in BOOLEAN

Navigations == [current : Tabs \cup {-1}, clicked : SUBSET Tabs,
                stacked : Tabs, painted : BOOLEAN]

Lit(n) == n.clicked = {n.stacked} /\ n.current = n.stacked

NavInv == nav \in Navigations /\ Lit(nav)

Switches == [checked : BOOLEAN, startX : (0 - SwitchWidth)..SwitchWidth,
             endX : {0, SwitchWidth - SwitchWidth \div 2}, sliding : BOOLEAN,
             overtaken : BOOLEAN]

\* A slider that no search has overtaken is on its way to where it belongs,
\* or there.
Heading(s) ==
    ~s.overtaken => IF s.sliding THEN s.endX = EndOf(s.checked)
                    ELSE s.startX = EndOf(s.checked)

SwitchInv == switch \in Switches /\ Heading(switch)

ScreensInv == PadTypes /\ WindowInv /\ NavInv /\ SwitchInv

\* One step of a slide is no longer than half of the switch.
LEMMA StepIsShort ==
    /\ SwitchWidth \div Strides \in Nat
    /\ SwitchWidth \div 2 \in Nat /\ 2 * (SwitchWidth \div 2) <= SwitchWidth
    /\ SwitchWidth \div Strides <= SwitchWidth \div 2
  <1>0. SwitchWidth \in Nat /\ SwitchWidth > 0 /\ Strides \in Nat /\ Strides > 1
    BY ScreensConstants
  <1> DEFINE q == SwitchWidth \div Strides
  <1>1. /\ q \in Nat /\ Strides * q <= SwitchWidth
    BY <1>0
  <1> HIDE DEF q
  <1>2. 2 * q <= Strides * q
    BY <1>0, <1>1
  <1>3. 2 * q <= SwitchWidth
    BY <1>0, <1>1, <1>2
  <1>4. q <= SwitchWidth \div 2
    BY <1>0, <1>1, <1>3
  <1> QED
    BY <1>0, <1>1, <1>4 DEF q

\* Both places where the slider can belong lie within the switch.
LEMMA EndsFit ==
    ASSUME NEW checked \in BOOLEAN
    PROVE  /\ EndOf(checked) \in {0, SwitchWidth - SwitchWidth \div 2}
           /\ EndOf(checked) \in 0..SwitchWidth
           /\ EndOf(checked) \in (0 - SwitchWidth)..SwitchWidth
  <1>1. SwitchWidth \in Nat
    BY ScreensConstants
  <1> QED
    BY <1>1, StepIsShort DEF EndOf

\* The slider of a new switch is where it belongs.
LEMMA NewSwitchFits ==
    NewSwitch \in Switches /\ Heading(NewSwitch)
  <1>1. SwitchWidth \in Nat
    BY ScreensConstants
  <1>2. 0 \in (0 - SwitchWidth)..SwitchWidth
    BY <1>1
  <1>3. EndOf(FALSE) = 0
    BY DEF EndOf
  <1>4. NewSwitch \in Switches
    BY <1>2 DEF NewSwitch, Switches
  <1>5. Heading(NewSwitch)
    BY <1>3 DEF NewSwitch, Heading
  <1> QED
    BY <1>4, <1>5

\* A press sends the slider off to where the new state belongs.
LEMMA PressedFits ==
    ASSUME NEW s \in Switches
    PROVE  Pressed(s) \in Switches /\ Heading(Pressed(s))
  <1>1. EndOf(~s.checked) \in {0, SwitchWidth - SwitchWidth \div 2}
    BY EndsFit DEF Switches
  <1> QED
    BY <1>1 DEF Switches, Heading, Pressed

\* A search's end puts the slider into place at once, and is remembered if a
\* slide was under way.
LEMMA SetCheckedFits ==
    ASSUME NEW s \in Switches, Heading(s), NEW checked \in BOOLEAN
    PROVE  setChecked(s, checked) \in Switches /\ Heading(setChecked(s, checked))
  <1>1. EndOf(checked) \in (0 - SwitchWidth)..SwitchWidth
    BY EndsFit
  <1> QED
    BY <1>1 DEF Switches, Heading, setChecked

\* A step of a slide leaves the slider within the switch, and the last one
\* puts it to its end.
LEMMA UpdateFits ==
    ASSUME NEW s \in Switches, Heading(s), s.sliding
    PROVE  updateValue(s) \in Switches /\ Heading(updateValue(s))
  <1> DEFINE W    == SwitchWidth
             step == W \div Strides
             half == W \div 2
  <1>1. /\ W \in Nat /\ W > 0 /\ half \in Nat /\ 2 * half <= W
        /\ step \in Nat /\ step <= half
    BY StepIsShort, ScreensConstants
  <1>a. /\ s.startX \in (0 - W)..W /\ s.checked \in BOOLEAN
        /\ s.endX \in {0, W - half}
    BY DEF Switches
  <1>2. /\ s.startX \in Int /\ 0 - W <= s.startX /\ s.startX <= W
        /\ s.endX \in {0, W - half}
        /\ s.checked \in BOOLEAN
    BY <1>a, <1>1
  <1> HIDE DEF W, step, half
  <1>3. CASE s.checked /\ s.startX < s.endX
    <2>1. s.startX + step \in (0 - W)..W
      BY <1>1, <1>2, <1>3
    <2>2. updateValue(s) = [s EXCEPT !.startX = @ + step]
      BY <1>3 DEF updateValue, W, step
    <2> QED
      BY <2>1, <2>2 DEF Switches, Heading, W
  <1>4. CASE ~s.checked /\ s.startX > s.endX
    <2>1. s.startX - step \in (0 - W)..W
      BY <1>1, <1>2, <1>4
    <2>2. updateValue(s) = [s EXCEPT !.startX = @ - step]
      BY <1>4 DEF updateValue, W, step
    <2> QED
      BY <2>1, <2>2 DEF Switches, Heading, W
  <1>5. CASE ~(IF s.checked THEN s.startX < s.endX ELSE s.startX > s.endX)
    <2>1. s.endX \in (0 - W)..W
      BY <1>1, <1>2
    <2>2. updateValue(s) = [s EXCEPT !.startX = s.endX, !.sliding = FALSE]
      BY <1>5 DEF updateValue
    <2> QED
      BY <2>1, <2>2 DEF Switches, Heading, W
  <1> QED
    BY <1>3, <1>4, <1>5

\* The first tab is selected as it is added.
LEMMA NewNavigationLit ==
    NewNavigation \in Navigations /\ Lit(NewNavigation)
  <1>1. 0 \in Tabs
    BY ScreensConstants
  <1> DEFINE bare == [current |-> -1, clicked |-> {}, stacked |-> 0,
                      painted |-> FALSE]
             lit  == [current |-> 0, clicked |-> {0}, stacked |-> 0,
                      painted |-> FALSE]
  <1>a. bare.current = -1 /\ bare.clicked = {} /\ bare.stacked = 0
    OBVIOUS
  <1>b. (bare.clicked \ {bare.current}) \cup {0} = {0}
    BY <1>a
  <1>c. setCurrentIndex(bare, 0) = lit
    <2>1. setCurrentIndex(bare, 0) =
            [bare EXCEPT !.clicked = (@ \ {bare.current}) \cup {0}, !.current = 0]
      BY <1>a DEF setCurrentIndex
    <2> QED
      BY <2>1, <1>b
  <1>d. lit.current # bare.current /\ [lit EXCEPT !.stacked = 0] = lit
    BY <1>a
  <1>2. NewNavigation = lit
    <2> HIDE DEF lit
    <2>1. NewNavigation = showPage(bare, 0)
      BY DEF NewNavigation
    <2> HIDE DEF bare
    <2> QED
      BY <2>1, <1>c, <1>d DEF showPage
  <1> QED
    BY <1>1, <1>2 DEF Navigations, Lit

\* Wherever the bar is clicked, the item lit and the page shown move together.
LEMMA ShowPageLit ==
    ASSUME NEW n \in Navigations, Lit(n), NEW index \in Tabs \cup {-1}
    PROVE  showPage(n, index) \in Navigations /\ Lit(showPage(n, index))
  <1>1. CASE index = -1 \/ index = n.current
    BY <1>1 DEF showPage, setCurrentIndex
  <1>2. CASE index \in Tabs /\ index # -1 /\ index # n.current
    <2>1. showPage(n, index) =
            [n EXCEPT !.clicked = (@ \ {n.current}) \cup {index},
                      !.current = index, !.stacked = index]
      BY <1>2 DEF showPage, setCurrentIndex, Navigations
    <2>2. (n.clicked \ {n.current}) \cup {index} = {index}
      BY DEF Lit
    <2> QED
      BY <1>2, <2>1, <2>2 DEF Navigations, Lit
  <1> QED
    BY <1>1, <1>2

\* A click finds one of the tabs, or none.
LEMMA PositionIsTab ==
    ASSUME NEW x PROVE indexByPosition(x) \in Tabs \cup {-1}
  BY DEF indexByPosition

\* Whatever a box held before, after a module's turn its label is true of the
\* channel it then stands for.
LEMMA ShowValueTruthful ==
    ASSUME NEW box \in Boxes, NEW m \in UnitNums, NEW c \in Channels,
           NEW data \in Values, isOriginal \in BOOLEAN
    PROVE  /\ ShowValue(box, m, c, data) \in Boxes
           /\ Truthful(c, ShowValue(box, m, c, data))
  <1>0. m # 0 /\ m \in UnitNums \cup {0}
    BY ScreensConstants DEF UnitNums
  <1> DEFINE named == [box EXCEPT !.title = m]
             blank == [named EXCEPT !.value = -1, !.raw = FALSE]
             shown == [named EXCEPT !.value = data, !.raw = isOriginal]
  <1>1. /\ named \in Boxes /\ blank \in Boxes /\ shown \in Boxes
        /\ blank.title = m /\ shown.title = m
        /\ shown.value = data
    BY <1>0 DEF Boxes, Values
  <1> HIDE DEF blank, shown
  <1>2. CASE Blank(m, c, data)
    <2>1. ShowValue(box, m, c, data) = [blank EXCEPT !.visible = FALSE]
      BY <1>2 DEF ShowValue, setOn, blank
    <2> QED
      BY <1>1, <2>1 DEF Boxes, Truthful
  <1>3. CASE ~Blank(m, c, data)
    <2>1. /\ data \in {0, 1} /\ c \in DOMAIN Units[m]
          /\ Units[m][c] \in {"AC", "DC"}
      BY <1>3, ScreensConstants DEF Blank, Values
    <2>2. ShowValue(box, m, c, data) =
            setOn(shown, IF Units[m][c] = "DC" THEN -1 ELSE data)
      BY <1>3 DEF ShowValue, shown
    <2>3. CASE Units[m][c] = "DC"
      <3>1. ShowValue(box, m, c, data) = [shown EXCEPT !.visible = FALSE]
        BY <2>2, <2>3 DEF setOn
      <3> QED
        BY <1>1, <3>1 DEF Boxes, Truthful
    <2>4. CASE Units[m][c] = "AC" /\ data = 0
      <3>1. ShowValue(box, m, c, data) =
              [shown EXCEPT !.visible = FALSE, !.text = "off"]
        BY <2>2, <2>4 DEF setOn
      <3> QED
        BY <1>1, <3>1 DEF Boxes, Truthful
    <2>5. CASE Units[m][c] = "AC" /\ data = 1
      <3>1. ShowValue(box, m, c, data) =
              [shown EXCEPT !.visible = TRUE, !.text = "on"]
        BY <2>2, <2>5 DEF setOn
      <3>2. [shown EXCEPT !.visible = TRUE, !.text = "on"] \in Boxes
        BY <1>1 DEF Boxes
      <3>3. /\ ShowValue(box, m, c, data).title = m
            /\ ShowValue(box, m, c, data).value = 1
            /\ ShowValue(box, m, c, data).text = "on"
        BY <1>1, <2>5, <3>1 DEF Boxes
      <3> QED
        BY <1>0, <2>1, <2>5, <3>1, <3>2, <3>3 DEF Truthful
    <2> QED
      BY <2>1, <2>3, <2>4, <2>5
  <1> QED
    BY <1>2, <1>3

\* The program starts with an empty window and a new dialog.
LEMMA ScreensStart ==
    ASSUME ScreensInit PROVE ScreensInv
  <1>1. PadTypes
    <2>1. Len(Password) \in Nat
      BY ScreensConstants
    <2>2. mmm = << >>
      BY DEF ScreensInit
    <2>3. << >> \in Seq(Digits) /\ Len(<< >>) <= Len(Password) + 1
      BY <2>1
    <2> QED
      BY <2>2, <2>3 DEF ScreensInit, PadTypes
  <1>2. WindowInv
    <2>0. 1 \in UnitNums
      BY ScreensConstants DEF UnitNums
    <2>1. modeNum \in UnitNums
      BY <2>0 DEF ScreensInit
    <2>2. [title |-> 0, value |-> -1, raw |-> FALSE, visible |-> FALSE,
           text |-> ""] \in Boxes
      BY DEF Boxes, Values
    <2>3. \A c \in Channels : grid[c].visible = FALSE
      BY DEF ScreensInit
    <2> QED
      BY <2>1, <2>2, <2>3 DEF ScreensInit, WindowInv, Truthful
  <1>3. NavInv
    BY NewNavigationLit DEF ScreensInit, NavInv
  <1>4. SwitchInv
    BY NewSwitchFits DEF ScreensInit, SwitchInv
  <1> QED
    BY <1>1, <1>2, <1>3, <1>4 DEF ScreensInv

\* A turn of the main window.
LEMMA RefreshKeeps ==
    ASSUME ScreensInv, Refresh PROVE ScreensInv'
  <1>1. PICK data \in [Channels -> Values] :
          grid' = [c \in Channels |-> ShowValue(grid[c], modeNum, c, data[c])]
    BY DEF Refresh
  <1>2. \A c \in Channels : /\ ShowValue(grid[c], modeNum, c, data[c]) \in Boxes
                            /\ Truthful(c, ShowValue(grid[c], modeNum, c, data[c]))
    BY ShowValueTruthful DEF ScreensInv, WindowInv, PadTypes
  <1>3. modeNum' \in UnitNums
    BY ScreensConstants DEF ScreensInv, WindowInv, Refresh, UnitNums
  <1>4. grid' \in [Channels -> Boxes] /\ \A c \in Channels : Truthful(c, grid'[c])
    BY <1>1, <1>2
  <1>5. WindowInv'
    BY <1>3, <1>4 DEF WindowInv, Truthful
  <1> QED
    BY <1>5 DEF ScreensInv, PadTypes, NavInv, SwitchInv, Refresh

\* The buttons of the main window, and the number pad.
LEMMA OperatorKeeps ==
    ASSUME ScreensInv,
           \/ conversionData \/ switchFullScreen \/ startSet \/ enter \/ Home
           \/ \E d \in Digits : getOneNum(d)
    PROVE  ScreensInv'
  <1>1. WindowInv'
    BY DEF ScreensInv, WindowInv, Truthful, conversionData, switchFullScreen,
      startSet, enter, Home, getOneNum
  <1>2. PadTypes'
    <2>1. Len(Password) \in Nat
      BY ScreensConstants
    <2>2. << >> \in Seq(Digits) /\ Len(<< >>) <= Len(Password) + 1
      BY <2>1
    <2>3. CASE \E d \in Digits : getOneNum(d)
      BY <2>1, <2>3 DEF ScreensInv, PadTypes, getOneNum
    <2>4. CASE conversionData \/ switchFullScreen \/ startSet \/ enter \/ Home
      BY <2>2, <2>4 DEF ScreensInv, PadTypes, conversionData, switchFullScreen,
        startSet, enter, Home
    <2> QED
      BY <2>3, <2>4
  <1>3. nav' = nav \/ nav' = NewNavigation
    BY DEF conversionData, switchFullScreen, startSet, enter, Home, getOneNum
  <1>4. switch' = switch \/ switch' = NewSwitch
    BY DEF conversionData, switchFullScreen, startSet, enter, Home, getOneNum
  <1>5. NavInv'
    BY <1>3, NewNavigationLit DEF ScreensInv, NavInv
  <1>6. SwitchInv'
    BY <1>4, NewSwitchFits DEF ScreensInv, SwitchInv
  <1> QED
    BY <1>1, <1>2, <1>5, <1>6 DEF ScreensInv

\* The settings dialog's bar and switch.
LEMMA DialogKeeps ==
    ASSUME ScreensInv,
           \/ paintEvent \/ \E x \in ClickAt : mousePressEvent(x)
           \/ PressSwitch \/ onSearchDeviceFinished \/ SlideTimer
    PROVE  ScreensInv'
  <1>1. PadTypes' /\ WindowInv'
    BY DEF ScreensInv, PadTypes, WindowInv, Truthful, InSettings, paintEvent,
      mousePressEvent, PressSwitch, onSearchDeviceFinished, SlideTimer
  <1>2. \/ nav' = nav \/ nav' = [nav EXCEPT !.painted = TRUE]
        \/ \E x \in ClickAt : nav' = showPage(nav, indexByPosition(x))
    BY DEF InSettings, paintEvent, mousePressEvent, PressSwitch,
      onSearchDeviceFinished, SlideTimer
  <1>3. NavInv'
    <2>1. CASE nav' = [nav EXCEPT !.painted = TRUE]
      BY <2>1 DEF ScreensInv, NavInv, Navigations, Lit
    <2>2. CASE \E x \in ClickAt : nav' = showPage(nav, indexByPosition(x))
      BY <2>2, PositionIsTab, ShowPageLit DEF ScreensInv, NavInv
    <2> QED
      BY <1>2, <2>1, <2>2 DEF ScreensInv, NavInv
  <1>4. \/ switch' = switch \/ switch' = Pressed(switch)
        \/ \E checked \in BOOLEAN : switch' = setChecked(switch, checked)
        \/ switch.sliding /\ switch' = updateValue(switch)
    BY DEF InSettings, paintEvent, mousePressEvent, PressSwitch,
      onSearchDeviceFinished, SlideTimer
  <1>5. SwitchInv'
    BY <1>4, PressedFits, SetCheckedFits, UpdateFits DEF ScreensInv, SwitchInv
  <1> QED
    BY <1>1, <1>3, <1>5 DEF ScreensInv

\* Every step of the screens' half keeps its invariant.
LEMMA ScreensSteps ==
    ASSUME ScreensInv, ScreensNext PROVE ScreensInv'
  BY RefreshKeeps, OperatorKeeps, DialogKeeps DEF ScreensNext

\* The slider and the text of its state never share a half at rest.
LEMMA HalvesApart ==
    ASSUME ScreensInv PROVE RestShowsState
  <1> SUFFICES ASSUME ~switch.sliding, ~switch.overtaken
               PROVE  LET slider == drawSlider(switch)
                          text   == drawText(switch)
                      IN  slider.to <= text.from \/ text.to <= slider.from
    BY DEF RestShowsState
  <1>1. switch.startX = EndOf(switch.checked) /\ switch.checked \in BOOLEAN
    BY DEF ScreensInv, SwitchInv, Heading, Switches
  <1> DEFINE half == SwitchWidth \div 2
  <1>a. SwitchWidth \in Nat /\ half \in Nat /\ 2 * half <= SwitchWidth
    BY StepIsShort, ScreensConstants
  <1>2. CASE switch.checked = TRUE
    <2>1. drawSlider(switch).from = SwitchWidth - half
      BY <1>1, <1>2 DEF drawSlider, EndOf
    <2>2. drawText(switch).to = 0 + half
      BY <1>2 DEF drawText
    <2> QED
      BY <2>1, <2>2, <1>a
  <1>3. CASE switch.checked = FALSE
    <2>1. drawSlider(switch).to = 0 + half
      BY <1>1, <1>3 DEF drawSlider, EndOf
    <2>2. drawText(switch).from = half
      BY <1>3 DEF drawText
    <2> QED
      BY <2>1, <2>2, <1>a
  <1> QED
    BY <1>1, <1>2, <1>3

-----------------------------------------------------------------------------
(* The front as a whole                                                     *)

Inv == broken \in Breakages /\ BeeperInv /\ ScreensInv

\* Everything the beeper and the screens rely on, from the start and for ever.
THEOREM InvOK == Spec => []Inv
  <1>1. Init => Inv
    BY BeeperStarts, ScreensStart DEF Init, Inv, BeeperInit
  <1>2. Inv /\ [Next]_vars => Inv'
    <2> SUFFICES ASSUME Inv, [Next]_vars PROVE Inv'
      OBVIOUS
    <2>1. CASE OnBeeper(BeeperNext)
      <3>1. BeeperInv'
        BY <2>1, BeeperSteps DEF OnBeeper, Inv
      <3>2. broken' = broken
        BY <2>1 DEF OnBeeper, BeeperNext, RunStep, Flip, PollReturns, PollFails,
          ReadDoor, ReadPower, SwitchBeeper, HandleEvent, on_beep
      <3>3. ScreensInv'
        BY <2>1 DEF OnBeeper, Inv, ScreensInv, PadTypes, WindowInv, Truthful,
          NavInv, SwitchInv, screensVars
      <3> QED
        BY <3>1, <3>2, <3>3 DEF Inv
    <2>2. CASE OnScreens(ScreensNext)
      <3>1. ScreensInv'
        BY <2>2, ScreensSteps DEF OnScreens, Inv
      <3>2. broken' = broken /\ BeeperInv'
        BY <2>2 DEF OnScreens, Inv, BeeperInv, BeeperTypes, OnlyReadable,
          NoEdgeMissed, LastWord, Silent, Found, Readable, gpio_fd_open, Opened,
          beeperVars
      <3> QED
        BY <3>1, <3>2 DEF Inv
    <2>3. CASE OnReport(ReportNext) \/ UNCHANGED vars
      <3>1. UNCHANGED <<beeperVars, screensVars>>
        BY <2>3 DEF OnReport, vars
      <3> QED
        BY <3>1 DEF beeperVars, screensVars, Inv, BeeperInv, BeeperTypes,
          OnlyReadable, NoEdgeMissed, LastWord, Silent, Found, Readable,
          gpio_fd_open, Opened, ScreensInv, PadTypes, WindowInv, Truthful, NavInv,
          SwitchInv
    <2> QED
      BY <2>1, <2>2, <2>3 DEF Next
  <1> QED
    BY <1>1, <1>2, PTL DEF Spec

\* The report behaves as it does alone, whatever the other parts do.
THEOREM ReportIsKept == Spec => ReportSpec
  <1>1. Init => ReportInit
    BY DEF Init
  <1>2. [Next]_vars => [ReportNext]_reportVars
    <2> SUFFICES ASSUME [Next]_vars PROVE [ReportNext]_reportVars
      OBVIOUS
    <2>1. CASE OnReport(ReportNext)
      BY <2>1 DEF OnReport
    <2>2. CASE OnBeeper(BeeperNext) \/ OnScreens(ScreensNext) \/ UNCHANGED vars
      BY <2>2 DEF OnBeeper, OnScreens, vars
    <2> QED
      BY <2>1, <2>2 DEF Next
  <1> QED
    BY <1>1, <1>2, PTL DEF Spec, ReportSpec

\* The values every variable of the front can have: a slider never leaves its
\* switch, the pad never takes more than one digit too many.
THEOREM TypeCorrect == Spec => []TypeOK
  <1>1. Inv => BeeperTypeOK
    BY DEF Inv, BeeperInv, BeeperTypes, BeeperTypeOK
  <1>2. Inv => ScreensTypeOK
    <2> SUFFICES ASSUME Inv PROVE ScreensTypeOK
      OBVIOUS
    <2>a. SwitchWidth \in Nat
      BY ScreensConstants
    <2>b. switch \in Switches
      BY DEF Inv, ScreensInv, SwitchInv
    <2>c. switch.endX \in 0..SwitchWidth
      BY <2>a, <2>b, StepIsShort DEF Switches
    <2>d. switch.startX \in (0 - SwitchWidth)..SwitchWidth
      BY <2>b DEF Switches
    <2>1. switch \in [checked : BOOLEAN, startX : Int, endX : Int,
                      sliding : BOOLEAN, overtaken : BOOLEAN]
      BY <2>a, <2>b, <2>c, <2>d DEF Switches
    <2>2. {switch.startX, switch.endX} \subseteq (0 - SwitchWidth)..SwitchWidth
      BY <2>a, <2>c, <2>d
    <2> QED
      BY <2>1, <2>2 DEF Inv, ScreensInv, PadTypes, WindowInv, Boxes, NavInv,
        Navigations, ScreensTypeOK
  <1>3. Inv /\ ReportTypeOK => TypeOK
    BY <1>1, <1>2 DEF TypeOK
  <1> QED
    BY <1>3, InvOK, ReportIsKept, ReportTypeCorrect, PTL

\* When the thread waits with no edge pending and no signal is on its way, the
\* beeper runs exactly while a readable input is at its alarm level.
THEOREM BeeperFollows == Spec => []BeeperFollowsInputs
  <1>1. Inv => BeeperFollowsInputs
    BY BeeperAtRest DEF Inv
  <1> QED
    BY <1>1, InvOK, PTL

\* No label of the main window is left over from another module's turn.
THEOREM LabelsTrue == Spec => []LabelNeverLies
  <1>1. Inv => LabelNeverLies
    BY DEF Inv, ScreensInv, WindowInv, Truthful, LabelNeverLies
  <1> QED
    BY <1>1, InvOK, PTL

\* However the bar is painted and clicked, the lit tab is the page shown.
THEOREM TabsMatchPages == Spec => []OneTabLit
  <1>1. Inv => OneTabLit
    BY DEF Inv, ScreensInv, NavInv, Lit, OneTabLit
  <1> QED
    BY <1>1, InvOK, PTL

\* A slider that no search has overtaken comes to rest beside its text.
THEOREM SliderRests == Spec => []RestShowsState
  <1>1. Inv => RestShowsState
    BY HalvesApart DEF Inv
  <1> QED
    BY <1>1, InvOK, PTL

-----------------------------------------------------------------------------
(* What the liveness of the beeper rests on, but for scheduling             *)

\* Beeps of one kind that stay silent before the next one sounds.
BeepsLeft(k) == (IF k = "DOOR" THEN 4 ELSE 6) - num

\* As long as only one kind of alarm was beeped for, its rhythm has not been
\* overrun.
Counting == \A k \in Inputs : kinds \subseteq {k} => BeepsLeft(k) \in 0..6

\* A beep for an alarm sounds or brings the next sound nearer.
ComesNearer ==
    \A k \in Inputs :
        (kinds' = {k} /\ <<"Beeper", "value">> \notin broken) =>
            IF on_beep /\ type # "NON"
            THEN pin' = 1 \/ BeepsLeft(k)' < BeepsLeft(k)
            ELSE BeepsLeft(k)' = BeepsLeft(k)

\* Only a beep for an alarm touches the count.
LEMMA CountIsOnBeeps ==
    ASSUME Next, ~(on_beep /\ type # "NON")
    PROVE  num' = num /\ kinds' = kinds
  <1>1. CASE OnScreens(ScreensNext) \/ OnReport(ReportNext)
    BY <1>1 DEF OnScreens, OnReport, beeperVars
  <1>2. CASE on_beep
    <2>1. type = "NON"
      BY <1>2
    <2> QED
      BY <1>2, <2>1 DEF on_beep, Counted
  <1>3. CASE OnBeeper(BeeperNext) /\ ~on_beep
    BY <1>3 DEF OnBeeper, BeeperNext, RunStep, Flip, PollReturns, PollFails,
      ReadDoor, ReadPower, SwitchBeeper, HandleEvent
  <1> QED
    BY <1>1, <1>2, <1>3 DEF Next

\* The count meets the end of its rhythm as long as the rhythm is one.
LEMMA CountStep ==
    ASSUME Inv, Counting, [Next]_vars
    PROVE  Counting' /\ (ComesNearer \/ UNCHANGED vars)
  <1>0. num \in Nat /\ type \in Inputs \cup {"NON"} /\ kinds \subseteq Inputs
    BY DEF Inv, BeeperInv, BeeperTypes
  <1>1. CASE on_beep /\ type # "NON"
    <2>1. kinds' = kinds \cup {type} /\ num' = Counted
      BY <1>1 DEF on_beep
    <2>2. ASSUME NEW k \in Inputs, kinds' \subseteq {k}
          PROVE  /\ BeepsLeft(k)' \in 0..6
                 /\ num' = 0 \/ BeepsLeft(k)' < BeepsLeft(k)
      <3>1. type = k /\ kinds \subseteq {k}
        BY <1>1, <2>1, <2>2
      <3>2. BeepsLeft(k) \in 0..6
        BY <3>1 DEF Counting
      <3>3. CASE BeepsLeft(k) = 0
        <4>1. num = IF type = "DOOR" THEN 4 ELSE 6
          BY <1>0, <3>1, <3>3 DEF BeepsLeft
        <4>2. num' = 0
          BY <1>1, <2>1, <4>1 DEF Counted
        <4> QED
          BY <4>2 DEF BeepsLeft
      <3>4. CASE BeepsLeft(k) # 0
        <4>1. num # (IF type = "DOOR" THEN 4 ELSE 6) /\ num < 7
          BY <1>0, <3>1, <3>2, <3>4 DEF BeepsLeft
        <4>2. num' = num + 1
          BY <1>1, <2>1, <4>1, BeeperConstants DEF Counted
        <4> QED
          BY <1>0, <3>2, <3>4, <4>2 DEF BeepsLeft
      <3> QED
        BY <3>3, <3>4
    <2>3. ASSUME num' = 0, <<"Beeper", "value">> \notin broken PROVE pin' = 1
      BY <1>1, <2>3 DEF on_beep, gpio_set_value, Opened
    <2> QED
      BY <1>1, <2>2, <2>3 DEF Counting, ComesNearer
  <1>2. CASE Next /\ ~(on_beep /\ type # "NON")
    <2>1. num' = num /\ kinds' = kinds
      BY <1>2, CountIsOnBeeps
    <2> QED
      BY <1>2, <2>1 DEF Counting, ComesNearer, BeepsLeft
  <1>3. CASE UNCHANGED vars
    BY <1>3 DEF vars, beeperVars, Counting, BeepsLeft
  <1> QED
    BY <1>1, <1>2, <1>3

\* What remains of OneKindSounds when scheduling is taken away: while all beeps
\* were for one kind of alarm the count lies within that alarm's rhythm, every
\* beep either sounds or has fewer silent beeps before the next sound than the
\* one before it, and nothing else moves the count.  Of any seven beeps for an
\* alarm at least one therefore sounds, however edges, signals and broken files
\* come between them.
THEOREM BeepComesRound ==
    Spec => []Counting /\ [][ComesNearer]_vars
  <1>1. Init => Counting
    <2>1. Init => num = 0
      BY DEF Init, BeeperInit
    <2> QED
      BY <2>1 DEF Counting, BeepsLeft
  <1>2. Inv /\ Counting /\ [Next]_vars => Counting' /\ [ComesNearer]_vars
    BY CountStep
  <1> QED
    BY <1>1, <1>2, InvOK, PTL DEF Spec
=============================================================================
