------------------------------ MODULE Screens ------------------------------
(***************************************************************************)
(* What the operator sees: the main window with its round of modules, the  *)
(* number pad in front of the settings, the settings dialog with its       *)
(* navigation bar (DMSNavigation) and one of the sliding switches of its   *)
(* first page (SwitchButton).                                              *)
(*                                                                         *)
(* The dialogs run event loops of their own inside startSet, so that       *)
(* timers go on behind them; `screen' tells which loop is innermost.       *)
(***************************************************************************)
EXTENDS Integers, Sequences

CONSTANTS
    Units,        \* enterprise.Modules: each a function from the channels
                  \* it has to "AC" or "DC"
    Channels,     \* 1..CHANNELSIZE
    Password,     \* of the number pad, a sequence of digits
    Digits,
    TitleWidth,   \* of the tabs' titles in pixels, by index from 0
    BarWidth,     \* of the navigation bar
    ClickAt,      \* where the bar may be clicked
    SwitchWidth,  \* width of a SwitchButton
    Strides       \* it moves by SwitchWidth \div Strides; 50 in the code

UnitNums == 1..Len(Units)
Tabs    == DOMAIN TitleWidth

ASSUME ScreensConstants ==
    /\ Len(Units) \in Nat \ {0}
    /\ \A m \in UnitNums : /\ DOMAIN Units[m] \subseteq Channels
                           /\ \A c \in DOMAIN Units[m] : Units[m][c] \in {"AC", "DC"}
    /\ Password \in Seq(Digits)
    /\ {BarWidth, SwitchWidth} \subseteq Nat \ {0}
    /\ Strides \in Nat /\ Strides > 1
    /\ Tabs = 0..3 /\ \A i \in Tabs : TitleWidth[i] \in Nat

VARIABLES
    screen,      \* "main", "numpad" or "settings"
    mmm,         \* the digits typed into the number pad
    running,     \* Helper::timerId # -1
    modeNum,     \* the module the main window shows next
    isOriginal, isFull,  \* members of MainWindow
    grid,        \* per channel its ShowNum: title, value, onoff label
    nav,         \* navigation bar: current index, items clicked, the stacked
                 \* page, and whether the bar has been painted
    switch       \* the SwitchButton: checked, startX, endX, sliding
                 \* (timer active), and history: set while it was sliding

screensVars == <<screen, mmm, running, modeNum, isOriginal, isFull, grid, nav, switch>>

\* A value of a channel: absent, below 5% of the output range, or not.
Values == {-1, 0, 1}

ScreensTypeOK ==
    /\ screen \in {"main", "numpad", "settings"}
    /\ mmm \in Seq(Digits) /\ Len(mmm) <= Len(Password) + 1
    /\ {running, isOriginal, isFull} \subseteq BOOLEAN
    /\ modeNum \in UnitNums
    /\ grid \in [Channels -> [title : UnitNums \cup {0}, value : Values, raw : BOOLEAN,
                              visible : BOOLEAN, text : {"", "on", "off"}]]
    /\ nav \in [current : Tabs \cup {-1}, clicked : SUBSET Tabs,
                stacked : Tabs, painted : BOOLEAN]
    /\ switch \in [checked : BOOLEAN, startX : Int, endX : Int,
                   sliding : BOOLEAN, overtaken : BOOLEAN]
    /\ {switch.startX, switch.endX} \subseteq (0 - SwitchWidth)..SwitchWidth

-----------------------------------------------------------------------------
(* The switch                                                              *)

NewSwitch == [checked |-> FALSE, startX |-> 0, endX |-> 0, sliding |-> FALSE,
              overtaken |-> FALSE]

\* Where the slider belongs, in the rectangular style the program uses.
EndOf(checked) == IF checked THEN SwitchWidth - SwitchWidth \div 2 ELSE 0

\* Seeded fault of Pressed: the end is computed before the state is toggled.
PressedEarly(s) ==
    [s EXCEPT !.checked = ~@, !.endX = EndOf(s.checked), !.sliding = TRUE,
              !.overtaken = FALSE]

Pressed(s) ==
    [s EXCEPT !.checked = ~@, !.endX = EndOf(~s.checked), !.sliding = TRUE,
              !.overtaken = FALSE]

\* setChecked puts the slider into place by a resizeEvent; it leaves endX and
\* a slide that is under way alone.
setChecked(s, checked) ==
    [s EXCEPT !.checked = checked, !.startX = EndOf(checked),
              !.overtaken = @ \/ s.sliding]

\* Seeded fault of updateValue: the end of the way is not looked at.
updateValueOvershoots(s) ==
    [s EXCEPT !.startX = IF s.checked THEN @ + SwitchWidth \div Strides
                         ELSE @ - SwitchWidth \div Strides]

updateValue(s) ==
    LET onTheWay == IF s.checked THEN s.startX < s.endX ELSE s.startX > s.endX
        step     == SwitchWidth \div Strides
    IN  IF onTheWay
        THEN [s EXCEPT !.startX = IF s.checked THEN @ + step ELSE @ - step]
        ELSE [s EXCEPT !.startX = s.endX, !.sliding = FALSE]

\* What is painted, in pixels from the left: the slider covers one half, the
\* text of the state stands in the other one; the margins are left out.
drawSlider(s) == [from |-> s.startX, to |-> s.startX + SwitchWidth \div 2]
drawText(s) ==
    LET from == IF s.checked THEN 0 ELSE SwitchWidth \div 2
    IN  [from |-> from, to |-> from + SwitchWidth \div 2]

-----------------------------------------------------------------------------
(* The navigation bar                                                      *)

Least(a, b)    == IF a < b THEN a ELSE b
Greatest(a, b) == IF a > b THEN a ELSE b

\* An item's width, given the pixels taken up to it; 16 pixels of margin on
\* either side, 72 at least, 152 at most.
navigationItemWidth(i, reserved) ==
    Least(Least(152, Greatest(72, TitleWidth[i] + 32)), BarWidth - reserved)

\* Left edges as paintEvent draws the items, aligned left: each gets 50 pixels
\* more than its width.
LeftEdge[i \in 0..4] ==
    IF i = 0 THEN 0
    ELSE LeftEdge[i - 1] + navigationItemWidth(i - 1, LeftEdge[i - 1]) + 50

\* The item drawn at a point, -1 for none or before the first painting.
indexByPosition(x) ==
    LET hits == {i \in Tabs : LeftEdge[i] <= x /\ x < LeftEdge[i + 1]}
    IN  IF nav.painted /\ hits # {} THEN CHOOSE i \in hits : TRUE ELSE -1

\* Seeded fault of setCurrentIndex: the former item stays lit.
setCurrentIndexLit(n, index) ==
    IF index = -1 \/ index = n.current THEN n
    ELSE [n EXCEPT !.clicked = @ \cup {index}, !.current = index]

\* The bar's part: the item lit.
setCurrentIndex(n, index) ==
    IF index = -1 \/ index = n.current THEN n
    ELSE [n EXCEPT !.clicked = (@ \ {n.current}) \cup {index}, !.current = index]

\* The dialog's part: the page shown follows when the bar's index has changed.
showPage(n, index) ==
    LET lit == setCurrentIndex(n, index)
    IN  IF lit.current # n.current THEN [lit EXCEPT !.stacked = index] ELSE lit

\* The dialog's tabs; the first one is selected as it is added.
NewNavigation ==
    showPage([current |-> -1, clicked |-> {}, stacked |-> 0,
              painted |-> FALSE], 0)

-----------------------------------------------------------------------------
(* The main window                                                         *)

\* A module shows nothing for a value of -1 and for a channel it does not have.
Blank(m, c, data) == c \notin DOMAIN Units[m] \/ data = -1

\* Seeded fault of setOn: the label stays where the channel has none.
setOnSticky(box, st) ==
    CASE st = 1  -> [box EXCEPT !.visible = TRUE, !.text = "on"]
      [] st = 0  -> [box EXCEPT !.visible = FALSE, !.text = "off"]
      [] st = -1 -> box

\* ShowNum::setOn: the label of a channel that is off falls through to hide().
setOn(box, st) ==
    CASE st = 1  -> [box EXCEPT !.visible = TRUE, !.text = "on"]
      [] st = 0  -> [box EXCEPT !.visible = FALSE, !.text = "off"]
      [] st = -1 -> [box EXCEPT !.visible = FALSE]

ShowValue(box, m, c, data) ==
    LET named == [box EXCEPT !.title = m]
    IN  IF Blank(m, c, data) THEN setOn([named EXCEPT !.value = -1, !.raw = FALSE], -1)
        ELSE setOn([named EXCEPT !.value = data, !.raw = isOriginal],
                   IF Units[m][c] = "DC" THEN -1
                   ELSE data)

\* MainWindow::timerEvent: one module's values at a time, and the next module
\* the next time.
Refresh ==
    /\ \E data \in [Channels -> Values] :
          grid' = [c \in Channels |-> ShowValue(grid[c], modeNum, c, data[c])]
    /\ modeNum' = IF modeNum = Len(Units) THEN 1 ELSE modeNum + 1
    /\ UNCHANGED <<screen, mmm, running, isOriginal, isFull, nav, switch>>

conversionData ==
    /\ screen = "main"
    /\ isOriginal' = ~isOriginal
    /\ UNCHANGED <<screen, mmm, running, modeNum, isFull, grid, nav, switch>>

\* The bottom frame, with the settings button, is shown while isFull.
switchFullScreen ==
    /\ screen = "main"
    /\ isFull' = ~isFull
    /\ UNCHANGED <<screen, mmm, running, modeNum, isOriginal, grid, nav, switch>>

\* The settings button opens the number pad.
startSet ==
    /\ screen = "main" /\ isFull
    /\ screen' = "numpad" /\ mmm' = << >>
    /\ UNCHANGED <<running, modeNum, isOriginal, isFull, grid, nav, switch>>

getOneNum(d) ==
    /\ screen = "numpad" /\ Len(mmm) <= Len(Password)
    /\ mmm' = Append(mmm, d)
    /\ UNCHANGED <<screen, running, modeNum, isOriginal, isFull, grid, nav, switch>>

\* The first of enter's two calls of done closes the pad, the second one
\* decides what startSet finds: the settings, with the sampling stopped.
enter ==
    /\ screen = "numpad"
    /\ mmm' = << >>
    /\ IF mmm = Password
       THEN /\ screen' = "settings" /\ running' = FALSE
            /\ nav' = NewNavigation /\ switch' = NewSwitch
       ELSE screen' = "main" /\ UNCHANGED <<running, nav, switch>>
    /\ UNCHANGED <<modeNum, isOriginal, isFull, grid>>

\* Home: the rest of startSet; gotoRun may find a port that does not open.
Home ==
    /\ screen = "settings"
    /\ screen' = "main"
    /\ running' \in BOOLEAN
    /\ nav' = NewNavigation /\ switch' = NewSwitch
    /\ UNCHANGED <<mmm, modeNum, isOriginal, isFull, grid>>

-----------------------------------------------------------------------------
(* The settings dialog                                                     *)

InSettings(act) ==
    /\ screen = "settings" /\ act
    /\ UNCHANGED <<screen, mmm, running, modeNum, isOriginal, isFull, grid>>

paintEvent ==
    InSettings(nav' = [nav EXCEPT !.painted = TRUE] /\ UNCHANGED switch)

mousePressEvent(x) ==
    InSettings(nav' = showPage(nav, indexByPosition(x)) /\ UNCHANGED switch)

PressSwitch ==
    InSettings(nav.stacked = 0 /\ switch' = Pressed(switch) /\ UNCHANGED nav)

\* The end of a search sets every switch to what the module says.
onSearchDeviceFinished ==
    InSettings(/\ nav.stacked = 0
               /\ \E checked \in BOOLEAN : switch' = setChecked(switch, checked)
               /\ UNCHANGED nav)

SlideTimer ==
    InSettings(switch.sliding /\ switch' = updateValue(switch) /\ UNCHANGED nav)

-----------------------------------------------------------------------------
ScreensInit ==
    /\ screen = "main" /\ mmm = << >>
    /\ running \in BOOLEAN
    /\ modeNum = 1
    /\ isOriginal = FALSE /\ isFull = FALSE
    /\ grid = [c \in Channels |-> [title |-> 0, value |-> -1, raw |-> FALSE,
                           visible |-> FALSE, text |-> ""]]
    /\ nav = NewNavigation /\ switch = NewSwitch

ScreensNext ==
    \/ Refresh \/ conversionData \/ switchFullScreen
    \/ startSet \/ enter \/ Home \/ \E d \in Digits : getOneNum(d)
    \/ paintEvent \/ \E x \in ClickAt : mousePressEvent(x)
    \/ PressSwitch \/ onSearchDeviceFinished \/ SlideTimer

-----------------------------------------------------------------------------
(* Properties                                                              *)

\* A label that can be seen tells the truth about the channel whose title and
\* value it stands beside, though boxes are reused for one module after the
\* other and a label is changed only in part.
LabelNeverLies ==
    \A c \in Channels : LET box == grid[c] IN
        box.visible => /\ box.title # 0 /\ c \in DOMAIN Units[box.title]
                       /\ Units[box.title][c] = "AC"
                       /\ \/ box.value = 1 /\ box.text = "on"
                          \/ box.value = 0 /\ box.text = "off"

\* The lit item of the bar is the page that is shown.
OneTabLit == nav.clicked = {nav.stacked} /\ nav.current = nav.stacked

\* A slider at rest leaves the text of its state free, unless a search ended
\* while it was sliding: then it may come to rest on top of it.
RestShowsState ==
    (~switch.sliding /\ ~switch.overtaken) =>
        LET slider == drawSlider(switch)
            text   == drawText(switch)
        IN  slider.to <= text.from \/ text.to <= slider.from

-----------------------------------------------------------------------------
(* What the comments promise and the code does not keep                     *)

\* shownum.cpp: "st 1=on 0=off -1=hidden".  The box of an AC channel that is
\* off has a label that says so.
OffLabelShown ==
    \A c \in Channels : LET box == grid[c] IN
        (box.title # 0 /\ box.value = 0 /\ Units[box.title][c] = "AC")
          => box.visible /\ box.text = "off"
=============================================================================
