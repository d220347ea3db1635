------------------------------- MODULE Panel -------------------------------
(***************************************************************************)
(* What people at the gateway get of it: the beeper of the alarm inputs,    *)
(* the screens, and the printed report.  The three parts share neither      *)
(* state nor signals, so that interleaving them adds nothing; each is       *)
(* explored while the others are as they were when the program started.     *)
(***************************************************************************)
EXTENDS Beeper, Screens, Report

vars == <<beeperVars, screensVars, reportVars>>

TypeOK == BeeperTypeOK /\ ScreensTypeOK /\ ReportTypeOK

\* As after a start with every file and port in order, no input at its alarm
\* level and the sampling stopped.
BeeperAsStarted  == BeeperInit /\ broken = {} /\ \A i \in Inputs : ~level[i]
ScreensAsStarted == ScreensInit /\ ~running
ReportAsStarted  == ReportInit /\ served = Len(Modules)

Init ==
    /\ BeeperInit /\ ScreensInit /\ ReportInit
    /\ \/ ScreensAsStarted /\ ReportAsStarted
       \/ BeeperAsStarted /\ ReportAsStarted
       \/ BeeperAsStarted /\ ScreensAsStarted

OnBeeper(act) ==
    ScreensAsStarted /\ ReportAsStarted /\ act /\ UNCHANGED <<screensVars, reportVars>>
OnScreens(act) ==
    BeeperAsStarted /\ ReportAsStarted /\ act /\ UNCHANGED <<beeperVars, reportVars>>
OnReport(act) ==
    BeeperAsStarted /\ ScreensAsStarted /\ act /\ UNCHANGED <<beeperVars, screensVars>>

Next == OnBeeper(BeeperNext) \/ OnScreens(ScreensNext) \/ OnReport(ReportNext)

\* The thread and the beep timer are scheduled, and the event loop takes what
\* is queued; inputs and the operator owe nothing.
Fairness ==
    /\ WF_vars(OnBeeper(RunStep))
    /\ WF_vars(OnBeeper(HandleEvent))
    /\ WF_vars(OnBeeper(on_beep))

Spec == Init /\ [][Next]_vars /\ Fairness
=============================================================================
