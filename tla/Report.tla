------------------------------- MODULE Report -------------------------------
(***************************************************************************)
(* The report of a channel's downtime: DataOperator::createReport, which   *)
(* notes in a file per channel when the channel went on or off, and        *)
(* Print::on_btnPrint, which adds up the time it was off.                  *)
(*                                                                         *)
(* Time is counted in ticks from the midnight before the program was first *)
(* started; the clock is taken not to be set back.  `seen' is history: the *)
(* state every channel was last sampled in, at every tick so far.          *)
(***************************************************************************)
EXTENDS Integers, Sequences, FiniteSets, SequencesExt

CONSTANTS
    Modules,            \* enterprise.Modules: a sequence of [Id, zigBeeId,
                        \* Channels], a channel being [Id, ACOrDC, OutputValueMax]
    Levels,             \* values a channel can have in a payload, -1: absent
    SamplingFrequency,  \* of the configuration, in ticks
    Day, Days           \* bounds: ticks of a day, days

Index      == 1..Len(Modules)
LastTick   == Day * Days - 1
Ticks      == 0..LastTick

-----------------------------------------------------------------------------
(* The configuration's look-ups                                            *)

\* The first module with this Id or this ZigBee address, 0 for none.
getModeNumByDevid(devid) ==
    LET hits == {i \in Index : devid \in {Modules[i].Id, Modules[i].zigBeeId}}
    IN  IF hits = {} THEN 0 ELSE CHOOSE i \in hits : \A j \in hits : i <= j

getIndexByChannelId(m, id) ==
    LET hits == {k \in 1..Len(m.Channels) : m.Channels[k].Id = id}
    IN  IF hits = {} THEN 0 ELSE CHOOSE k \in hits : \A l \in hits : k <= l

\* The payload's keys: module and channel by their Ids.
Keys == UNION {{<<Modules[i].Id, Modules[i].Channels[k].Id>> :
                  k \in 1..Len(Modules[i].Channels)} : i \in Index}

\* Where createReport looks a key up.
Place(key) ==
    LET i == getModeNumByDevid(key[1])
    IN  <<i, getIndexByChannelId(Modules[i], key[2])>>
ChannelOf(key) == Modules[Place(key)[1]].Channels[Place(key)[2]]
AcKeys == {key \in Keys : ChannelOf(key).ACOrDC # "DC"}

\* Ids are unique, and no ZigBee address is another module's Id: then a key
\* finds its own place, and the order of a payload's channels is immaterial.
ASSUME ReportConstants ==
    /\ {SamplingFrequency, Day, Days} \subseteq Nat \ {0}
    /\ SamplingFrequency < Day
    /\ Levels \subseteq Int
    /\ Len(Modules) \in Nat
    /\ \A i \in Index : Len(Modules[i].Channels) \in Nat
    /\ \A i \in Index : getModeNumByDevid(Modules[i].Id) = i
    /\ \A i \in Index : IsInjective([k \in 1..Len(Modules[i].Channels) |->
                                       Modules[i].Channels[k].Id])

-----------------------------------------------------------------------------
VARIABLES
    now,       \* the clock
    due,       \* a sampling round has not yet ended at this tick
    served,    \* modules timerEvent has operators for, fixed at start-up
    first,     \* the static of createReport
    staArray,  \* per place the state of the channel
    file,      \* per key its file: records [at, on, legible]
    seen       \* history: per key and tick the state last sampled

reportVars == <<now, due, served, first, staArray, file, seen>>

States == {"on", "off", "unknown"}

ReportTypeOK ==
    /\ now \in Ticks /\ due \in BOOLEAN /\ served \in 0..Len(Modules)
    /\ first \in BOOLEAN
    /\ staArray \in [{Place(key) : key \in Keys} -> BOOLEAN]
    /\ \A key \in Keys : \A n \in DOMAIN file[key] :
          file[key][n] \in [at : 0..now, on : BOOLEAN, legible : BOOLEAN]
    /\ seen \in [Keys -> [Ticks -> States]]

AllOff      == [place \in {Place(key) : key \in Keys} |-> FALSE]
NoLines     == [key \in Keys |-> << >>]
NothingSeen == [key \in Keys |-> [t \in Ticks |-> "unknown"]]

\* The modules before the first one whose port did not open are served.
ReportInit ==
    /\ now = 0 /\ due = TRUE
    /\ served \in 0..Len(Modules)
    /\ first = TRUE
    /\ staArray = AllOff
    /\ file = NoLines
    /\ seen = NothingSeen

-----------------------------------------------------------------------------
(* createReport                                                            *)

IsOn(key, value) == 20 * value >= ChannelOf(key).OutputValueMax

\* Midnight is written in another format, which nothing can read back.
Change(on)   == [at |-> now, on |-> on, legible |-> TRUE]
Midnight(on) == [at |-> now - (now % Day), on |-> on, legible |-> FALSE]

InMidnightWindow == now % Day < SamplingFrequency

\* Seeded fault of Written: nothing is noted on the first payload of a run.
WrittenOnChange(key, on) ==
    LET noted == IF staArray[Place(key)] # on
                 THEN Append(file[key], Change(on)) ELSE file[key]
    IN  IF InMidnightWindow THEN <<Midnight(on)>> ELSE noted

\* A change, or the first payload of a run, is appended; soon after midnight
\* the file is cut to the state at midnight.
Written(key, on) ==
    LET noted == IF staArray[Place(key)] # on \/ first
                 THEN Append(file[key], Change(on)) ELSE file[key]
    IN  IF InMidnightWindow THEN <<Midnight(on)>> ELSE noted

createReport(payload) ==
    LET told   == DOMAIN payload \cap AcKeys
        on(key) == IsOn(key, payload[key])
    IN  /\ file' = [key \in Keys |->
              IF key \in told THEN Written(key, on(key)) ELSE file[key]]
        /\ staArray' = [place \in DOMAIN staArray |->
              IF \E key \in told : Place(key) = place
              THEN on(CHOOSE key \in told : Place(key) = place)
              ELSE staArray[place]]
        /\ first' = (first /\ DOMAIN payload = {})
        /\ seen' = [key \in Keys |-> IF key \in told
              THEN [seen[key] EXCEPT ![now] = IF on(key) THEN "on" ELSE "off"]
              ELSE seen[key]]

\* The end of a sampling round: the payload names every channel of the modules
\* that are served, whether it could be read or not.
Sample ==
    /\ due /\ due' = FALSE
    /\ \E payload \in [{key \in Keys : Place(key)[1] <= served} -> Levels] :
          createReport(payload)
    /\ UNCHANGED <<now, served>>

\* Rounds come once a tick at most; a slow or a stopped one leaves ticks out.
Tick ==
    /\ now < LastTick
    /\ now' = now + 1
    /\ due' = TRUE
    /\ seen' = [key \in Keys |-> [seen[key] EXCEPT ![now + 1] = seen[key][now]]]
    /\ UNCHANGED <<served, first, staArray, file>>

\* transmitCfg in a new process; files stay.
Restart ==
    /\ served' \in 0..Len(Modules)
    /\ first' = TRUE
    /\ staArray' = [place \in DOMAIN staArray |-> FALSE]
    /\ UNCHANGED <<now, due, file, seen>>

ReportNext == Sample \/ Tick \/ Restart

ReportSpec == ReportInit /\ [][ReportNext]_reportVars

-----------------------------------------------------------------------------
(* on_btnPrint for the days d1 to d2                                       *)

\* Seeded fault of ReadLine: lines before the range are counted as well.
ReadLineEarly(r, item, startDate, endDate) ==
    LET changed == item.on # r.chanelState
    IN  IF r.done \/ item.at > endDate \/ ~item.legible THEN r
        ELSE [r EXCEPT !.isGoOn = FALSE, !.chanelState = item.on,
                 !.closeTime = IF changed /\ ~item.on THEN item.at ELSE @,
                 !.allTime = IF changed /\ item.on
                             THEN @ + (item.at - r.closeTime) ELSE @]

\* One line of the file; a date that could not be parsed precedes all others.
ReadLine(r, item, startDate, endDate) ==
    LET inRange == item.legible /\ startDate <= item.at /\ item.at <= endDate
        changed == item.on # r.chanelState
    IN  CASE r.done -> r
          [] ~r.done /\ ~inRange -> [r EXCEPT !.done = ~r.isGoOn]
          [] OTHER ->
               [r EXCEPT
                  !.isGoOn = FALSE,
                  !.chanelState = item.on,
                  !.closeTime = IF changed /\ ~item.on THEN item.at ELSE @,
                  !.allTime = IF changed /\ item.on
                              THEN @ + (item.at - r.closeTime) ELSE @]

\* What is known after the last line; `read' after each of them.
ReadLines(lines, startDate, endDate) ==
    LET begin == [done |-> FALSE, isGoOn |-> TRUE, chanelState |-> TRUE,
                  closeTime |-> 0, allTime |-> 0]
        read[n \in 0..Len(lines)] ==
          IF n = 0 THEN begin
          ELSE ReadLine(read[n - 1], lines[n], startDate, endDate)
    IN  read[Len(lines)]

\* The downtime printed for a channel; a range that ends before it starts is
\* remarked upon and read all the same.
on_btnPrint(key, d1, d2) ==
    LET endDate == d2 * Day + Day - 1
        last    == ReadLines(file[key], d1 * Day, endDate)
    IN  last.allTime + (IF last.chanelState THEN 0 ELSE endDate - last.closeTime)

-----------------------------------------------------------------------------
(* Properties                                                              *)

\* What the samples say; a state lasts until the next sample, and the state of
\* now until the end, as in the report.
IsOff(key, t) == seen[key][IF t <= now THEN t ELSE now] = "off"

\* No report claims more downtime than was sampled, whatever was cut at
\* midnight, lost by a restart or asked for out of order.
NeverOvercounts ==
    \A key \in AcKeys : \A d1, d2 \in 0..(Days - 1) :
        on_btnPrint(key, d1, d2)
          <= Cardinality({t \in (d1 * Day)..(d2 * Day + Day - 1) : IsOff(key, t)})

\* Today's report accounts for every stop that was first sampled today after
\* the midnight window, until the channel went on again or the day ends; the
\* program may have been restarted between.
StopsOf(key, d) ==
    {t \in (d * Day)..(d * Day + Day - 2) :
        /\ IsOff(key, t)
        /\ \E s \in (d * Day + SamplingFrequency)..t :
              ~IsOff(key, s - 1) /\ \A u \in s..t : IsOff(key, u)}
TodayIsAccounted ==
    LET today == now \div Day
    IN  \A key \in AcKeys :
            on_btnPrint(key, today, today) >= Cardinality(StopsOf(key, today))

\* print.cpp: "if the last state is off, the remaining time is added".  The
\* code does not: the record of midnight cannot be read back, and a channel
\* that was off all day is reported without downtime.
LastOffIsAdded ==
    \A key \in AcKeys :
        (file[key] # << >> /\ ~Last(file[key]).on)
          => LET today == Last(file[key]).at \div Day
             IN  on_btnPrint(key, today, today) > 0
=============================================================================
