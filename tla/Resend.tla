------------------------------- MODULE Resend -------------------------------
(***************************************************************************)
(* Store and forward: every message is written to localData, a message     *)
(* that finds the gateway offline is copied to pendingData, and after the  *)
(* next connect the DataOperator thread pushes the pending files again.    *)
(*                                                                         *)
(* Two threads share the flag isOn, the flag isOnline and the directory    *)
(* pendingData without a lock:                                             *)
(*   main    the GUI thread: samples, notifications, the link's slots and  *)
(*           the queued needPush events, one slot at a time; only save     *)
(*           yields to the other thread between its file operations        *)
(*   worker  DataOperator::run                                             *)
(* The link is LinkContract, which MqttLink implements.                    *)
(***************************************************************************)
EXTENDS LinkContract, Naturals, Sequences, FiniteSets

CONSTANTS
    MaxMsgs,       \* bound: messages produced in a behaviour
    NotifyMsgs,    \* those of them that are notifications, the rest samples
    MaxClock,      \* bound: seconds of wall-clock time, the names of files
    Midnight,      \* the last second of the first day
    MaxStops       \* bound: requests to stop the thread, and restarts

ASSUME ConstantsOK ==
    /\ MaxMsgs \in Nat
    /\ NotifyMsgs \subseteq 1..MaxMsgs
    /\ MaxClock \in Nat \ {0}
    /\ Midnight \in Nat
    /\ MaxStops \in Nat

VARIABLES
    isOn,       \* DataOperator::isOn
    main,       \* where the GUI thread is
    cur,        \* the message save is working on, 0 if none
    curName,    \* the name of its pending file, 0 if none yet
    worker,     \* where DataOperator::run is
    dirs,       \* run: what is left of dirList
    dir,        \* run: oneDir, 0 if none
    files,      \* run: what is left of fileList
    file,       \* run: oneFile, 0 if none
    payload,    \* run: the message read from it, 0 if none
    queue,      \* needPush events posted to the GUI thread
    local,      \* localData: what each file holds, 0 where there is none
    pending,    \* pendingData, likewise
    penDirs,    \* the day directories of pendingData
    clock,      \* QDateTime::currentDateTime in seconds
    produced,   \* messages so far: they are 1..produced
    published,  \* history: messages handed to a connected socket
    sends,      \* history: how often each message was given to the client at
                \* once, or emitted by needPush and its file removed
    removed,    \* history: messages whose pending file the thread removed
    lost,       \* history: messages given up (see NothingVanishes)
    locFile,    \* history: the name of a message's file in localData, 0 for
    penFile,    \* none, and the one save chose for it in pendingData
    stops       \* calls of rePushPendingData_stop, and restarts

store   == <<local, pending, penDirs>>
thread  == <<worker, dirs, dir, files, file, payload>>
saving  == <<main, cur, curName>>
history == <<published, sends, removed, lost, locFile, penFile>>
vars    == <<linkVars, isOn, saving, thread, queue, store, clock, produced,
             history, stops>>

Msgs  == 1..MaxMsgs
Names == 1..MaxClock
DayOf(t) == IF t <= Midnight THEN 1 ELSE 2

Stored(f)  == {f[t] : t \in Names} \ {0}
Queued     == {queue[i] : i \in 1..Len(queue)}
Newest(S)  == CHOOSE n \in S : \A k \in S : k <= n
NamesIn(d) == {t \in Names : pending[t] # 0 /\ DayOf(t) = d}

TypeOK ==
    /\ LinkTypeOK
    /\ isOn \in BOOLEAN
    /\ main \in {"loop", "mkdir", "copy", "waiting"}
    /\ cur \in 0..MaxMsgs
    /\ curName \in 0..MaxClock
    /\ worker \in {"stopped", "starting", "dir", "file", "check", "remove"}
    /\ dirs \subseteq {1, 2} /\ penDirs \subseteq {1, 2}
    /\ dir \in {0, 1, 2}
    /\ files \subseteq Names
    /\ file \in 0..MaxClock
    /\ payload \in 0..MaxMsgs
    /\ queue \in Seq(Msgs)
    /\ local \in [Names -> 0..MaxMsgs]
    /\ pending \in [Names -> 0..MaxMsgs]
    /\ clock \in Names
    /\ produced \in 0..MaxMsgs
    /\ published \subseteq Msgs /\ removed \subseteq Msgs /\ lost \subseteq Msgs
    /\ sends \in [Msgs -> Nat]
    /\ locFile \in [Msgs -> 0..MaxClock] /\ penFile \in [Msgs -> 0..MaxClock]
    /\ stops \in 0..MaxStops

Init ==
    /\ LinkInit
    /\ isOn = TRUE
    /\ main = "loop" /\ cur = 0 /\ curName = 0
    /\ worker = "stopped"
    /\ dirs = {} /\ dir = 0 /\ files = {} /\ file = 0 /\ payload = 0
    /\ queue = << >>
    /\ local = [t \in Names |-> 0]
    /\ pending = [t \in Names |-> 0]
    /\ penDirs = {}
    /\ clock = 1
    /\ produced = 0
    /\ published = {} /\ removed = {} /\ lost = {}
    /\ sends = [m \in Msgs |-> 0]
    /\ locFile = [m \in Msgs |-> 0] /\ penFile = [m \in Msgs |-> 0]
    /\ stops = 0

-----------------------------------------------------------------------------
(* DataOperator::save                                                      *)

\* save up to its test of isOnline: localData is written unconditionally,
\* truncating a file of the same second.
SaveLocal(m) ==
    /\ local' = [local EXCEPT ![clock] = m]
    /\ locFile' = [locFile EXCEPT ![m] = clock]
    /\ IF isOnline'
         THEN UNCHANGED saving
         ELSE main' = "mkdir" /\ cur' = m /\ UNCHANGED curName

restAtSave == <<linkVars, isOn, thread, queue, local, clock, produced, published,
                sends, removed, locFile, stops>>

\* Seeded fault of SaveMkdir: where there was a file of the same second, it is
\* removed and nothing is put in its place.
SaveMkdirReturns ==
    /\ main = "mkdir"
    /\ IF pending[clock] = 0
         THEN main' = "copy" /\ curName' = clock /\ UNCHANGED cur
         ELSE main' = "loop" /\ cur' = 0 /\ UNCHANGED curName
    /\ penFile' = [penFile EXCEPT ![cur] = clock]
    /\ penDirs' = penDirs \cup {DayOf(clock)}
    /\ pending' = [pending EXCEPT ![clock] = 0]
    /\ UNCHANGED <<lost, restAtSave>>

\* The directory of today, and away with a file of the same second, whose
\* message has then no file any more.
SaveMkdir ==
    /\ main = "mkdir"
    /\ main' = "copy"
    /\ curName' = clock
    /\ penFile' = [penFile EXCEPT ![cur] = clock]
    /\ penDirs' = penDirs \cup {DayOf(clock)}
    /\ pending' = [pending EXCEPT ![clock] = 0]
    /\ UNCHANGED <<cur, lost, restAtSave>>

\* QFile::copy fails when the thread has removed the directory meanwhile;
\* save logs that and goes on.
SaveCopy ==
    /\ main = "copy"
    /\ main' = "loop" /\ cur' = 0 /\ curName' = 0
    /\ IF DayOf(curName) \in penDirs
         THEN pending' = [pending EXCEPT ![curName] = cur] /\ UNCHANGED lost
         ELSE lost' = lost \cup {cur} /\ UNCHANGED pending
    /\ UNCHANGED <<penDirs, penFile, restAtSave>>

-----------------------------------------------------------------------------
(* The producers and the consumer of the queue, on the GUI thread          *)

NewMessage(m) ==
    /\ main = "loop"
    /\ m = produced + 1
    /\ m <= MaxMsgs
    /\ produced' = m

Publish(m) ==
    IF Established
      THEN published' = published \cup {m} /\ UNCHANGED lost
      ELSE lost' = lost \cup {m} /\ UNCHANGED published

Sent(m) == sends' = [sends EXCEPT ![m] = @ + 1]

\* Helper::timerEvent: sendData trusts isOnline, so with a stale flag the
\* message goes to a socket that drops it and is not kept for later.
Sample(m) ==
    /\ NewMessage(m) /\ m \notin NotifyMsgs
    /\ IF isOnline THEN Publish(m) /\ Sent(m)
                   ELSE UNCHANGED <<published, lost, sends>>
    /\ UNCHANGED linkVars
    /\ SaveLocal(m)
    /\ UNCHANGED <<isOn, thread, queue, pending, penDirs, clock, removed,
                   penFile, stops>>

\* Helper::sendDoor and sendPower: these ask the socket, lower the flag when
\* it is not connected, and then save looks at the flag.
Notify(m) ==
    /\ NewMessage(m) /\ m \in NotifyMsgs
    /\ IF Established
         THEN published' = published \cup {m} /\ Sent(m) /\ UNCHANGED isOnline
         ELSE isOnline' = FALSE /\ UNCHANGED <<published, sends>>
    /\ UNCHANGED phase
    /\ SaveLocal(m)
    /\ UNCHANGED <<isOn, thread, queue, pending, penDirs, clock, removed, lost,
                   penFile, stops>>

\* MqttOperator::onNeedPush ignores what the send functions return.
HandleNeedPush ==
    /\ main = "loop"
    /\ queue # << >>
    /\ queue' = Tail(queue)
    /\ LET m == Head(queue) IN
         IF m \in NotifyMsgs
           THEN /\ Publish(m)
                /\ isOnline' = (isOnline /\ Established)
           ELSE /\ IF isOnline THEN Publish(m)
                   ELSE lost' = lost \cup {m} /\ UNCHANGED published
                /\ UNCHANGED isOnline
    /\ UNCHANGED <<phase, isOn, saving, thread, store, clock, produced, sends,
                   removed, locFile, penFile, stops>>

-----------------------------------------------------------------------------
(* The link's slots, on the GUI thread                                     *)

restAtLink == <<cur, curName, queue, store, clock, produced, history>>

\* rePushPendingData_start: isRunning() is worker # "stopped".
RePushStart ==
    /\ isOn' = TRUE
    /\ worker' = IF worker = "stopped" /\ penDirs # {}
                   THEN "starting" ELSE worker
    /\ UNCHANGED <<dirs, dir, files, file, payload>>

\* Seeded fault of RePushStop: the switch alone, no wait().
RePushStopAsync ==
    /\ stops < MaxStops /\ stops' = stops + 1
    /\ isOn' = FALSE
    /\ UNCHANGED <<main, thread>>

\* rePushPendingData_stop: turn the switch, then block in wait(); quit() does
\* nothing to a thread without an event loop.
RePushStop ==
    /\ stops < MaxStops /\ stops' = stops + 1
    /\ isOn' = FALSE
    /\ main' = "waiting"
    /\ UNCHANGED thread

WaitReturns ==
    /\ main = "waiting" /\ worker = "stopped"
    /\ main' = "loop"
    /\ UNCHANGED <<linkVars, isOn, thread, stops, restAtLink>>

\* mqttConnectted
Connected ==
    /\ main = "loop"
    /\ LinkReady
    /\ RePushStart
    /\ UNCHANGED <<main, stops, restAtLink>>

\* mqttDisConnectted, on disconnected()
Disconnected ==
    /\ main = "loop"
    /\ LinkLost
    /\ RePushStop
    /\ UNCHANGED restAtLink

\* mqttDisConnectted, on an offline report of the operating system
NetworkOffline ==
    /\ main = "loop"
    /\ FlagChange /\ ~isOnline'
    /\ RePushStop
    /\ UNCHANGED restAtLink

\* What else the link does to its phase and its flag: connecting, PINGRESP
\* and the dog.
LinkChange ==
    /\ main = "loop"
    /\ TcpUp \/ LinkClosing \/ FlagChange
    /\ UNCHANGED <<isOn, main, thread, stops, restAtLink>>

-----------------------------------------------------------------------------
(* DataOperator::run, on its own thread                                    *)

restAtRun == <<linkVars, isOn, saving, clock, produced, stops>>

\* run returns, and its locals with it.
RunEnds ==
    /\ worker' = "stopped"
    /\ dirs' = {} /\ dir' = 0 /\ files' = {} /\ file' = 0 /\ payload' = 0

\* The process ends anywhere and starts again; the files stay, the queue and
\* a save that was under way do not.
ProcessEnds ==
    /\ phase' = "down" /\ isOnline' = FALSE
    /\ isOn' = TRUE
    /\ main' = "loop" /\ cur' = 0 /\ curName' = 0
    /\ RunEnds
    /\ queue' = << >>
    /\ lost' = lost \cup Queued \cup ({cur} \ {0})
    /\ UNCHANGED <<store, clock, produced, published, sends, removed, locFile,
                   penFile>>

\* Seeded fault of RunBegin: only the newest day is looked at.
RunBeginNewestOnly ==
    /\ worker = "starting"
    /\ IF isOnline
         THEN /\ worker' = "dir"
              /\ dirs' = {d \in penDirs : d = Newest(penDirs)}
              /\ UNCHANGED <<dir, files, file, payload>>
         ELSE RunEnds
    /\ UNCHANGED <<queue, store, history, restAtRun>>

\* start() has been called; a flag that has fallen since ends the run at once.
RunBegin ==
    /\ worker = "starting"
    /\ IF isOnline
         THEN /\ worker' = "dir" /\ dirs' = penDirs
              /\ UNCHANGED <<dir, files, file, payload>>
         ELSE RunEnds
    /\ UNCHANGED <<queue, store, history, restAtRun>>

\* The next day directory, newest first, and the list of its files.
RunNextDir ==
    /\ worker = "dir"
    /\ IF dirs # {}
         THEN /\ worker' = "file"
              /\ dir' = Newest(dirs)
              /\ dirs' = dirs \ {dir'}
              /\ files' = NamesIn(dir')
              /\ UNCHANGED <<file, payload>>
         ELSE RunEnds
    /\ UNCHANGED <<queue, store, history, restAtRun>>

Opens(t) == pending[t] # 0

\* Seeded fault of RunEmit: a file that is not there is read as an empty one.
RunEmitUnread ==
    /\ worker = "file" /\ files # {}
    /\ worker' = "check"
    /\ file' = Newest(files)
    /\ files' = files \ {file'}
    /\ payload' = pending[file']
    /\ queue' = Append(queue, payload')
    /\ UNCHANGED <<dirs, dir, store, history, restAtRun>>

\* Read the next file and post needPush.
RunEmit ==
    /\ worker = "file" /\ files # {} /\ Opens(Newest(files))
    /\ worker' = "check"
    /\ file' = Newest(files)
    /\ files' = files \ {file'}
    /\ payload' = pending[file']
    /\ queue' = Append(queue, payload')
    /\ UNCHANGED <<dirs, dir, store, history, restAtRun>>

\* A file that save has just removed to put one of the same second in its
\* place: getc on the NULL that fopen returned ends the process.
RunCrash ==
    /\ worker = "file" /\ files # {} /\ ~Opens(Newest(files))
    /\ ProcessEnds
    /\ UNCHANGED stops

\* Seeded fault of RunCheck: wait for the switch to be turned on again.
RunCheckWaits ==
    /\ worker = "check" /\ isOn
    /\ worker' = "remove"
    /\ UNCHANGED <<dirs, dir, files, file, payload, queue, store, history,
                   restAtRun>>

\* The only place where the thread looks at the switch: after the emit, before
\* the remove.
RunCheck ==
    /\ worker = "check"
    /\ IF isOn
         THEN worker' = "remove" /\ UNCHANGED <<dirs, dir, files, file, payload>>
         ELSE RunEnds
    /\ UNCHANGED <<queue, store, history, restAtRun>>

\* Seeded fault of RunRemove: the file stays.
RunRemoveNothing ==
    /\ worker = "remove"
    /\ worker' = "file"
    /\ Sent(payload)
    /\ file' = 0 /\ payload' = 0
    /\ UNCHANGED <<dirs, dir, files, queue, store, published, removed, lost,
                   locFile, penFile, restAtRun>>

\* Remove the file, sleep five seconds.  The name is all that is known of it:
\* what was saved under it since it was read goes as well.
RunRemove ==
    /\ worker = "remove"
    /\ worker' = "file"
    /\ removed' = removed \cup ({pending[file]} \ {0})
    /\ pending' = [pending EXCEPT ![file] = 0]
    /\ Sent(payload)
    /\ file' = 0 /\ payload' = 0
    /\ UNCHANGED <<dirs, dir, files, queue, local, penDirs, published, lost,
                   locFile, penFile, restAtRun>>

\* Seeded fault of RunRmdir: the directory goes with what is in it.
RunRmdirRecursive ==
    /\ worker = "file" /\ files = {}
    /\ worker' = "dir" /\ dir' = 0
    /\ penDirs' = penDirs \ {dir}
    /\ pending' = [t \in Names |->
                     IF DayOf(t) = dir THEN 0 ELSE pending[t]]
    /\ UNCHANGED <<dirs, files, file, payload, queue, local, history, restAtRun>>

\* rmdir fails silently on a directory that is not empty.
RunRmdir ==
    /\ worker = "file" /\ files = {}
    /\ worker' = "dir" /\ dir' = 0
    /\ penDirs' = IF NamesIn(dir) = {} THEN penDirs \ {dir} ELSE penDirs
    /\ UNCHANGED <<dirs, files, file, payload, queue, local, pending, history,
                   restAtRun>>

Run ==
    \/ RunBegin \/ RunNextDir \/ RunEmit \/ RunCrash \/ RunCheck \/ RunRemove
    \/ RunRmdir

-----------------------------------------------------------------------------

Second ==
    /\ clock < MaxClock
    /\ clock' = clock + 1
    /\ UNCHANGED <<linkVars, isOn, saving, thread, queue, store, produced,
                   history, stops>>

\* From outside, at any time.
Restart == stops < MaxStops /\ stops' = stops + 1 /\ ProcessEnds

Next ==
    \/ \E m \in Msgs : Sample(m) \/ Notify(m)
    \/ SaveMkdir \/ SaveCopy \/ HandleNeedPush
    \/ Connected \/ Disconnected \/ NetworkOffline \/ WaitReturns \/ LinkChange
    \/ Run \/ Second \/ Restart

Spec == Init /\ [][Next]_vars

\* The scheduler runs both threads; the GUI thread finishes a slot it has
\* begun.  Nothing is assumed of the link or the producers.
FairSpec ==
    /\ Spec
    /\ WF_vars(Run) /\ WF_vars(WaitReturns)
    /\ WF_vars(SaveMkdir) /\ WF_vars(SaveCopy) /\ WF_vars(HandleNeedPush)

-----------------------------------------------------------------------------
(* Properties                                                              *)

\* The thread runs only while connected() of the present connection has been
\* seen and the switch is on, or a slot is waiting for it to end.  So every
\* mqttConnectted finds it idle: start() is never skipped because a run of an
\* earlier connection is still on its way out.
WorkerOnlyOnAckedLink ==
    worker # "stopped" =>
        \/ main = "waiting"
        \/ phase \in {"ready", "closing"} /\ isOn

\* The thread tests neither the result of fopen nor whether its list is stale.
\* Every file it has still to open exists, except for the moment in which save
\* has removed it to put another message of the same second in its place.
ListedFilesExist ==
    \A t \in files : pending[t] # 0 \/ (main = "copy" /\ curName = t)

\* A message is given to the client once, whether at once or as a pending
\* file: run after run, nothing is pushed again but what a stop, a restart or a
\* crash kept the thread from removing after the emit.  A notification alone may
\* be sent at once and be kept as well: it asks the socket whether to send, and
\* the flag whether to keep.
SentOnce ==
    \A m \in Msgs :
        sends[m] + (IF payload = m THEN 1 ELSE 0)
          <= 1 + (IF m \in NotifyMsgs THEN 1 ELSE 0)

\* A message shares its file with another one only if both were given the same
\* second as a name.
Overwritten(m, name) ==
    name[m] # 0 /\ \E n \in (1..produced) \ {m} : name[n] = name[m]

\* A message whose second is its own stays in localData, and is accounted for
\* on its way to the server: sent, pending, queued, being saved - or given up
\* at one of four places: sendData with a stale flag, onNeedPush offline, a
\* failed copy, a restart or crash.  Neither save nor the thread ever takes the
\* file of one second for that of another.
NothingVanishes ==
    \A m \in 1..produced :
        /\ m \in Stored(local) \/ Overwritten(m, locFile)
        /\ \/ m \in published \cup Stored(pending) \cup Queued \cup {cur} \cup lost
           \/ Overwritten(m, penFile)

\* wait() in mqttDisConnectted always returns: the GUI is not frozen.
WaitEnds == main = "waiting" ~> main = "loop"

\* While the link stays up and nothing lowers the flag, everything that was
\* pending when the run started is pushed and removed.
LinkHolds == phase = "ready" /\ isOnline /\ isOn

DrainsWhileLinkHolds ==
    \A t \in Names :
        [](worker = "starting" /\ pending[t] # 0 /\ []LinkHolds
             => <>(pending[t] = 0))

-----------------------------------------------------------------------------
(* What the comments promise and the code does not keep                    *)

\* "after mqtt connects, push the unsent data again": a pending file is given
\* up only for a message that was sent or is about to be.
RemovedMeansSent == removed \subseteq published \cup Queued
=============================================================================
