--------------------------- MODULE DeviceSettings ---------------------------
(***************************************************************************)
(* The settings dialog and the metering module at the other end of its     *)
(* serial line: CollectionSetting and ZigbeeSetting with the requests of   *)
(* DeviceOperator that search for a module, read its configuration and     *)
(* write it register by register.                                          *)
(*                                                                         *)
(* The dialog runs in the GUI thread and blocks it while it waits for an   *)
(* answer, so that buttons and requests alternate.  What can come in       *)
(* between is the module: it may have carried out a request whose answer   *)
(* is lost, cleared away, or late for its window.                          *)
(***************************************************************************)
EXTENDS Integers, Sequences, FiniteSets

CONSTANTS
    Zigbee,     \* the registers of the ZigBee page, in the order of writing
    Values,     \* values of these and of the input mode
    Ids,        \* module addresses the dialog offers
    Lines,      \* baud rate and parity, together
    MaxJobs,    \* bound: buttons that write
    MaxFaults   \* bound: answers that go wrong

\* setDeviceConfig writes the registers in this order.
Order == Zigbee \o <<"inputMode", "modbus">>
Regs  == {Order[k] : k \in 1..Len(Order)}
Modbus == [id : Ids, line : Lines]
Domain(r) == IF r = "modbus" THEN Modbus ELSE Values
NoLine == "none"
NoId   == 0

ASSUME ConstantsOK ==
    /\ Zigbee \in Seq(STRING)
    /\ \A j, k \in 1..Len(Order) : Order[j] = Order[k] => j = k
    /\ 1 \in Ids /\ Ids \subseteq 1..247
    /\ NoLine \notin Lines
    /\ MaxJobs \in Nat /\ MaxFaults \in Nat

VARIABLES
    device,   \* the module's registers
    cache,    \* equArray, of which the dialog uses the first element
    port,     \* the line settings the port is open with, or NoLine
    job,      \* the setDeviceConfig under way: << >> or its state
    result,   \* what finishedDevConfigSet said last
    late,     \* the address in an answer that missed its window, or NoId
    wanted,   \* history: what the jobs since the last read have asked for
    strayed,  \* history: a late answer was taken for another since then
    jobs, faults

vars == <<device, cache, port, job, result, late, wanted, strayed, jobs, faults>>

IsConfig(c) ==
    /\ DOMAIN c = Regs
    /\ \A r \in Regs : c[r] \in Domain(r)

TypeOK ==
    /\ IsConfig(device)
    /\ Len(cache) <= 1 /\ \A k \in 1..Len(cache) : IsConfig(cache[k])
    /\ port \in Lines \cup {NoLine}
    /\ Len(job) <= 1
    /\ \A k \in 1..Len(job) :
         /\ IsConfig(job[k].old) /\ IsConfig(job[k].new)
         /\ job[k].next \in 1..Len(Order) + 1
    /\ result \in {"none", "ok", "failed"}
    /\ late \in Ids \cup {NoId}
    /\ \A c \in wanted : IsConfig(c)
    /\ strayed \in BOOLEAN
    /\ jobs \in 0..MaxJobs /\ faults \in 0..MaxFaults

Disturb(b) == faults' = faults + (IF b THEN 1 ELSE 0) /\ faults' <= MaxFaults
Idle       == job = << >>

-----------------------------------------------------------------------------
(* The module                                                              *)

\* It hears a request with its own address and line settings.
Listens(id) == device["modbus"] = [id |-> id, line |-> port]

\* What becomes of a write and its answer.  An answer that is there already
\* when writeDevRegister clears the port once more is lost.
Fates == {"answered", "unheard", "answerlost", "answerlate"}

-----------------------------------------------------------------------------
(* Reading: searchModNum, getPar, readPassData                             *)

\* Seeded fault of Learn: a module that is known already is entered again.
LearnTwice(c) ==
    /\ cache' = Append(cache, c)
    /\ wanted' = {}
    /\ strayed' = FALSE

\* The configuration read is all the dialog knows from then on.
Learn(c) ==
    /\ cache' = <<c>>
    /\ wanted' = {}
    /\ strayed' = FALSE

\* Seeded fault of SearchModNum: equArray is not cleared.
SearchModNumKeepsCache(line) ==
    /\ Idle
    /\ \E opens, answered \in BOOLEAN :
         /\ Disturb(~opens \/ ~answered)
         /\ port' = IF opens THEN line ELSE NoLine
         /\ IF opens /\ answered /\ device["modbus"] = [id |-> 1, line |-> line]
              THEN Learn(device)
              ELSE UNCHANGED <<cache, wanted, strayed>>
    /\ late' = NoId
    /\ UNCHANGED <<device, job, result, jobs>>

\* The search asks address 1 only.  A port that does not open leaves the
\* results of the search before.
SearchModNum(line) ==
    /\ Idle
    /\ \E opens, answered \in BOOLEAN :
         /\ Disturb(~opens \/ ~answered)
         /\ port' = IF opens THEN line ELSE NoLine
         /\ IF opens /\ answered /\ device["modbus"] = [id |-> 1, line |-> line]
              THEN Learn(device)
              ELSE /\ cache' = IF opens THEN << >> ELSE cache
                   /\ UNCHANGED <<wanted, strayed>>
    /\ late' = NoId
    /\ UNCHANGED <<device, job, result, jobs>>

GetPar ==
    /\ Idle
    /\ cache # << >> /\ port # NoLine
    /\ \E answered \in BOOLEAN :
         /\ Disturb(~answered)
         /\ IF answered /\ Listens(cache[1]["modbus"].id)
              THEN Learn(device)
              ELSE UNCHANGED <<cache, wanted, strayed>>
    /\ late' = NoId
    /\ UNCHANGED <<device, port, job, result, jobs>>

\* Also updateADCLine, which uses its argument though it is NULL when the read
\* has failed: the program ends.
ReadPassData ==
    /\ Idle
    /\ cache # << >>
    /\ \E answered \in BOOLEAN :
         /\ Disturb(~answered)
         /\ IF answered /\ Listens(cache[1]["modbus"].id)
              THEN UNCHANGED <<cache, port>>
              ELSE cache' = << >> /\ port' = NoLine
    /\ late' = NoId
    /\ UNCHANGED <<device, job, result, wanted, strayed, jobs>>

\* The destructor of CollectionSetting.
CloseDialog ==
    /\ Idle
    /\ cache' = << >>
    /\ port' = NoLine
    /\ late' = NoId
    /\ UNCHANGED <<device, job, result, wanted, strayed, jobs, faults>>

-----------------------------------------------------------------------------
(* Writing: setModNum, setPassType, setPar                                 *)

\* setDeviceConfig(equArray[0], new).  The boxes of the dialog offer no baud rate
\* or parity that it would refuse, nor does a module have one.
StartJob(new) ==
    /\ jobs < MaxJobs /\ jobs' = jobs + 1
    /\ job' = <<[old |-> cache[1], new |-> new, next |-> 1]>>
    /\ wanted' = wanted \cup {new}
    /\ result' = "none"
    /\ UNCHANGED <<device, cache, port, late, strayed, faults>>

SetModNum(m) ==
    /\ Idle /\ cache # << >>
    /\ StartJob([cache[1] EXCEPT !["modbus"] = m])

SetPassType(v) ==
    /\ Idle /\ cache # << >>
    /\ StartJob([cache[1] EXCEPT !["inputMode"] = v])

SetPar(f) ==
    /\ Idle /\ cache # << >> /\ port # NoLine
    /\ StartJob([r \in Regs |-> IF r \in DOMAIN f THEN f[r] ELSE cache[1][r]])

\* Registers in which the old and the new configuration differ are written,
\* in their order.
Differing == {k \in job[1].next..Len(Order) :
                job[1].old[Order[k]] # job[1].new[Order[k]]}

NextWrite == CHOOSE k \in Differing : \A l \in Differing : k <= l

Finish(r) ==
    /\ result' = r
    /\ job' = << >>

\* Seeded fault of Target: dev is newCfg.devID.
NewTarget == job[1].new["modbus"].id

\* The address the requests of a job are sent to.
Target == job[1].old["modbus"].id

\* writeDevRegister takes one frame whose address and function code fit.
\* Neither the register nor the value in it is looked at.
Accepts(answer, stray) ==
    \/ answer /\ ~stray
    \/ ~answer /\ stray /\ late = Target

\* Seeded fault of WriteRegister: the answer is not waited for.
WriteRegisterBlindly ==
    /\ ~Idle /\ Differing # {}
    /\ LET r == Order[NextWrite] IN
       \E fate \in Fates :
         LET heard == Listens(Target) /\ fate # "unheard" IN
         /\ Disturb(fate # "answered")
         /\ device' = IF heard THEN [device EXCEPT ![r] = job[1].new[r]] ELSE device
         /\ job' = <<[job[1] EXCEPT !.next = NextWrite + 1]>>
         /\ UNCHANGED <<result, strayed, late>>
    /\ UNCHANGED <<cache, port, wanted, jobs>>

\* One register; a write that is not confirmed ends the job.
WriteRegister ==
    /\ ~Idle /\ Differing # {}
    /\ LET r == Order[NextWrite] IN
       \E fate \in Fates, stray \in BOOLEAN :
         LET heard  == Listens(Target) /\ fate # "unheard"
             answer == heard /\ fate = "answered"
         IN
         /\ stray => late # NoId /\ port # NoLine
         /\ Disturb(fate # "answered" \/ stray)
         /\ device' = IF heard THEN [device EXCEPT ![r] = job[1].new[r]] ELSE device
         /\ late' = IF heard /\ fate = "answerlate" THEN Target ELSE NoId
         /\ strayed' = (strayed \/ stray)
         /\ IF Accepts(answer, stray)
              THEN /\ job' = <<[job[1] EXCEPT !.next = NextWrite + 1]>>
                   /\ UNCHANGED result
              ELSE Finish("failed")
    /\ UNCHANGED <<cache, port, wanted, jobs>>

JobDone ==
    /\ ~Idle /\ Differing = {}
    /\ Finish("ok")
    /\ UNCHANGED <<device, cache, port, late, wanted, strayed, jobs, faults>>

-----------------------------------------------------------------------------
\* The dialog is open, nothing has been searched.
Init ==
    /\ \E p \in [Regs \ {"modbus"} -> Values], m \in Modbus :
         device = [r \in Regs |-> IF r = "modbus" THEN m ELSE p[r]]
    /\ cache = << >>
    /\ port = NoLine
    /\ job = << >>
    /\ result = "none"
    /\ late = NoId
    /\ wanted = {}
    /\ strayed = FALSE
    /\ jobs = 0 /\ faults = 0

ZigbeePage == [{Zigbee[k] : k \in 1..Len(Zigbee)} -> Values]

Next ==
    \/ \E line \in Lines : SearchModNum(line)
    \/ GetPar \/ ReadPassData \/ CloseDialog
    \/ \E m \in Modbus : SetModNum(m)
    \/ \E v \in Values : SetPassType(v)
    \/ \E f \in ZigbeePage : SetPar(f)
    \/ WriteRegister \/ JobDone

Spec == Init /\ [][Next]_vars

-----------------------------------------------------------------------------
(* Properties                                                              *)

\* A job fails of itself, over an open port, only when one of the dialog's own
\* jobs has moved the module, since it was read, to the address and line
\* settings that it has now.
FailureMeansMoved ==
    [][job # << >> /\ result' = "failed" /\ port # NoLine /\ faults' = faults
         => /\ device["modbus"] # job[1].old["modbus"]
            /\ \E c \in wanted : c["modbus"] = device["modbus"]]_vars

\* What the dialog knows was read with the line settings its port has now.
CacheMatchesPort ==
    cache # << >> /\ port # NoLine => cache[1]["modbus"].line = port

\* A success that is reported after any number of attempts at one and the same
\* configuration, failed ones included, means that the module has it.
RepeatedSuccessMeansSet ==
    \A c \in wanted :
      result = "ok" /\ wanted = {c} /\ ~strayed => device = c
=============================================================================
