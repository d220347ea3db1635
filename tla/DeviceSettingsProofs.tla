------------------------ MODULE DeviceSettingsProofs ------------------------
(***************************************************************************)
(* Proofs about DeviceSettings for every ZigBee page, set of values,       *)
(* addresses and line settings, and any number of jobs and faults.         *)
(*                                                                         *)
(* What the dialog can rely on after lost and late answers is that every   *)
(* register of the module holds either what was read from it or what one   *)
(* of the dialog's own jobs has asked for since (Traceable), and that a    *)
(* job none of whose answers was a stray one has put all the registers it  *)
(* has passed into place (Confirmed).                                      *)
(***************************************************************************)
EXTENDS DeviceSettings, TLAPS, WellFoundedInduction

\* A configuration, as a function.
Configs == {c \in [Regs -> Modbus \cup Values] :
              \A r \in Regs : c[r] \in Domain(r)}

Types ==
    /\ device \in Configs
    /\ cache = << >> \/ \E c \in Configs : cache = <<c>>
    /\ port \in Lines \cup {NoLine}
    /\ \/ job = << >>
       \/ \E j \in [old : Configs, new : Configs, next : 1..Len(Order) + 1] :
            job = <<j>>
    /\ result \in {"none", "ok", "failed"}
    /\ late \in Ids \cup {NoId}
    /\ wanted \subseteq Configs
    /\ strayed \in BOOLEAN
    /\ jobs \in 0..MaxJobs /\ faults \in 0..MaxFaults

\* A job starts from what the dialog has read, and is one of those wanted.
JobShape ==
    job # << >> =>
        /\ cache # << >> /\ job[1].old = cache[1]
        /\ job[1].new \in wanted
        /\ result = "none"

\* A register holds what was read from it, or what a job since then asked for.
Traceable ==
    cache # << >> =>
        \A r \in Regs :
            device[r] = cache[1][r] \/ \E c \in wanted : device[r] = c[r]

\* With one configuration wanted and no answer mistaken for another, the
\* registers a job has passed are in place.
Confirmed ==
    job # << >> /\ ~strayed =>
        \A c \in wanted : wanted = {c} =>
            \A k \in 1..job[1].next - 1 : device[Order[k]] = c[Order[k]]

Inv ==
    /\ Types
    /\ CacheMatchesPort
    /\ JobShape
    /\ Traceable
    /\ Confirmed
    /\ RepeatedSuccessMeansSet

-----------------------------------------------------------------------------
(* Lemmas about the operators                                              *)

\* The registers written in turn include the last two, and no others than the
\* page's.
LEMMA OrderIsSeq ==
    /\ Len(Order) \in Nat /\ Len(Order) >= 2
    /\ \A k \in 1..Len(Order) : Order[k] \in Regs
    /\ \A r \in Regs : \E k \in 1..Len(Order) : Order[k] = r
    /\ "modbus" \in Regs /\ "inputMode" \in Regs
  <1>1. Zigbee \in Seq(STRING)
    BY ConstantsOK
  <1>2. /\ Len(Order) = Len(Zigbee) + 2 /\ Len(Zigbee) \in Nat
        /\ Order[Len(Zigbee) + 1] = "inputMode"
        /\ Order[Len(Zigbee) + 2] = "modbus"
    BY <1>1 DEF Order
  <1> QED
    BY <1>2 DEF Regs

\* A nonempty set of positions has a first one.
LEMMA FirstIsIn ==
    ASSUME NEW S \in SUBSET Nat, S # {}
    PROVE  LET n == CHOOSE k \in S : \A l \in S : k <= l
           IN  n \in S /\ \A l \in S : n <= l
  <1> DEFINE R == {p \in Nat \X Nat : p[1] < p[2]}
  <1>1. IsWellFoundedOn(R, Nat)
    BY NatLessThanWellFounded DEF OpToRel
  <1>2. PICK n \in S : \A e \in S : <<e, n>> \notin R
    <2> HIDE DEF R
    <2> QED
      BY <1>1, WFMin
  <1>3. ASSUME NEW l \in S PROVE n <= l
    <2>1. n \in Nat /\ l \in Nat
      OBVIOUS
    <2>2. ~(l < n)
      BY <1>2, <2>1
    <2> QED
      BY <2>1, <2>2
  <1> QED
    BY <1>3

\* The register a job writes next is the first of those that differ.
LEMMA NextWriteIsFirst ==
    ASSUME Types, job # << >>, Differing # {}
    PROVE  /\ NextWrite \in Differing
           /\ \A l \in Differing : NextWrite <= l
  <1>1. Differing \in SUBSET Nat
    BY OrderIsSeq DEF Types, Differing
  <1> HIDE DEF Differing
  <1> QED
    BY <1>1, FirstIsIn DEF NextWrite

\* What the dialog knows and the job under way are configurations.
LEMMA Shapes ==
    ASSUME Types
    PROVE  /\ cache # << >> => cache[1] \in Configs
           /\ job # << >> =>
                /\ job[1].old \in Configs /\ job[1].new \in Configs
                /\ job[1].next \in 1..Len(Order) + 1
                /\ job[1] \in [old : Configs, new : Configs,
                               next : 1..Len(Order) + 1]
  <1> DEFINE Jobs == [old : Configs, new : Configs, next : 1..Len(Order) + 1]
  <1>1. cache = << >> \/ \E c \in Configs : cache = <<c>>
    BY DEF Types
  <1>2. job = << >> \/ \E j \in Jobs : job = <<j>>
    BY DEF Types
  <1>3. \A j \in Jobs : j.old \in Configs /\ j.new \in Configs
                          /\ j.next \in 1..Len(Order) + 1
    <2> HIDE DEF Configs
    <2> QED
      OBVIOUS
  <1>4. cache # << >> => cache[1] \in Configs
    BY <1>1
  <1>5. job # << >> => job[1] \in Jobs
    <2> HIDE DEF Jobs
    <2> QED
      BY <1>2
  <1> QED
    BY <1>3, <1>4, <1>5

\* Two addresses of a module are the same if number and line agree.
LEMMA ModbusParts ==
    ASSUME NEW c \in Configs
    PROVE  /\ c["modbus"] \in Modbus
           /\ c["modbus"].id \in Ids /\ c["modbus"].line \in Lines
           /\ c["modbus"] = [id |-> c["modbus"].id, line |-> c["modbus"].line]
  <1>1. c["modbus"] \in Domain("modbus")
    BY OrderIsSeq DEF Configs
  <1>2. c["modbus"] \in Modbus
    BY <1>1 DEF Domain
  <1> QED
    BY <1>2 DEF Modbus

-----------------------------------------------------------------------------
(* Every action keeps the invariant                                        *)

\* Learning the module's configuration starts the account anew.
LEMMA LearnStep ==
    ASSUME Inv, Idle, Learn(device), UNCHANGED <<device, job, result, jobs>>,
           port' \in Lines \cup {NoLine}, late' = NoId,
           faults' \in 0..MaxFaults,
           port' # NoLine => device["modbus"].line = port'
    PROVE  Inv'
  <1> USE DEF Inv, Idle, Learn
  <1>1. cache' = <<device>> /\ cache'[1] = device /\ device \in Configs
    BY DEF Types
  <1>2. Types'
    BY <1>1 DEF Types
  <1>3. CacheMatchesPort'
    BY <1>1 DEF CacheMatchesPort
  <1>4. Traceable'
    BY <1>1 DEF Traceable
  <1>5. JobShape' /\ Confirmed' /\ RepeatedSuccessMeansSet'
    BY DEF JobShape, Confirmed, RepeatedSuccessMeansSet
  <1> QED
    BY <1>2, <1>3, <1>4, <1>5

\* So does forgetting it, or learning nothing.
LEMMA ForgetStep ==
    ASSUME Inv, Idle, UNCHANGED <<device, job, result, wanted, strayed, jobs>>,
           \/ cache' = << >>
           \/ cache' = cache /\ port' \in {port, NoLine},
           port' \in Lines \cup {NoLine}, late' = NoId,
           faults' \in 0..MaxFaults
    PROVE  Inv'
  <1> USE DEF Inv, Idle
  <1>1. Types'
    BY DEF Types
  <1>2. CacheMatchesPort'
    BY DEF CacheMatchesPort
  <1>3. Traceable'
    BY DEF Traceable
  <1>4. JobShape' /\ Confirmed' /\ RepeatedSuccessMeansSet'
    BY DEF JobShape, Confirmed, RepeatedSuccessMeansSet
  <1> QED
    BY <1>1, <1>2, <1>3, <1>4

\* The search keeps the invariant.
LEMMA SearchModNumStep ==
    ASSUME Inv, NEW line \in Lines, SearchModNum(line)
    PROVE  Inv'
  <1>1. PICK opens \in BOOLEAN, answered \in BOOLEAN :
           /\ Disturb(~opens \/ ~answered)
           /\ port' = IF opens THEN line ELSE NoLine
           /\ IF opens /\ answered
                   /\ device["modbus"] = [id |-> 1, line |-> line]
                THEN Learn(device)
                ELSE /\ cache' = IF opens THEN << >> ELSE cache
                     /\ UNCHANGED <<wanted, strayed>>
    BY DEF SearchModNum
  <1>2. faults' \in 0..MaxFaults
    BY <1>1, ConstantsOK DEF Disturb, Inv, Types
  <1>3. Idle /\ late' = NoId /\ UNCHANGED <<device, job, result, jobs>>
    BY DEF SearchModNum
  <1>4. port' \in Lines \cup {NoLine}
    BY <1>1
  <1>5. CASE opens /\ answered /\ device["modbus"] = [id |-> 1, line |-> line]
    <2>1. device["modbus"].line = port'
      BY <1>1, <1>5
    <2> QED
      BY <1>1, <1>2, <1>3, <1>4, <1>5, <2>1, LearnStep
  <1>6. CASE ~(opens /\ answered
                 /\ device["modbus"] = [id |-> 1, line |-> line])
    <2>1. /\ cache' = << >> \/ (cache' = cache /\ port' = NoLine)
          /\ UNCHANGED <<wanted, strayed>>
      BY <1>1, <1>6
    <2> QED
      BY <1>2, <1>3, <1>4, <2>1, ForgetStep
  <1> QED
    BY <1>5, <1>6

\* Reading the parameters keeps it.
LEMMA GetParStep ==
    ASSUME Inv, GetPar
    PROVE  Inv'
  <1>1. PICK answered \in BOOLEAN :
           /\ Disturb(~answered)
           /\ IF answered /\ Listens(cache[1]["modbus"].id)
                THEN Learn(device)
                ELSE UNCHANGED <<cache, wanted, strayed>>
    BY DEF GetPar
  <1>2. faults' \in 0..MaxFaults
    BY <1>1, ConstantsOK DEF Disturb, Inv, Types
  <1>3. Idle /\ late' = NoId /\ UNCHANGED <<device, port, job, result, jobs>>
    BY DEF GetPar
  <1>4. port' \in Lines \cup {NoLine} /\ port' = port
    BY <1>3 DEF Inv, Types
  <1>5. CASE answered /\ Listens(cache[1]["modbus"].id)
    <2>1. device["modbus"].line = port'
      BY <1>3, <1>5 DEF Listens
    <2>2. Learn(device)
      BY <1>1, <1>5
    <2> QED
      BY <1>2, <1>3, <1>4, <2>1, <2>2, LearnStep
  <1>6. CASE ~(answered /\ Listens(cache[1]["modbus"].id))
    <2>1. UNCHANGED <<cache, wanted, strayed>>
      BY <1>1, <1>6
    <2> QED
      BY <1>2, <1>3, <1>4, <2>1, ForgetStep
  <1> QED
    BY <1>5, <1>6

\* Reading the values through keeps it.
LEMMA ReadPassDataStep ==
    ASSUME Inv, ReadPassData
    PROVE  Inv'
  <1>1. PICK answered \in BOOLEAN :
           /\ Disturb(~answered)
           /\ IF answered /\ Listens(cache[1]["modbus"].id)
                THEN UNCHANGED <<cache, port>>
                ELSE cache' = << >> /\ port' = NoLine
    BY DEF ReadPassData
  <1>2. faults' \in 0..MaxFaults
    BY <1>1, ConstantsOK DEF Disturb, Inv, Types
  <1>3. Idle /\ late' = NoId
        /\ UNCHANGED <<device, job, result, wanted, strayed, jobs>>
    BY DEF ReadPassData
  <1>4. port' \in Lines \cup {NoLine}
    BY <1>1 DEF Inv, Types
  <1>5. cache' = << >> \/ (cache' = cache /\ port' \in {port, NoLine})
    BY <1>1
  <1> QED
    BY <1>2, <1>3, <1>4, <1>5, ForgetStep

\* Closing the page keeps it.
LEMMA CloseDialogStep ==
    ASSUME Inv, CloseDialog
    PROVE  Inv'
  <1>1. faults' \in 0..MaxFaults
    BY DEF CloseDialog, Inv, Types
  <1> QED
    BY <1>1, ForgetStep DEF CloseDialog

\* A job begins: the module still is as the account says.
LEMMA StartJobStep ==
    ASSUME Inv, NEW new \in Configs, Idle, cache # << >>, StartJob(new)
    PROVE  Inv'
  <1> USE DEF Inv, StartJob
  <1> DEFINE Jobs == [old : Configs, new : Configs, next : 1..Len(Order) + 1]
             j == [old |-> cache[1], new |-> new, next |-> 1]
  <1>1. cache[1] \in Configs
    BY Shapes
  <1>2. j \in Jobs /\ j.old = cache[1] /\ j.new = new /\ j.next = 1
    BY <1>1, OrderIsSeq
  <1>3. job' = <<j>> /\ job'[1] = j /\ job' # << >>
    OBVIOUS
  <1>4. jobs' \in 0..MaxJobs
    BY ConstantsOK DEF Types
  <1> HIDE DEF j, Jobs
  <1>5. Types'
    BY <1>2, <1>3, <1>4 DEF Types, Jobs
  <1>6. JobShape'
    BY <1>2, <1>3 DEF JobShape
  <1>7. CacheMatchesPort' /\ Traceable'
    BY DEF CacheMatchesPort, Traceable
  <1>8. Confirmed'
    BY <1>2, <1>3 DEF Confirmed
  <1>9. RepeatedSuccessMeansSet'
    BY DEF RepeatedSuccessMeansSet
  <1> QED
    BY <1>5, <1>6, <1>7, <1>8, <1>9

\* Setting an address keeps it.
LEMMA SetModNumStep ==
    ASSUME Inv, NEW m \in Modbus, SetModNum(m)
    PROVE  Inv'
  <1>1. Idle /\ cache # << >>
        /\ StartJob([cache[1] EXCEPT !["modbus"] = m])
    BY DEF SetModNum
  <1>2. [cache[1] EXCEPT !["modbus"] = m] \in Configs
    BY <1>1, Shapes DEF Inv, Configs, Domain
  <1> QED
    BY <1>1, <1>2, StartJobStep

\* Setting the kind of a channel keeps it.
LEMMA SetPassTypeStep ==
    ASSUME Inv, NEW v \in Values, SetPassType(v)
    PROVE  Inv'
  <1>1. Idle /\ cache # << >>
        /\ StartJob([cache[1] EXCEPT !["inputMode"] = v])
    BY DEF SetPassType
  <1>2. [cache[1] EXCEPT !["inputMode"] = v] \in Configs
    BY <1>1, Shapes DEF Inv, Configs, Domain
  <1> QED
    BY <1>1, <1>2, StartJobStep

\* Setting the parameters keeps it.
LEMMA SetParStep ==
    ASSUME Inv, NEW f \in ZigbeePage, SetPar(f)
    PROVE  Inv'
  <1> DEFINE c == [r \in Regs |-> IF r \in DOMAIN f THEN f[r] ELSE cache[1][r]]
  <1>1. Idle /\ cache # << >> /\ StartJob(c)
    BY DEF SetPar
  <1>2. "modbus" \notin DOMAIN f
    <2>1. /\ Zigbee \in Seq(STRING) /\ Len(Zigbee) \in Nat
          /\ \A k, l \in 1..Len(Order) : Order[k] = Order[l] => k = l
      BY ConstantsOK
    <2>2. /\ Len(Order) = Len(Zigbee) + 2
          /\ Order[Len(Zigbee) + 2] = "modbus"
          /\ \A k \in 1..Len(Zigbee) : Order[k] = Zigbee[k]
      BY <2>1 DEF Order
    <2>3. \A k \in 1..Len(Zigbee) : Zigbee[k] # "modbus"
      BY <2>1, <2>2
    <2> QED
      BY <2>3 DEF ZigbeePage
  <1>3. \A r \in DOMAIN f : f[r] \in Values
    BY DEF ZigbeePage
  <1>4. c \in Configs
    BY <1>1, <1>2, <1>3, Shapes DEF Inv, Configs, Domain
  <1> HIDE DEF c
  <1> QED
    BY <1>1, <1>4, StartJobStep

\* What a write does: register n of the order, the first that differs, may be
\* set to what the job wants; the job goes on or fails.
WritesAt(n, fate, stray) ==
    LET heard == Listens(Target) /\ fate # "unheard"
        r     == Order[n]
    IN  /\ device' = IF heard THEN [device EXCEPT ![r] = job[1].new[r]]
                              ELSE device
        /\ late' = IF heard /\ fate = "answerlate" THEN Target ELSE NoId
        /\ strayed' = (strayed \/ stray)
        /\ Disturb(fate # "answered" \/ stray)
        /\ \/ /\ Accepts(heard /\ fate = "answered", stray)
              /\ job' = <<[job[1] EXCEPT !.next = n + 1]>>
              /\ result' = result
           \/ /\ ~Accepts(heard /\ fate = "answered", stray)
              /\ job' = << >> /\ result' = "failed"

\* A write goes to the first register that differs, and the equal ones are passed.
LEMMA WriteRegisterParts ==
    ASSUME Inv, WriteRegister
    PROVE  \E n \in job[1].next..Len(Order), fate \in Fates, stray \in BOOLEAN :
              /\ WritesAt(n, fate, stray)
              /\ \A l \in job[1].next..(n - 1) :
                    job[1].old[Order[l]] = job[1].new[Order[l]]
  <1>1. job # << >> /\ Differing # {}
    BY DEF WriteRegister, Idle
  <1>2. NextWrite \in Differing /\ \A l \in Differing : NextWrite <= l
    BY <1>1, NextWriteIsFirst DEF Inv
  <1>3. NextWrite \in job[1].next..Len(Order)
    BY <1>2 DEF Differing
  <1>4. job[1].next \in Int /\ Len(Order) \in Int
    BY <1>1, Shapes, OrderIsSeq DEF Inv
  <1>5. ASSUME NEW l \in job[1].next..(NextWrite - 1)
        PROVE  job[1].old[Order[l]] = job[1].new[Order[l]]
    <2>1. l \in job[1].next..Len(Order) /\ ~(NextWrite <= l)
      BY <1>3, <1>4
    <2> QED
      BY <1>2, <2>1 DEF Differing
  <1>6. \E fate \in Fates, stray \in BOOLEAN : WritesAt(NextWrite, fate, stray)
    BY DEF WriteRegister, WritesAt, Finish
  <1> QED
    BY <1>3, <1>5, <1>6

\* A job's configuration, if it is the only one wanted, is where an unconfirmed
\* register can only hold it or what was read.
LEMMA OnlyOneWanted ==
    ASSUME Inv, job # << >>, NEW c \in wanted, wanted = {c},
           NEW r \in Regs, job[1].old[r] = job[1].new[r]
    PROVE  job[1].new = c /\ device[r] = c[r]
  <1>1. job[1].new = c /\ job[1].old = cache[1] /\ cache # << >>
    BY DEF Inv, JobShape
  <1>2. device[r] = cache[1][r] \/ device[r] = c[r]
    BY <1>1 DEF Inv, Traceable
  <1> QED
    BY <1>1, <1>2

\* Writing a register keeps the invariant.
LEMMA WriteRegisterStep ==
    ASSUME Inv, WriteRegister
    PROVE  Inv'
  <1>1. PICK n \in job[1].next..Len(Order), fate \in Fates, stray \in BOOLEAN :
           /\ WritesAt(n, fate, stray)
           /\ \A l \in job[1].next..(n - 1) :
                 job[1].old[Order[l]] = job[1].new[Order[l]]
    BY WriteRegisterParts
  <1> DEFINE r     == Order[n]
             new   == job[1].new
             heard == Listens(Target) /\ fate # "unheard"
             Jobs  == [old : Configs, new : Configs, next : 1..Len(Order) + 1]
             j     == [job[1] EXCEPT !.next = n + 1]
  <1>2. /\ job # << >> /\ UNCHANGED <<cache, port, wanted, jobs>>
    BY DEF WriteRegister, Idle
  <1>3. /\ job[1] \in Jobs /\ new \in Configs /\ job[1].old \in Configs
        /\ job[1].next \in 1..Len(Order) + 1 /\ Len(Order) \in Nat
        /\ n \in 1..Len(Order) /\ r \in Regs
    BY <1>2, Shapes, OrderIsSeq DEF Inv
  <1>4. /\ new \in wanted /\ job[1].old = cache[1] /\ cache # << >>
        /\ result = "none"
    BY <1>2 DEF Inv, JobShape
  <1>5. /\ j \in Jobs /\ j.next = n + 1 /\ j.new = new /\ j.old = job[1].old
    <2> HIDE DEF Configs
    <2> QED
      BY <1>3
  <1>6. /\ device' = IF heard THEN [device EXCEPT ![r] = new[r]] ELSE device
        /\ strayed' = (strayed \/ stray)
        /\ \/ /\ Accepts(heard /\ fate = "answered", stray)
              /\ job' = <<j>> /\ result' = result
           \/ job' = << >> /\ result' = "failed"
    BY <1>1 DEF WritesAt
  <1>7. late' \in Ids \cup {NoId}
    <2>1. Target \in Ids
      BY <1>3, ModbusParts DEF Target
    <2> QED
      BY <1>1, <2>1 DEF WritesAt
  <1>8. faults' \in 0..MaxFaults
    BY <1>1, ConstantsOK DEF WritesAt, Disturb, Inv, Types
  <1> HIDE DEF j, r, heard, Jobs, new
  <1>9. /\ device' \in Configs
        /\ \A q \in Regs :
              device'[q] = device[q] \/ (q = r /\ device'[q] = new[q])
        /\ heard => device'[r] = new[r]
    BY <1>3, <1>6 DEF Inv, Types, Configs
  <1>10. Types'
    <2>1. job' = << >> \/ \E i \in Jobs : job' = <<i>>
      BY <1>5, <1>6
    <2>2. result' \in {"none", "ok", "failed"} /\ strayed' \in BOOLEAN
      BY <1>4, <1>6 DEF Inv, Types
    <2> QED
      BY <1>2, <1>7, <1>8, <1>9, <2>1, <2>2 DEF Inv, Types, Jobs
  <1>11. CacheMatchesPort'
    BY <1>2 DEF Inv, CacheMatchesPort
  <1>12. JobShape'
    <2>1. job' = <<j>> => job'[1] = j
      OBVIOUS
    <2> QED
      BY <1>2, <1>4, <1>5, <1>6, <2>1 DEF JobShape, new
  <1>13. Traceable'
    BY <1>2, <1>4, <1>9 DEF Inv, Traceable
  <1>14. Confirmed'
    <2> SUFFICES ASSUME job' = <<j>>, ~strayed',
                        NEW c \in wanted, wanted = {c},
                        NEW k \in 1..n
                 PROVE  device'[Order[k]] = c[Order[k]]
      BY <1>2, <1>5, <1>6 DEF Confirmed
    <2>1. new = c
      BY <1>4
    <2>2. heard
      BY <1>6 DEF Accepts
    <2>3. k \in 1..Len(Order) /\ Order[k] \in Regs
      BY <1>3, OrderIsSeq
    <2>4. CASE k = n
      BY <1>9, <2>1, <2>2, <2>4 DEF r
    <2>5. CASE k < job[1].next
      <3>1. k \in 1..job[1].next - 1
        BY <1>3, <2>3, <2>5
      <3>2. ~strayed
        BY <1>6
      <3>3. device[Order[k]] = c[Order[k]]
        BY <1>2, <3>1, <3>2 DEF Inv, Confirmed
      <3> QED
        BY <1>9, <2>1, <2>3, <3>3
    <2>6. CASE k \in job[1].next..(n - 1)
      <3>1. job[1].old[Order[k]] = job[1].new[Order[k]]
        BY <1>1, <2>6
      <3>2. device[Order[k]] = c[Order[k]]
        BY <1>2, <2>3, <3>1, OnlyOneWanted
      <3> QED
        BY <1>9, <2>1, <2>3, <3>2
    <2> QED
      BY <1>3, <2>4, <2>5, <2>6
  <1>15. RepeatedSuccessMeansSet'
    BY <1>4, <1>6 DEF RepeatedSuccessMeansSet
  <1> QED
    BY <1>10, <1>11, <1>12, <1>13, <1>14, <1>15 DEF Inv

\* The end of a job keeps it.
LEMMA JobDoneStep ==
    ASSUME Inv, JobDone
    PROVE  Inv'
  <1> USE DEF Inv, JobDone, Idle, Finish
  <1>1. Types'
    BY DEF Types
  <1>2. CacheMatchesPort' /\ JobShape' /\ Traceable' /\ Confirmed'
    BY DEF CacheMatchesPort, JobShape, Traceable, Confirmed
  <1>3. RepeatedSuccessMeansSet'
    <2> SUFFICES ASSUME NEW c \in wanted, wanted = {c}, ~strayed
                 PROVE  device = c
      BY DEF RepeatedSuccessMeansSet
    <2>1. device \in Configs /\ c \in Configs
      BY DEF Types
    <2>2. ASSUME NEW r \in Regs PROVE device[r] = c[r]
      <3>1. PICK k \in 1..Len(Order) : Order[k] = r
        BY OrderIsSeq
      <3>2. job[1].next \in 1..Len(Order) + 1 /\ Len(Order) \in Nat
        BY Shapes, OrderIsSeq
      <3>3. CASE k < job[1].next
        BY <3>1, <3>2, <3>3 DEF Confirmed
      <3>4. CASE k >= job[1].next
        <4>1. job[1].old[r] = job[1].new[r]
          BY <3>1, <3>2, <3>4 DEF Differing
        <4> QED
          BY <4>1, OnlyOneWanted
      <3> QED
        BY <3>2, <3>3, <3>4
    <2> QED
      BY <2>1, <2>2 DEF Configs
  <1> QED
    BY <1>1, <1>2, <1>3

-----------------------------------------------------------------------------
(* The theorems                                                            *)

\* It holds when the page is opened.
LEMMA InitInv == Init => Inv
  <1> SUFFICES ASSUME Init PROVE Inv
    OBVIOUS
  <1>1. device \in Configs
    <2>1. PICK p \in [Regs \ {"modbus"} -> Values], m \in Modbus :
             device = [r \in Regs |-> IF r = "modbus" THEN m ELSE p[r]]
      BY DEF Init
    <2> QED
      BY <2>1 DEF Configs, Domain
  <1>2. Types
    <2>1. 0 \in 0..MaxJobs /\ 0 \in 0..MaxFaults
      BY ConstantsOK
    <2> HIDE DEF Configs
    <2> QED
      BY <1>1, <2>1 DEF Init, Types
  <1> QED
    BY <1>2 DEF Init, Inv, CacheMatchesPort, JobShape, Traceable, Confirmed,
                RepeatedSuccessMeansSet

\* Every step keeps it.
LEMMA NextInv == Inv /\ [Next]_vars => Inv'
  <1> SUFFICES ASSUME Inv, [Next]_vars PROVE Inv'
    OBVIOUS
  <1>1. ASSUME NEW line \in Lines, SearchModNum(line) PROVE Inv'
    BY <1>1, SearchModNumStep
  <1>2. CASE GetPar
    BY <1>2, GetParStep
  <1>3. CASE ReadPassData
    BY <1>3, ReadPassDataStep
  <1>4. CASE CloseDialog
    BY <1>4, CloseDialogStep
  <1>5. ASSUME NEW m \in Modbus, SetModNum(m) PROVE Inv'
    BY <1>5, SetModNumStep
  <1>6. ASSUME NEW v \in Values, SetPassType(v) PROVE Inv'
    BY <1>6, SetPassTypeStep
  <1>7. ASSUME NEW f \in ZigbeePage, SetPar(f) PROVE Inv'
    BY <1>7, SetParStep
  <1>8. CASE WriteRegister
    BY <1>8, WriteRegisterStep
  <1>9. CASE JobDone
    BY <1>9, JobDoneStep
  <1>10. CASE UNCHANGED vars
    BY <1>10 DEF vars, Inv, Types, CacheMatchesPort, JobShape, Traceable,
                 Confirmed, RepeatedSuccessMeansSet
  <1> QED
    BY <1>1, <1>2, <1>3, <1>4, <1>5, <1>6, <1>7, <1>8, <1>9, <1>10 DEF Next

\* The inductive invariant holds.
THEOREM InvOK == Spec => []Inv
  BY InitInv, NextInv, PTL DEF Spec

\* Every register, cached configuration and job is what its type says.
THEOREM TypeCorrect == Spec => []TypeOK
  <1>1. Inv => TypeOK
    <2> SUFFICES ASSUME Inv PROVE TypeOK
      OBVIOUS
    <2>1. \A c \in Configs : IsConfig(c)
      BY DEF Configs, IsConfig
    <2>2. Len(cache) <= 1 /\ \A k \in 1..Len(cache) : IsConfig(cache[k])
      <3>1. CASE cache = << >>
        BY <3>1
      <3>2. ASSUME NEW c \in Configs, cache = <<c>>
            PROVE  Len(cache) <= 1 /\ \A k \in 1..Len(cache) : IsConfig(cache[k])
        BY <2>1, <3>2
      <3> QED
        BY <3>1, <3>2 DEF Inv, Types
    <2>3. Len(job) <= 1 /\ \A k \in 1..Len(job) :
             /\ IsConfig(job[k].old) /\ IsConfig(job[k].new)
             /\ job[k].next \in 1..Len(Order) + 1
      <3>1. CASE job = << >>
        BY <3>1
      <3>2. CASE job # << >>
        <4>1. Len(job) = 1
          BY <3>2 DEF Inv, Types
        <4> QED
          BY <2>1, <3>2, <4>1, Shapes DEF Inv
      <3> QED
        BY <3>1, <3>2
    <2> QED
      BY <2>1, <2>2, <2>3 DEF Inv, Types, TypeOK
  <1> QED
    BY <1>1, InvOK, PTL

\* What the dialog knows was read over the port as it is open now: every
\* reopening of the port clears equArray or fills it anew.
THEOREM CacheMatches == Spec => []CacheMatchesPort
  <1>1. Inv => CacheMatchesPort
    BY DEF Inv
  <1> QED
    BY <1>1, InvOK, PTL

\* Whatever answers were lost or late, every register of the module holds what
\* was read from it or what one of the dialog's jobs has asked for since.
THEOREM RegistersAreTraceable == Spec => []Traceable
  <1>1. Inv => Traceable
    BY DEF Inv
  <1> QED
    BY <1>1, InvOK, PTL

\* Repeating a job until it succeeds puts every register in place, those too
\* that are skipped because old and new configuration agree.
THEOREM RepeatedSuccess == Spec => []RepeatedSuccessMeansSet
  <1>1. Inv => RepeatedSuccessMeansSet
    BY DEF Inv
  <1> QED
    BY <1>1, InvOK, PTL

\* A job fails without a disturbance only because a job has moved the module
\* away from the address the dialog still talks to.
THEOREM FailuresAreMoves == Spec => FailureMeansMoved
  <1> DEFINE Act == job # << >> /\ result' = "failed" /\ port # NoLine
                      /\ faults' = faults
                    => /\ device["modbus"] # job[1].old["modbus"]
                       /\ \E c \in wanted : c["modbus"] = device["modbus"]
  <1>1. Inv /\ [Next]_vars => [Act]_vars
    <2> SUFFICES ASSUME Inv, Next, job # << >>, result' = "failed",
                        port # NoLine, faults' = faults
                 PROVE  /\ device["modbus"] # job[1].old["modbus"]
                        /\ \E c \in wanted : c["modbus"] = device["modbus"]
      OBVIOUS
    <2>1. WriteRegister
      BY DEF Next, SearchModNum, GetPar, ReadPassData, CloseDialog, SetModNum,
             SetPassType, SetPar, JobDone, Idle, Finish
    <2>2. PICK n \in job[1].next..Len(Order), fate \in Fates, stray \in BOOLEAN :
             WritesAt(n, fate, stray)
      BY <2>1, WriteRegisterParts
    <2>3. fate = "answered" /\ ~stray
      BY <2>2, ConstantsOK DEF WritesAt, Disturb, Inv, Types
    <2>4. ~Listens(Target)
      BY <2>2, <2>3 DEF WritesAt, Accepts, Inv, JobShape
    <2>5. job[1].old = cache[1] /\ cache # << >> /\ job[1].old \in Configs
      BY Shapes DEF Inv, JobShape
    <2>6. job[1].old["modbus"] = [id |-> Target, line |-> port]
      BY <2>5, ModbusParts DEF Target, Inv, CacheMatchesPort
    <2>7. device["modbus"] # job[1].old["modbus"]
      BY <2>4, <2>6 DEF Listens
    <2> QED
      BY <2>5, <2>7, OrderIsSeq DEF Inv, Traceable
  <1> HIDE DEF Act
  <1>2. Spec => [][Act]_vars
    BY <1>1, InvOK, PTL DEF Spec
  <1> QED
    BY <1>2 DEF Act, FailureMeansMoved

=============================================================================
