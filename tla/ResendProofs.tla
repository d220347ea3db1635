---------------------------- MODULE ResendProofs ----------------------------
(***************************************************************************)
(* Proofs about Resend for every number of messages, notifications,        *)
(* seconds and stops, and for every order of saves and runs: two messages  *)
(* may be saved in the same second.                                        *)
(*                                                                         *)
(* Two threads work on pendingData without a lock, and all that one knows  *)
(* of the other's files is their names.  NameShape says that a file holds  *)
(* a message that was given its name, so that whatever save or the thread  *)
(* removes by name held the message meant or one of the same second.       *)
(* ListShape keeps the directory of the thread's list in place, so that    *)
(* save puts back every listed file it removes; ThreadShape follows the    *)
(* message read past the removal of its file; Credit says that what can    *)
(* still be pushed has not been.                                           *)
(***************************************************************************)
EXTENDS Resend, FiniteSetTheorems, WellFoundedInduction, TLAPS

Notified(m) == IF m \in NotifyMsgs THEN 1 ELSE 0
Reading     == worker \in {"file", "check", "remove"}

\* TypeOK in two halves: where the threads are, and what they work on.
ControlOK ==
    /\ LinkTypeOK
    /\ isOn \in BOOLEAN
    /\ main \in {"loop", "mkdir", "copy", "waiting"}
    /\ cur \in 0..MaxMsgs
    /\ curName \in 0..MaxClock
    /\ worker \in {"stopped", "starting", "dir", "file", "check", "remove"}
    /\ dirs \subseteq {1, 2} /\ penDirs \subseteq {1, 2}
    /\ dir \in {0, 1, 2}
    /\ files \subseteq Names
    /\ file \in 0..MaxClock
    /\ payload \in 0..MaxMsgs

DataOK ==
    /\ queue \in Seq(Msgs)
    /\ local \in [Names -> 0..MaxMsgs]
    /\ pending \in [Names -> 0..MaxMsgs]
    /\ clock \in Names
    /\ produced \in 0..MaxMsgs
    /\ published \subseteq Msgs /\ removed \subseteq Msgs /\ lost \subseteq Msgs
    /\ sends \in [Msgs -> Nat]
    /\ locFile \in [Msgs -> 0..MaxClock] /\ penFile \in [Msgs -> 0..MaxClock]
    /\ stops \in 0..MaxStops

\* The GUI thread is inside save with one message, which has no file yet, and
\* from the copy on a free name.
SavingShape ==
    /\ cur # 0 <=> main \in {"mkdir", "copy"}
    /\ cur # 0 => cur <= produced /\ cur # payload
    /\ cur # 0 => \A t \in Names : pending[t] # cur
    /\ main = "mkdir" => penFile[cur] = 0
    /\ main = "copy" => /\ curName \in Names
                        /\ pending[curName] = 0
                        /\ penFile[cur] = curName

\* A file holds a message that was given its name; the messages to come have
\* none.
NameShape ==
    /\ \A t \in Names : local[t] # 0 =>
         local[t] <= produced /\ locFile[local[t]] = t
    /\ \A t \in Names : pending[t] # 0 =>
         pending[t] <= produced /\ penFile[pending[t]] = t
    /\ \A m \in Msgs : m > produced =>
         locFile[m] = 0 /\ penFile[m] = 0 /\ sends[m] = 0

\* The directory of the files on the thread's list is there and is not among
\* those still to come.
ListShape ==
    /\ dirs \subseteq penDirs
    /\ files # {} => Reading
    /\ Reading => /\ dir \in penDirs \ dirs
                  /\ \A t \in files : DayOf(t) = dir

\* What the thread has read is accounted for, whatever has become of its file.
ThreadShape ==
    /\ payload # 0 <=> worker \in {"check", "remove"}
    /\ payload # 0 => /\ file \in Names \ files
                      /\ payload <= produced
                      /\ penFile[payload] = file
                      /\ payload \in published \cup Queued \cup lost

\* A message that has a pending file, is read from one or is about to get one
\* has not been sent, unless it is a notification that was sent at once.
Credit ==
    /\ \A t \in Names : pending[t] # 0 =>
         sends[pending[t]] <= Notified(pending[t])
    /\ payload # 0 => sends[payload] <= Notified(payload)
    /\ cur # 0 => sends[cur] <= Notified(cur)

Inv ==
    /\ ControlOK
    /\ DataOK
    /\ SavingShape
    /\ NameShape
    /\ ListShape
    /\ ThreadShape
    /\ Credit
    /\ ListedFilesExist
    /\ SentOnce
    /\ NothingVanishes

-----------------------------------------------------------------------------
(* Lemmas about the operators                                              *)

\* A bounded nonempty set of numbers has a greatest element, and Newest
\* chooses it.
LEMMA NewestIsIn ==
    ASSUME NEW b \in Nat, NEW S \in SUBSET (0..b), S # {}
    PROVE  Newest(S) \in S /\ \A k \in S : k <= Newest(S)
  <1> DEFINE D == {b - k : k \in S}
             R == {p \in Nat \X Nat : p[1] < p[2]}
  <1>1. IsWellFoundedOn(R, Nat)
    BY NatLessThanWellFounded DEF OpToRel
  <1>2. D \subseteq Nat /\ \A k \in S : b - k \in D
    OBVIOUS
  <1>3. PICK d \in D : \A e \in D : <<e, d>> \notin R
    <2> HIDE DEF D, R
    <2> QED
      BY <1>1, <1>2, WFMin
  <1>4. PICK n \in S : d = b - n
    OBVIOUS
  <1>5. ASSUME NEW k \in S PROVE k <= n
    <2>1. b - k \in D /\ b - k \in Nat /\ d \in Nat
      OBVIOUS
    <2>2. ~(b - k < d)
      BY <1>3, <2>1
    <2> QED
      BY <1>4, <2>1, <2>2
  <1>6. \E n1 \in S : \A k \in S : k <= n1
    BY <1>5
  <1> QED
    BY <1>6 DEF Newest

Elems(q) == {q[i] : i \in 1..Len(q)}

\* What posting an event adds to the queue, and what handling one takes.
LEMMA ElemsAppend ==
    ASSUME NEW S, NEW q \in Seq(S), NEW x \in S
    PROVE  Append(q, x) \in Seq(S) /\ Elems(Append(q, x)) = Elems(q) \cup {x}
  <1>1. /\ Append(q, x) \in Seq(S)
        /\ Len(Append(q, x)) = Len(q) + 1 /\ Len(q) \in Nat
        /\ Append(q, x)[Len(q) + 1] = x
        /\ \A i \in 1..Len(q) : Append(q, x)[i] = q[i]
    OBVIOUS
  <1>2. 1..(Len(q) + 1) = (1..Len(q)) \cup {Len(q) + 1}
    BY <1>1
  <1> QED
    BY <1>1, <1>2 DEF Elems

\* A queue holds its head and what its tail holds.
LEMMA ElemsTail ==
    ASSUME NEW S, NEW q \in Seq(S), q # << >>
    PROVE  /\ Tail(q) \in Seq(S) /\ Head(q) \in S
           /\ Elems(q) = Elems(Tail(q)) \cup {Head(q)}
  <1>1. /\ Tail(q) \in Seq(S) /\ Head(q) \in S
        /\ Len(Tail(q)) = Len(q) - 1 /\ Len(q) \in Nat \ {0}
        /\ Head(q) = q[1]
        /\ \A i \in 1..Len(Tail(q)) : Tail(q)[i] = q[i + 1]
    OBVIOUS
  <1>2. \A i \in 1..Len(q) : i = 1 \/ i - 1 \in 1..Len(Tail(q))
    BY <1>1
  <1>3. ASSUME NEW i \in 1..Len(q), i # 1
        PROVE  i - 1 \in 1..Len(Tail(q)) /\ Tail(q)[i - 1] = q[i]
    BY <1>1, <1>3
  <1>4. ASSUME NEW i \in 1..Len(Tail(q))
        PROVE  i + 1 \in 1..Len(q) /\ q[i + 1] = Tail(q)[i]
    BY <1>1
  <1>5. 1 \in 1..Len(q)
    BY <1>1
  <1>6. Elems(q) \subseteq Elems(Tail(q)) \cup {Head(q)}
    BY <1>1, <1>3 DEF Elems
  <1>7. Elems(Tail(q)) \cup {Head(q)} \subseteq Elems(q)
    BY <1>1, <1>4, <1>5 DEF Elems
  <1> QED
    BY <1>1, <1>6, <1>7

\* What writing one file does to what is stored.
LEMMA StoredWrite ==
    ASSUME NEW f \in [Names -> 0..MaxMsgs], NEW t \in Names,
           NEW m \in 0..MaxMsgs
    PROVE  /\ [f EXCEPT ![t] = m] \in [Names -> 0..MaxMsgs]
           /\ Stored(f) \subseteq Stored([f EXCEPT ![t] = m]) \cup {f[t]}
           /\ Stored([f EXCEPT ![t] = m]) \subseteq Stored(f) \cup {m}
           /\ m # 0 => m \in Stored([f EXCEPT ![t] = m])
  BY DEF Stored

-----------------------------------------------------------------------------
(* Every action keeps the invariant                                        *)

\* What a message can have as a pending file, be read from or be saved as, it
\* is a message.
LEMMA InHand ==
    ASSUME Inv
    PROVE  /\ \A t \in Names : pending[t] # 0 => pending[t] \in Msgs
           /\ payload # 0 => payload \in Msgs
           /\ cur # 0 => cur \in Msgs
           /\ \A t \in Names : local[t] # 0 => local[t] \in Msgs
           /\ 1..produced \subseteq Msgs /\ produced \in Nat
           /\ Queued \subseteq Msgs
  <1>1. Queued \subseteq Msgs
    BY DEF Inv, DataOK, Queued
  <1> QED
    BY <1>1, ConstantsOK DEF Inv, ControlOK, DataOK, Msgs

\* What is in memory and in pendingData, apart from what was overwritten.
Around == published \cup Stored(pending) \cup Queued \cup {cur} \cup lost

\* While no file is named, what is accounted for stays so.
LEMMA AccountKept ==
    ASSUME Inv, UNCHANGED <<local, locFile, penFile, produced>>,
           \A m \in 1..produced : m \in Around => m \in Around' \/ Overwritten(m, penFile)
    PROVE  NothingVanishes'
  <1>1. ASSUME NEW m \in 1..produced
        PROVE  /\ m \in Stored(local) \/ Overwritten(m, locFile)
               /\ m \in Around \/ Overwritten(m, penFile)
    BY DEF Inv, NothingVanishes, Around
  <1>2. ASSUME NEW m PROVE /\ Overwritten(m, locFile)' <=> Overwritten(m, locFile)
                           /\ Overwritten(m, penFile)' <=> Overwritten(m, penFile)
    BY DEF Overwritten
  <1>3. Stored(local)' = Stored(local)
    BY DEF Stored
  <1>4. ASSUME NEW m \in 1..produced
        PROVE  /\ m \in Stored(local)' \/ Overwritten(m, locFile)'
               /\ m \in Around' \/ Overwritten(m, penFile)'
    BY <1>1, <1>2, <1>3
  <1>5. produced' = produced
    OBVIOUS
  <1> QED
    BY <1>4, <1>5 DEF NothingVanishes, Around

\* What a sample and a notification have in common: a message with a number of
\* its own that is written to localData and is published, given up or on its
\* way to a pending file.
Produces(m) ==
    /\ m = produced + 1 /\ produced' = m /\ m # 0
    /\ cur = 0 /\ main = "loop"
    /\ \A t \in Names : pending[t] # m /\ local[t] # m
    /\ payload # m
    /\ isOnline' \in BOOLEAN
    /\ local' = [local EXCEPT ![clock] = m]
    /\ locFile' = [locFile EXCEPT ![m] = clock]
    /\ cur' \in {0, m} /\ curName' = curName
    /\ cur' # 0 <=> main' = "mkdir"
    /\ main' \in {"loop", "mkdir"}
    /\ sends' \in [Msgs -> Nat]
    /\ \A n \in Msgs : n # m => sends'[n] = sends[n]
    /\ sends'[m] <= 1
    /\ cur' # 0 => sends'[m] <= Notified(m)
    /\ published \subseteq published' /\ lost \subseteq lost'
    /\ m \in published' \cup lost' \cup {cur'}
    /\ published' \subseteq Msgs /\ lost' \subseteq Msgs
    /\ UNCHANGED <<phase, isOn, thread, queue, pending, penDirs, clock,
                   removed, penFile, stops>>

\* Both do.
LEMMA ProduceParts ==
    ASSUME Inv, NEW m \in Msgs, Sample(m) \/ Notify(m)
    PROVE  Produces(m)
  <1> USE ConstantsOK DEF Inv, NewMessage, SaveLocal, linkVars, thread, saving
  <1>1. /\ m = produced + 1 /\ produced' = m /\ m # 0
        /\ produced \in 0..MaxMsgs /\ sends[m] = 0
        /\ cur = 0 /\ main = "loop"
        /\ clock \in Names /\ pending \in [Names -> 0..MaxMsgs]
        /\ sends \in [Msgs -> Nat]
    BY DEF NameShape, DataOK, SavingShape, Sample, Notify, Msgs
  <1>2. /\ \A t \in Names : pending[t] # m /\ local[t] # m
        /\ payload # m
    BY <1>1 DEF NameShape, ThreadShape, DataOK, ControlOK
  <1>3. SaveLocal(m)
    BY DEF Sample, Notify
  <1>4. /\ local' = [local EXCEPT ![clock] = m]
        /\ locFile' = [locFile EXCEPT ![m] = clock]
        /\ cur' \in {0, m} /\ curName' = curName
        /\ cur' # 0 <=> main' = "mkdir"
        /\ main' \in {"loop", "mkdir"}
    BY <1>1, <1>3
  <1>5. CASE Sample(m)
    <2> USE <1>5 DEF Sample, Publish, Sent
    <2>1. isOnline' \in BOOLEAN
      BY DEF ControlOK, LinkTypeOK
    <2>2. /\ sends' \in [Msgs -> Nat]
          /\ \A n \in Msgs : n # m => sends'[n] = sends[n]
          /\ sends'[m] <= 1
          /\ cur' # 0 => sends'[m] <= Notified(m)
      BY <1>1 DEF Notified
    <2>3. /\ published \subseteq published' /\ lost \subseteq lost'
          /\ m \in published' \cup lost' \cup {cur'}
          /\ published' \subseteq Msgs /\ lost' \subseteq Msgs
      BY DEF DataOK
    <2>4. UNCHANGED <<phase, isOn, thread, queue, pending, penDirs, clock,
                      removed, penFile, stops>>
      OBVIOUS
    <2> QED
      BY <1>1, <1>2, <1>4, <2>1, <2>2, <2>3, <2>4 DEF Produces
  <1>6. CASE Notify(m)
    <2> USE <1>6 DEF Notify, Sent
    <2>1. isOnline' \in BOOLEAN
      BY DEF ControlOK, LinkTypeOK
    <2>2. /\ sends' \in [Msgs -> Nat]
          /\ \A n \in Msgs : n # m => sends'[n] = sends[n]
          /\ sends'[m] <= 1
          /\ cur' # 0 => sends'[m] <= Notified(m)
      BY <1>1 DEF Notified
    <2>3. /\ published \subseteq published' /\ lost \subseteq lost'
          /\ m \in published' \cup lost' \cup {cur'}
          /\ published' \subseteq Msgs /\ lost' \subseteq Msgs
      BY DEF DataOK
    <2>4. UNCHANGED <<phase, isOn, thread, queue, pending, penDirs, clock,
                      removed, penFile, stops>>
      OBVIOUS
    <2> QED
      BY <1>1, <1>2, <1>4, <2>1, <2>2, <2>3, <2>4 DEF Produces
  <1> QED
    BY <1>5, <1>6

\* A new message takes the place of one of the same second in localData.
LEMMA ProduceStep ==
    ASSUME Inv, NEW m \in Msgs, Sample(m) \/ Notify(m)
    PROVE  Inv'
  <1>0. Produces(m)
    BY ProduceParts
  <1> USE ConstantsOK, <1>0 DEF Inv, Produces, thread
  <1>a. /\ clock \in Names /\ m \in 0..MaxMsgs
        /\ local \in [Names -> 0..MaxMsgs] /\ locFile \in [Msgs -> 0..MaxClock]
        /\ local' \in [Names -> 0..MaxMsgs] /\ locFile' \in [Msgs -> 0..MaxClock]
        /\ \A t \in Names : local'[t] = IF t = clock THEN m ELSE local[t]
        /\ \A n \in Msgs : locFile'[n] = IF n = m THEN clock ELSE locFile[n]
        /\ clock # 0
    <2>1. /\ clock \in Names /\ m \in 0..MaxMsgs
          /\ local \in [Names -> 0..MaxMsgs] /\ locFile \in [Msgs -> 0..MaxClock]
      BY DEF DataOK, Msgs
    <2>2. clock \in 0..MaxClock /\ clock # 0
      BY <2>1 DEF Names
    <2> QED
      BY <2>1, <2>2
  <1>1. ListedFilesExist'
    BY DEF ListedFilesExist
  <1>2. ControlOK'
    BY <1>a DEF ControlOK, LinkTypeOK
  <1>3. DataOK'
    BY <1>a DEF DataOK
  <1>4. SavingShape'
    BY DEF SavingShape, NameShape, DataOK
  <1>5. NameShape'
    <2>1. ASSUME NEW t \in Names, local'[t] # 0
          PROVE  local'[t] <= produced' /\ locFile'[local'[t]] = t
      <3>1. CASE t = clock
        BY <1>a, <3>1 DEF DataOK
      <3>2. CASE t # clock
        <4>1. local'[t] = local[t] /\ local[t] \in Msgs /\ local[t] # m
          BY <1>a, <2>1, <3>2, InHand
        <4> QED
          BY <1>a, <4>1, <2>1 DEF NameShape, DataOK
      <3> QED
        BY <3>1, <3>2
    <2>2. \A t \in Names : pending'[t] # 0 =>
             pending'[t] <= produced' /\ penFile'[pending'[t]] = t
      BY DEF NameShape, DataOK
    <2>3. ASSUME NEW n \in Msgs, n > produced'
          PROVE  locFile'[n] = 0 /\ penFile'[n] = 0 /\ sends'[n] = 0
      <3>1. n # m /\ n > produced
        BY <2>3 DEF DataOK, Msgs
      <3> QED
        BY <1>a, <3>1 DEF NameShape
    <2> QED
      BY <2>1, <2>2, <2>3 DEF NameShape
  <1>6. ListShape'
    BY DEF ListShape, Reading, DayOf
  <1>7. ThreadShape'
    <2>1. produced \in Nat /\ payload \in Nat /\ Queued' = Queued
      BY DEF DataOK, ControlOK, Queued
    <2> QED
      BY <2>1 DEF ThreadShape
  <1>8. Credit'
    <2>1. ASSUME NEW t \in Names, pending[t] # 0
          PROVE  sends'[pending[t]] <= Notified(pending[t])
      <3>1. pending[t] \in Msgs /\ pending[t] # m
        BY <2>1, InHand
      <3> QED
        BY <2>1, <3>1 DEF Credit
    <2>2. payload # 0 => sends'[payload] <= Notified(payload)
      BY InHand DEF Credit
    <2> QED
      BY <2>1, <2>2 DEF Credit, Notified
  <1>9. SentOnce'
    <2>1. ASSUME NEW n \in Msgs
          PROVE  sends'[n] + (IF payload = n THEN 1 ELSE 0)
                   <= 1 + (IF n \in NotifyMsgs THEN 1 ELSE 0)
      <3>1. CASE n = m
        BY <3>1 DEF DataOK
      <3>2. CASE n # m
        BY <3>2 DEF SentOnce
      <3> QED
        BY <3>1, <3>2
    <2> QED
      BY <2>1 DEF SentOnce
  <1>10. NothingVanishes'
    <2>1. 1..produced' = (1..produced) \cup {m} /\ 0 \notin 1..produced
          /\ m \notin 1..produced /\ 1..produced \subseteq Msgs
      BY InHand
    <2>2. Queued' = Queued /\ Stored(pending)' = Stored(pending)
      BY DEF Queued, Stored
    <2>3. /\ Stored(local) \subseteq Stored(local') \cup {local[clock]}
          /\ m \in Stored(local')
      BY <1>a, StoredWrite
    <2>4. ASSUME NEW n \in 1..produced
          PROVE  /\ n \in Stored(local') \/ Overwritten(n, locFile)'
                 /\ \/ n \in published' \cup Stored(pending)' \cup Queued' \cup {cur'} \cup lost'
                    \/ Overwritten(n, penFile)'
      <3>1. /\ n \in Stored(local) \/ Overwritten(n, locFile)
            /\ \/ n \in published \cup Stored(pending) \cup Queued \cup {cur} \cup lost
               \/ Overwritten(n, penFile)
        BY DEF NothingVanishes
      <3>2. n # m /\ n # 0 /\ n \in Msgs
        BY <2>1
      <3>3. Overwritten(n, penFile) => Overwritten(n, penFile)'
        BY <2>1 DEF Overwritten
      <3>4. Overwritten(n, locFile) => Overwritten(n, locFile)'
        BY <1>a, <2>1, <3>2 DEF Overwritten
      <3>5. local[clock] = n => Overwritten(n, locFile)'
        <4>1. local[clock] = n => locFile[n] = clock
          BY <1>a, <3>2 DEF NameShape
        <4> QED
          BY <1>a, <2>1, <3>2, <4>1 DEF Overwritten
      <3> QED
        BY <2>2, <2>3, <3>1, <3>2, <3>3, <3>4, <3>5
    <2>5. /\ m \in Stored(local')
          /\ m \in published' \cup Stored(pending)' \cup Queued' \cup {cur'} \cup lost'
      BY <2>3
    <2> QED
      BY <2>1, <2>4, <2>5 DEF NothingVanishes
  <1> QED
    BY <1>1, <1>2, <1>3, <1>4, <1>5, <1>6, <1>7, <1>8, <1>9, <1>10

\* A file of the same second goes; its message and the one being saved were
\* given the same name.
LEMMA SaveMkdirStep ==
    ASSUME Inv, SaveMkdir
    PROVE  Inv'
  <1> USE ConstantsOK
  <1> USE DEF Inv, SaveMkdir, restAtSave, linkVars, thread
  <1>a. /\ clock \in Names /\ clock \in 0..MaxClock /\ clock # 0
        /\ cur \in Msgs /\ cur # 0 /\ penFile[cur] = 0 /\ cur <= produced
        /\ cur # payload /\ \A t \in Names : pending[t] # cur
        /\ cur \in 1..produced
    <2>1. clock \in Names /\ cur # 0 /\ penFile[cur] = 0 /\ cur <= produced
          /\ cur # payload /\ \A t \in Names : pending[t] # cur
      BY DEF DataOK, SavingShape
    <2>2. clock \in 0..MaxClock /\ clock # 0
      BY <2>1 DEF Names
    <2>3. cur \in Msgs /\ produced \in Nat
      BY <2>1, InHand
    <2> QED
      BY <2>1, <2>2, <2>3 DEF Msgs
  <1>b. /\ pending \in [Names -> 0..MaxMsgs] /\ penFile \in [Msgs -> 0..MaxClock]
        /\ pending' \in [Names -> 0..MaxMsgs] /\ penFile' \in [Msgs -> 0..MaxClock]
        /\ \A t \in Names : pending'[t] = IF t = clock THEN 0 ELSE pending[t]
        /\ \A n \in Msgs : penFile'[n] = IF n = cur THEN clock ELSE penFile[n]
    <2>1. /\ pending \in [Names -> 0..MaxMsgs] /\ penFile \in [Msgs -> 0..MaxClock]
          /\ 0 \in 0..MaxMsgs
      BY DEF DataOK
    <2> QED
      BY <1>a, <2>1
  <1>1. DataOK'
    BY <1>b DEF DataOK
  <1>2. ControlOK'
    <2>1. DayOf(clock) \in {1, 2}
      BY DEF DayOf
    <2> QED
      BY <1>a, <2>1 DEF ControlOK, LinkTypeOK
  <1>3. ListedFilesExist'
    BY <1>b DEF ListedFilesExist, ControlOK
  <1>4. SavingShape'
    BY <1>a, <1>b DEF SavingShape
  <1>5. NameShape'
    <2>1. ASSUME NEW t \in Names, pending'[t] # 0
          PROVE  pending'[t] <= produced' /\ penFile'[pending'[t]] = t
      <3>1. pending'[t] = pending[t] /\ pending[t] \in Msgs /\ pending[t] # cur
        BY <1>a, <1>b, <2>1, InHand
      <3> QED
        BY <1>b, <3>1, <2>1 DEF NameShape
    <2>2. ASSUME NEW n \in Msgs, n > produced PROVE penFile'[n] = 0
      BY <1>a, <1>b, <2>2, InHand DEF NameShape, Msgs
    <2> QED
      BY <2>1, <2>2 DEF NameShape
  <1>6. ListShape'
    BY DEF ListShape, Reading, DayOf
  <1>7. ThreadShape'
    <2>1. Queued' = Queued
      BY DEF Queued
    <2>2. payload # 0 => penFile'[payload] = penFile[payload]
      BY <1>a, <1>b, InHand
    <2> QED
      BY <2>1, <2>2 DEF ThreadShape
  <1>8. Credit'
    BY <1>b DEF Credit, Notified
  <1>9. SentOnce'
    BY DEF SentOnce
  <1>10. NothingVanishes'
    <2>1. Stored(local)' = Stored(local) /\ Queued' = Queued
      BY DEF Stored, Queued
    <2>2. Stored(pending) \subseteq Stored(pending') \cup {pending[clock]}
      <3>1. /\ pending' = [pending EXCEPT ![clock] = 0] /\ 0 \in 0..MaxMsgs
            /\ pending \in [Names -> 0..MaxMsgs] /\ clock \in Names
        BY <1>a, <1>b
      <3>2. Stored(pending) \subseteq Stored([pending EXCEPT ![clock] = 0]) \cup {pending[clock]}
        BY <3>1, StoredWrite
      <3> QED
        BY <3>1, <3>2
    <2>3. ASSUME NEW n \in 1..produced
          PROVE  /\ n \in Stored(local') \/ Overwritten(n, locFile)'
                 /\ \/ n \in published' \cup Stored(pending') \cup Queued' \cup {cur'} \cup lost'
                    \/ Overwritten(n, penFile)'
      <3>1. /\ n \in Stored(local) \/ Overwritten(n, locFile)
            /\ \/ n \in published \cup Stored(pending) \cup Queued \cup {cur} \cup lost
               \/ Overwritten(n, penFile)
        BY DEF NothingVanishes
      <3>2. n # 0 /\ n \in Msgs /\ 1..produced \subseteq Msgs
        BY InHand
      <3>3. Overwritten(n, locFile) => Overwritten(n, locFile)'
        BY DEF Overwritten
      <3>4. Overwritten(n, penFile) => Overwritten(n, penFile)'
        BY <1>a, <1>b, <3>2 DEF Overwritten
      <3>5. pending[clock] = n => Overwritten(n, penFile)'
        <4>1. pending[clock] = n => penFile[n] = clock /\ n # cur
          BY <1>a, <3>2 DEF NameShape
        <4> QED
          BY <1>a, <1>b, <3>2, <4>1 DEF Overwritten
      <3> QED
        BY <2>1, <2>2, <3>1, <3>3, <3>4, <3>5
    <2> QED
      BY <2>3 DEF NothingVanishes
  <1> QED
    BY <1>1, <1>2, <1>3, <1>4, <1>5, <1>6, <1>7, <1>8, <1>9, <1>10

\* The message gets its pending file, or is given up with its directory. The
\* directory of a listed file is there.
LEMMA SaveCopyStep ==
    ASSUME Inv, SaveCopy
    PROVE  Inv'
  <1> USE ConstantsOK
  <1> USE DEF Inv, SaveCopy, restAtSave, linkVars, thread
  <1>0. /\ curName \in Names /\ pending[curName] = 0
        /\ cur \in Msgs /\ cur # 0 /\ penFile[cur] = curName
        /\ cur <= produced /\ cur # payload
    BY InHand DEF SavingShape
  <1>a. Queued' = Queued
    BY DEF Queued
  <1>b. /\ pending' \in [Names -> 0..MaxMsgs]
        /\ Stored(pending) \subseteq Stored(pending') \cup {0}
        /\ cur \in Stored(pending') \cup lost'
        /\ lost \subseteq lost' /\ lost' \subseteq Msgs
        /\ \A t \in Names :
              pending'[t] = pending[t] \/ (t = curName /\ pending'[t] = cur)
        /\ DayOf(curName) \in penDirs => pending'[curName] = cur
    <2>1. /\ pending \in [Names -> 0..MaxMsgs]
          /\ cur \in 0..MaxMsgs /\ cur \in Msgs /\ cur # 0
          /\ lost \subseteq Msgs
      BY <1>0 DEF DataOK, ControlOK
    <2>2. CASE DayOf(curName) \in penDirs
      <3>1. pending' = [pending EXCEPT ![curName] = cur] /\ lost' = lost
        BY <2>2
      <3>2. /\ [pending EXCEPT ![curName] = cur] \in [Names -> 0..MaxMsgs]
            /\ Stored(pending) \subseteq
                 Stored([pending EXCEPT ![curName] = cur])
                     \cup {pending[curName]}
            /\ cur \in Stored([pending EXCEPT ![curName] = cur])
        BY <1>0, <2>1, StoredWrite
      <3>3. /\ pending'[curName] = cur
            /\ \A t \in Names :
                 pending'[t] = pending[t] \/ (t = curName /\ pending'[t] = cur)
        BY <1>0, <2>1, <3>1
      <3> QED
        BY <1>0, <2>1, <3>1, <3>2, <3>3
    <2>3. CASE DayOf(curName) \notin penDirs
      <3>1. pending' = pending /\ lost' = lost \cup {cur}
        BY <2>3
      <3> QED
        BY <2>1, <2>3, <3>1
    <2> QED
      BY <2>2, <2>3
  <1>1. ControlOK'
    BY DEF ControlOK, LinkTypeOK
  <1>2. DataOK'
    BY <1>b DEF DataOK
  <1>3. ListedFilesExist'
    <2>1. ASSUME NEW t \in files PROVE pending'[t] # 0
      <3>1. DayOf(t) \in penDirs /\ t \in Names
        BY DEF ListShape, ControlOK
      <3>2. CASE t = curName
        BY <1>0, <1>b, <3>1, <3>2
      <3>3. CASE t # curName
        BY <1>b, <3>1, <3>3 DEF ListedFilesExist
      <3> QED
        BY <3>2, <3>3
    <2> QED
      BY <2>1 DEF ListedFilesExist
  <1>4. SavingShape'
    BY DEF SavingShape
  <1>5. NameShape'
    <2>1. ASSUME NEW t \in Names, pending'[t] # 0
          PROVE  pending'[t] <= produced' /\ penFile'[pending'[t]] = t
      BY <1>0, <1>b, <2>1 DEF NameShape
    <2> QED
      BY <2>1 DEF NameShape
  <1>6. ListShape'
    BY DEF ListShape, Reading, DayOf
  <1>7. ThreadShape'
    BY <1>a, <1>b DEF ThreadShape
  <1>8. Credit'
    <2>1. ASSUME NEW t \in Names, pending'[t] # 0
          PROVE  sends[pending'[t]] <= Notified(pending'[t])
      BY <1>0, <1>b, <2>1 DEF Credit
    <2> QED
      BY <2>1 DEF Credit, Notified
  <1>9. SentOnce'
    BY DEF SentOnce
  <1>10. NothingVanishes'
    <2>1. ASSUME NEW m \in 1..produced, m \in Around PROVE m \in Around'
      <3>1. m # 0
        OBVIOUS
      <3> QED
        BY <1>a, <1>b, <2>1, <3>1 DEF Around
    <2> QED
      BY <2>1, AccountKept
  <1> QED
    BY <1>1, <1>2, <1>3, <1>4, <1>5, <1>6, <1>7, <1>8, <1>9, <1>10

\* What leaves the queue is published or given up.
LEMMA HandleNeedPushStep ==
    ASSUME Inv, HandleNeedPush
    PROVE  Inv'
  <1> USE ConstantsOK
  <1> USE DEF Inv, HandleNeedPush, Publish, Established, linkVars, store,
              thread, saving
  <1>0. /\ queue' \in Seq(Msgs) /\ Head(queue) \in Msgs
        /\ Queued = Queued' \cup {Head(queue)}
    <2>1. queue \in Seq(Msgs) /\ queue # << >> /\ queue' = Tail(queue)
      BY DEF DataOK
    <2>2. Queued = Elems(queue) /\ Queued' = Elems(queue')
      BY DEF Queued, Elems
    <2> QED
      BY <2>1, <2>2, ElemsTail
  <1>a. /\ published \subseteq published' /\ lost \subseteq lost'
        /\ Head(queue) \in published' \cup lost'
    OBVIOUS
  <1>1. ListedFilesExist' /\ SavingShape' /\ NameShape' /\ SentOnce'
    BY DEF ListedFilesExist, SavingShape, NameShape, SentOnce
  <1>2. ListShape' /\ Credit'
    BY DEF ListShape, Reading, DayOf, Credit, Notified
  <1>3. ControlOK'
    BY DEF ControlOK, LinkTypeOK
  <1>4. DataOK'
    BY <1>0 DEF DataOK
  <1>5. ThreadShape'
    BY <1>0, <1>a DEF ThreadShape
  <1>6. NothingVanishes'
    <2>1. Around \subseteq Around'
      BY <1>0, <1>a DEF Around, Stored
    <2> QED
      BY <2>1, AccountKept
  <1> QED
    BY <1>1, <1>2, <1>3, <1>4, <1>5, <1>6

\* The slots of the link touch no file and nothing the thread has in hand.
LEMMA LinkStep ==
    ASSUME Inv, Connected \/ Disconnected \/ NetworkOffline \/ WaitReturns \/ LinkChange
    PROVE  Inv'
  <1>1. /\ UNCHANGED restAtLink
        /\ UNCHANGED <<dirs, dir, files, file, payload>>
        /\ worker' = worker \/ (worker = "stopped" /\ worker' = "starting")
        /\ main \in {"loop", "waiting"} /\ main' \in {"loop", "waiting"}
        /\ isOn' \in BOOLEAN /\ LinkTypeOK' /\ stops' \in 0..MaxStops
    <2> USE ConstantsOK
    <2> USE DEF Inv, ControlOK, DataOK, LinkTypeOK, linkVars, thread
    <2>1. CASE Connected
      BY <2>1 DEF Connected, LinkReady, RePushStart
    <2>0. stops < MaxStops => stops + 1 \in 0..MaxStops
      OBVIOUS
    <2>2. CASE Disconnected
      <3>1. RePushStop /\ stops' \in 0..MaxStops
        BY <2>0, <2>2 DEF Disconnected, RePushStop
      <3>2. LinkTypeOK'
        BY <2>2 DEF Disconnected, LinkLost
      <3> QED
        BY <2>2, <3>1, <3>2 DEF Disconnected, RePushStop
    <2>3. CASE NetworkOffline
      <3>1. RePushStop /\ stops' \in 0..MaxStops
        BY <2>0, <2>3 DEF NetworkOffline, RePushStop
      <3>2. LinkTypeOK'
        BY <2>3 DEF NetworkOffline, FlagChange
      <3> QED
        BY <2>3, <3>1, <3>2 DEF NetworkOffline, RePushStop
    <2>4. CASE WaitReturns
      BY <2>4 DEF WaitReturns
    <2>5. CASE LinkChange
      BY <2>5 DEF LinkChange, TcpUp, LinkClosing, FlagChange, Established
    <2> QED
      BY <2>1, <2>2, <2>3, <2>4, <2>5
  <1> USE <1>1 DEF Inv, restAtLink, store, history
  <1>2. ControlOK' /\ DataOK'
    BY DEF ControlOK, DataOK
  <1>3. ListedFilesExist' /\ SavingShape' /\ NameShape'
    BY DEF ListedFilesExist, SavingShape, NameShape
  <1>4. ListShape' /\ ThreadShape'
    BY DEF ListShape, Reading, DayOf, ThreadShape, Queued
  <1>5. Credit' /\ SentOnce'
    BY DEF Credit, Notified, SentOnce
  <1>6. NothingVanishes'
    <2>1. Around' = Around
      BY DEF Around, Stored, Queued
    <2> QED
      BY <2>1, AccountKept
  <1> QED
    BY <1>2, <1>3, <1>4, <1>5, <1>6

\* The thread begins and ends, makes its list and looks at the switch: no file
\* is written or removed. The list is made of files that exist.
LEMMA RunListStep ==
    ASSUME Inv, RunBegin \/ RunNextDir \/ RunCheck
    PROVE  Inv'
  <1>1. /\ UNCHANGED <<queue, store, history, restAtRun>>
        /\ files' \subseteq Names /\ \A t \in files' : pending[t] # 0 \/ t \in files
        /\ dir' \in {0, 1, 2} /\ file' \in 0..MaxClock
        /\ worker' \in {"stopped", "starting", "dir", "file", "check", "remove"}
        /\ ListShape'
        /\ payload' # 0 <=> worker' \in {"check", "remove"}
        /\ payload' # 0 => payload' = payload /\ file' = file /\ files' = files
        /\ payload' \in {0, payload}
    <2> USE ConstantsOK DEF Inv, ControlOK, ListShape, Reading, ThreadShape, restAtRun
    <2>0. 0 \in 0..MaxClock
      OBVIOUS
    <2>1. CASE RunBegin
      BY <2>0, <2>1 DEF RunBegin, RunEnds, store
    <2>2. CASE RunCheck
      <3>1. CASE isOn
        BY <2>2, <3>1 DEF RunCheck, store, DayOf
      <3>2. CASE ~isOn
        BY <2>0, <2>2, <3>2 DEF RunCheck, RunEnds, store
      <3> QED
        BY <3>1, <3>2
    <2>3. CASE RunNextDir /\ dirs = {}
      BY <2>0, <2>3 DEF RunNextDir, RunEnds, store
    <2>4. CASE RunNextDir /\ dirs # {}
      <3>1. dirs \in SUBSET (0..2)
        OBVIOUS
      <3>2. Newest(dirs) \in dirs
        BY <2>4, <3>1, NewestIsIn
      <3>3. /\ worker = "dir" /\ worker' = "file" /\ dir' = Newest(dirs)
            /\ dirs' = dirs \ {dir'} /\ files' = NamesIn(dir')
            /\ UNCHANGED <<file, payload, queue, store, history, restAtRun>>
        BY <2>4 DEF RunNextDir
      <3>4. files' \subseteq Names /\ \A t \in files' : pending[t] # 0 /\ DayOf(t) = dir'
        BY <3>3 DEF NamesIn
      <3>5. dir' \in {1, 2} /\ dir' \in penDirs' \ dirs' /\ dirs' \subseteq penDirs'
        BY <3>2, <3>3 DEF store
      <3>6. \A t \in files' : DayOf(t)' = dir'
        BY <3>4 DEF DayOf
      <3>7. payload = 0
        BY <3>3
      <3> QED
        BY <3>3, <3>4, <3>5, <3>6, <3>7
    <2> QED
      BY <2>1, <2>2, <2>3, <2>4
  <1> USE <1>1 DEF Inv, restAtRun, store, history, linkVars, saving
  <1>2. ControlOK'
    <2>1. 0 \in 0..MaxMsgs /\ dirs' \subseteq penDirs
      BY ConstantsOK DEF ListShape
    <2>2. dirs' \subseteq {1, 2}
      BY <2>1 DEF ControlOK
    <2>3. payload' \in 0..MaxMsgs
      BY <2>1 DEF ControlOK
    <2> QED
      BY <2>2, <2>3 DEF ControlOK, LinkTypeOK
  <1>3. DataOK' /\ NameShape'
    BY DEF DataOK, NameShape
  <1>4. ListedFilesExist'
    BY DEF ListedFilesExist
  <1>5. SavingShape'
    BY DEF SavingShape
  <1>6. ThreadShape'
    BY DEF ThreadShape, Queued
  <1>7. Credit' /\ SentOnce'
    <2>1. Credit'
      BY DEF Credit, Notified
    <2>2. ASSUME NEW m \in Msgs
          PROVE  sends[m] + (IF payload' = m THEN 1 ELSE 0)
                   <= 1 + (IF m \in NotifyMsgs THEN 1 ELSE 0)
      <3>1. payload' = m => payload = m
        BY DEF Msgs
      <3>2. sends[m] \in Nat
        BY DEF DataOK
      <3>3. sends[m] + (IF payload = m THEN 1 ELSE 0)
                   <= 1 + (IF m \in NotifyMsgs THEN 1 ELSE 0)
        BY DEF SentOnce
      <3> QED
        BY <3>1, <3>2, <3>3
    <2> QED
      BY <2>1, <2>2 DEF SentOnce
  <1>8. NothingVanishes'
    <2>1. Around' = Around
      BY DEF Around, Stored, Queued
    <2> QED
      BY <2>1, AccountKept
  <1> QED
    BY <1>1, <1>2, <1>3, <1>4, <1>5, <1>6, <1>7, <1>8

\* What is read had not been sent, and is now queued.
LEMMA RunEmitStep ==
    ASSUME Inv, RunEmit
    PROVE  Inv'
  <1> USE ConstantsOK
  <1> USE DEF Inv, RunEmit, restAtRun, linkVars, store, saving, history
  <1>0. PICK e \in Names :
           /\ file' = e /\ e \in files /\ files' = files \ {e}
           /\ pending[e] # 0 /\ pending[e] \in Msgs /\ payload' = pending[e]
           /\ queue' = Append(queue, pending[e])
    <2>1. files \in SUBSET (0..MaxClock)
      BY DEF ControlOK, Names
    <2>2. file' = Newest(files) /\ file' \in files /\ pending[file'] # 0
      BY <2>1, NewestIsIn DEF Opens
    <2>3. file' \in Names
      BY <2>2 DEF ControlOK
    <2> QED
      BY <2>2, <2>3, InHand
  <1>a. queue' \in Seq(Msgs) /\ Queued' = Queued \cup {pending[e]}
    <2>1. queue \in Seq(Msgs) /\ queue' = Append(queue, pending[e])
      BY <1>0 DEF DataOK
    <2>2. Queued = Elems(queue) /\ Queued' = Elems(queue')
      BY DEF Queued, Elems
    <2> QED
      BY <1>0, <2>1, <2>2, ElemsAppend
  <1>1. ListedFilesExist' /\ NameShape'
    BY <1>0 DEF ListedFilesExist, NameShape
  <1>2. ControlOK'
    <2>1. file' \in 0..MaxClock
      BY <1>0 DEF Names
    <2>2. files' \subseteq Names /\ payload' \in 0..MaxMsgs
      BY <1>0 DEF ControlOK, DataOK
    <2> QED
      BY <2>1, <2>2 DEF ControlOK, LinkTypeOK
  <1>3. DataOK'
    BY <1>a DEF DataOK
  <1>4. SavingShape'
    BY <1>0 DEF SavingShape
  <1>5. ListShape'
    BY <1>0 DEF ListShape, Reading, DayOf
  <1>6. ThreadShape'
    BY <1>0, <1>a DEF ThreadShape, NameShape
  <1>7. Credit'
    BY <1>0 DEF Credit, Notified
  <1>8. SentOnce'
    <2>1. ASSUME NEW m \in Msgs
          PROVE  sends[m] + (IF payload' = m THEN 1 ELSE 0)
                   <= 1 + (IF m \in NotifyMsgs THEN 1 ELSE 0)
      <3>1. sends[m] \in Nat
        BY DEF DataOK
      <3>2. CASE m = pending[e]
        BY <1>0, <3>1, <3>2 DEF Credit, Notified
      <3>3. CASE m # pending[e]
        BY <1>0, <3>1, <3>3 DEF SentOnce, ThreadShape
      <3> QED
        BY <3>2, <3>3
    <2> QED
      BY <2>1 DEF SentOnce
  <1>9. NothingVanishes'
    <2>1. Around \subseteq Around'
      BY <1>a DEF Around, Stored
    <2> QED
      BY <2>1, AccountKept
  <1> QED
    BY <1>1, <1>2, <1>3, <1>4, <1>5, <1>6, <1>7, <1>8, <1>9

\* The file that goes is that of the message read, or of one saved in the same
\* second since.
LEMMA RunRemoveStep ==
    ASSUME Inv, RunRemove
    PROVE  Inv'
  <1> USE ConstantsOK
  <1> USE DEF Inv, RunRemove, Sent, restAtRun, linkVars, saving
  <1>0. /\ file \in Names /\ file \notin files
        /\ payload # 0 /\ payload \in Msgs /\ payload \in 1..produced
        /\ payload # cur /\ penFile[payload] = file
        /\ payload \in published \cup Queued \cup lost
        /\ file # 0 /\ sends[payload] <= Notified(payload)
    <2>1. payload # 0
      BY DEF ThreadShape
    <2>2. payload \in 1..produced
      BY <2>1, InHand DEF ThreadShape, Msgs
    <2> QED
      BY <2>1, <2>2, InHand DEF ThreadShape, SavingShape, Credit, ControlOK, Names
  <1>a. /\ pending' \in [Names -> 0..MaxMsgs]
        /\ Stored(pending) \subseteq Stored(pending') \cup {pending[file]}
        /\ \A t \in Names : pending'[t] = IF t = file THEN 0 ELSE pending[t]
    <2>1. pending \in [Names -> 0..MaxMsgs] /\ 0 \in 0..MaxMsgs
      BY DEF DataOK
    <2>2. pending' = [pending EXCEPT ![file] = 0]
      OBVIOUS
    <2>3. /\ [pending EXCEPT ![file] = 0] \in [Names -> 0..MaxMsgs]
          /\ Stored(pending) \subseteq
                 Stored([pending EXCEPT ![file] = 0]) \cup {pending[file]}
      BY <1>0, <2>1, StoredWrite
    <2>4. \A t \in Names : pending'[t] = IF t = file THEN 0 ELSE pending[t]
      BY <2>1, <2>2
    <2> QED
      BY <2>2, <2>3, <2>4
  <1>b. /\ sends' \in [Msgs -> Nat] /\ sends \in [Msgs -> Nat]
        /\ sends'[payload] = sends[payload] + 1
        /\ \A m \in Msgs : m # payload => sends'[m] = sends[m]
    BY <1>0 DEF DataOK
  <1>1. ListedFilesExist'
    BY <1>0, <1>a DEF ListedFilesExist, ControlOK
  <1>2. ControlOK'
    <2>1. 0 \in 0..MaxMsgs /\ 0 \in 0..MaxClock
      OBVIOUS
    <2> QED
      BY <2>1 DEF ControlOK, LinkTypeOK
  <1>3. DataOK'
    <2>1. {pending[file]} \ {0} \subseteq Msgs
      BY <1>0, InHand
    <2> QED
      BY <1>a, <1>b, <2>1 DEF DataOK
  <1>4. SavingShape'
    BY <1>a DEF SavingShape
  <1>5. NameShape'
    <2>1. ASSUME NEW m \in Msgs, m > produced PROVE sends'[m] = 0
      BY <1>0, <1>b, <2>1, InHand DEF NameShape
    <2>2. \A t \in Names : pending'[t] # 0 =>
             pending'[t] <= produced /\ penFile[pending'[t]] = t
      BY <1>a DEF NameShape
    <2> QED
      BY <2>1, <2>2 DEF NameShape
  <1>6. ListShape' /\ ThreadShape'
    BY DEF ListShape, Reading, DayOf, ThreadShape
  <1>7. Credit'
    <2>1. ASSUME NEW t \in Names, pending'[t] # 0
          PROVE  sends'[pending'[t]] <= Notified(pending'[t])
      <3>1. t # file /\ pending'[t] = pending[t] /\ pending[t] \in Msgs
        BY <1>a, <2>1, InHand
      <3>2. pending[t] # payload
        BY <1>0, <3>1, <2>1 DEF NameShape
      <3> QED
        BY <1>b, <2>1, <3>1, <3>2 DEF Credit
    <2>2. cur # 0 => sends'[cur] <= Notified(cur)
      BY <1>0, <1>b, InHand DEF Credit
    <2> QED
      BY <2>1, <2>2 DEF Credit, Notified
  <1>8. SentOnce'
    <2>1. ASSUME NEW m \in Msgs
          PROVE  sends'[m] + (IF payload' = m THEN 1 ELSE 0)
                   <= 1 + (IF m \in NotifyMsgs THEN 1 ELSE 0)
      <3>1. payload' # m /\ sends[m] \in Nat /\ sends'[m] \in Nat
        BY <1>b DEF Msgs
      <3>2. CASE m = payload
        BY <1>0, <1>b, <3>1, <3>2 DEF Notified
      <3>3. CASE m # payload
        BY <1>b, <3>1, <3>3 DEF SentOnce
      <3> QED
        BY <3>2, <3>3
    <2> QED
      BY <2>1 DEF SentOnce
  <1>9. NothingVanishes'
    <2>1. Queued' = Queued
      BY DEF Queued
    <2>2. ASSUME NEW m \in 1..produced, m \in Around
          PROVE  m \in Around' \/ Overwritten(m, penFile)
      <3>1. m # 0
        OBVIOUS
      <3>2. CASE m # pending[file]
        BY <1>a, <2>1, <2>2, <3>1, <3>2 DEF Around
      <3>3. CASE m = pending[file] /\ m = payload
        BY <1>0, <2>1, <3>3 DEF Around
      <3>4. CASE m = pending[file] /\ m # payload
        BY <1>0, <3>1, <3>4 DEF Overwritten, NameShape
      <3> QED
        BY <3>2, <3>3, <3>4
    <2> QED
      BY <2>2, AccountKept
  <1> QED
    BY <1>1, <1>2, <1>3, <1>4, <1>5, <1>6, <1>7, <1>8, <1>9

\* Only a directory goes, one that the thread has no list of any more.
LEMMA RunRmdirStep ==
    ASSUME Inv, RunRmdir
    PROVE  Inv'
  <1> USE ConstantsOK
  <1> USE DEF Inv, RunRmdir, restAtRun, linkVars, saving, history
  <1>1. DataOK' /\ ListedFilesExist' /\ SavingShape' /\ NameShape' /\ SentOnce'
    BY DEF DataOK, ListedFilesExist, SavingShape, NameShape, SentOnce
  <1>2. ControlOK'
    BY DEF ControlOK, LinkTypeOK
  <1>3. ListShape' /\ ThreadShape'
    BY DEF ListShape, Reading, DayOf, ThreadShape
  <1>4. Credit'
    BY DEF Credit, Notified
  <1>5. NothingVanishes'
    <2>1. Around' = Around
      BY DEF Around, Stored, Queued
    <2> QED
      BY <2>1, AccountKept
  <1> QED
    BY <1>1, <1>2, <1>3, <1>4, <1>5

\* Time alone changes no name there is.
LEMMA SecondStep ==
    ASSUME Inv, Second
    PROVE  Inv'
  <1> USE ConstantsOK
  <1> USE DEF Inv, Second, linkVars, store, thread, saving, history
  <1>1. ListedFilesExist' /\ SavingShape' /\ NameShape' /\ SentOnce'
    BY DEF ListedFilesExist, SavingShape, NameShape, SentOnce
  <1>2. ControlOK'
    BY DEF ControlOK, LinkTypeOK
  <1>3. DataOK'
    <2>1. clock' \in Names
      BY DEF DataOK, Names
    <2> QED
      BY <2>1 DEF DataOK
  <1>4. ListShape' /\ ThreadShape'
    BY DEF ListShape, Reading, DayOf, ThreadShape, Queued
  <1>5. Credit'
    BY DEF Credit, Notified
  <1>6. NothingVanishes'
    <2>1. Around' = Around
      BY DEF Around, Stored, Queued
    <2> QED
      BY <2>1, AccountKept
  <1> QED
    BY <1>1, <1>2, <1>3, <1>4, <1>5, <1>6

\* A crash or a restart leaves the files as they are; what was queued or being
\* saved is given up.
LEMMA ProcessEndsStep ==
    ASSUME Inv, RunCrash \/ Restart
    PROVE  Inv'
  <1> USE ConstantsOK
  <1>0. ProcessEnds /\ stops' \in 0..MaxStops
    BY DEF RunCrash, Restart, Inv, DataOK
  <1> USE <1>0 DEF Inv, ProcessEnds, RunEnds, store
  <1>1. ListedFilesExist' /\ SavingShape' /\ NameShape'
    BY DEF ListedFilesExist, SavingShape, NameShape
  <1>2. ControlOK'
    <2>1. 0 \in 0..MaxMsgs /\ 0 \in 0..MaxClock
      OBVIOUS
    <2> QED
      BY <2>1 DEF ControlOK, LinkTypeOK
  <1>3. DataOK'
    <2>1. Queued \subseteq Msgs /\ {cur} \ {0} \subseteq Msgs
      BY InHand
    <2>2. queue' \in Seq(Msgs)
      OBVIOUS
    <2> QED
      BY <2>1, <2>2 DEF DataOK
  <1>4. ListShape' /\ ThreadShape'
    BY DEF ListShape, Reading, ThreadShape
  <1>5. Credit'
    BY DEF Credit, Notified
  <1>6. SentOnce'
    <2>1. ASSUME NEW m \in Msgs
          PROVE  sends[m] + (IF payload' = m THEN 1 ELSE 0)
                   <= 1 + (IF m \in NotifyMsgs THEN 1 ELSE 0)
      <3>1. payload' # m /\ sends[m] \in Nat
        BY DEF DataOK, Msgs
      <3>2. sends[m] + (IF payload = m THEN 1 ELSE 0)
                   <= 1 + (IF m \in NotifyMsgs THEN 1 ELSE 0)
        BY DEF SentOnce
      <3> QED
        BY <3>1, <3>2
    <2> QED
      BY <2>1 DEF SentOnce
  <1>7. NothingVanishes'
    <2>1. ASSUME NEW m \in 1..produced, m \in Around PROVE m \in Around'
      BY <2>1 DEF Around, Stored
    <2> QED
      BY <2>1, AccountKept
  <1> QED
    BY <1>1, <1>2, <1>3, <1>4, <1>5, <1>6, <1>7

-----------------------------------------------------------------------------
(* The theorems                                                            *)

\* No step starts the thread, or leaves it running, beside a link that is not
\* acknowledged.
LEMMA WorkerStep ==
    ASSUME WorkerOnlyOnAckedLink, [Next]_vars
    PROVE  WorkerOnlyOnAckedLink'
  <1> USE DEF WorkerOnlyOnAckedLink, linkVars, thread, saving, restAtLink,
              restAtRun
  <1>1. ASSUME NEW m \in Msgs, Sample(m) \/ Notify(m)
        PROVE  WorkerOnlyOnAckedLink'
    BY <1>1 DEF Sample, Notify, NewMessage, SaveLocal
  <1>2. CASE SaveMkdir \/ SaveCopy \/ HandleNeedPush
    BY <1>2 DEF SaveMkdir, SaveCopy, HandleNeedPush, restAtSave
  <1>3. CASE Connected
    BY <1>3 DEF Connected, LinkReady, RePushStart
  <1>4. CASE Disconnected \/ NetworkOffline
    BY <1>4 DEF Disconnected, NetworkOffline, LinkLost, FlagChange, RePushStop
  <1>5. CASE WaitReturns
    BY <1>5 DEF WaitReturns
  <1>6. CASE LinkChange
    BY <1>6 DEF LinkChange, TcpUp, LinkClosing, FlagChange, Established
  <1>7. CASE Run
    BY <1>7 DEF Run, RunBegin, RunNextDir, RunEmit, RunCrash, RunCheck,
                RunRemove, RunRmdir, RunEnds, ProcessEnds
  <1>8. CASE Second
    BY <1>8 DEF Second
  <1>9. CASE Restart
    BY <1>9 DEF Restart, ProcessEnds, RunEnds
  <1>10. CASE UNCHANGED vars
    BY <1>10 DEF vars
  <1> QED
    BY <1>1, <1>2, <1>3, <1>4, <1>5, <1>6, <1>7, <1>8, <1>9, <1>10 DEF Next

\* The thread never runs beside a link that is not acknowledged: a new
\* connection always finds it idle or waited for.
THEOREM WorkerNeedsAckedLink == Spec => []WorkerOnlyOnAckedLink
  <1>1. Init => WorkerOnlyOnAckedLink
    BY DEF Init, WorkerOnlyOnAckedLink
  <1> QED
    BY <1>1, WorkerStep, PTL DEF Spec

\* The invariant holds at start-up.
LEMMA InitInv == Init => Inv
  <1> SUFFICES ASSUME Init PROVE Inv
    OBVIOUS
  <1> USE ConstantsOK DEF Init, LinkInit
  <1>1. ControlOK
    <2>1. 0 \in 0..MaxMsgs /\ 0 \in 0..MaxClock
      OBVIOUS
    <2> QED
      BY <2>1 DEF ControlOK, LinkTypeOK
  <1>2. DataOK
    <2>1. 1 \in Names /\ 0 \in 0..MaxMsgs /\ 0 \in 0..MaxStops
          /\ 0 \in 0..MaxClock
      BY DEF Names
    <2> QED
      BY <2>1 DEF DataOK
  <1>3. \A t \in Names : pending[t] = 0 /\ local[t] = 0
    OBVIOUS
  <1>4. ListedFilesExist /\ SavingShape /\ NameShape /\ ListShape /\ ThreadShape
    BY <1>3 DEF ListedFilesExist, SavingShape, NameShape, ListShape, Reading,
                ThreadShape
  <1>5. Credit
    BY <1>3 DEF Credit
  <1>6. SentOnce /\ NothingVanishes
    BY DEF SentOnce, NothingVanishes, Msgs
  <1> QED
    BY <1>1, <1>2, <1>4, <1>5, <1>6 DEF Inv

\* Every step keeps it.
LEMMA NextInv ==
    ASSUME Inv, [Next]_vars
    PROVE  Inv'
  <1>1. ASSUME NEW m \in Msgs, Sample(m) PROVE Inv'
    BY <1>1, ProduceStep
  <1>2. ASSUME NEW m \in Msgs, Notify(m) PROVE Inv'
    BY <1>2, ProduceStep
  <1>3. CASE SaveMkdir \/ SaveCopy \/ HandleNeedPush
    BY <1>3, SaveMkdirStep, SaveCopyStep, HandleNeedPushStep
  <1>4. CASE Connected \/ Disconnected \/ NetworkOffline \/ WaitReturns \/ LinkChange
    BY <1>4, LinkStep
  <1>5. CASE RunBegin \/ RunNextDir \/ RunCheck
    BY <1>5, RunListStep
  <1>6. CASE RunEmit \/ RunRemove \/ RunRmdir
    BY <1>6, RunEmitStep, RunRemoveStep, RunRmdirStep
  <1>7. CASE RunCrash \/ Second \/ Restart
    BY <1>7, SecondStep, ProcessEndsStep
  <1>8. CASE UNCHANGED vars
    <2> USE <1>8 DEF vars, linkVars, saving, thread, store, history, Inv
    <2>1. ControlOK' /\ DataOK'
      BY DEF ControlOK, DataOK, LinkTypeOK
    <2>2. ListedFilesExist' /\ SavingShape' /\ NameShape' /\ SentOnce'
      BY DEF ListedFilesExist, SavingShape, NameShape, SentOnce
    <2>3. ListShape' /\ ThreadShape' /\ Credit'
      BY DEF ListShape, Reading, DayOf, ThreadShape, Queued, Credit, Notified
    <2>4. NothingVanishes'
      <3>1. Around' = Around
        BY DEF Around, Stored, Queued
      <3> QED
        BY <3>1, AccountKept
    <2> QED
      BY <2>1, <2>2, <2>3, <2>4
  <1> QED
    BY <1>1, <1>2, <1>3, <1>4, <1>5, <1>6, <1>7, <1>8 DEF Next, Run

\* The inductive invariant holds throughout, whatever is saved when.
THEOREM InvOK == Spec => []Inv
  <1>1. Inv /\ [Next]_vars => Inv'
    BY NextInv
  <1> QED
    BY <1>1, InitInv, PTL DEF Spec

\* Every variable keeps its type: above all, no event is posted for a file
\* that has gone.
THEOREM TypeCorrect == Spec => []TypeOK
  <1>1. Inv => TypeOK
    BY DEF Inv, ControlOK, DataOK, TypeOK
  <1> QED
    BY <1>1, InvOK, PTL

\* Of the files on the thread's list none is ever missing but the one that
\* save has removed and is about to put back: the one case in which run opens a
\* file that is not there.
THEOREM ListIsNeverStale == Spec => []ListedFilesExist
  <1>1. Inv => ListedFilesExist
    BY DEF Inv
  <1> QED
    BY <1>1, InvOK, PTL

\* A message that is pushed from its file and the file removed was not sent
\* before and is not pushed again; only a notification may have been sent at
\* once as well.
THEOREM SentAtMostOnce == Spec => []SentOnce
  <1>1. Inv => SentOnce
    BY DEF Inv
  <1> QED
    BY <1>1, InvOK, PTL

\* Every message that shares its second with no other is kept in localData and
\* is sent, pending, queued, being saved, or given up at one of the four known
\* places.
THEOREM NothingIsLostUnseen == Spec => []NothingVanishes
  <1>1. Inv => NothingVanishes
    BY DEF Inv
  <1> QED
    BY <1>1, InvOK, PTL

\* Store and forward does to the link only what the contract allows, the one
\* that MqttLink implements: the two components fit together.
THEOREM KeepsLinkContract == Spec => LinkSpec
  <1>1. Init => LinkInit
    BY DEF Init
  <1>2. [Next]_vars => [LinkNext]_linkVars
    <2> SUFFICES ASSUME [Next]_vars PROVE [LinkNext]_linkVars
      OBVIOUS
    <2> USE DEF LinkNext, linkVars, restAtLink, restAtRun
    <2>1. ASSUME NEW m \in Msgs, Sample(m) PROVE [LinkNext]_linkVars
      BY <2>1 DEF Sample
    <2>2. ASSUME NEW m \in Msgs, Notify(m) PROVE [LinkNext]_linkVars
      BY <2>2 DEF Notify, FlagChange
    <2>3. CASE SaveMkdir \/ SaveCopy \/ WaitReturns \/ Second
      BY <2>3 DEF SaveMkdir, SaveCopy, WaitReturns, Second, restAtSave
    <2>4. CASE HandleNeedPush
      BY <2>4 DEF HandleNeedPush, FlagChange, Established
    <2>5. CASE Connected \/ Disconnected \/ NetworkOffline \/ LinkChange
      BY <2>5 DEF Connected, Disconnected, NetworkOffline, LinkChange
    <2>6. CASE Run
      <3>1. CASE RunCrash
        BY <3>1 DEF RunCrash, ProcessEnds, LinkLost, FlagChange
      <3> QED
        BY <2>6, <3>1 DEF Run, RunBegin, RunNextDir, RunEmit, RunCheck,
                          RunRemove, RunRmdir
    <2>7. CASE Restart
      BY <2>7 DEF Restart, ProcessEnds, LinkLost, FlagChange
    <2>8. CASE UNCHANGED vars
      BY <2>8 DEF vars
    <2> QED
      BY <2>1, <2>2, <2>3, <2>4, <2>5, <2>6, <2>7, <2>8 DEF Next
  <1> QED
    BY <1>1, <1>2, PTL DEF Spec, LinkSpec

-----------------------------------------------------------------------------
(* How a run of the thread ends                                            *)

\* More than the steps that one directory of pendingData can take.
Room == 3 * MaxClock + 2

\* A bound on the steps a run has left: three for each file still listed, one
\* for each directory it leaves, and the room of those still to be opened.
StepsLeft ==
    LET ahead == Cardinality(dirs) * Room
        listed == 3 * Cardinality(files)
    IN  CASE worker = "starting" -> 2 * Room + 2
          [] worker = "dir"      -> ahead + 1
          [] worker = "file"     -> ahead + listed + 2
          [] worker = "remove"   -> ahead + listed + 3
          [] worker = "check"    -> ahead + listed + 4
          [] OTHER               -> 0

\* The same for a thread whose switch is off: the first file it emits is the
\* last one, so that only directories without files are worth a step more.
StepsToStop ==
    LET ahead == 2 * Cardinality(dirs)
    IN  CASE worker = "starting" -> 6
          [] worker = "dir"      -> ahead + 1
          [] worker = "file"     -> IF files = {} THEN ahead + 2 ELSE 2
          [] worker = "remove"   -> ahead + 3
          [] worker = "check"    -> 1
          [] OTHER               -> 0

\* A pending file that the present run has still to come to.
Awaited(t) ==
    /\ pending[t] # 0
    /\ \/ worker = "starting"
       \/ worker # "stopped" /\ DayOf(t) \in dirs
       \/ worker \in {"file", "check", "remove"} /\ t \in files
       \/ worker \in {"check", "remove"} /\ t = file

\* Where the thread is in its lists.
Listing ==
    /\ worker \in {"stopped", "starting", "dir", "file", "check", "remove"}
    /\ clock \in Names
    /\ dirs \subseteq {1, 2} /\ penDirs \subseteq {1, 2}
    /\ files \subseteq Names
    /\ worker \in {"file", "check", "remove"} => dir \in {1, 2} \ dirs
    /\ main = "waiting" => ~isOn

\* A pending file lies in a directory that is there.
Housed ==
    /\ DOMAIN pending = Names
    /\ \A t \in Names : pending[t] # 0 => DayOf(t) \in penDirs

\* Both counts are bounded.
Bounded ==
    /\ StepsLeft \in 0..(2 * Room + 2)
    /\ StepsToStop \in 0..6

\* Sets of days and of names are finite, and shrink when one is taken out.
LEMMA DaysAndNames ==
    /\ \A D \in SUBSET {1, 2} :
         /\ Cardinality(D) \in 0..2
         /\ \A d \in D : Cardinality(D \ {d}) = Cardinality(D) - 1
    /\ \A d \in {1, 2} : \A D \in SUBSET ({1, 2} \ {d}) : Cardinality(D) \in 0..1
    /\ \A F \in SUBSET Names :
         /\ Cardinality(F) \in 0..MaxClock
         /\ \A t \in F : Cardinality(F \ {t}) = Cardinality(F) - 1
         /\ F # {} => Cardinality(F) > 0
  <1>1. /\ IsFiniteSet({1, 2}) /\ Cardinality({1, 2}) = 2
        /\ IsFiniteSet(Names) /\ Cardinality(Names) = MaxClock
    <2>1. 1..2 = {1, 2}
      OBVIOUS
    <2>2. IsFiniteSet(1..2) /\ Cardinality(1..2) = 2
      <3>1. IsFiniteSet({1}) /\ Cardinality({1}) = 1
        BY FS_Singleton
      <3>2. {1} \cup {2} = 1..2 /\ 2 \notin {1}
        OBVIOUS
      <3>3. IsFiniteSet({1} \cup {2}) /\ Cardinality({1} \cup {2}) = 1 + 1
        BY <3>1, <3>2, FS_AddElement
      <3> QED
        BY <3>2, <3>3
    <2>3. MaxClock \in Int /\ ~(1 > MaxClock) /\ MaxClock - 1 + 1 = MaxClock
      BY ConstantsOK
    <2>4. IsFiniteSet(1..MaxClock) /\ Cardinality(1..MaxClock) = MaxClock
      BY <2>3, FS_Interval
    <2> QED
      BY <2>1, <2>2, <2>4 DEF Names
  <1>2. ASSUME NEW U, NEW n \in Nat, IsFiniteSet(U), Cardinality(U) = n, NEW T \in SUBSET U
        PROVE  /\ Cardinality(T) \in 0..n
               /\ \A x \in T : Cardinality(T \ {x}) = Cardinality(T) - 1
               /\ T # {} => Cardinality(T) > 0
    <2>1. IsFiniteSet(T) /\ Cardinality(T) <= n
      BY <1>2, FS_Subset
    <2>2. Cardinality(T) \in Nat /\ (T # {} => Cardinality(T) # 0)
      BY <2>1, FS_CardinalityType, FS_EmptySet
    <2>3. \A x \in T : Cardinality(T \ {x}) = Cardinality(T) - 1
      BY <2>1, FS_RemoveElement
    <2> QED
      BY <2>1, <2>2, <2>3
  <1>3. ASSUME NEW d \in {1, 2}, NEW D \in SUBSET ({1, 2} \ {d}) PROVE Cardinality(D) \in 0..1
    <2>1. IsFiniteSet({1, 2} \ {d}) /\ Cardinality({1, 2} \ {d}) = 1
      BY <1>1, FS_RemoveElement
    <2> QED
      BY <1>2, <2>1
  <1>4. MaxClock \in Nat /\ 2 \in Nat
    BY ConstantsOK
  <1> QED
    BY <1>1, <1>2, <1>3, <1>4

\* Every step keeps the thread within its lists.
LEMMA ListingStep ==
    ASSUME Listing, [Next]_vars
    PROVE  Listing'
  <1> USE DEF linkVars, thread, saving, store, history, restAtLink, restAtRun
  <1>1. ASSUME NEW m \in Msgs, Sample(m) \/ Notify(m)
        PROVE  Listing'
    BY <1>1 DEF Listing, Sample, Notify, NewMessage, SaveLocal
  <1>2. CASE SaveMkdir \/ SaveCopy \/ HandleNeedPush
    BY <1>2 DEF Listing, SaveMkdir, SaveCopy, HandleNeedPush, DayOf, restAtSave
  <1>3. CASE Connected
    BY <1>3 DEF Listing, Connected, RePushStart
  <1>4. CASE Disconnected \/ NetworkOffline
    BY <1>4 DEF Listing, Disconnected, NetworkOffline, RePushStop
  <1>5. CASE WaitReturns \/ LinkChange
    BY <1>5 DEF Listing, WaitReturns, LinkChange
  <1>6. CASE RunNextDir
    <2>1. CASE dirs # {}
      <3>1. dirs \in SUBSET (0..2)
        BY DEF Listing
      <3>2. Newest(dirs) \in dirs
        BY <2>1, <3>1, NewestIsIn
      <3> QED
        BY <1>6, <2>1, <3>2 DEF Listing, RunNextDir, NamesIn
    <2> QED
      BY <1>6, <2>1 DEF Listing, RunNextDir, RunEnds
  <1>7. CASE RunBegin \/ RunEmit \/ RunCheck \/ RunRemove \/ RunRmdir
    <2>1. CASE RunBegin
      BY <2>1 DEF Listing, RunBegin, RunEnds
    <2>2. CASE RunEmit
      BY <2>2 DEF Listing, RunEmit
    <2>3. CASE RunCheck
      BY <2>3 DEF Listing, RunCheck, RunEnds
    <2>4. CASE RunRemove
      BY <2>4 DEF Listing, RunRemove
    <2>5. CASE RunRmdir
      BY <2>5 DEF Listing, RunRmdir
    <2> QED
      BY <1>7, <2>1, <2>2, <2>3, <2>4, <2>5
  <1>8. CASE Second
    <2>1. clock' \in Names
      BY <1>8, ConstantsOK DEF Listing, Second, Names
    <2> QED
      BY <1>8, <2>1 DEF Listing, Second
  <1>9. CASE RunCrash \/ Restart
    BY <1>9 DEF Listing, RunCrash, Restart, ProcessEnds, RunEnds
  <1>10. CASE UNCHANGED vars
    BY <1>10 DEF Listing, vars
  <1> QED
    BY <1>1, <1>2, <1>3, <1>4, <1>5, <1>6, <1>7, <1>8, <1>9, <1>10 DEF Next, Run

\* No directory goes while a file is in it, and none is written where there is
\* no directory.
LEMMA HousedStep ==
    ASSUME Listing, Housed, [Next]_vars
    PROVE  Housed'
  <1> USE DEF linkVars, thread, saving, store, history, restAtLink, restAtRun, Housed
  <1>1. ASSUME NEW m \in Msgs, Sample(m) \/ Notify(m)
        PROVE  Housed'
    BY <1>1 DEF Sample, Notify
  <1>2. CASE SaveMkdir \/ SaveCopy \/ HandleNeedPush
    BY <1>2 DEF SaveMkdir, SaveCopy, HandleNeedPush, restAtSave
  <1>3. CASE Connected \/ Disconnected \/ NetworkOffline \/ WaitReturns \/ LinkChange
    BY <1>3 DEF Connected, Disconnected, NetworkOffline, WaitReturns, LinkChange
  <1>4. CASE RunBegin \/ RunNextDir \/ RunEmit \/ RunCheck \/ RunRemove
    BY <1>4 DEF RunBegin, RunNextDir, RunEmit, RunCheck, RunRemove
  <1>5. CASE RunRmdir
    BY <1>5 DEF RunRmdir, NamesIn
  <1>6. CASE Second \/ RunCrash \/ Restart
    BY <1>6 DEF Second, RunCrash, Restart, ProcessEnds
  <1>7. CASE UNCHANGED vars
    BY <1>7 DEF vars
  <1> QED
    BY <1>1, <1>2, <1>3, <1>4, <1>5, <1>6, <1>7 DEF Next, Run

\* What both counts of steps are made of.
LEMMA Counts ==
    ASSUME Listing
    PROVE  /\ Room \in Nat /\ Room = 3 * MaxClock + 2
           /\ Cardinality(dirs) \in 0..2 /\ Cardinality(files) \in 0..MaxClock
           /\ worker \in {"file", "check", "remove"} => Cardinality(dirs) \in 0..1
           /\ \A d \in dirs : Cardinality(dirs \ {d}) = Cardinality(dirs) - 1
           /\ \A t \in files : Cardinality(files \ {t}) = Cardinality(files) - 1
           /\ dirs = {} => Cardinality(dirs) = 0
           /\ Bounded
  <1>1. /\ Cardinality(dirs) \in 0..2 /\ Cardinality(files) \in 0..MaxClock
        /\ worker \in {"file", "check", "remove"} => Cardinality(dirs) \in 0..1
        /\ \A d \in dirs : Cardinality(dirs \ {d}) = Cardinality(dirs) - 1
        /\ \A t \in files : Cardinality(files \ {t}) = Cardinality(files) - 1
    BY DaysAndNames DEF Listing
  <1>2. dirs = {} => Cardinality(dirs) = 0
    BY FS_EmptySet
  <1>3. MaxClock \in Nat /\ Room \in Nat /\ Room = 3 * MaxClock + 2
    BY ConstantsOK DEF Room
  <1> DEFINE n == Cardinality(dirs)
             k == Cardinality(files)
  <1>4. /\ n \in {0, 1} => n * Room \in Nat /\ n * Room <= Room
        /\ n = 2 => n * Room = 2 * Room
    <2> HIDE DEF n
    <2>1. CASE n = 0
      BY <1>3, <2>1
    <2>2. CASE n = 1
      BY <1>3, <2>2
    <2>3. CASE n = 2
      BY <1>3, <2>3
    <2> QED
      BY <1>3, <2>1, <2>2, <2>3
  <1>5. StepsLeft \in 0..(2 * Room + 2)
    <2> DEFINE a == n * Room
    <2>1. /\ StepsLeft \in {0, 2 * Room + 2, a + 1, a + 3 * k + 2, a + 3 * k + 3, a + 3 * k + 4}
          /\ StepsLeft \in {a + 3 * k + 2, a + 3 * k + 3, a + 3 * k + 4} => n \in {0, 1}
             \/ StepsLeft \in {0, 2 * Room + 2, a + 1}
      BY <1>1 DEF StepsLeft, Listing
    <2>2. n \in {0, 1, 2} /\ k \in Nat /\ k <= MaxClock
      BY <1>1, <1>3
    <2>3. a \in Nat /\ a <= 2 * Room /\ (n \in {0, 1} => a <= Room)
      BY <1>3, <1>4, <2>2
    <2> HIDE DEF a, n, k
    <2> QED
      BY <1>3, <2>1, <2>2, <2>3
  <1>6. StepsToStop \in 0..6
    BY <1>1 DEF StepsToStop
  <1> QED
    BY <1>1, <1>2, <1>3, <1>5, <1>6 DEF Bounded

\* All of it holds throughout.
LEMMA ListsOK == Spec => [](Listing /\ Housed /\ Bounded)
  <1>1. Init => Listing /\ Housed
    BY ConstantsOK DEF Init, Listing, Housed, Names
  <1>2. Listing /\ Housed /\ [Next]_vars => (Listing /\ Housed)'
    BY ListingStep, HousedStep
  <1>3. Listing => Bounded
    BY Counts
  <1> QED
    BY <1>1, <1>2, <1>3, PTL DEF Spec

\* Every step of the thread brings its run nearer to its end.
LEMMA RunShrinks ==
    ASSUME Listing, Listing', Run
    PROVE  /\ StepsLeft' < StepsLeft
           /\ ~isOn => StepsToStop' < StepsToStop
  <1> DEFINE n == Cardinality(dirs)
             k == Cardinality(files)
             k2 == Cardinality(files')
  <1>1. /\ Room \in Nat /\ Room = 3 * MaxClock + 2 /\ MaxClock \in Nat
        /\ n \in 0..2 /\ k \in 0..MaxClock /\ k2 \in 0..MaxClock
        /\ n = 0 \/ n = 1 \/ n = 2
        /\ worker \in {"file", "check", "remove"} => n \in 0..1
    BY Counts, DaysAndNames, ConstantsOK DEF Listing
  <1>2. /\ 0 * Room = 0 /\ 1 * Room = Room /\ 2 * Room = Room + Room
    BY <1>1
  <1>3. CASE RunBegin
    <2>1. Cardinality(dirs') \in 0..2
      BY DaysAndNames DEF Listing
    <2>2. Cardinality(dirs') * Room <= 2 * Room /\ Cardinality(dirs') * Room \in Nat
      BY <1>1, <1>2, <2>1
    <2> QED
      BY <1>1, <1>3, <2>1, <2>2 DEF RunBegin, RunEnds, StepsLeft, StepsToStop, restAtRun
  <1>4. CASE RunNextDir /\ dirs = {}
    BY <1>1, <1>2, <1>4, Counts DEF RunNextDir, RunEnds, StepsLeft, StepsToStop
  <1>5. CASE RunNextDir /\ dirs # {}
    <2>1. dirs \in SUBSET (0..2)
      BY DEF Listing
    <2>2. Newest(dirs) \in dirs
      BY <1>5, <2>1, NewestIsIn
    <2>3. Cardinality(dirs') = n - 1
      BY <1>5, <2>2, Counts DEF RunNextDir
    <2>4. /\ worker = "dir" /\ worker' = "file"
      BY <1>5 DEF RunNextDir
    <2>5. StepsLeft = n * Room + 1
      BY <2>4 DEF StepsLeft
    <2>6. StepsLeft' = (n - 1) * Room + 3 * k2 + 2
      BY <2>3, <2>4 DEF StepsLeft
    <2>7. n = 1 \/ n = 2
      <3>1. Cardinality(dirs') \in 0..2
        BY DaysAndNames DEF Listing
      <3> HIDE DEF n
      <3> QED
        BY <1>1, <2>3, <3>1
    <2>8. n * Room = (n - 1) * Room + Room /\ (n - 1) * Room \in Nat
      BY <1>1, <1>2, <2>7
    <2>9. StepsLeft' < StepsLeft
      <3> DEFINE a == (n - 1) * Room
                 c == n * Room
      <3> HIDE DEF a, c, k2, n
      <3>1. a \in Nat /\ c = a + Room /\ StepsLeft = c + 1 /\ StepsLeft' = a + 3 * k2 + 2
        BY <2>5, <2>6, <2>8 DEF a, c, n
      <3> QED
        BY <1>1, <3>1
    <2>10. StepsToStop' < StepsToStop
      <3>1. StepsToStop = 2 * n + 1
        BY <2>4 DEF StepsToStop
      <3>2. StepsToStop' = IF files' = {} THEN 2 * (n - 1) + 2 ELSE 2
        BY <2>3, <2>4 DEF StepsToStop
      <3> QED
        BY <2>7, <3>1, <3>2
    <2> QED
      BY <2>9, <2>10
  <1>6. ASSUME RunEmit \/ RunCheck \/ RunRemove \/ RunRmdir
        PROVE  /\ StepsLeft' < StepsLeft
               /\ ~isOn => StepsToStop' < StepsToStop
    <2> DEFINE a == n * Room
    <2>1. a \in Nat
      BY <1>1, <1>2
    <2>2. CASE RunEmit
      <3>1. files \in SUBSET (0..MaxClock) /\ MaxClock \in Nat
        BY ConstantsOK DEF Listing, Names
      <3>2. Newest(files) \in files
        BY <2>2, <3>1, NewestIsIn DEF RunEmit
      <3>3. k2 = k - 1
        BY <2>2, <3>2, Counts DEF RunEmit
      <3>4. worker = "file" /\ worker' = "check" /\ dirs' = dirs /\ files # {}
        BY <2>2 DEF RunEmit
      <3>5. StepsLeft = a + 3 * k + 2 /\ StepsLeft' = a + 3 * k2 + 4
        BY <3>4 DEF StepsLeft
      <3>6. StepsToStop = 2 /\ StepsToStop' = 1
        BY <3>4 DEF StepsToStop
      <3> HIDE DEF a, k, k2
      <3> QED
        BY <1>1, <2>1, <3>3, <3>5, <3>6
    <2>3. CASE RunCheck
      <3> HIDE DEF a
      <3>1. StepsLeft = a + 3 * k + 4 /\ StepsToStop = 1
        BY <2>3 DEF RunCheck, StepsLeft, StepsToStop, a
      <3>2. isOn => StepsLeft' = a + 3 * k + 3
        BY <2>3 DEF RunCheck, StepsLeft, a
      <3>3. ~isOn => StepsLeft' = 0 /\ StepsToStop' = 0
        BY <2>3 DEF RunCheck, RunEnds, StepsLeft, StepsToStop
      <3> HIDE DEF k
      <3> QED
        BY <1>1, <2>1, <3>1, <3>2, <3>3
    <2>4. CASE RunRemove
      <3> HIDE DEF a
      <3>1. worker = "remove" /\ worker' = "file" /\ dirs' = dirs /\ files' = files
        BY <2>4 DEF RunRemove
      <3>2. StepsLeft = a + 3 * k + 3 /\ StepsLeft' = a + 3 * k + 2
        BY <3>1 DEF StepsLeft, a
      <3>3. StepsToStop = 2 * n + 3 /\ StepsToStop' \in {2 * n + 2, 2}
        BY <3>1 DEF StepsToStop
      <3> HIDE DEF k, n
      <3> QED
        BY <1>1, <2>1, <3>2, <3>3
    <2>5. CASE RunRmdir
      <3> HIDE DEF a
      <3>1. worker = "file" /\ worker' = "dir" /\ dirs' = dirs /\ files = {}
        BY <2>5 DEF RunRmdir
      <3>2. StepsLeft = a + 3 * k + 2 /\ StepsLeft' = a + 1
        BY <3>1 DEF StepsLeft, a
      <3>3. StepsToStop = 2 * n + 2 /\ StepsToStop' = 2 * n + 1
        BY <3>1 DEF StepsToStop
      <3> HIDE DEF k, n
      <3> QED
        BY <1>1, <2>1, <3>2, <3>3
    <2> QED
      BY <1>6, <2>2, <2>3, <2>4, <2>5
  <1>7. CASE RunCrash
    <2>1. StepsLeft' = 0 /\ StepsToStop' = 0
      BY <1>7 DEF RunCrash, ProcessEnds, RunEnds, StepsLeft, StepsToStop
    <2>2. worker = "file" /\ files # {} /\ n * Room \in Nat
      BY <1>1, <1>2, <1>7 DEF RunCrash
    <2>3. StepsLeft = n * Room + 3 * k + 2 /\ StepsToStop = 2
      BY <2>2 DEF StepsLeft, StepsToStop
    <2> DEFINE a == n * Room
    <2> HIDE DEF a, k
    <2>4. a \in Nat /\ StepsLeft = a + 3 * k + 2
      BY <2>2, <2>3 DEF a, k
    <2> QED
      BY <1>1, <2>1, <2>3, <2>4
  <1> QED
    BY <1>3, <1>4, <1>5, <1>6, <1>7 DEF Run

\* Nobody but the thread changes what it has left to do, unless it is started
\* or the process begins anew.
LEMMA OthersLeaveRun ==
    ASSUME Listing, [Next]_vars, ~Run
    PROVE  \/ /\ UNCHANGED thread
              /\ main = "waiting" /\ main' = "waiting" => UNCHANGED isOn
           \/ worker = "stopped" /\ main = "loop"
           \/ worker' = "stopped" /\ main' = "loop"
  <1> USE DEF thread, saving, restAtLink, Listing
  <1>1. ASSUME NEW m \in Msgs, Sample(m) \/ Notify(m) PROVE UNCHANGED thread /\ UNCHANGED isOn
    BY <1>1 DEF Sample, Notify
  <1>2. CASE SaveMkdir \/ SaveCopy \/ HandleNeedPush \/ Second
    BY <1>2 DEF SaveMkdir, SaveCopy, HandleNeedPush, Second, restAtSave
  <1>3. CASE Connected
    BY <1>3 DEF Connected, RePushStart
  <1>4. CASE Disconnected \/ NetworkOffline \/ WaitReturns \/ LinkChange
    BY <1>4 DEF Disconnected, NetworkOffline, WaitReturns, LinkChange, RePushStop
  <1>5. CASE Restart
    BY <1>5 DEF Restart, ProcessEnds, RunEnds
  <1>6. CASE UNCHANGED vars
    BY <1>6 DEF vars
  <1> QED
    BY <1>1, <1>2, <1>3, <1>4, <1>5, <1>6 DEF Next

\* A run of the thread ends: it takes at most 2 * Room + 2 steps, whatever is
\* saved, lost or connected meanwhile. A file that a save adds is not listed.
THEOREM RunsEnd ==
    Spec => /\ [](StepsLeft \in 0..(2 * Room + 2))
            /\ [][ /\ Run => StepsLeft' < StepsLeft
                   /\ worker # "stopped" => StepsLeft' <= StepsLeft ]_vars
  <1> DEFINE Shrinks == /\ Run => StepsLeft' < StepsLeft
                        /\ worker # "stopped" => StepsLeft' <= StepsLeft
  <1>1. Bounded => StepsLeft \in 0..(2 * Room + 2)
    BY DEF Bounded
  <1>2. Listing /\ Listing' /\ Bounded /\ Bounded' /\ [Next]_vars => [Shrinks]_vars
    <2> SUFFICES ASSUME Listing, Listing', Bounded, Bounded', [Next]_vars PROVE Shrinks
      OBVIOUS
    <2>1. StepsLeft \in Nat /\ StepsLeft' \in Nat
      BY ConstantsOK DEF Bounded, Room
    <2>2. CASE Run
      BY <2>1, <2>2, RunShrinks
    <2>3. CASE ~Run
      <3>1. UNCHANGED thread => StepsLeft' = StepsLeft
        BY DEF thread, StepsLeft
      <3>2. worker' = "stopped" => StepsLeft' = 0
        BY DEF StepsLeft
      <3> QED
        BY <2>1, <2>3, <3>1, <3>2, OthersLeaveRun
    <2> QED
      BY <2>2, <2>3
  <1> QED
    BY <1>1, <1>2, ListsOK, PTL DEF Spec

\* The GUI thread, once it waits in rePushPendingData_stop, waits for at most
\* six more steps of the other thread, however many files are pending, and no
\* step of anybody puts the end off. (WaitEnds, but for the scheduling)
THEOREM WaitIsShort ==
    Spec => /\ [](StepsToStop \in 0..6)
            /\ [][ main = "waiting" => /\ Run => StepsToStop' < StepsToStop
                                       /\ StepsToStop' <= StepsToStop ]_vars
  <1> DEFINE Shrinks == main = "waiting" => /\ Run => StepsToStop' < StepsToStop
                                            /\ StepsToStop' <= StepsToStop
  <1>1. Bounded => StepsToStop \in 0..6
    BY DEF Bounded
  <1>2. Listing /\ Listing' /\ Bounded /\ Bounded' /\ [Next]_vars => [Shrinks]_vars
    <2> SUFFICES ASSUME Listing, Listing', Bounded, Bounded', [Next]_vars,
                        main = "waiting"
                 PROVE  /\ Run => StepsToStop' < StepsToStop
                        /\ StepsToStop' <= StepsToStop
      OBVIOUS
    <2>1. StepsToStop \in Nat /\ StepsToStop' \in Nat
      BY DEF Bounded
    <2>2. CASE Run
      BY <2>1, <2>2, RunShrinks DEF Listing
    <2>3. CASE ~Run
      <3>1. UNCHANGED thread => StepsToStop' = StepsToStop
        BY DEF thread, StepsToStop
      <3>2. worker' = "stopped" => StepsToStop' = 0
        BY DEF StepsToStop
      <3> QED
        BY <2>1, <2>3, <3>1, <3>2, OthersLeaveRun
    <2> QED
      BY <2>2, <2>3
  <1> QED
    BY <1>1, <1>2, ListsOK, PTL DEF Spec

\* Nothing that was pending when a run began is passed over: while the link
\* holds, a file the run has still to come to stays so until it is removed.
\* With RunsEnd this is DrainsWhileLinkHolds, but for the scheduling.
THEOREM NothingIsPassedOver ==
    Spec => /\ [](\A t \in Names : Awaited(t) => StepsLeft > 0)
            /\ [][ \A t \in Names : LinkHolds /\ LinkHolds' /\ Awaited(t)
                                      => pending'[t] = 0 \/ Awaited(t)' ]_vars
  <1>1. Listing => \A t \in Names : Awaited(t) => StepsLeft > 0
    <2> SUFFICES ASSUME Listing, NEW t \in Names, Awaited(t) PROVE StepsLeft > 0
      OBVIOUS
    <2>1. worker # "stopped"
      BY DEF Awaited
    <2> DEFINE n == Cardinality(dirs)
               a == n * Room
               k == Cardinality(files)
    <2>2. a \in Nat /\ k \in Nat /\ Room \in Nat
      <3>1. n \in {0, 1, 2} /\ Room \in Nat /\ k \in Nat
        BY Counts, ConstantsOK
      <3> HIDE DEF n
      <3> QED
        BY <3>1
    <2> HIDE DEF a, k
    <2> QED
      BY <2>1, <2>2 DEF Listing, StepsLeft, a, k
  <1> DEFINE Step == \A t \in Names : LinkHolds /\ LinkHolds' /\ Awaited(t)
                                        => pending'[t] = 0 \/ Awaited(t)'
  <1>2. Listing /\ Housed /\ [Next]_vars => [Step]_vars
    <2> SUFFICES ASSUME Listing, Housed, [Next]_vars, NEW t \in Names,
                        LinkHolds, LinkHolds', Awaited(t), pending'[t] # 0
                 PROVE  Awaited(t)'
      OBVIOUS
    <2> USE DEF LinkHolds, Awaited
    <2>0. DayOf(t)' = DayOf(t) /\ DayOf(t) \in {1, 2}
      BY DEF DayOf
    <2>1. CASE UNCHANGED thread
      BY <2>0, <2>1 DEF thread
    <2>2. CASE Connected \/ RunCrash \/ Restart
      BY <2>2 DEF Connected, LinkReady, RunCrash, Restart, ProcessEnds
    <2>3. CASE RunBegin
      BY <2>0, <2>3 DEF RunBegin, Housed
    <2>4. CASE RunNextDir
      BY <2>0, <2>4 DEF RunNextDir, NamesIn, RunEnds, store
    <2>5. CASE RunEmit
      BY <2>0, <2>5 DEF RunEmit
    <2>6. CASE RunCheck
      BY <2>0, <2>6 DEF RunCheck
    <2>7. CASE RunRemove
      BY <2>0, <2>7 DEF RunRemove, Housed
    <2>8. CASE RunRmdir
      BY <2>0, <2>8 DEF RunRmdir
    <2>9. UNCHANGED thread \/ Connected \/ Restart \/ Run
      <3> USE DEF thread, restAtLink
      <3>1. ASSUME NEW m \in Msgs, Sample(m) \/ Notify(m) PROVE UNCHANGED thread
        BY <3>1 DEF Sample, Notify
      <3>2. CASE SaveMkdir \/ SaveCopy \/ HandleNeedPush \/ Second
        BY <3>2 DEF SaveMkdir, SaveCopy, HandleNeedPush, Second, restAtSave
      <3>3. CASE Disconnected \/ NetworkOffline \/ WaitReturns \/ LinkChange
        BY <3>3 DEF Disconnected, NetworkOffline, WaitReturns, LinkChange, RePushStop
      <3>4. CASE UNCHANGED vars
        BY <3>4 DEF vars
      <3> QED
        BY <3>1, <3>2, <3>3, <3>4 DEF Next
    <2> QED
      BY <2>1, <2>2, <2>3, <2>4, <2>5, <2>6, <2>7, <2>8, <2>9 DEF Run
  <1> QED
    BY <1>1, <1>2, ListsOK, PTL DEF Spec
=============================================================================
