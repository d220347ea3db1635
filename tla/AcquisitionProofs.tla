------------------------- MODULE AcquisitionProofs -------------------------
(***************************************************************************)
(* What holds of Acquisition for every configuration of modules, every     *)
(* number of retries and of faults.                                        *)
(***************************************************************************)
EXTENDS Acquisition, TLAPS

Name(k) == ports[opts[k]].name

\* Operators that are still to be read in the round under way.
Due(k) == at # 0 /\ k >= at

-----------------------------------------------------------------------------
(* The inductive invariant                                                 *)

\* While initSerial runs nothing has been sampled.
SetupShape ==
    /\ running => toAdd \notin Index
    /\ at # 0 => running
    /\ toAdd \in Index =>
         /\ Len(opts) = toAdd - 1
         /\ \A i \in Index : buf[i] = Absent
         /\ \A p \in PortNames : late[p] = Nothing

\* An answer that is late has an operator whose next request on that port
\* disposes of it within a round.
LateShape ==
    \A p \in PortNames : late[p] # Nothing =>
      \E k \in 1..Len(opts) :
        /\ Name(k) = p
        /\ ports[opts[k]].open
        /\ late[p].age <= IF Due(k) THEN 1 ELSE 0

\* The counter counts the failures since the value was read, and the value
\* ages with it.
CounterShape ==
    \A i \in 1..Len(opts) : Present(i) =>
      /\ counter[i] \in 0..(RetryCount - 1)
      /\ fails[i] = counter[i]
      /\ buf[i].age <= counter[i] + 1 + (IF Due(i) THEN 1 ELSE 0)

Inv == TypeOK /\ SetupShape /\ LateShape /\ CounterShape

-----------------------------------------------------------------------------
(* Lemmas about sequences                                                  *)

PortRecords == [name : PortNames, open : BOOLEAN]

\* An element of a sequence over a set is in the set.
LEMMA SeqElement ==
  ASSUME NEW S, NEW s \in Seq(S), NEW k \in 1..Len(s)
  PROVE  s[k] \in S
OBVIOUS

\* Appending keeps a sequence over the set, one longer.
LEMMA SeqAppend ==
  ASSUME NEW S, NEW s \in Seq(S), NEW e \in S
  PROVE  /\ Append(s, e) \in Seq(S)
         /\ Len(Append(s, e)) = Len(s) + 1
         /\ Append(s, e)[Len(s) + 1] = e
         /\ \A k \in 1..Len(s) : Append(s, e)[k] = s[k]
OBVIOUS

\* A function on 1..n is a sequence of length n.
LEMMA SeqFunction ==
  ASSUME NEW S, NEW n \in Nat, NEW f \in [1..n -> S]
  PROVE  f \in Seq(S) /\ Len(f) = n
OBVIOUS

\* A wider set has the sequences of a narrower one.
LEMMA SeqWiden ==
  ASSUME NEW S, NEW T, S \subseteq T, NEW s \in Seq(S)
  PROVE  s \in Seq(T)
OBVIOUS

-----------------------------------------------------------------------------
(* Lemmas about the operators                                              *)

\* Ageing keeps the sender, and adds at most one round.
LEMMA AgedOnce ==
  ASSUME NEW v \in Values \cup {Absent}
  PROVE  /\ Aged(v) \in Values \cup {Absent}
         /\ Aged(v).from = v.from
         /\ Aged(v).age <= v.age + 1
         /\ Aged(v) = Absent <=> v = Absent
BY ConstantsOK DEF Aged, Values, Absent, AgeCap, Index

\* An answer comes from a module that the request could reach, and is new.
LEMMA AnswerShape ==
  ASSUME NEW i \in Index, NEW p
  PROVE  /\ Answer(i, p) \in Values \cup {Nothing}
         /\ Answer(i, p).age = 0
         /\ Answer(i, p) # Nothing =>
              Modules[Answer(i, p).from].id = Modules[i].id
<1>1. CASE Hearers(i, p) = {}
  BY <1>1 DEF Answer, Nothing, Absent
<1>2. CASE Hearers(i, p) # {}
  <2>1. PICK j \in Hearers(i, p) : Answer(i, p) = [from |-> j, age |-> 0]
    BY <1>2 DEF Answer
  <2>2. j \in Index /\ Modules[j].id = Modules[i].id
    BY DEF Hearers
  <2> QED BY <2>1, <2>2, ConstantsOK DEF Values, AgeCap
<1> QED BY <1>1, <1>2

\* A window that passes the checks holds one frame: what was late, or the
\* answer to this request.
LEMMA WindowShape ==
  ASSUME NEW i \in Index, NEW p, NEW fate \in Fates, NEW stray \in BOOLEAN,
         Accepts(i, Window(i, p, fate, stray))
  PROVE  LET v == Window(i, p, fate, stray)[1] IN
         /\ v # Nothing
         /\ v = late[p.name] \/ v = Answer(i, p)
         /\ Modules[v.from].id = Modules[i].id
<1> DEFINE a == IF stray THEN late[p.name] ELSE Nothing
           b == IF fate = "intime" THEN Answer(i, p) ELSE Nothing
           w == Frames(a) \o Frames(b)
<1>1. w = Window(i, p, fate, stray)
  BY DEF Window
<1>2. Len(w) = 1 /\ Modules[w[1].from].id = Modules[i].id
  BY <1>1 DEF Accepts
<1>3. CASE a = Nothing /\ b = Nothing
  <2>1. w = << >>
    BY <1>3 DEF Frames
  <2> QED BY <2>1, <1>2
<1>4. CASE a = Nothing /\ b # Nothing
  <2>1. w[1] = b
    BY <1>4 DEF Frames
  <2> QED BY <2>1, <1>1, <1>2, <1>4
<1>5. CASE a # Nothing
  <2>1. w[1] = a
    BY <1>5 DEF Frames
  <2> QED BY <2>1, <1>1, <1>2, <1>5
<1> QED BY <1>3, <1>4, <1>5
-----------------------------------------------------------------------------
(* One read                                                                *)

\* What a read may do, whatever the device answers: a good value is late or
\* new and from the address that was asked, a bad one leaves the values
\* alone, except that over ZigBee they may be given up.
ReadGood(i) ==
    \E v \in Values :
      /\ GoodRead(i, v)
      /\ v = late[Name(i)] \/ v.age = 0
      /\ Modules[v.from].id = Modules[i].id

ReadBad(i) ==
    \E v \in {buf[i], Absent} :
      /\ BadRead(i, v)
      /\ v = buf[i] \/ IsZigbee(Name(i))

\* An open port is left with nothing late on it, or with this answer.
ReadLate(i) ==
    \/ ~ports[opts[i]].open /\ late' = late
    \/ /\ ports[opts[i]].open
       /\ \E v \in Values \cup {Nothing} :
            /\ v.age = 0 /\ late' = [late EXCEPT ![Name(i)] = v]
            /\ v # Nothing => Modules[v.from].id = Modules[i].id

\* What is handed back for a module is its own, or a late answer to its address.
LEMMA ReadResult ==
  ASSUME TypeOK, NEW i \in 1..Len(opts), ReadModule(i)
  PROVE  /\ ReadGood(i) \/ ReadBad(i)
         /\ ReadLate(i)
         /\ at = i
         /\ at' = IF i = Len(opts) THEN 0 ELSE i + 1
         /\ faults' \in 0..MaxFaults
         /\ UNCHANGED <<ports, opts, toAdd, running>>
<1> DEFINE p == ports[opts[i]]
<1>1. i \in Index /\ Name(i) = p.name /\ Name(i) \in PortNames
  <2>1. opts \in Seq(1..Len(ports)) /\ Len(opts) <= Len(Modules)
    BY DEF TypeOK
  <2>2. opts[i] \in 1..Len(ports) /\ i \in Index
    BY <2>1, ConstantsOK DEF Index
  <2>3. ports[opts[i]] \in PortRecords
    BY <2>2, SeqElement DEF TypeOK, PortRecords
  <2> QED BY <2>2, <2>3 DEF Name, PortRecords
<1>2. /\ at = i /\ at' = (IF i = Len(opts) THEN 0 ELSE i + 1)
      /\ UNCHANGED <<ports, opts, toAdd, running>>
  BY DEF ReadModule
<1>3. CASE ~p.open
  <2>1. BadRead(i, buf[i]) /\ UNCHANGED <<late, faults>>
    BY <1>3 DEF ReadModule
  <2>2. ReadBad(i) /\ ReadLate(i)
    BY <2>1, <1>3 DEF ReadBad, ReadLate
  <2> QED BY <2>1, <2>2, <1>2 DEF TypeOK
<1>4. CASE p.open
  <2>1. PICK fate \in Fates, stray \in BOOLEAN :
          LET w == IF fate = "unsent" THEN << >> ELSE Window(i, p, fate, stray)
          IN /\ Disturb(IF fate = "intime" THEN 0 ELSE 1)
             /\ late' = [late EXCEPT ![p.name] =
                           IF fate = "late" THEN Answer(i, p) ELSE Nothing]
             /\ IF fate \in {"intime", "late", "lost"} /\ Accepts(i, w)
                  THEN GoodRead(i, w[1])
                  ELSE \E v \in AfterFailure(i, p, w, fate) : BadRead(i, v)
    BY <1>4 DEF ReadModule
  <2>2. ReadLate(i)
    <3>1. Nothing \in Values \cup {Nothing} /\ Nothing.age = 0
      BY DEF Nothing, Absent
    <3>2. /\ Answer(i, p) \in Values \cup {Nothing} /\ Answer(i, p).age = 0
          /\ Answer(i, p) # Nothing =>
               Modules[Answer(i, p).from].id = Modules[i].id
      BY <1>1, AnswerShape
    <3> QED BY <2>1, <3>1, <3>2, <1>1, <1>4 DEF ReadLate
  <2>3. faults' \in 0..MaxFaults
    BY <2>1, ConstantsOK DEF Disturb, TypeOK
  <2> DEFINE w == IF fate = "unsent" THEN << >> ELSE Window(i, p, fate, stray)
  <2>4. CASE fate \in {"intime", "late", "lost"} /\ Accepts(i, w)
    <3>1. w = Window(i, p, fate, stray)
      BY <2>4
    <3>2. /\ w[1] # Nothing
          /\ w[1] = late[p.name] \/ w[1] = Answer(i, p)
          /\ Modules[w[1].from].id = Modules[i].id
      BY <3>1, <2>4, <1>1, WindowShape
    <3>3. w[1] \in Values /\ (w[1] = late[Name(i)] \/ w[1].age = 0)
      BY <3>2, <1>1, AnswerShape DEF TypeOK
    <3>4. GoodRead(i, w[1])
      BY <2>1, <2>4
    <3>5. ReadGood(i)
      BY <3>2, <3>3, <3>4 DEF ReadGood
    <3> QED BY <3>5, <2>2, <2>3, <1>2
  <2>5. CASE ~(fate \in {"intime", "late", "lost"} /\ Accepts(i, w))
    <3>1. PICK v \in AfterFailure(i, p, w, fate) : BadRead(i, v)
      BY <2>1, <2>5
    <3>2. v \in {buf[i], Absent} /\ (v = buf[i] \/ IsZigbee(Name(i)))
      BY <1>1, Zenon DEF AfterFailure
    <3>3. ReadBad(i)
      BY <3>1, <3>2 DEF ReadBad
    <3> QED BY <3>3, <2>2, <2>3, <1>2
  <2> QED BY <2>4, <2>5
<1> QED BY <1>3, <1>4

-----------------------------------------------------------------------------
(* Type correctness                                                        *)

\* Before the first gotoRun nothing is open and nothing was read.
LEMMA InitTyped == Init => TypeOK
<1> SUFFICES ASSUME Init PROVE TypeOK
  OBVIOUS
<1> USE ConstantsOK DEF Init
<1>1. ports \in Seq([name : PortNames, open : BOOLEAN])
  OBVIOUS
<1>2. opts \in Seq(1..Len(ports)) /\ Len(opts) <= Len(Modules)
  OBVIOUS
<1>3. toAdd \in 1..(Len(Modules) + 1) /\ at \in 0..Len(opts)
  OBVIOUS
<1>4. buf \in [Index -> Values \cup {Absent}]
  OBVIOUS
<1>5. counter \in [Index -> -1..(RetryCount - 1)]
  OBVIOUS
<1>6. late \in [PortNames -> Values \cup {Nothing}]
  OBVIOUS
<1>7. fails \in [Index -> 0..RetryCount] /\ faults \in 0..MaxFaults
  OBVIOUS
<1> QED BY <1>1, <1>2, <1>3, <1>4, <1>5, <1>6, <1>7 DEF TypeOK

\* stopRun and gotoRun change nothing of a port but whether it is open, and
\* gotoRun closes none.
LEMMA PortsClosed ==
  ASSUME TypeOK, StopRun
  PROVE  ports' \in Seq(PortRecords) /\ Len(ports') = Len(ports)
<1>1. ports' \in [1..Len(ports) -> PortRecords]
  <2> SUFFICES ASSUME NEW k \in 1..Len(ports)
               PROVE  [ports[k] EXCEPT !.open = FALSE] \in PortRecords
    BY DEF StopRun
  <2>1. ports[k] \in PortRecords
    BY SeqElement DEF TypeOK, PortRecords
  <2> QED BY <2>1 DEF PortRecords
<1>2. Len(ports) \in Nat
  BY DEF TypeOK
<1> QED BY <1>1, <1>2, SeqFunction

\* gotoRun opens ports and adds operators, and reads nothing.
LEMMA PortsOpened ==
  ASSUME TypeOK, GotoRun
  PROVE  /\ ports' \in Seq(PortRecords) /\ Len(ports') = Len(ports)
         /\ \A k \in 1..Len(ports) :
              /\ ports'[k].name = ports[k].name
              /\ ports[k].open => ports'[k].open
<1> DEFINE Opens(k, o) ==
      \/ ports[k].open
      \/ /\ ports[k].name \in o
         /\ \A l \in 1..Len(ports) : ports[l].name = ports[k].name
              => ~ports[l].open /\ k <= l
<1>1. PICK o \in SUBSET PortNames :
        ports' = [k \in 1..Len(ports) |-> [ports[k] EXCEPT !.open = Opens(k, o)]]
  BY DEF GotoRun
<1>2. ASSUME NEW k \in 1..Len(ports)
      PROVE  /\ ports'[k] \in PortRecords
             /\ ports'[k].name = ports[k].name
             /\ ports[k].open => ports'[k].open
  <2>1. ports[k] \in PortRecords
    BY SeqElement DEF TypeOK, PortRecords
  <2>2. Opens(k, o) \in BOOLEAN /\ (ports[k].open => Opens(k, o))
    BY <2>1 DEF PortRecords
  <2> HIDE DEF Opens
  <2>3. ports'[k] = [ports[k] EXCEPT !.open = Opens(k, o)]
    BY <1>1
  <2> QED BY <2>1, <2>2, <2>3 DEF PortRecords
<1>3. ports' \in [1..Len(ports) -> PortRecords] /\ Len(ports) \in Nat
  <2> HIDE DEF Opens
  <2> QED BY <1>1, <1>2 DEF TypeOK
<1> QED BY <1>2, <1>3, SeqFunction

\* Every step keeps the types.
LEMMA TypeStep == TypeOK /\ SetupShape /\ [Next]_vars => TypeOK'
<1> SUFFICES ASSUME TypeOK, SetupShape, [Next]_vars PROVE TypeOK'
  OBVIOUS
<1> USE ConstantsOK
<1>1. CASE AddModule
  <2>1. toAdd \in Index /\ Len(opts) = toAdd - 1 /\ at = 0
    BY <1>1 DEF AddModule, SetupShape, TypeOK
  <2>2. \A b \in BOOLEAN :
          [name |-> Modules[toAdd].com, open |-> b] \in PortRecords
    <3>1. Modules[toAdd] \in [com : PortNames, id : Nat]
      BY <2>1, SeqElement DEF Index
    <3> QED BY <3>1 DEF PortRecords
  <2>3. /\ ports' \in Seq(PortRecords)
        /\ Len(ports') \in Nat /\ Len(ports) \in Nat
        /\ Len(ports') >= Len(ports)
    <3>1. ports \in Seq(PortRecords)
      BY DEF TypeOK, PortRecords
    <3>2. \/ ports' = ports
          \/ \E b \in BOOLEAN :
               ports' = Append(ports, [name |-> Modules[toAdd].com, open |-> b])
      BY <1>1 DEF AddModule
    <3>3. CASE ports' = ports
      BY <3>1, <3>3
    <3>4. CASE ports' # ports
      <4>1. PICK b \in BOOLEAN :
              ports' = Append(ports, [name |-> Modules[toAdd].com, open |-> b])
        BY <3>2, <3>4
      <4>2. /\ ports' \in Seq(PortRecords)
            /\ Len(ports') = Len(ports) + 1
        BY <4>1, <3>1, <2>2, SeqAppend
      <4> QED BY <4>2, <3>1
    <3> QED BY <3>3, <3>4
  <2>4. \/ opts' = opts
        \/ \E k \in 1..Len(ports') : opts' = Append(opts, k)
    BY <1>1 DEF AddModule, TypeOK
  <2>5. opts \in Seq(1..Len(ports'))
    BY <2>3 DEF TypeOK
  <2>6. /\ opts' \in Seq(1..Len(ports')) /\ Len(opts') <= Len(Modules)
        /\ Len(opts') \in Nat
    <3>1. Len(opts) < Len(Modules) /\ Len(Modules) \in Nat /\ Len(opts) \in Nat
      BY <2>1, <2>5 DEF Index
    <3>2. CASE opts' = opts
      BY <3>1, <3>2, <2>5
    <3>3. CASE \E k \in 1..Len(ports') : opts' = Append(opts, k)
      <4>1. PICK k \in 1..Len(ports') : opts' = Append(opts, k)
        BY <3>3
      <4>2. opts' \in Seq(1..Len(ports')) /\ Len(opts') = Len(opts) + 1
        BY <4>1, <2>5, SeqAppend
      <4> QED BY <4>2, <3>1
    <3> QED BY <2>4, <3>2, <3>3
  <2>7. toAdd' \in 1..(Len(Modules) + 1)
    BY <1>1, <2>1 DEF AddModule, Index
  <2>8. at' \in 0..Len(opts') /\ faults' \in 0..MaxFaults
    <3>1. at' = 0
      BY <1>1, <2>1 DEF AddModule
    <3>2. faults' = faults \/ Disturb(0) \/ Disturb(1)
      BY <1>1 DEF AddModule
    <3>3. faults' \in 0..MaxFaults
      BY <3>2 DEF Disturb, TypeOK
    <3> QED BY <3>1, <3>3, <2>6
  <2> QED BY <1>1, <2>3, <2>6, <2>7, <2>8 DEF AddModule, TypeOK, PortRecords
<1>2. CASE BeginRound
  <2>1. \A i \in Index : Aged(buf[i]) \in Values \cup {Absent}
    BY AgedOnce DEF TypeOK
  <2>2. \A p \in PortNames : Aged(late[p]) \in Values \cup {Nothing}
    BY AgedOnce DEF TypeOK, Nothing
  <2>3. at' \in 0..Len(opts)
    BY <1>2 DEF BeginRound, TypeOK
  <2> QED BY <1>2, <2>1, <2>2, <2>3 DEF BeginRound, TypeOK
<1>3. ASSUME NEW i \in 1..Len(opts), ReadModule(i) PROVE TypeOK'
  <2>1. /\ ReadGood(i) \/ ReadBad(i)
        /\ ReadLate(i)
        /\ at' = IF i = Len(opts) THEN 0 ELSE i + 1
        /\ faults' \in 0..MaxFaults
        /\ UNCHANGED <<ports, opts, toAdd, running>>
    BY <1>3, ReadResult
  <2>2. at' \in 0..Len(opts) /\ i \in Index
    BY <2>1 DEF TypeOK, Index
  <2>3. late' \in [PortNames -> Values \cup {Nothing}]
    BY <2>1 DEF ReadLate, TypeOK
  <2>4. /\ buf' \in [Index -> Values \cup {Absent}]
        /\ counter' \in [Index -> -1..(RetryCount - 1)]
        /\ fails' \in [Index -> 0..RetryCount]
    <3>1. CASE ReadGood(i)
      <4>1. PICK v \in Values : GoodRead(i, v)
        BY <3>1 DEF ReadGood
      <4>2. 0 \in -1..(RetryCount - 1) /\ 0 \in 0..RetryCount
        OBVIOUS
      <4>3. buf' \in [Index -> Values \cup {Absent}]
        BY <4>1 DEF GoodRead, TypeOK
      <4> QED BY <4>1, <4>2, <4>3 DEF GoodRead, TypeOK
    <3>2. CASE ReadBad(i)
      <4>1. PICK v \in {buf[i], Absent} : BadRead(i, v)
        BY <3>2 DEF ReadBad
      <4>2. v \in Values \cup {Absent}
        BY <2>2 DEF TypeOK
      <4>3. buf' \in [Index -> Values \cup {Absent}]
        BY <4>1, <4>2, <2>2 DEF BadRead, TypeOK
      <4>4. counter[i] \in -1..(RetryCount - 1) /\ fails[i] \in 0..RetryCount
        BY <2>2 DEF TypeOK
      <4>5. counter' \in [Index -> -1..(RetryCount - 1)]
        <5> DEFINE c == IF counter[i] + 1 = RetryCount THEN 0 ELSE counter[i] + 1
        <5>1. c \in -1..(RetryCount - 1)
          BY <4>4
        <5>2. counter' = [counter EXCEPT ![i] = c]
          BY <4>1 DEF BadRead
        <5> HIDE DEF c
        <5> QED BY <5>1, <5>2 DEF TypeOK
      <4>6. fails' \in [Index -> 0..RetryCount]
        <5> DEFINE f == IF fails[i] < RetryCount THEN fails[i] + 1 ELSE fails[i]
        <5>1. f \in 0..RetryCount
          BY <4>4
        <5>2. fails' = [fails EXCEPT ![i] = f]
          BY <4>1, <2>2 DEF BadRead, TypeOK
        <5> HIDE DEF f
        <5> QED BY <5>1, <5>2 DEF TypeOK
      <4> QED BY <4>3, <4>5, <4>6
    <3> QED BY <2>1, <3>1, <3>2
  <2> QED BY <2>1, <2>2, <2>3, <2>4 DEF TypeOK
<1>4. CASE StopRun
  <2>1. ports' \in Seq(PortRecords) /\ Len(ports') = Len(ports)
    BY <1>4, PortsClosed
  <2>2. late' \in [PortNames -> Values \cup {Nothing}]
    BY <1>4 DEF StopRun
  <2>3. faults' \in 0..MaxFaults
    BY <1>4 DEF StopRun, Disturb, TypeOK
  <2> QED BY <1>4, <2>1, <2>2, <2>3 DEF StopRun, TypeOK, PortRecords
<1>5. CASE GotoRun
  <2>1. ports' \in Seq(PortRecords) /\ Len(ports') = Len(ports)
    BY <1>5, PortsOpened
  <2>2. Disturb(0) \/ Disturb(1)
    BY <1>5 DEF GotoRun
  <2>3. faults' \in 0..MaxFaults
    BY <2>2 DEF Disturb, TypeOK
  <2> QED BY <1>5, <2>1, <2>3 DEF GotoRun, TypeOK, PortRecords
<1>6. CASE UNCHANGED vars
  BY <1>6 DEF vars, TypeOK
<1> QED BY <1>1, <1>2, <1>3, <1>4, <1>5, <1>6 DEF Next

-----------------------------------------------------------------------------
(* The other parts of the invariant                                        *)

\* The invariant holds before the first gotoRun.
LEMMA InitInv == Init => Inv
<1> SUFFICES ASSUME Init PROVE Inv
  OBVIOUS
<1>1. TypeOK
  BY InitTyped
<1>2. SetupShape
  BY ConstantsOK DEF Init, SetupShape, Index
<1>3. LateShape
  BY DEF Init, LateShape
<1>4. CounterShape
  BY DEF Init, CounterShape
<1> QED BY <1>1, <1>2, <1>3, <1>4 DEF Inv

\* Every step keeps what is known of ports and operators.
LEMMA SetupStep == Inv /\ [Next]_vars => SetupShape'
<1> SUFFICES ASSUME Inv, [Next]_vars PROVE SetupShape'
  OBVIOUS
<1> USE ConstantsOK DEF Inv
<1>1. CASE AddModule
  <2>1. /\ toAdd \in Index /\ Len(opts) = toAdd - 1 /\ at = 0 /\ ~running
        /\ Len(opts) \in Nat
    BY <1>1 DEF AddModule, SetupShape, TypeOK
  <2>2. \/ toAdd' \notin Index
        \/ toAdd' = toAdd + 1 /\ \E k \in Nat : opts' = Append(opts, k)
    <3>1. Len(Modules) + 1 \notin Index /\ Len(ports) + 1 \in Nat
      BY DEF Index, TypeOK
    <3>2. \A k \in 1..Len(ports) : k \in Nat
      OBVIOUS
    <3> HIDE ConstantsOK
    <3> QED BY <1>1, <3>1, <3>2 DEF AddModule
  <2>3. opts \in Seq(Nat)
    BY SeqWiden DEF TypeOK
  <2>4. toAdd' \in Index => Len(opts') = toAdd' - 1
    <3> SUFFICES ASSUME toAdd' \in Index PROVE Len(opts') = toAdd' - 1
      OBVIOUS
    <3>1. PICK k \in Nat : toAdd' = toAdd + 1 /\ opts' = Append(opts, k)
      BY <2>2
    <3>2. Len(opts') = Len(opts) + 1
      BY <3>1, <2>3, SeqAppend
    <3> QED BY <3>1, <3>2, <2>1 DEF Index
  <2> QED BY <1>1, <2>1, <2>4 DEF AddModule, SetupShape
<1>2. CASE BeginRound
  BY <1>2 DEF BeginRound, SetupShape
<1>3. ASSUME NEW i \in 1..Len(opts), ReadModule(i) PROVE SetupShape'
  <2>1. at = i /\ UNCHANGED <<ports, opts, toAdd, running>>
    BY <1>3, ReadResult
  <2>2. running /\ toAdd \notin Index
    BY <2>1 DEF SetupShape, TypeOK
  <2> QED BY <2>1, <2>2 DEF SetupShape
<1>4. CASE StopRun
  BY <1>4 DEF StopRun, SetupShape
<1>5. CASE GotoRun
  BY <1>5 DEF GotoRun, SetupShape
<1>6. CASE UNCHANGED vars
  BY <1>6 DEF vars, SetupShape
<1> QED BY <1>1, <1>2, <1>3, <1>4, <1>5, <1>6 DEF Next

\* Every step keeps what is known of late answers.
LEMMA LateStep == Inv /\ [Next]_vars => LateShape'
<1> SUFFICES ASSUME Inv, [Next]_vars PROVE LateShape'
  OBVIOUS
<1> USE ConstantsOK DEF Inv
<1>1. CASE AddModule
  BY <1>1 DEF AddModule, SetupShape, LateShape
<1>2. CASE BeginRound
  <2> SUFFICES ASSUME NEW p \in PortNames, late'[p] # Nothing
               PROVE  \E k \in 1..Len(opts)' :
                        /\ Name(k)' = p
                        /\ ports'[opts'[k]].open
                        /\ late'[p].age <= (IF Due(k) THEN 1 ELSE 0)'
    BY DEF LateShape
  <2>1. late'[p] = Aged(late[p])
    BY <1>2 DEF BeginRound
  <2>2. late[p] \in Values \cup {Absent}
    BY DEF TypeOK, Nothing
  <2>3. late[p] # Nothing /\ late'[p].age <= late[p].age + 1
    BY <2>1, <2>2, AgedOnce DEF Nothing
  <2>4. PICK k \in 1..Len(opts) : /\ Name(k) = p
                                  /\ ports[opts[k]].open
                                  /\ late[p].age <= IF Due(k) THEN 1 ELSE 0
    BY <2>3 DEF LateShape
  <2>5. late[p].age <= 0 /\ late[p].age \in Int /\ late'[p].age \in Int
    <3>1. at = 0
      BY <1>2 DEF BeginRound
    <3>2. late'[p] \in Values
      BY <2>1, <2>2, <2>3, AgedOnce DEF Nothing
    <3> QED BY <3>1, <3>2, <2>4, <2>2 DEF Due, Values, Absent
  <2>6. Due(k)' /\ Name(k)' = p /\ ports'[opts'[k]].open
    BY <1>2, <2>4 DEF BeginRound, Due, Name
  <2>7. late'[p].age <= 1
    BY <2>3, <2>5
  <2> QED BY <2>6, <2>7, <1>2 DEF BeginRound
<1>3. ASSUME NEW i \in 1..Len(opts), ReadModule(i) PROVE LateShape'
  <2>1. /\ ReadLate(i)
        /\ at = i /\ at' = (IF i = Len(opts) THEN 0 ELSE i + 1)
        /\ UNCHANGED <<ports, opts, toAdd, running>>
    BY <1>3, ReadResult
  <2> SUFFICES ASSUME NEW p \in PortNames, late'[p] # Nothing
               PROVE  \E k \in 1..Len(opts) :
                        /\ Name(k) = p
                        /\ ports[opts[k]].open
                        /\ late'[p].age <= (IF Due(k)' THEN 1 ELSE 0)
    BY <2>1 DEF LateShape, Name
  <2>2. CASE late'[p] = late[p] /\ (~ports[opts[i]].open \/ Name(i) # p)
    <3>1. PICK k \in 1..Len(opts) : /\ Name(k) = p
                                    /\ ports[opts[k]].open
                                    /\ late[p].age <= IF Due(k) THEN 1 ELSE 0
      BY <2>2 DEF LateShape
    <3>2. k # i
      BY <2>2, <3>1
    <3>3. Due(k)' = Due(k)
      BY <2>1, <3>2 DEF Due
    <3> QED BY <3>1, <3>3, <2>2
  <2>3. CASE ports[opts[i]].open /\ Name(i) = p /\ late'[p].age = 0
    BY <2>3, <2>1
  <2>4. \/ late'[p] = late[p] /\ (~ports[opts[i]].open \/ Name(i) # p)
        \/ ports[opts[i]].open /\ Name(i) = p /\ late'[p].age = 0
    BY <2>1 DEF ReadLate, TypeOK
  <2> QED BY <2>2, <2>3, <2>4
<1>4. CASE StopRun
  BY <1>4 DEF StopRun, LateShape
<1>5. CASE GotoRun
  <2>1. \A k \in 1..Len(opts) : opts[k] \in 1..Len(ports)
    BY SeqElement DEF TypeOK
  <2>2. \A k \in 1..Len(opts) :
          /\ ports'[opts[k]].name = ports[opts[k]].name
          /\ ports[opts[k]].open => ports'[opts[k]].open
    BY <1>5, <2>1, PortsOpened
  <2>3. UNCHANGED <<opts, late, at>>
    BY <1>5 DEF GotoRun
  <2> QED BY <2>2, <2>3 DEF LateShape, Name, Due
<1>6. CASE UNCHANGED vars
  BY <1>6 DEF vars, LateShape, Name, Due
<1> QED BY <1>1, <1>2, <1>3, <1>4, <1>5, <1>6 DEF Next

\* Every step keeps what is known of the retry counters.
LEMMA CounterStep == Inv /\ [Next]_vars => CounterShape'
<1> SUFFICES ASSUME Inv, [Next]_vars PROVE CounterShape'
  OBVIOUS
<1> USE ConstantsOK DEF Inv
<1>0. Len(opts) \in Nat /\ \A j \in 1..Len(opts) : j \in Index
  BY DEF TypeOK, Index
<1>1. CASE AddModule
  <2>1. \A j \in Index : buf'[j] = Absent
    BY <1>1 DEF AddModule, SetupShape
  <2>2. TypeOK'
    BY TypeStep
  <2>3. \A j \in 1..Len(opts') : j \in Index
    BY <2>2 DEF TypeOK, Index
  <2> QED BY <2>1, <2>3 DEF CounterShape, Present
<1>2. CASE BeginRound
  <2> SUFFICES ASSUME NEW j \in 1..Len(opts), Present(j)'
               PROVE  /\ counter[j] \in 0..(RetryCount - 1)
                      /\ fails[j] = counter[j]
                      /\ buf'[j].age <= counter[j] + 1 + (IF Due(j) THEN 1 ELSE 0)'
    BY <1>2 DEF BeginRound, CounterShape
  <2>1. buf'[j] = Aged(buf[j]) /\ buf[j] \in Values \cup {Absent}
    BY <1>2, <1>0 DEF BeginRound, TypeOK
  <2>2. Present(j) /\ buf'[j].age <= buf[j].age + 1 /\ buf'[j] \in Values
    BY <2>1, AgedOnce DEF Present
  <2>3. buf[j].age \in Int /\ buf'[j].age \in Int
    BY <2>1, <2>2 DEF Values, Absent
  <2>4. at = 0 /\ at' = 1
    BY <1>2 DEF BeginRound
  <2>5. ~Due(j) /\ Due(j)'
    BY <2>4 DEF Due
  <2>6. /\ counter[j] \in 0..(RetryCount - 1) /\ fails[j] = counter[j]
        /\ buf[j].age <= counter[j] + 1
    BY <2>2, <2>5 DEF CounterShape
  <2> QED BY <2>2, <2>3, <2>5, <2>6
<1>3. ASSUME NEW i \in 1..Len(opts), ReadModule(i) PROVE CounterShape'
  <2>1. /\ ReadGood(i) \/ ReadBad(i)
        /\ at = i /\ at' = (IF i = Len(opts) THEN 0 ELSE i + 1)
        /\ UNCHANGED <<ports, opts, toAdd, running>>
    BY <1>3, ReadResult
  <2> SUFFICES ASSUME NEW j \in 1..Len(opts), Present(j)'
               PROVE  /\ counter'[j] \in 0..(RetryCount - 1)
                      /\ fails'[j] = counter'[j]
                      /\ buf'[j].age <= counter'[j] + 1 + (IF Due(j) THEN 1 ELSE 0)'
    BY <2>1 DEF CounterShape
  <2>2. i \in Index /\ j \in Index
    BY <1>0
  <2>3. CASE j # i
    <3>1. /\ buf'[j] = buf[j] /\ counter'[j] = counter[j]
          /\ fails'[j] = fails[j]
      BY <2>1, <2>2, <2>3 DEF ReadGood, ReadBad, GoodRead, BadRead, TypeOK
    <3>2. Due(j)' = Due(j)
      BY <2>1, <2>3 DEF Due
    <3>3. Present(j)
      BY <3>1 DEF Present
    <3> QED BY <3>1, <3>2, <3>3 DEF CounterShape
  <2>4. CASE j = i /\ ReadGood(i)
    <3>1. PICK v \in Values : GoodRead(i, v) /\ (v = late[Name(i)] \/ v.age = 0)
      BY <2>4 DEF ReadGood
    <3>2. buf'[i] = v /\ counter'[i] = 0 /\ fails'[i] = 0
      BY <3>1, <2>2 DEF GoodRead, TypeOK
    <3>3. v.age \in Int /\ v # Nothing
      BY DEF Values, Nothing, Absent, Index
    <3>4. Name(i) \in PortNames
      <4>1. opts[i] \in 1..Len(ports)
        BY SeqElement DEF TypeOK
      <4>2. ports[opts[i]] \in PortRecords
        BY <4>1, SeqElement DEF TypeOK, PortRecords
      <4> QED BY <4>2 DEF Name, PortRecords
    <3>5. v.age <= 1
      <4>1. CASE v.age = 0
        BY <4>1
      <4>2. CASE v = late[Name(i)]
        BY <4>2, <3>3, <3>4 DEF LateShape
      <4> QED BY <3>1, <4>1, <4>2
    <3> QED BY <3>2, <3>3, <3>5, <2>4
  <2>5. CASE j = i /\ ReadBad(i)
    <3>1. PICK v \in {buf[i], Absent} : BadRead(i, v)
      BY <2>5 DEF ReadBad
    <3>2. counter[i] + 1 # RetryCount /\ v # Absent
      BY <3>1, <2>2, <2>5 DEF BadRead, Present, TypeOK
    <3>3. v = buf[i] /\ Present(i)
      BY <3>2 DEF Present
    <3>4. /\ counter[i] \in 0..(RetryCount - 1)
          /\ fails[i] = counter[i]
          /\ buf[i].age <= counter[i] + 1 + (IF Due(i) THEN 1 ELSE 0)
      BY <3>3 DEF CounterShape
    <3>5. /\ buf'[i] = buf[i]
          /\ counter'[i] = counter[i] + 1
          /\ fails'[i] = fails[i] + 1
      BY <3>1, <3>2, <3>3, <3>4, <2>2 DEF BadRead, TypeOK
    <3>6. buf[i].age \in Int
      <4>1. buf[i] \in Values \cup {Absent}
        BY <2>2 DEF TypeOK
      <4> QED BY <4>1 DEF Values, Absent
    <3>7. counter'[i] \in 0..(RetryCount - 1)
      BY <3>2, <3>4, <3>5
    <3>8. buf'[i].age <= counter'[i] + 1
      BY <3>4, <3>5, <3>6
    <3>9. fails'[i] = counter'[i] /\ ~Due(i)'
      BY <3>4, <3>5, <2>1 DEF Due
    <3> QED BY <3>5, <3>6, <3>7, <3>8, <3>9, <2>5
  <2> QED BY <2>1, <2>3, <2>4, <2>5
<1>4. CASE StopRun
  BY <1>4 DEF StopRun, CounterShape, Present, Due
<1>5. CASE GotoRun
  BY <1>5 DEF GotoRun, CounterShape, Present, Due
<1>6. CASE UNCHANGED vars
  BY <1>6 DEF vars, CounterShape, Present, Due
<1> QED BY <1>1, <1>2, <1>3, <1>4, <1>5, <1>6 DEF Next

-----------------------------------------------------------------------------
(* Theorems                                                                *)

\* The invariant is inductive: it holds throughout sampling, whatever the
\* devices, the ports and the settings dialog do.
THEOREM Invariance == Spec => []Inv
<1>1. Init => Inv
  BY InitInv
<1>2. Inv /\ [Next]_vars => Inv'
  BY TypeStep, SetupStep, LateStep, CounterStep DEF Inv
<1> QED BY <1>1, <1>2, PTL DEF Spec

\* initSerial and timerEvent keep all indices into serialList, deviceOptList
\* and dasDataBuf in range, and the retry counter below RetryCount.
THEOREM TypeCorrect == Spec => []TypeOK
<1>1. Inv => TypeOK
  BY DEF Inv
<1> QED BY <1>1, Invariance, PTL

\* Whatever the configuration, a value timerEvent still shows is at most
\* RetryCount + 1 rounds old.
NeverOlder ==
    \A i \in 1..Len(opts) : Present(i) => buf[i].age <= RetryCount + 1

\* So old values are not shown for ever.
THEOREM ValuesExpire == Spec => []NeverOlder
<1>1. Inv => NeverOlder
  <2> SUFFICES ASSUME Inv, NEW i \in 1..Len(opts), Present(i)
               PROVE  buf[i].age <= RetryCount + 1
    BY DEF NeverOlder
  <2>1. i \in Index
    BY ConstantsOK DEF Inv, TypeOK, Index
  <2>2. buf[i].age \in Int
    BY <2>1 DEF Inv, TypeOK, Values, Absent
  <2> QED BY <2>2, ConstantsOK DEF Inv, CounterShape
<1> QED BY <1>1, Invariance, PTL

\* On RS-485 lines timerEvent gives a module's values up only after RetryCount
\* failures in a row, for every RetryCount.
THEOREM FailuresAreTolerated == Spec => ToleratesFailures
<1>1. Inv /\ [Next]_vars =>
        [\A i \in 1..Len(opts) :
           /\ ~IsZigbee(ports[opts[i]].name)
           /\ Present(i) /\ buf'[i] = Absent
           => fails'[i] >= RetryCount]_vars
  <2> SUFFICES ASSUME Inv, Next, NEW i \in 1..Len(opts),
                      ~IsZigbee(Name(i)), Present(i), buf'[i] = Absent
               PROVE  fails'[i] >= RetryCount
    BY DEF Name
  <2> USE ConstantsOK DEF Inv
  <2>0. i \in Index
    BY DEF TypeOK, Index
  <2>1. CASE BeginRound
    <3>1. buf'[i] = Aged(buf[i]) /\ buf[i] \in Values \cup {Absent}
      BY <2>0, <2>1 DEF BeginRound, TypeOK
    <3> QED BY <3>1, AgedOnce DEF Present
  <2>2. CASE AddModule \/ StopRun \/ GotoRun
    BY <2>2 DEF AddModule, StopRun, GotoRun, Present
  <2>3. ASSUME NEW j \in 1..Len(opts), ReadModule(j)
        PROVE  fails'[i] >= RetryCount
    <3>1. ReadGood(j) \/ ReadBad(j)
      BY <2>3, ReadResult
    <3>2. j \in Index
      BY DEF TypeOK, Index
    <3>3. CASE ReadGood(j)
      <4>1. PICK v \in Values : GoodRead(j, v)
        BY <3>3 DEF ReadGood
      <4>2. v # Absent
        BY DEF Values, Absent, Index
      <4> QED BY <4>1, <4>2, <2>0, <3>2 DEF GoodRead, Present, TypeOK
    <3>4. CASE ReadBad(j)
      <4>1. PICK v \in {buf[j], Absent} :
              BadRead(j, v) /\ (v = buf[j] \/ IsZigbee(Name(j)))
        BY <3>4 DEF ReadBad
      <4>2. i = j /\ v = buf[i]
        BY <4>1, <2>0, <3>2 DEF BadRead, Present, TypeOK
      <4>3. counter[i] + 1 = RetryCount
        BY <4>1, <4>2, <2>0 DEF BadRead, Present, TypeOK
      <4>4. fails[i] = counter[i]
        BY DEF CounterShape
      <4>5. fails[i] < RetryCount /\ fails[i] + 1 = RetryCount
        <5>1. counter[i] \in -1..(RetryCount - 1)
          BY <2>0 DEF TypeOK
        <5> QED BY <5>1, <4>3, <4>4
      <4>6. fails'[i] = fails[i] + 1
        BY <4>1, <4>2, <4>5, <2>0 DEF BadRead, TypeOK
      <4> QED BY <4>5, <4>6
    <3> QED BY <3>1, <3>3, <3>4
  <2> QED BY <2>1, <2>2, <2>3 DEF Next
<1> QED BY <1>1, Invariance, PTL DEF Spec, ToleratesFailures

\* When no two modules have the same address, the values under a module's name
\* are its own, whichever port initSerial has given it and whichever answer
\* arrives in its window.
THEOREM NoForeignValues ==
  ASSUME \A i, j \in Index : Modules[i].id = Modules[j].id => i = j
  PROVE  Spec => []ValuesAreOwn
<1> DEFINE Own == \A i \in Index : Present(i) => buf[i].from = i
<1>1. Init => Own
  BY DEF Init, Present
<1>2. Inv /\ Own /\ [Next]_vars => Own'
  <2> SUFFICES ASSUME Inv, Own, [Next]_vars PROVE Own'
    OBVIOUS
  <2> USE ConstantsOK DEF Inv
  <2>1. CASE BeginRound
    <3>1. \A i \in Index : buf'[i] = Aged(buf[i])
      BY <2>1 DEF BeginRound
    <3> QED BY <3>1, AgedOnce DEF Present, TypeOK
  <2>2. CASE AddModule \/ StopRun \/ GotoRun \/ UNCHANGED vars
    BY <2>2 DEF AddModule, StopRun, GotoRun, vars, Present
  <2>3. ASSUME NEW j \in 1..Len(opts), ReadModule(j) PROVE Own'
    <3>1. ReadGood(j) \/ ReadBad(j)
      BY <2>3, ReadResult
    <3>2. j \in Index
      BY DEF TypeOK, Index
    <3>3. CASE ReadGood(j)
      <4>1. PICK v \in Values :
              GoodRead(j, v) /\ Modules[v.from].id = Modules[j].id
        BY <3>3 DEF ReadGood
      <4>2. v.from = j
        BY <4>1, <3>2 DEF Values
      <4> QED BY <4>1, <4>2, <3>2 DEF GoodRead, Present, TypeOK
    <3>4. CASE ReadBad(j)
      BY <3>4, <3>2 DEF ReadBad, BadRead, Present, TypeOK
    <3> QED BY <3>1, <3>3, <3>4
  <2> QED BY <2>1, <2>2, <2>3 DEF Next
<1>3. Inv /\ Own => ValuesAreOwn
  BY ConstantsOK DEF Inv, TypeOK, ValuesAreOwn, Index
<1> HIDE DEF Own
<1> QED BY <1>1, <1>2, <1>3, Invariance, PTL DEF Spec

-----------------------------------------------------------------------------
(* How old a value gets                                                    *)

\* initSerial's look-up finds the first port for every module but one of the
\* same name, and for that one nothing: all operators share the first port.
PortShape ==
    /\ toAdd \in Index => Len(ports) <= 1
    /\ \A k \in 1..Len(opts) : opts[k] = 1

\* So what is late belongs to the request before: of this round, or the last
\* one of the round before.
LateIsRecent ==
    \A p \in PortNames : late[p] # Nothing =>
      \E k \in 1..Len(opts) :
        /\ Modules[late[p].from].id = Modules[k].id
        /\ \/ at # 0 /\ k = at - 1 /\ late[p].age = 0
           \/ at = 1 /\ k = Len(opts) /\ late[p].age <= 1
           \/ at = 0 /\ k = Len(opts) /\ late[p].age = 0

\* A module that is not alone never takes an answer of the round before.
SharedIsFresh ==
    Len(opts) > 1 =>
      \A i \in 1..Len(opts) : Present(i) =>
        buf[i].age <= counter[i] + (IF Due(i) THEN 1 ELSE 0)

\* initSerial gives every module the first port.
LEMMA PortStep == TypeOK /\ PortShape /\ [Next]_vars => PortShape'
<1> SUFFICES ASSUME TypeOK, PortShape, [Next]_vars PROVE PortShape'
  OBVIOUS
<1> USE ConstantsOK
<1>0. opts \in Seq(1..Len(ports)) /\ ports \in Seq(PortRecords) /\ Len(ports) \in Nat
  BY DEF TypeOK, PortRecords
<1>1. CASE AddModule
  <2> DEFINE com  == Modules[toAdd].com
             hits == {k \in 1..Len(ports) : IndexOf(com, ports[k].name) # 0}
             busy == \E k \in 1..Len(ports) : ports[k].name = com
  <2>1. Len(ports) <= 1 /\ toAdd \in Index
    BY <1>1 DEF AddModule, PortShape
  <2>2. CASE \E k \in hits : /\ ports' = ports /\ toAdd' = toAdd + 1
                             /\ opts' = Append(opts, k)
    <3>1. PICK k \in hits : opts' = Append(opts, k)
      BY <2>2
    <3>2. k = 1
      BY <2>1, <1>0
    <3>3. \A l \in 1..Len(opts') : opts'[l] = 1
      <4>1. /\ Len(opts') = Len(opts) + 1 /\ opts'[Len(opts) + 1] = 1
            /\ \A l \in 1..Len(opts) : opts'[l] = opts[l]
        BY <3>1, <3>2, <1>0, <2>1, SeqAppend
      <4>2. Len(opts) \in Nat
        BY <1>0
      <4>3. \A l \in 1..Len(opts) + 1 : l \in 1..Len(opts) \/ l = Len(opts) + 1
        BY <4>2
      <4>4. \A l \in 1..Len(opts) : opts[l] = 1
        BY DEF PortShape
      <4> HIDE ConstantsOK
      <4> QED BY <4>1, <4>3, <4>4
    <3> QED BY <3>3, <2>1, <2>2 DEF PortShape
  <2>3. CASE /\ hits = {} /\ ~busy
             /\ ports' = Append(ports, [name |-> com, open |-> TRUE])
             /\ opts' = Append(opts, Len(ports) + 1)
    <3>1. Len(ports) = 0
      <4>0. \A n \in Nat : n <= 1 => n = 0 \/ n = 1
        OBVIOUS
      <4>a. Len(ports) = 0 \/ Len(ports) = 1
        BY <4>0, <2>1, <1>0, Zenon
      <4> SUFFICES ASSUME Len(ports) = 1 PROVE FALSE
        BY <4>a
      <4>1. 1 \in 1..Len(ports) /\ ports[1].name # com
        BY <2>3
      <4>2. IndexOf(com, ports[1].name) # 0
        BY <4>1 DEF IndexOf
      <4> QED BY <4>1, <4>2, <2>3
    <3>2. opts = << >>
      BY <3>1, <1>0
    <3>3. /\ Len(ports') = 1 /\ Len(opts') = 1 /\ opts'[1] = 1
      BY <2>3, <3>1, <3>2, <1>0
    <3> QED BY <3>3 DEF PortShape
  <2>4. CASE toAdd' = Len(Modules) + 1 /\ opts' = opts
    BY <2>4 DEF PortShape, Index
  <2> QED BY <1>1, <2>2, <2>3, <2>4 DEF AddModule
<1>2. CASE BeginRound
  BY <1>2 DEF BeginRound, PortShape
<1>3. ASSUME NEW i \in 1..Len(opts), ReadModule(i) PROVE PortShape'
  BY <1>3 DEF ReadModule, PortShape
<1>4. CASE StopRun \/ GotoRun
  <2>1. Len(ports') = Len(ports)
    BY <1>4, <1>0 DEF StopRun, GotoRun
  <2> QED BY <1>4, <2>1 DEF StopRun, GotoRun, PortShape
<1>5. CASE UNCHANGED vars
  BY <1>5 DEF vars, PortShape
<1> QED BY <1>1, <1>2, <1>3, <1>4, <1>5 DEF Next

\* Every request disposes of what the one before has left, since they share
\* the port.
LEMMA RecentStep ==
  Inv /\ PortShape /\ LateIsRecent /\ [Next]_vars => LateIsRecent'
<1> SUFFICES ASSUME Inv, PortShape, LateIsRecent, [Next]_vars
             PROVE  LateIsRecent'
  OBVIOUS
<1> USE ConstantsOK DEF Inv
<1>0. Len(opts) \in Nat /\ at \in 0..Len(opts)
  BY DEF TypeOK
<1>1. CASE AddModule
  BY <1>1 DEF AddModule, SetupShape, LateIsRecent
<1>2. CASE BeginRound
  <2> SUFFICES ASSUME NEW p \in PortNames, late'[p] # Nothing
               PROVE  \E k \in 1..Len(opts) :
                        /\ Modules[late'[p].from].id = Modules[k].id
                        /\ at' = 1 /\ k = Len(opts) /\ late'[p].age <= 1
    BY <1>2 DEF LateIsRecent, BeginRound
  <2>1. late'[p] = Aged(late[p]) /\ late[p] \in Values \cup {Absent}
    BY <1>2 DEF BeginRound, TypeOK, Nothing
  <2>2. late[p] # Nothing /\ late'[p].from = late[p].from
        /\ late'[p].age <= late[p].age + 1 /\ late'[p] \in Values
    BY <2>1, AgedOnce DEF Nothing
  <2>3. at = 0
    BY <1>2 DEF BeginRound
  <2>4. PICK k \in 1..Len(opts) : /\ Modules[late[p].from].id = Modules[k].id
                                  /\ k = Len(opts) /\ late[p].age = 0
    BY <2>2, <2>3 DEF LateIsRecent
  <2>5. at' = 1
    BY <1>2, <2>4 DEF BeginRound
  <2>6. late'[p].age <= 1
    BY <2>2, <2>4 DEF Values
  <2> QED BY <2>2, <2>4, <2>5, <2>6
<1>3. ASSUME NEW i \in 1..Len(opts), ReadModule(i) PROVE LateIsRecent'
  <2>1. /\ ReadLate(i)
        /\ at = i /\ at' = (IF i = Len(opts) THEN 0 ELSE i + 1)
        /\ UNCHANGED <<ports, opts, toAdd, running>>
    BY <1>3, ReadResult
  <2> SUFFICES ASSUME NEW p \in PortNames, late'[p] # Nothing
               PROVE  /\ Modules[late'[p].from].id = Modules[i].id
                      /\ late'[p].age = 0
    BY <2>1, <1>0 DEF LateIsRecent
  <2>2. \A k \in 1..Len(opts) : opts[k] = opts[i]
    BY DEF PortShape
  <2>3. late[p] # Nothing => Name(i) = p /\ ports[opts[i]].open
    BY <2>2 DEF LateShape, Name
  <2>4. ports[opts[i]].open /\ Name(i) = p
    BY <2>1, <2>3 DEF ReadLate, TypeOK
  <2> QED BY <2>1, <2>4 DEF ReadLate, TypeOK
<1>4. CASE StopRun
  BY <1>4 DEF StopRun, LateIsRecent
<1>5. CASE GotoRun
  BY <1>5 DEF GotoRun, LateIsRecent
<1>6. CASE UNCHANGED vars
  BY <1>6 DEF vars, LateIsRecent
<1> QED BY <1>1, <1>2, <1>3, <1>4, <1>5, <1>6 DEF Next

\* With addresses of their own, two modules on the line never mistake an
\* answer of the round before for one of this round.
LEMMA FreshStep ==
  ASSUME \A i, j \in Index : Modules[i].id = Modules[j].id => i = j
  PROVE  Inv /\ LateIsRecent /\ SharedIsFresh /\ [Next]_vars => SharedIsFresh'
<1> SUFFICES ASSUME Inv, LateIsRecent, SharedIsFresh, [Next]_vars
             PROVE  SharedIsFresh'
  OBVIOUS
<1> USE ConstantsOK DEF Inv
<1>0. Len(opts) \in Nat /\ \A j \in 1..Len(opts) : j \in Index
  BY DEF TypeOK, Index
<1>1. CASE AddModule
  <2>1. \A j \in Index : buf'[j] = Absent
    BY <1>1 DEF AddModule, SetupShape
  <2>2. TypeOK'
    BY TypeStep
  <2>3. \A j \in 1..Len(opts') : j \in Index
    BY <2>2 DEF TypeOK, Index
  <2> QED BY <2>1, <2>3 DEF SharedIsFresh, Present
<1>2. CASE BeginRound
  <2> SUFFICES ASSUME Len(opts) > 1, NEW j \in 1..Len(opts), Present(j)'
               PROVE  buf'[j].age <= counter[j] + (IF Due(j) THEN 1 ELSE 0)'
    BY <1>2 DEF BeginRound, SharedIsFresh
  <2>1. buf'[j] = Aged(buf[j]) /\ buf[j] \in Values \cup {Absent}
    BY <1>2, <1>0 DEF BeginRound, TypeOK
  <2>2. Present(j) /\ buf'[j].age <= buf[j].age + 1 /\ buf'[j] \in Values
    BY <2>1, AgedOnce DEF Present
  <2>3. buf[j].age \in Int /\ buf'[j].age \in Int
    BY <2>1, <2>2 DEF Values, Absent
  <2>4. at = 0 /\ at' = 1
    BY <1>2 DEF BeginRound
  <2>5. ~Due(j) /\ Due(j)'
    BY <2>4 DEF Due
  <2>6. counter[j] \in 0..(RetryCount - 1) /\ buf[j].age <= counter[j]
    BY <2>2, <2>5 DEF CounterShape, SharedIsFresh
  <2> QED BY <2>2, <2>3, <2>5, <2>6
<1>3. ASSUME NEW i \in 1..Len(opts), ReadModule(i) PROVE SharedIsFresh'
  <2>1. /\ ReadGood(i) \/ ReadBad(i)
        /\ at = i /\ at' = (IF i = Len(opts) THEN 0 ELSE i + 1)
        /\ UNCHANGED <<ports, opts, toAdd, running>>
    BY <1>3, ReadResult
  <2> SUFFICES ASSUME Len(opts) > 1, NEW j \in 1..Len(opts), Present(j)'
               PROVE  buf'[j].age <= counter'[j] + (IF Due(j) THEN 1 ELSE 0)'
    BY <2>1 DEF SharedIsFresh
  <2>2. i \in Index /\ j \in Index
    BY <1>0
  <2>3. CASE j # i
    <3>1. buf'[j] = buf[j] /\ counter'[j] = counter[j]
      BY <2>1, <2>2, <2>3 DEF ReadGood, ReadBad, GoodRead, BadRead, TypeOK
    <3>2. Due(j)' = Due(j)
      BY <2>1, <2>3 DEF Due
    <3>3. Present(j)
      BY <3>1 DEF Present
    <3> QED BY <3>1, <3>2, <3>3 DEF SharedIsFresh
  <2>4. CASE j = i /\ ReadGood(i)
    <3>1. PICK v \in Values : /\ GoodRead(i, v)
                              /\ v = late[Name(i)] \/ v.age = 0
                              /\ Modules[v.from].id = Modules[i].id
      BY <2>4 DEF ReadGood
    <3>2. buf'[i] = v /\ counter'[i] = 0
      BY <3>1, <2>2 DEF GoodRead, TypeOK
    <3>3. v # Nothing
      BY DEF Values, Nothing, Absent, Index
    <3>4. Name(i) \in PortNames
      <4>1. opts[i] \in 1..Len(ports)
        BY SeqElement DEF TypeOK
      <4>2. ports[opts[i]] \in PortRecords
        BY <4>1, SeqElement DEF TypeOK, PortRecords
      <4> QED BY <4>2 DEF Name, PortRecords
    <3>5. v.age = 0
      <4> SUFFICES ASSUME v = late[Name(i)] PROVE v.age = 0
        BY <3>1
      <4>1. PICK k \in 1..Len(opts) :
              /\ Modules[v.from].id = Modules[k].id
              /\ \/ at # 0 /\ k = at - 1 /\ v.age = 0
                 \/ at = 1 /\ k = Len(opts) /\ v.age <= 1
                 \/ at = 0 /\ k = Len(opts) /\ v.age = 0
        BY <3>3, <3>4 DEF LateIsRecent
      <4>2. k = i
        BY <4>1, <3>1, <1>0
      <4> QED BY <4>1, <4>2, <2>1
    <3> QED BY <3>2, <3>5, <2>4
  <2>5. CASE j = i /\ ReadBad(i)
    <3>1. PICK v \in {buf[i], Absent} : BadRead(i, v)
      BY <2>5 DEF ReadBad
    <3>2. counter[i] + 1 # RetryCount /\ v # Absent
      BY <3>1, <2>2, <2>5 DEF BadRead, Present, TypeOK
    <3>3. v = buf[i] /\ Present(i)
      BY <3>2 DEF Present
    <3>4. /\ counter[i] \in 0..(RetryCount - 1)
          /\ buf[i].age <= counter[i] + (IF Due(i) THEN 1 ELSE 0)
      BY <3>3 DEF CounterShape, SharedIsFresh
    <3>5. buf'[i] = buf[i] /\ counter'[i] = counter[i] + 1
      BY <3>1, <3>2, <3>3, <2>2 DEF BadRead, TypeOK
    <3>6. buf[i].age \in Int
      <4>1. buf[i] \in Values \cup {Absent}
        BY <2>2 DEF TypeOK
      <4> QED BY <4>1 DEF Values, Absent
    <3>7. buf'[i].age <= counter'[i]
      BY <3>4, <3>5, <3>6
    <3>8. ~Due(i)'
      BY <2>1 DEF Due
    <3> QED BY <3>4, <3>5, <3>6, <3>7, <3>8, <2>5
  <2> QED BY <2>1, <2>3, <2>4, <2>5
<1>4. CASE StopRun
  BY <1>4 DEF StopRun, SharedIsFresh, Present, Due
<1>5. CASE GotoRun
  BY <1>5 DEF GotoRun, SharedIsFresh, Present, Due
<1>6. CASE UNCHANGED vars
  BY <1>6 DEF vars, SharedIsFresh, Present, Due
<1> QED BY <1>1, <1>2, <1>3, <1>4, <1>5, <1>6 DEF Next

\* When no two modules have the same address, a value that timerEvent shows is
\* at most RetryCount rounds old, one round more for a module that is alone.
THEOREM AgeIsBounded ==
  ASSUME \A i, j \in Index : Modules[i].id = Modules[j].id => i = j
  PROVE  Spec => []BoundedAge
<1> DEFINE Fresh == PortShape /\ LateIsRecent /\ SharedIsFresh
<1>1. Init => Fresh
  BY DEF Init, PortShape, LateIsRecent, SharedIsFresh
<1>2. Inv /\ Fresh /\ [Next]_vars => Fresh'
  BY PortStep, RecentStep, FreshStep DEF Inv
<1>3. Inv /\ Fresh => BoundedAge
  <2> SUFFICES ASSUME Inv, Fresh, NEW i \in 1..Len(opts), Present(i)
               PROVE  buf[i].age <= RetryCount + (IF Len(opts) = 1 THEN 1 ELSE 0)
    BY DEF BoundedAge
  <2>1. i \in Index /\ Len(opts) \in Nat
    BY ConstantsOK DEF Inv, TypeOK, Index
  <2>2. buf[i].age \in Int
    BY <2>1 DEF Inv, TypeOK, Values, Absent
  <2>3. CASE Len(opts) = 1
    BY <2>2, <2>3, ConstantsOK DEF Inv, CounterShape
  <2>4. CASE Len(opts) > 1
    BY <2>2, <2>4, ConstantsOK DEF Inv, CounterShape, SharedIsFresh
  <2>5. Len(opts) = 1 \/ Len(opts) > 1
    <3>1. \A n \in Nat : \A j : j \in 1..n => n = 1 \/ n > 1
      OBVIOUS
    <3> QED BY <3>1, <2>1, Zenon
  <2> QED BY <2>3, <2>4, <2>5
<1> HIDE DEF Fresh
<1> QED BY <1>1, <1>2, <1>3, Invariance, PTL DEF Spec

-----------------------------------------------------------------------------
(* What the return of the readings rests on, but for scheduling             *)

\* Every answer in time, no visit to the settings dialog.
Undisturbed == faults' = faults

\* No port that is read holds an answer that missed its window.
Clean ==
    \A k \in 1..Len(opts) :
      ports[opts[k]].open => late[Name(k)] = Nothing

\* A module that can be reached has values of this round, or of the last one
\* as long as its turn is still to come.
UpToDate(i) ==
    Reachable(i) => Present(i) /\ buf[i].age <= IF Due(i) THEN 1 ELSE 0

\* A request that nothing disturbs leaves the line clean, and on a clean line
\* it brings the answer.
LEMMA UndisturbedRead ==
  ASSUME Inv, PortShape, NEW i \in 1..Len(opts), ReadModule(i), Undisturbed,
         ports[opts[i]].open
  PROVE  /\ Clean'
         /\ Clean /\ Reachable(i) =>
              \E v \in Values : v.age = 0 /\ GoodRead(i, v)
<1> USE ConstantsOK DEF Inv
<1> DEFINE p == ports[opts[i]]
           a == Answer(i, p)
<1>0. i \in Index /\ opts[i] \in 1..Len(ports) /\ p.name \in PortNames
  <2>1. opts[i] \in 1..Len(ports) /\ i \in Index
    BY SeqElement DEF TypeOK, Index
  <2>2. p \in PortRecords
    BY <2>1, SeqElement DEF TypeOK, PortRecords
  <2> QED BY <2>1, <2>2 DEF PortRecords
<1>1. PICK fate \in Fates, stray \in BOOLEAN :
        LET w == IF fate = "unsent" THEN << >> ELSE Window(i, p, fate, stray)
        IN /\ Disturb(IF fate = "intime" THEN 0 ELSE 1)
           /\ late' = [late EXCEPT ![p.name] =
                         IF fate = "late" THEN a ELSE Nothing]
           /\ IF fate \in {"intime", "late", "lost"} /\ Accepts(i, w)
                THEN GoodRead(i, w[1])
                ELSE \E v \in AfterFailure(i, p, w, fate) : BadRead(i, v)
  BY DEF ReadModule
<1>2. fate = "intime"
  BY <1>1 DEF Disturb, Undisturbed, TypeOK
<1>3. /\ late' = [late EXCEPT ![p.name] = Nothing]
      /\ UNCHANGED <<ports, opts>>
  BY <1>1, <1>2 DEF ReadModule
<1>4. Clean'
  <2> SUFFICES ASSUME NEW k \in 1..Len(opts)
               PROVE  late'[Name(k)] = Nothing
    BY <1>3 DEF Clean, Name
  <2>1. Name(k) = p.name
    BY DEF PortShape, Name
  <2> QED BY <2>1, <1>0, <1>3 DEF TypeOK
<1>5. ASSUME Clean, Reachable(i)
      PROVE  \E v \in Values : v.age = 0 /\ GoodRead(i, v)
  <2>1. PICK j \in Hearers(i, p) : a = [from |-> j, age |-> 0]
    BY <1>5 DEF Reachable, Answer
  <2>2. j \in Index /\ Modules[j].id = Modules[i].id
    BY DEF Hearers
  <2>3. a \in Values /\ a.age = 0 /\ a.from = j /\ a # Nothing
    BY <2>1, <2>2 DEF Values, AgeCap, Nothing, Absent, Index
  <2>4. late[p.name] = Nothing
    BY <1>5 DEF Clean, Name
  <2>5. Window(i, p, "intime", stray) = <<a>>
    <3> HIDE DEF a, p
    <3>1. Window(i, p, "intime", stray) = Frames(Nothing) \o Frames(a)
      BY <2>4 DEF Window, a
    <3>2. Frames(Nothing) = << >> /\ Frames(a) = <<a>>
      BY <2>3 DEF Frames
    <3> QED BY <3>1, <3>2
  <2>6. Accepts(i, <<a>>)
    <3> HIDE DEF a, p
    <3> QED BY <2>2, <2>3 DEF Accepts
  <2>7. GoodRead(i, a)
    <3>1. GoodRead(i, Window(i, p, "intime", stray)[1])
      BY <1>1, <1>2, <2>5, <2>6
    <3> HIDE DEF a, p
    <3> QED BY <3>1, <2>5
  <2> QED BY <2>3, <2>7
<1> QED BY <1>4, <1>5

\* A round that has begun goes on, and what was clean or up to date stays so.
LEMMA ReturnStep ==
  ASSUME Inv, PortShape, [Next]_vars, ~UNCHANGED vars, Undisturbed, running
  PROVE  /\ at' = IF at = Len(opts) THEN 0 ELSE at + 1
         /\ Clean => Clean'
         /\ \A i \in 1..Len(opts) :
              /\ ReadModule(i) /\ ports[opts[i]].open => Clean'
              /\ Clean /\ UpToDate(i) => UpToDate(i)'
              /\ Clean /\ ReadModule(i) => UpToDate(i)'
<1> USE ConstantsOK DEF Inv
<1>0. /\ Len(opts) \in Nat /\ at \in 0..Len(opts)
      /\ \A j \in 1..Len(opts) : j \in Index
  BY DEF TypeOK, Index
<1>1. CASE BeginRound
  <2>0. /\ at = 0 /\ UNCHANGED <<ports, opts>>
        /\ buf' = [i \in Index |-> Aged(buf[i])]
        /\ late' = [q \in PortNames |-> Aged(late[q])]
    BY <1>1 DEF BeginRound
  <2>1. at' = IF at = Len(opts) THEN 0 ELSE at + 1
    BY <1>1, <1>0, Len(<< >>) = 0 DEF BeginRound, TypeOK
  <2>2. Clean => Clean'
    <3> SUFFICES ASSUME NEW k \in 1..Len(opts), late[Name(k)] = Nothing
                 PROVE  late'[Name(k)] = Nothing
      BY <2>0 DEF Clean, Name
    <3>1. Aged(Nothing) = Nothing
      BY DEF Aged, Nothing, Absent
    <3>2. Name(k) \in PortNames
      <4>1. opts[k] \in 1..Len(ports)
        BY SeqElement DEF TypeOK
      <4>2. ports[opts[k]] \in PortRecords
        BY <4>1, SeqElement DEF TypeOK, PortRecords
      <4> QED BY <4>2 DEF Name, PortRecords
    <3> QED BY <3>1, <3>2, <2>0
  <2>3. ASSUME NEW i \in 1..Len(opts), UpToDate(i) PROVE UpToDate(i)'
    <3> SUFFICES ASSUME Reachable(i), Present(i), buf[i].age <= 0
                 PROVE  Present(i)' /\ buf'[i].age <= IF Due(i)' THEN 1 ELSE 0
      BY <2>0, <2>3 DEF UpToDate, Reachable, Due
    <3>1. buf'[i] = Aged(buf[i]) /\ buf[i] \in Values \cup {Absent}
      BY <1>0, <2>0 DEF TypeOK
    <3>2. Present(i)' /\ buf'[i].age <= buf[i].age + 1 /\ buf'[i] \in Values
      BY <3>1, AgedOnce DEF Present
    <3>3. buf[i].age \in Int /\ buf'[i].age \in Int
      BY <3>1, <3>2 DEF Values, Absent
    <3>4. at' = 1
      BY <1>0, <2>0, <2>1
    <3>5. Due(i)'
      BY <3>4 DEF Due
    <3> QED BY <3>2, <3>3, <3>5
  <2>4. ASSUME NEW i \in 1..Len(opts), ReadModule(i) PROVE FALSE
    <3>1. at = i
      BY <2>4, ReadResult
    <3> QED BY <3>1, <2>0, <1>0
  <2> QED BY <2>1, <2>2, <2>3, <2>4
<1>2. ASSUME NEW j \in 1..Len(opts), ReadModule(j)
      PROVE  /\ at' = IF at = Len(opts) THEN 0 ELSE at + 1
             /\ Clean => Clean'
             /\ \A i \in 1..Len(opts) :
                  /\ ReadModule(i) /\ ports[opts[i]].open => Clean'
                  /\ Clean /\ UpToDate(i) => UpToDate(i)'
                  /\ Clean /\ ReadModule(i) => UpToDate(i)'
  <2>0. /\ ReadGood(j) \/ ReadBad(j)
        /\ at = j /\ at' = (IF j = Len(opts) THEN 0 ELSE j + 1)
        /\ UNCHANGED <<ports, opts>>
    BY <1>2, ReadResult
  <2>1. at' = IF at = Len(opts) THEN 0 ELSE at + 1
    BY <2>0
  <2>2. Clean => Clean'
    <3>1. CASE ports[opts[j]].open
      BY <1>2, <3>1, UndisturbedRead
    <3>2. CASE ~ports[opts[j]].open
      <4>1. late' = late
        BY <1>2, <3>2 DEF ReadModule
      <4> QED BY <2>0, <4>1 DEF Clean, Name
    <3> QED BY <3>1, <3>2
  <2>3. ASSUME NEW i \in 1..Len(opts), ReadModule(i) PROVE i = j
    BY <2>0, <2>3 DEF ReadModule
  <2>4. ASSUME Clean PROVE UpToDate(j)'
    <3> SUFFICES ASSUME Reachable(j)
                 PROVE  Present(j)' /\ buf'[j].age <= IF Due(j)' THEN 1 ELSE 0
      BY <2>0 DEF UpToDate, Reachable
    <3>1. PICK v \in Values : v.age = 0 /\ GoodRead(j, v)
      BY <1>2, <2>4, UndisturbedRead DEF Reachable
    <3>2. buf'[j] = v
      BY <1>0, <3>1 DEF GoodRead, TypeOK
    <3>3. v # Absent
      BY DEF Values, Absent, Index
    <3> QED BY <3>1, <3>2, <3>3 DEF Present
  <2>5. ASSUME NEW i \in 1..Len(opts), i # j, UpToDate(i) PROVE UpToDate(i)'
    <3>1. buf'[i] = buf[i]
      BY <1>0, <2>0, <2>5 DEF ReadGood, ReadBad, GoodRead, BadRead, TypeOK
    <3>2. Due(i)' = Due(i)
      BY <2>0, <2>5 DEF Due
    <3> QED BY <2>0, <2>5, <3>1, <3>2 DEF UpToDate, Reachable, Present
  <2>6. ports[opts[j]].open => Clean'
    BY <1>2, UndisturbedRead
  <2> QED BY <2>1, <2>2, <2>3, <2>4, <2>5, <2>6
<1>3. CASE AddModule
  BY <1>3 DEF AddModule, SetupShape
<1>4. CASE StopRun
  BY <1>4 DEF StopRun, Disturb, Undisturbed, TypeOK
<1>5. CASE GotoRun
  BY <1>5 DEF GotoRun
<1> QED BY <1>1, <1>2, <1>3, <1>4, <1>5 DEF Next

\* What remains of ReadingsReturn when scheduling is taken away.  While nothing
\* disturbs the sampling every step takes the round one module further; the
\* first request on an open port cleans the line of late answers and no step
\* dirties it again; and on a clean line each module that can be reached is up
\* to date once it has been read, and stays so.  Two rounds are therefore
\* enough, however many modules share the line and whatever was late on it.
THEOREM TwoRoundsReturn ==
    Spec => [][Undisturbed /\ running /\ ~UNCHANGED vars =>
                 /\ at' = IF at = Len(opts) THEN 0 ELSE at + 1
                 /\ Clean => Clean'
                 /\ \A i \in 1..Len(opts) :
                      /\ ReadModule(i) /\ ports[opts[i]].open => Clean'
                      /\ Clean /\ UpToDate(i) => UpToDate(i)'
                      /\ Clean /\ ReadModule(i) => UpToDate(i)']_vars
<1>1. Init => PortShape
  BY DEF Init, PortShape
<1>2. Inv /\ PortShape /\ [Next]_vars => PortShape'
  BY PortStep DEF Inv
<1>3. Inv /\ PortShape /\ [Next]_vars =>
        [Undisturbed /\ running /\ ~UNCHANGED vars =>
           /\ at' = IF at = Len(opts) THEN 0 ELSE at + 1
           /\ Clean => Clean'
           /\ \A i \in 1..Len(opts) :
                /\ ReadModule(i) /\ ports[opts[i]].open => Clean'
                /\ Clean /\ UpToDate(i) => UpToDate(i)'
                /\ Clean /\ ReadModule(i) => UpToDate(i)']_vars
  BY ReturnStep
<1> QED BY <1>1, <1>2, <1>3, Invariance, PTL DEF Spec
=============================================================================
