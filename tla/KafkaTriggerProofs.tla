------------------------- MODULE KafkaTriggerProofs -------------------------
(***************************************************************************)
(* What the consumer group and its handlers promise, for any number of     *)
(* replicas, messages, tests of a suite, losses and shutdowns.             *)
(***************************************************************************)
EXTENDS KafkaTrigger, FiniteSetTheorems, TLAPS

USE DEF Handling, Messages

-----------------------------------------------------------------------------
(* The first part of the inductive invariant: a handler works on the       *)
(* message its replica took last, which takes the partition for its own,   *)
(* and drives a run of that message.                                       *)

HandlerInv(c) ==
  /\ owner = c => state[c] = "assigned"
  /\ pc[c] # "poll" => state[c] = "assigned" /\ position[c] \in Messages
  /\ pc[c] \in {"poll", "start"} => driving[c] = 0 /\ submitted[c] = 0
  /\ pc[c] = "submit" => submitted[c] < SuiteSize
  /\ pc[c] \in {"submit", "complete", "report"} =>
       /\ driving[c] \in 1 .. Len(runs)
       /\ runs[driving[c]].message = position[c]

HandlersInv == TypeOK /\ \A c \in Consumers : HandlerInv(c)

LEMMA InitHandlers == Init => HandlersInv
<1> SUFFICES ASSUME Init PROVE HandlersInv
  OBVIOUS
<1>1. TypeOK
  BY TriggerAssumption DEF Init, TypeOK, TaskStates
<1> QED
  BY <1>1, TriggerAssumption DEF Init, HandlersInv, HandlerInv

(* The steps of the consumer and its group touch no run, and no handler    *)
(* but that of a replica that goes down.                                   *)
GroupStep(c) ==
  \/ Start(c) \/ StartFails(c) \/ Assign(c) \/ AutoCommit(c)
  \/ Take(c) \/ Choke(c) \/ Rejoin(c) \/ Stop(c) \/ Expire(c) \/ Crash(c)

LEMMA GroupStepKeepsHandlers ==
  ASSUME HandlersInv, NEW c \in Consumers, GroupStep(c)
  PROVE  HandlersInv'
<1> USE DEF HandlersInv, HandlerInv
<1>1. CASE Start(c) \/ StartFails(c) \/ AutoCommit(c) \/ Expire(c)
  <2>1. /\ UNCHANGED <<log, position, pc, driving, submitted, runs, raised>>
        /\ owner' \in {owner, None}
        /\ \A x \in Consumers : state'[x] = state[x] \/ state[x] = "down"
    BY <1>1 DEF Start, StartFails, AutoCommit, Expire, TypeOK
  <2>2. TypeOK'
    <3>1. CASE Start(c) \/ StartFails(c)
      BY <3>1 DEF Start, StartFails, TypeOK, TaskStates
    <3>2. CASE AutoCommit(c)
      BY <3>2 DEF AutoCommit, TypeOK
    <3>3. CASE Expire(c)
      BY SMTT(30), <3>3, TriggerAssumption DEF Expire, TypeOK
    <3> QED
      BY <1>1, <3>1, <3>2, <3>3
  <2> QED
    BY <2>1, <2>2, TriggerAssumption
<1>2. CASE Assign(c) \/ Rejoin(c)
  <2>1. TypeOK'
    <3>1. CASE Assign(c)
      <4>1. committed \in 0 .. LogLength /\ state' \in [Consumers -> TaskStates]
        BY <3>1 DEF Assign, TypeOK, TaskStates
      <4> QED
        BY <3>1, <4>1 DEF Assign, TypeOK
    <3>2. CASE Rejoin(c)
      <4>1. 0 \in 0 .. LogLength /\ state' \in [Consumers -> TaskStates]
        BY <3>2, TriggerAssumption DEF Rejoin, TypeOK, TaskStates
      <4> QED
        BY <3>2, <4>1 DEF Rejoin, TypeOK
    <3> QED
      BY <1>2, <3>1, <3>2
  <2>2. /\ UNCHANGED <<log, pc, driving, submitted, runs, raised>> /\ pc[c] = "poll"
        /\ owner' # c \/ state'[c] = "assigned"
        /\ \A x \in Consumers \ {c} : /\ state'[x] = state[x] /\ position'[x] = position[x]
                                      /\ owner' = x => owner = x
    BY <1>2, TriggerAssumption DEF Assign, Rejoin, Lost, LoopIsFree, TypeOK
  <2> QED
    BY <2>1, <2>2
<1>3. CASE Take(c)
  <2>1. position[c] + 1 \in Messages
    BY <1>3, TriggerAssumption DEF Take, Polls, TypeOK
  <2>2. TypeOK'
    BY <1>3, <2>1, TriggerAssumption DEF Take, TypeOK
  <2> QED
    BY <1>3, <2>1, <2>2, TriggerAssumption DEF Take, Polls, LoopIsFree, TypeOK
<1>4. CASE Choke(c)
  <2>1. /\ UNCHANGED <<log, pc, driving, submitted, runs, raised, losses, crashes, stops>>
        /\ Leave(c) /\ committed' = LastCommit(c)
        /\ state' = [state EXCEPT ![c] = "ended"]
        /\ position' = [position EXCEPT ![c] = 0]
    BY <1>4 DEF Choke
  <2>2. committed' \in 0 .. LogLength /\ owner' \in Consumers \cup {None}
    BY <2>1 DEF LastCommit, Leave, TypeOK
  <2>3. /\ state' \in [Consumers -> TaskStates]
        /\ position' \in [Consumers -> 0 .. LogLength]
    BY <2>1, TriggerAssumption DEF TypeOK, TaskStates
  <2>4. TypeOK'
    BY <2>1, <2>2, <2>3 DEF TypeOK
  <2> QED
    BY SMTT(30), <1>4, <2>1, <2>4, TriggerAssumption DEF Choke, Polls, LoopIsFree, Leave, TypeOK
<1>5. CASE Stop(c) \/ Crash(c)
  <2>1. UNCHANGED <<log, runs, raised>> /\ GoDown(c) /\ Leave(c)
    BY <1>5 DEF Stop, Crash
  <2>2. committed' \in 0 .. LogLength
    BY <1>5 DEF Stop, Crash, LastCommit, TypeOK
  <2>3. /\ losses' \in 0 .. MaxLosses /\ stops' \in 0 .. MaxStops
        /\ crashes' \in 0 .. losses'
    <3>1. CASE Stop(c)
      BY SMTT(30), <3>1, TriggerAssumption DEF Stop, TypeOK
    <3>2. CASE Crash(c)
      <4>1. losses' = losses + 1 /\ crashes' = crashes + 1 /\ stops' = stops /\ losses < MaxLosses
        BY <3>2 DEF Crash
      <4> QED
        BY SMTT(30), <4>1, TriggerAssumption DEF TypeOK
    <3> QED
      BY <1>5, <3>1, <3>2
  <2>4. /\ owner' \in Consumers \cup {None}
        /\ state' \in [Consumers -> TaskStates]
        /\ position' \in [Consumers -> 0 .. LogLength]
    BY <2>1, TriggerAssumption DEF GoDown, Leave, TypeOK, TaskStates
  <2>5. /\ pc' \in [Consumers -> {"poll"} \cup Handling]
        /\ driving' \in [Consumers -> 0 .. Len(runs)]
        /\ submitted' \in [Consumers -> 0 .. SuiteSize]
    <3>1. 0 \in 0 .. Len(runs) /\ 0 \in 0 .. SuiteSize
      BY TriggerAssumption DEF TypeOK
    <3> QED
      BY <2>1, <3>1 DEF GoDown, HandlerEnds, TypeOK
  <2>6. TypeOK'
    BY <2>1, <2>2, <2>3, <2>4, <2>5 DEF TypeOK
  <2> QED
    BY <2>1, <2>6, TriggerAssumption DEF GoDown, HandlerEnds, Leave, TypeOK
<1> QED
  BY <1>1, <1>2, <1>3, <1>4, <1>5 DEF GroupStep

-----------------------------------------------------------------------------
(* The steps of a handler.                                                 *)

LEMMA StartRunEffect ==
  ASSUME HandlersInv, NEW c \in Consumers, StartRun(c)
  PROVE  /\ runs' \in Seq(RunRow) /\ Len(runs') = Len(runs) + 1 /\ Len(runs) \in Nat
         /\ \A i \in 1 .. Len(runs) : runs'[i] = runs[i]
         /\ runs'[Len(runs) + 1].message = position[c]
         /\ ~runs'[Len(runs) + 1].reported
<1> DEFINE row == [message |-> position[c], status |-> "started",
                   stored |-> {}, reported |-> FALSE]
<1>1. row \in RunRow
  BY DEF HandlersInv, HandlerInv, StartRun, RunRow
<1>2. runs' = Append(runs, row) /\ runs \in Seq(RunRow)
  BY DEF StartRun, HandlersInv, TypeOK
<1>3. row.message = position[c] /\ ~row.reported
  OBVIOUS
<1> HIDE DEF row
<1> QED
  BY <1>1, <1>2, <1>3

(* Nothing else of a run changes than what the handler is about.           *)
LEMMA DriveEffect ==
  ASSUME HandlersInv, NEW c \in Consumers, Submit(c) \/ SaveCompleted(c) \/ Report(c)
  PROVE  /\ runs' \in Seq(RunRow) /\ Len(runs') = Len(runs)
         /\ \A i \in 1 .. Len(runs) :
              /\ runs'[i].message = runs[i].message
              /\ runs[i].reported => runs'[i].reported
         /\ Report(c) => runs'[driving[c]].reported
<1> DEFINE d == driving[c]
<1>1. d \in 1 .. Len(runs) /\ runs \in Seq(RunRow) /\ runs[d] \in RunRow
  BY DEF HandlersInv, HandlerInv, Submit, SaveCompleted, Report, TypeOK
<1>2. PICK row \in RunRow :
        /\ runs' = [runs EXCEPT ![d] = row]
        /\ row.message = runs[d].message
        /\ runs[d].reported => row.reported
        /\ Report(c) => row.reported
  <2>1. CASE Submit(c)
    <3>1. submitted[c] + 1 \in 1 .. SuiteSize
      BY SMTT(30), <2>1, TriggerAssumption DEF Submit, HandlersInv, HandlerInv, TypeOK
    <3>2. [runs[d] EXCEPT !.stored = @ \cup {submitted[c] + 1}] \in RunRow
      BY <1>1, <3>1 DEF RunRow
    <3>3. runs' = [runs EXCEPT ![d] = [runs[d] EXCEPT !.stored = @ \cup {submitted[c] + 1}]]
      BY <2>1 DEF Submit
    <3>4. ~Report(c)
      BY <2>1 DEF Submit, Report
    <3> QED
      BY <1>1, <3>2, <3>3, <3>4 DEF RunRow
  <2>2. CASE SaveCompleted(c)
    <3>1. [runs[d] EXCEPT !.status = "completed"] \in RunRow
      BY <1>1 DEF RunRow
    <3>2. runs' = [runs EXCEPT ![d] = [runs[d] EXCEPT !.status = "completed"]]
      BY <2>2 DEF SaveCompleted
    <3>3. ~Report(c)
      BY <2>2 DEF SaveCompleted, Report
    <3> QED
      BY <1>1, <3>1, <3>2, <3>3 DEF RunRow
  <2>3. CASE Report(c)
    <3>1. [runs[d] EXCEPT !.reported = TRUE] \in RunRow
      BY <1>1 DEF RunRow
    <3>2. runs' = [runs EXCEPT ![d] = [runs[d] EXCEPT !.reported = TRUE]]
      BY <2>3 DEF Report
    <3> QED
      BY <1>1, <3>1, <3>2 DEF RunRow
  <2> QED
    BY <2>1, <2>2, <2>3
<1> HIDE DEF d
<1>3. /\ runs' \in Seq(RunRow) /\ Len(runs') = Len(runs)
      /\ \A i \in 1 .. Len(runs) : runs'[i] = IF i = d THEN row ELSE runs[i]
  BY <1>1, <1>2
<1> QED
  BY <1>1, <1>2, <1>3 DEF d

LEMMA HandlerEndsTyped ==
  ASSUME HandlersInv, NEW c \in Consumers, HandlerEnds(c)
  PROVE  /\ pc' \in [Consumers -> {"poll"} \cup Handling]
         /\ driving' \in [Consumers -> 0 .. Len(runs)]
         /\ submitted' \in [Consumers -> 0 .. SuiteSize]
<1>1. 0 \in 0 .. Len(runs) /\ 0 \in 0 .. SuiteSize
  BY TriggerAssumption DEF HandlersInv, TypeOK
<1> QED
  BY <1>1 DEF HandlersInv, TypeOK, HandlerEnds

LEMMA HandlerKeepsHandlers ==
  ASSUME HandlersInv, NEW c \in Consumers, Handler(c)
  PROVE  HandlersInv'
<1> USE DEF HandlersInv, HandlerInv
<1>1. CASE StartRun(c)
  <2>1. /\ runs' \in Seq(RunRow) /\ Len(runs') = Len(runs) + 1 /\ Len(runs) \in Nat
        /\ \A i \in 1 .. Len(runs) : runs'[i] = runs[i]
        /\ runs'[Len(runs) + 1].message = position[c]
    BY <1>1, StartRunEffect
  <2>2. /\ UNCHANGED <<group, submitted, raised>> /\ pc[c] = "start"
        /\ driving' = [driving EXCEPT ![c] = Len(runs) + 1]
        /\ pc' = [pc EXCEPT ![c] = "submit"]
    BY <1>1 DEF StartRun
  <2>3. TypeOK'
    BY <2>1, <2>2 DEF TypeOK, group
  <2>4. ASSUME NEW x \in Consumers PROVE HandlerInv(x)'
    <3>1. CASE x = c
      BY <2>1, <2>2, <3>1, TriggerAssumption DEF TypeOK, group
    <3>2. CASE x # c
      <4>1. /\ pc'[x] = pc[x] /\ driving'[x] = driving[x]
            /\ position'[x] = position[x] /\ submitted'[x] = submitted[x]
            /\ UNCHANGED <<owner, state>>
        BY <2>2, <3>2 DEF TypeOK, group
      <4>2. HandlerInv(x) /\ (driving[x] \in 1 .. Len(runs) =>
              driving[x] \in 1 .. Len(runs') /\ runs'[driving[x]] = runs[driving[x]])
        BY <2>1
      <4> QED
        BY <4>1, <4>2
    <3> QED
      BY <3>1, <3>2
  <2> QED
    BY <2>3, <2>4
<1>2. CASE Submit(c) \/ SaveCompleted(c) \/ Report(c)
  <2>1. /\ runs' \in Seq(RunRow) /\ Len(runs') = Len(runs)
        /\ \A i \in 1 .. Len(runs) : runs'[i].message = runs[i].message
    BY <1>2, DriveEffect
  <2>2. UNCHANGED <<group, raised>>
    BY <1>2 DEF Submit, SaveCompleted, Report
  <2>3. /\ pc' \in [Consumers -> {"poll"} \cup Handling]
        /\ driving' \in [Consumers -> 0 .. Len(runs)]
        /\ submitted' \in [Consumers -> 0 .. SuiteSize]
    <3>1. CASE Submit(c)
      BY SMTT(30), <3>1, TriggerAssumption DEF Submit, NextSubmit, TypeOK
    <3>2. CASE SaveCompleted(c)
      BY <3>2 DEF SaveCompleted, TypeOK
    <3>3. CASE Report(c)
      BY <3>3, HandlerEndsTyped DEF Report
    <3> QED
      BY <1>2, <3>1, <3>2, <3>3
  <2>4. TypeOK'
    BY <2>1, <2>2, <2>3 DEF TypeOK, group
  <2>5. ASSUME NEW x \in Consumers PROVE HandlerInv(x)'
    <3>1. CASE x = c /\ Submit(c)
      BY SMTT(30), <2>1, <2>2, <3>1, TriggerAssumption DEF Submit, NextSubmit, TypeOK, group
    <3>2. CASE x = c /\ (SaveCompleted(c) \/ Report(c))
      BY <2>1, <2>2, <3>2 DEF SaveCompleted, Report, HandlerEnds, TypeOK, group
    <3>3. CASE x # c
      BY SMTT(30), <1>2, <2>1, <2>2, <3>3
         DEF Submit, NextSubmit, SaveCompleted, Report, HandlerEnds, TypeOK, group
    <3> QED
      BY <1>2, <3>1, <3>2, <3>3
  <2> QED
    BY <2>4, <2>5
<1>3. CASE SubmitRaises(c)
  <2>1. TypeOK'
    <3>1. /\ submitted' \in [Consumers -> 0 .. SuiteSize]
          /\ pc' \in [Consumers -> {"poll"} \cup Handling]
      BY <1>3, TriggerAssumption DEF SubmitRaises, NextSubmit, TypeOK
    <3> QED
      BY <1>3, <3>1 DEF SubmitRaises, TypeOK, group
  <2> QED
    BY SMTT(30), <1>3, <2>1, TriggerAssumption DEF SubmitRaises, NextSubmit, TypeOK, group
<1>4. CASE HandlerRaises(c)
  <2>1. TypeOK'
    <3>1. /\ UNCHANGED <<log, committed, owner, position, runs, losses, crashes, stops>>
          /\ raised' = raised \cup {position[c]} /\ position[c] \in Messages
          /\ state' = [state EXCEPT ![c] = state[c]]
      BY <1>4 DEF HandlerRaises, AfterError
    <3> QED
      BY <1>4, <3>1, HandlerEndsTyped DEF HandlerRaises, TypeOK
  <2> QED
    BY <1>4, <2>1 DEF HandlerRaises, HandlerEnds, AfterError, TypeOK
<1> QED
  BY <1>1, <1>2, <1>3, <1>4 DEF Handler

-----------------------------------------------------------------------------
(* The second part: what a replica took is settled, but for the message    *)
(* its handler is at work on; of a replica that lost the partition too.    *)

TakenAreSettled ==
  /\ \A m \in Messages : m <= committed /\ log[m] = "trigger" => Settled(m)
  /\ \A c \in Consumers : \A m \in Messages :
       m <= position[c] /\ log[m] = "trigger" =>
         Settled(m) \/ (pc[c] # "poll" /\ m = position[c])

(* What has been settled stays so.                                         *)
LEMMA SettledStays ==
  ASSUME HandlersInv, NEW c \in Consumers, GroupStep(c) \/ Handler(c)
  PROVE  \A m \in Messages : Settled(m) => Settled(m)'
<1>1. CASE GroupStep(c)
  BY <1>1 DEF GroupStep, Start, StartFails, Assign, AutoCommit, Take, Choke, Rejoin, Stop, Expire, Crash,
     Settled, RunsOf
<1>2. CASE StartRun(c)
  <2>1. raised' = raised /\ DOMAIN runs = 1 .. Len(runs) /\ DOMAIN runs' = 1 .. Len(runs')
    BY <1>2, StartRunEffect DEF StartRun, HandlersInv, TypeOK
  <2>2. /\ Len(runs) \in Nat /\ Len(runs') = Len(runs) + 1
        /\ \A i \in 1 .. Len(runs) : runs'[i] = runs[i]
    BY <1>2, StartRunEffect
  <2>3. \A i \in 1 .. Len(runs) : i \in 1 .. Len(runs')
    BY <2>2
  <2> QED
    BY <2>1, <2>2, <2>3 DEF Settled, RunsOf
<1>3. CASE Submit(c) \/ SaveCompleted(c) \/ Report(c)
  <2>1. raised' = raised /\ DOMAIN runs = 1 .. Len(runs) /\ DOMAIN runs' = 1 .. Len(runs')
    BY <1>3, DriveEffect DEF Submit, SaveCompleted, Report, HandlersInv, TypeOK
  <2> QED
    BY <1>3, <2>1, DriveEffect DEF Settled, RunsOf
<1>4. CASE SubmitRaises(c) \/ HandlerRaises(c)
  BY <1>4 DEF SubmitRaises, HandlerRaises, Settled, RunsOf
<1> QED
  BY <1>1, <1>2, <1>3, <1>4 DEF Handler

(* A commit or an assignment happens between two handlers.                 *)
LEMMA GroupStepKeepsSettled ==
  ASSUME HandlersInv, TakenAreSettled, NEW c \in Consumers, GroupStep(c)
  PROVE  TakenAreSettled'
<1>1. log' = log /\ \A m \in Messages : Settled(m) => Settled(m)'
  BY SettledStays DEF GroupStep, Start, StartFails, Assign, AutoCommit, Take, Choke, Rejoin, Stop,
     Expire, Crash
<1>2. SUFFICES ASSUME NEW m \in Messages, log[m] = "trigger", ~Settled(m)'
               PROVE  /\ ~(m <= committed')
                      /\ \A x \in Consumers : m <= position'[x] =>
                           pc'[x] # "poll" /\ m = position'[x]
  BY <1>1 DEF TakenAreSettled
<1>3. /\ ~(m <= committed) /\ ~Settled(m)
      /\ \A x \in Consumers : m <= position[x] => pc[x] # "poll" /\ m = position[x]
  BY <1>1, <1>2 DEF TakenAreSettled
<1>4. m \in Int /\ ~(m <= 0) /\ position[c] \in Int
  BY TriggerAssumption DEF HandlersInv, TypeOK
<1>5. CASE Start(c) \/ StartFails(c) \/ Expire(c)
  BY <1>3, <1>5 DEF Start, StartFails, Expire
<1>6. CASE Assign(c) \/ Rejoin(c)
  BY <1>3, <1>4, <1>6 DEF Assign, Rejoin, HandlersInv, TypeOK
<1>7. CASE AutoCommit(c)
  BY <1>3, <1>7 DEF AutoCommit, LoopIsFree
<1>8. CASE Take(c)
  <2>1. /\ committed' = committed /\ pc[c] = "poll"
        /\ position'[c] = position[c] + 1
        /\ pc'[c] = IF log[position[c] + 1] = "trigger" THEN "start" ELSE "poll"
        /\ \A x \in Consumers \ {c} : position'[x] = position[x] /\ pc'[x] = pc[x]
    BY <1>8 DEF Take, Polls, LoopIsFree, HandlersInv, TypeOK
  <2>2. m <= position'[c] => m = position[c] + 1
    BY <1>3, <1>4, <2>1
  <2> QED
    BY <1>2, <1>3, <2>1, <2>2
<1>9. CASE Choke(c) \/ Stop(c) \/ Crash(c)
  <2>1. /\ committed' = committed \/ (committed' = LastCommit(c) /\ pc[c] = "poll")
        /\ position'[c] = 0
        /\ \A x \in Consumers \ {c} : position'[x] = position[x] /\ pc'[x] = pc[x]
    BY <1>9 DEF Choke, Polls, Stop, LoopIsFree, Crash, GoDown, HandlerEnds, HandlersInv, TypeOK
  <2>2. ~(m <= committed')
    BY <1>3, <2>1 DEF LastCommit
  <2> QED
    BY <1>3, <1>4, <2>1, <2>2
<1> QED
  BY <1>5, <1>6, <1>7, <1>8, <1>9 DEF GroupStep

(* A handler leaves its message settled, and lets go of it only then.      *)
LEMMA HandlerKeepsSettled ==
  ASSUME HandlersInv, TakenAreSettled, NEW c \in Consumers, Handler(c)
  PROVE  TakenAreSettled'
<1>1. /\ UNCHANGED <<log, committed, owner, position>>
      /\ pc[c] # "poll" /\ \A x \in Consumers \ {c} : pc'[x] = pc[x]
  BY DEF Handler, StartRun, Submit, SubmitRaises, NextSubmit, SaveCompleted, Report, HandlerRaises,
     HandlerEnds, group, HandlersInv, TypeOK
<1>2. \A m \in Messages : Settled(m) => Settled(m)'
  BY SettledStays
<1>3. pc'[c] # "poll" \/ Settled(position[c])'
  <2>1. CASE StartRun(c) \/ Submit(c) \/ SubmitRaises(c) \/ SaveCompleted(c)
    BY <2>1 DEF StartRun, Submit, SubmitRaises, NextSubmit, SaveCompleted, HandlersInv, TypeOK
  <2>2. CASE Report(c)
    <3>1. /\ driving[c] \in 1 .. Len(runs) /\ runs[driving[c]].message = position[c]
          /\ position' = position
      BY <2>2 DEF Report, HandlersInv, HandlerInv, group
    <3>2. /\ driving[c] \in DOMAIN runs' /\ runs'[driving[c]].message = position[c]
          /\ runs'[driving[c]].reported
      BY <2>2, <3>1, DriveEffect
    <3> QED
      BY <3>1, <3>2 DEF Settled, RunsOf
  <2>3. CASE HandlerRaises(c)
    BY <2>3 DEF HandlerRaises, Settled
  <2> QED
    BY <2>1, <2>2, <2>3 DEF Handler
<1>4. position[c] \in Messages
  BY <1>1 DEF HandlersInv, HandlerInv
<1>5. ASSUME NEW m \in Messages, log[m] = "trigger", NEW x \in Consumers,
             m <= position[x]
      PROVE  Settled(m)' \/ (pc'[x] # "poll" /\ m = position[x])
  <2>1. Settled(m) \/ (pc[x] # "poll" /\ m = position[x])
    BY <1>5 DEF TakenAreSettled
  <2>2. CASE Settled(m)
    BY <1>2, <2>2
  <2>3. CASE x # c
    BY <1>1, <1>2, <2>1, <2>3
  <2>4. CASE x = c /\ m = position[c]
    <3>1. Settled(position[c])' => Settled(m)'
      BY <1>1, <2>4 DEF Settled, RunsOf
    <3> QED
      BY <1>3, <2>4, <3>1
  <2> QED
    BY <2>1, <2>2, <2>3, <2>4
<1>6. \A m \in Messages : m <= committed /\ log[m] = "trigger" => Settled(m)'
  BY <1>2 DEF TakenAreSettled
<1> QED
  BY <1>1, <1>5, <1>6 DEF TakenAreSettled

-----------------------------------------------------------------------------
(* The third part counts, for each message, the runs it started, the       *)
(* replicas that may still start one, with the partition or without, and   *)
(* the one more the group owes it while nobody has the partition and the   *)
(* message is not committed.                                               *)

MayStart(m) ==
  {c \in Consumers : \/ pc[c] = "start" /\ position[c] = m
                     \/ state[c] = "assigned" /\ position[c] < m}
Owed(m) == IF owner = None /\ committed < m THEN 1 ELSE 0

StartsBounded ==
  \A m \in Messages :
    Cardinality(RunsOf(m)) + Cardinality(MayStart(m)) + Owed(m) <= 1 + losses

LEMMA RunsAreFinite ==
  ASSUME HandlersInv
  PROVE  /\ DOMAIN runs = 1 .. Len(runs) /\ IsFiniteSet(1 .. Len(runs))
         /\ \A m : IsFiniteSet(RunsOf(m)) /\ Cardinality(RunsOf(m)) \in Nat
         /\ \A m : IsFiniteSet(MayStart(m)) /\ Cardinality(MayStart(m)) \in Nat
         /\ \A m : Owed(m) \in {0, 1}
<1>1. DOMAIN runs = 1 .. Len(runs) /\ IsFiniteSet(1 .. Len(runs))
  BY FS_Interval DEF HandlersInv, TypeOK
<1>2. \A m : IsFiniteSet(RunsOf(m)) /\ Cardinality(RunsOf(m)) \in Nat
  BY <1>1, FS_Subset, FS_CardinalityType DEF RunsOf
<1>3. \A m : IsFiniteSet(MayStart(m)) /\ Cardinality(MayStart(m)) \in Nat
  BY TriggerAssumption, FS_Subset, FS_CardinalityType DEF MayStart
<1> QED
  BY <1>1, <1>2, <1>3 DEF Owed

(* A set that lost nothing but gained at most one element.                 *)
LEMMA AtMostOneMore ==
  ASSUME NEW S, NEW T, NEW x, IsFiniteSet(S), T \subseteq S \cup {x}
  PROVE  /\ IsFiniteSet(T) /\ Cardinality(T) \in Nat /\ Cardinality(S) \in Nat
         /\ Cardinality(T) <= Cardinality(S) + 1
<1>1. IsFiniteSet(S \cup {x}) /\ Cardinality(S \cup {x}) <= Cardinality(S) + 1
      /\ Cardinality(S) \in Nat
  BY FS_AddElement, FS_CardinalityType
<1>2. IsFiniteSet(T) /\ Cardinality(T) <= Cardinality(S \cup {x})
  BY <1>1, FS_Subset
<1> QED
  BY <1>1, <1>2, FS_CardinalityType

(* The group owes a message to the replica it assigns the partition to,    *)
(* and is owed it by one that leaves; a loss leaves both.                  *)
LEMMA GroupStepOwes ==
  ASSUME HandlersInv, NEW c \in Consumers, GroupStep(c), NEW m \in Messages
  PROVE  /\ RunsOf(m)' = RunsOf(m)
         /\ \/ /\ losses' = losses /\ Owed(m)' <= Owed(m)
               /\ MayStart(m)' \subseteq MayStart(m)
            \/ /\ losses' = losses /\ Owed(m) = 1 /\ Owed(m)' = 0
               /\ MayStart(m)' \subseteq MayStart(m) \cup {c}
            \/ /\ losses' = losses /\ Owed(m) = 0
               /\ c \in MayStart(m) /\ MayStart(m)' \subseteq MayStart(m) \ {c}
            \/ /\ losses' = losses + 1
               /\ MayStart(m)' \subseteq MayStart(m)
<1> USE DEF HandlersInv
<1>1. RunsOf(m)' = RunsOf(m)
  BY DEF GroupStep, Start, StartFails, Assign, AutoCommit, Take, Choke, Rejoin, Stop, Expire, Crash,
     RunsOf
<1>2. /\ \A x \in Consumers : position[x] \in Int
      /\ committed \in Int /\ m \in Int /\ owner \in Consumers \cup {None}
      /\ None \notin Consumers
      /\ Owed(m) \in {0, 1} /\ Owed(m)' \in {0, 1}
  BY TriggerAssumption DEF TypeOK, Owed
<1> DEFINE Same(x) == position'[x] = position[x] /\ pc'[x] = pc[x] /\ state'[x] = state[x]
<1>3. CASE Start(c) \/ StartFails(c)
  <2>1. /\ UNCHANGED <<losses, owner, committed, position, pc>>
        /\ state'[c] # "assigned" /\ \A x \in Consumers \ {c} : Same(x)
    BY <1>3 DEF Start, StartFails, TypeOK
  <2> QED
    BY <1>1, <1>2, <2>1 DEF Owed, MayStart
<1>4. CASE Assign(c)
  <2>1. /\ UNCHANGED <<losses, pc, committed>> /\ owner = None /\ owner' = c
        /\ position'[c] = committed
        /\ \A x \in Consumers \ {c} : Same(x)
        /\ pc[c] = "poll"
    BY <1>4 DEF Assign, TypeOK, HandlerInv
  <2>2. Owed(m)' = 0 /\ (committed < m => Owed(m) = 1)
    BY <1>2, <2>1 DEF Owed
  <2>3. MayStart(m)' \subseteq MayStart(m) \cup {c}
    BY <2>1 DEF MayStart
  <2>4. CASE committed < m
    BY <1>1, <2>1, <2>2, <2>3, <2>4
  <2>5. CASE ~(committed < m)
    <3>1. MayStart(m)' \subseteq MayStart(m)
      BY <2>1, <2>5 DEF MayStart
    <3> QED
      BY <1>1, <1>2, <2>1, <2>2, <3>1
  <2> QED
    BY <2>4, <2>5
<1>5. CASE AutoCommit(c)
  <2>1. /\ UNCHANGED <<losses, owner, position, pc, state>> /\ owner = c
    BY <1>5 DEF AutoCommit
  <2>2. Owed(m)' = Owed(m) /\ MayStart(m)' = MayStart(m)
    BY <1>2, <2>1 DEF Owed, MayStart
  <2> QED
    BY <1>1, <1>2, <2>1, <2>2
<1>6. CASE Take(c)
  <2>1. /\ UNCHANGED <<losses, owner, committed, state>> /\ pc[c] = "poll"
        /\ state[c] = "assigned" /\ position'[c] = position[c] + 1
        /\ \A x \in Consumers \ {c} : Same(x)
    BY <1>6 DEF Take, Polls, LoopIsFree, TypeOK
  <2>2. c \in MayStart(m)' => position[c] < m
    BY <1>2, <2>1 DEF MayStart
  <2>3. MayStart(m)' \subseteq MayStart(m)
    BY <2>1, <2>2 DEF MayStart
  <2> QED
    BY <1>1, <1>2, <2>1, <2>3 DEF Owed
<1>7. CASE Rejoin(c)
  <2>1. /\ UNCHANGED <<losses, owner, committed>> /\ pc'[c] = "poll"
        /\ state'[c] = "up"
        /\ \A x \in Consumers \ {c} : Same(x)
    BY <1>7 DEF Rejoin, LoopIsFree, TypeOK
  <2>2. MayStart(m)' \subseteq MayStart(m)
    BY <2>1 DEF MayStart
  <2> QED
    BY <1>1, <1>2, <2>1, <2>2 DEF Owed
<1>8. CASE Choke(c) \/ Stop(c)
  <2>1. /\ losses' = losses /\ pc[c] = "poll"
        /\ committed' = LastCommit(c) /\ Leave(c)
        /\ \A x \in Consumers \ {c} : Same(x)
        /\ pc'[c] = "poll" /\ state'[c] # "assigned"
    BY <1>8 DEF Choke, Polls, Stop, LoopIsFree, GoDown, HandlerEnds, TypeOK
  <2>2. MayStart(m)' \subseteq MayStart(m) \ {c}
    BY <2>1 DEF MayStart
  <2>3. CASE owner = c
    <3>1. /\ owner' = None /\ committed' = position[c] /\ state[c] = "assigned"
      BY <2>1, <2>3 DEF LastCommit, Leave, HandlerInv
    <3>2. Owed(m) = 0
      BY <1>2, <2>3 DEF Owed
    <3>3. CASE position[c] < m
      <4>1. c \in MayStart(m)
        BY <3>1, <3>3 DEF MayStart
      <4> QED
        BY <1>1, <2>1, <2>2, <3>2, <4>1
    <3>4. CASE ~(position[c] < m)
      <4>1. Owed(m)' = 0
        BY <3>1, <3>4 DEF Owed
      <4> QED
        BY <1>1, <1>2, <2>1, <2>2, <3>2, <4>1
    <3> QED
      BY <3>3, <3>4
  <2>4. CASE owner # c
    <3>1. owner' = owner /\ committed' = committed
      BY <2>1, <2>4 DEF LastCommit, Leave
    <3>2. Owed(m)' = Owed(m)
      BY <3>1 DEF Owed
    <3> QED
      BY <1>1, <1>2, <2>1, <2>2, <3>2
  <2> QED
    BY <2>3, <2>4
<1>9. CASE Expire(c) \/ Crash(c)
  <2>1. losses' = losses + 1 /\ MayStart(m)' \subseteq MayStart(m)
    BY <1>9 DEF Expire, Crash, GoDown, HandlerEnds, MayStart, TypeOK
  <2> QED
    BY <1>1, <2>1
<1> QED
  BY <1>3, <1>4, <1>5, <1>6, <1>7, <1>8, <1>9 DEF GroupStep

LEMMA GroupStepKeepsStarts ==
  ASSUME HandlersInv, HandlersInv', StartsBounded, NEW c \in Consumers, GroupStep(c)
  PROVE  StartsBounded'
<1> SUFFICES ASSUME NEW m \in Messages
             PROVE  Cardinality(RunsOf(m))' + Cardinality(MayStart(m))' + Owed(m)' <= 1 + losses'
  BY DEF StartsBounded
<1> DEFINE R == Cardinality(RunsOf(m))
           S == Cardinality(MayStart(m))
<1>1. R \in Nat /\ S \in Nat /\ S' \in Nat /\ Owed(m) \in {0, 1} /\ Owed(m)' \in {0, 1}
      /\ losses \in Int /\ R + S + Owed(m) <= 1 + losses
  <2>1. R \in Nat /\ S \in Nat /\ Owed(m) \in {0, 1}
    BY RunsAreFinite
  <2>2. Owed(m)' \in {0, 1}
    BY DEF Owed
  <2>3. S' \in Nat
    BY TriggerAssumption, FS_Subset, FS_CardinalityType DEF MayStart
  <2> QED
    BY <2>1, <2>2, <2>3 DEF HandlersInv, TypeOK, StartsBounded
<1>2. R' = R
  BY GroupStepOwes
<1>3. IsFiniteSet(MayStart(m))
  BY RunsAreFinite
<1>4. ASSUME MayStart(m)' \subseteq MayStart(m) PROVE S' <= S
  BY <1>3, <1>4, FS_Subset
<1>5. ASSUME MayStart(m)' \subseteq MayStart(m) \cup {c} PROVE S' <= S + 1
  BY <1>3, <1>5, AtMostOneMore
<1>6. ASSUME c \in MayStart(m), MayStart(m)' \subseteq MayStart(m) \ {c} PROVE S' <= S - 1
  <2> DEFINE rest == MayStart(m) \ {c}
  <2>1. IsFiniteSet(rest) /\ Cardinality(rest) = S - 1
    BY <1>3, <1>6, FS_RemoveElement
  <2>2. MayStart(m)' \subseteq rest
    BY <1>6
  <2> HIDE DEF rest
  <2> QED
    BY <2>1, <2>2, FS_Subset
<1> HIDE DEF R, S
<1>7. \/ losses' = losses /\ Owed(m)' <= Owed(m) /\ S' <= S
      \/ losses' = losses /\ Owed(m) = 1 /\ Owed(m)' = 0 /\ S' <= S + 1
      \/ losses' = losses /\ Owed(m) = 0 /\ S' <= S - 1
      \/ losses' = losses + 1 /\ S' <= S
  BY <1>4, <1>5, <1>6, GroupStepOwes
<1>8. R' + S' + Owed(m)' <= 1 + losses'
  BY <1>1, <1>2, <1>7
<1> QED
  BY <1>8 DEF R, S

(* start_run turns a handler about to start a run into the run.            *)
LEMMA HandlerKeepsStarts ==
  ASSUME HandlersInv, StartsBounded, NEW c \in Consumers, Handler(c)
  PROVE  StartsBounded'
<1> SUFFICES ASSUME NEW m \in Messages
             PROVE  Cardinality(RunsOf(m))' + Cardinality(MayStart(m))' + Owed(m)' <= 1 + losses'
  BY DEF StartsBounded
<1> DEFINE R == Cardinality(RunsOf(m))
           S == Cardinality(MayStart(m))
<1>1. /\ R \in Nat /\ S \in Nat /\ Owed(m) \in {0, 1}
      /\ losses \in Int /\ R + S + Owed(m) <= 1 + losses
  BY RunsAreFinite DEF HandlersInv, TypeOK, StartsBounded
<1>2. losses' = losses /\ Owed(m)' = Owed(m) /\ position' = position /\ state' = state
  BY DEF Handler, StartRun, Submit, SubmitRaises, SaveCompleted, Report, HandlerRaises, AfterError,
     group, Owed, HandlersInv, TypeOK
<1>3. CASE StartRun(c) /\ position[c] = m
  <2>1. /\ pc[c] = "start" /\ pc'[c] = "submit"
        /\ \A x \in Consumers \ {c} : pc'[x] = pc[x]
    BY <1>3 DEF StartRun, HandlersInv, TypeOK
  <2>2. c \in MayStart(m) /\ MayStart(m)' = MayStart(m) \ {c}
    BY <1>2, <1>3, <2>1 DEF MayStart, HandlersInv, TypeOK
  <2>3. S' = S - 1
    BY <2>2, RunsAreFinite, FS_RemoveElement
  <2>4. RunsOf(m)' \subseteq RunsOf(m) \cup {Len(runs) + 1}
    <3>1. /\ Len(runs') = Len(runs) + 1 /\ Len(runs) \in Nat /\ runs' \in Seq(RunRow)
          /\ \A i \in 1 .. Len(runs) : runs'[i] = runs[i]
      BY <1>3, StartRunEffect
    <3>2. DOMAIN runs = 1 .. Len(runs) /\ DOMAIN runs' = 1 .. Len(runs) + 1
      BY <3>1, RunsAreFinite
    <3>3. \A i \in 1 .. Len(runs) + 1 : i \in 1 .. Len(runs) \/ i = Len(runs) + 1
      BY <3>1
    <3> QED
      BY <3>1, <3>2, <3>3 DEF RunsOf
  <2>5. R' \in Nat /\ R' <= R + 1
    BY <2>4, RunsAreFinite, AtMostOneMore
  <2> QED
    BY <1>1, <1>2, <2>3, <2>5
<1>4. CASE ~(StartRun(c) /\ position[c] = m)
  <2>1. RunsOf(m)' = RunsOf(m)
    <3>1. CASE StartRun(c)
      <4>1. /\ Len(runs') = Len(runs) + 1 /\ Len(runs) \in Nat /\ runs' \in Seq(RunRow)
            /\ \A i \in 1 .. Len(runs) : runs'[i] = runs[i]
            /\ runs'[Len(runs) + 1].message # m
        BY <1>4, <3>1, StartRunEffect
      <4>2. DOMAIN runs = 1 .. Len(runs) /\ DOMAIN runs' = 1 .. Len(runs) + 1
        BY <4>1, RunsAreFinite
      <4>3. \A i \in 1 .. Len(runs) + 1 : i \in 1 .. Len(runs) \/ i = Len(runs) + 1
        BY <4>1
      <4>4. \A i \in 1 .. Len(runs) : i \in 1 .. Len(runs) + 1
        BY <4>1
      <4> QED
        BY <4>1, <4>2, <4>3, <4>4 DEF RunsOf
    <3>2. CASE Submit(c) \/ SaveCompleted(c) \/ Report(c)
      <4>1. /\ runs' \in Seq(RunRow) /\ Len(runs') = Len(runs)
            /\ \A i \in 1 .. Len(runs) : runs'[i].message = runs[i].message
        BY <3>2, DriveEffect
      <4>2. DOMAIN runs = 1 .. Len(runs) /\ DOMAIN runs' = 1 .. Len(runs)
        BY <4>1, RunsAreFinite
      <4> QED
        BY <4>1, <4>2 DEF RunsOf
    <3>3. CASE SubmitRaises(c) \/ HandlerRaises(c)
      BY <3>3 DEF SubmitRaises, HandlerRaises, RunsOf
    <3> QED
      BY <3>1, <3>2, <3>3 DEF Handler
  <2>2. MayStart(m)' \subseteq MayStart(m)
    BY <1>2 DEF Handler, StartRun, Submit, SubmitRaises, NextSubmit, SaveCompleted, Report,
       HandlerRaises, HandlerEnds, MayStart, HandlersInv, TypeOK
  <2>3. S' \in Nat /\ S' <= S
    BY <2>2, RunsAreFinite, FS_Subset, FS_CardinalityType
  <2> QED
    BY <1>1, <1>2, <2>1, <2>3
<1> QED
  BY <1>3, <1>4

-----------------------------------------------------------------------------
(* The fourth part: a run is left behind by a crash.                       *)

LeftBehind ==
  {i \in DOMAIN runs : /\ ~runs[i].reported /\ i \notin {driving[c] : c \in Consumers}
                       /\ runs[i].message \notin raised}

LEMMA LeftBehindIsFinite ==
  ASSUME HandlersInv
  PROVE  IsFiniteSet(LeftBehind) /\ Cardinality(LeftBehind) \in Nat
BY RunsAreFinite, FS_Subset, FS_CardinalityType DEF LeftBehind

LEMMA LeftBehindSame == LeftBehindByCrashOnly <=> Cardinality(LeftBehind) <= crashes
BY DEF LeftBehindByCrashOnly, LeftBehind

LEMMA GroupStepLeaves ==
  ASSUME HandlersInv, HandlersInv', Cardinality(LeftBehind) <= crashes,
         NEW c \in Consumers, GroupStep(c)
  PROVE  Cardinality(LeftBehind)' <= crashes'
<1>1. UNCHANGED <<runs, raised>> /\ crashes' \in {crashes, crashes + 1} /\ crashes \in Int
  BY SMTT(30) DEF GroupStep, Start, StartFails, Assign, AutoCommit, Take, Choke, Rejoin, Stop, Expire, Crash,
     HandlersInv, TypeOK
<1>2. CASE Crash(c)
  <2>1. crashes' = crashes + 1 /\ \A x \in Consumers \ {c} : driving'[x] = driving[x]
    BY <1>2 DEF Crash, GoDown, HandlerEnds, HandlersInv, TypeOK
  <2>2. LeftBehind' \subseteq LeftBehind \cup {driving[c]}
    BY <1>1, <2>1 DEF LeftBehind
  <2>3. Cardinality(LeftBehind') <= Cardinality(LeftBehind) + 1 /\ Cardinality(LeftBehind) \in Nat
        /\ Cardinality(LeftBehind') \in Nat
    BY <2>2, LeftBehindIsFinite, AtMostOneMore
  <2> QED
    BY <1>1, <2>1, <2>3
<1>3. CASE ~Crash(c)
  <2>1. driving' = driving
    <3>1. CASE Stop(c)
      <4>1. driving[c] = 0 /\ driving' = [driving EXCEPT ![c] = 0]
        BY <3>1 DEF Stop, LoopIsFree, GoDown, HandlerEnds, HandlersInv, HandlerInv
      <4> QED
        BY <4>1 DEF HandlersInv, TypeOK
    <3>2. CASE ~Stop(c)
      BY <1>3, <3>2 DEF GroupStep, Start, StartFails, Assign, AutoCommit, Take, Choke, Rejoin, Expire
    <3> QED
      BY <3>1, <3>2
  <2>2. LeftBehind' = LeftBehind
    BY <1>1, <2>1 DEF LeftBehind
  <2> QED
    BY <1>1, <2>2, LeftBehindIsFinite
<1> QED
  BY <1>2, <1>3

LEMMA HandlerLeavesNone ==
  ASSUME HandlersInv, HandlersInv', NEW c \in Consumers, Handler(c)
  PROVE  LeftBehind' \subseteq LeftBehind /\ crashes' = crashes
<1>1. crashes' = crashes
  BY DEF Handler, StartRun, Submit, SubmitRaises, SaveCompleted, Report, HandlerRaises, group
<1>2. /\ DOMAIN runs = 1 .. Len(runs) /\ DOMAIN runs' = 1 .. Len(runs')
      /\ Len(runs) \in Nat /\ raised \subseteq raised'
      /\ \A x \in Consumers \ {c} : driving'[x] = driving[x]
  <2>1. runs \in Seq(RunRow) /\ runs' \in Seq(RunRow)
    BY DEF HandlersInv, TypeOK
  <2>2. /\ DOMAIN runs = 1 .. Len(runs) /\ DOMAIN runs' = 1 .. Len(runs')
        /\ Len(runs) \in Nat
    BY <2>1
  <2>3. raised \subseteq raised'
    BY DEF Handler, StartRun, Submit, SubmitRaises, SaveCompleted, Report, HandlerRaises
  <2>4. \A x \in Consumers \ {c} : driving'[x] = driving[x]
    <3>1. driving \in [Consumers -> 0 .. Len(runs)]
      BY DEF HandlersInv, TypeOK
    <3>2. driving' = driving \/ \E d : driving' = [driving EXCEPT ![c] = d]
      BY DEF Handler, StartRun, Submit, SubmitRaises, SaveCompleted, Report, HandlerRaises,
         HandlerEnds
    <3> QED
      BY <3>1, <3>2
  <2> QED
    BY <2>2, <2>3, <2>4
<1>3. CASE StartRun(c)
  <2>1. /\ Len(runs') = Len(runs) + 1
        /\ \A i \in 1 .. Len(runs) : runs'[i] = runs[i]
        /\ driving'[c] = Len(runs) + 1 /\ driving[c] = 0
    BY <1>3, StartRunEffect DEF StartRun, HandlersInv, HandlerInv, TypeOK
  <2>2. ASSUME NEW i \in LeftBehind' PROVE i \in LeftBehind
    <3>1. i \in 1 .. Len(runs) /\ runs'[i] = runs[i]
      BY <1>2, <2>1 DEF LeftBehind
    <3> QED
      BY <1>2, <2>1, <3>1 DEF LeftBehind
  <2> QED
    BY <1>1, <2>2
<1>4. CASE Submit(c) \/ SaveCompleted(c) \/ Report(c)
  <2>1. /\ Len(runs') = Len(runs)
        /\ \A i \in 1 .. Len(runs) :
             /\ runs'[i].message = runs[i].message
             /\ runs[i].reported => runs'[i].reported
        /\ Report(c) => runs'[driving[c]].reported
    BY <1>4, DriveEffect
  <2>2. ~Report(c) => driving' = driving
    BY <1>4 DEF Submit, NextSubmit, SaveCompleted
  <2>3. ASSUME NEW i \in LeftBehind' PROVE i \in LeftBehind
    <3>1. i \in 1 .. Len(runs) /\ ~runs[i].reported /\ runs[i].message \notin raised
      BY <1>2, <2>1 DEF LeftBehind
    <3>2. i # driving[c]
      BY <2>1, <2>2 DEF LeftBehind
    <3> QED
      BY <1>2, <3>1, <3>2 DEF LeftBehind
  <2> QED
    BY <1>1, <2>3
<1>5. CASE SubmitRaises(c)
  BY <1>1, <1>5 DEF SubmitRaises, NextSubmit, LeftBehind
<1>6. CASE HandlerRaises(c)
  <2>1. /\ runs' = runs /\ raised' = raised \cup {position[c]}
        /\ driving[c] \in 1 .. Len(runs) => runs[driving[c]].message = position[c]
    BY <1>6 DEF HandlerRaises, HandlersInv, HandlerInv
  <2>2. ASSUME NEW i \in LeftBehind' PROVE i \in LeftBehind
    <3>1. i # driving[c] /\ i \in 1 .. Len(runs)
      BY <1>2, <2>1 DEF LeftBehind
    <3> QED
      BY <1>2, <2>1, <3>1 DEF LeftBehind
  <2> QED
    BY <1>1, <2>2
<1> QED
  BY <1>3, <1>4, <1>5, <1>6 DEF Handler

-----------------------------------------------------------------------------
(* The theorems.                                                           *)

TriggerInv ==
  /\ HandlersInv
  /\ TakenAreSettled
  /\ StartsBounded
  /\ Cardinality(LeftBehind) <= crashes

LEMMA InitInv == Init => TriggerInv
<1> SUFFICES ASSUME Init PROVE TriggerInv
  OBVIOUS
<1>1. HandlersInv
  BY InitHandlers
<1>2. TakenAreSettled
  BY TriggerAssumption DEF Init, TakenAreSettled
<1>3. \A m : RunsOf(m) = {} /\ MayStart(m) = {}
  BY DEF Init, RunsOf, MayStart
<1>4. StartsBounded
  BY <1>1, <1>3, FS_EmptySet, RunsAreFinite DEF Init, StartsBounded
<1>5. LeftBehind = {}
  BY DEF Init, LeftBehind
<1>6. Cardinality(LeftBehind) <= crashes
  BY <1>5, FS_EmptySet DEF Init
<1> QED
  BY <1>1, <1>2, <1>4, <1>6 DEF TriggerInv

LEMMA StepKeepsInv ==
  ASSUME TriggerInv, NEW c \in Consumers, GroupStep(c) \/ Handler(c)
  PROVE  TriggerInv'
<1>1. HandlersInv'
  BY GroupStepKeepsHandlers, HandlerKeepsHandlers DEF TriggerInv
<1>2. TakenAreSettled'
  BY GroupStepKeepsSettled, HandlerKeepsSettled DEF TriggerInv
<1>3. StartsBounded'
  BY <1>1, GroupStepKeepsStarts, HandlerKeepsStarts DEF TriggerInv
<1>4. Cardinality(LeftBehind)' <= crashes'
  <2>1. CASE GroupStep(c)
    BY <1>1, <2>1, GroupStepLeaves DEF TriggerInv
  <2>2. CASE Handler(c)
    <3>1. LeftBehind' \subseteq LeftBehind /\ crashes' = crashes
      BY <1>1, <2>2, HandlerLeavesNone DEF TriggerInv
    <3>2. /\ Cardinality(LeftBehind') <= Cardinality(LeftBehind)
          /\ Cardinality(LeftBehind') \in Nat /\ Cardinality(LeftBehind) \in Nat
      BY <3>1, LeftBehindIsFinite, FS_Subset, FS_CardinalityType DEF TriggerInv
    <3>3. crashes \in Int
      BY DEF TriggerInv, HandlersInv, TypeOK
    <3> QED
      BY <3>1, <3>2, <3>3 DEF TriggerInv
  <2> QED
    BY <2>1, <2>2
<1> QED
  BY <1>1, <1>2, <1>3, <1>4 DEF TriggerInv

LEMMA NextKeepsInv == TriggerInv /\ [Next]_vars => TriggerInv'
<1> SUFFICES ASSUME TriggerInv, [Next]_vars PROVE TriggerInv'
  OBVIOUS
<1>1. CASE \E c \in Consumers : GroupStep(c) \/ Handler(c)
  BY <1>1, StepKeepsInv
<1>2. CASE UNCHANGED vars
  <2>1. HandlersInv'
    BY <1>2 DEF vars, TriggerInv, HandlersInv, HandlerInv, TypeOK
  <2>2. TakenAreSettled'
    BY <1>2 DEF vars, TriggerInv, TakenAreSettled, Settled, RunsOf
  <2>3. StartsBounded' /\ Cardinality(LeftBehind)' <= crashes'
    BY <1>2 DEF vars, TriggerInv, StartsBounded, RunsOf, MayStart, Owed, LeftBehind
  <2> QED
    BY <2>1, <2>2, <2>3 DEF TriggerInv
<1> QED
  BY <1>1, <1>2 DEF Next, GroupStep, Idle

LEMMA TriggerCorrect == Spec => []TriggerInv
<1>1. Spec => Init /\ [][Next]_vars
  BY DEF Spec
<1> QED
  BY <1>1, InitInv, NextKeepsInv, PTL

(* The types of the group and of its handlers.                             *)
THEOREM TypeCorrect == Spec => []TypeOK
<1>1. TriggerInv => TypeOK
  BY DEF TriggerInv, HandlersInv
<1> QED
  BY <1>1, TriggerCorrect, PTL

(* CommittedIsSettled: no crash, expired session, shutdown or error of a   *)
(* handler skips a message.                                                *)
THEOREM NothingSkipped == Spec => []CommittedIsSettled
<1>1. TriggerInv => CommittedIsSettled
  BY DEF TriggerInv, TakenAreSettled, CommittedIsSettled
<1> QED
  BY <1>1, TriggerCorrect, PTL

(* RunsAreBounded: only a loss has a message handled once more.            *)
THEOREM RepeatsAreLosses == Spec => []RunsAreBounded
<1>1. ASSUME TriggerInv PROVE RunsAreBounded
  <2>1. HandlersInv /\ losses \in Int
    BY <1>1 DEF TriggerInv, HandlersInv, TypeOK
  <2> QED
    BY <1>1, <2>1, RunsAreFinite DEF TriggerInv, StartsBounded, RunsAreBounded
<1> QED
  BY <1>1, TriggerCorrect, PTL

(* LeftBehindByCrashOnly: one run for each crash, and none for a lost       *)
(* partition or a shutdown.                                                *)
THEOREM LeftByCrashes == Spec => []LeftBehindByCrashOnly
<1>1. TriggerInv => LeftBehindByCrashOnly
  BY LeftBehindSame DEF TriggerInv
<1> QED
  BY <1>1, TriggerCorrect, PTL

-----------------------------------------------------------------------------
(* The refinement.  It needs what the theorems above do not: that the      *)
(* owner of the partition is never behind the committed offset, that only  *)
(* triggers are handled and nobody gets past an undecodable message, and   *)
(* that a run is driven by one handler, which knows how far it is.         *)

CommitsBehind == owner # None => committed <= position[owner]

TakenAreDecodable ==
  /\ \A m \in Messages : m <= committed => log[m] # "undecodable"
  /\ \A c \in Consumers : \A m \in Messages : m <= position[c] => log[m] # "undecodable"

HandledAreTriggers == \A c \in Consumers : pc[c] # "poll" => log[position[c]] = "trigger"

Drives(c) ==
  LET run == runs[driving[c]] IN
  /\ pc[c] \in {"submit", "complete"} => run.status = "started"
  /\ pc[c] = "report" => run.status = "completed"
  /\ pc[c] \in {"submit", "complete", "report"} => ~run.reported
  /\ pc[c] = "submit" => run.stored \subseteq 1 .. submitted[c]

OneDriver ==
  \A c, d \in Consumers : driving[c] = driving[d] /\ driving[c] # 0 => c = d

DriversInv == OneDriver /\ \A c \in Consumers : Drives(c)

OrderInv == CommitsBehind /\ TakenAreDecodable /\ HandledAreTriggers /\ DriversInv

LEMMA InitOrder == Init => OrderInv
BY TriggerAssumption DEF Init, OrderInv, CommitsBehind, TakenAreDecodable, HandledAreTriggers,
   DriversInv, OneDriver, Drives

(* A step of the group leaves every handler as it is, or ends that of c.   *)
LEMMA GroupStepEffect ==
  ASSUME HandlersInv, NEW c \in Consumers, GroupStep(c)
  PROVE  /\ UNCHANGED <<log, runs, raised>>
         /\ \A x \in Consumers :
              \/ UNCHANGED <<pc[x], driving[x], submitted[x]>>
              \/ pc'[x] = "poll" /\ driving'[x] = 0
              \/ pc[x] = "poll" /\ pc'[x] = "start" /\ driving'[x] = driving[x]
         /\ \A m : Settled(m)' = Settled(m)
<1>1. UNCHANGED <<log, runs, raised>>
  BY DEF GroupStep, Start, StartFails, Assign, AutoCommit, Take, Choke, Rejoin, Stop, Expire, Crash
<1>2. \A m : Settled(m)' = Settled(m)
  BY <1>1 DEF Settled, RunsOf
<1>3. CASE \/ Start(c) \/ StartFails(c) \/ Assign(c) \/ AutoCommit(c)
           \/ Choke(c) \/ Rejoin(c) \/ Expire(c)
  BY <1>1, <1>2, <1>3 DEF Start, StartFails, Assign, AutoCommit, Choke, Rejoin, Expire
<1>4. CASE Take(c)
  BY <1>1, <1>2, <1>4 DEF Take, Polls, LoopIsFree, HandlersInv, TypeOK
<1>5. CASE Stop(c) \/ Crash(c)
  BY <1>1, <1>2, <1>5 DEF Stop, Crash, GoDown, HandlerEnds, HandlersInv, TypeOK
<1> QED
  BY <1>3, <1>4, <1>5 DEF GroupStep

LEMMA GroupStepKeepsOrder ==
  ASSUME TriggerInv, OrderInv, NEW c \in Consumers, GroupStep(c)
  PROVE  OrderInv'
<1>1. HandlersInv /\ TakenAreSettled
  BY DEF TriggerInv
<1>2. /\ UNCHANGED <<log, runs, raised>>
      /\ \A x \in Consumers :
           \/ UNCHANGED <<pc[x], driving[x], submitted[x]>>
           \/ pc'[x] = "poll" /\ driving'[x] = 0
           \/ pc[x] = "poll" /\ pc'[x] = "start" /\ driving'[x] = driving[x]
      /\ \A m : Settled(m)' = Settled(m)
  BY <1>1, GroupStepEffect
<1>3. DriversInv'
  BY <1>2 DEF OrderInv, DriversInv, OneDriver, Drives
<1>4. CASE Start(c) \/ StartFails(c) \/ Expire(c)
  <2>1. UNCHANGED <<log, committed, position, pc>> /\ owner' \in {owner, None}
    BY <1>4 DEF Start, StartFails, Expire
  <2> QED
    BY <1>2, <1>3, <2>1 DEF OrderInv, CommitsBehind, TakenAreDecodable, HandledAreTriggers
<1>5. CASE Assign(c) \/ Rejoin(c)
  <2>1. /\ UNCHANGED <<log, committed, pc>> /\ pc[c] = "poll"
        /\ position'[c] \in {committed, 0}
        /\ \/ owner' = c /\ position'[c] = committed
           \/ owner' = owner /\ owner # c
        /\ \A x \in Consumers \ {c} : position'[x] = position[x]
    BY <1>1, <1>5 DEF Assign, Rejoin, Lost, LoopIsFree, HandlersInv, HandlerInv, TypeOK
  <2>2. committed \in Int /\ owner \in Consumers \cup {None}
    BY <1>1 DEF HandlersInv, TypeOK
  <2>3. CommitsBehind' /\ HandledAreTriggers'
    BY <1>2, <2>1, <2>2 DEF OrderInv, CommitsBehind, HandledAreTriggers
  <2>4. TakenAreDecodable'
    BY <2>1, <2>2, TriggerAssumption DEF OrderInv, TakenAreDecodable
  <2> QED
    BY <1>3, <2>3, <2>4 DEF OrderInv
<1>6. CASE AutoCommit(c)
  <2>1. UNCHANGED <<log, owner, position, pc>> /\ committed' = position[c] /\ owner = c
    BY <1>6 DEF AutoCommit
  <2>2. position[c] \in Int
    BY <1>1 DEF HandlersInv, TypeOK
  <2> QED
    BY <1>2, <1>3, <2>1, <2>2 DEF OrderInv, CommitsBehind, TakenAreDecodable, HandledAreTriggers
<1>7. CASE Take(c)
  <2>1. /\ UNCHANGED <<log, committed, owner>>
        /\ position'[c] = position[c] + 1 /\ log[position[c] + 1] # "undecodable"
        /\ pc'[c] # "poll" => log[position[c] + 1] = "trigger"
        /\ \A x \in Consumers \ {c} : position'[x] = position[x] /\ pc'[x] = pc[x]
    BY <1>1, <1>7 DEF Take, Polls, LoopIsFree, HandlersInv, TypeOK
  <2>2. position[c] \in Int /\ committed \in Int
    BY <1>1 DEF HandlersInv, TypeOK
  <2>3. CommitsBehind'
    <3>1. owner # None => owner \in Consumers
      BY <1>1 DEF HandlersInv, TypeOK
    <3> QED
      BY <2>1, <2>2, <3>1 DEF OrderInv, CommitsBehind
  <2>4. TakenAreDecodable'
    BY <2>1, <2>2 DEF OrderInv, TakenAreDecodable
  <2>5. HandledAreTriggers'
    BY <2>1 DEF OrderInv, HandledAreTriggers
  <2> QED
    BY <1>3, <2>3, <2>4, <2>5 DEF OrderInv
<1>8. CASE Choke(c) \/ Stop(c) \/ Crash(c)
  <2>1. /\ log' = log /\ committed' \in {committed, LastCommit(c)} /\ Leave(c)
        /\ position'[c] = 0 /\ pc'[c] = "poll"
        /\ \A x \in Consumers \ {c} : position'[x] = position[x] /\ pc'[x] = pc[x]
    BY <1>1, <1>8
       DEF Choke, Polls, LoopIsFree, Stop, Crash, GoDown, HandlerEnds, HandlersInv, TypeOK
  <2>2. owner = c \/ committed' = committed
    BY <2>1 DEF LastCommit
  <2>3. CommitsBehind'
    BY <1>1, <2>1, <2>2, TriggerAssumption
       DEF OrderInv, CommitsBehind, Leave, HandlersInv, TypeOK
  <2>4. TakenAreDecodable'
    BY <2>1 DEF OrderInv, TakenAreDecodable, LastCommit
  <2>5. HandledAreTriggers'
    BY <1>2, <2>1 DEF OrderInv, HandledAreTriggers
  <2> QED
    BY <1>3, <2>3, <2>4, <2>5 DEF OrderInv
<1> QED
  BY <1>4, <1>5, <1>6, <1>7, <1>8 DEF GroupStep

(* A handler changes no run but the one it drives.                         *)
LEMMA HandlerKeepsDrivers ==
  ASSUME HandlersInv, DriversInv, NEW c \in Consumers, Handler(c)
  PROVE  DriversInv'
<1>1. /\ \A x \in Consumers : HandlerInv(x) /\ driving[x] \in 0 .. Len(runs)
      /\ runs \in Seq(RunRow) /\ Len(runs) \in Nat
  BY DEF HandlersInv, TypeOK
<1>2. \A x \in Consumers \ {c} : UNCHANGED <<pc[x], driving[x], submitted[x]>>
  BY DEF Handler, StartRun, Submit, SubmitRaises, NextSubmit, SaveCompleted, Report, HandlerRaises,
     HandlerEnds, HandlersInv, TypeOK
<1>3. \A x \in Consumers \ {c} : driving[x] # 0 => driving[x] # driving[c]
  BY DEF DriversInv, OneDriver
<1>4. CASE StartRun(c)
  <2>1. /\ Len(runs') = Len(runs) + 1
        /\ \A i \in 1 .. Len(runs) : runs'[i] = runs[i]
        /\ runs'[Len(runs) + 1] = [message |-> position[c], status |-> "started",
                                   stored |-> {}, reported |-> FALSE]
        /\ driving'[c] = Len(runs) + 1 /\ pc'[c] = "submit" /\ submitted'[c] = submitted[c]
    BY <1>1, <1>4 DEF StartRun, HandlersInv, TypeOK
  <2>2. OneDriver'
    BY <1>1, <1>2, <2>1 DEF DriversInv, OneDriver
  <2>3. Drives(c)'
    BY <2>1 DEF Drives
  <2>4. ASSUME NEW x \in Consumers \ {c} PROVE Drives(x)'
    <3>1. pc[x] \in {"submit", "complete", "report"} => runs'[driving[x]] = runs[driving[x]]
      BY <1>1, <2>1 DEF HandlerInv
    <3> QED
      BY <1>2, <3>1 DEF DriversInv, Drives
  <2> QED
    BY <2>2, <2>3, <2>4 DEF DriversInv
<1>5. CASE Submit(c) \/ SaveCompleted(c) \/ Report(c)
  <2>1. \A i \in 1 .. Len(runs) : i # driving[c] => runs'[i] = runs[i]
    BY <1>1, <1>5, DriveEffect DEF Submit, SaveCompleted, Report
  <2>2. ASSUME NEW x \in Consumers \ {c} PROVE Drives(x)'
    <3>1. pc[x] \in {"submit", "complete", "report"} => runs'[driving[x]] = runs[driving[x]]
      BY <1>1, <1>3, <2>1, TriggerAssumption DEF HandlerInv
    <3> QED
      BY <1>2, <3>1 DEF DriversInv, Drives
  <2>3. OneDriver'
    BY <1>2, <1>5 DEF Submit, SaveCompleted, Report, HandlerEnds, HandlersInv, TypeOK, DriversInv,
       OneDriver
  <2>4. driving[c] \in 1 .. Len(runs) /\ Drives(c) /\ runs[driving[c]] \in RunRow
    BY <1>1, <1>5 DEF Submit, SaveCompleted, Report, HandlerInv, DriversInv
  <2>5. CASE Submit(c)
    <3>1. runs'[driving[c]] = [runs[driving[c]] EXCEPT !.stored = @ \cup {submitted[c] + 1}]
      <4> DEFINE d   == driving[c]
                 row == [runs[d] EXCEPT !.stored = @ \cup {submitted[c] + 1}]
      <4>1. runs' = [runs EXCEPT ![d] = row]
        BY <2>5 DEF Submit
      <4> HIDE DEF row
      <4>2. runs'[d] = row
        BY <1>1, <2>4, <4>1
      <4> QED
        BY <4>2 DEF row
    <3>2. /\ driving' = driving /\ pc[c] = "submit" /\ pc'[c] \in {"submit", "complete"}
          /\ submitted'[c] = submitted[c] + 1 /\ submitted[c] \in Nat
      BY <2>5 DEF Submit, NextSubmit, HandlersInv, TypeOK
    <3> QED
      BY <2>2, <2>3, <2>4, <3>1, <3>2 DEF Drives, DriversInv, RunRow
  <2>6. CASE SaveCompleted(c)
    <3>1. runs'[driving[c]] = [runs[driving[c]] EXCEPT !.status = "completed"]
      BY <1>1, <2>4, <2>6 DEF SaveCompleted
    <3>2. driving' = driving /\ pc[c] = "complete" /\ pc'[c] = "report"
      BY <2>6 DEF SaveCompleted, HandlersInv, TypeOK
    <3> QED
      BY <2>2, <2>3, <2>4, <3>1, <3>2 DEF Drives, DriversInv, RunRow
  <2>7. CASE Report(c)
    <3>1. pc'[c] = "poll"
      BY <2>7 DEF Report, HandlerEnds, HandlersInv, TypeOK
    <3> QED
      BY <2>2, <2>3, <3>1 DEF Drives, DriversInv
  <2> QED
    BY <1>5, <2>5, <2>6, <2>7
<1>6. CASE SubmitRaises(c)
  <2>1. /\ UNCHANGED <<runs, driving>> /\ pc[c] = "submit" /\ pc'[c] \in {"submit", "complete"}
        /\ submitted'[c] = submitted[c] + 1 /\ submitted[c] \in Nat
    BY <1>6 DEF SubmitRaises, NextSubmit, HandlersInv, TypeOK
  <2>2. 1 .. submitted[c] \subseteq 1 .. submitted'[c]
    BY <2>1
  <2> QED
    BY <1>2, <2>1, <2>2 DEF DriversInv, OneDriver, Drives
<1>7. CASE HandlerRaises(c)
  <2>1. runs' = runs /\ pc'[c] = "poll" /\ driving'[c] = 0
    BY <1>7 DEF HandlerRaises, HandlerEnds, HandlersInv, TypeOK
  <2> QED
    BY <1>2, <2>1 DEF DriversInv, OneDriver, Drives
<1> QED
  BY <1>4, <1>5, <1>6, <1>7 DEF Handler

LEMMA HandlerKeepsOrder ==
  ASSUME TriggerInv, OrderInv, NEW c \in Consumers, Handler(c)
  PROVE  OrderInv'
<1>1. HandlersInv
  BY DEF TriggerInv
<1>2. /\ UNCHANGED <<log, committed, owner, position>>
      /\ pc[c] # "poll" /\ \A x \in Consumers \ {c} : pc'[x] = pc[x]
  BY <1>1 DEF Handler, StartRun, Submit, SubmitRaises, NextSubmit, SaveCompleted, Report,
     HandlerRaises, HandlerEnds, group, HandlersInv, TypeOK
<1>3. CommitsBehind' /\ TakenAreDecodable' /\ HandledAreTriggers'
  BY <1>2 DEF OrderInv, CommitsBehind, TakenAreDecodable, HandledAreTriggers
<1>4. DriversInv'
  BY <1>1, HandlerKeepsDrivers DEF OrderInv
<1> QED
  BY <1>3, <1>4 DEF OrderInv

LEMMA OrderCorrect == Spec => [](TriggerInv /\ OrderInv)
<1>1. TriggerInv /\ OrderInv /\ [Next]_vars => (TriggerInv /\ OrderInv)'
  <2> SUFFICES ASSUME TriggerInv, OrderInv, [Next]_vars PROVE OrderInv'
    BY NextKeepsInv
  <2>1. CASE \E c \in Consumers : GroupStep(c) \/ Handler(c)
    BY <2>1, GroupStepKeepsOrder, HandlerKeepsOrder
  <2>2. CASE UNCHANGED vars
    BY <2>2 DEF vars, OrderInv, CommitsBehind, TakenAreDecodable, HandledAreTriggers, DriversInv,
       OneDriver, Drives, Settled, RunsOf
  <2> QED
    BY <2>1, <2>2 DEF Next, GroupStep, Idle
<1>2. Spec => Init /\ [][Next]_vars
  BY DEF Spec
<1> QED
  BY <1>1, <1>2, InitInv, InitOrder, PTL

(* What a replica may commit, and what it begins, is in its turn.          *)
LEMMA SettledIsSettled == \A m : Ledger!Settled(m) <=> Settled(m)
BY DEF Ledger!Settled, Settled, RunsOf

LEMMA CommitIsCommit ==
  ASSUME TriggerInv, OrderInv, NEW c \in Consumers, UNCHANGED <<log, runs, raised, losses>>,
         committed' = committed \/ (owner = c /\ pc[c] = "poll" /\ committed' = position[c])
  PROVE  committed' # committed => \E m \in Messages : Ledger!Commit(m)
<1> SUFFICES ASSUME committed' # committed PROVE Ledger!Commit(position[c]) /\ position[c] \in Messages
  OBVIOUS
<1>1. /\ owner = c /\ pc[c] = "poll" /\ committed' = position[c]
      /\ committed \in 0 .. LogLength /\ position[c] \in 0 .. LogLength
      /\ committed <= position[c] /\ LogLength \in Nat
  BY TriggerAssumption DEF TriggerInv, HandlersInv, TypeOK, OrderInv, CommitsBehind
<1>2. committed < position[c] /\ position[c] \in Messages
  BY <1>1
<1>3. ASSUME NEW k \in 1 .. position[c] PROVE Ledger!DealtWith(k)
  <2>1. k \in Messages /\ k <= position[c]
    BY <1>1
  <2>2. log[k] \in Kinds /\ log[k] # "undecodable"
    BY <2>1 DEF TriggerInv, HandlersInv, TypeOK, OrderInv, TakenAreDecodable
  <2>3. log[k] = "trigger" => Settled(k)
    BY <1>1, <2>1 DEF TriggerInv, TakenAreSettled
  <2> QED
    BY <2>2, <2>3, SettledIsSettled DEF Kinds, Ledger!DealtWith
<1>4. Ledger!Turn(position[c]) /\ Ledger!DealtWith(position[c])
  BY <1>1, <1>2, <1>3 DEF Ledger!Turn
<1> QED
  BY <1>1, <1>2, <1>4 DEF Ledger!Commit

LEMMA GroupStepIsLedgerStep ==
  ASSUME TriggerInv, OrderInv, NEW c \in Consumers, GroupStep(c)
  PROVE  Ledger!Next \/ UNCHANGED <<log, committed, runs, raised, losses>>
<1>1. CASE Start(c) \/ StartFails(c) \/ Assign(c) \/ Take(c) \/ Rejoin(c)
  BY <1>1 DEF Start, StartFails, Assign, Take, Rejoin
<1>2. CASE AutoCommit(c) \/ Choke(c) \/ Stop(c)
  <2>1. /\ UNCHANGED <<log, runs, raised, losses>>
        /\ committed' = committed \/ (owner = c /\ pc[c] = "poll" /\ committed' = position[c])
    BY <1>2 DEF AutoCommit, Choke, Polls, Stop, LoopIsFree, LastCommit
  <2>2. committed' # committed => \E m \in Messages : Ledger!Commit(m)
    BY <2>1, CommitIsCommit
  <2> QED
    BY <2>1, <2>2 DEF Ledger!Next, Ledger!Messages
<1>3. CASE Expire(c) \/ Crash(c)
  BY <1>3 DEF Expire, Crash, Ledger!Next, Ledger!Lose
<1> QED
  BY <1>1, <1>2, <1>3 DEF GroupStep

LEMMA InTurn ==
  ASSUME TriggerInv, OrderInv, NEW c \in Consumers, pc[c] # "poll"
  PROVE  /\ position[c] \in Messages
         /\ log[position[c]] = "trigger"
         /\ Ledger!Turn(position[c])
<1>1. position[c] \in Messages /\ log[position[c]] = "trigger"
  BY DEF TriggerInv, HandlersInv, HandlerInv, OrderInv, HandledAreTriggers
<1>2. ASSUME NEW k \in 1 .. position[c] - 1 PROVE Ledger!DealtWith(k)
  <2>1. k \in Messages /\ k # position[c] /\ k <= position[c]
    BY <1>1, TriggerAssumption
  <2>2. log[k] \in Kinds /\ log[k] # "undecodable"
    BY <2>1 DEF TriggerInv, HandlersInv, TypeOK, OrderInv, TakenAreDecodable
  <2>3. log[k] = "trigger" => Settled(k)
    BY <1>1, <2>1 DEF TriggerInv, TakenAreSettled
  <2> QED
    BY <2>2, <2>3, SettledIsSettled DEF Kinds, Ledger!DealtWith
<1> QED
  BY <1>1, <1>2 DEF Ledger!Turn

(* A handler about to start a run is one of those StartsBounded counts.    *)
LEMMA StartRunIsBegin ==
  ASSUME TriggerInv, OrderInv, NEW c \in Consumers, StartRun(c)
  PROVE  Ledger!Begin(position[c])
<1> DEFINE m == position[c]
<1>1. m \in Messages /\ log[m] = "trigger" /\ Ledger!Turn(m) /\ c \in MayStart(m)
  BY InTurn DEF StartRun, MayStart
<1>2. HandlersInv /\ losses \in Int
  BY DEF TriggerInv, HandlersInv, TypeOK
<1>3. /\ Cardinality(RunsOf(m)) \in Nat /\ Owed(m) \in {0, 1}
      /\ Cardinality(MayStart(m)) \in Nat /\ Cardinality(MayStart(m)) # 0
  BY <1>1, <1>2, RunsAreFinite, FS_EmptySet
<1>4. Cardinality(RunsOf(m)) + Cardinality(MayStart(m)) + Owed(m) <= 1 + losses
  BY <1>1 DEF TriggerInv, StartsBounded
<1>5. Cardinality(RunsOf(m)) <= losses
  BY <1>2, <1>3, <1>4
<1>6. Ledger!Cardinality({i \in DOMAIN runs : runs[i].message = m}) = Cardinality(RunsOf(m))
  BY DEF Ledger!Cardinality, Cardinality, RunsOf
<1> QED
  BY <1>1, <1>5, <1>6 DEF StartRun, group, Ledger!Begin

LEMMA HandlerIsLedgerStep ==
  ASSUME TriggerInv, OrderInv, NEW c \in Consumers, Handler(c)
  PROVE  Ledger!Next \/ UNCHANGED <<log, committed, runs, raised, losses>>
<1> DEFINE d == driving[c]
<1>1. HandlerInv(c) /\ Drives(c) /\ DOMAIN runs = 1 .. Len(runs)
  BY DEF TriggerInv, HandlersInv, TypeOK, OrderInv, DriversInv
<1>2. CASE StartRun(c)
  <2>1. Ledger!Begin(position[c]) /\ position[c] \in Messages
    BY <1>2, StartRunIsBegin, InTurn DEF StartRun
  <2> QED
    BY <2>1 DEF Ledger!Next, Ledger!Messages
<1>3. CASE Submit(c)
  <2>1. /\ d \in DOMAIN runs /\ submitted[c] + 1 \in 1 .. SuiteSize
        /\ runs[d].status = "started" /\ runs[d].stored \subseteq 1 .. submitted[c]
        /\ submitted[c] \in Nat
    <3>1. pc[c] = "submit" /\ submitted[c] \in 0 .. SuiteSize /\ SuiteSize \in Nat
      BY <1>3, TriggerAssumption DEF Submit, TriggerInv, HandlersInv, TypeOK
    <3> QED
      BY <1>1, <3>1 DEF HandlerInv, Drives
  <2>2. \A earlier \in runs[d].stored : earlier < submitted[c] + 1
    BY <2>1
  <2>3. Ledger!Store(d, submitted[c] + 1)
    BY <1>3, <2>1, <2>2 DEF Submit, group, Ledger!Store
  <2> QED
    BY <2>1, <2>3 DEF Ledger!Next
<1>4. CASE SaveCompleted(c)
  <2>1. d \in DOMAIN runs /\ Ledger!Complete(d)
    BY <1>1, <1>4 DEF SaveCompleted, group, HandlerInv, Drives, Ledger!Complete
  <2> QED
    BY <2>1 DEF Ledger!Next
<1>5. CASE Report(c)
  <2>1. d \in DOMAIN runs /\ Ledger!Report(d)
    BY <1>1, <1>5 DEF Report, group, HandlerInv, Drives, Ledger!Report
  <2> QED
    BY <2>1 DEF Ledger!Next
<1>6. CASE SubmitRaises(c)
  BY <1>6 DEF SubmitRaises, group
<1>7. CASE HandlerRaises(c)
  <2>1. position[c] \in Messages /\ Ledger!Raise(position[c])
    BY <1>7, InTurn DEF HandlerRaises, Ledger!Raise
  <2> QED
    BY <2>1 DEF Ledger!Next, Ledger!Messages
<1> QED
  BY <1>2, <1>3, <1>4, <1>5, <1>6, <1>7 DEF Handler

(* ImplementsLedger: for any replicas, and whatever the group does with    *)
(* the partition, the messages are dealt with in order, the offset only    *)
(* grows, and a run goes through its suite once.                           *)
THEOREM GroupImplementsLedger == Spec => ImplementsLedger
<1>1. Init => Ledger!Init
  BY DEF Init, Kinds, Ledger!Init, Ledger!Messages
<1>2. TriggerInv /\ OrderInv /\ [Next]_vars => [Ledger!Next]_(Ledger!ledger)
  <2> SUFFICES ASSUME TriggerInv, OrderInv, [Next]_vars
               PROVE  Ledger!Next \/ UNCHANGED <<log, committed, runs, raised, losses>>
    BY DEF Ledger!ledger
  <2>1. CASE \E c \in Consumers : GroupStep(c) \/ Handler(c)
    BY <2>1, GroupStepIsLedgerStep, HandlerIsLedgerStep
  <2>2. CASE UNCHANGED vars
    BY <2>2 DEF vars
  <2> QED
    BY <2>1, <2>2 DEF Next, GroupStep, Idle
<1>3. Spec => Init /\ [][Next]_vars
  BY DEF Spec
<1> QED
  BY <1>1, <1>2, <1>3, OrderCorrect, PTL DEF ImplementsLedger, Ledger!Spec

-----------------------------------------------------------------------------
(* What the ledger's own actions keep to, with no replicas and no handlers *)
(* (TriggerLedger).                                                        *)

(* A message is committed, and its runs are started, when it is its turn.  *)
TurnsKept ==
  /\ \A m \in 1 .. committed : Ledger!DealtWith(m)
  /\ \A i \in DOMAIN runs : Ledger!Turn(runs[i].message)

LedgerInv ==
  /\ committed \in 0 .. LogLength
  /\ runs \in Seq(RunRow)
  /\ losses \in Nat
  /\ TurnsKept
  /\ RunsAreBounded

(* What a step of the ledger may change.                                   *)
NewRun(m) ==
  /\ Ledger!Turn(m)
  /\ Cardinality(RunsOf(m)) <= losses
  /\ Len(runs') = Len(runs) + 1 /\ runs'[Len(runs) + 1].message = m

LedgerStep ==
  /\ log' = log /\ raised \subseteq raised'
  /\ losses' \in Nat /\ losses <= losses'
  /\ runs' \in Seq(RunRow)
  /\ Len(runs') = Len(runs) \/ \E m \in Messages : NewRun(m)
  /\ \A i \in 1 .. Len(runs) : /\ runs'[i].message = runs[i].message
                               /\ runs[i].reported => runs'[i].reported
  /\ \/ committed' = committed
     \/ committed' \in Messages /\ \A m \in 1 .. committed' : Ledger!DealtWith(m)

LEMMA RowChanges ==
  ASSUME LedgerInv, NEW i \in DOMAIN runs, NEW row \in RunRow,
         row.message = runs[i].message, runs[i].reported => row.reported,
         runs' = [runs EXCEPT ![i] = row],
         UNCHANGED <<log, committed, raised, losses>>
  PROVE  LedgerStep
<1>1. runs' \in Seq(RunRow) /\ Len(runs') = Len(runs)
  BY DEF LedgerInv
<1>2. \A k \in 1 .. Len(runs) : runs'[k] = IF k = i THEN row ELSE runs[k]
  BY DEF LedgerInv
<1> QED
  BY <1>1, <1>2 DEF LedgerStep, LedgerInv

LEMMA LedgerSteps ==
  ASSUME LedgerInv, Ledger!Next
  PROVE  LedgerStep
<1>0. \A i \in DOMAIN runs : runs[i] \in RunRow
  BY DEF LedgerInv
<1>1. ASSUME NEW m \in Messages, Ledger!Begin(m) PROVE LedgerStep
  <2> DEFINE row == [message |-> m, status |-> "started",
                     stored |-> {}, reported |-> FALSE]
  <2>1. /\ runs' = Append(runs, row) /\ Ledger!Turn(m)
        /\ UNCHANGED <<log, committed, raised, losses>>
    BY <1>1 DEF Ledger!Begin
  <2>2. Cardinality(RunsOf(m)) <= losses
    <3>1. Ledger!Cardinality({i \in DOMAIN runs : runs[i].message = m})
            = Cardinality(RunsOf(m))
      BY DEF Ledger!Cardinality, Cardinality, RunsOf
    <3> QED
      BY <1>1, <3>1 DEF Ledger!Begin
  <2>3. row \in RunRow /\ row.message = m
    BY DEF RunRow
  <2> HIDE DEF row
  <2>4. /\ runs' \in Seq(RunRow) /\ Len(runs') = Len(runs) + 1
        /\ runs'[Len(runs) + 1] = row
        /\ \A i \in 1 .. Len(runs) : runs'[i] = runs[i]
    BY <2>1, <2>3 DEF LedgerInv
  <2>5. NewRun(m)
    BY <2>1, <2>2, <2>3, <2>4 DEF NewRun
  <2> QED
    BY <2>1, <2>4, <2>5 DEF LedgerStep, LedgerInv
<1>2. ASSUME NEW i \in DOMAIN runs, Ledger!Complete(i) PROVE LedgerStep
  <2> DEFINE row == [runs[i] EXCEPT !.status = "completed"]
  <2>1. row \in RunRow /\ row.message = runs[i].message /\ row.reported = runs[i].reported
    BY <1>0 DEF RunRow
  <2>2. runs' = [runs EXCEPT ![i] = row] /\ UNCHANGED <<log, committed, raised, losses>>
    BY <1>2 DEF Ledger!Complete
  <2> HIDE DEF row
  <2> QED
    BY <2>1, <2>2, RowChanges
<1>3. ASSUME NEW i \in DOMAIN runs, Ledger!Report(i) PROVE LedgerStep
  <2> DEFINE row == [runs[i] EXCEPT !.reported = TRUE]
  <2>1. row \in RunRow /\ row.message = runs[i].message /\ row.reported
    BY <1>0 DEF RunRow
  <2>2. runs' = [runs EXCEPT ![i] = row] /\ UNCHANGED <<log, committed, raised, losses>>
    BY <1>3 DEF Ledger!Report
  <2> HIDE DEF row
  <2> QED
    BY <2>1, <2>2, RowChanges
<1>4. ASSUME NEW i \in DOMAIN runs, NEW test \in 1 .. SuiteSize, Ledger!Store(i, test)
      PROVE  LedgerStep
  <2> DEFINE row == [runs[i] EXCEPT !.stored = runs[i].stored \cup {test}]
  <2>1. row \in RunRow /\ row.message = runs[i].message /\ row.reported = runs[i].reported
    BY <1>0 DEF RunRow
  <2>2. runs' = [runs EXCEPT ![i] = row] /\ UNCHANGED <<log, committed, raised, losses>>
    BY <1>4 DEF Ledger!Store
  <2> HIDE DEF row
  <2> QED
    BY <2>1, <2>2, RowChanges
<1>5. ASSUME NEW m \in Messages, Ledger!Commit(m) PROVE LedgerStep
  <2>1. /\ committed' = m /\ UNCHANGED <<log, runs, raised, losses>>
        /\ \A k \in 1 .. m : Ledger!DealtWith(k)
    BY <1>5, TriggerAssumption DEF Ledger!Commit, Ledger!Turn
  <2> QED
    BY <2>1 DEF LedgerStep, LedgerInv
<1>6. ASSUME Ledger!Lose \/ \E m \in Messages : Ledger!Raise(m) PROVE LedgerStep
  BY <1>6 DEF Ledger!Lose, Ledger!Raise, LedgerStep, LedgerInv
<1> QED
  BY <1>1, <1>2, <1>3, <1>4, <1>5, <1>6 DEF Ledger!Next, Ledger!Messages

(* What is dealt with stays so.                                            *)
LEMMA LedgerKeepsTurns ==
  ASSUME LedgerInv, LedgerStep
  PROVE  TurnsKept'
<1>1. \A m : Ledger!Settled(m) => Ledger!Settled(m)'
  <2>1. \A i \in DOMAIN runs : i \in DOMAIN runs' /\ i \in 1 .. Len(runs)
    BY DEF LedgerInv, LedgerStep, NewRun
  <2> QED
    BY <2>1 DEF Ledger!Settled, LedgerStep
<1>2. \A m : Ledger!DealtWith(m) => Ledger!DealtWith(m)'
  BY <1>1 DEF Ledger!DealtWith, LedgerStep
<1>3. \A m \in 1 .. committed' : Ledger!DealtWith(m)'
  BY <1>2 DEF LedgerInv, LedgerStep, TurnsKept
<1>4. \A i \in DOMAIN runs' : Ledger!Turn(runs'[i].message)
  <2>1. DOMAIN runs = 1 .. Len(runs) /\ DOMAIN runs' = 1 .. Len(runs')
    BY DEF LedgerInv, LedgerStep
  <2>2. Len(runs) \in Nat
    BY DEF LedgerInv
  <2>3. \A i \in 1 .. Len(runs) : Ledger!Turn(runs'[i].message)
    BY <2>1 DEF LedgerInv, LedgerStep, TurnsKept
  <2>4. CASE Len(runs') = Len(runs)
    BY <2>1, <2>3, <2>4
  <2>5. CASE \E m \in Messages : NewRun(m)
    <3>1. PICK m \in Messages : NewRun(m)
      BY <2>5
    <3>2. Ledger!Turn(runs'[Len(runs) + 1].message) /\ Len(runs') = Len(runs) + 1
      BY <3>1 DEF NewRun
    <3>3. \A i \in 1 .. Len(runs') : i \in 1 .. Len(runs) \/ i = Len(runs) + 1
      BY <2>2, <3>2
    <3> QED
      BY <2>1, <2>3, <3>2, <3>3
  <2> QED
    BY <2>4, <2>5 DEF LedgerStep
<1>5. \A i \in DOMAIN runs' : \A k \in 1 .. runs'[i].message - 1 : Ledger!DealtWith(k)'
  BY <1>2, <1>4 DEF Ledger!Turn
<1> QED
  BY <1>3, <1>5 DEF TurnsKept, Ledger!Turn

LEMMA LedgerBoundsRuns ==
  ASSUME LedgerInv, LedgerStep
  PROVE  RunsAreBounded'
<1>1. DOMAIN runs = 1 .. Len(runs) /\ DOMAIN runs' = 1 .. Len(runs') /\ Len(runs) \in Nat
  BY DEF LedgerInv, LedgerStep
<1>2. \A m : IsFiniteSet(RunsOf(m))
  <2>1. IsFiniteSet(1 .. Len(runs))
    BY <1>1, FS_Interval
  <2> QED
    BY <1>1, <2>1, FS_Subset DEF RunsOf
<1>3. Len(runs') = Len(runs) \/ \E m \in Messages : NewRun(m)
  BY DEF LedgerStep
<1>4. ASSUME NEW m PROVE RunsOf(m)' \subseteq RunsOf(m) \cup {Len(runs) + 1}
  <2>1. \A i \in 1 .. Len(runs) : runs'[i].message = runs[i].message
    BY DEF LedgerStep
  <2>2. Len(runs) \in Nat /\ (Len(runs') = Len(runs) \/ Len(runs') = Len(runs) + 1)
    BY <1>1, <1>3 DEF NewRun
  <2>3. \A i \in 1 .. Len(runs') : i \in 1 .. Len(runs) \/ i = Len(runs) + 1
    BY <2>2
  <2> QED
    BY <1>1, <2>1, <2>3 DEF RunsOf
<1>5. ASSUME NEW m \in Messages, NewRun(m)
      PROVE  /\ Cardinality(RunsOf(m)') <= losses + 1
             /\ \A k \in Messages \ {m} : RunsOf(k)' \subseteq RunsOf(k)
  <2>1. Cardinality(RunsOf(m)') <= Cardinality(RunsOf(m)) + 1
        /\ Cardinality(RunsOf(m)') \in Nat /\ Cardinality(RunsOf(m)) \in Nat
    BY <1>2, <1>4, AtMostOneMore
  <2>2. Cardinality(RunsOf(m)) <= losses /\ losses \in Nat
    BY <1>5 DEF NewRun, LedgerInv
  <2>3. \A k \in Messages \ {m} : Len(runs) + 1 \notin RunsOf(k)'
    BY <1>5 DEF RunsOf, NewRun
  <2> QED
    BY <1>4, <2>1, <2>2, <2>3
<1>6. ASSUME Len(runs') = Len(runs), NEW k PROVE RunsOf(k)' \subseteq RunsOf(k)
  BY <1>1, <1>6 DEF RunsOf, LedgerStep
<1>7. ASSUME NEW k \in Messages, RunsOf(k)' \subseteq RunsOf(k)
      PROVE  Cardinality(RunsOf(k)') <= 1 + losses'
  <2>1. /\ Cardinality(RunsOf(k)') <= Cardinality(RunsOf(k))
        /\ Cardinality(RunsOf(k)') \in Nat /\ Cardinality(RunsOf(k)) \in Nat
    BY <1>2, <1>7, FS_Subset, FS_CardinalityType
  <2> QED
    BY <2>1 DEF LedgerInv, LedgerStep, RunsAreBounded
<1>8. losses <= losses' /\ losses \in Nat /\ losses' \in Nat
  BY DEF LedgerInv, LedgerStep
<1>9. ASSUME NEW k \in Messages PROVE Cardinality(RunsOf(k)') <= 1 + losses'
  <2>1. CASE Len(runs') = Len(runs)
    BY <1>6, <1>7, <2>1
  <2>2. CASE NewRun(k)
    <3>1. Cardinality(RunsOf(k)') <= losses + 1 /\ Cardinality(RunsOf(k)') \in Nat
      BY <1>2, <1>4, <1>5, <2>2, AtMostOneMore
    <3> QED
      BY <1>8, <3>1
  <2>3. CASE \E m \in Messages \ {k} : NewRun(m)
    BY <1>5, <1>7, <2>3
  <2> QED
    BY <1>3, <2>1, <2>2, <2>3
<1> QED
  BY <1>9 DEF RunsAreBounded

(* Whatever implements the ledger skips no trigger, repeats none but for a *)
(* loss, and starts the runs of a message only when every message before   *)
(* it is dealt with (TriggerLedger).                                       *)
THEOREM LedgerKeepsItsPromises ==
  Ledger!Spec => [](CommittedIsSettled /\ RunsAreBounded /\ TurnsKept)
<1>1. Ledger!Init => LedgerInv
  <2> SUFFICES ASSUME Ledger!Init PROVE LedgerInv
    OBVIOUS
  <2>1. committed = 0 /\ runs = << >> /\ losses = 0
    BY DEF Ledger!Init
  <2>2. \A m : RunsOf(m) = {}
    BY <2>1 DEF RunsOf
  <2>3. RunsAreBounded
    BY <2>1, <2>2, FS_EmptySet DEF RunsAreBounded
  <2> QED
    BY <2>1, <2>3, TriggerAssumption DEF LedgerInv, TurnsKept
<1>2. LedgerInv /\ Ledger!Next => LedgerInv'
  BY LedgerSteps, LedgerKeepsTurns, LedgerBoundsRuns DEF LedgerInv, LedgerStep
<1>3. LedgerInv /\ UNCHANGED Ledger!ledger => LedgerInv'
  BY DEF Ledger!ledger, LedgerInv, TurnsKept, RunsAreBounded, RunsOf,
     Ledger!DealtWith, Ledger!Turn, Ledger!Settled
<1>4. LedgerInv => CommittedIsSettled /\ RunsAreBounded /\ TurnsKept
  BY SettledIsSettled DEF LedgerInv, TurnsKept, CommittedIsSettled, Ledger!DealtWith
<1> QED
  BY <1>1, <1>2, <1>3, <1>4, PTL DEF Ledger!Spec

-----------------------------------------------------------------------------
(* Why every trigger is settled.  TriggersAreSettled is a property of fair *)
(* behaviours; here is what it rests on, said of single states and steps:  *)
(* while a trigger is due, a step whose guard holds is left, and of the    *)
(* steps the group takes then all but a commit bring it nearer.            *)

(* The message m is a trigger that is not settled, and no undecodable one  *)
(* is in its way.                                                          *)
Due(m) ==
  /\ log[m] = "trigger" /\ ~Settled(m)
  /\ \A k \in 1 .. m : log[k] # "undecodable"

WorkIsDue == \E m \in Messages : Due(m)

(* A consumer that ended had nothing due before it.                        *)
MembersInv == WorkIsDue => \A c \in Consumers : state[c] # "ended"

LEMMA InitMembers == Init => MembersInv
BY DEF Init, MembersInv

(* Nothing becomes due.                                                    *)
LEMMA NothingNewIsDue ==
  ASSUME HandlersInv, NEW c \in Consumers, GroupStep(c) \/ Handler(c)
  PROVE  WorkIsDue' => WorkIsDue
<1>1. log' = log
  BY DEF GroupStep, Start, StartFails, Assign, AutoCommit, Take, Choke, Rejoin, Stop, Expire, Crash,
     Handler, StartRun, Submit, SubmitRaises, SaveCompleted, Report, HandlerRaises, group
<1>2. \A m \in Messages : Settled(m) => Settled(m)'
  BY SettledStays
<1>3. \A m \in Messages : Due(m)' => Due(m)
  BY <1>1, <1>2 DEF Due
<1> QED
  BY <1>3 DEF WorkIsDue

(* A replica is behind every trigger that is due, or at work on it.        *)
LEMMA ReplicaIsBehind ==
  ASSUME TriggerInv, NEW m \in Messages, Due(m), NEW c \in Consumers, pc[c] = "poll"
  PROVE  position[c] < m
<1>1. position[c] \in Int /\ m \in Int
  BY DEF TriggerInv, HandlersInv, TypeOK
<1>2. ~(m <= position[c])
  BY DEF TriggerInv, TakenAreSettled, Due
<1> QED
  BY <1>1, <1>2

(* So no replica chokes while a trigger is due.                            *)
LEMMA NoChokeBefore ==
  ASSUME TriggerInv, WorkIsDue, NEW c \in Consumers
  PROVE  ~Choke(c)
<1> SUFFICES ASSUME Choke(c) PROVE FALSE
  OBVIOUS
<1>1. PICK m \in Messages : Due(m)
  BY DEF WorkIsDue
<1>2. pc[c] = "poll" /\ log[position[c] + 1] = "undecodable"
  BY DEF Choke, Polls, LoopIsFree
<1>3. position[c] < m /\ position[c] \in Nat
  BY SMTT(30), <1>1, <1>2, ReplicaIsBehind DEF TriggerInv, HandlersInv, TypeOK
<1>4. position[c] + 1 \in 1 .. m
  BY <1>3
<1> QED
  BY <1>1, <1>2, <1>4 DEF Due

LEMMA StepKeepsMembers ==
  ASSUME TriggerInv, MembersInv, NEW c \in Consumers, GroupStep(c) \/ Handler(c)
  PROVE  MembersInv'
<1>1. HandlersInv /\ (WorkIsDue' => WorkIsDue)
  BY NothingNewIsDue DEF TriggerInv
<1>2. WorkIsDue => ~Choke(c)
  BY NoChokeBefore
<1>3. ~Choke(c) => \A x \in Consumers : state'[x] = "ended" => state[x] = "ended"
  BY <1>1 DEF GroupStep, Start, StartFails, Assign, AutoCommit, Take, Rejoin, Stop, Expire, Crash,
     GoDown, Handler, StartRun, Submit, SubmitRaises, SaveCompleted, Report, HandlerRaises,
     AfterError, group, HandlersInv, TypeOK
<1> QED
  BY <1>1, <1>2, <1>3 DEF MembersInv

LEMMA MembersCorrect == Spec => [](TriggerInv /\ MembersInv)
<1>1. TriggerInv /\ MembersInv /\ [Next]_vars => MembersInv'
  <2> SUFFICES ASSUME TriggerInv, MembersInv, [Next]_vars PROVE MembersInv'
    OBVIOUS
  <2>1. CASE \E c \in Consumers : GroupStep(c) \/ Handler(c)
    BY <2>1, StepKeepsMembers
  <2>2. CASE UNCHANGED vars
    BY <2>2 DEF vars, MembersInv, WorkIsDue, Due, Settled, RunsOf
  <2> QED
    BY <2>1, <2>2 DEF Next, GroupStep, Idle
<1>2. Spec => Init /\ [][Next]_vars
  BY DEF Spec
<1> QED
  BY <1>1, <1>2, InitMembers, TriggerCorrect, PTL

(* The guards of the fair actions that help: those of Start, of the        *)
(* handler, of Assign, and of Take and Choke.                              *)
CanGoOn ==
  \/ \E c \in Consumers : state[c] = "down"
  \/ \E c \in Consumers : pc[c] \in Handling
  \/ owner = None /\ \E c \in Consumers : state[c] = "up"
  \/ \E c \in Consumers : Polls(c)

AllAbsent == \A c \in Consumers : state[c] = "absent"

LEMMA SomeoneCanGoOn ==
  ASSUME TriggerInv, MembersInv, WorkIsDue, ~AllAbsent
  PROVE  CanGoOn
<1>1. PICK m \in Messages : Due(m)
  BY DEF WorkIsDue
<1>2. PICK c \in Consumers : state[c] # "absent"
  BY DEF AllAbsent
<1>3. state[c] \in {"down", "up", "assigned"}
  BY <1>2 DEF MembersInv, TriggerInv, HandlersInv, TypeOK, TaskStates
<1>4. CASE state[c] = "down" \/ \E x \in Consumers : pc[x] # "poll"
  BY <1>4 DEF CanGoOn, TriggerInv, HandlersInv, TypeOK
<1>5. CASE state[c] = "up" /\ owner = None
  BY <1>5 DEF CanGoOn
<1>6. ASSUME NEW x \in Consumers, state[x] = "assigned", pc[x] = "poll"
      PROVE  Polls(x)
  <2>1. position[x] < m /\ position[x] \in Int
    BY SMTT(30), <1>1, <1>6, ReplicaIsBehind DEF TriggerInv, HandlersInv, TypeOK
  <2>2. position[x] < LogLength
    BY <2>1, TriggerAssumption
  <2> QED
    BY <1>6, <2>2 DEF Polls, LoopIsFree
<1>7. owner # None => owner \in Consumers /\ state[owner] = "assigned"
  BY DEF TriggerInv, HandlersInv, HandlerInv, TypeOK
<1> QED
  BY <1>3, <1>4, <1>5, <1>6, <1>7 DEF CanGoOn

(* While a trigger is due, before any undecodable message, some replica    *)
(* can go on, unless none could start its consumer: no error, crash or     *)
(* shutdown leaves the partition to nobody who could take it, and no       *)
(* consumer task has ended (kafka.py, _consume, start and stop).           *)
THEOREM TriggersCanGoOn == Spec => [](WorkIsDue => CanGoOn \/ AllAbsent)
<1>1. TriggerInv /\ MembersInv => (WorkIsDue => CanGoOn \/ AllAbsent)
  BY SomeoneCanGoOn
<1> QED
  BY <1>1, MembersCorrect, PTL

(* How far the group is from having settled what is due: the losses and    *)
(* shutdowns that may still come, the replicas that are down, those that   *)
(* have yet to learn that they lost the partition, the messages a replica  *)
(* has not taken, with one more while it is not assigned the partition,    *)
(* and the steps left to its handler.                                      *)
LossesLeft == (MaxLosses - losses) + (MaxStops - stops)
Down == {c \in Consumers : state[c] = "down"}
Unaware == {c \in Consumers : Lost(c)}
Unread(c) == IF state[c] = "assigned" THEN LogLength - position[c] ELSE LogLength + 1
HandlerStepsLeft(c) ==
  CASE pc[c] = "start"    -> SuiteSize + 3
    [] pc[c] = "submit"   -> SuiteSize - submitted[c] + 2
    [] pc[c] = "complete" -> 2
    [] pc[c] = "report"   -> 1
    [] OTHER              -> 0

OneReaderIsNearer ==
  \E c \in Consumers :
    /\ Unread(c)' \in Nat /\ Unread(c)' < Unread(c)
    /\ \A x \in Consumers \ {c} : Unread(x)' = Unread(x)

OneHandlerIsNearer ==
  \E c \in Consumers :
    /\ HandlerStepsLeft(c)' \in Nat /\ HandlerStepsLeft(c)' < HandlerStepsLeft(c)
    /\ \A x \in Consumers \ {c} : HandlerStepsLeft(x)' = HandlerStepsLeft(x)

SameReaders == \A c \in Consumers : Unread(c)' = Unread(c)

Nearer ==
  \/ LossesLeft' \in Nat /\ LossesLeft' < LossesLeft
  \/ LossesLeft' = LossesLeft /\ Down' \subseteq Down /\ Down' # Down
  \/ /\ LossesLeft' = LossesLeft /\ Down' = Down
     /\ Unaware' \subseteq Unaware /\ Unaware' # Unaware
  \/ LossesLeft' = LossesLeft /\ Down' = Down /\ Unaware' = Unaware /\ OneReaderIsNearer
  \/ /\ LossesLeft' = LossesLeft /\ Down' = Down /\ Unaware' = Unaware /\ SameReaders
     /\ OneHandlerIsNearer

AsNear ==
  /\ LossesLeft' = LossesLeft /\ Down' = Down /\ Unaware' = Unaware /\ SameReaders
  /\ \A c \in Consumers : HandlerStepsLeft(c)' = HandlerStepsLeft(c)

LEMMA RoomShrinks ==
  ASSUME NEW max \in Nat, NEW n \in 0 .. max, NEW n1 \in 0 .. max
  PROVE  /\ max - n \in Nat /\ max - n1 \in Nat
         /\ n1 = n + 1 => max - n1 = (max - n) - 1
<1>1. max - n \in Nat
  OBVIOUS
<1>2. max - n1 \in Nat
  OBVIOUS
<1> QED
  BY <1>1, <1>2

LEMMA SumShrinks ==
  ASSUME NEW a \in Nat, NEW b \in Nat, NEW a1 \in Nat, NEW b1 \in Nat,
         (a1 = a - 1 /\ b1 = b) \/ (a1 = a /\ b1 = b - 1)
  PROVE  a1 + b1 \in Nat /\ a1 + b1 < a + b
OBVIOUS

LEMMA GroupStepIsNearer ==
  ASSUME TriggerInv, TypeOK', WorkIsDue, NEW c \in Consumers, GroupStep(c)
  PROVE  Nearer \/ (AutoCommit(c) /\ AsNear)
<1>1. TypeOK
  BY DEF TriggerInv, HandlersInv
<1>2. /\ losses \in 0 .. MaxLosses /\ stops \in 0 .. MaxStops
      /\ losses' \in 0 .. MaxLosses /\ stops' \in 0 .. MaxStops
      /\ MaxLosses \in Nat /\ MaxStops \in Nat /\ LogLength \in Nat
  BY <1>1, TriggerAssumption DEF TypeOK
<1>3. CASE Stop(c) \/ Expire(c) \/ Crash(c)
  <2>1. \/ losses' = losses + 1 /\ stops' = stops
        \/ losses' = losses /\ stops' = stops + 1
    BY <1>3 DEF Stop, Expire, Crash
  <2> DEFINE a == MaxLosses - losses
             b == MaxStops - stops
  <2>2. /\ a \in Nat /\ a' \in Nat
        /\ losses' = losses + 1 => a' = a - 1
    BY <1>2, RoomShrinks
  <2>3. /\ b \in Nat /\ b' \in Nat
        /\ stops' = stops + 1 => b' = b - 1
    BY <1>2, RoomShrinks
  <2>4. \/ a' = a - 1 /\ b' = b
        \/ a' = a /\ b' = b - 1
    BY <2>1, <2>2, <2>3
  <2>5. LossesLeft = a + b /\ LossesLeft' = a' + b'
    BY DEF LossesLeft
  <2> HIDE DEF a, b
  <2>6. a' + b' \in Nat /\ a' + b' < a + b
    BY <2>2, <2>3, <2>4, SumShrinks
  <2> QED
    BY <2>5, <2>6 DEF Nearer
<1>4. CASE Start(c) \/ StartFails(c)
  <2>1. /\ UNCHANGED <<losses, stops>> /\ state[c] = "down" /\ state'[c] # "down"
        /\ \A x \in Consumers \ {c} : state'[x] = state[x]
    BY <1>1, <1>4 DEF Start, StartFails, TypeOK
  <2>2. Down' \subseteq Down /\ c \in Down /\ c \notin Down'
    BY <2>1 DEF Down
  <2> QED
    BY <2>1, <2>2 DEF Nearer, LossesLeft
<1>5. CASE Assign(c)
  <2>1. /\ UNCHANGED <<losses, stops>> /\ owner = None /\ owner' = c
        /\ position'[c] \in 0 .. LogLength /\ state[c] = "up" /\ state'[c] = "assigned"
        /\ \A x \in Consumers \ {c} : state'[x] = state[x] /\ position'[x] = position[x]
    BY <1>1, <1>5, TypeOK' DEF Assign, TypeOK
  <2>2. Down' = Down /\ Unaware' = Unaware
    BY <2>1, TriggerAssumption DEF Down, Unaware, Lost
  <2>3. /\ Unread(c) = LogLength + 1 /\ Unread(c)' = LogLength - position'[c]
        /\ \A x \in Consumers \ {c} : Unread(x)' = Unread(x)
    BY <2>1 DEF Unread
  <2>4. Unread(c)' \in Nat /\ Unread(c)' < Unread(c)
    BY <1>2, <2>1, <2>3
  <2> QED
    BY <2>1, <2>2, <2>3, <2>4 DEF Nearer, LossesLeft, OneReaderIsNearer
<1>6. CASE Take(c)
  <2>1. /\ UNCHANGED <<losses, stops, state, owner>> /\ state[c] = "assigned"
        /\ position[c] \in 0 .. LogLength /\ position[c] < LogLength
        /\ position'[c] = position[c] + 1
        /\ \A x \in Consumers \ {c} : position'[x] = position[x]
    BY <1>1, <1>6 DEF Take, Polls, TypeOK
  <2>2. /\ Unread(c) = LogLength - position[c] /\ Unread(c)' = LogLength - (position[c] + 1)
        /\ \A x \in Consumers \ {c} : Unread(x)' = Unread(x)
    BY <2>1 DEF Unread
  <2>3. Unread(c)' \in Nat /\ Unread(c)' < Unread(c)
    BY <1>2, <2>1, <2>2
  <2>4. Down' = Down /\ Unaware' = Unaware
    BY <2>1 DEF Down, Unaware, Lost
  <2> QED
    BY <2>1, <2>2, <2>3, <2>4 DEF Nearer, LossesLeft, OneReaderIsNearer
<1>7. CASE AutoCommit(c)
  BY <1>7 DEF AutoCommit, AsNear, LossesLeft, Down, Unaware, Lost, SameReaders, Unread,
     HandlerStepsLeft
<1>8. CASE Rejoin(c)
  <2>1. /\ UNCHANGED <<losses, stops, owner>> /\ Lost(c)
        /\ state[c] = "assigned" /\ state'[c] = "up"
        /\ \A x \in Consumers \ {c} : state'[x] = state[x]
    BY <1>1, <1>8 DEF Rejoin, Lost, TypeOK
  <2>2. Down' = Down
    BY <2>1 DEF Down
  <2>3. Unaware' \subseteq Unaware /\ c \in Unaware /\ c \notin Unaware'
    BY <2>1 DEF Unaware, Lost
  <2> QED
    BY <2>1, <2>2, <2>3 DEF Nearer, LossesLeft
<1>9. ~Choke(c)
  BY NoChokeBefore
<1> QED
  BY <1>3, <1>4, <1>5, <1>6, <1>7, <1>8, <1>9 DEF GroupStep

LEMMA HandlerIsNearer ==
  ASSUME HandlersInv, HandlersInv', NEW c \in Consumers, Handler(c)
  PROVE  Nearer
<1>1. /\ UNCHANGED <<losses, stops, owner, position, state>>
      /\ \A x \in Consumers \ {c} : pc'[x] = pc[x] /\ submitted'[x] = submitted[x]
  BY ZenonT(60) DEF Handler, StartRun, Submit, SubmitRaises, NextSubmit, SaveCompleted, Report, HandlerRaises,
     HandlerEnds, AfterError, group, HandlersInv, TypeOK
<1>2. LossesLeft' = LossesLeft /\ Down' = Down /\ Unaware' = Unaware /\ SameReaders
  BY <1>1 DEF LossesLeft, Down, Unaware, Lost, SameReaders, Unread
<1>3. \A x \in Consumers \ {c} : HandlerStepsLeft(x)' = HandlerStepsLeft(x)
  BY <1>1 DEF HandlerStepsLeft
<1>4. /\ SuiteSize \in Nat \ {0}
      /\ submitted[c] \in 0 .. SuiteSize /\ submitted'[c] \in 0 .. SuiteSize
      /\ pc[c] = "start" => submitted[c] = 0
  BY TriggerAssumption DEF HandlersInv, HandlerInv, TypeOK
<1>5. HandlerStepsLeft(c)' \in Nat /\ HandlerStepsLeft(c)' < HandlerStepsLeft(c)
  <2>1. CASE StartRun(c)
    <3>1. pc[c] = "start" /\ pc'[c] = "submit" /\ submitted'[c] = 0
      BY <1>4, <2>1 DEF StartRun, HandlersInv, TypeOK
    <3> QED
      BY <1>4, <3>1 DEF HandlerStepsLeft
  <2>2. CASE Submit(c) \/ SubmitRaises(c)
    <3>1. /\ pc[c] = "submit" /\ submitted'[c] = submitted[c] + 1
          /\ pc'[c] = IF submitted[c] + 1 = SuiteSize THEN "complete" ELSE "submit"
      BY <2>2 DEF Submit, SubmitRaises, NextSubmit, HandlersInv, TypeOK
    <3> QED
      BY <1>4, <3>1 DEF HandlerStepsLeft
  <2>3. CASE SaveCompleted(c) \/ Report(c) \/ HandlerRaises(c)
    <3>1. \/ pc[c] = "complete" /\ pc'[c] = "report"
          \/ pc[c] \in {"start", "complete", "report"} /\ pc'[c] = "poll"
      BY <2>3 DEF SaveCompleted, Report, HandlerRaises, HandlerEnds, HandlersInv, TypeOK
    <3> QED
      BY <1>4, <3>1 DEF HandlerStepsLeft
  <2> QED
    BY <2>1, <2>2, <2>3 DEF Handler
<1> QED
  BY <1>2, <1>3, <1>5 DEF Nearer, OneHandlerIsNearer

(* While a trigger is due, every step of the group brings it nearer, or is *)
(* a commit, which takes nothing back: the replicas cannot pass the        *)
(* partition round, or take the messages again, for ever without having    *)
(* handled the trigger (kafka.py, _consume and the handler).               *)
THEOREM TriggersGetNearer ==
  Spec => [][WorkIsDue => \/ Nearer
                          \/ AsNear /\ \E c \in Consumers : AutoCommit(c)]_vars
<1>1. ASSUME TriggerInv, TriggerInv', WorkIsDue, Next, ~UNCHANGED vars
      PROVE  Nearer \/ (AsNear /\ \E c \in Consumers : AutoCommit(c))
  <2>1. HandlersInv /\ HandlersInv' /\ TypeOK'
    BY <1>1 DEF TriggerInv, HandlersInv
  <2>2. PICK c \in Consumers : GroupStep(c) \/ Handler(c)
    BY <1>1 DEF Next, GroupStep, Idle
  <2> QED
    BY <1>1, <2>1, <2>2, GroupStepIsNearer, HandlerIsNearer
<1>2. TriggerInv /\ TriggerInv' /\ [Next]_vars =>
        [WorkIsDue => \/ Nearer
                      \/ AsNear /\ \E c \in Consumers : AutoCommit(c)]_vars
  BY <1>1
<1>3. Spec => [][Next]_vars
  BY DEF Spec
<1> QED
  BY <1>2, <1>3, TriggerCorrect, PTL

-----------------------------------------------------------------------------
(* Liveness.  Fairness is stated with the guards of the actions where WF   *)
(* has ENABLED, and for all replicas under one box, which says the same.   *)

(* What a replica can do for the group, commits apart.                     *)
IsDown(c) == state[c] = "down"
Handles(c) == pc[c] \in Handling
Joins(c) == owner = None /\ state[c] = "up"
GoesOn(c) == Polls(c) \/ (Lost(c) /\ LoopIsFree(c))

Helps(c) == IsDown(c) \/ Handles(c) \/ Joins(c) \/ GoesOn(c)

MemberFair(c) ==
  /\ []IsDown(c) => <><<Start(c) \/ StartFails(c)>>_vars
  /\ []Handles(c) => <><<Handler(c)>>_vars
  /\ []GoesOn(c) => <><<Take(c) \/ Choke(c) \/ Rejoin(c)>>_vars

SomeJoins == \E c \in Consumers : Joins(c)
SomeAssign == \E c \in Consumers : Assign(c)

JoinFair == []SomeJoins => <><<SomeAssign>>_vars

GroupFair == []JoinFair /\ [](\A c \in Consumers : MemberFair(c))

Progress == <>(~WorkIsDue) \/ <><<Nearer>>_vars

(* The safety part of what progress rests on.                              *)
GroupRuns == [][Next]_vars /\ [](TriggerInv /\ MembersInv)

(* A step that is no commit brings the group nearer.                       *)
LEMMA FairStepsAreNearer ==
  ASSUME TriggerInv, TriggerInv', WorkIsDue, NEW c \in Consumers,
         \/ Start(c) \/ StartFails(c) \/ Assign(c)
         \/ Take(c) \/ Choke(c) \/ Rejoin(c) \/ Handler(c)
  PROVE  Nearer
<1>1. HandlersInv /\ HandlersInv' /\ TypeOK /\ TypeOK'
  BY DEF TriggerInv, HandlersInv
<1>2. CASE Handler(c)
  BY <1>1, <1>2, HandlerIsNearer
<1>3. CASE \/ Start(c) \/ StartFails(c) \/ Assign(c)
           \/ Take(c) \/ Choke(c) \/ Rejoin(c)
  <2>1. ~AutoCommit(c)
    BY <1>1, <1>3, NoChokeBefore, TriggerAssumption DEF Start, StartFails, Assign, Take, Polls,
       Rejoin, Lost, AutoCommit, LoopIsFree, TypeOK
  <2> QED
    BY <1>1, <1>3, <2>1, GroupStepIsNearer DEF GroupStep
<1> QED
  BY <1>2, <1>3

(* A step that does not leaves the group as it is.                         *)
LEMMA OtherStepsLeaveAlone ==
  ASSUME TriggerInv, TriggerInv', WorkIsDue, [Next]_vars, ~(Nearer /\ vars' # vars),
         NEW c \in Consumers
  PROVE  /\ IsDown(c)' <=> IsDown(c)
         /\ Handles(c)' <=> Handles(c)
         /\ Joins(c)' <=> Joins(c)
         /\ GoesOn(c)' <=> GoesOn(c)
<1>1. CASE vars' = vars
  BY <1>1 DEF vars, IsDown, Handles, Joins, GoesOn, Polls, Lost, LoopIsFree
<1>2. CASE vars' # vars
  <2>1. PICK x \in Consumers : GroupStep(x) \/ Handler(x)
    BY <1>2 DEF Next, GroupStep, Idle
  <2>2. HandlersInv /\ HandlersInv' /\ TypeOK'
    BY DEF TriggerInv, HandlersInv
  <2>3. AutoCommit(x)
    BY <1>2, <2>1, <2>2, GroupStepIsNearer, HandlerIsNearer
  <2> QED
    BY <2>3 DEF AutoCommit, IsDown, Handles, Joins, GoesOn, Polls, Lost, LoopIsFree
<1> QED
  BY <1>1, <1>2

(* What one replica can do is done, or another step brings the group       *)
(* nearer; of joining the group, by whoever is given the partition.        *)
HelpGiven(c) == WorkIsDue /\ Helps(c) => Progress

LEMMA OneReplicaHelps ==
  ASSUME NEW c \in Consumers
  PROVE  GroupRuns /\ JoinFair /\ MemberFair(c) => HelpGiven(c)
<1>1. TriggerInv /\ TriggerInv' /\ WorkIsDue /\ [Next]_vars =>
        \/ <<Nearer>>_vars
        \/ /\ IsDown(c)' <=> IsDown(c)
           /\ Handles(c)' <=> Handles(c)
           /\ SomeJoins' <=> SomeJoins
           /\ GoesOn(c)' <=> GoesOn(c)
  BY OtherStepsLeaveAlone DEF SomeJoins
<1>2. TriggerInv /\ TriggerInv' /\ WorkIsDue =>
        /\ Start(c) \/ StartFails(c) => Nearer
        /\ Handler(c) => Nearer
        /\ SomeAssign => Nearer
        /\ Take(c) \/ Choke(c) \/ Rejoin(c) => Nearer
  BY FairStepsAreNearer DEF SomeAssign
<1>3. Helps(c) => IsDown(c) \/ Handles(c) \/ SomeJoins \/ GoesOn(c)
  BY DEF Helps, SomeJoins
<1>4. GroupRuns /\ JoinFair /\ MemberFair(c) => (WorkIsDue /\ Helps(c) => Progress)
  BY <1>1, <1>2, <1>3, PTL DEF GroupRuns, JoinFair, MemberFair, Progress
<1> QED
  BY <1>4, PTL DEF HelpGiven

(* While a trigger is due, unless no replica could start its consumer, the *)
(* group gets nearer, again and again until nothing is due: whichever      *)
(* replica can go on is not kept from it for ever, by commits or by        *)
(* whatever the others do (kafka.py, _consume and the handler).            *)
THEOREM TriggersAdvance ==
  Spec /\ GroupFair => [](WorkIsDue => AllAbsent \/ Progress)
<1>1. TriggerInv /\ MembersInv => (WorkIsDue => AllAbsent \/ \E c \in Consumers : Helps(c))
  BY SomeoneCanGoOn DEF CanGoOn, Helps, IsDown, Handles, Joins, GoesOn
<1>2. GroupRuns => (WorkIsDue => AllAbsent \/ \E c \in Consumers : Helps(c))
  BY <1>1, PTL DEF GroupRuns
<1>3. ASSUME NEW c \in Consumers
      PROVE  GroupRuns /\ JoinFair /\ MemberFair(c) => (WorkIsDue /\ Helps(c) => Progress)
  BY OneReplicaHelps DEF HelpGiven
<1>4. GroupRuns /\ JoinFair /\ (\A c \in Consumers : MemberFair(c)) =>
        (WorkIsDue => AllAbsent \/ Progress)
  BY <1>2, <1>3
<1>5. Spec => GroupRuns
  BY MembersCorrect, PTL DEF Spec, GroupRuns
<1> QED
  BY <1>4, <1>5, PTL DEF GroupFair, GroupRuns

(* While a trigger is due the group does not get nearer for ever: Nearer   *)
(* lowers five measures in lexicographic order, and no step raises them     *)
(* (TriggersGetNearer).  The induction this needs is over data.            *)
NoDescent == <>[][~(WorkIsDue /\ Nearer)]_vars

Expected(m) == log[m] = "trigger" /\ \A k \in 1 .. m : log[k] # "undecodable"

SettledInTheEnd(m) ==
  log[m] = "trigger" /\ (\A k \in 1 .. m : log[k] # "undecodable")
    ~> Settled(m) \/ \A c \in Consumers : state[c] = "absent"

(* TriggersAreSettled, for any number of replicas and messages, any suite  *)
(* and any bound on losses and shutdowns (kafka.py, _consume).             *)
THEOREM TriggersSettle ==
  Spec /\ GroupFair /\ NoDescent => TriggersAreSettled
<1>1. ASSUME NEW m \in Messages
      PROVE  Spec /\ GroupFair /\ NoDescent => SettledInTheEnd(m)
  <2>1. Expected(m) /\ ~Settled(m) => WorkIsDue
    BY DEF Expected, WorkIsDue, Due
  <2>2. TriggerInv /\ [Next]_vars /\ Expected(m) => Expected(m)'
    BY DEF Next, Start, StartFails, Assign, AutoCommit, Take, Choke, Rejoin, Stop, Expire, Crash,
       Handler, StartRun, Submit, SubmitRaises, SaveCompleted, Report, HandlerRaises, group, Idle, vars,
       Expected
  <2>3. Spec => [][Next]_vars /\ []TriggerInv
    BY TriggerCorrect, PTL DEF Spec
  <2>4. Spec /\ GroupFair /\ NoDescent => (Expected(m) ~> Settled(m) \/ AllAbsent)
    BY <2>1, <2>2, <2>3, TriggersAdvance, PTL DEF Progress, NoDescent
  <2> QED
    BY <2>4, PTL DEF SettledInTheEnd, Expected, AllAbsent
<1>2. (\A m \in Messages : SettledInTheEnd(m)) => TriggersAreSettled
  BY DEF TriggersAreSettled, SettledInTheEnd
<1> QED
  BY <1>1, <1>2
=============================================================================
