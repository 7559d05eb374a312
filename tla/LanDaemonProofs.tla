-------------------------- MODULE LanDaemonProofs --------------------------
(***************************************************************************)
(* Theorems about LanDaemon, for every set of hosts, objects and resources *)
(* and every bound.                                                        *)
(*                                                                         *)
(* The safety properties follow from the inductive invariant IInv: types,  *)
(* what old copies of an object are still good for (CopiesAreSafe), and    *)
(* EveryTraceAnswered; LiveNamespaceKept also needs how new the copies of  *)
(* objects are that a host has been told of (CopiesAreFresh).              *)
(***************************************************************************)
EXTENDS LanDaemon, TLAPS

USE LanAssumption, ListerAssumption, DaemonAssumption

IInv == TypeOK /\ CopiesAreSafe /\ EveryTraceAnswered

-----------------------------------------------------------------------------
(* Sequences as channels. *)

LEMMA AppendFacts ==
    ASSUME NEW S, NEW s \in Seq(S), NEW e \in S
    PROVE  /\ Append(s, e) \in Seq(S)
           /\ Len(Append(s, e)) = Len(s) + 1
           /\ \A i \in 1..Len(Append(s, e)) :
                  Append(s, e)[i] = e \/ \E j \in 1..Len(s) : Append(s, e)[i] = s[j]
  OBVIOUS

LEMMA TailFacts ==
    ASSUME NEW S, NEW s \in Seq(S), s # <<>>
    PROVE  /\ Head(s) \in S /\ Head(s) = s[1] /\ 1 \in 1..Len(s)
           /\ Tail(s) \in Seq(S)
           /\ Len(Tail(s)) = Len(s) - 1
           /\ \A i \in 1..Len(Tail(s)) : \E j \in 1..Len(s) : Tail(s)[i] = s[j]
<1>1. Len(s) \in Nat /\ Len(s) # 0
  OBVIOUS
<1>2. Head(s) \in S /\ Head(s) = s[1] /\ 1 \in 1..Len(s) /\ Tail(s) \in Seq(S) /\ Len(Tail(s)) = Len(s) - 1
  BY <1>1
<1>3. ASSUME NEW i \in 1..Len(Tail(s))
      PROVE  \E j \in 1..Len(s) : Tail(s)[i] = s[j]
  <2>1. Tail(s)[i] = s[i + 1] /\ i + 1 \in 1..Len(s)
    BY <1>1, <1>2
  <2>2. QED  BY <2>1
<1>4. QED  BY <1>2, <1>3

-----------------------------------------------------------------------------
(* Types. *)

LEMMA TypeInit == Init => TypeOK
<1> SUFFICES ASSUME Init PROVE TypeOK
  OBVIOUS
<1> USE DEF Init, ApiInit, ListerInit
<1>1. phase \in [Lan -> Phase] /\ fins \in [Lan -> SUBSET Host]
  BY DEF Phase
<1>2. ListerTypeOK
  BY DEF ListerTypeOK, NoDevices, Idle, Optional
<1>3. cache \in [Host -> [Lan -> View]] /\ worker \in [Host -> [pc : PC, lan : Optional, seen : View]]
  BY DEF NoView, View, Phase, IdleWorker, PC, Optional
<1>4. QED  BY <1>1, <1>2, <1>3 DEF TypeOK, IdleWorker

\* What the API server's writes do to the types.
LEMMA StoreFinsType ==
    ASSUME TypeOK, NEW l \in Lan, NEW new \in SUBSET Host, StoreFins(l, new)
    PROVE  phase' \in [Lan -> Phase] /\ fins' \in [Lan -> SUBSET Host]
  BY DEF TypeOK, StoreFins, Phase

LEMMA ReturnType ==
    ASSUME TypeOK, NEW h \in Host, Return(h)
    PROVE  /\ worker' \in [Host -> [pc : PC, lan : Optional, seen : View]]
           /\ \A k \in Host : worker'[k].pc # "idle" => worker'[k].lan \in Lan
<1>1. IdleWorker \in [pc : PC, lan : Optional, seen : View] /\ IdleWorker.pc = "idle"
  BY DEF IdleWorker, PC, Optional, NoView, View, Phase
<1>2. QED  BY <1>1 DEF TypeOK, Return

LEMMA GotoType ==
    ASSUME TypeOK, NEW h \in Host, NEW pc \in PC, worker[h].pc # "idle", Goto(h, pc)
    PROVE  /\ worker' \in [Host -> [pc : PC, lan : Optional, seen : View]]
           /\ \A k \in Host : worker'[k].pc # "idle" => worker'[k].lan \in Lan
<1> DEFINE Worker == [pc : PC, lan : Optional, seen : View]
           new == [worker[h] EXCEPT !.pc = pc]
<1>1. worker[h] \in Worker /\ worker[h].lan \in Lan
  BY DEF TypeOK
<1>2. new \in Worker /\ new.lan \in Lan
  BY <1>1
<1>3. worker' = [worker EXCEPT ![h] = new]
  BY DEF Goto
<1> HIDE DEF new
<1>4. \A k \in Host : worker'[k] = IF k = h THEN new ELSE worker[k]
  BY <1>3 DEF TypeOK
<1>5. worker' \in [Host -> Worker]
  BY <1>2, <1>3 DEF TypeOK
<1>6. QED  BY <1>2, <1>4, <1>5 DEF TypeOK

LEMMA ListerResetType ==
    ASSUME TypeOK, NEW h \in Host, ListerReset(h)
    PROVE  ListerTypeOK'
<1>1. NoDevices \in [Resource -> Optional]
  BY DEF NoDevices, Optional
<1>2. Idle \in [on : BOOLEAN, list : SUBSET Resource, todo : SUBSET Resource]
  BY DEF Idle
<1>3. <<>> \in Seq(Lan) /\ <<>> \in Seq(SUBSET Resource) /\ Len(<<>>) <= ChanDepth
  OBVIOUS
<1>4. addCh' \in [Host -> Seq(Lan)] /\ rmCh' \in [Host -> Seq(Lan)] /\ offer' \in [Host -> Seq(SUBSET Resource)]
  BY <1>3 DEF TypeOK, ListerTypeOK, ListerReset
<1>5. \A k \in Host : Len(addCh'[k]) <= ChanDepth /\ Len(rmCh'[k]) <= ChanDepth
  BY <1>3 DEF TypeOK, ListerTypeOK, ListerReset
<1>6. /\ deviceList' \in [Host -> [Resource -> Optional]]
      /\ plugins' \in [Host -> [Resource -> Optional]]
      /\ round' \in [Host -> [on : BOOLEAN, list : SUBSET Resource, todo : SUBSET Resource]]
  BY <1>1, <1>2 DEF TypeOK, ListerTypeOK, ListerReset
<1>7. QED  BY <1>4, <1>5, <1>6 DEF ListerTypeOK

\* Discover puts a map of the right type in place of DeviceList and offers a
\* list of its names.
LEMMA DiscoverType ==
    ASSUME TypeOK, NEW h \in Host, Discover(h)
    PROVE  ListerTypeOK'
<1> USE DEF TypeOK, ListerTypeOK
<1>1. ASSUME NEW dl \in [Resource -> Optional], report(h, dl)
      PROVE  offer' \in [Host -> Seq(SUBSET Resource)]
  <2>1. CurrentPlugins(dl) \in SUBSET Resource
    BY DEF CurrentPlugins
  <2>2. <<CurrentPlugins(dl)>> \in Seq(SUBSET Resource) /\ <<>> \in Seq(SUBSET Resource)
    BY <2>1
  <2>3. QED  BY <1>1, <2>2 DEF report
<1>2. CASE DiscoverAdd(h)
  <2>1. addCh[h] \in Seq(Lan) /\ addCh[h] # <<>>
    BY <1>2 DEF DiscoverAdd
  <2> DEFINE dl == [r \in Resource |-> IF r \in ResOf(Head(addCh[h])) THEN Head(addCh[h]) ELSE deviceList[h][r]]
  <2>2. dl \in [Resource -> Optional]
    BY <2>1, TailFacts DEF Optional
  <2>3. deviceList' = [deviceList EXCEPT ![h] = dl] /\ report(h, dl)
    BY <1>2 DEF DiscoverAdd
  <2>4. addCh' = [addCh EXCEPT ![h] = Tail(@)] /\ UNCHANGED <<rmCh, round, plugins>>
    BY <1>2 DEF DiscoverAdd
  <2> HIDE DEF dl
  <2>5. addCh' \in [Host -> Seq(Lan)] /\ \A k \in Host : Len(addCh'[k]) <= ChanDepth
    BY <2>1, <2>4, TailFacts
  <2>6. QED  BY <1>1, <2>2, <2>3, <2>4, <2>5
<1>3. CASE DiscoverRemove(h)
  <2>1. rmCh[h] \in Seq(Lan) /\ rmCh[h] # <<>>
    BY <1>3 DEF DiscoverRemove
  <2> DEFINE dl == [r \in Resource |-> IF r \in ResOf(Head(rmCh[h])) THEN None ELSE deviceList[h][r]]
  <2>2. dl \in [Resource -> Optional]
    BY <2>1 DEF Optional
  <2>3. deviceList' = [deviceList EXCEPT ![h] = dl] /\ report(h, dl)
    BY <1>3 DEF DiscoverRemove
  <2>4. rmCh' = [rmCh EXCEPT ![h] = Tail(@)] /\ UNCHANGED <<addCh, round, plugins>>
    BY <1>3 DEF DiscoverRemove
  <2> HIDE DEF dl
  <2>5. rmCh' \in [Host -> Seq(Lan)] /\ \A k \in Host : Len(rmCh'[k]) <= ChanDepth
    BY <2>1, <2>4, TailFacts
  <2>6. QED  BY <1>1, <2>2, <2>3, <2>4, <2>5
<1>4. QED  BY <1>2, <1>3 DEF Discover

LEMMA ManagerType ==
    ASSUME TypeOK, NEW h \in Host, Manager(h)
    PROVE  ListerTypeOK'
<1> USE DEF TypeOK, ListerTypeOK
<1>1. CASE ManagerReceive(h)
  <2>1. offer[h] \in Seq(SUBSET Resource) /\ offer[h] # <<>>
    BY <1>1 DEF ManagerReceive
  <2>2. Head(offer[h]) \in SUBSET Resource
    BY <2>1, TailFacts
  <2>3. round' \in [Host -> [on : BOOLEAN, list : SUBSET Resource, todo : SUBSET Resource]]
    BY <1>1, <2>2 DEF ManagerReceive
  <2>4. offer' \in [Host -> Seq(SUBSET Resource)]
    BY <1>1 DEF ManagerReceive
  <2>5. QED  BY <1>1, <2>3, <2>4 DEF ManagerReceive
<1>2. CASE \E r \in Resource : StartPlugin(h, r)
  <2> PICK r \in Resource : StartPlugin(h, r)
    BY <1>2
  <2>1. plugins' \in [Host -> [Resource -> Optional]]
    BY DEF StartPlugin
  <2> DEFINE new == [round[h] EXCEPT !.todo = @ \ {r}]
             Round == [on : BOOLEAN, list : SUBSET Resource, todo : SUBSET Resource]
  <2>3. round[h] \in Round /\ round[h].todo \ {r} \in SUBSET Resource
    OBVIOUS
  <2>4. new \in Round
    BY <2>3
  <2>5. round' = [round EXCEPT ![h] = new]
    BY DEF StartPlugin
  <2>2. round' \in [Host -> Round]
    <3> HIDE DEF new, Round
    <3>1. round \in [Host -> Round]
      BY DEF Round
    <3>2. QED  BY <2>4, <2>5, <3>1
  <2>6. QED  BY <2>1, <2>2 DEF StartPlugin
<1>3. CASE EndRound(h)
  <2>1. plugins' \in [Host -> [Resource -> Optional]]
    BY <1>3 DEF EndRound, Optional
  <2>2. round' \in [Host -> [on : BOOLEAN, list : SUBSET Resource, todo : SUBSET Resource]]
    BY <1>3 DEF EndRound, Idle
  <2>3. QED  BY <1>3, <2>1, <2>2 DEF EndRound
<1>4. QED  BY <1>1, <1>2, <1>3 DEF Manager

\* A step of Next is one of these.
LEMMA NextCases ==
    ASSUME Next
    PROVE  \/ \E l \in Lan : Create(l) \/ Delete(l)
           \/ \E h \in Host :
                \/ \E n \in Name : CacheSync(h, n) \/ Resync(h, n) \/ Reconcile(h, n)
                \/ Cleanup(h)
                \/ SendRemove(h)
                \/ SendAdd(h)
                \/ UpdateOK(h)
                \/ UpdateFails(h)
                \/ UpdateAnswerLost(h)
                \/ \E r \in Resource : Allocate(h, r)
                \/ Restart(h)
                \/ PanicOnNil(h)
                \/ ListerStep(h)
  BY DEF Next, HostNext, WorkerStep

LEMMA ViewOfType == TypeOK => \A l \in Lan : ViewOf(l) \in View
  BY DEF TypeOK, ViewOf, View

LEMMA NewProcessType ==
    ASSUME TypeOK, NEW h \in Host, NewProcess(h), events' \in 0..MaxEvents
    PROVE  TypeOK'
<1>1. ListerTypeOK'
  BY ListerResetType DEF NewProcess
<1>2. cache' \in [Host -> [Lan -> View]]
  BY ViewOfType DEF NewProcess, TypeOK
<1>3. queue' \in [Host -> SUBSET Name]
  BY DEF NewProcess, TypeOK
<1>4. /\ worker' \in [Host -> [pc : PC, lan : Optional, seen : View]]
      /\ \A k \in Host : worker'[k].pc # "idle" => worker'[k].lan \in Lan
  BY ReturnType DEF NewProcess, Return
<1>5. UNCHANGED <<phase, fins, netns, cleaned>>
  BY DEF NewProcess, apiVars
<1>6. QED  BY <1>1, <1>2, <1>3, <1>4, <1>5 DEF TypeOK

\* What the Update of a worker stores is a set of hosts.
LEMMA NewFinsType ==
    ASSUME TypeOK, NEW h \in Host, Updating(h)
    PROVE  worker[h].lan \in Lan /\ NewFins(h) \in SUBSET Host
<1>1. worker[h] \in [pc : PC, lan : Optional, seen : View] /\ worker[h].lan \in Lan
  BY DEF TypeOK, Updating
<1>2. worker[h].seen.fins \in SUBSET Host
  BY <1>1 DEF View
<1>3. QED  BY <1>1, <1>2 DEF NewFins

LEMMA RequeueType ==
    ASSUME TypeOK, NEW h \in Host, worker[h].lan \in Lan, Requeue(h)
    PROVE  queue' \in [Host -> SUBSET Name]
  BY DEF TypeOK, Requeue

LEMMA TypeNext == TypeOK /\ [Next]_vars => TypeOK'
<1> SUFFICES ASSUME TypeOK, [Next]_vars PROVE TypeOK'
  OBVIOUS
<1>1. CASE UNCHANGED vars
  BY <1>1 DEF vars, apiVars, listerVars, daemonVars, TypeOK, ListerTypeOK
<1>2. ASSUME NEW l \in Lan, Create(l) \/ Delete(l)
      PROVE  TypeOK'
  BY <1>2 DEF Create, Delete, UserCreate, UserDelete, listerVars, daemonVars, TypeOK,
              ListerTypeOK, Phase
<1>3. ASSUME NEW h \in Host, NEW n \in Name, CacheSync(h, n)
      PROVE  TypeOK'
  <2>1. cache' \in [Host -> [Lan -> View]]
    BY <1>3, ViewOfType DEF CacheSync, TypeOK
  <2>2. queue' \in [Host -> SUBSET Name]
    BY <1>3 DEF CacheSync, TypeOK
  <2>3. QED  BY <1>3, <2>1, <2>2 DEF CacheSync, apiVars, listerVars, TypeOK, ListerTypeOK
<1>4. ASSUME NEW h \in Host, NEW n \in Name, Resync(h, n)
      PROVE  TypeOK'
  BY <1>4 DEF Resync, apiVars, listerVars, TypeOK, ListerTypeOK
<1>5. ASSUME NEW h \in Host, NEW n \in Name, Reconcile(h, n)
      PROVE  TypeOK'
  <2>1. queue' \in [Host -> SUBSET Name]
    BY <1>5 DEF Reconcile, TypeOK
  <2>2. ASSUME NEW l \in Lan, worker' = [worker EXCEPT ![h] =
                    [pc |-> Plan(h, cache[h][l]), lan |-> l, seen |-> cache[h][l]]]
        PROVE  /\ worker' \in [Host -> [pc : PC, lan : Optional, seen : View]]
               /\ \A k \in Host : worker'[k].pc # "idle" => worker'[k].lan \in Lan
    <3>1. Plan(h, cache[h][l]) \in PC /\ cache[h][l] \in View /\ l \in Optional
      BY DEF TypeOK, Plan, PC, Optional
    <3>2. QED  BY <2>2, <3>1 DEF TypeOK
  <2>3. /\ worker' \in [Host -> [pc : PC, lan : Optional, seen : View]]
        /\ \A k \in Host : worker'[k].pc # "idle" => worker'[k].lan \in Lan
    BY <1>5, <2>2 DEF Reconcile, TypeOK, Named
  <2>4. QED  BY <1>5, <2>1, <2>3 DEF Reconcile, apiVars, listerVars, TypeOK, ListerTypeOK
<1>6. ASSUME NEW h \in Host, Cleanup(h)
      PROVE  TypeOK'
  <2>1. worker[h].lan \in Lan /\ Goto(h, "sendRemove") /\ "sendRemove" \in PC /\ worker[h].pc # "idle"
    BY <1>6 DEF Cleanup, TypeOK, PC
  <2>2. netns' \in [Host -> SUBSET Ns] /\ cleaned' \in [Host -> SUBSET Lan]
    BY <1>6, <2>1 DEF Cleanup, TypeOK
  <2>3. QED  BY <1>6, <2>1, <2>2, GotoType DEF Cleanup, apiVars, listerVars, TypeOK, ListerTypeOK
<1>7. ASSUME NEW h \in Host, SendRemove(h)
      PROVE  TypeOK'
  <2>1. worker[h].lan \in Lan /\ Goto(h, "delFin") /\ "delFin" \in PC /\ worker[h].pc # "idle"
    BY <1>7 DEF SendRemove, TypeOK, PC
  <2>2. rmCh' \in [Host -> Seq(Lan)] /\ \A k \in Host : Len(rmCh'[k]) <= ChanDepth
    BY <1>7, <2>1, AppendFacts DEF SendRemove, CanSend, RemovChanSend, TypeOK, ListerTypeOK
  <2>3. QED  BY <1>7, <2>1, <2>2, GotoType DEF SendRemove, apiVars, TypeOK, ListerTypeOK
<1>8. ASSUME NEW h \in Host, SendAdd(h)
      PROVE  TypeOK'
  <2>1. worker[h].lan \in Lan /\ Return(h)
    BY <1>8 DEF SendAdd, TypeOK
  <2>2. addCh' \in [Host -> Seq(Lan)] /\ \A k \in Host : Len(addCh'[k]) <= ChanDepth
    BY <1>8, <2>1, AppendFacts DEF SendAdd, CanSend, AddChanSend, TypeOK, ListerTypeOK
  <2>3. QED  BY <1>8, <2>1, <2>2, ReturnType DEF SendAdd, apiVars, TypeOK, ListerTypeOK
<1>9. ASSUME NEW h \in Host, UpdateOK(h) \/ UpdateAnswerLost(h)
      PROVE  TypeOK'
  <2>1. worker[h].lan \in Lan /\ NewFins(h) \in SUBSET Host
    BY <1>9, NewFinsType DEF UpdateOK, UpdateAnswerLost
  <2>2. phase' \in [Lan -> Phase] /\ fins' \in [Lan -> SUBSET Host]
    BY <1>9, <2>1, StoreFinsType DEF UpdateOK, UpdateAnswerLost
  <2>3. queue' \in [Host -> SUBSET Name]
    BY <1>9, <2>1, RequeueType DEF UpdateOK, UpdateAnswerLost, TypeOK
  <2>4. QED  BY <1>9, <2>2, <2>3, ReturnType DEF UpdateOK, UpdateAnswerLost, listerVars, TypeOK, ListerTypeOK
<1>10. ASSUME NEW h \in Host, UpdateFails(h)
       PROVE  TypeOK'
  <2>1. queue' \in [Host -> SUBSET Name]
    BY <1>10, NewFinsType, RequeueType DEF UpdateFails
  <2>2. QED  BY <1>10, <2>1, ReturnType DEF UpdateFails, apiVars, listerVars, TypeOK, ListerTypeOK
<1>11. ASSUME NEW h \in Host, NEW r \in Resource, Allocate(h, r)
       PROVE  TypeOK'
  <2>1. nsOf[plugins[h][r]] \in Ns
    BY <1>11 DEF Allocate, TypeOK, ListerTypeOK, Optional
  <2>2. netns' \in [Host -> SUBSET Ns]
    BY <1>11, <2>1 DEF Allocate, TypeOK
  <2>3. QED  BY <1>11, <2>2 DEF Allocate, apiVars, listerVars, TypeOK, ListerTypeOK
<1>12. ASSUME NEW h \in Host, Restart(h) \/ PanicOnNil(h)
       PROVE  TypeOK'
  <2>1. events' \in 0..MaxEvents
    BY <1>12 DEF Restart, PanicOnNil, TypeOK
  <2>2. QED  BY <1>12, <2>1, NewProcessType DEF Restart, PanicOnNil
<1>13. ASSUME NEW h \in Host, ListerStep(h)
       PROVE  TypeOK'
  BY <1>13, DiscoverType, ManagerType DEF ListerStep, apiVars, daemonVars, TypeOK
<1>14. QED
  BY <1>1, <1>2, <1>3, <1>4, <1>5, <1>6, <1>7, <1>8, <1>9, <1>10, <1>11, <1>12, <1>13, NextCases

-----------------------------------------------------------------------------
(* The steps, by what they do to the objects, to what the device-plugin    *)
(* side knows, and to the namespaces.                                      *)

\* An accepted Update changes one host's entry: it adds the worker's own host to
\* a live object, or takes it off one under deletion that it has cleaned up.
AddsOwn(h, l) ==
    /\ worker[h].pc = "addFin"
    /\ phase[l] = "live"
    /\ fins' = [fins EXCEPT ![l] = @ \union {h}]
    /\ phase' = phase
DropsOwn(h, l) ==
    /\ worker[h].pc = "delFin"
    /\ phase[l] = "deleting"
    /\ h \in fins[l]
    /\ l \in cleaned[h]
    /\ fins' = [fins EXCEPT ![l] = @ \ {h}]
    /\ phase' = [phase EXCEPT ![l] = IF fins[l] \ {h} = {} THEN "gone" ELSE "deleting"]

LEMMA StoreStep ==
    ASSUME TypeOK, CopiesAreSafe, NEW h \in Host, UpdateOK(h) \/ UpdateAnswerLost(h)
    PROVE  /\ worker[h].lan \in Lan
           /\ AddsOwn(h, worker[h].lan) \/ DropsOwn(h, worker[h].lan)
           /\ worker' = [worker EXCEPT ![h] = IdleWorker]
           /\ UNCHANGED <<listerVars, cache, netns, events, cleaned>>
<1> DEFINE l == worker[h].lan
<1>1. /\ Updating(h) /\ CanStore(h) /\ StoreFins(l, NewFins(h)) /\ Return(h)
      /\ UNCHANGED <<listerVars, cache, netns, events, cleaned>>
  BY DEF UpdateOK, UpdateAnswerLost
<1>2. l \in Lan
  BY <1>1, NewFinsType
<1>3. phase[l] = worker[h].seen.phase /\ fins[l] = worker[h].seen.fins
  BY <1>1 DEF CanStore, Accepted, ViewOf
<1>4. CASE worker[h].pc = "addFin"
  <2>1. worker[h].seen.phase = "live"
    BY <1>4 DEF CopiesAreSafe, WorkerSafe
  <2>2. NewFins(h) = fins[l] \union {h}
    BY <1>3, <1>4 DEF NewFins
  <2>3. phase' = phase
    BY <1>1, <1>2, <1>3, <2>1 DEF StoreFins, TypeOK
  <2>4. QED  BY <1>1, <1>2, <1>3, <1>4, <2>1, <2>2, <2>3 DEF AddsOwn, StoreFins, Return
<1>5. CASE worker[h].pc = "delFin"
  <2>1. worker[h].seen.phase = "deleting" /\ h \in fins[l] /\ l \in cleaned[h]
    BY <1>3, <1>5 DEF CopiesAreSafe, WorkerSafe
  <2>2. NewFins(h) = fins[l] \ {h}
    BY <1>3, <1>5 DEF NewFins
  <2>3. phase' = [phase EXCEPT ![l] = IF fins[l] \ {h} = {} THEN "gone" ELSE "deleting"]
    BY <1>1, <1>2, <1>3, <2>1, <2>2 DEF StoreFins, TypeOK
  <2>4. QED  BY <1>1, <1>2, <1>3, <1>5, <2>1, <2>2, <2>3 DEF DropsOwn, StoreFins, Return
<1>6. QED  BY <1>1, <1>4, <1>5 DEF Updating

\* Every other step of a host leaves the objects alone.
LEMMA ApiStep ==
    ASSUME TypeOK, CopiesAreSafe, [Next]_vars
    PROVE  \/ \E l \in Lan : (Create(l) \/ Delete(l)) /\ UNCHANGED fins
           \/ \E h \in Host : /\ UpdateOK(h) \/ UpdateAnswerLost(h)
                              /\ AddsOwn(h, worker[h].lan) \/ DropsOwn(h, worker[h].lan)
                              /\ worker[h].lan \in Lan
           \/ UNCHANGED apiVars
<1>1. CASE UNCHANGED vars
  BY <1>1 DEF vars
<1>2. ASSUME NEW h \in Host, UpdateOK(h) \/ UpdateAnswerLost(h)
      PROVE  /\ AddsOwn(h, worker[h].lan) \/ DropsOwn(h, worker[h].lan)
             /\ worker[h].lan \in Lan
  BY <1>2, StoreStep
<1>3. CASE Next
  BY <1>2, <1>3, NextCases DEF Create, Delete, UserCreate, UserDelete, CacheSync, Resync,
     Reconcile, Cleanup, SendRemove, SendAdd, UpdateFails, Allocate, Restart, PanicOnNil,
     NewProcess, ListerStep
<1>4. QED  BY <1>1, <1>3

\* Objects only get older.
LEMMA EndedStable ==
    ASSUME TypeOK, CopiesAreSafe, [Next]_vars, NEW l \in Lan, Ended(l)
    PROVE  Ended(l)'
<1> USE DEF Ended
<1>1. CASE \E k \in Lan : Create(k) \/ Delete(k)
  BY <1>1 DEF Create, Delete, UserCreate, UserDelete, TypeOK
<1>2. CASE \E h \in Host : AddsOwn(h, worker[h].lan) \/ DropsOwn(h, worker[h].lan)
  BY <1>2 DEF AddsOwn, DropsOwn, TypeOK
<1>3. CASE UNCHANGED apiVars
  BY <1>3 DEF apiVars
<1>4. QED  BY <1>1, <1>2, <1>3, ApiStep

\* The history only grows.
LEMMA CleanedStep ==
    ASSUME TypeOK, [Next]_vars
    PROVE  \/ UNCHANGED cleaned
           \/ \E h \in Host : /\ Cleanup(h)
                              /\ worker[h].lan \in Lan
                              /\ cleaned' = [cleaned EXCEPT ![h] = @ \union {worker[h].lan}]
<1>1. CASE UNCHANGED vars
  BY <1>1 DEF vars, daemonVars
<1>2. CASE Next
  <2>1. ASSUME NEW h \in Host, Cleanup(h)
        PROVE  /\ worker[h].lan \in Lan
               /\ cleaned' = [cleaned EXCEPT ![h] = @ \union {worker[h].lan}]
    BY <2>1 DEF Cleanup, TypeOK
  <2>2. QED
    BY <1>2, <2>1, NextCases DEF Create, Delete, CacheSync, Resync, Reconcile, SendRemove,
       SendAdd, UpdateOK, UpdateAnswerLost, UpdateFails, Allocate, Restart, PanicOnNil,
       NewProcess, ListerStep, daemonVars
<1>3. QED  BY <1>1, <1>2

\* Whoever answers for a LAN goes on answering: the finalizer of a host leaves
\* only when the host has cleaned up.
LEMMA AnsweredStable ==
    ASSUME TypeOK, CopiesAreSafe, [Next]_vars, NEW h \in Host, NEW l \in Lan, Answered(h, l)
    PROVE  Answered(h, l)'
<1>1. cleaned[h] \subseteq cleaned'[h]
  <2>1. CASE UNCHANGED cleaned
    BY <2>1
  <2>2. ASSUME NEW k \in Host, NEW m \in Lan, cleaned' = [cleaned EXCEPT ![k] = @ \union {m}]
        PROVE  cleaned[h] \subseteq cleaned'[h]
    BY <2>2 DEF TypeOK
  <2>3. QED  BY <2>1, <2>2, CleanedStep
<1>2. h \in fins[l] => h \in fins'[l] \/ l \in cleaned[h]
  <2>1. CASE UNCHANGED fins
    BY <2>1
  <2>2. CASE \E k \in Host : /\ worker[k].lan \in Lan
                             /\ AddsOwn(k, worker[k].lan) \/ DropsOwn(k, worker[k].lan)
    BY <2>2 DEF AddsOwn, DropsOwn, TypeOK
  <2>3. QED  BY <2>1, <2>2, ApiStep DEF apiVars
<1>3. QED  BY <1>1, <1>2 DEF Answered

-----------------------------------------------------------------------------
(* What the device-plugin side knows, and the namespaces. *)

LEMMA InChanAppend ==
    ASSUME NEW s \in Seq(Lan), NEW l \in Lan, NEW i \in 1..Len(Append(s, l))
    PROVE  Append(s, l)[i] = l \/ Append(s, l)[i] \in {s[j] : j \in 1..Len(s)}
  BY AppendFacts

\* The lister, the manager and a new process only forget.
Forgets(h) == ListerStep(h) \/ Restart(h) \/ PanicOnNil(h)

LEMMA KnownShrinks ==
    ASSUME TypeOK, \E h \in Host : Forgets(h), NEW k \in Host, NEW l \in Known(k)'
    PROVE  l \in Known(k)
<1> USE DEF Known, InMap, InChan, Forgets
<1>3. ASSUME NEW h \in Host, ListerReset(h)
      PROVE  l \in Known(k)
  <2>1. CASE k = h
    BY <1>3, <2>1 DEF ListerReset, NoDevices, TypeOK, ListerTypeOK
  <2>2. CASE k # h
    BY <1>3, <2>2 DEF ListerReset, TypeOK, ListerTypeOK
  <2>3. QED  BY <2>1, <2>2
<1>4. ASSUME NEW h \in Host, DiscoverAdd(h)
      PROVE  l \in Known(k)
  <2>1. /\ addCh[h] \in Seq(Lan) /\ addCh[h] # <<>>
        /\ addCh' = [addCh EXCEPT ![h] = Tail(@)]
        /\ deviceList' = [deviceList EXCEPT ![h] =
              [r \in Resource |-> IF r \in ResOf(Head(addCh[h])) THEN Head(addCh[h]) ELSE @[r]]]
        /\ UNCHANGED plugins
    BY <1>4 DEF DiscoverAdd, TypeOK, ListerTypeOK
  <2>2. CASE k # h
    BY <2>1, <2>2 DEF TypeOK, ListerTypeOK
  <2>3. CASE k = h
    <3>1. CASE l \in InMap(plugins, k)'
      BY <2>1, <3>1
    <3>2. CASE l \in InChan(addCh, k)'
      <4>1. addCh'[k] = Tail(addCh[k])
        BY <2>1, <2>3 DEF TypeOK, ListerTypeOK
      <4>2. QED  BY <2>1, <2>3, <3>2, <4>1, TailFacts
    <3>3. CASE l \in InMap(deviceList, k)'
      <4>1. Head(addCh[k]) \in InChan(addCh, k)
        BY <2>1, <2>3, TailFacts
      <4>2. PICK r \in Resource : l = deviceList'[k][r] /\ l # None
        BY <3>3
      <4>3. l = Head(addCh[k]) \/ l = deviceList[k][r]
        BY <2>1, <2>3, <4>2 DEF TypeOK, ListerTypeOK
      <4>4. QED  BY <4>1, <4>2, <4>3
    <3>4. QED  BY <3>1, <3>2, <3>3
  <2>4. QED  BY <2>2, <2>3
<1>5. ASSUME NEW h \in Host, DiscoverRemove(h)
      PROVE  l \in Known(k)
  BY <1>5 DEF DiscoverRemove, TypeOK, ListerTypeOK
<1>6. ASSUME NEW h \in Host, NEW r \in Resource, StartPlugin(h, r)
      PROVE  l \in Known(k)
  BY <1>6 DEF StartPlugin, TypeOK, ListerTypeOK
<1>7. ASSUME NEW h \in Host, EndRound(h)
      PROVE  l \in Known(k)
  BY <1>7 DEF EndRound, TypeOK, ListerTypeOK
<1>8. ASSUME NEW h \in Host, ManagerReceive(h)
      PROVE  l \in Known(k)
  BY <1>8 DEF ManagerReceive
<1>9. QED
  BY <1>3, <1>4, <1>5, <1>6, <1>7, <1>8 DEF ListerStep, Discover, Manager, Restart, PanicOnNil, NewProcess

\* SendAdd makes its own host know what it sends, and nothing else.
LEMMA KnownSend ==
    ASSUME TypeOK, NEW h \in Host, SendAdd(h), NEW k \in Host, NEW l \in Known(k)'
    PROVE  l \in Known(k) \/ (k = h /\ worker[k].pc = "sendAdd" /\ l = worker[k].lan)
<1> USE DEF Known, InMap, InChan
<1>1. /\ worker[h].pc = "sendAdd" /\ worker[h].lan \in Lan
      /\ addCh' = [addCh EXCEPT ![h] = Append(@, worker[h].lan)]
      /\ UNCHANGED <<deviceList, plugins>>
  BY DEF SendAdd, AddChanSend, TypeOK
<1>2. CASE l \in InMap(deviceList, k)' \/ l \in InMap(plugins, k)'
  BY <1>1, <1>2
<1>3. CASE l \in InChan(addCh, k)'
  <2>1. PICK i \in 1..Len(addCh'[k]) : l = addCh'[k][i]
    BY <1>3
  <2>2. CASE k = h
    <3>1. addCh[k] \in Seq(Lan) /\ addCh'[k] = Append(addCh[k], worker[k].lan)
      BY <1>1, <2>2 DEF TypeOK, ListerTypeOK
    <3>2. l = worker[k].lan \/ l \in InChan(addCh, k)
      BY <1>1, <2>1, <2>2, <3>1, InChanAppend
    <3>3. QED  BY <1>1, <2>2, <3>2
  <2>3. CASE k # h
    BY <1>1, <2>1, <2>3 DEF TypeOK, ListerTypeOK
  <2>4. QED  BY <2>2, <2>3
<1>4. QED  BY <1>2, <1>3

\* Every other step leaves alone what the hosts know.
LEMMA KnownSame ==
    ASSUME TypeOK, [Next]_vars, NEW k \in Host
    PROVE  \/ Known(k)' = Known(k)
           \/ \E h \in Host : Forgets(h) \/ SendAdd(h)
<1>1. CASE UNCHANGED <<addCh, deviceList, plugins>>
  BY <1>1 DEF Known, InMap, InChan
<1>2. CASE UNCHANGED vars
  BY <1>1, <1>2 DEF vars, listerVars
<1>3. CASE Next
  <2>1. CASE UNCHANGED listerVars
    BY <1>1, <2>1 DEF listerVars
  <2>2. CASE \E h \in Host : SendRemove(h)
    BY <1>1, <2>2 DEF SendRemove
  <2>3. QED
    BY <1>3, <2>1, <2>2, NextCases DEF Forgets, Create, Delete, CacheSync, Resync,
       Reconcile, Cleanup, UpdateOK, UpdateAnswerLost, UpdateFails, Allocate
<1>4. QED  BY <1>2, <1>3

\* Only SendAdd makes the device-plugin side know a LAN that it did not know.
LEMMA KnownStep ==
    ASSUME TypeOK, [Next]_vars, NEW k \in Host, NEW l \in Known(k)'
    PROVE  l \in Known(k) \/ (worker[k].pc = "sendAdd" /\ l = worker[k].lan)
  BY KnownSame, KnownShrinks, KnownSend

\* A namespace appears only for a LAN that one of the host's plugins holds.
LEMMA NetnsStep ==
    ASSUME TypeOK, [Next]_vars, NEW k \in Host, NEW ns \in netns'[k]
    PROVE  ns \in netns[k] \/ \E l \in Known(k) : l \in Lan /\ nsOf[l] = ns
<1>1. CASE UNCHANGED netns
  BY <1>1
<1>2. ASSUME NEW h \in Host, Cleanup(h)
      PROVE  ns \in netns[k]
  BY <1>2 DEF Cleanup, TypeOK
<1>3. ASSUME NEW h \in Host, NEW r \in Resource, Allocate(h, r)
      PROVE  ns \in netns[k] \/ \E l \in Known(k) : l \in Lan /\ nsOf[l] = ns
  <2>1. plugins[h][r] \in InMap(plugins, h) /\ plugins[h][r] \in Lan
    BY <1>3 DEF Allocate, InMap, TypeOK, ListerTypeOK, Optional
  <2>2. netns' = [netns EXCEPT ![h] = @ \union {nsOf[plugins[h][r]]}]
    BY <1>3 DEF Allocate
  <2>3. QED  BY <2>1, <2>2 DEF Known, TypeOK
<1>4. CASE UNCHANGED vars
  BY <1>1, <1>4 DEF vars, daemonVars
<1>5. CASE Next
  BY <1>1, <1>2, <1>3, <1>5, NextCases DEF Create, Delete, CacheSync, Resync, Reconcile,
     SendRemove, SendAdd, UpdateOK, UpdateAnswerLost, UpdateFails, Restart, PanicOnNil,
     NewProcess, ListerStep, daemonVars
<1>6. QED  BY <1>4, <1>5

-----------------------------------------------------------------------------
(* The invariant is inductive. *)

LEMMA SafeInit == Init => CopiesAreSafe /\ EveryTraceAnswered
<1> SUFFICES ASSUME Init PROVE CopiesAreSafe /\ EveryTraceAnswered
  OBVIOUS
<1> USE DEF Init, ApiInit, ListerInit
<1>1. FinalizersInUse /\ CleanedIsEnded
  BY DEF FinalizersInUse, CleanedIsEnded
<1>2. \A h \in Host : CacheSafe(h) /\ WorkerSafe(h)
  BY DEF CacheSafe, WorkerSafe, NoView, IdleWorker
<1>3. ASSUME NEW h \in Host
      PROVE  Known(h) = {} /\ netns[h] = {}
  <2>1. InChan(addCh, h) = {}
    BY DEF InChan
  <2>2. InMap(deviceList, h) = {} /\ InMap(plugins, h) = {}
    BY DEF InMap, NoDevices
  <2>3. QED  BY <2>1, <2>2 DEF Known
<1>4. QED  BY <1>1, <1>2, <1>3 DEF CopiesAreSafe, EveryTraceAnswered

LEMMA FinalizersInUseNext ==
    ASSUME TypeOK, CopiesAreSafe, [Next]_vars
    PROVE  FinalizersInUse'
<1> USE DEF FinalizersInUse
<1>1. FinalizersInUse
  BY DEF CopiesAreSafe
<1>2. CASE \E k \in Lan : Create(k) \/ Delete(k)
  BY <1>1, <1>2 DEF Create, Delete, UserCreate, UserDelete, TypeOK
<1>3. CASE \E h \in Host : /\ worker[h].lan \in Lan
                           /\ AddsOwn(h, worker[h].lan) \/ DropsOwn(h, worker[h].lan)
  BY <1>1, <1>3 DEF AddsOwn, DropsOwn, TypeOK
<1>4. CASE UNCHANGED apiVars
  BY <1>1, <1>4 DEF apiVars
<1>5. QED  BY <1>2, <1>3, <1>4, ApiStep

LEMMA CleanedIsEndedNext ==
    ASSUME TypeOK, CopiesAreSafe, [Next]_vars
    PROVE  CleanedIsEnded'
<1> SUFFICES ASSUME NEW h \in Host, NEW l \in cleaned'[h] PROVE Ended(l)'
  BY DEF CleanedIsEnded
<1>1. \A k \in Host : WorkerSafe(k)
  BY DEF CopiesAreSafe
<1>2. CASE l \in cleaned[h]
  BY <1>2, EndedStable DEF CopiesAreSafe, CleanedIsEnded, TypeOK
<1>3. CASE l \notin cleaned[h]
  <2>1. PICK k \in Host : /\ Cleanup(k)
                          /\ worker[k].lan \in Lan
                          /\ cleaned' = [cleaned EXCEPT ![k] = @ \union {worker[k].lan}]
    BY <1>3, CleanedStep
  <2>2. l = worker[k].lan
    BY <1>3, <2>1 DEF TypeOK
  <2>3. Ended(l)
    BY <1>1, <2>1, <2>2 DEF Cleanup, WorkerSafe
  <2>4. QED  BY <2>1, <2>2, <2>3, EndedStable
<1>4. QED  BY <1>2, <1>3

\* A cache changes to what is stored, or not at all.
LEMMA CacheStep ==
    ASSUME TypeOK, [Next]_vars, NEW h \in Host, NEW l \in Lan
    PROVE  \/ cache'[h][l] = cache[h][l]
           \/ cache'[h][l] = ViewOf(l)
<1>1. CASE UNCHANGED vars
  BY <1>1 DEF vars, daemonVars
<1>2. ASSUME NEW k \in Host, NEW n \in Name, CacheSync(k, n)
      PROVE  cache'[h][l] = cache[h][l] \/ cache'[h][l] = ViewOf(l)
  BY <1>2 DEF CacheSync, TypeOK
<1>3. ASSUME NEW k \in Host, Restart(k) \/ PanicOnNil(k)
      PROVE  cache'[h][l] = cache[h][l] \/ cache'[h][l] = ViewOf(l)
  <2>1. cache' = [cache EXCEPT ![k] = [m \in Lan |-> ViewOf(m)]]
    BY <1>3 DEF Restart, PanicOnNil, NewProcess
  <2>2. QED  BY <2>1 DEF TypeOK
<1>4. CASE Next
  BY <1>2, <1>3, <1>4, NextCases DEF Create, Delete, Resync, Reconcile, Cleanup, SendRemove,
     SendAdd, UpdateOK, UpdateAnswerLost, UpdateFails, Allocate, ListerStep, daemonVars
<1>5. QED  BY <1>1, <1>4

LEMMA CacheSafeNext ==
    ASSUME TypeOK, CopiesAreSafe, [Next]_vars, NEW h \in Host
    PROVE  CacheSafe(h)'
<1> SUFFICES ASSUME NEW l \in Lan
             PROVE  /\ cache'[h][l].phase = "deleting" => Ended(l)'
                    /\ h \in cache'[h][l].fins => Answered(h, l)'
  BY DEF CacheSafe
<1>1. CacheSafe(h)
  BY DEF CopiesAreSafe
<1>2. CASE cache'[h][l] = cache[h][l]
  BY <1>1, <1>2, EndedStable, AnsweredStable DEF CacheSafe
<1>3. CASE cache'[h][l] = ViewOf(l)
  <2>1. cache'[h][l].phase = phase[l] /\ cache'[h][l].fins = fins[l]
    BY <1>3 DEF ViewOf
  <2>2. phase[l] = "deleting" => Ended(l)
    BY DEF Ended
  <2>3. h \in fins[l] => Answered(h, l)
    BY DEF Answered
  <2>4. QED  BY <2>1, <2>2, <2>3, EndedStable, AnsweredStable
<1>4. QED  BY <1>2, <1>3, CacheStep

\* A worker that has just read the object has a copy as safe as its cache.
LEMMA ReconcileSafe ==
    ASSUME TypeOK, CopiesAreSafe, [Next]_vars, NEW h \in Host, NEW l \in Lan,
           Exists(cache[h][l].phase), ~NothingToDo(h, cache[h][l]),
           worker'[h] = [pc |-> Plan(h, cache[h][l]), lan |-> l, seen |-> cache[h][l]]
    PROVE  WorkerSafe(h)'
<1>1. CacheSafe(h)
  BY DEF CopiesAreSafe
<1>2. CASE cache[h][l].phase = "live" /\ h \in cache[h][l].fins
  <2>1. Answered(h, l)'
    BY <1>1, <1>2, AnsweredStable DEF CacheSafe
  <2>2. QED  BY <1>2, <2>1 DEF WorkerSafe, Plan, Answered
<1>3. CASE cache[h][l].phase = "live" /\ h \notin cache[h][l].fins
  BY <1>3 DEF WorkerSafe, Plan
<1>4. CASE cache[h][l].phase = "deleting"
  <2>1. Ended(l)'
    BY <1>1, <1>4, EndedStable DEF CacheSafe
  <2>2. QED  BY <1>4, <2>1 DEF WorkerSafe, Plan, Ended, NothingToDo
<1>5. QED  BY <1>2, <1>3, <1>4 DEF Exists

\* The worker stays where it is, becomes idle, reads an object, or takes one of
\* the two steps of the deletion branch.
LEMMA WorkerStepCases ==
    ASSUME TypeOK, [Next]_vars, NEW h \in Host
    PROVE  \/ worker'[h] = worker[h]
           \/ worker'[h] = IdleWorker
           \/ \E l \in Lan : /\ Exists(cache[h][l].phase)
                             /\ ~NothingToDo(h, cache[h][l])
                             /\ worker'[h] = [pc |-> Plan(h, cache[h][l]), lan |-> l,
                                              seen |-> cache[h][l]]
           \/ Cleanup(h)
           \/ SendRemove(h)
<1> DEFINE P == \/ worker'[h] = worker[h]
                \/ worker'[h] = IdleWorker
                \/ \E l \in Lan : /\ Exists(cache[h][l].phase)
                                  /\ ~NothingToDo(h, cache[h][l])
                                  /\ worker'[h] = [pc |-> Plan(h, cache[h][l]), lan |-> l,
                                                   seen |-> cache[h][l]]
                \/ Cleanup(h)
                \/ SendRemove(h)
<1>1. CASE UNCHANGED worker
  BY <1>1
<1>2. ASSUME NEW k \in Host, Return(k) \/ worker' = [worker EXCEPT ![k] = IdleWorker]
      PROVE  worker'[h] = worker[h] \/ worker'[h] = IdleWorker
  BY <1>2 DEF Return, TypeOK
<1>3. ASSUME NEW k \in Host, NEW n \in Name, Reconcile(k, n)
      PROVE  P
  <2>1. CASE UNCHANGED worker
    BY <2>1
  <2>2. ASSUME NEW l \in Lan, Exists(cache[k][l].phase), ~NothingToDo(k, cache[k][l]),
               worker' = [worker EXCEPT ![k] =
                    [pc |-> Plan(k, cache[k][l]), lan |-> l, seen |-> cache[k][l]]]
        PROVE  P
    BY <2>2 DEF TypeOK
  <2>3. QED  BY <1>3, <2>1, <2>2 DEF Reconcile, Named
<1>4. ASSUME NEW k \in Host, Cleanup(k) \/ SendRemove(k)
      PROVE  P
  <2>1. CASE k = h
    BY <1>4, <2>1
  <2>2. CASE k # h
    BY <1>4, <2>2 DEF Cleanup, SendRemove, Goto, TypeOK
  <2>3. QED  BY <2>1, <2>2
<1>5. ASSUME NEW k \in Host, SendAdd(k) \/ UpdateOK(k) \/ UpdateFails(k) \/ UpdateAnswerLost(k)
      PROVE  P
  BY <1>2, <1>5 DEF SendAdd, UpdateOK, UpdateFails, UpdateAnswerLost
<1>6. ASSUME NEW k \in Host, Restart(k) \/ PanicOnNil(k)
      PROVE  P
  BY <1>2, <1>6 DEF Restart, PanicOnNil, NewProcess
<1>7. CASE UNCHANGED vars
  BY <1>1, <1>7 DEF vars, daemonVars
<1>8. CASE Next
  <2>1. UNCHANGED worker => P
    OBVIOUS
  <2> HIDE DEF P
  <2>2. ASSUME NEW l \in Lan, Create(l) \/ Delete(l)
        PROVE  UNCHANGED worker
    BY <2>2 DEF Create, Delete, daemonVars
  <2>3. ASSUME NEW k \in Host, NEW n \in Name, CacheSync(k, n) \/ Resync(k, n)
        PROVE  UNCHANGED worker
    BY <2>3 DEF CacheSync, Resync
  <2>4. ASSUME NEW k \in Host, (\E r \in Resource : Allocate(k, r)) \/ ListerStep(k)
        PROVE  UNCHANGED worker
    BY <2>4 DEF Allocate, ListerStep, daemonVars
  <2>5. P  BY <1>3, <1>4, <1>5, <1>6, <1>8, <2>1, <2>2, <2>3, <2>4, NextCases
  <2>6. QED  BY <2>5 DEF P
<1>9. P
  BY <1>7, <1>8
<1>10. QED  BY <1>9

LEMMA WorkerSafeNext ==
    ASSUME TypeOK, CopiesAreSafe, [Next]_vars, NEW h \in Host
    PROVE  WorkerSafe(h)'
<1>1. WorkerSafe(h)
  BY DEF CopiesAreSafe
<1>2. cleaned[h] \subseteq cleaned'[h]
  <2>1. ASSUME NEW k \in Host, NEW m \in Lan, cleaned' = [cleaned EXCEPT ![k] = @ \union {m}]
        PROVE  cleaned[h] \subseteq cleaned'[h]
    BY <2>1 DEF TypeOK
  <2>2. QED  BY <2>1, CleanedStep
<1>3. worker[h].pc # "idle" => worker[h].lan \in Lan
  BY DEF TypeOK
<1>4. CASE worker'[h] = worker[h]
  <2>1. worker[h].pc = "sendAdd" => Answered(h, worker[h].lan)'
    <3>1. CASE worker[h].pc = "sendAdd"
      <4>1. Answered(h, worker[h].lan)
        BY <1>1, <3>1 DEF WorkerSafe
      <4>2. worker[h].lan \in Lan
        BY <1>3, <3>1
      <4> DEFINE l == worker[h].lan
      <4>3. PICK m \in Lan : m = l
        BY <4>2
      <4>4. Answered(h, m)'
        BY <4>1, <4>3, AnsweredStable
      <4>5. QED  BY <1>4, <4>3, <4>4 DEF Answered
    <3>2. QED  BY <3>1
  <2>2. worker[h].pc \in {"cleanup", "sendRemove", "delFin"} => Ended(worker[h].lan)'
    <3>1. CASE worker[h].pc \in {"cleanup", "sendRemove", "delFin"}
      <4>1. Ended(worker[h].lan)
        BY <1>1, <3>1 DEF WorkerSafe
      <4>2. PICK m \in Lan : m = worker[h].lan
        BY <1>3, <3>1
      <4>3. Ended(m)'
        BY <4>1, <4>2, EndedStable
      <4>4. QED  BY <1>4, <4>2, <4>3 DEF Ended
    <3>2. QED  BY <3>1
  <2>3. QED  BY <1>1, <1>2, <1>4, <2>1, <2>2 DEF WorkerSafe, Answered, Ended
<1>5. CASE worker'[h] = IdleWorker
  BY <1>5 DEF WorkerSafe, IdleWorker
<1>6. ASSUME NEW l \in Lan, Exists(cache[h][l].phase), ~NothingToDo(h, cache[h][l]),
             worker'[h] = [pc |-> Plan(h, cache[h][l]), lan |-> l, seen |-> cache[h][l]]
      PROVE  WorkerSafe(h)'
  BY <1>6, ReconcileSafe
<1>7. CASE Cleanup(h) \/ SendRemove(h)
  <2>1. PICK m \in Lan : m = worker[h].lan
    BY <1>3, <1>7 DEF Cleanup, SendRemove
  <2>2. Ended(m) /\ worker[h].seen.phase = "deleting" /\ h \in worker[h].seen.fins
    BY <1>1, <1>7, <2>1 DEF Cleanup, SendRemove, WorkerSafe
  <2>3. Ended(m)'
    BY <2>2, EndedStable
  <2>4. /\ worker'[h].pc \in {"sendRemove", "delFin"}
        /\ worker'[h].lan = worker[h].lan
        /\ worker'[h].seen = worker[h].seen
    <3>1. worker[h] \in [pc : PC, lan : Optional, seen : View]
      BY DEF TypeOK
    <3>2. ASSUME NEW pc, Goto(h, pc)
          PROVE  /\ worker'[h].pc = pc
                 /\ worker'[h].lan = worker[h].lan
                 /\ worker'[h].seen = worker[h].seen
      <4>1. worker'[h] = [worker[h] EXCEPT !.pc = pc]
        BY <3>2 DEF Goto, TypeOK
      <4>2. QED  BY <3>1, <4>1
    <3>3. QED  BY <1>7, <3>2 DEF Cleanup, SendRemove
  <2>5. m \in cleaned'[h]
    BY <1>1, <1>2, <1>7, <2>1 DEF Cleanup, SendRemove, WorkerSafe, TypeOK
  <2>6. worker'[h].lan = m /\ worker'[h].seen.phase = "deleting" /\ h \in worker'[h].seen.fins
    BY <2>1, <2>2, <2>4 DEF TypeOK
  <2>7. QED  BY <2>3, <2>4, <2>5, <2>6 DEF WorkerSafe, Ended
<1>8. QED  BY <1>4, <1>5, <1>6, <1>7, WorkerStepCases

LEMMA EveryTraceAnsweredNext ==
    ASSUME IInv, [Next]_vars
    PROVE  EveryTraceAnswered'
<1> USE DEF IInv
<1>1. ASSUME NEW h \in Host, NEW l \in Known(h)'
      PROVE  Answered(h, l)'
  <2>1. CASE l \in Known(h)
    <3>1. Answered(h, l) /\ l \in Lan
      BY <2>1 DEF EveryTraceAnswered, Known, InMap, InChan, TypeOK, ListerTypeOK, Optional
    <3>2. QED  BY <3>1, AnsweredStable
  <2>2. CASE worker[h].pc = "sendAdd" /\ l = worker[h].lan
    <3>1. Answered(h, l) /\ l \in Lan
      BY <2>2 DEF CopiesAreSafe, WorkerSafe, TypeOK
    <3>2. QED  BY <3>1, AnsweredStable
  <2>3. QED  BY <2>1, <2>2, KnownStep
<1>2. ASSUME NEW h \in Host, NEW ns \in netns'[h]
      PROVE  \E l \in Lan : nsOf[l] = ns /\ Answered(h, l)'
  <2>1. \E l \in Lan : nsOf[l] = ns /\ Answered(h, l)
    BY NetnsStep DEF EveryTraceAnswered
  <2>2. QED  BY <2>1, AnsweredStable
<1>3. QED  BY <1>1, <1>2 DEF EveryTraceAnswered

LEMMA IInvInit == Init => IInv
  BY TypeInit, SafeInit DEF IInv

LEMMA IInvNext == IInv /\ [Next]_vars => IInv'
<1> SUFFICES ASSUME IInv, [Next]_vars PROVE IInv'
  OBVIOUS
<1>1. TypeOK /\ CopiesAreSafe
  BY DEF IInv
<1>2. TypeOK'
  BY <1>1, TypeNext
<1>3. CopiesAreSafe'
  BY <1>1, FinalizersInUseNext, CleanedIsEndedNext, CacheSafeNext, WorkerSafeNext DEF CopiesAreSafe
<1>4. EveryTraceAnswered'
  BY EveryTraceAnsweredNext
<1>5. QED  BY <1>2, <1>3, <1>4 DEF IInv

-----------------------------------------------------------------------------
(* The theorems. *)

LEMMA Invariance == Spec => []IInv
  BY IInvInit, IInvNext, PTL DEF Spec

\* Every variable keeps its type; the channels keep within their capacity.
THEOREM TypeCorrect == Spec => []TypeOK
<1>1. IInv => TypeOK
  BY DEF IInv
<1>2. QED  BY <1>1, Invariance, PTL

\* Old copies of an object stay harmless, whatever the order of the watch, the
\* queue, the Updates of other hosts, and crashes.
THEOREM CopiesSafe == Spec => []CopiesAreSafe
<1>1. IInv => CopiesAreSafe
  BY DEF IInv
<1>2. QED  BY <1>1, Invariance, PTL

\* Whatever a host knows or has made for a LAN, a finalizer of that host is on
\* some object for it, or the host has run interfaces.Remove.
THEOREM TracesAnswered == Spec => []EveryTraceAnswered
<1>1. IInv => EveryTraceAnswered
  BY DEF IInv
<1>2. QED  BY <1>1, Invariance, PTL

\* A LAN object never goes before every host that advertised it has cleaned up.
THEOREM NobodySkipped == Spec => []NoHostSkipped
<1>1. IInv => NoHostSkipped
  <2> SUFFICES ASSUME IInv, NEW l \in Lan, phase[l] = "gone", NEW h \in Host,
                      l \in Known(h) \/ (SoleUser(l) /\ nsOf[l] \in netns[h])
               PROVE  l \in cleaned[h]
    BY DEF NoHostSkipped
  <2>1. fins[l] = {}
    BY DEF IInv, CopiesAreSafe, FinalizersInUse
  <2>2. Answered(h, l)
    <3>1. CASE l \in Known(h)
      BY <3>1 DEF IInv, EveryTraceAnswered
    <3>2. CASE SoleUser(l) /\ nsOf[l] \in netns[h]
      <4>1. PICK m \in Lan : nsOf[m] = nsOf[l] /\ Answered(h, m)
        BY <3>2 DEF IInv, EveryTraceAnswered
      <4>2. m = l
        BY <3>2, <4>1 DEF SoleUser
      <4>3. QED  BY <4>1, <4>2
    <3>3. QED  BY <3>1, <3>2
  <2>3. QED  BY <2>1, <2>2 DEF Answered
<1>2. QED  BY <1>1, Invariance, PTL

\* A finalizer leaves the list only under deletion and after its own host has
\* removed the namespace.
THEOREM ReleasesAreOrderly == Spec => ReleaseAfterCleanup
<1>1. IInv /\ [Next]_vars =>
        [\A l \in Lan, h \in Host :
            h \in fins[l] \ fins'[l] => phase[l] = "deleting" /\ l \in cleaned[h]]_vars
  <2> SUFFICES ASSUME IInv, [Next]_vars, NEW l \in Lan, NEW h \in Host, h \in fins[l] \ fins'[l]
               PROVE  phase[l] = "deleting" /\ l \in cleaned[h]
    OBVIOUS
  <2>1. TypeOK /\ CopiesAreSafe
    BY DEF IInv
  <2>2. PICK k \in Host : /\ AddsOwn(k, worker[k].lan) \/ DropsOwn(k, worker[k].lan)
                          /\ worker[k].lan \in Lan
    BY <2>1, ApiStep DEF apiVars
  <2>3. QED  BY <2>1, <2>2 DEF AddsOwn, DropsOwn, TypeOK
<1>2. QED  BY <1>1, Invariance, PTL DEF Spec, ReleaseAfterCleanup

\* No host puts a finalizer on an object that is being deleted.
THEOREM NobodyHoldsLate == Spec => NoHoldAfterDelete
<1>1. IInv /\ [Next]_vars =>
        [\A l \in Lan : phase[l] = "deleting" => fins'[l] \subseteq fins[l]]_vars
  <2> SUFFICES ASSUME IInv, [Next]_vars, NEW l \in Lan, phase[l] = "deleting"
               PROVE  fins'[l] \subseteq fins[l]
    OBVIOUS
  <2>1. TypeOK /\ CopiesAreSafe
    BY DEF IInv
  <2>2. CASE UNCHANGED fins
    BY <2>2
  <2>3. CASE \E k \in Host : /\ AddsOwn(k, worker[k].lan) \/ DropsOwn(k, worker[k].lan)
                            /\ worker[k].lan \in Lan
    BY <2>1, <2>3 DEF AddsOwn, DropsOwn, TypeOK
  <2>4. QED  BY <2>1, <2>2, <2>3, ApiStep DEF apiVars
<1>2. QED  BY <1>1, Invariance, PTL DEF Spec, NoHoldAfterDelete

-----------------------------------------------------------------------------
(* Names that are used again. *)

\* There is one object of a name at a time, stored as well as in a cache.
OneStored ==
    \A l, m \in Lan :
        nameOf[l] = nameOf[m] /\ Exists(phase[l]) /\ Exists(phase[m]) => l = m
OneCached(h) ==
    \A l, m \in Lan :
        nameOf[l] = nameOf[m] /\ Exists(cache[h][l].phase) /\ Exists(cache[h][m].phase)
            => l = m

\* A host that has sent a live LAN to its lister, or is to, has it in its cache.
Told(h, l) == l \in Known(h) \/ (worker[h].pc = "sendAdd" /\ worker[h].lan = l)
FreshCopies(h) == \A l \in Lan : phase[l] = "live" /\ Told(h, l) => cache[h][l].phase = "live"

\* A worker that cleans up after an object has not been told of a later one.
LateCleanup(h) ==
    worker[h].pc = "cleanup" =>
        \A l \in Lan :
            l # worker[h].lan /\ nameOf[l] = nameOf[worker[h].lan] /\ phase[l] = "live"
                => ~Told(h, l)

CopiesAreFresh ==
    /\ OneStored
    /\ \A h \in Host : OneCached(h) /\ FreshCopies(h) /\ LateCleanup(h)

LEMMA FreshInit == Init => CopiesAreFresh
<1> SUFFICES ASSUME Init PROVE CopiesAreFresh
  OBVIOUS
<1>1. \A l \in Lan : phase[l] = "absent"
  BY DEF Init, ApiInit
<1>2. \A h \in Host : worker[h].pc = "idle" /\ \A l \in Lan : cache[h][l].phase = "absent"
  BY DEF Init, IdleWorker, NoView
<1>3. QED  BY <1>1, <1>2 DEF CopiesAreFresh, OneStored, OneCached, FreshCopies, LateCleanup, Exists

\* An object that is not live becomes so only when it is created.
LEMMA BecomesLive ==
    ASSUME TypeOK, CopiesAreSafe, [Next]_vars, NEW l \in Lan, phase'[l] = "live"
    PROVE  \/ phase[l] = "live"
           \/ phase[l] = "absent" /\ UNCHANGED <<listerVars, daemonVars>>
<1>1. ASSUME NEW k \in Lan, Create(k) \/ Delete(k)
      PROVE  phase[l] = "live" \/ (phase[l] = "absent" /\ UNCHANGED <<listerVars, daemonVars>>)
  BY <1>1 DEF Create, Delete, UserCreate, UserDelete, TypeOK
<1>2. CASE \E h \in Host : /\ worker[h].lan \in Lan
                           /\ AddsOwn(h, worker[h].lan) \/ DropsOwn(h, worker[h].lan)
  BY <1>2 DEF AddsOwn, DropsOwn, TypeOK
<1>3. CASE UNCHANGED apiVars
  BY <1>3 DEF apiVars
<1>4. QED  BY <1>1, <1>2, <1>3, ApiStep

\* No host has been told of an object that does not exist yet.
LEMMA ToldIsCreated ==
    ASSUME IInv, NEW h \in Host, NEW l \in Lan, Told(h, l)
    PROVE  phase[l] # "absent"
<1>1. Answered(h, l)
  BY DEF IInv, EveryTraceAnswered, CopiesAreSafe, WorkerSafe, Told
<1>2. CASE h \in fins[l]
  BY <1>2 DEF IInv, CopiesAreSafe, FinalizersInUse
<1>3. CASE l \in cleaned[h]
  BY <1>3 DEF IInv, CopiesAreSafe, CleanedIsEnded, Ended
<1>4. QED  BY <1>1, <1>2, <1>3 DEF Answered

\* A host is told of a LAN by what its worker reads in its cache.
LEMMA ToldStep ==
    ASSUME IInv, [Next]_vars, NEW h \in Host, NEW l \in Lan, Told(h, l)'
    PROVE  \/ Told(h, l)
           \/ /\ cache[h][l].phase = "live"
              /\ worker'[h].pc = "sendAdd"
<1>1. TypeOK
  BY DEF IInv
<1>2. CASE l \in Known(h)'
  BY <1>1, <1>2, KnownStep DEF Told
<1>3. CASE worker'[h].pc = "sendAdd" /\ worker'[h].lan = l
  <2>1. CASE worker'[h] = worker[h]
    BY <1>3, <2>1 DEF Told
  <2>2. CASE worker'[h] = IdleWorker
    BY <1>3, <2>2 DEF IdleWorker
  <2>3. ASSUME NEW m \in Lan, Exists(cache[h][m].phase),
               worker'[h] = [pc |-> Plan(h, cache[h][m]), lan |-> m, seen |-> cache[h][m]]
        PROVE  cache[h][l].phase = "live"
    BY <1>3, <2>3 DEF Plan
  <2>4. CASE Cleanup(h) \/ SendRemove(h)
    BY <1>1, <1>3, <2>4 DEF Cleanup, SendRemove, Goto, TypeOK
  <2>5. QED  BY <1>1, <1>3, <2>1, <2>2, <2>3, <2>4, WorkerStepCases
<1>4. QED  BY <1>2, <1>3 DEF Told

\* The LANs that are live after a step and known of were live before.
LEMMA ToldWasLive ==
    ASSUME IInv, [Next]_vars, NEW h \in Host, NEW l \in Lan, phase'[l] = "live", Told(h, l)'
    PROVE  phase[l] = "live"
<1>1. CASE phase[l] = "absent" /\ UNCHANGED <<listerVars, daemonVars>>
  <2>1. Told(h, l)
    BY <1>1 DEF Told, Known, InMap, InChan, listerVars, daemonVars
  <2>2. QED  BY <1>1, <2>1, ToldIsCreated
<1>2. QED  BY <1>1, BecomesLive DEF IInv

LEMMA OneStoredNext ==
    ASSUME TypeOK, CopiesAreSafe, OneStored, [Next]_vars
    PROVE  OneStored'
<1> USE DEF Exists
<1>1. ASSUME NEW k \in Lan, Create(k)
      PROVE  OneStored'
  BY <1>1 DEF OneStored, Create, UserCreate, TypeOK
<1>2. ASSUME \A l \in Lan : Exists(phase'[l]) => Exists(phase[l])
      PROVE  OneStored'
  BY <1>2 DEF OneStored
<1>3. ASSUME NEW k \in Lan, Delete(k)
      PROVE  \A l \in Lan : Exists(phase'[l]) => Exists(phase[l])
  BY <1>3 DEF Delete, UserDelete, TypeOK
<1>4. CASE \E h \in Host : /\ worker[h].lan \in Lan
                           /\ AddsOwn(h, worker[h].lan) \/ DropsOwn(h, worker[h].lan)
  <2>1. \A l \in Lan : Exists(phase'[l]) => Exists(phase[l])
    BY <1>4 DEF AddsOwn, DropsOwn, TypeOK
  <2>2. QED  BY <1>2, <2>1
<1>5. CASE UNCHANGED apiVars
  BY <1>2, <1>5 DEF apiVars
<1>6. QED  BY <1>1, <1>2, <1>3, <1>4, <1>5, ApiStep

\* The copies of all objects of a name are renewed together.
LEMMA CacheByName ==
    ASSUME TypeOK, [Next]_vars, NEW h \in Host, NEW l \in Lan, NEW m \in Lan,
           nameOf[l] = nameOf[m]
    PROVE  \/ cache'[h][l] = cache[h][l] /\ cache'[h][m] = cache[h][m]
           \/ cache'[h][l] = ViewOf(l) /\ cache'[h][m] = ViewOf(m)
<1> DEFINE P == \/ cache'[h][l] = cache[h][l] /\ cache'[h][m] = cache[h][m]
                \/ cache'[h][l] = ViewOf(l) /\ cache'[h][m] = ViewOf(m)
<1>1. CASE UNCHANGED vars
  BY <1>1 DEF vars, daemonVars
<1>2. ASSUME NEW k \in Host, NEW n \in Name, CacheSync(k, n)
      PROVE  P
  BY <1>2 DEF CacheSync, Named, TypeOK
<1>3. ASSUME NEW k \in Host, Restart(k) \/ PanicOnNil(k)
      PROVE  P
  <2>1. cache' = [cache EXCEPT ![k] = [i \in Lan |-> ViewOf(i)]]
    BY <1>3 DEF Restart, PanicOnNil, NewProcess
  <2>2. QED  BY <2>1 DEF TypeOK
<1>4. CASE Next
  BY <1>2, <1>3, <1>4, NextCases DEF Create, Delete, Resync, Reconcile, Cleanup, SendRemove,
     SendAdd, UpdateOK, UpdateAnswerLost, UpdateFails, Allocate, ListerStep, daemonVars
<1>5. QED  BY <1>1, <1>4

LEMMA OneCachedNext ==
    ASSUME TypeOK, CopiesAreFresh, [Next]_vars, NEW h \in Host
    PROVE  OneCached(h)'
<1> SUFFICES ASSUME NEW l \in Lan, NEW m \in Lan, nameOf[l] = nameOf[m],
                    Exists(cache'[h][l].phase), Exists(cache'[h][m].phase)
             PROVE  l = m
  BY DEF OneCached, Exists
<1>1. CASE cache'[h][l] = cache[h][l] /\ cache'[h][m] = cache[h][m]
  BY <1>1 DEF CopiesAreFresh, OneCached
<1>2. CASE cache'[h][l] = ViewOf(l) /\ cache'[h][m] = ViewOf(m)
  BY <1>2 DEF CopiesAreFresh, OneStored, ViewOf
<1>3. QED  BY <1>1, <1>2, CacheByName

LEMMA FreshCopiesNext ==
    ASSUME IInv, CopiesAreFresh, [Next]_vars, NEW h \in Host
    PROVE  FreshCopies(h)'
<1> SUFFICES ASSUME NEW l \in Lan, phase'[l] = "live", Told(h, l)'
             PROVE  cache'[h][l].phase = "live"
  BY DEF FreshCopies
<1>1. phase[l] = "live"
  BY ToldWasLive
<1>2. cache[h][l].phase = "live"
  BY <1>1, ToldStep DEF CopiesAreFresh, FreshCopies
<1>3. cache'[h][l] = cache[h][l] \/ cache'[h][l] = ViewOf(l)
  BY CacheStep DEF IInv
<1>4. QED  BY <1>1, <1>2, <1>3 DEF ViewOf

LEMMA LateCleanupNext ==
    ASSUME IInv, CopiesAreFresh, [Next]_vars, NEW h \in Host
    PROVE  LateCleanup(h)'
<1> SUFFICES ASSUME worker'[h].pc = "cleanup", NEW l \in Lan, l # worker'[h].lan,
                    nameOf[l] = nameOf[worker'[h].lan], phase'[l] = "live", Told(h, l)'
             PROVE  FALSE
  BY DEF LateCleanup
<1>1. TypeOK
  BY DEF IInv
<1>2. phase[l] = "live"
  BY ToldWasLive
<1>3. Told(h, l)
  BY ToldStep
<1>4. CASE worker'[h] = worker[h]
  BY <1>2, <1>3, <1>4 DEF CopiesAreFresh, LateCleanup
<1>5. CASE worker'[h] = IdleWorker
  BY <1>5 DEF IdleWorker
<1>6. ASSUME NEW m \in Lan, Exists(cache[h][m].phase),
             worker'[h] = [pc |-> Plan(h, cache[h][m]), lan |-> m, seen |-> cache[h][m]]
      PROVE  FALSE
  <2>1. cache[h][l].phase = "live"
    BY <1>2, <1>3 DEF CopiesAreFresh, FreshCopies
  <2>2. l = m
    BY <1>6, <2>1 DEF CopiesAreFresh, OneCached, Exists
  <2>3. QED  BY <1>6, <2>2
<1>7. CASE Cleanup(h) \/ SendRemove(h)
  BY <1>1, <1>7 DEF Cleanup, SendRemove, Goto, TypeOK
<1>8. QED  BY <1>1, <1>4, <1>5, <1>6, <1>7, WorkerStepCases

LEMMA FreshNext == IInv /\ CopiesAreFresh /\ [Next]_vars => CopiesAreFresh'
<1> SUFFICES ASSUME IInv, CopiesAreFresh, [Next]_vars PROVE CopiesAreFresh'
  OBVIOUS
<1>1. OneStored'
  BY OneStoredNext DEF IInv, CopiesAreFresh
<1>2. \A h \in Host : OneCached(h)'
  BY OneCachedNext DEF IInv
<1>3. QED  BY <1>1, <1>2, FreshCopiesNext, LateCleanupNext DEF CopiesAreFresh

\* What Cleanup leaves of the namespaces of LANs the host has been told of.
LEMMA CleanupKeeps ==
    ASSUME IInv, CopiesAreFresh, NEW k \in Host, Cleanup(k), NEW h \in Host, NEW l \in Lan,
           phase[l] = "live", SoleName(l), nsOf[l] \in netns[h], l \in Known(h)
    PROVE  nsOf[l] \in netns'[h]
<1>1. TypeOK /\ WorkerSafe(k) /\ LateCleanup(k)
  BY DEF IInv, CopiesAreSafe, CopiesAreFresh
<1>2. PICK m \in Lan : m = worker[k].lan
  BY <1>1 DEF Cleanup, TypeOK
<1>3. m # l
  BY <1>1, <1>2 DEF Cleanup, WorkerSafe, Ended
<1>4. k = h => nsOf[m] # nsOf[l]
  BY <1>1, <1>2, <1>3 DEF Cleanup, LateCleanup, Told, SoleName
<1>5. QED  BY <1>1, <1>2, <1>4 DEF Cleanup, TypeOK

\* Once a host has been told of a live LAN nothing takes the LAN's namespace from
\* it, not even a late cleanup of the object that had its name and its namespace
\* before (dset/main.go:52-58, 75-80).
THEOREM LiveNamespacesStay == Spec => LiveNamespaceKept
<1>1. IInv /\ CopiesAreFresh /\ [Next]_vars =>
        [\A l \in Lan, h \in Host :
            phase[l] = "live" /\ SoleName(l) /\ nsOf[l] \in netns[h] =>
                nsOf[l] \in netns'[h] \/ l \notin Known(h)]_vars
  <2> SUFFICES ASSUME IInv, CopiesAreFresh, [Next]_vars, NEW l \in Lan, NEW h \in Host,
                      phase[l] = "live", SoleName(l), nsOf[l] \in netns[h], l \in Known(h)
               PROVE  nsOf[l] \in netns'[h]
    OBVIOUS
  <2>1. TypeOK
    BY DEF IInv
  <2>2. CASE netns[h] \subseteq netns'[h]
    BY <2>2
  <2>3. ASSUME NEW k \in Host, Cleanup(k)
        PROVE  nsOf[l] \in netns'[h]
    BY <2>3, CleanupKeeps
  <2>4. ASSUME NEW k \in Host, NEW r \in Resource, Allocate(k, r)
        PROVE  netns[h] \subseteq netns'[h]
    BY <2>1, <2>4 DEF Allocate, TypeOK
  <2>5. CASE UNCHANGED netns
    BY <2>5
  <2>6. CASE Next
    BY <2>2, <2>3, <2>4, <2>5, <2>6, NextCases DEF Create, Delete, CacheSync, Resync, Reconcile,
       SendRemove, SendAdd, UpdateOK, UpdateAnswerLost, UpdateFails, Restart, PanicOnNil,
       NewProcess, ListerStep, daemonVars
  <2>7. QED  BY <2>5, <2>6 DEF vars, daemonVars
<1>2. Spec => []CopiesAreFresh
  BY FreshInit, FreshNext, Invariance, PTL DEF Spec
<1>3. QED  BY <1>1, <1>2, Invariance, PTL DEF Spec, LiveNamespaceKept

-----------------------------------------------------------------------------
(* LanDaemon implements LanLifecycle. *)

\* A host whose lister and plugins are left alone knows what it knew.
LEMMA KnownFrame ==
    ASSUME NEW k \in Host,
           addCh'[k] = addCh[k], deviceList'[k] = deviceList[k], plugins'[k] = plugins[k]
    PROVE  Known(k)' = Known(k)
  BY DEF Known, InChan, InMap

\* A step of one host's lister or a new process changes what that host knows only.
LEMMA KnownElsewhere ==
    ASSUME TypeOK, NEW h \in Host, NEW k \in Host, k # h, Forgets(h)
    PROVE  Known(k)' = Known(k)
<1>1. ASSUME ListerReset(h)
      PROVE  addCh'[k] = addCh[k] /\ deviceList'[k] = deviceList[k] /\ plugins'[k] = plugins[k]
  BY <1>1 DEF ListerReset, TypeOK, ListerTypeOK
<1>2. ASSUME Discover(h)
      PROVE  addCh'[k] = addCh[k] /\ deviceList'[k] = deviceList[k] /\ plugins'[k] = plugins[k]
  BY <1>2 DEF Discover, DiscoverAdd, DiscoverRemove, TypeOK, ListerTypeOK
<1>3. ASSUME Manager(h)
      PROVE  addCh'[k] = addCh[k] /\ deviceList'[k] = deviceList[k] /\ plugins'[k] = plugins[k]
  BY <1>3 DEF Manager, ManagerReceive, StartPlugin, EndRound, TypeOK, ListerTypeOK
<1>4. QED  BY <1>1, <1>2, <1>3, KnownFrame DEF Forgets, ListerStep, Restart, PanicOnNil, NewProcess

\* The refinement mapping of offering, as a state function.
Offering == [h \in Host |-> Known(h)]

LEMMA WithdrawStep ==
    ASSUME TypeOK, NEW h \in Host, Forgets(h), UNCHANGED <<phase, fins, cleaned>>
    PROVE  Lifecycle!Withdraw(h)
<1>1. Known(h)' \subseteq Known(h)
  BY KnownShrinks
<1>2. Offering' = [Offering EXCEPT ![h] = Known(h)']
  BY KnownElsewhere DEF Offering
<1>3. Offering' \in {[Offering EXCEPT ![h] = S] : S \in SUBSET Offering[h]}
  BY <1>1, <1>2 DEF Offering
<1>4. QED  BY <1>3 DEF Lifecycle!Withdraw, Offering

LEMMA OfferStep ==
    ASSUME IInv, NEW h \in Host, SendAdd(h)
    PROVE  Lifecycle!Offer(h, worker[h].lan)
<1> DEFINE l == worker[h].lan
<1>1. /\ TypeOK /\ l \in Lan /\ Answered(h, l)
      /\ addCh[h] \in Seq(Lan) /\ addCh' = [addCh EXCEPT ![h] = Append(@, l)]
      /\ UNCHANGED <<deviceList, plugins, phase, fins, cleaned>>
  BY DEF IInv, CopiesAreSafe, WorkerSafe, TypeOK, ListerTypeOK, SendAdd, AddChanSend, apiVars
<1> HIDE DEF l
<1>2. addCh'[h] = Append(addCh[h], l)
  BY <1>1 DEF TypeOK, ListerTypeOK
<1>3. l \in Known(h)'
  <2>1. addCh'[h][Len(addCh'[h])] = l /\ Len(addCh'[h]) \in 1..Len(addCh'[h])
    BY <1>1, <1>2
  <2>2. QED  BY <2>1 DEF Known, InChan
<1>4. Known(h) \subseteq Known(h)'
  <2>1. \A i \in 1..Len(addCh[h]) : i \in 1..Len(addCh'[h]) /\ addCh'[h][i] = addCh[h][i]
    BY <1>1, <1>2
  <2>2. InChan(addCh, h) \subseteq InChan(addCh, h)'
    BY <2>1 DEF InChan
  <2>3. QED  BY <1>1, <2>2 DEF Known, InMap
<1>5. Known(h)' \subseteq Known(h) \union {l}
  BY <1>1, KnownSend DEF l
<1>6. \A k \in Host : k # h => Known(k)' = Known(k)
  BY <1>1, KnownFrame DEF TypeOK, ListerTypeOK
<1>7. Offering' = [Offering EXCEPT ![h] = @ \union {l}]
  BY <1>3, <1>4, <1>5, <1>6 DEF Offering
<1>8. QED  BY <1>1, <1>7 DEF Lifecycle!Offer, Offering, Answered, l

LEMMA LifecycleInit == Init => Lifecycle!Init
<1> SUFFICES ASSUME Init PROVE Lifecycle!Init
  OBVIOUS
<1>1. phase = [l \in Lan |-> "absent"] /\ fins = [l \in Lan |-> {}] /\ cleaned = [h \in Host |-> {}]
  BY DEF Init, ApiInit
<1>2. ASSUME NEW h \in Host
      PROVE  Known(h) = {}
  <2>1. InChan(addCh, h) = {}
    BY DEF InChan, Init, ListerInit
  <2>2. InMap(deviceList, h) = {} /\ InMap(plugins, h) = {}
    BY DEF InMap, NoDevices, Init, ListerInit
  <2>3. QED  BY <2>1, <2>2 DEF Known
<1>3. QED  BY <1>1, <1>2 DEF Lifecycle!Init

\* A step that leaves the knowledge of all hosts alone leaves the mapping alone.
LEMMA OfferingSame ==
    ASSUME TypeOK, [Next]_vars, ~ \E h \in Host : Forgets(h) \/ SendAdd(h)
    PROVE  Offering' = Offering
  BY KnownSame DEF Offering

\* The steps that write objects or the history are none of the others.
LEMMA OnlyOne ==
    ASSUME TypeOK, CopiesAreSafe, [Next]_vars, \E h \in Host : Forgets(h) \/ SendAdd(h)
    PROVE  UNCHANGED <<phase, fins, cleaned>>
  BY DEF Forgets, ListerStep, Restart, PanicOnNil, NewProcess, SendAdd, apiVars, daemonVars

LEMMA LifecycleNext == IInv /\ [Next]_vars => [Lifecycle!Next]_(Lifecycle!vars)
<1> SUFFICES ASSUME IInv, [Next]_vars PROVE [Lifecycle!Next]_(Lifecycle!vars)
  OBVIOUS
<1>1. TypeOK /\ CopiesAreSafe
  BY DEF IInv
<1>2. CASE \E h \in Host : Forgets(h)
  <2>1. PICK h \in Host : Forgets(h)
    BY <1>2
  <2>2. Lifecycle!Withdraw(h)
    BY <1>1, <2>1, OnlyOne, WithdrawStep
  <2>3. QED  BY <2>2 DEF Lifecycle!Next
<1>3. CASE \E h \in Host : SendAdd(h)
  <2>1. PICK h \in Host : SendAdd(h)
    BY <1>3
  <2>2. worker[h].lan \in Lan
    BY <1>1, <2>1 DEF SendAdd, TypeOK
  <2>3. Lifecycle!Offer(h, worker[h].lan)
    BY <2>1, OfferStep
  <2>4. QED  BY <2>2, <2>3 DEF Lifecycle!Next
<1>4. CASE ~ \E h \in Host : Forgets(h) \/ SendAdd(h)
  <2>1. Offering' = Offering
    BY <1>1, <1>4, OfferingSame
  <2>2. ASSUME NEW l \in Lan, Create(l)
        PROVE  Lifecycle!Create(l)
    BY <2>1, <2>2 DEF Create, UserCreate, Lifecycle!Create, Offering, daemonVars
  <2>3. ASSUME NEW l \in Lan, Delete(l)
        PROVE  Lifecycle!Delete(l)
    BY <2>1, <2>3 DEF Delete, UserDelete, Lifecycle!Delete, Offering, daemonVars
  <2>4. ASSUME NEW h \in Host, Cleanup(h)
        PROVE  \E l \in Lan : Lifecycle!Clean(h, l)
    <3>1. worker[h].lan \in Lan /\ phase[worker[h].lan] \in {"deleting", "gone"}
      BY <1>1, <2>4 DEF Cleanup, TypeOK, CopiesAreSafe, WorkerSafe, Ended
    <3>2. Lifecycle!Clean(h, worker[h].lan)
      BY <2>1, <2>4, <3>1 DEF Cleanup, Lifecycle!Clean, Offering, apiVars
    <3>3. QED  BY <3>1, <3>2
  <2>5. ASSUME NEW h \in Host, UpdateOK(h) \/ UpdateAnswerLost(h)
        PROVE  \/ \E l \in Lan : Lifecycle!Hold(h, l) \/ Lifecycle!Release(h, l)
               \/ UNCHANGED <<phase, fins, cleaned>>
    <3>1. PICK l \in Lan : l = worker[h].lan
      BY <1>1, <2>5, StoreStep
    <3>2. UNCHANGED cleaned
      BY <1>1, <2>5, StoreStep
    <3>3. CASE AddsOwn(h, l)
      <4>1. CASE h \in fins[l]
        <5>1. fins' = fins
          BY <1>1, <3>3, <4>1 DEF AddsOwn, TypeOK
        <5>2. QED  BY <3>2, <3>3, <5>1 DEF AddsOwn
      <4>2. CASE h \notin fins[l]
        BY <2>1, <3>2, <3>3, <4>2 DEF AddsOwn, Lifecycle!Hold, Offering
      <4>3. QED  BY <4>1, <4>2
    <3>4. CASE DropsOwn(h, l)
      <4>1. phase' = [phase EXCEPT ![l] = IF fins[l] = {h} THEN "gone" ELSE @]
        <5>1. fins[l] \ {h} = {} <=> fins[l] = {h}
          BY <3>4 DEF DropsOwn
        <5>2. QED  BY <3>4, <5>1 DEF DropsOwn
      <4>2. QED  BY <2>1, <3>2, <3>4, <4>1 DEF DropsOwn, Lifecycle!Release, Offering
    <3>5. QED  BY <1>1, <2>5, <3>1, <3>3, <3>4, StoreStep
  <2>6. CASE UNCHANGED <<phase, fins, cleaned>>
    BY <2>1, <2>6 DEF Lifecycle!vars, Offering
  <2>7. QED
    <3>1. CASE UNCHANGED apiVars /\ UNCHANGED cleaned
      BY <2>6, <3>1 DEF apiVars
    <3>2. CASE \E l \in Lan : Create(l) \/ Delete(l)
      BY <2>2, <2>3, <3>2 DEF Lifecycle!Next
    <3>3. CASE \E h \in Host : Cleanup(h)
      BY <2>4, <3>3 DEF Lifecycle!Next
    <3>4. CASE \E h \in Host : UpdateOK(h) \/ UpdateAnswerLost(h)
      BY <2>5, <2>6, <3>4 DEF Lifecycle!Next
    <3>5. \/ \E l \in Lan : Create(l) \/ Delete(l)
          \/ \E h \in Host : UpdateOK(h) \/ UpdateAnswerLost(h)
          \/ UNCHANGED apiVars
      <4>1. CASE UNCHANGED vars
        BY <4>1 DEF vars
      <4>2. CASE Next
        BY <1>4, <4>2, NextCases DEF Forgets, CacheSync, Resync, Reconcile, Cleanup, SendRemove,
           UpdateFails, Allocate
      <4>3. QED  BY <4>1, <4>2
    <3>6. UNCHANGED cleaned \/ \E h \in Host : Cleanup(h)
      BY <1>1, CleanedStep
    <3>7. QED  BY <3>1, <3>2, <3>3, <3>4, <3>5, <3>6
<1>5. QED  BY <1>2, <1>3, <1>4

\* The daemon set implements the abstract life of a LAN: seen through its
\* finalizers, its device-plugin side and its cleanups, every step is one of
\* LanLifecycle or changes nothing of it.
THEOREM ImplementsLifecycle == Spec => LifecycleSpec
<1>1. Init => Lifecycle!Init
  BY LifecycleInit
<1>2. IInv /\ [Next]_vars => [Lifecycle!Next]_(Lifecycle!vars)
  BY LifecycleNext
<1>3. QED  BY <1>1, <1>2, Invariance, PTL DEF Spec, LifecycleSpec, Lifecycle!Spec
=============================================================================
