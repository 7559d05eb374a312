------------------------- MODULE NadOperatorProofs -------------------------
(***************************************************************************)
(* Theorems about NadOperator for every set of LANs, names, spokes and     *)
(* namespaces and every bound: types, and that the operator forgets no     *)
(* definition.  That the caches hold one object per name follows from the  *)
(* API server's: UniqueNames.                                              *)
(***************************************************************************)
EXTENDS NadOperator, TLAPS, SequenceTheorems

\* One existing LAN object per namespace and name.
UniqueNames ==
    \A l, m \in Lan :
        nameOf[l] = nameOf[m] /\ Exists(phase[l]) /\ Exists(phase[m]) => l = m

Change == [nad : Nad, added : BOOLEAN]

\* TypeOK in three parts: the API server's objects, the watches, the operator.
ApiTyped ==
    /\ phase \in [Lan -> Phase]
    /\ fins \in [Lan -> SUBSET Host]
NadsTyped ==
    /\ nads \subseteq Nad
    /\ \A d, e \in nads : KeyOf(d) = KeyOf(e) => d = e
    /\ feed \in Seq(Change)
    /\ Len(feed) <= MaxFeed
OperatorTyped ==
    /\ nadCache \subseteq Nad
    /\ lanCache \subseteq Lan
    /\ \A l, m \in lanCache : nameOf[l] = nameOf[m] => l = m
    /\ queue \subseteq Name
    /\ \/ todo = Done
       \/ todo.lan \in Lan /\ todo.new \in (SUBSET Nad) \ {{}}
    /\ failures \in 0..MaxFailures
    /\ restarts \in 0..MaxRestarts

\* An object of the operator's todo list is a record, which the types do not say.
TodoRecord == todo = Done \/ todo = [lan |-> todo.lan, new |-> todo.new]

IInv == ApiTyped /\ UniqueNames /\ NadsTyped /\ OperatorTyped /\ TodoRecord

LEMMA TypeParts == TypeOK <=> ApiTyped /\ NadsTyped /\ OperatorTyped
  BY DEF TypeOK, ApiTyped, NadsTyped, OperatorTyped, Change

-----------------------------------------------------------------------------
LEMMA InvInit == Init => IInv
<1> SUFFICES ASSUME Init PROVE IInv
  OBVIOUS
<1>1. ApiTyped /\ UniqueNames
  BY DEF Init, ApiInit, ApiTyped, UniqueNames, Phase, Exists
<1>2. NadsTyped
  <2>1. feed = <<>> /\ nads = {} /\ MaxFeed \in Nat
    BY OperatorAssumption DEF Init
  <2>2. feed \in Seq(Change) /\ Len(feed) = 0
    BY <2>1, EmptySeq
  <2>3. QED  BY <2>1, <2>2 DEF NadsTyped
<1>3. OperatorTyped /\ TodoRecord
  BY OperatorAssumption DEF Init, OperatorTyped, TodoRecord
<1>4. QED  BY <1>1, <1>2, <1>3 DEF IInv

-----------------------------------------------------------------------------
(* The API server. *)

LEMMA FinsStored ==
    ASSUME IInv, NEW l \in Lan, NEW new \in SUBSET Host, StoreFins(l, new)
    PROVE  ApiTyped' /\ UniqueNames'
<1>1. ApiTyped'
  BY DEF IInv, ApiTyped, StoreFins, Phase
<1>2. \A m \in Lan : Exists(phase[m]') => Exists(phase[m])
  BY DEF IInv, ApiTyped, StoreFins, Exists, Phase
<1>3. QED  BY <1>1, <1>2 DEF IInv, UniqueNames

LEMMA LanStep ==
    ASSUME IInv, NEW l \in Lan,
           Create(l) \/ Delete(l) \/ \E h \in Host : Hold(l, h) \/ Release(l, h)
    PROVE  IInv'
<1>1. UNCHANGED <<nads, feed, lanCache, nadCache, queue, todo, failures, restarts>>
  BY DEF Create, Delete, Hold, Release, operatorVars
<1>2. ApiTyped' /\ UniqueNames'
  <2>1. CASE Create(l)
    <3>1. ApiTyped' /\ \A m \in Lan : m # l => phase[m]' = phase[m]
      BY <2>1 DEF IInv, ApiTyped, Create, UserCreate, Phase
    <3>2. QED  BY <2>1, <3>1 DEF IInv, UniqueNames, Create, UserCreate
  <2>2. CASE Delete(l)
    <3>1. ApiTyped'
      BY <2>2 DEF IInv, ApiTyped, Delete, UserDelete, Phase
    <3>2. \A m \in Lan : Exists(phase[m]') => Exists(phase[m])
      BY <2>2 DEF IInv, ApiTyped, Delete, UserDelete, Exists, Phase
    <3>3. QED  BY <3>1, <3>2 DEF IInv, UniqueNames
  <2>3. ASSUME NEW h \in Host, Hold(l, h) \/ Release(l, h)
        PROVE  ApiTyped' /\ UniqueNames'
    BY <2>3, FinsStored DEF IInv, ApiTyped, Hold, Release
  <2>4. QED  BY <2>1, <2>2, <2>3
<1>3. NadsTyped' /\ OperatorTyped' /\ TodoRecord'
  BY <1>1 DEF IInv, NadsTyped, OperatorTyped, TodoRecord
<1>4. QED  BY <1>2, <1>3 DEF IInv

LEMMA ApiKept ==
    ASSUME IInv, UNCHANGED apiVars
    PROVE  ApiTyped' /\ UniqueNames'
  BY DEF IInv, ApiTyped, UniqueNames, apiVars

\* A Create of a new key, or a deletion, keeps one NAD per key.
LEMMA Sent ==
    ASSUME IInv, NEW d \in Nad, NEW added \in BOOLEAN, Send(d, added),
           added => WithKey(KeyOf(d), nads) = {}
    PROVE  NadsTyped'
<1>1. nads' \subseteq Nad /\ \A e, f \in nads' : KeyOf(e) = KeyOf(f) => e = f
  BY DEF IInv, NadsTyped, Send, WithKey
<1>2. [nad |-> d, added |-> added] \in Change
  BY DEF Change
<1>3. feed' \in Seq(Change) /\ Len(feed') = Len(feed) + 1
  BY <1>2, AppendProperties DEF IInv, NadsTyped, Send
<1>4. Len(feed') <= MaxFeed
  <2>1. Len(feed) \in Nat /\ MaxFeed \in Nat /\ Len(feed) < MaxFeed
    BY OperatorAssumption, LenProperties DEF IInv, NadsTyped, Send
  <2>2. QED  BY <1>3, <2>1
<1>5. QED  BY <1>1, <1>3, <1>4 DEF NadsTyped

LEMMA CollectStep ==
    ASSUME IInv, NEW d \in nads, Collect(d)
    PROVE  IInv'
<1>1. NadsTyped'
  BY Sent DEF IInv, NadsTyped, Collect
<1>2. OperatorTyped' /\ TodoRecord'
  BY DEF IInv, OperatorTyped, TodoRecord, Collect
<1>3. QED  BY <1>1, <1>2, ApiKept DEF IInv, Collect

-----------------------------------------------------------------------------
(* The watches. *)

LEMMA LanSyncStep ==
    ASSUME IInv, NEW n \in Name, LanSync(n)
    PROVE  IInv'
<1>1. UNCHANGED <<apiVars, nads, feed, nadCache, todo, failures, restarts>>
  BY DEF LanSync
<1>2. lanCache' \subseteq Lan /\ \A l, m \in lanCache' : nameOf[l] = nameOf[m] => l = m
  BY DEF IInv, OperatorTyped, UniqueNames, LanSync, Living, Named
<1>3. NadsTyped' /\ OperatorTyped' /\ TodoRecord'
  BY <1>1, <1>2 DEF IInv, NadsTyped, OperatorTyped, TodoRecord, LanSync
<1>4. QED  BY <1>1, <1>3, ApiKept DEF IInv

LEMMA OwnersNamed ==
    ASSUME NEW ds \in SUBSET Nad
    PROVE  OwnerNames(ds) \subseteq Name
  BY LanAssumption DEF OwnerNames, Nad

LEMMA NadSyncStep ==
    ASSUME IInv, NadSync
    PROVE  IInv'
<1>1. UNCHANGED <<apiVars, nads, lanCache, todo, failures, restarts>>
  BY DEF NadSync
<1>2. Head(feed) \in Change /\ feed' \in Seq(Change) /\ Len(feed') = Len(feed) - 1
  BY HeadTailProperties DEF IInv, NadsTyped, NadSync
<1>3. NadsTyped'
  <2>1. Len(feed) \in Nat /\ MaxFeed \in Nat /\ Len(feed) <= MaxFeed
    BY OperatorAssumption, LenProperties DEF IInv, NadsTyped
  <2>2. Len(feed') <= MaxFeed
    BY <1>2, <2>1
  <2>3. QED  BY <1>1, <1>2, <2>2 DEF IInv, NadsTyped
<1>4. Head(feed).nad \in Nad
  BY <1>2 DEF Change
<1>5. nadCache' \subseteq Nad /\ queue' \subseteq Name
  BY <1>4, OwnersNamed DEF IInv, OperatorTyped, NadSync
<1>6. OperatorTyped' /\ TodoRecord'
  BY <1>1, <1>5 DEF IInv, OperatorTyped, TodoRecord
<1>7. QED  BY <1>1, <1>3, <1>6, ApiKept DEF IInv

LEMMA ResyncStep ==
    ASSUME IInv, NEW n \in Name, Resync(n)
    PROVE  IInv'
<1>1. NadsTyped' /\ OperatorTyped' /\ TodoRecord'
  BY DEF IInv, NadsTyped, OperatorTyped, TodoRecord, Resync
<1>2. QED  BY <1>1, ApiKept DEF IInv, Resync

-----------------------------------------------------------------------------
(* Reconcile. *)

LEMMA WorkTyped ==
    ASSUME NEW l \in Lan
    PROVE  LET w == Work(l) IN
           /\ w = Done \/ (w.lan \in Lan /\ w.new \in (SUBSET Nad) \ {{}})
           /\ w = Done \/ w = [lan |-> w.lan, new |-> w.new]
<1>1. GetNADs(l, Owner(l)) \subseteq Nad
  BY LanAssumption, OperatorAssumption DEF GetNADs, Owner, Nad
<1>2. QED  BY <1>1 DEF Work, Missing

LEMMA ReconcileStep ==
    ASSUME IInv, NEW n \in Name, Reconcile(n)
    PROVE  IInv'
<1>1. UNCHANGED <<apiVars, nads, feed, lanCache, nadCache, failures, restarts>> /\ queue' \subseteq queue
  BY DEF Reconcile
<1>2. /\ todo' = Done \/ (todo'.lan \in Lan /\ todo'.new \in (SUBSET Nad) \ {{}})
      /\ TodoRecord'
  <2>1. CASE UNCHANGED todo
    BY <2>1 DEF IInv, OperatorTyped, TodoRecord
  <2>2. ASSUME NEW l \in lanCache, todo' = Work(l)
        PROVE  <1>2!1 /\ TodoRecord'
    BY <2>2, WorkTyped DEF IInv, OperatorTyped, TodoRecord
  <2>3. QED  BY <2>1, <2>2 DEF Reconcile
<1>3. NadsTyped' /\ OperatorTyped'
  BY <1>1, <1>2 DEF IInv, NadsTyped, OperatorTyped
<1>4. QED  BY <1>1, <1>2, <1>3, ApiKept DEF IInv

LEMMA TriedTyped ==
    ASSUME IInv, NEW d \in todo.new, Tried(d)
    PROVE  /\ todo' = Done \/ (todo'.lan \in Lan /\ todo'.new \in (SUBSET Nad) \ {{}})
           /\ TodoRecord'
           /\ d \in Nad
<1>1. todo # Done /\ todo = [lan |-> todo.lan, new |-> todo.new]
      /\ todo.lan \in Lan /\ todo.new \in SUBSET Nad
  BY DEF IInv, OperatorTyped, TodoRecord, Done
<1>2. CASE todo.new = {d}
  BY <1>1, <1>2 DEF Tried, TodoRecord
<1>3. CASE todo.new # {d}
  <2>1. todo' = [lan |-> todo.lan, new |-> todo.new \ {d}]
    BY <1>1, <1>3 DEF Tried
  <2>2. todo.new \ {d} # {}
    BY <1>3
  <2>3. QED  BY <1>1, <2>1, <2>2 DEF TodoRecord
<1>4. QED  BY <1>1, <1>2, <1>3

LEMMA CreateNadStep ==
    ASSUME IInv, NEW d \in todo.new, CreateNad(d)
    PROVE  IInv'
<1>1. UNCHANGED <<apiVars, lanCache, nadCache, queue, failures, restarts>> /\ Tried(d)
  BY DEF CreateNad
<1>2. NadsTyped'
  <2>1. CASE WithKey(KeyOf(d), nads) = {}
    BY <1>1, <2>1, TriedTyped, Sent DEF CreateNad
  <2>2. CASE WithKey(KeyOf(d), nads) # {}
    BY <2>2 DEF IInv, NadsTyped, CreateNad
  <2>3. QED  BY <2>1, <2>2
<1>3. OperatorTyped' /\ TodoRecord'
  BY <1>1, TriedTyped DEF IInv, OperatorTyped
<1>4. QED  BY <1>1, <1>2, <1>3, ApiKept DEF IInv

LEMMA CreateFailsStep ==
    ASSUME IInv, NEW d \in todo.new, CreateFails(d)
    PROVE  IInv'
<1>1. UNCHANGED <<apiVars, nads, feed, lanCache, nadCache, queue, restarts>> /\ Tried(d)
  BY DEF CreateFails
<1>2. failures' \in 0..MaxFailures
  BY OperatorAssumption DEF IInv, OperatorTyped, CreateFails
<1>3. NadsTyped' /\ OperatorTyped' /\ TodoRecord'
  BY <1>1, <1>2, TriedTyped DEF IInv, NadsTyped, OperatorTyped
<1>4. QED  BY <1>1, <1>3, ApiKept DEF IInv

LEMMA RestartStep ==
    ASSUME IInv, Restart
    PROVE  IInv'
<1>1. UNCHANGED <<apiVars, nads, failures>> /\ todo' = Done /\ nadCache' = nads /\ feed' = <<>>
  BY DEF Restart
<1>2. lanCache' \subseteq Lan /\ \A l, m \in lanCache' : nameOf[l] = nameOf[m] => l = m
  BY DEF IInv, UniqueNames, Restart
<1>3. restarts' \in 0..MaxRestarts
  BY OperatorAssumption DEF IInv, OperatorTyped, Restart
<1>4. queue' \subseteq Name
  BY <1>2, OwnersNamed, LanAssumption DEF IInv, NadsTyped, Restart
<1>5. NadsTyped'
  <2>1. feed' \in Seq(Change) /\ Len(feed') = 0
    BY <1>1, EmptySeq
  <2>2. QED  BY <1>1, <2>1, OperatorAssumption DEF IInv, NadsTyped
<1>6. OperatorTyped' /\ TodoRecord'
  BY <1>1, <1>2, <1>3, <1>4 DEF IInv, NadsTyped, OperatorTyped, TodoRecord
<1>7. QED  BY <1>1, <1>5, <1>6, ApiKept DEF IInv

-----------------------------------------------------------------------------
LEMMA InvNext == IInv /\ [Next]_vars => IInv'
<1> SUFFICES ASSUME IInv, [Next]_vars PROVE IInv'
  OBVIOUS
<1>1. CASE UNCHANGED vars
  <2>1. NadsTyped' /\ OperatorTyped' /\ TodoRecord' /\ UNCHANGED apiVars
    BY <1>1 DEF IInv, NadsTyped, OperatorTyped, TodoRecord, vars, operatorVars
  <2>2. QED  BY <2>1, ApiKept DEF IInv
<1>2. QED
  BY <1>1, LanStep, CollectStep, LanSyncStep, ResyncStep, ReconcileStep, NadSyncStep,
     CreateNadStep, CreateFailsStep, RestartStep DEF Next

\* One definition per namespace and name and one cached object per name, while
\* LANs, their definitions and the operator come and go (lan_controller.go:52-103).
THEOREM OperatorTypesHold == Spec => []TypeOK
<1>1. IInv => TypeOK
  BY TypeParts DEF IInv
<1>2. QED  BY InvInit, InvNext, <1>1, PTL DEF Spec

-----------------------------------------------------------------------------
(* No definition is forgotten: what the operator knows of the definitions, *)
(* and what it still hears, adds up to those there are.                    *)

\* A definition some object has, or had, for one of its spokes.
Made(d) ==
    /\ d.owner \in Lan /\ phase[d.owner] # "absent"
    /\ d \in GetNADs(d.owner, d.owner)

\* The owners of all definitions on their way have existed, and what the garbage
\* collector has deleted was of an object that is gone.
MadeInv ==
    /\ \A d \in nads \union nadCache \union todo.new : Made(d)
    /\ \A i \in DOMAIN feed : Made(feed[i].nad)
    /\ \A i \in DOMAIN feed : ~feed[i].added => phase[feed[i].nad.owner] = "gone"
    /\ \A l \in lanCache : phase[l] # "absent"

\* The deletion of d is on its way, as the j-th change.
Removal(d, j) == feed[j].nad = d /\ ~feed[j].added

\* A definition the operator has in its cache, or is told of, is there or the
\* operator will hear of its deletion afterwards.
HeardInv ==
    /\ \A d \in nadCache \ nads : \E j \in DOMAIN feed : Removal(d, j)
    /\ \A i \in DOMAIN feed : feed[i].added /\ feed[i].nad \notin nads =>
          \E j \in DOMAIN feed : j > i /\ Removal(feed[i].nad, j)

\* What is still to come for a definition that is not there.
Coming(l, d) ==
    \/ l \notin lanCache
    \/ nameOf[l] \in queue
    \/ d \in todo.new
    \/ \E e \in nads : Hides(e, d)
    \/ \E i \in DOMAIN feed : ~feed[i].added /\ Hides(feed[i].nad, d)

FInv == IInv /\ MadeInv /\ HeardInv /\ NoneForgotten

LEMMA FInvInit == Init => FInv
<1> SUFFICES ASSUME Init PROVE FInv
  OBVIOUS
<1>1. DOMAIN feed = {} /\ todo.new = {}
  BY DEF Init, Done
<1>2. QED  BY <1>1, InvInit DEF Init, ApiInit, FInv, MadeInv, HeardInv, NoneForgotten

\* The life of an object goes one way.
LifeGoesOn ==
    \A l \in Lan :
        /\ phase[l] # "absent" => phase'[l] # "absent"
        /\ phase[l] = "gone" => phase'[l] = "gone"
        /\ phase'[l] = "live" => phase[l] = "live" \/ phase[l] = "absent"

LEMMA LifeStep ==
    ASSUME IInv, NEW l \in Lan,
           Create(l) \/ Delete(l) \/ \E h \in Host : Hold(l, h) \/ Release(l, h)
    PROVE  LifeGoesOn
<1>1. phase \in [Lan -> Phase]
  BY DEF IInv, ApiTyped
<1>2. \A m \in Lan : m # l => phase'[m] = phase[m]
  BY <1>1 DEF Create, UserCreate, Delete, UserDelete, Hold, Release, StoreFins
<1>3. \/ phase[l] = "absent" /\ phase'[l] = "live"
      \/ phase[l] = "live" /\ phase'[l] \in {"live", "deleting", "gone"}
      \/ phase[l] = "deleting" /\ phase'[l] \in {"deleting", "gone"}
  BY <1>1 DEF Create, UserCreate, Delete, UserDelete, Hold, Release, StoreFins
<1>4. QED  BY <1>2, <1>3 DEF LifeGoesOn

LEMMA MadeStays ==
    ASSUME LifeGoesOn, NEW d, Made(d)
    PROVE  Made(d)'
  BY DEF Made, LifeGoesOn, GetNADs

\* The changes on their way, with one more and without the first.
LEMMA FeedAppends ==
    ASSUME IInv, NEW d \in Nad, NEW added \in BOOLEAN, Send(d, added)
    PROVE  /\ DOMAIN feed' = DOMAIN feed \union {Len(feed) + 1}
           /\ Len(feed) + 1 \notin DOMAIN feed
           /\ \A i \in DOMAIN feed : i \in Nat /\ i < Len(feed) + 1 /\ feed'[i] = feed[i]
           /\ feed'[Len(feed) + 1].nad = d /\ feed'[Len(feed) + 1].added = added
<1> DEFINE c == [nad |-> d, added |-> added]
<1>1. c \in Change /\ c.nad = d /\ c.added = added
  BY DEF Change
<1>2. feed \in Seq(Change) /\ Len(feed) \in Nat /\ DOMAIN feed = 1..Len(feed)
  BY LenProperties DEF IInv, NadsTyped
<1>3. feed' = Append(feed, c)
  BY DEF Send
<1> HIDE DEF c
<1>4. /\ feed' \in Seq(Change) /\ Len(feed') = Len(feed) + 1
      /\ \A i \in 1..Len(feed) : feed'[i] = feed[i]
      /\ feed'[Len(feed) + 1] = c
  BY <1>1, <1>2, <1>3, AppendProperties
<1>5. DOMAIN feed' = 1..(Len(feed) + 1)
  BY <1>4, LenProperties
<1>6. QED  BY <1>1, <1>2, <1>4, <1>5

LEMMA FeedTails ==
    ASSUME IInv, NadSync
    PROVE  /\ Head(feed) = feed[1] /\ 1 \in DOMAIN feed
           /\ \A i \in DOMAIN feed : i \in Nat /\ (i # 1 => i - 1 \in DOMAIN feed')
           /\ \A i \in DOMAIN feed' : i \in Nat /\ i + 1 \in DOMAIN feed /\ feed'[i] = feed[i + 1]
<1>1. feed \in Seq(Change) /\ feed # << >> /\ feed' = Tail(feed)
  BY DEF IInv, NadsTyped, NadSync
<1>2. Len(feed) \in Nat /\ DOMAIN feed = 1..Len(feed) /\ Len(feed) # 0
  BY <1>1, LenProperties, EmptySeq
<1>3. /\ feed' \in Seq(Change) /\ Len(feed') = Len(feed) - 1 /\ Head(feed) = feed[1]
      /\ \A i \in 1..Len(feed') : feed'[i] = feed[i + 1]
  BY <1>1, <1>2, HeadTailProperties
<1>4. DOMAIN feed' = 1..(Len(feed) - 1)
  BY <1>3, LenProperties
<1>5. QED  BY <1>2, <1>3, <1>4

-----------------------------------------------------------------------------
\* A definition that some object of a LAN lacks.
Lacks(l, d) ==
    /\ failures = 0
    /\ phase[l] = "live" /\ SpokesApart(l)
    /\ d \in GetNADs(l, l) /\ d \notin nads

LEMMA ForgottenParts == NoneForgotten <=> \A l \in Lan : \A d : Lacks(l, d) => Coming(l, d)
  BY DEF NoneForgotten, Lacks, Coming

LEMMA OwnNads ==
    ASSUME NEW l \in Lan, NEW d \in GetNADs(l, l)
    PROVE  d.owner = l /\ d.name \in spokesOf[l] \X Kind /\ d.space = spaceOf[nameOf[l]] /\ d \in Nad
           /\ d = [name |-> d.name, space |-> d.space, owner |-> d.owner]
  BY LanAssumption, OperatorAssumption DEF GetNADs, Nad

\* Whatever has the name of a definition of l hides it, or is it: LANs of other
\* names have other spokes.
LEMMA SameName ==
    ASSUME NEW l \in Lan, SpokesApart(l), NEW d \in GetNADs(l, l), NEW e, Made(e), e.name = d.name
    PROVE  e = d \/ (e.owner # l /\ Hides(e, d))
<1> DEFINE m == e.owner
<1>1. /\ m \in Lan /\ e.name \in spokesOf[m] \X Kind
      /\ e = [name |-> e.name, space |-> e.space, owner |-> m] /\ e.space = spaceOf[nameOf[m]]
  BY OwnNads DEF Made
<1>2. d.owner = l /\ d.name \in spokesOf[l] \X Kind
      /\ d = [name |-> d.name, space |-> d.space, owner |-> l] /\ d.space = spaceOf[nameOf[l]]
  BY OwnNads
<1>3. nameOf[m] = nameOf[l]
  BY <1>1, <1>2 DEF SpokesApart
<1>4. m = l => e = d
  BY <1>1, <1>2
<1>5. QED  BY <1>1, <1>2, <1>3, <1>4 DEF Hides, Named

\* What is the same for a LAN before and after a step of the operator.
LEMMA StillLacks ==
    ASSUME UNCHANGED apiVars, failures' = 0 => failures = 0, NEW l, NEW d, Lacks(l, d)'
    PROVE  d \notin nads => Lacks(l, d)
  BY DEF apiVars, Lacks, SpokesApart, GetNADs

LEMMA MadeSame ==
    ASSUME UNCHANGED apiVars, NEW d, Made(d)
    PROVE  Made(d)'
  BY DEF apiVars, Made, GetNADs

LEMMA HidesSame ==
    ASSUME NEW e, NEW d, Hides(e, d)
    PROVE  Hides(e, d)'
  BY DEF Hides, Named

-----------------------------------------------------------------------------
LEMMA LanForgets ==
    ASSUME FInv, NEW l \in Lan,
           Create(l) \/ Delete(l) \/ \E h \in Host : Hold(l, h) \/ Release(l, h)
    PROVE  FInv'
<1>1. IInv' /\ LifeGoesOn
  BY LanStep, LifeStep DEF FInv
<1>2. UNCHANGED <<nads, feed, lanCache, nadCache, queue, todo, failures, restarts>>
  BY DEF Create, Delete, Hold, Release, operatorVars
<1>3. MadeInv'
  <2>1. \A d : Made(d) => Made(d)'
    BY <1>1, MadeStays
  <2>2. \A d : Made(d) => d.owner \in Lan
    BY DEF Made
  <2>3. QED  BY <1>1, <1>2, <2>1, <2>2 DEF FInv, IInv, OperatorTyped, MadeInv, LifeGoesOn
<1>4. HeardInv'
  BY <1>2 DEF FInv, HeardInv, Removal
<1>5. ASSUME NEW m \in Lan, NEW d, Lacks(m, d)'
      PROVE  Coming(m, d)'
  <2>1. CASE phase[m] = "live"
    <3>1. Lacks(m, d)
      BY <1>2, <1>5, <2>1 DEF Lacks, SpokesApart, GetNADs
    <3>2. Coming(m, d)
      BY <3>1, ForgottenParts DEF FInv
    <3>3. QED  BY <1>2, <3>2, HidesSame DEF Coming
  <2>2. CASE phase[m] = "absent"
    BY <1>2, <2>2 DEF FInv, MadeInv, Coming
  <2>3. QED  BY <1>1, <1>5, <2>1, <2>2 DEF LifeGoesOn, Lacks
<1>6. NoneForgotten'
  BY <1>5 DEF NoneForgotten, Lacks, Coming
<1>7. QED  BY <1>1, <1>3, <1>4, <1>6 DEF FInv

\* A Create that is over is off the list.
LEMMA TriedNew ==
    ASSUME IInv, NEW d \in todo.new, Tried(d)
    PROVE  todo'.new = todo.new \ {d}
<1>1. todo # Done /\ todo = [lan |-> todo.lan, new |-> todo.new]
  BY DEF IInv, TodoRecord, Done
<1>2. CASE todo.new = {d}
  BY <1>2 DEF Tried, Done
<1>3. CASE todo.new # {d}
  BY <1>1, <1>3 DEF Tried
<1>4. QED  BY <1>2, <1>3

\* A deletion is heard of: what it hid is found missing then.
LEMMA CollectForgets ==
    ASSUME FInv, NEW old \in nads, Collect(old)
    PROVE  FInv'
<1> DEFINE last == Len(feed) + 1
<1>1. IInv' /\ UNCHANGED <<apiVars, lanCache, nadCache, queue, todo, failures, restarts>>
      /\ nads' = nads \ {old}
  BY CollectStep DEF FInv, Collect, Send
<1>2. Made(old) /\ phase[old.owner] = "gone"
  BY DEF FInv, IInv, ApiTyped, Phase, MadeInv, Made, Collect, Exists
<1>3. /\ DOMAIN feed' = DOMAIN feed \union {last} /\ last \notin DOMAIN feed
      /\ \A i \in DOMAIN feed : i \in Nat /\ i < last /\ feed'[i] = feed[i]
      /\ feed'[last].nad = old /\ ~feed'[last].added
  BY FeedAppends DEF FInv, IInv, NadsTyped, Collect
<1> HIDE DEF last
<1>4. MadeInv'
  <2>1. \A d : Made(d) => Made(d)'
    BY <1>1, MadeSame
  <2>2. phase' = phase
    BY <1>1 DEF apiVars
  <2>3. QED  BY <1>1, <1>2, <1>3, <2>1, <2>2 DEF FInv, MadeInv
<1>5. HeardInv'
  BY <1>1, <1>3 DEF FInv, HeardInv, Removal
<1>6. ASSUME NEW l \in Lan, NEW d, Lacks(l, d)'
      PROVE  Coming(l, d)'
  <2>1. d # old
    <3>1. d \in GetNADs(l, l) /\ phase[l] = "live"
      BY <1>1, <1>6 DEF Lacks, GetNADs, apiVars
    <3>2. d.owner = l
      BY <3>1, OwnNads
    <3>3. QED  BY <1>2, <3>1, <3>2
  <2>2. Lacks(l, d)
    BY <1>1, <1>6, <2>1, StillLacks DEF Lacks
  <2>3. Coming(l, d)
    BY <2>2, ForgottenParts DEF FInv
  <2>4. QED  BY <1>1, <1>3, <2>3, HidesSame DEF Coming
<1>7. NoneForgotten'
  BY <1>6 DEF NoneForgotten, Lacks, Coming
<1>8. QED  BY <1>1, <1>4, <1>5, <1>7 DEF FInv

\* A Create that is refused met a definition that hides the new one.
LEMMA CreateForgets ==
    ASSUME FInv, NEW new \in todo.new, CreateNad(new)
    PROVE  FInv'
<1> DEFINE last == Len(feed) + 1
<1>1. IInv' /\ UNCHANGED <<apiVars, lanCache, nadCache, queue, failures, restarts>>
      /\ todo'.new = todo.new \ {new} /\ nads \subseteq nads'
  BY CreateNadStep, TriedNew DEF FInv, CreateNad, Send
<1>2. Made(new) /\ new \in Nad
  BY DEF FInv, IInv, OperatorTyped, Done, MadeInv
<1>3. \A d : Made(d) => Made(d)'
  BY <1>1, MadeSame
<1>4. phase' = phase
  BY <1>1 DEF apiVars
<1>5. ASSUME NEW l \in Lan, NEW d, Lacks(l, d)', d # new
      PROVE  Lacks(l, d) /\ Coming(l, d)
  <2>1. Lacks(l, d)
    BY <1>1, <1>5, StillLacks DEF Lacks
  <2>2. QED  BY <2>1, ForgottenParts DEF FInv
<1>6. CASE WithKey(KeyOf(new), nads) = {}
  <2>1. nads' = nads \union {new}
    BY <1>6 DEF CreateNad, Send
  <2>2. /\ DOMAIN feed' = DOMAIN feed \union {last} /\ last \notin DOMAIN feed
        /\ \A i \in DOMAIN feed : i \in Nat /\ i < last /\ feed'[i] = feed[i]
        /\ feed'[last].nad = new /\ feed'[last].added
    BY <1>2, <1>6, FeedAppends DEF FInv, CreateNad
  <2> HIDE DEF last
  <2>3. MadeInv'
    BY <1>1, <1>2, <1>3, <1>4, <2>1, <2>2 DEF FInv, MadeInv
  <2>4. HeardInv'
    BY <1>1, <2>1, <2>2 DEF FInv, HeardInv, Removal
  <2>5. ASSUME NEW l \in Lan, NEW d, Lacks(l, d)'
        PROVE  Coming(l, d)'
    <3>1. d # new
      BY <2>1, <2>5 DEF Lacks
    <3>2. QED  BY <1>1, <1>5, <2>1, <2>2, <2>5, <3>1, HidesSame DEF Coming
  <2>6. NoneForgotten'
    BY <2>5 DEF NoneForgotten, Lacks, Coming
  <2>7. QED  BY <1>1, <2>3, <2>4, <2>6 DEF FInv
<1>7. CASE WithKey(KeyOf(new), nads) # {}
  <2>1. UNCHANGED <<nads, feed>>
    BY <1>7 DEF CreateNad
  <2>2. MadeInv'
    BY <1>1, <1>3, <1>4, <2>1 DEF FInv, MadeInv
  <2>3. HeardInv'
    BY <1>1, <2>1 DEF FInv, HeardInv, Removal
  <2>4. PICK e \in nads : KeyOf(e) = KeyOf(new)
    BY <1>7 DEF WithKey
  <2>5. ASSUME NEW l \in Lan, NEW d, Lacks(l, d)'
        PROVE  Coming(l, d)'
    <3>1. CASE d = new
      <4>1. Lacks(l, d)
        BY <1>1, <2>1, <2>5, StillLacks DEF Lacks
      <4>2. e.name = d.name /\ Made(e) /\ e # d
        BY <2>4, <3>1, <4>1 DEF KeyOf, FInv, MadeInv, Lacks
      <4>3. Hides(e, d)
        BY <4>1, <4>2, SameName DEF Lacks
      <4>4. QED  BY <2>1, <4>3, HidesSame DEF Coming
    <3>2. CASE d # new
      BY <1>1, <1>5, <2>1, <2>5, <3>2, HidesSame DEF Coming
    <3>3. QED  BY <3>1, <3>2
  <2>6. NoneForgotten'
    BY <2>5 DEF NoneForgotten, Lacks, Coming
  <2>7. QED  BY <1>1, <2>2, <2>3, <2>6 DEF FInv
<1>8. QED  BY <1>6, <1>7

\* What the caches learn queues the LAN.
LEMMA LanSyncForgets ==
    ASSUME FInv, NEW n \in Name, LanSync(n)
    PROVE  FInv'
<1>1. IInv' /\ UNCHANGED <<apiVars, nads, feed, nadCache, todo, failures, restarts>>
      /\ queue' = queue \union {n}
      /\ lanCache' = (lanCache \ Named(n)) \union Living(n)
  BY LanSyncStep DEF FInv, LanSync
<1>2. MadeInv'
  <2>1. \A d : Made(d) => Made(d)'
    BY <1>1, MadeSame
  <2>2. \A l \in Living(n) : phase[l] # "absent"
    BY DEF Living, Exists
  <2>3. QED  BY <1>1, <2>1, <2>2 DEF FInv, MadeInv, apiVars
<1>3. HeardInv'
  BY <1>1 DEF FInv, HeardInv, Removal
<1>4. ASSUME NEW l \in Lan, NEW d, Lacks(l, d)'
      PROVE  Coming(l, d)'
  <2>1. Coming(l, d)
    BY <1>1, <1>4, StillLacks, ForgottenParts DEF FInv, Lacks
  <2>2. l \in lanCache' \ lanCache => nameOf[l] \in queue'
    BY <1>1 DEF Living, Named
  <2>3. QED  BY <1>1, <2>1, <2>2, HidesSame DEF Coming
<1>5. NoneForgotten'
  BY <1>4 DEF NoneForgotten, Lacks, Coming
<1>6. QED  BY <1>1, <1>2, <1>3, <1>5 DEF FInv

LEMMA NadSyncForgets ==
    ASSUME FInv, NadSync
    PROVE  FInv'
<1> DEFINE first == feed[1]
<1>1. IInv' /\ UNCHANGED <<apiVars, nads, lanCache, todo, failures, restarts>>
  BY NadSyncStep DEF FInv, NadSync
<1>2. /\ 1 \in DOMAIN feed
      /\ \A i \in DOMAIN feed : i \in Nat /\ (i # 1 => i - 1 \in DOMAIN feed')
      /\ \A i \in DOMAIN feed' : i \in Nat /\ i + 1 \in DOMAIN feed /\ feed'[i] = feed[i + 1]
  BY FeedTails DEF FInv
<1>3. /\ nadCache' = IF first.added THEN nadCache \union {first.nad} ELSE nadCache \ {first.nad}
      /\ queue' = queue \union OwnerNames({first.nad})
  BY FeedTails DEF FInv, NadSync
<1>4. Made(first.nad) /\ (~first.added => phase[first.nad.owner] = "gone")
  BY <1>2 DEF FInv, MadeInv
<1> HIDE DEF first
<1>5. \A i \in DOMAIN feed : i = 1 \/ (i - 1 \in DOMAIN feed' /\ feed'[i - 1] = feed[i])
  <2> SUFFICES ASSUME NEW i \in DOMAIN feed, i # 1
      PROVE  i - 1 \in DOMAIN feed' /\ feed'[i - 1] = feed[i]
    OBVIOUS
  <2>1. i \in Nat /\ i - 1 \in DOMAIN feed' /\ feed'[i - 1] = feed[(i - 1) + 1]
    BY <1>2
  <2>2. (i - 1) + 1 = i
    BY <2>1
  <2>3. QED  BY <2>1, <2>2
<1>6. MadeInv'
  <2>1. \A d : Made(d) => Made(d)'
    BY <1>1, MadeSame
  <2>2. \A d \in nadCache' : Made(d)
    BY <1>3, <1>4 DEF FInv, MadeInv
  <2>3. QED  BY <1>1, <1>2, <2>1, <2>2 DEF FInv, MadeInv, apiVars
<1>7. HeardInv'
  <2>1. ASSUME NEW d \in nadCache' \ nads
        PROVE  \E j \in DOMAIN feed' : feed'[j].nad = d /\ ~feed'[j].added
    <3>1. \E j \in DOMAIN feed : j # 1 /\ Removal(d, j)
      <4>1. CASE d \in nadCache
        <5>1. PICK j \in DOMAIN feed : Removal(d, j)
          BY <2>1, <4>1 DEF FInv, HeardInv
        <5>2. CASE j = 1
          <6>1. d \notin nadCache'
            BY <1>3, <5>1, <5>2 DEF Removal, first
          <6>2. QED  BY <2>1, <6>1
        <5>3. QED  BY <5>1, <5>2
      <4>2. CASE d \notin nadCache
        <5>1. first.added /\ d = first.nad
          BY <1>3, <2>1, <4>2
        <5>2. \E j \in DOMAIN feed : j > 1 /\ Removal(first.nad, j)
          BY <1>2, <2>1, <5>1 DEF FInv, HeardInv, first
        <5>3. QED  BY <1>2, <5>1, <5>2
      <4>3. QED  BY <4>1, <4>2
    <3>2. QED  BY <1>5, <3>1 DEF Removal
  <2>2. ASSUME NEW i \in DOMAIN feed', feed'[i].added, feed'[i].nad \notin nads
        PROVE  \E j \in DOMAIN feed' : j > i /\ feed'[j].nad = feed'[i].nad /\ ~feed'[j].added
    <3>1. i \in Nat /\ i + 1 \in DOMAIN feed /\ feed'[i] = feed[i + 1]
      BY <1>2
    <3>2. PICK j \in DOMAIN feed : j > i + 1 /\ Removal(feed[i + 1].nad, j)
      BY <2>2, <3>1 DEF FInv, HeardInv
    <3>3. j \in Nat /\ j # 1 /\ j - 1 > i
      BY <1>2, <3>1, <3>2
    <3>4. QED  BY <1>5, <3>1, <3>2, <3>3 DEF Removal
  <2>3. QED  BY <1>1, <2>1, <2>2 DEF HeardInv, Removal
<1>8. ASSUME NEW l \in Lan, NEW d, Lacks(l, d)'
      PROVE  Coming(l, d)'
  <2>1. Lacks(l, d) /\ Coming(l, d)
    BY <1>1, <1>8, StillLacks, ForgottenParts DEF FInv, Lacks
  <2>2. CASE Hides(first.nad, d)
    <3>1. nameOf[first.nad.owner] = nameOf[l] /\ first.nad.owner \in Lan
      BY <2>1, <2>2, OwnNads DEF Hides, Named, Lacks
    <3>2. nameOf[l] \in OwnerNames({first.nad})
      BY <3>1, OperatorAssumption DEF OwnerNames
    <3>3. QED  BY <1>3, <3>2 DEF Coming
  <2>3. ASSUME NEW i \in DOMAIN feed, ~feed[i].added, Hides(feed[i].nad, d), ~Hides(first.nad, d)
        PROVE  Coming(l, d)'
    <3>1. i - 1 \in DOMAIN feed' /\ feed'[i - 1] = feed[i]
      BY <1>5, <2>3 DEF first
    <3>2. QED  BY <2>3, <3>1, HidesSame DEF Coming
  <2>4. QED  BY <1>1, <1>3, <2>1, <2>2, <2>3, HidesSame DEF Coming
<1>9. NoneForgotten'
  BY <1>8 DEF NoneForgotten, Lacks, Coming
<1>10. QED  BY <1>1, <1>6, <1>7, <1>9 DEF FInv

LEMMA ResyncForgets ==
    ASSUME FInv, NEW n \in Name, Resync(n)
    PROVE  FInv'
<1>1. IInv' /\ UNCHANGED <<apiVars, nads, feed, lanCache, nadCache, todo, failures, restarts>>
      /\ queue \subseteq queue'
  BY ResyncStep DEF FInv, Resync
<1>2. MadeInv' /\ HeardInv'
  BY <1>1, MadeSame DEF FInv, MadeInv, HeardInv, Removal, apiVars
<1>3. ASSUME NEW l \in Lan, NEW d, Lacks(l, d)'
      PROVE  Coming(l, d)'
  <2>1. Coming(l, d)
    BY <1>1, <1>3, StillLacks, ForgottenParts DEF FInv, Lacks
  <2>2. QED  BY <1>1, <2>1, HidesSame DEF Coming
<1>4. NoneForgotten'
  BY <1>3 DEF NoneForgotten, Lacks, Coming
<1>5. QED  BY <1>1, <1>2, <1>4 DEF FInv

\* What Reconcile does not find it creates; what it finds of another object hides
\* the definition, and is there or will be heard of when it goes.
LEMMA ReconcileForgets ==
    ASSUME FInv, NEW n \in Name, Reconcile(n)
    PROVE  FInv'
<1>1. IInv' /\ UNCHANGED <<apiVars, nads, feed, lanCache, nadCache, failures, restarts>>
      /\ queue' = queue \ {n} /\ todo = Done
  BY ReconcileStep DEF FInv, Reconcile
<1>2. \/ lanCache \intersect Named(n) = {} /\ todo' = Done
      \/ \E l \in lanCache \intersect Named(n) : todo' = Work(l)
  BY <1>1 DEF Reconcile
<1>3. \A l : Work(l).new = Missing(l)
  BY DEF Work, Done
<1>4. MadeInv'
  <2>1. \A d : Made(d) => Made(d)'
    BY <1>1, MadeSame
  <2>2. ASSUME NEW d \in todo'.new
        PROVE  Made(d)
    <3>1. PICK l \in lanCache : d \in Missing(l)
      BY <1>2, <1>3, <2>2 DEF Done
    <3>2. l \in Lan /\ phase[l] # "absent" /\ d \in GetNADs(l, l)
      BY <3>1 DEF FInv, IInv, OperatorTyped, MadeInv, Missing, Owner
    <3>3. QED  BY <3>2, OwnNads DEF Made
  <2>3. QED  BY <1>1, <2>1, <2>2 DEF FInv, MadeInv, apiVars
<1>5. HeardInv'
  BY <1>1 DEF FInv, HeardInv, Removal
<1>6. ASSUME NEW l \in Lan, NEW d, Lacks(l, d)'
      PROVE  Coming(l, d)'
  <2>1. Lacks(l, d) /\ Coming(l, d)
    BY <1>1, <1>6, StillLacks, ForgottenParts DEF FInv, Lacks
  <2>2. CASE nameOf[l] = n /\ l \in lanCache
    <3>1. todo'.new = Missing(l)
      BY <1>2, <1>3, <2>2 DEF FInv, IInv, OperatorTyped, Named
    <3>2. CASE d \in Missing(l)
      BY <3>1, <3>2 DEF Coming
    <3>3. CASE d \notin Missing(l)
      <4>1. PICK e \in nadCache : e.name = d.name
        BY <2>1, <3>3 DEF Missing, Owner, Lacks
      <4>2. Made(e) /\ (e = d \/ Hides(e, d))
        BY <2>1, <4>1, SameName DEF FInv, MadeInv, Lacks
      <4>3. CASE e \in nads
        BY <1>1, <2>1, <4>2, <4>3, HidesSame DEF Coming, Lacks
      <4>4. CASE e \notin nads
        <5>1. PICK j \in DOMAIN feed : Removal(e, j)
          BY <4>1, <4>4 DEF FInv, HeardInv
        <5>2. phase[e.owner] = "gone"
          BY <5>1 DEF FInv, MadeInv, Removal
        <5>3. d.owner = l /\ phase[l] = "live"
          BY <2>1, OwnNads DEF Lacks
        <5>4. Hides(e, d)
          BY <4>2, <5>2, <5>3
        <5>5. QED  BY <1>1, <5>1, <5>4, HidesSame DEF Coming, Removal
      <4>5. QED  BY <4>3, <4>4
    <3>4. QED  BY <3>2, <3>3
  <2>3. CASE nameOf[l] # n \/ l \notin lanCache
    BY <1>1, <2>1, <2>3, HidesSame DEF Coming, Done
  <2>4. QED  BY <2>2, <2>3
<1>7. NoneForgotten'
  BY <1>6 DEF NoneForgotten, Lacks, Coming
<1>8. QED  BY <1>1, <1>4, <1>5, <1>7 DEF FInv

LEMMA CreateFailsForgets ==
    ASSUME FInv, NEW new \in todo.new, CreateFails(new)
    PROVE  FInv'
<1>1. IInv' /\ UNCHANGED <<apiVars, nads, feed, lanCache, nadCache, queue, restarts>>
      /\ todo'.new = todo.new \ {new}
  BY CreateFailsStep, TriedNew DEF FInv, CreateFails
<1>2. failures' # 0
  BY DEF FInv, IInv, OperatorTyped, CreateFails
<1>3. MadeInv' /\ HeardInv'
  BY <1>1, MadeSame DEF FInv, MadeInv, HeardInv, Removal, apiVars
<1>4. NoneForgotten'
  BY <1>2 DEF NoneForgotten
<1>5. QED  BY <1>1, <1>3, <1>4 DEF FInv

\* A new process queues every object there is.
LEMMA RestartForgets ==
    ASSUME FInv, Restart
    PROVE  FInv'
<1>1. IInv' /\ UNCHANGED <<apiVars, nads, failures>> /\ feed' = << >> /\ nadCache' = nads
      /\ todo' = Done /\ lanCache' = {l \in Lan : Exists(phase[l])}
      /\ {nameOf[l] : l \in lanCache'} \subseteq queue'
  BY RestartStep DEF FInv, Restart
<1>2. DOMAIN feed' = {} /\ todo'.new = {}
  BY <1>1 DEF Done
<1>3. MadeInv'
  BY <1>1, <1>2, MadeSame DEF FInv, MadeInv, Exists, apiVars
<1>4. HeardInv'
  BY <1>1, <1>2 DEF HeardInv
<1>5. NoneForgotten'
  BY <1>1 DEF NoneForgotten, Exists, apiVars
<1>6. QED  BY <1>1, <1>3, <1>4, <1>5 DEF FInv

LEMMA FInvNext == FInv /\ [Next]_vars => FInv'
<1> SUFFICES ASSUME FInv, [Next]_vars PROVE FInv'
  OBVIOUS
<1>1. CASE UNCHANGED vars
  <2>1. IInv'
    BY <1>1, InvNext DEF FInv
  <2>2. UNCHANGED <<phase, nads, feed, lanCache, nadCache, queue, todo, failures>>
    BY <1>1 DEF vars, operatorVars, apiVars
  <2>3. MadeInv' /\ HeardInv'
    BY <2>2 DEF FInv, MadeInv, Made, GetNADs, HeardInv, Removal
  <2>4. NoneForgotten'
    BY <2>2 DEF FInv, NoneForgotten, SpokesApart, GetNADs, Hides, Named
  <2>5. QED  BY <2>1, <2>3, <2>4 DEF FInv
<1>2. QED
  BY <1>1, LanForgets, CollectForgets, LanSyncForgets, ResyncForgets, ReconcileForgets,
     NadSyncForgets, CreateForgets, CreateFailsForgets, RestartForgets DEF Next

\* A definition that a live LAN lacks is on its way, however old the caches are
\* that Reconcile has worked from (lan_controller.go:59-86, 97-102).
THEOREM DefinitionsComing == Spec => []NoneForgotten
<1>1. FInv => NoneForgotten
  BY DEF FInv
<1>2. QED  BY FInvInit, FInvNext, <1>1, PTL DEF Spec

\* At rest: everything is heard of, done, and collected.
AtRest ==
    /\ \A n \in Name : lanCache \intersect Named(n) = Living(n)
    /\ feed = << >> /\ queue = {} /\ todo = Done
    /\ \A d \in nads : Exists(phase[d.owner])

\* "the operator creates two net-attach-def for each spoke" (design.md:32): when
\* nothing is left to do, every live LAN has all of its own definitions, if no
\* Create has failed and spoke names are not shared (lan_controller.go:52-90).
THEOREM DefinedAtRest ==
    Spec => [](AtRest /\ failures = 0 =>
                  \A l \in Lan : phase[l] = "live" /\ SpokesApart(l) => Defined(l))
<1>1. FInv => (AtRest /\ failures = 0 =>
                  \A l \in Lan : phase[l] = "live" /\ SpokesApart(l) => Defined(l))
  <2> SUFFICES ASSUME FInv, AtRest, failures = 0, NEW l \in Lan,
                      phase[l] = "live", SpokesApart(l), NEW d \in GetNADs(l, l), d \notin nads
               PROVE  FALSE
    BY DEF Defined
  <2>1. Coming(l, d)
    BY ForgottenParts DEF FInv, Lacks
  <2>2. l \in Named(nameOf[l]) /\ nameOf[l] \in Name /\ l \in Living(nameOf[l])
    BY LanAssumption DEF Named, Living, Exists
  <2>3. l \in lanCache /\ nameOf[l] \notin queue /\ d \notin todo.new
    BY <2>2 DEF AtRest, Done
  <2>4. ASSUME NEW e \in nads, Hides(e, d)
        PROVE  FALSE
    <3>1. d.owner = l
      BY OwnNads
    <3>2. e.owner \in Lan /\ nameOf[e.owner] = nameOf[l] /\ e.owner # l
      BY <2>4, <3>1 DEF Hides, Named
    <3>3. Exists(phase[e.owner]) /\ Exists(phase[l])
      BY DEF AtRest, Exists
    <3>4. QED  BY <3>2, <3>3 DEF FInv, IInv, UniqueNames
  <2>5. DOMAIN feed = {}
    BY DEF AtRest
  <2>6. QED  BY <2>1, <2>3, <2>4, <2>5 DEF Coming
<1>2. QED  BY FInvInit, FInvNext, <1>1, PTL DEF Spec
=============================================================================
