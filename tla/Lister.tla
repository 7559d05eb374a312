------------------------------- MODULE Lister -------------------------------
(***************************************************************************)
(* The device-plugin side of the daemon set, on every host: the lister     *)
(* (pkg/deviceplugin/lister.go), which turns the LANs it is sent into the  *)
(* map DeviceList, and the device-plugin manager that runs one plugin per  *)
(* name the lister reports.                                                *)
(*                                                                         *)
(* The reconciler and the lister share two buffered channels and nothing   *)
(* else.  The manager is a library (kubevirt/device-plugin-manager) and    *)
(* external: it runs Discover in a goroutine of its own, receives lists    *)
(* from an unbuffered channel, calls NewPlugin for every listed name that  *)
(* has no plugin yet (one goroutine per name), and then stops the plugins  *)
(* the list does not name.  A plugin that runs already is left as it is.   *)
(***************************************************************************)
EXTENDS LanApi, Naturals, Sequences

CONSTANTS
    Kind,       \* the resources of a spoke: macvtap, and veth (isDummyMac)
    ChanDepth,  \* capacity of either channel (chanDepth)
    None        \* no LAN: a nil *LANSpec

ASSUME ListerAssumption ==
    /\ None \notin Lan
    /\ ChanDepth \in Nat \ {0}

VARIABLES
    addCh,      \* AddChan
    rmCh,       \* RemovChan
    deviceList, \* DeviceList, None where the map has no entry
    offer,      \* <<list>> while report blocks on pluginListCh, else <<>>
    round,      \* handleNewPlugins: whether it runs, its list, what is to start
    plugins     \* the running plugins and the LANSpec each was made with

listerVars == <<addCh, rmCh, deviceList, offer, round, plugins>>

\* GetDPResouceName: one resource name per spoke and kind.
Resource == Spoke \X Kind
ResOf(l) == spokesOf[l] \X Kind

NoDevices == [r \in Resource |-> None]
Idle == [on |-> FALSE, list |-> {}, todo |-> {}]

\* getCurrentPlugins
CurrentPlugins(dl) == {r \in Resource : dl[r] # None}

-----------------------------------------------------------------------------

ListerInit ==
    /\ addCh = [h \in Host |-> <<>>]
    /\ rmCh = [h \in Host |-> <<>>]
    /\ deviceList = [h \in Host |-> NoDevices]
    /\ offer = [h \in Host |-> <<>>]
    /\ round = [h \in Host |-> Idle]
    /\ plugins = [h \in Host |-> NoDevices]

\* Mutant: one more than fits.
CanSend_OffByOne(ch, h) == Len(ch[h]) <= ChanDepth

\* The reconciler's side of the channels; a full channel blocks it.
CanSend(ch, h) == Len(ch[h]) < ChanDepth
AddChanSend(h, l) == addCh' = [addCh EXCEPT ![h] = Append(@, l)]
RemovChanSend(h, l) == rmCh' = [rmCh EXCEPT ![h] = Append(@, l)]

\* Mutant: only the names whose entry changes are reported.
report_Delta(h, dl) ==
    offer' = [offer EXCEPT ![h] =
        LET delta == {r \in CurrentPlugins(dl) : deviceList[h][r] # dl[r]}
        IN  IF delta # {} THEN <<delta>> ELSE <<>>]

\* A list is offered to the manager only when it names something.
report(h, dl) ==
    offer' = [offer EXCEPT ![h] =
        IF CurrentPlugins(dl) # {} THEN <<CurrentPlugins(dl)>> ELSE <<>>]

\* Discover, case AddChan.  The select picks either channel when both have
\* something to read.
DiscoverAdd(h) ==
    /\ offer[h] = <<>>
    /\ addCh[h] # <<>>
    /\ LET l == Head(addCh[h])
           dl == [r \in Resource |-> IF r \in ResOf(l) THEN l ELSE deviceList[h][r]]
       IN  /\ deviceList' = [deviceList EXCEPT ![h] = dl]
           /\ report(h, dl)
    /\ addCh' = [addCh EXCEPT ![h] = Tail(@)]
    /\ UNCHANGED <<rmCh, round, plugins>>

\* Discover, case RemovChan: the entries of the spokes go, whichever LAN put
\* them there.
DiscoverRemove(h) ==
    /\ offer[h] = <<>>
    /\ rmCh[h] # <<>>
    /\ LET l == Head(rmCh[h])
           dl == [r \in Resource |-> IF r \in ResOf(l) THEN None ELSE deviceList[h][r]]
       IN  /\ deviceList' = [deviceList EXCEPT ![h] = dl]
           /\ report(h, dl)
    /\ rmCh' = [rmCh EXCEPT ![h] = Tail(@)]
    /\ UNCHANGED <<addCh, round, plugins>>

-----------------------------------------------------------------------------
\* The manager (external).

\* It takes the offered list; the names that have no plugin are to be started.
ManagerReceive(h) ==
    /\ ~round[h].on
    /\ offer[h] # <<>>
    /\ LET list == Head(offer[h])
       IN  round' = [round EXCEPT ![h] =
               [on |-> TRUE, list |-> list,
                todo |-> {r \in list : plugins[h][r] = None}]]
    /\ offer' = [offer EXCEPT ![h] = <<>>]
    /\ UNCHANGED <<addCh, rmCh, deviceList, plugins>>

\* NewPlugin returns nil for a name that has left DeviceList meanwhile.
NilPlugin(h, r) == r \in round[h].todo /\ deviceList[h][r] = None

\* One goroutine calls NewPlugin and starts what it returns: the plugin holds
\* the LANSpec that DeviceList has at this moment.
StartPlugin(h, r) ==
    /\ r \in round[h].todo
    /\ deviceList[h][r] # None
    /\ plugins' = [plugins EXCEPT ![h][r] = deviceList[h][r]]
    /\ round' = [round EXCEPT ![h].todo = @ \ {r}]
    /\ UNCHANGED <<addCh, rmCh, deviceList, offer>>

\* All are started; the plugins that are not on the list are stopped.
EndRound(h) ==
    /\ round[h].on
    /\ round[h].todo = {}
    /\ plugins' = [plugins EXCEPT ![h] =
           [r \in Resource |-> IF r \in round[h].list THEN @[r] ELSE None]]
    /\ round' = [round EXCEPT ![h] = Idle]
    /\ UNCHANGED <<addCh, rmCh, deviceList, offer>>

\* The process of host h starts again: channels and maps are made anew.
ListerReset(h) ==
    /\ addCh' = [addCh EXCEPT ![h] = <<>>]
    /\ rmCh' = [rmCh EXCEPT ![h] = <<>>]
    /\ deviceList' = [deviceList EXCEPT ![h] = NoDevices]
    /\ offer' = [offer EXCEPT ![h] = <<>>]
    /\ round' = [round EXCEPT ![h] = Idle]
    /\ plugins' = [plugins EXCEPT ![h] = NoDevices]

Discover(h) == DiscoverAdd(h) \/ DiscoverRemove(h)

Manager(h) ==
    \/ ManagerReceive(h)
    \/ \E r \in Resource : StartPlugin(h, r)
    \/ EndRound(h)

\* Two goroutines that go on whenever they can.
ListerFairness(h) == WF_listerVars(Discover(h)) /\ WF_listerVars(Manager(h))

-----------------------------------------------------------------------------
Optional == Lan \union {None}

ListerTypeOK ==
    /\ addCh \in [Host -> Seq(Lan)]
    /\ rmCh \in [Host -> Seq(Lan)]
    /\ \A h \in Host : Len(addCh[h]) <= ChanDepth /\ Len(rmCh[h]) <= ChanDepth
    /\ deviceList \in [Host -> [Resource -> Optional]]
    /\ offer \in [Host -> Seq(SUBSET Resource)]
    /\ round \in [Host -> [on : BOOLEAN, list : SUBSET Resource, todo : SUBSET Resource]]
    /\ plugins \in [Host -> [Resource -> Optional]]

\* The LANs some structure of host h still knows.
InChan(ch, h) == {ch[h][i] : i \in 1..Len(ch[h])}
InMap(m, h) == {m[h][r] : r \in Resource} \ {None}
Known(h) == InChan(addCh, h) \union InMap(deviceList, h) \union InMap(plugins, h)
=============================================================================
