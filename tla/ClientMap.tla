------------------------------ MODULE ClientMap ------------------------------
(* WC_ClientMap: the driver's table of HAL clients.                          *)
(*                                                                           *)
(* The real-time IO threads read the main maps under mMapsMutex.  Everybody  *)
(* else works on the shadow maps under mShadowMapsMutex: modify the shadow,  *)
(* have the real-time worker of WC_TaskQueue swap shadow and main, then      *)
(* repeat the modification on what is the shadow now.  A pointer of a list   *)
(* is the ID of the client it points at, in the client map on the same side; *)
(* the lists are sets, and an absent list is the empty set.                  *)
(*                                                                           *)
(* The synchronous task that asks for the swap is its contract here: it runs *)
(* once, on the worker, before the caller goes on (TaskQueue has the rest).  *)
EXTENDS ClientTypes

CONSTANTS
    Thread,          \* non-real-time callers
    IOThread,        \* HAL real-time threads, which look clients up by ID
    Free,            \* nobody holds the mutex
    RTWorker         \* the task queue's real-time worker thread

ASSUME OwnersAssumption == Free \notin Thread \cup IOThread \cup {RTWorker}
                           /\ RTWorker \notin IOThread

VARIABLES
    mClientMap, mClientMapByPID, mClientMapByBundleID,
    mClientMapShadow, mClientMapByPIDShadow, mClientMapByBundleIDShadow,
    mPastClientMap,      \* bundle -> the volume of the last client added with it
    mShadowMapsMutex, mMapsMutex,
    pc, op, ret,         \* per caller: place, call in progress, value to return,
    theClient,           \* and the copy of the client it adds or removes
    ioPC, workerPC

mainMaps == <<mClientMap, mClientMapByPID, mClientMapByBundleID>>
shadowMaps == <<mClientMapShadow, mClientMapByPIDShadow, mClientMapByBundleIDShadow>>
realTime == <<mMapsMutex, ioPC, workerPC>>
caller == <<pc, op, ret, theClient>>
vars == <<mainMaps, shadowMaps, mPastClientMap, mShadowMapsMutex, realTime, caller>>

NoVolume == NoClient                          \* no entry in mPastClientMap

TypeOK ==
    /\ mClientMap \in [ClientID -> Client \cup {NoClient}]
    /\ mClientMapShadow \in [ClientID -> Client \cup {NoClient}]
    /\ mClientMapByPID \in [PID -> SUBSET ClientID]
    /\ mClientMapByPIDShadow \in [PID -> SUBSET ClientID]
    /\ mClientMapByBundleID \in [Bundle -> SUBSET ClientID]
    /\ mClientMapByBundleIDShadow \in [Bundle -> SUBSET ClientID]
    /\ mPastClientMap \in [Bundle -> Volume \cup {NoVolume}]
    /\ mShadowMapsMutex \in Thread \cup {Free}
    /\ mMapsMutex \in IOThread \cup {RTWorker, Free}
    /\ pc \in [Thread -> {"idle", "locked", "queued", "swapped", "unlock"}]
    /\ op \in [Thread -> Op \cup {NoOp}]
    /\ ret \in [Thread -> {Pending, Ok, Failed} \cup SUBSET Client]
    /\ theClient \in [Thread -> Client \cup {NoClient}]
    /\ ioPC \in [IOThread -> {"idle", "reading"}]
    /\ workerPC \in {"idle", "swapping"}

Init ==
    /\ mClientMap = [i \in ClientID |-> NoClient]
    /\ mClientMapShadow = mClientMap
    /\ mClientMapByPID = [p \in PID |-> {}]
    /\ mClientMapByPIDShadow = mClientMapByPID
    /\ mClientMapByBundleID = [b \in Bundle |-> {}]
    /\ mClientMapByBundleIDShadow = mClientMapByBundleID
    /\ mPastClientMap = [b \in Bundle |-> NoVolume]
    /\ mShadowMapsMutex = Free /\ mMapsMutex = Free
    /\ pc = [t \in Thread |-> "idle"]
    /\ op = [t \in Thread |-> NoOp]
    /\ ret = [t \in Thread |-> Pending]
    /\ theClient = [t \in Thread |-> NoClient]
    /\ ioPC = [r \in IOThread |-> "idle"] /\ workerPC = "idle"

-----------------------------------------------------------------------------
(* Lookups and changes of the shadow maps, as values.                        *)

(* GetClients: the pointers listed under a PID or a bundle ID. *)
GetClients(key) == IF key.by = "pid" THEN mClientMapByPIDShadow[key.pid]
                                     ELSE mClientMapByBundleIDShadow[key.bundle]

WithoutBundle(lists, b) == IF b = NoBundle THEN lists ELSE [lists EXCEPT ![b] = {}]

AddClientToShadowMaps(id, c) ==
    /\ mClientMapShadow' = [mClientMapShadow EXCEPT ![id] = c]
    /\ mClientMapByPIDShadow' = [mClientMapByPIDShadow EXCEPT ![c.pid] = @ \cup {id}]
    /\ mClientMapByBundleIDShadow' =
          IF c.bundle = NoBundle THEN mClientMapByBundleIDShadow
          ELSE [mClientMapByBundleIDShadow EXCEPT ![c.bundle] = @ \cup {id}]
    /\ UNCHANGED mainMaps

(* Mutant: the PID list keeps its pointer to the erased client. *)
EraseClientLeavingPID(id, c) ==
    /\ mClientMapShadow' = [mClientMapShadow EXCEPT ![id] = NoClient]
    /\ mClientMapByBundleID' = WithoutBundle(mClientMapByBundleID, c.bundle)
    /\ UNCHANGED <<mClientMap, mClientMapByPID, mClientMapByPIDShadow, mClientMapByBundleIDShadow>>

(* Both halves of RemoveClient: the bundle's list goes from the main map.    *)
EraseClient(id, c) ==
    /\ mClientMapShadow' = [mClientMapShadow EXCEPT ![id] = NoClient]
    /\ mClientMapByPIDShadow' = [mClientMapByPIDShadow EXCEPT ![c.pid] = {}]
    /\ mClientMapByBundleID' = WithoutBundle(mClientMapByBundleID, c.bundle)
    /\ UNCHANGED <<mClientMap, mClientMapByPID, mClientMapByBundleIDShadow>>

SetInShadowMaps(o) ==
    /\ mClientMapShadow' =
          [i \in ClientID |-> IF i \in GetClients(o.key)
                              THEN WithSetting(mClientMapShadow[i], o)
                              ELSE mClientMapShadow[i]]
    /\ UNCHANGED <<mainMaps, mClientMapByPIDShadow, mClientMapByBundleIDShadow>>

(* Mutant: the flag is set for the new music player, not cleared for the old. *)
SetMusicPlayerFlagsOnly(key) ==
    /\ mClientMapShadow' =
          [i \in ClientID |->
              IF mClientMapShadow[i] # NoClient /\ Matches(key, mClientMapShadow[i])
              THEN [mClientMapShadow[i] EXCEPT !.music = TRUE] ELSE mClientMapShadow[i]]
    /\ UNCHANGED <<mainMaps, mClientMapByPIDShadow, mClientMapByBundleIDShadow>>

UpdateMusicPlayerFlagsInShadowMaps(key) ==
    /\ mClientMapShadow' =
          [i \in ClientID |->
              IF mClientMapShadow[i] = NoClient THEN NoClient
              ELSE [mClientMapShadow[i] EXCEPT !.music = Matches(key, mClientMapShadow[i])]]
    /\ UNCHANGED <<mainMaps, mClientMapByPIDShadow, mClientMapByBundleIDShadow>>
-----------------------------------------------------------------------------
(* A call on thread t: Lock, then First (or Fail, or a read), the worker's   *)
(* swap, then Again, then Unlock.                                            *)

Lock(t) ==
    /\ pc[t] = "idle" /\ mShadowMapsMutex = Free
    /\ mShadowMapsMutex' = t
    /\ \E o \in Op : op' = [op EXCEPT ![t] = o]
    /\ pc' = [pc EXCEPT ![t] = "locked"]
    /\ UNCHANGED <<mainMaps, shadowMaps, mPastClientMap, realTime, ret, theClient>>

(* SwapInShadowMaps: the caller waits for its synchronous task. *)
QueueSwap(t, c, r) ==
    /\ pc' = [pc EXCEPT ![t] = "queued"]
    /\ theClient' = [theClient EXCEPT ![t] = c]
    /\ ret' = [ret EXCEPT ![t] = r]
    /\ UNCHANGED <<mPastClientMap, mShadowMapsMutex, realTime, op>>

(* "This client has been a client in the past": it gets its volume back.     *)
Restored(c) ==
    IF c.bundle # NoBundle /\ mPastClientMap[c.bundle] # NoVolume
    THEN [c EXCEPT !.vol = mPastClientMap[c.bundle]]
    ELSE c

AddClient(t) ==
    LET o == op[t]  c == Restored(o.client) IN
    /\ pc[t] = "locked" /\ o.kind = "Add" /\ mClientMapShadow[o.id] = NoClient
    /\ AddClientToShadowMaps(o.id, c)
    /\ QueueSwap(t, c, Ok)

(* theClient is copied out of the shadow map before the entry is erased.     *)
RemoveClient(t) ==
    LET o == op[t] IN
    /\ pc[t] = "locked" /\ o.kind = "Remove" /\ mClientMapShadow[o.id] # NoClient
    /\ EraseClient(o.id, mClientMapShadow[o.id])
    /\ QueueSwap(t, mClientMapShadow[o.id], Ok)

(* SetClientsRelativeVolume, SetClientsPanPosition, SetClientsEQBandGains.   *)
SetClients(t) ==
    LET o == op[t] IN
    /\ pc[t] = "locked" /\ o.kind \in {"SetVolume", "SetGains"}
    /\ SetInShadowMaps(o)
    /\ QueueSwap(t, NoClient, Found(GetClients(o.key)))

UpdateMusicPlayerFlags(t) ==
    LET o == op[t] IN
    /\ pc[t] = "locked" /\ o.kind = "Music"
    /\ UpdateMusicPlayerFlagsInShadowMaps(o.key)
    /\ QueueSwap(t, NoClient, Ok)

(* The second half of each modification, on the maps swapped out.            *)
Again(t) ==
    LET o == op[t]  c == theClient[t] IN
    /\ pc[t] = "swapped"
    /\ \/ /\ o.kind = "Add"
          /\ mClientMapShadow[o.id] = NoClient        \* throws otherwise
          /\ AddClientToShadowMaps(o.id, c)
          /\ mPastClientMap' = IF c.bundle = NoBundle THEN mPastClientMap
                               ELSE [mPastClientMap EXCEPT ![c.bundle] = c.vol]
       \/ o.kind = "Remove" /\ EraseClient(o.id, c) /\ UNCHANGED mPastClientMap
       \/ /\ o.kind \in {"SetVolume", "SetGains"}
          /\ SetInShadowMaps(o) /\ UNCHANGED mPastClientMap
       \/ /\ o.kind = "Music"
          /\ UpdateMusicPlayerFlagsInShadowMaps(o.key) /\ UNCHANGED mPastClientMap
    /\ pc' = [pc EXCEPT ![t] = "unlock"]
    /\ UNCHANGED <<mShadowMapsMutex, realTime, op, ret, theClient>>

(* The calls that queue no swap: the two that throw, and the two reads.      *)
Answer(t, r) ==
    /\ ret' = [ret EXCEPT ![t] = r]
    /\ pc' = [pc EXCEPT ![t] = "unlock"]
    /\ UNCHANGED <<mainMaps, shadowMaps, mPastClientMap, mShadowMapsMutex, realTime, op, theClient>>

Throw(t) ==
    LET o == op[t] IN
    /\ pc[t] = "locked"
    /\ \/ o.kind = "Add" /\ mClientMapShadow[o.id] # NoClient
       \/ o.kind = "Remove" /\ mClientMapShadow[o.id] = NoClient
    /\ Answer(t, Failed)

GetClientNonRT(t) ==
    /\ pc[t] = "locked" /\ op[t].kind = "Get"
    /\ Answer(t, {mClientMapShadow[op[t].id]} \ {NoClient})

GetClientsByPID(t) ==
    /\ pc[t] = "locked" /\ op[t].kind = "GetByPID"
    /\ Answer(t, {mClientMapShadow[i] : i \in GetClients(op[t].key)})

Unlock(t) ==
    /\ pc[t] = "unlock"
    /\ mShadowMapsMutex' = Free
    /\ pc' = [pc EXCEPT ![t] = "idle"]
    /\ op' = [op EXCEPT ![t] = NoOp]
    /\ ret' = [ret EXCEPT ![t] = Pending]
    /\ theClient' = [theClient EXCEPT ![t] = NoClient]
    /\ UNCHANGED <<mainMaps, shadowMaps, mPastClientMap, realTime>>
-----------------------------------------------------------------------------
(* Real-time threads.                                                        *)

(* SwapInShadowMapsRT, in two steps so that a reader can be met in between.  *)
WorkerLock ==
    /\ workerPC = "idle" /\ mMapsMutex = Free
    /\ \E t \in Thread : pc[t] = "queued"
    /\ mMapsMutex' = RTWorker /\ workerPC' = "swapping"
    /\ UNCHANGED <<mainMaps, shadowMaps, mPastClientMap, mShadowMapsMutex, ioPC, caller>>

(* Mutant: the bundle ID maps are not swapped with the others. *)
SwapWithoutBundles ==
    /\ workerPC = "swapping"
    /\ \E t \in Thread : pc[t] = "queued" /\ pc' = [pc EXCEPT ![t] = "swapped"]
    /\ mClientMap' = mClientMapShadow /\ mClientMapShadow' = mClientMap
    /\ mClientMapByPID' = mClientMapByPIDShadow /\ mClientMapByPIDShadow' = mClientMapByPID
    /\ UNCHANGED <<mClientMapByBundleID, mClientMapByBundleIDShadow>>
    /\ mMapsMutex' = Free /\ workerPC' = "idle"
    /\ UNCHANGED <<mPastClientMap, mShadowMapsMutex, ioPC, op, ret, theClient>>

SwapInShadowMapsRT ==
    /\ workerPC = "swapping"
    /\ \E t \in Thread : pc[t] = "queued" /\ pc' = [pc EXCEPT ![t] = "swapped"]
    /\ mClientMap' = mClientMapShadow /\ mClientMapShadow' = mClientMap
    /\ mClientMapByPID' = mClientMapByPIDShadow /\ mClientMapByPIDShadow' = mClientMapByPID
    /\ mClientMapByBundleID' = mClientMapByBundleIDShadow
    /\ mClientMapByBundleIDShadow' = mClientMapByBundleID
    /\ mMapsMutex' = Free /\ workerPC' = "idle"
    /\ UNCHANGED <<mPastClientMap, mShadowMapsMutex, ioPC, op, ret, theClient>>

(* GetClientRT: the lookup itself goes on while the mutex is held.           *)
GetClientRT(r) ==
    /\ ioPC[r] = "idle" /\ mMapsMutex = Free
    /\ mMapsMutex' = r /\ ioPC' = [ioPC EXCEPT ![r] = "reading"]
    /\ UNCHANGED <<mainMaps, shadowMaps, mPastClientMap, mShadowMapsMutex, workerPC, caller>>

(* Mutant: the lookup returns without unlocking. *)
GetClientRTReturnLocked(r) ==
    /\ ioPC[r] = "reading"
    /\ ioPC' = [ioPC EXCEPT ![r] = "idle"]
    /\ UNCHANGED <<mainMaps, shadowMaps, mPastClientMap, mShadowMapsMutex, mMapsMutex, workerPC, caller>>

GetClientRTReturn(r) ==
    /\ ioPC[r] = "reading"
    /\ mMapsMutex' = Free /\ ioPC' = [ioPC EXCEPT ![r] = "idle"]
    /\ UNCHANGED <<mainMaps, shadowMaps, mPastClientMap, mShadowMapsMutex, workerPC, caller>>

Work(t) == \/ AddClient(t) \/ RemoveClient(t) \/ SetClients(t) \/ UpdateMusicPlayerFlags(t)
           \/ Again(t) \/ Throw(t) \/ GetClientNonRT(t) \/ GetClientsByPID(t) \/ Unlock(t)

Next ==
    \/ \E t \in Thread : Lock(t) \/ Work(t)
    \/ WorkerLock \/ SwapInShadowMapsRT
    \/ \E r \in IOThread : GetClientRT(r) \/ GetClientRTReturn(r)

(* A thread that holds a mutex keeps running.  The worker may find mMapsMutex *)
(* taken again and again, but IO threads look clients up once per IO cycle,   *)
(* so it does not lose the mutex to them for ever: strong fairness.  Nobody   *)
(* is made to call anything.                                                  *)
Fairness ==
    /\ \A t \in Thread : WF_vars(Work(t))
    /\ SF_vars(WorkerLock) /\ WF_vars(SwapInShadowMapsRT)
    /\ \A r \in IOThread : WF_vars(GetClientRTReturn(r))

Spec == Init /\ [][Next]_vars
FairSpec == Spec /\ Fairness

-----------------------------------------------------------------------------
(* Properties.                                                               *)

(* Whenever no non-real-time thread holds mShadowMapsMutex, the three main    *)
(* maps equal their shadows: the repeated half of every modification undid    *)
(* what the swap left behind (WC_ClientMap.h:176-178).                        *)
MapsIdenticalWhenUnlocked ==
    mShadowMapsMutex = Free => mainMaps = shadowMaps

(* A pointer list is only ever followed to clients that exist and belong to   *)
(* the list: when a call looks clients up, before and after its swap, and     *)
(* whenever the next one could (GetClients, GetClientsByPID).                 *)
ListedClientsLive ==
    \A key \in Key : \A i \in GetClients(key) :
        \/ mClientMapShadow[i] # NoClient /\ Matches(key, mClientMapShadow[i])
        \/ \E t \in Thread : op[t] # NoOp /\ op[t].kind = "Remove" /\ pc[t] = "queued"

(* The worker swaps the maps only while a non-real-time thread holds the      *)
(* shadow mutex and waits for it, and never while an IO thread reads the main *)
(* map (the assertions of SwapInShadowMapsRT, and mMapsMutex).                *)
SwapExcludesEverybody ==
    workerPC = "swapping" =>
        /\ mShadowMapsMutex # Free /\ pc[mShadowMapsMutex] = "queued"
        /\ \A r \in IOThread : ioPC[r] = "idle"

(* Every call is atomic for its caller, for the other callers and for the     *)
(* IO threads: ClientMap implements ClientRegistry, the swap being the        *)
(* instant at which a modification takes effect.                              *)
Stage == [t \in Thread |-> IF pc[t] \in {"swapped", "unlock"} THEN "done" ELSE "called"]
Told == [t \in Thread |-> IF pc[t] \in {"swapped", "unlock"} THEN ret[t] ELSE Pending]
Registry == INSTANCE ClientRegistry WITH
    clients <- mClientMap,
    call <- op,
    stage <- Stage,
    result <- Told
ImplementsRegistry == Registry!Spec

(* Every call returns: neither mutex is kept, and the swap is never lost.     *)
CallsReturn == \A t \in Thread : pc[t] = "locked" ~> pc[t] = "idle"
=============================================================================
