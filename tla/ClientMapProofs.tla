--------------------------- MODULE ClientMapProofs ---------------------------
(* Proofs about ClientMap for any numbers of clients, threads and IO threads. *)
(*                                                                            *)
(* The inductive invariant says what the maps are at every moment of a call.  *)
(* With no modification under way the main maps equal the shadows and every   *)
(* pointer of a list is live.  From the first half of a modification to the   *)
(* second, one of the two sets of maps is that same good old state and the    *)
(* other is the old state with the call applied (`Halfway`); which is which   *)
(* turns over with the swap.  RemoveClient is the exception the proof has to  *)
(* carry: its bundle list goes from the opposite side.                        *)
EXTENDS ClientMap, TLAPS

-----------------------------------------------------------------------------
(* Sets of maps as values: C by client ID, P by PID, B by bundle ID.          *)

MapsType(C, P, B) ==
    /\ C \in [ClientID -> Client \cup {NoClient}]
    /\ P \in [PID -> SUBSET ClientID]
    /\ B \in [Bundle -> SUBSET ClientID]

PointersLive(C, P, B) ==
    /\ \A p \in PID : \A i \in P[p] : C[i] # NoClient /\ C[i].pid = p
    /\ \A b \in Bundle : \A i \in B[b] : C[i] # NoClient /\ C[i].bundle = b

Good(C, P, B) == MapsType(C, P, B) /\ PointersLive(C, P, B)

List(key, P, B) == IF key.by = "pid" THEN P[key.pid] ELSE B[key.bundle]

Modifies(o) == o.kind \in {"Add", "Remove", "SetVolume", "SetGains", "Music"}

(* D, Q, E is C, P, B after the modification o, which has copied client c. *)
Halfway(o, c, C, P, B, D, Q, E) ==
    /\ Modifies(o)
    /\ o.kind = "Add" =>
         /\ c \in Client /\ C[o.id] = NoClient
         /\ D = [C EXCEPT ![o.id] = c]
         /\ Q = [P EXCEPT ![c.pid] = @ \cup {o.id}]
         /\ E = IF c.bundle = NoBundle THEN B ELSE [B EXCEPT ![c.bundle] = @ \cup {o.id}]
    /\ o.kind = "Remove" =>
         /\ c \in Client /\ C[o.id] = c
         /\ D = [C EXCEPT ![o.id] = NoClient]
         /\ Q = [P EXCEPT ![c.pid] = {}]
         /\ E = WithoutBundle(B, c.bundle)
    /\ o.kind \in {"SetVolume", "SetGains"} =>
         /\ D = [i \in ClientID |-> IF i \in List(o.key, P, B) THEN WithSetting(C[i], o) ELSE C[i]]
         /\ Q = P /\ E = B
    /\ o.kind = "Music" =>
         /\ D = [i \in ClientID |-> IF C[i] = NoClient THEN NoClient
                                    ELSE [C[i] EXCEPT !.music = Matches(o.key, C[i])]]
         /\ Q = P /\ E = B

-----------------------------------------------------------------------------
(* The inductive invariant.                                                  *)

Mutexes ==
    /\ \A t \in Thread : pc[t] # "idle" <=> mShadowMapsMutex = t
    /\ \A t \in Thread : pc[t] # "idle" => op[t] \in Op
    /\ \A r \in IOThread : ioPC[r] = "reading" <=> mMapsMutex = r
    /\ workerPC = "swapping" <=> mMapsMutex = RTWorker
    /\ workerPC = "swapping" => \E t \in Thread : pc[t] = "queued"

Settled ==
    (\A t \in Thread : pc[t] \notin {"queued", "swapped"}) =>
        /\ mainMaps = shadowMaps
        /\ Good(mClientMapShadow, mClientMapByPIDShadow, mClientMapByBundleIDShadow)

(* Old maps in the main ones, new in the shadows, but for Remove's bundles.  *)
BeforeSwap(t) ==
    LET r == op[t].kind = "Remove"
        old == IF r THEN mClientMapByBundleIDShadow ELSE mClientMapByBundleID
        new == IF r THEN mClientMapByBundleID ELSE mClientMapByBundleIDShadow
    IN  /\ Good(mClientMap, mClientMapByPID, old)
        /\ Halfway(op[t], theClient[t], mClientMap, mClientMapByPID, old,
                   mClientMapShadow, mClientMapByPIDShadow, new)

AfterSwap(t) ==
    LET r == op[t].kind = "Remove"
        old == IF r THEN mClientMapByBundleID ELSE mClientMapByBundleIDShadow
        new == IF r THEN mClientMapByBundleIDShadow ELSE mClientMapByBundleID
    IN  /\ Good(mClientMapShadow, mClientMapByPIDShadow, old)
        /\ Halfway(op[t], theClient[t], mClientMapShadow, mClientMapByPIDShadow, old,
                   mClientMap, mClientMapByPID, new)

Phases ==
    /\ Settled
    /\ \A t \in Thread : pc[t] = "queued" => BeforeSwap(t)
    /\ \A t \in Thread : pc[t] = "swapped" => AfterSwap(t)

IInv == TypeOK /\ Mutexes /\ Phases

-----------------------------------------------------------------------------
(* What a call's record holds, and what the setters do to a client.          *)

(* Each kind of call carries its own arguments (the overloads of WC_ClientMap).*)
LEMMA OpFields ==
    ASSUME NEW o \in Op
    PROVE  /\ o.kind \in {"Add", "Remove", "Get"} => o.id \in ClientID
           /\ o.kind = "Add" => o.client \in NewClients
           /\ o.kind = "SetVolume" => o.key \in Key /\ o.value \in Volume
           /\ o.kind = "SetGains" => o.key \in Key /\ o.value \in Gains
           /\ o.kind \in {"Music", "GetByPID"} => o.key \in Key
           /\ o.kind = "GetByPID" => o.key.by = "pid"
  BY DEF Op, AddOp, IdOp, VolumeOp, GainsOp, KeyOp, Key

(* A setter (SetClientsRelativeVolume, SetClientsEQBandGains) leaves a client  *)
(* a client, of the same process and application.                             *)
LEMMA SettingKeepsIdentity ==
    ASSUME NEW o \in Op, o.kind \in {"SetVolume", "SetGains"}, NEW c \in Client
    PROVE  /\ WithSetting(c, o) \in Client
           /\ WithSetting(c, o).pid = c.pid
           /\ WithSetting(c, o).bundle = c.bundle
  <1>1. CASE o.kind = "SetVolume"
    BY <1>1, OpFields DEF WithSetting, Client
  <1>2. CASE o.kind = "SetGains"
    BY <1>2, OpFields DEF WithSetting, Client
  <1>3. QED BY <1>1, <1>2

(* So does UpdateMusicPlayerFlagsInShadowMaps. *)
LEMMA FlagKeepsIdentity ==
    ASSUME NEW c \in Client, NEW m \in BOOLEAN
    PROVE  /\ [c EXCEPT !.music = m] \in Client
           /\ [c EXCEPT !.music = m].pid = c.pid
           /\ [c EXCEPT !.music = m].bundle = c.bundle
  BY DEF Client

(* A modification of well-formed maps gives well-formed maps: types are kept   *)
(* and no list is left with a pointer to a client that is gone or of another   *)
(* process or application (AddClient, RemoveClient, the setters).             *)
LEMMA HalfwayGood ==
    ASSUME NEW o \in Op, NEW c, NEW C, NEW P, NEW B, NEW D, NEW Q, NEW E,
           Good(C, P, B), Halfway(o, c, C, P, B, D, Q, E)
    PROVE  Good(D, Q, E)
  <1> USE DEF Good, MapsType, PointersLive
  <1>1. CASE o.kind = "Add"
    <2>1. o.id \in ClientID /\ c \in Client /\ C[o.id] = NoClient
      BY <1>1, OpFields DEF Halfway
    <2>2. c.pid \in PID /\ c.bundle \in Bundle \cup {NoBundle} /\ c # NoClient
      BY <2>1, AbsentAssumption DEF Client
    <2>3. /\ D = [C EXCEPT ![o.id] = c]
          /\ Q = [P EXCEPT ![c.pid] = @ \cup {o.id}]
          /\ E = IF c.bundle = NoBundle THEN B ELSE [B EXCEPT ![c.bundle] = @ \cup {o.id}]
      BY <1>1 DEF Halfway
    <2>4. MapsType(D, Q, E)
      BY <2>1, <2>2, <2>3
    <2>5. \A p \in PID : \A i \in Q[p] : D[i] # NoClient /\ D[i].pid = p
      BY <2>1, <2>2, <2>3
    <2>6. \A b \in Bundle : \A i \in E[b] : D[i] # NoClient /\ D[i].bundle = b
      BY <2>1, <2>2, <2>3
    <2>7. QED BY <2>4, <2>5, <2>6
  <1>2. CASE o.kind = "Remove"
    <2>1. o.id \in ClientID /\ c \in Client /\ C[o.id] = c
      BY <1>2, OpFields DEF Halfway
    <2>2. c.pid \in PID /\ c.bundle \in Bundle \cup {NoBundle}
      BY <2>1 DEF Client
    <2>3. /\ D = [C EXCEPT ![o.id] = NoClient]
          /\ Q = [P EXCEPT ![c.pid] = {}]
          /\ E = IF c.bundle = NoBundle THEN B ELSE [B EXCEPT ![c.bundle] = {}]
      BY <1>2 DEF Halfway, WithoutBundle
    <2>4. MapsType(D, Q, E)
      BY <2>1, <2>2, <2>3
    <2>5. \A p \in PID : \A i \in Q[p] : D[i] # NoClient /\ D[i].pid = p
      BY <2>1, <2>2, <2>3
    <2>6. \A b \in Bundle : \A i \in E[b] : D[i] # NoClient /\ D[i].bundle = b
      BY <2>1, <2>2, <2>3, AbsentAssumption
    <2>7. QED BY <2>4, <2>5, <2>6
  <1>3. CASE o.kind \in {"SetVolume", "SetGains"}
    <2>1. o.key \in Key /\ Q = P /\ E = B
          /\ D = [i \in ClientID |-> IF i \in List(o.key, P, B) THEN WithSetting(C[i], o) ELSE C[i]]
      BY <1>3, OpFields DEF Halfway
    <2>2. \A i \in List(o.key, P, B) : i \in ClientID /\ C[i] \in Client
      <3>1. CASE o.key.by = "pid"
        <4>1. o.key.pid \in PID
          BY <2>1, <3>1 DEF Key
        <4>2. QED BY <3>1, <4>1 DEF List
      <3>2. CASE o.key.by = "bundle"
        <4>1. o.key.bundle \in Bundle
          BY <2>1, <3>2 DEF Key
        <4>2. QED BY <3>2, <4>1 DEF List
      <3>3. QED BY <2>1, <3>1, <3>2 DEF Key
    <2>3. \A i \in ClientID : C[i] # NoClient => /\ D[i] # NoClient
                                                /\ D[i].pid = C[i].pid
                                                /\ D[i].bundle = C[i].bundle
      BY <2>1, <2>2, <1>3, SettingKeepsIdentity, AbsentAssumption
    <2>4. ASSUME NEW i \in ClientID PROVE D[i] \in Client \cup {NoClient}
      <3>1. CASE i \in List(o.key, P, B)
        <4>1. D[i] = WithSetting(C[i], o)
          BY <2>1, <3>1
        <4>2. QED BY <4>1, <2>2, <3>1, <1>3, SettingKeepsIdentity
      <3>2. CASE i \notin List(o.key, P, B)
        BY <2>1, <3>2
      <3>3. QED BY <3>1, <3>2
    <2>5. D = [i \in ClientID |-> D[i]] /\ Q = P /\ E = B
      BY <2>1
    <2>6. D \in [ClientID -> Client \cup {NoClient}]
      BY <2>4, <2>5, Zenon
    <2>7. QED BY <2>3, <2>5, <2>6
  <1>4. CASE o.kind = "Music"
    <2>1. Q = P /\ E = B
          /\ D = [i \in ClientID |-> IF C[i] = NoClient THEN NoClient
                                     ELSE [C[i] EXCEPT !.music = Matches(o.key, C[i])]]
      BY <1>4 DEF Halfway
    <2>2. ASSUME NEW i \in ClientID
          PROVE  /\ D[i] \in Client \cup {NoClient}
                 /\ C[i] # NoClient => D[i] \in Client /\ D[i].pid = C[i].pid
                                     /\ D[i].bundle = C[i].bundle
      <3>1. CASE C[i] = NoClient
        BY <2>1, <3>1
      <3>2. CASE C[i] # NoClient
        <4>1. C[i] \in Client /\ Matches(o.key, C[i]) \in BOOLEAN
          BY <3>2 DEF Matches
        <4>2. D[i] = [C[i] EXCEPT !.music = Matches(o.key, C[i])]
          BY <2>1, <3>2, Zenon
        <4>3. QED BY <4>1, <4>2, FlagKeepsIdentity
      <3>3. QED BY <3>1, <3>2
    <2>3. \A i \in ClientID : D[i] \in Client \cup {NoClient}
      BY <2>2
    <2>4. \A i \in ClientID : C[i] # NoClient => /\ D[i] # NoClient
                                                /\ D[i].pid = C[i].pid
                                                /\ D[i].bundle = C[i].bundle
      BY <2>2, AbsentAssumption
    <2>5. D = [i \in ClientID |-> D[i]] /\ Q = P /\ E = B
      BY <2>1
    <2>6. D \in [ClientID -> Client \cup {NoClient}]
      BY <2>3, <2>5, Zenon
    <2>7. QED BY <2>4, <2>5, <2>6
  <1>5. QED BY <1>1, <1>2, <1>3, <1>4 DEF Halfway, Modifies

-----------------------------------------------------------------------------
(* Steps of a caller.                                                        *)

(* mShadowMapsMutex admits one caller at a time.                             *)
LEMMA OneHolder ==
    ASSUME Mutexes, NEW t \in Thread, pc[t] # "idle"
    PROVE  mShadowMapsMutex = t /\ op[t] \in Op /\ \A u \in Thread \ {t} : pc[u] = "idle"
  BY DEF Mutexes

(* A caller that holds the mutex and has not queued its swap finds the maps    *)
(* identical and sound.                                                       *)
LEMMA HolderSettled ==
    ASSUME IInv, NEW t \in Thread, pc[t] \in {"locked", "unlock"}
    PROVE  /\ mainMaps = shadowMaps
           /\ Good(mClientMapShadow, mClientMapByPIDShadow, mClientMapByBundleIDShadow)
  BY OneHolder DEF IInv, Phases, Settled

(* The first half of a modification (AddClient, RemoveClient, the setters and  *)
(* UpdateMusicPlayerFlags up to SwapInShadowMaps) leaves the old maps on the   *)
(* main side and the modified ones in the shadows, RemoveClient's bundle list *)
(* the other way round.                                                       *)
LEMMA FirstHalf ==
    ASSUME IInv, NEW t \in Thread,
           \/ AddClient(t) \/ RemoveClient(t) \/ SetClients(t) \/ UpdateMusicPlayerFlags(t)
    PROVE  IInv'
  <1>1. /\ pc[t] = "locked" /\ pc' = [pc EXCEPT ![t] = "queued"]
        /\ UNCHANGED <<mPastClientMap, mShadowMapsMutex, realTime, op>>
    BY DEF AddClient, RemoveClient, SetClients, UpdateMusicPlayerFlags, QueueSwap
  <1>2. op[t] \in Op /\ \A u \in Thread \ {t} : pc[u] = "idle"
    BY <1>1, OneHolder DEF IInv
  <1>3. /\ mClientMap = mClientMapShadow
        /\ mClientMapByPID = mClientMapByPIDShadow
        /\ mClientMapByBundleID = mClientMapByBundleIDShadow
        /\ Good(mClientMapShadow, mClientMapByPIDShadow, mClientMapByBundleIDShadow)
    BY <1>1, HolderSettled DEF mainMaps, shadowMaps
  <1>4. BeforeSwap(t)' /\ theClient' \in [Thread -> Client \cup {NoClient}]
        /\ ret' \in [Thread -> {Pending, Ok, Failed} \cup SUBSET Client]
    <2> USE DEF IInv, TypeOK
    <2>1. CASE AddClient(t)
      <3> DEFINE c == Restored(op[t].client)
      <3>1. op[t].kind = "Add" /\ op[t].id \in ClientID /\ op[t].client \in NewClients
            /\ mClientMapShadow[op[t].id] = NoClient
        BY <2>1, <1>2, OpFields DEF AddClient
      <3>2. c \in Client
        BY <3>1, DefaultsAssumption DEF Restored, NewClients, NewClient, Client, NoVolume
      <3>3. theClient' = [theClient EXCEPT ![t] = c] /\ ret' = [ret EXCEPT ![t] = Ok]
        BY <2>1 DEF AddClient, QueueSwap
      <3>4. AddClientToShadowMaps(op[t].id, c)
        BY <2>1 DEF AddClient
      <3>5. theClient'[t] = c /\ op'[t] = op[t]
        BY <3>3, <1>1
      <3> HIDE DEF c
      <3>6. BeforeSwap(t)'
        BY <1>1, <1>3, <3>1, <3>2, <3>4, <3>5
           DEF BeforeSwap, Halfway, Modifies, AddClientToShadowMaps, mainMaps
      <3>7. QED BY <3>2, <3>3, <3>6
    <2>2. CASE RemoveClient(t)
      <3> DEFINE c == mClientMapShadow[op[t].id]
      <3>1. op[t].kind = "Remove" /\ op[t].id \in ClientID /\ c \in Client
        BY <2>2, <1>2, OpFields DEF RemoveClient
      <3>2. theClient' = [theClient EXCEPT ![t] = c] /\ ret' = [ret EXCEPT ![t] = Ok]
        BY <2>2 DEF RemoveClient, QueueSwap
      <3>3. EraseClient(op[t].id, c)
        BY <2>2 DEF RemoveClient
      <3>4. theClient'[t] = c /\ op'[t] = op[t] /\ c = mClientMap[op[t].id]
        BY <3>2, <1>1, <1>3
      <3> HIDE DEF c
      <3>5. BeforeSwap(t)'
        BY <1>1, <1>3, <3>1, <3>3, <3>4 DEF BeforeSwap, Halfway, Modifies, EraseClient
      <3>6. QED BY <3>1, <3>2, <3>5
    <2>3. CASE SetClients(t)
      <3>1. op[t].kind \in {"SetVolume", "SetGains"} /\ SetInShadowMaps(op[t])
            /\ op'[t] = op[t]
        BY <2>3, <1>1 DEF SetClients
      <3>2. BeforeSwap(t)'
        BY <1>3, <3>1
           DEF BeforeSwap, Halfway, Modifies, SetInShadowMaps, GetClients, List, mainMaps
      <3>3. theClient' = [theClient EXCEPT ![t] = NoClient]
            /\ \E r \in {Ok, Failed} : ret' = [ret EXCEPT ![t] = r]
        BY <2>3 DEF SetClients, QueueSwap, Found
      <3>4. QED BY <3>2, <3>3
    <2>4. CASE UpdateMusicPlayerFlags(t)
      <3>1. op[t].kind = "Music" /\ UpdateMusicPlayerFlagsInShadowMaps(op[t].key)
            /\ op'[t] = op[t]
        BY <2>4, <1>1 DEF UpdateMusicPlayerFlags
      <3>2. BeforeSwap(t)'
        BY <1>3, <3>1
           DEF BeforeSwap, Halfway, Modifies, UpdateMusicPlayerFlagsInShadowMaps, mainMaps
      <3>3. theClient' = [theClient EXCEPT ![t] = NoClient] /\ ret' = [ret EXCEPT ![t] = Ok]
        BY <2>4 DEF UpdateMusicPlayerFlags, QueueSwap
      <3>4. QED BY <3>2, <3>3
    <2>5. QED BY <2>1, <2>2, <2>3, <2>4
  <1>5. TypeOK'
    <2>1. /\ MapsType(mClientMap', mClientMapByPID', mClientMapByBundleID')
          /\ MapsType(mClientMapShadow', mClientMapByPIDShadow', mClientMapByBundleIDShadow')
      BY <1>1, <1>2, <1>4, HalfwayGood DEF BeforeSwap, Good, MapsType
    <2>2. QED BY <1>1, <1>4, <2>1 DEF IInv, TypeOK, MapsType, realTime
  <1>6. Mutexes'
    BY <1>1, <1>2 DEF IInv, Mutexes, TypeOK, realTime
  <1>7. Phases'
    BY <1>1, <1>2, <1>4 DEF Phases, Settled, IInv, TypeOK
  <1>8. QED BY <1>5, <1>6, <1>7 DEF IInv

(* The second half of a modification, on the maps the swap handed over, makes  *)
(* the shadows equal to the main maps again (Again).                          *)
LEMMA SecondHalf ==
    ASSUME IInv, NEW t \in Thread, Again(t)
    PROVE  IInv'
  <1>1. /\ pc[t] = "swapped" /\ pc' = [pc EXCEPT ![t] = "unlock"]
        /\ UNCHANGED <<mShadowMapsMutex, realTime, op, ret, theClient>>
    BY DEF Again
  <1>2. op[t] \in Op /\ \A u \in Thread \ {t} : pc[u] = "idle"
    BY <1>1, OneHolder DEF IInv
  <1>3. AfterSwap(t)
    BY <1>1 DEF IInv, Phases
  <1> DEFINE c == theClient[t]
  <1>4. /\ mClientMap' = mClientMapShadow' /\ mClientMapByPID' = mClientMapByPIDShadow'
        /\ mClientMapByBundleID' = mClientMapByBundleIDShadow'
        /\ Good(mClientMap', mClientMapByPID', mClientMapByBundleID')
        /\ mPastClientMap' \in [Bundle -> Volume \cup {NoVolume}]
    <2>1. CASE op[t].kind = "Add"
      <3>1. AddClientToShadowMaps(op[t].id, c)
            /\ mPastClientMap' = IF c.bundle = NoBundle THEN mPastClientMap
                                 ELSE [mPastClientMap EXCEPT ![c.bundle] = c.vol]
        BY <2>1 DEF Again
      <3>2. c \in Client /\ Good(mClientMap, mClientMapByPID, mClientMapByBundleID)
        BY <2>1, <1>2, <1>3, HalfwayGood DEF AfterSwap, Halfway
      <3>3. mPastClientMap' \in [Bundle -> Volume \cup {NoVolume}]
        BY <3>1, <3>2 DEF IInv, TypeOK, Client
      <3> HIDE DEF c
      <3>4. /\ mClientMap = mClientMapShadow' /\ mClientMapByPID = mClientMapByPIDShadow'
            /\ mClientMapByBundleID = mClientMapByBundleIDShadow'
        BY <2>1, <1>3, <3>1 DEF AfterSwap, Halfway, AddClientToShadowMaps, c
      <3>5. UNCHANGED mainMaps
        BY <3>1 DEF AddClientToShadowMaps
      <3>6. QED BY <2>1, <3>2, <3>3, <3>4, <3>5 DEF mainMaps
    <2>2. CASE op[t].kind = "Remove"
      <3>1. EraseClient(op[t].id, c) /\ UNCHANGED mPastClientMap
        BY <2>2 DEF Again
      <3>2. Good(mClientMap, mClientMapByPID, mClientMapByBundleIDShadow)
        BY <2>2, <1>2, <1>3, HalfwayGood DEF AfterSwap
      <3>3. /\ mClientMap = mClientMapShadow' /\ mClientMapByPID = mClientMapByPIDShadow'
            /\ mClientMapByBundleID' = mClientMapByBundleIDShadow
        BY <2>2, <1>3, <3>1 DEF AfterSwap, Halfway, EraseClient
      <3>4. UNCHANGED <<mClientMap, mClientMapByPID, mClientMapByBundleIDShadow>>
        BY <3>1 DEF EraseClient
      <3>5. QED BY <3>1, <3>2, <3>3, <3>4 DEF IInv, TypeOK
    <2>3. CASE op[t].kind \in {"SetVolume", "SetGains"}
      <3>1. SetInShadowMaps(op[t]) /\ UNCHANGED mPastClientMap
        BY <2>3 DEF Again
      <3>2. Good(mClientMap, mClientMapByPID, mClientMapByBundleID)
        BY <2>3, <1>2, <1>3, HalfwayGood DEF AfterSwap
      <3>3. /\ mClientMap = mClientMapShadow' /\ mClientMapByPID = mClientMapByPIDShadow'
            /\ mClientMapByBundleID = mClientMapByBundleIDShadow'
        BY <2>3, <1>3, <3>1 DEF AfterSwap, Halfway, SetInShadowMaps, GetClients, List
      <3>4. UNCHANGED mainMaps
        BY <3>1 DEF SetInShadowMaps
      <3>5. QED BY <2>3, <3>1, <3>2, <3>3, <3>4 DEF mainMaps, IInv, TypeOK
    <2>4. CASE op[t].kind = "Music"
      <3>1. UpdateMusicPlayerFlagsInShadowMaps(op[t].key) /\ UNCHANGED mPastClientMap
        BY <2>4 DEF Again
      <3>2. Good(mClientMap, mClientMapByPID, mClientMapByBundleID)
        BY <2>4, <1>2, <1>3, HalfwayGood DEF AfterSwap
      <3>3. /\ mClientMap = mClientMapShadow' /\ mClientMapByPID = mClientMapByPIDShadow'
            /\ mClientMapByBundleID = mClientMapByBundleIDShadow'
        BY <2>4, <1>3, <3>1 DEF AfterSwap, Halfway, UpdateMusicPlayerFlagsInShadowMaps
      <3>4. UNCHANGED mainMaps
        BY <3>1 DEF UpdateMusicPlayerFlagsInShadowMaps
      <3>5. QED BY <2>4, <3>1, <3>2, <3>3, <3>4 DEF mainMaps, IInv, TypeOK
    <2>5. QED BY <1>3, <2>1, <2>2, <2>3, <2>4 DEF AfterSwap, Halfway, Modifies
  <1>5. TypeOK'
    BY <1>1, <1>4 DEF IInv, TypeOK, realTime, Good, MapsType
  <1>6. Mutexes'
    BY <1>1, <1>2 DEF IInv, Mutexes, TypeOK, realTime
  <1>7. Phases'
    BY <1>1, <1>2, <1>4 DEF Phases, Settled, IInv, TypeOK, mainMaps, shadowMaps
  <1>8. QED BY <1>5, <1>6, <1>7 DEF IInv

(* The steps of a caller that leave all the maps alone: taking the mutex, a    *)
(* call that throws or only reads, and giving the mutex up.                   *)
LEMMA MapsUntouched ==
    ASSUME IInv, NEW t \in Thread,
           \/ Lock(t) \/ Throw(t) \/ GetClientNonRT(t) \/ GetClientsByPID(t) \/ Unlock(t)
    PROVE  IInv'
  <1>1. UNCHANGED <<mainMaps, shadowMaps, mPastClientMap, realTime>>
    BY DEF Lock, Throw, GetClientNonRT, GetClientsByPID, Answer, Unlock
  <1>2. /\ pc[t] \in {"idle", "locked", "unlock"}
        /\ \E s \in {"idle", "locked", "unlock"} : pc' = [pc EXCEPT ![t] = s]
    BY DEF Lock, Throw, GetClientNonRT, GetClientsByPID, Answer, Unlock
  <1>3. \A u \in Thread \ {t} : pc[u] = "idle"
    <2>1. CASE Lock(t)
      BY <2>1, OwnersAssumption DEF Lock, IInv, Mutexes
    <2>2. CASE pc[t] # "idle"
      BY <2>2, OneHolder DEF IInv
    <2>3. QED BY <2>1, <2>2 DEF Throw, GetClientNonRT, GetClientsByPID, Unlock
  <1>4. mainMaps = shadowMaps
        /\ Good(mClientMapShadow, mClientMapByPIDShadow, mClientMapByBundleIDShadow)
    BY <1>2, <1>3 DEF IInv, Phases, Settled
  <1>5. TypeOK'
    <2>1. ret' \in [Thread -> {Pending, Ok, Failed} \cup SUBSET Client]
      <3>1. CASE Lock(t)
        BY <3>1 DEF Lock, IInv, TypeOK
      <3>2. CASE Throw(t)
        BY <3>2 DEF Throw, Answer, IInv, TypeOK
      <3>3. CASE GetClientNonRT(t)
        <4>1. op[t].id \in ClientID
          BY <3>3, OneHolder, OpFields DEF GetClientNonRT, IInv
        <4>2. {mClientMapShadow[op[t].id]} \ {NoClient} \in SUBSET Client
          BY <4>1 DEF IInv, TypeOK
        <4>3. QED BY <3>3, <4>2 DEF GetClientNonRT, Answer, IInv, TypeOK
      <3>4. CASE GetClientsByPID(t)
        <4>1. op[t].key \in Key /\ op[t].key.by = "pid"
          BY <3>4, OneHolder, OpFields DEF GetClientsByPID, IInv
        <4>2. op[t].key.pid \in PID
          BY <4>1 DEF Key
        <4>3. \A i \in GetClients(op[t].key) : mClientMapShadow[i] \in Client
          BY <4>1, <4>2, <1>4 DEF GetClients, Good, MapsType, PointersLive
        <4>4. {mClientMapShadow[i] : i \in GetClients(op[t].key)} \in SUBSET Client
          BY <4>3
        <4>5. QED BY <3>4, <4>4 DEF GetClientsByPID, Answer, IInv, TypeOK
      <3>5. CASE Unlock(t)
        BY <3>5 DEF Unlock, IInv, TypeOK
      <3>6. QED BY <3>1, <3>2, <3>3, <3>4, <3>5
    <2>2. /\ mShadowMapsMutex' \in Thread \cup {Free}
          /\ op' \in [Thread -> Op \cup {NoOp}]
          /\ theClient' \in [Thread -> Client \cup {NoClient}]
      BY DEF Lock, Throw, GetClientNonRT, GetClientsByPID, Answer, Unlock, IInv, TypeOK
    <2>3. QED BY <1>1, <1>2, <2>1, <2>2 DEF IInv, TypeOK, mainMaps, shadowMaps, realTime
  <1>6. Mutexes'
    <2>1. \A u \in Thread : (pc[u] # "idle" <=> mShadowMapsMutex = u)'
                          /\ (pc[u] # "idle" => op[u] \in Op)'
      BY <1>2, <1>3, OwnersAssumption
         DEF Lock, Throw, GetClientNonRT, GetClientsByPID, Answer, Unlock, IInv, TypeOK, Mutexes
    <2>2. workerPC # "swapping"
      BY <1>2, <1>3 DEF IInv, Mutexes
    <2>3. QED BY <1>1, <2>1, <2>2 DEF IInv, Mutexes, realTime
  <1>7. Phases'
    BY <1>1, <1>2, <1>3, <1>4 DEF Phases, Settled, IInv, TypeOK, mainMaps, shadowMaps
  <1>8. QED BY <1>5, <1>6, <1>7 DEF IInv

-----------------------------------------------------------------------------
(* Steps of the real-time threads.                                           *)

(* Waiting for and holding mMapsMutex disturbs no map.                       *)
LEMMA RealTimeLocks ==
    ASSUME IInv, WorkerLock \/ \E r \in IOThread : GetClientRT(r) \/ GetClientRTReturn(r)
    PROVE  IInv'
  <1>1. UNCHANGED <<mainMaps, shadowMaps, mPastClientMap, mShadowMapsMutex, caller>>
    BY DEF WorkerLock, GetClientRT, GetClientRTReturn
  <1>2. TypeOK'
    BY <1>1 DEF WorkerLock, GetClientRT, GetClientRTReturn, IInv, TypeOK,
                mainMaps, shadowMaps, caller
  <1>3. Mutexes'
    <2>1. \A r \in IOThread : (ioPC[r] = "reading" <=> mMapsMutex = r)'
      BY OwnersAssumption DEF WorkerLock, GetClientRT, GetClientRTReturn, IInv, TypeOK, Mutexes
    <2>2. /\ (workerPC = "swapping" <=> mMapsMutex = RTWorker)'
          /\ workerPC' = "swapping" => \E t \in Thread : pc[t] = "queued"
      BY OwnersAssumption DEF WorkerLock, GetClientRT, GetClientRTReturn, IInv, TypeOK, Mutexes
    <2>3. QED BY <1>1, <2>1, <2>2 DEF IInv, Mutexes, caller
  <1>4. Phases'
    <2>1. UNCHANGED <<mClientMap, mClientMapByPID, mClientMapByBundleID, mClientMapShadow,
                      mClientMapByPIDShadow, mClientMapByBundleIDShadow, pc, op, theClient>>
      BY <1>1 DEF mainMaps, shadowMaps, caller
    <2>2. QED BY <2>1 DEF IInv, Phases, Settled, BeforeSwap, AfterSwap, mainMaps, shadowMaps
  <1>5. QED BY <1>2, <1>3, <1>4 DEF IInv

(* The swap turns "old on the main side" into "old on the shadow side"         *)
(* (SwapInShadowMapsRT).                                                      *)
LEMMA SwapTurns ==
    ASSUME IInv, SwapInShadowMapsRT
    PROVE  IInv'
  <1>1. PICK t \in Thread : pc[t] = "queued" /\ pc' = [pc EXCEPT ![t] = "swapped"]
    BY DEF SwapInShadowMapsRT
  <1>2. op[t] \in Op /\ \A u \in Thread \ {t} : pc[u] = "idle"
    BY <1>1, OneHolder DEF IInv
  <1>3. BeforeSwap(t)
    BY <1>1 DEF IInv, Phases
  <1>4. AfterSwap(t)'
    BY <1>3 DEF BeforeSwap, AfterSwap, SwapInShadowMapsRT
  <1>5. TypeOK'
    BY <1>1 DEF SwapInShadowMapsRT, IInv, TypeOK
  <1>6. Mutexes'
    BY <1>1, <1>2, OwnersAssumption DEF SwapInShadowMapsRT, IInv, TypeOK, Mutexes
  <1>7. Phases'
    BY <1>1, <1>2, <1>4 DEF Phases, Settled, IInv, TypeOK
  <1>8. QED BY <1>5, <1>6, <1>7 DEF IInv

-----------------------------------------------------------------------------
(* Every state of every behaviour satisfies the inductive invariant, whatever  *)
(* the numbers of clients, callers and IO threads and whatever is called.      *)
THEOREM Invariance == Spec => []IInv
  <1>1. Init => IInv
    <2> SUFFICES ASSUME Init PROVE IInv
      OBVIOUS
    <2>1. TypeOK
      BY DEF Init, TypeOK, NoVolume
    <2>2. Mutexes
      BY OwnersAssumption DEF Init, Mutexes
    <2>3. Phases
      BY DEF Init, Phases, Settled, mainMaps, shadowMaps, Good, MapsType, PointersLive
    <2>4. QED BY <2>1, <2>2, <2>3 DEF IInv
  <1>2. IInv /\ [Next]_vars => IInv'
    <2> SUFFICES ASSUME IInv, [Next]_vars PROVE IInv'
      OBVIOUS
    <2>1. ASSUME NEW t \in Thread, Lock(t) \/ Work(t) PROVE IInv'
      BY <2>1, FirstHalf, SecondHalf, MapsUntouched DEF Work
    <2>2. CASE WorkerLock \/ \E r \in IOThread : GetClientRT(r) \/ GetClientRTReturn(r)
      BY <2>2, RealTimeLocks
    <2>3. CASE SwapInShadowMapsRT
      BY <2>3, SwapTurns
    <2>4. CASE UNCHANGED vars
      BY <2>4 DEF vars, mainMaps, shadowMaps, realTime, caller, IInv, TypeOK, Mutexes,
                  Phases, Settled, BeforeSwap, AfterSwap
    <2>5. QED BY <2>1, <2>2, <2>3, <2>4 DEF Next
  <1>3. QED BY <1>1, <1>2, PTL DEF Spec

(* The maps, mutexes and program counters always have their types: in          *)
(* particular no setter ever writes through a dangling pointer of a list.      *)
THEOREM TypeCorrect == Spec => []TypeOK
  <1>1. IInv => TypeOK
    BY DEF IInv
  <1>2. QED BY <1>1, Invariance, PTL

(* The shadow mutex is never free while the maps differ from their shadows     *)
(* (the obligation WC_ClientMap.h:176-178 puts on every modification).        *)
THEOREM MapsIdentical == Spec => []MapsIdenticalWhenUnlocked
  <1>1. IInv => MapsIdenticalWhenUnlocked
    BY OwnersAssumption DEF IInv, Mutexes, Phases, Settled, MapsIdenticalWhenUnlocked
  <1>2. QED BY <1>1, Invariance, PTL

(* The real-time worker swaps the maps only for a caller that holds the shadow *)
(* mutex and waits, and with no IO thread inside a lookup.                    *)
THEOREM SwapExclusive == Spec => []SwapExcludesEverybody
  <1>1. IInv => SwapExcludesEverybody
    BY OwnersAssumption DEF IInv, Mutexes, TypeOK, SwapExcludesEverybody
  <1>2. QED BY <1>1, Invariance, PTL

(* A PID or bundle ID never leads to a client that was removed or belongs to   *)
(* another process or application, at any moment at which it is looked up.    *)
THEOREM PointersAreLive == Spec => []ListedClientsLive
  <1>1. ASSUME IInv PROVE ListedClientsLive
    <2>1. \/ Good(mClientMapShadow, mClientMapByPIDShadow, mClientMapByBundleIDShadow)
          \/ \E t \in Thread : op[t] \in Op /\ op[t].kind = "Remove" /\ pc[t] = "queued"
      <3>1. CASE \A t \in Thread : pc[t] \notin {"queued", "swapped"}
        BY <1>1, <3>1 DEF IInv, Phases, Settled
      <3>2. ASSUME NEW t \in Thread, pc[t] = "queued", op[t].kind # "Remove"
            PROVE  Good(mClientMapShadow, mClientMapByPIDShadow, mClientMapByBundleIDShadow)
        BY <1>1, <3>2, OneHolder, HalfwayGood DEF IInv, Phases, BeforeSwap
      <3>3. ASSUME NEW t \in Thread, pc[t] = "swapped"
            PROVE  Good(mClientMapShadow, mClientMapByPIDShadow, mClientMapByBundleIDShadow)
        <4>1. AfterSwap(t) /\ op[t] \in Op
          BY <1>1, <3>3, OneHolder DEF IInv, Phases
        <4>2. CASE op[t].kind # "Remove"
          BY <4>1, <4>2 DEF AfterSwap
        <4>3. CASE op[t].kind = "Remove"
          <5>1. theClient[t] \in Client
                /\ mClientMapByBundleIDShadow = WithoutBundle(mClientMapByBundleID, theClient[t].bundle)
            BY <4>1, <4>3 DEF AfterSwap, Halfway
          <5>2. Good(mClientMapShadow, mClientMapByPIDShadow, mClientMapByBundleID)
            BY <4>1, <4>3 DEF AfterSwap
          <5>3. QED BY <5>1, <5>2 DEF Good, MapsType, PointersLive, WithoutBundle
        <4>4. QED BY <4>2, <4>3
      <3>4. QED BY <1>1, <3>1, <3>2, <3>3, OneHolder DEF IInv
    <2>2. CASE Good(mClientMapShadow, mClientMapByPIDShadow, mClientMapByBundleIDShadow)
      BY <2>2 DEF ListedClientsLive, GetClients, Key, Matches, Good, MapsType, PointersLive
    <2>3. QED BY <2>1, <2>2, AbsentAssumption DEF ListedClientsLive
  <1>2. QED BY <1>1, Invariance, PTL

-----------------------------------------------------------------------------
(* Refinement.  What a caller will be told, on top of the inductive invariant. *)

Outcome(t) ==
    /\ op[t].kind \in {"Add", "Remove", "Music"} => ret[t] = Ok
    /\ op[t].kind \in {"SetVolume", "SetGains"} =>
          ret[t] = Found(List(op[t].key, mClientMapByPID, mClientMapByBundleID))
    /\ op[t].kind = "Add" => \E v \in Volume : theClient[t] = [op[t].client EXCEPT !.vol = v]

Answers ==
    /\ \A t \in Thread : pc[t] = "idle" => op[t] = NoOp
    /\ \A t \in Thread : pc[t] = "queued" => Outcome(t)

(* The volume a new client gets is its own or one that was set before         *)
(* (AddClient's look into mPastClientMap).                                    *)
LEMMA RestoredVolume ==
    ASSUME TypeOK, NEW c \in NewClients
    PROVE  \E v \in Volume : Restored(c) = [c EXCEPT !.vol = v]
  <1>1. c \in Client /\ c = [c EXCEPT !.vol = c.vol] /\ c.vol \in Volume
    BY DefaultsAssumption DEF NewClients, NewClient, Client
  <1>2. CASE c.bundle # NoBundle /\ mPastClientMap[c.bundle] # NoVolume
    <2>1. mPastClientMap[c.bundle] \in Volume
      BY <1>1, <1>2 DEF TypeOK, Client
    <2>2. QED BY <1>2, <2>1 DEF Restored
  <1>3. CASE ~(c.bundle # NoBundle /\ mPastClientMap[c.bundle] # NoVolume)
    BY <1>1, <1>3 DEF Restored
  <1>4. QED BY <1>2, <1>3

(* No step of anybody disturbs what a caller will be told. *)
LEMMA AnswersStep ==
    ASSUME IInv, Answers, [Next]_vars
    PROVE  Answers'
  <1> USE DEF Answers
  <1>1. ASSUME NEW t \in Thread, Lock(t) PROVE Answers'
    <2>1. pc' = [pc EXCEPT ![t] = "locked"] /\ UNCHANGED <<mainMaps, ret, theClient>>
          /\ \A u \in Thread \ {t} : op'[u] = op[u]
      BY <1>1 DEF Lock, IInv, TypeOK
    <2>2. QED BY <2>1 DEF Outcome, mainMaps, IInv, TypeOK
  <1>2. ASSUME NEW t \in Thread,
               \/ AddClient(t) \/ RemoveClient(t) \/ SetClients(t) \/ UpdateMusicPlayerFlags(t)
        PROVE  Answers'
    <2>1. pc[t] = "locked" /\ pc' = [pc EXCEPT ![t] = "queued"] /\ op' = op
      BY <1>2 DEF AddClient, RemoveClient, SetClients, UpdateMusicPlayerFlags, QueueSwap
    <2>2. op[t] \in Op /\ \A u \in Thread \ {t} : pc[u] = "idle"
      BY <2>1, OneHolder DEF IInv
    <2>3. mClientMapByPID = mClientMapByPIDShadow
          /\ mClientMapByBundleID = mClientMapByBundleIDShadow
      BY <2>1, HolderSettled DEF mainMaps, shadowMaps
    <2>4. Outcome(t)'
      <3>1. CASE AddClient(t)
        <4>1. op[t].kind = "Add" /\ theClient'[t] = Restored(op[t].client) /\ ret'[t] = Ok
          BY <3>1 DEF AddClient, QueueSwap, IInv, TypeOK
        <4>2. \E v \in Volume : Restored(op[t].client) = [op[t].client EXCEPT !.vol = v]
          BY <2>2, <4>1, OpFields, RestoredVolume DEF IInv
        <4>3. QED BY <2>1, <4>1, <4>2 DEF Outcome
      <3>2. CASE RemoveClient(t)
        BY <2>1, <3>2 DEF RemoveClient, QueueSwap, Outcome, IInv, TypeOK
      <3>3. CASE SetClients(t)
        <4>1. /\ op[t].kind \in {"SetVolume", "SetGains"} /\ UNCHANGED mainMaps
              /\ ret'[t] = Found(GetClients(op[t].key))
          BY <3>3 DEF SetClients, SetInShadowMaps, QueueSwap, IInv, TypeOK
        <4>2. QED BY <2>1, <2>3, <4>1 DEF Outcome, GetClients, List, mainMaps
      <3>4. CASE UpdateMusicPlayerFlags(t)
        BY <2>1, <3>4 DEF UpdateMusicPlayerFlags, QueueSwap, Outcome, IInv, TypeOK
      <3>5. QED BY <1>2, <3>1, <3>2, <3>3, <3>4
    <2>5. QED BY <2>1, <2>2, <2>4 DEF IInv, TypeOK
  <1>3. ASSUME NEW t \in Thread, Again(t) PROVE Answers'
    <2>1. /\ pc[t] = "swapped" /\ pc' = [pc EXCEPT ![t] = "unlock"]
          /\ UNCHANGED <<op, ret, theClient>>
      BY <1>3 DEF Again
    <2>2. \A u \in Thread \ {t} : pc[u] = "idle"
      BY <2>1, OneHolder DEF IInv
    <2>3. QED BY <2>1, <2>2 DEF IInv, TypeOK
  <1>4. ASSUME NEW t \in Thread, Throw(t) \/ GetClientNonRT(t) \/ GetClientsByPID(t)
        PROVE  Answers'
    <2>1. /\ pc[t] = "locked" /\ pc' = [pc EXCEPT ![t] = "unlock"] /\ UNCHANGED op
          /\ \E r : ret' = [ret EXCEPT ![t] = r]
      BY <1>4 DEF Throw, GetClientNonRT, GetClientsByPID, Answer
    <2>2. \A u \in Thread \ {t} : pc[u] = "idle"
      BY <2>1, OneHolder DEF IInv
    <2>3. QED BY <2>1, <2>2 DEF IInv, TypeOK
  <1>5. ASSUME NEW t \in Thread, Unlock(t) PROVE Answers'
    <2>1. /\ pc[t] = "unlock" /\ pc' = [pc EXCEPT ![t] = "idle"]
          /\ op' = [op EXCEPT ![t] = NoOp]
      BY <1>5 DEF Unlock
    <2>2. \A u \in Thread \ {t} : pc[u] = "idle"
      BY <2>1, OneHolder DEF IInv
    <2>3. QED BY <2>1, <2>2 DEF IInv, TypeOK
  <1>6. CASE WorkerLock \/ \E r \in IOThread : GetClientRT(r) \/ GetClientRTReturn(r)
    <2>1. UNCHANGED <<mainMaps, caller>>
      BY <1>6 DEF WorkerLock, GetClientRT, GetClientRTReturn
    <2>2. QED BY <2>1 DEF Outcome, mainMaps, caller
  <1>7. CASE SwapInShadowMapsRT
    <2>1. PICK t \in Thread : pc[t] = "queued" /\ pc' = [pc EXCEPT ![t] = "swapped"]
      BY <1>7 DEF SwapInShadowMapsRT
    <2>2. op[t] \in Op /\ \A u \in Thread \ {t} : pc[u] = "idle"
      BY <2>1, OneHolder DEF IInv
    <2>3. QED BY <1>7, <2>1, <2>2 DEF SwapInShadowMapsRT, IInv, TypeOK
  <1>8. CASE UNCHANGED vars
    BY <1>8 DEF vars, mainMaps, caller, Outcome
  <1>9. QED BY <1>1, <1>2, <1>3, <1>4, <1>5, <1>6, <1>7, <1>8 DEF Next, Work

-----------------------------------------------------------------------------
(* The data types mean the same in both specifications.                      *)
LEMMA SameTypes ==
    /\ Registry!Op = Op
    /\ \A key, c : Registry!Matches(key, c) <=> Matches(key, c)
    /\ \A c, o : Registry!WithSetting(c, o) = WithSetting(c, o)
    /\ \A S : Registry!Found(S) = Found(S)
  <1>1. Registry!Op = Op
    BY DEF Registry!Op, Op, Registry!AddOp, AddOp, Registry!IdOp, IdOp, Registry!VolumeOp,
           VolumeOp, Registry!GainsOp, GainsOp, Registry!KeyOp, KeyOp, Registry!Key, Key,
           Registry!NewClients, NewClients, Registry!NewClient, NewClient
  <1>2. QED BY <1>1 DEF Registry!Matches, Matches, Registry!WithSetting, WithSetting,
                        Registry!Found, Found

(* ClientMap implements ClientRegistry: whatever the interleaving of callers,   *)
(* worker and IO threads, every call takes effect in one step (the swap, for a  *)
(* modification) between its start and its return, and reports that effect.    *)
THEOREM Refinement == Spec => ImplementsRegistry
  <1>1. Init => Registry!Init
    BY DEF Init, Registry!Init, Stage, Told
  <1>2. IInv /\ Answers /\ [Next]_vars => [Registry!Next]_(Registry!vars)
    <2> SUFFICES ASSUME IInv, Answers, [Next]_vars PROVE [Registry!Next]_(Registry!vars)
      OBVIOUS
    <2> USE DEF Registry!vars
    <2>1. ASSUME NEW t \in Thread, Lock(t) PROVE Registry!Invoke(t)
      <3>1. op[t] = NoOp /\ \E o \in Op : op' = [op EXCEPT ![t] = o]
        BY <2>1 DEF Lock, Answers
      <3>2. UNCHANGED mClientMap /\ Told' = Told /\ Stage' = Stage
        BY <2>1 DEF Lock, mainMaps, IInv, TypeOK, Stage, Told
      <3>3. QED BY <3>1, <3>2, SameTypes DEF Registry!Invoke
    <2>2. ASSUME NEW t \in Thread,
                 \/ AddClient(t) \/ RemoveClient(t) \/ SetClients(t) \/ UpdateMusicPlayerFlags(t)
          PROVE  UNCHANGED <<mClientMap, op, Stage, Told>>
      <3>1. /\ pc[t] = "locked" /\ pc' = [pc EXCEPT ![t] = "queued"] /\ op' = op
            /\ \E r : ret' = [ret EXCEPT ![t] = r]
        BY <2>2 DEF AddClient, RemoveClient, SetClients, UpdateMusicPlayerFlags, QueueSwap
      <3>2. mClientMap' = mClientMap
        BY <2>2 DEF AddClient, RemoveClient, SetClients, UpdateMusicPlayerFlags,
             AddClientToShadowMaps, EraseClient, SetInShadowMaps,
             UpdateMusicPlayerFlagsInShadowMaps, mainMaps
      <3>3. Told' = Told /\ Stage' = Stage
        BY <3>1 DEF IInv, TypeOK, Stage, Told
      <3>4. QED BY <3>1, <3>2, <3>3
    <2>3. ASSUME NEW t \in Thread, Again(t) PROVE UNCHANGED <<mClientMap, op, Stage, Told>>
      <3>1. pc[t] = "swapped" /\ pc' = [pc EXCEPT ![t] = "unlock"] /\ UNCHANGED <<op, ret>>
        BY <2>3 DEF Again
      <3>2. mClientMap' = mClientMap
        BY <2>3 DEF Again, AddClientToShadowMaps, EraseClient, SetInShadowMaps,
             UpdateMusicPlayerFlagsInShadowMaps, mainMaps
      <3>3. Told' = Told /\ Stage' = Stage
        BY <3>1 DEF IInv, TypeOK, Stage, Told
      <3>4. QED BY <3>1, <3>2, <3>3
    <2>4. ASSUME NEW t \in Thread, Throw(t) \/ GetClientNonRT(t) \/ GetClientsByPID(t)
          PROVE  Registry!TakesEffect(t)
      <3>1. pc[t] = "locked" /\ UNCHANGED <<mClientMap, op>>
        BY <2>4 DEF Throw, GetClientNonRT, GetClientsByPID, Answer, mainMaps
      <3>2. /\ op[t] \in Op /\ op[t] # NoOp /\ mClientMap = mClientMapShadow
            /\ Good(mClientMap, mClientMapByPIDShadow, mClientMapByBundleIDShadow)
        BY <3>1, OneHolder, HolderSettled, AbsentAssumption DEF mainMaps, shadowMaps, IInv
      <3>3. Stage[t] = "called" /\ pc' = [pc EXCEPT ![t] = "unlock"]
        BY <2>4, <3>1 DEF Throw, GetClientNonRT, GetClientsByPID, Answer, Stage, Told
      <3>4. Stage' = [Stage EXCEPT ![t] = "done"]
        BY <3>1, <3>3 DEF IInv, TypeOK, Stage, Told
      <3>5. ASSUME NEW r, Answer(t, r) PROVE Told' = [Told EXCEPT ![t] = r]
        BY <3>5, <3>1 DEF Answer, IInv, TypeOK, Stage, Told
      <3>6. CASE Throw(t)
        BY <3>6, <3>1, <3>2, <3>3, <3>4, <3>5
           DEF Throw, Registry!TakesEffect, Registry!AddTakesEffect,
               Registry!RemoveTakesEffect, Registry!Finish
      <3>7. CASE GetClientNonRT(t)
        BY <3>7, <3>1, <3>2, <3>3, <3>4, <3>5
           DEF GetClientNonRT, Registry!TakesEffect, Registry!ReadTakesEffect, Registry!Finish
      <3>8. CASE GetClientsByPID(t)
        <4> DEFINE S == GetClients(op[t].key)
        <4>1. op[t].kind = "GetByPID" /\ op[t].key.by = "pid" /\ op[t].key.pid \in PID
          BY <3>8, <3>2, OpFields DEF GetClientsByPID, Key
        <4>2. S \in SUBSET {i \in ClientID : mClientMap[i] # NoClient
                                            /\ Matches(op[t].key, mClientMap[i])}
          BY <4>1, <3>2 DEF GetClients, Matches, Good, MapsType, PointersLive
        <4>3. Told' = [Told EXCEPT ![t] = {mClientMap[i] : i \in S}]
          BY <3>8, <3>2, <3>5 DEF GetClientsByPID
        <4> HIDE DEF S
        <4>4. QED BY <3>1, <3>2, <3>3, <3>4, <4>1, <4>2, <4>3, SameTypes
                  DEF Registry!TakesEffect, Registry!ReadTakesEffect, Registry!Finish
      <3>9. QED BY <2>4, <3>6, <3>7, <3>8
    <2>5. ASSUME NEW t \in Thread, Unlock(t) PROVE Registry!Return(t)
      <3>1. pc[t] = "unlock" /\ pc' = [pc EXCEPT ![t] = "idle"]
            /\ op' = [op EXCEPT ![t] = NoOp] /\ UNCHANGED mClientMap
            /\ ret' = [ret EXCEPT ![t] = Pending]
        BY <2>5 DEF Unlock, mainMaps
      <3>2. Stage[t] = "done" /\ Stage' = [Stage EXCEPT ![t] = "called"]
        BY <3>1 DEF IInv, TypeOK, Stage, Told
      <3>3. Told' = [Told EXCEPT ![t] = Pending]
        BY <3>1 DEF IInv, TypeOK, Stage, Told
      <3>4. QED BY <3>1, <3>2, <3>3 DEF Registry!Return
    <2>6. CASE WorkerLock \/ \E r \in IOThread : GetClientRT(r) \/ GetClientRTReturn(r)
      BY <2>6 DEF WorkerLock, GetClientRT, GetClientRTReturn, mainMaps, caller, Stage, Told
    <2>7. ASSUME SwapInShadowMapsRT PROVE \E t \in Thread : Registry!TakesEffect(t)
      <3>1. PICK t \in Thread : pc[t] = "queued" /\ pc' = [pc EXCEPT ![t] = "swapped"]
        BY <2>7 DEF SwapInShadowMapsRT
      <3> DEFINE o == op[t]  c == theClient[t]
      <3>2. o \in Op /\ o # NoOp /\ BeforeSwap(t) /\ Outcome(t)
        BY <3>1, OneHolder, AbsentAssumption DEF IInv, Phases, Answers
      <3>3. mClientMap' = mClientMapShadow /\ UNCHANGED <<op, ret>>
        BY <2>7 DEF SwapInShadowMapsRT
      <3>4. Stage[t] = "called" /\ Stage' = [Stage EXCEPT ![t] = "done"]
            /\ Told' = [Told EXCEPT ![t] = ret[t]]
        BY <3>1, <3>3 DEF IInv, TypeOK, Stage, Told
      <3>5. CASE o.kind = "Add"
        <4>1. mClientMap[o.id] = NoClient /\ mClientMapShadow = [mClientMap EXCEPT ![o.id] = c]
              /\ ret[t] = Ok /\ \E v \in Volume : c = [o.client EXCEPT !.vol = v]
          BY <3>2, <3>5 DEF BeforeSwap, Halfway, Outcome
        <4>2. QED BY <3>2, <3>3, <3>4, <3>5, <4>1
                  DEF Registry!TakesEffect, Registry!AddTakesEffect, Registry!Finish
      <3>6. CASE o.kind = "Remove"
        <4>1. mClientMap[o.id] # NoClient /\ ret[t] = Ok
              /\ mClientMapShadow = [mClientMap EXCEPT ![o.id] = NoClient]
          BY <3>2, <3>6, AbsentAssumption DEF BeforeSwap, Halfway, Outcome
        <4>2. QED BY <3>2, <3>3, <3>4, <3>6, <4>1
                  DEF Registry!TakesEffect, Registry!RemoveTakesEffect, Registry!Finish
      <3>7. CASE o.kind \in {"SetVolume", "SetGains"}
        <4> DEFINE S == List(o.key, mClientMapByPID, mClientMapByBundleID)
        <4>1. /\ ret[t] = Found(S)
              /\ mClientMapShadow = [i \in ClientID |-> IF i \in S THEN WithSetting(mClientMap[i], o)
                                                       ELSE mClientMap[i]]
              /\ Good(mClientMap, mClientMapByPID, mClientMapByBundleID)
          BY <3>2, <3>7 DEF BeforeSwap, Halfway, Outcome
        <4>2. S \in SUBSET {i \in ClientID : mClientMap[i] # NoClient
                                            /\ Matches(o.key, mClientMap[i])}
          <5>1. o.key \in Key
            BY <3>2, <3>7, OpFields
          <5>2. QED BY <5>1, <4>1 DEF List, Key, Matches, Good, MapsType, PointersLive
        <4> HIDE DEF S
        <4>3. QED BY <3>2, <3>3, <3>4, <3>7, <4>1, <4>2, SameTypes
                  DEF Registry!TakesEffect, Registry!SetTakesEffect, Registry!Finish
      <3>8. CASE o.kind = "Music"
        <4>1. /\ ret[t] = Ok
              /\ mClientMapShadow = [i \in ClientID |->
                    IF mClientMap[i] = NoClient THEN NoClient
                    ELSE [mClientMap[i] EXCEPT !.music = Matches(o.key, mClientMap[i])]]
          BY <3>2, <3>8 DEF BeforeSwap, Halfway, Outcome
        <4>2. Registry!MusicTakesEffect(t)
          BY <3>3, <3>4, <3>8, <4>1, Zenon
             DEF Registry!MusicTakesEffect, Registry!Finish, Registry!Matches, Matches
        <4>3. QED BY <3>2, <3>3, <3>4, <4>2 DEF Registry!TakesEffect
      <3>9. QED BY <3>2, <3>5, <3>6, <3>7, <3>8 DEF BeforeSwap, Halfway, Modifies
    <2>8. CASE UNCHANGED vars
      BY <2>8 DEF vars, mainMaps, caller, Stage, Told
    <2>9. QED BY <2>1, <2>2, <2>3, <2>4, <2>5, <2>6, <2>7, <2>8
              DEF Next, Work, Registry!Next
  <1>3. Init => Answers
    BY DEF Init, Answers
  <1>4. QED BY <1>1, <1>2, <1>3, Invariance, AnswersStep, PTL
            DEF Spec, ImplementsRegistry, Registry!Spec
=============================================================================
