--------------------------- MODULE HALDeviceProofs ---------------------------
(***************************************************************************)
(* Theorems about HALDevice, for any clients, rates, threads and bounds:   *)
(* the map of equalisers has one user at a time and the clients of its     *)
(* device, the clients marked as the music player's are those with its ID, *)
(* no change and no request is lost on the way to the host, and whatever   *)
(* the host or BGMApp asks is answered.                                    *)
(***************************************************************************)
EXTENDS HALDevice, SequenceTheorems, TLAPS

-----------------------------------------------------------------------------
(* The invariant. *)

Changes == {"add", "remove"}
Changing(t) == call[t] # NoCall /\ call[t].op \in Changes

\* What a call of several steps looks like.
IsChange(x) ==
  \E o \in Changes, d \in Instances, c \in Client, a \in {"lock", "map"} :
    x = [op |-> o, device |-> d, client |-> c, at |-> a]
IsOther(x) ==
  \/ x = [op |-> "null", value |-> x.value, at |-> x.at]
  \/ x = [op |-> "volumes", todo |-> x.todo]
  \/ x = [op |-> "gains", todo |-> x.todo]

Types ==
  /\ call = [t \in Thread |-> call[t]]
  /\ \A t \in Thread : call[t] = NoCall \/ IsChange(call[t]) \/ IsOther(call[t])
  /\ clients \in [Instances -> SUBSET Client]
  /\ stateLock \in [Instances -> BOOLEAN]
  /\ ioLock \in [Instances -> {"nobody", "IO", "call"}]
  /\ io \in [Instances -> [at : {"idle", "busy", "eq"}, client : Client]]
  /\ processors = [d \in Instances |-> processors[d]]

\* A call that adds or removes a client holds the device's state mutex, so
\* there is one; at the map it holds the IO mutex as well, as an operation
\* does from beginning to end.
Locked ==
  /\ \A t \in Thread : Changing(t) =>
       /\ stateLock[call[t].device]
       /\ call[t].at = "map" => ioLock[call[t].device] = "call"
  /\ \A t, u \in Thread :
       Changing(t) /\ Changing(u) /\ call[t].device = call[u].device => t = u
  /\ \A d \in Instances : io[d].at # "idle" => ioLock[d] = "IO"

\* The map has the device's clients, but for the one that is being added or
\* removed.
MapMatches ==
  /\ \A d \in Instances : ~stateLock[d] => DOMAIN processors[d] = clients[d]
  /\ \A t \in Thread : Changing(t) =>
       clients[call[t].device] =
         IF call[t].op = "add"
         THEN DOMAIN processors[call[t].device] \cup {call[t].client}
         ELSE DOMAIN processors[call[t].device] \ {call[t].client}

IInv == Types /\ Locked /\ MapMatches

held == <<clients, stateLock, ioLock, processors, io>>

-----------------------------------------------------------------------------
(* Steps that leave the map and its locks alone.                            *)

(* A change in progress names its device and client.                        *)
LEMMA ChangingShape ==
  ASSUME Types, NEW t \in Thread, Changing(t)
  PROVE  /\ call[t].op \in Changes /\ call[t].device \in Instances
         /\ call[t].client \in Client /\ call[t].at \in {"lock", "map"}
         /\ IsChange(call[t])
<1>1. IsChange(call[t])
  BY DEF Types, Changing, IsOther, Changes
<1>2. QED
  BY <1>1 DEF IsChange

(* A step that changes neither calls nor what they hold.                    *)
LEMMA StepElsewhere ==
  ASSUME IInv, UNCHANGED held, UNCHANGED call
  PROVE  IInv'
BY DEF IInv, Types, Locked, MapMatches, held, Changing

(* A call that neither adds nor removes a client begins, goes on or ends.   *)
LEMMA OtherCallGoesOn ==
  ASSUME IInv, NEW t \in Thread, NEW x, UNCHANGED held,
         call' = [call EXCEPT ![t] = x], ~Changing(t), x = NoCall \/ IsOther(x)
  PROVE  IInv'
<1>1. /\ call'[t] = x /\ \A u \in Thread \ {t} : call'[u] = call[u]
      /\ call' = [u \in Thread |-> call'[u]]
  BY DEF IInv, Types
<1>2. \A u \in Thread : call'[u] # NoCall /\ call'[u].op \in Changes
                        => u # t /\ call'[u] = call[u] /\ Changing(u)
  BY <1>1 DEF IsOther, Changes, Changing
<1>3. Types'
  BY <1>1 DEF IInv, Types, held
<1>4. Locked'
  BY <1>2 DEF IInv, Locked, held, Changing
<1>5. MapMatches'
  <2>1. UNCHANGED <<clients, stateLock, processors>>
    BY DEF held
  <2>2. \A d \in Instances : ~stateLock'[d] => DOMAIN processors'[d] = clients'[d]
    BY <2>1 DEF IInv, MapMatches
  <2>3. ASSUME NEW u \in Thread, Changing(u)'
        PROVE  clients'[call'[u].device] =
                 IF call'[u].op = "add"
                 THEN DOMAIN processors'[call'[u].device] \cup {call'[u].client}
                 ELSE DOMAIN processors'[call'[u].device] \ {call'[u].client}
    <3>1. call'[u] = call[u] /\ Changing(u)
      BY <1>2, <2>3 DEF Changing
    <3>2. clients[call[u].device] =
            IF call[u].op = "add"
            THEN DOMAIN processors[call[u].device] \cup {call[u].client}
            ELSE DOMAIN processors[call[u].device] \ {call[u].client}
      BY <3>1 DEF IInv, MapMatches
    <3>3. QED
      BY <2>1, <3>1, <3>2
  <2>4. QED
    BY <2>2, <2>3 DEF MapMatches
<1>6. QED
  BY <1>3, <1>4, <1>5 DEF IInv

(* The host's setters of one step, its reading and the queue.               *)
Elsewhere ==
  \/ BGM_Create \/ BGM_Initialize \/ SetVolume \/ SetMute \/ SetStreamActive
  \/ SetRateOrFormat \/ SetEnabledOutputControls \/ SetMusicPlayerProperty
  \/ SetDebugLogging \/ Null_StartIO \/ Null_StopIO \/ RunBlock \/ Host

(* They leave the map, its locks and the calls alone.                       *)
LEMMA ElsewhereKeeps == Elsewhere => UNCHANGED held /\ UNCHANGED call
<1> USE DEF objects, setup, config, members, locks, equalisers, host, held
<1>1. BGM_Create \/ BGM_Initialize => UNCHANGED held /\ UNCHANGED call
  BY DEF BGM_Create, BGM_Initialize
<1>2. SetVolume \/ SetMute \/ SetStreamActive => UNCHANGED held /\ UNCHANGED call
  BY DEF SetVolume, SetMute, SetStreamActive
<1>3. SetRateOrFormat \/ SetEnabledOutputControls \/ SetMusicPlayerProperty
        \/ SetDebugLogging => UNCHANGED held /\ UNCHANGED call
  BY DEF SetRateOrFormat, SetEnabledOutputControls, SetMusicPlayerProperty,
         SetDebugLogging
<1>4. Null_StartIO \/ Null_StopIO \/ RunBlock => UNCHANGED held /\ UNCHANGED call
  BY DEF Null_StartIO, Null_StopIO, RunBlock
<1>5. Host => UNCHANGED held /\ UNCHANGED call
  BY DEF Host, ReadSize, ReadData, PerformConfigChange, AbortConfigChange
<1>6. QED
  BY <1>1, <1>2, <1>3, <1>4, <1>5 DEF Elsewhere

(* The calls of several steps that are not about clients.                   *)
OtherCall(t) ==
  \/ SetNullDeviceActive(t) \/ App_SetAppVolume(t) \/ App_SetAppEQBandGains(t)
  \/ ChangeNullDevice(t) \/ AnnounceNullDevice(t) \/ SetAppVolumes(t) \/ SetAppEQ(t)

(* A call that adds or removes no client leaves the map and locks alone.    *)
LEMMA OtherCallKeeps ==
  ASSUME IInv, NEW t \in Thread, OtherCall(t)
  PROVE  IInv'
<1> USE DEF objects, setup, config, members, locks, equalisers, host, held
<1>1. CASE SetNullDeviceActive(t)
  <2>1. PICK b \in BOOLEAN : Begin(t, [op |-> "null", value |-> b, at |-> "change"])
    BY <1>1 DEF SetNullDeviceActive
  <2>2. UNCHANGED held
    BY <1>1 DEF SetNullDeviceActive
  <2>3. IsOther([op |-> "null", value |-> b, at |-> "change"])
    BY DEF IsOther
  <2>4. QED
    BY <2>1, <2>2, <2>3, OtherCallGoesOn DEF Begin, Changing
<1>2. CASE App_SetAppVolume(t)
  <2>1. PICK l : Begin(t, [op |-> "volumes", todo |-> l])
    BY <1>2 DEF App_SetAppVolume
  <2>2. UNCHANGED held
    BY <1>2 DEF App_SetAppVolume
  <2>3. IsOther([op |-> "volumes", todo |-> l])
    BY DEF IsOther
  <2>4. QED
    BY <2>1, <2>2, <2>3, OtherCallGoesOn DEF Begin, Changing
<1>3. CASE App_SetAppEQBandGains(t)
  <2>1. PICK l : Begin(t, [op |-> "gains", todo |-> l])
    BY <1>3 DEF App_SetAppEQBandGains
  <2>2. UNCHANGED held
    BY <1>3 DEF App_SetAppEQBandGains
  <2>3. IsOther([op |-> "gains", todo |-> l])
    BY DEF IsOther
  <2>4. QED
    BY <2>1, <2>2, <2>3, OtherCallGoesOn DEF Begin, Changing
<1>4. CASE ChangeNullDevice(t)
  <2>1. /\ Making(t, "null") /\ call' = [call EXCEPT ![t] = [call[t] EXCEPT !.at = "announce"]]
        /\ UNCHANGED held
    BY <1>4 DEF ChangeNullDevice, Continue
  <2>2. IsOther(call[t]) /\ ~Changing(t)
    BY <2>1 DEF IInv, Types, Making, IsChange, Changes, Changing
  <2>3. IsOther([call[t] EXCEPT !.at = "announce"])
    <3>1. call[t] = [op |-> "null", value |-> call[t].value, at |-> call[t].at]
      BY <2>1, <2>2 DEF IsOther, Making
    <3>2. [call[t] EXCEPT !.at = "announce"]
            = [op |-> "null", value |-> call[t].value, at |-> "announce"]
      BY <3>1
    <3>3. QED
      BY <3>2 DEF IsOther
  <2>4. QED
    BY <2>1, <2>2, <2>3, OtherCallGoesOn
<1>5. CASE AnnounceNullDevice(t)
  <2>1. /\ Making(t, "null") /\ call' = [call EXCEPT ![t] = NoCall] /\ UNCHANGED held
    BY <1>5 DEF AnnounceNullDevice, End
  <2>2. ~Changing(t)
    BY <2>1 DEF Making, Changes, Changing
  <2>3. QED
    BY <2>1, <2>2, OtherCallGoesOn
<1>6. CASE SetAppVolumes(t) \/ SetAppEQ(t)
  <2>1. /\ Making(t, "volumes") \/ Making(t, "gains")
        /\ Rest(t) /\ UNCHANGED held
    BY <1>6 DEF SetAppVolumes, SetAppEQ
  <2>2. IsOther(call[t]) /\ ~Changing(t)
    BY <2>1 DEF IInv, Types, Making, IsChange, Changes, Changing
  <2>3. CASE Len(call[t].todo) = 1
    BY <2>1, <2>2, <2>3, OtherCallGoesOn DEF Rest, End
  <2>4. CASE Len(call[t].todo) # 1
    <3>1. call' = [call EXCEPT ![t] = [call[t] EXCEPT !.todo = Tail(@)]]
      BY <2>1, <2>4 DEF Rest, Continue
    <3>2. \/ call[t] = [op |-> "volumes", todo |-> call[t].todo]
          \/ call[t] = [op |-> "gains", todo |-> call[t].todo]
      BY <2>1, <2>2 DEF IsOther, Making
    <3>3. ASSUME NEW o, NEW l, call[t] = [op |-> o, todo |-> l]
          PROVE  [call[t] EXCEPT !.todo = Tail(@)] = [op |-> o, todo |-> Tail(l)]
      <4>1. [[op |-> o, todo |-> l] EXCEPT !.todo = Tail(l)] = [op |-> o, todo |-> Tail(l)]
        <5> DEFINE m == Tail(l)
        <5> HIDE DEF m
        <5>1. [[op |-> o, todo |-> l] EXCEPT !.todo = m] = [op |-> o, todo |-> m]
          OBVIOUS
        <5>2. QED
          BY <5>1 DEF m
      <4>2. [call[t] EXCEPT !.todo = Tail(@)] = [call[t] EXCEPT !.todo = Tail(l)]
        <5>1. call[t].todo = l
          BY <3>3
        <5>2. QED
          BY <5>1, Zenon
      <4>3. QED
        BY <3>3, <4>1, <4>2, Zenon
    <3>4. IsOther([call[t] EXCEPT !.todo = Tail(@)])
      <4>1. CASE call[t] = [op |-> "volumes", todo |-> call[t].todo]
        <5>1. [call[t] EXCEPT !.todo = Tail(@)]
                = [op |-> "volumes", todo |-> Tail(call[t].todo)]
          BY <4>1, <3>3
        <5>2. QED
          BY <5>1 DEF IsOther
      <4>2. CASE call[t] = [op |-> "gains", todo |-> call[t].todo]
        <5>1. [call[t] EXCEPT !.todo = Tail(@)]
                = [op |-> "gains", todo |-> Tail(call[t].todo)]
          BY <4>2, <3>3
        <5>2. QED
          BY <5>1 DEF IsOther
      <4>3. QED
        BY <3>2, <4>1, <4>2
    <3>5. QED
      BY <2>1, <2>2, <3>1, <3>4, OtherCallGoesOn
  <2>5. QED
    BY <2>3, <2>4
<1>7. QED
  BY <1>1, <1>2, <1>3, <1>4, <1>5, <1>6 DEF OtherCall

-----------------------------------------------------------------------------
(* Adding and removing clients.                                             *)

(* A call that adds or removes a client begins, with the state mutex.       *)
LEMMA ChangeBegins ==
  ASSUME IInv, NEW t \in Thread, NEW d \in Instances, NEW c \in Client,
         NEW o \in Changes, ~stateLock[d],
         Begin(t, [op |-> o, device |-> d, client |-> c, at |-> "lock"]),
         stateLock' = [stateLock EXCEPT ![d] = TRUE],
         clients' = [clients EXCEPT
           ![d] = IF o = "add" THEN @ \cup {c} ELSE @ \ {c}],
         UNCHANGED <<ioLock, processors, io>>
  PROVE  IInv'
<1> DEFINE x == [op |-> o, device |-> d, client |-> c, at |-> "lock"]
<1>1. /\ call'[t] = x /\ \A u \in Thread \ {t} : call'[u] = call[u]
      /\ call' = [u \in Thread |-> call'[u]]
  BY DEF IInv, Types, Begin
<1>2. IsChange(x)
  BY DEF IsChange
<1>3. /\ x.op = o /\ x.device = d /\ x.client = c /\ x.at = "lock"
  OBVIOUS
<1> HIDE DEF x
<1>4. ASSUME NEW u \in Thread, Changing(u)
      PROVE  u # t /\ call'[u] = call[u] /\ call[u].device \in Instances /\ call[u].device # d
  <2>1. u # t
    BY <1>4 DEF Begin, Changing
  <2>2. call[u].device \in Instances
    BY <1>4, ChangingShape DEF IInv
  <2>3. stateLock[call[u].device]
    BY <1>4 DEF IInv, Locked
  <2>4. QED
    BY <1>1, <2>1, <2>2, <2>3
<1>5. \A u \in Thread : Changing(u)' => u = t \/ (u # t /\ Changing(u) /\ call'[u] = call[u])
  BY <1>1 DEF Changing
<1>6. Types'
  BY <1>1, <1>2 DEF IInv, Types
<1>7. Locked'
  <2>1. ASSUME NEW u \in Thread, Changing(u)'
        PROVE  /\ stateLock'[call'[u].device]
               /\ call'[u].at = "map" => ioLock'[call'[u].device] = "call"
    <3>1. CASE u = t
      BY <1>1, <1>3, <3>1 DEF IInv, Types
    <3>2. CASE u # t
      BY <1>4, <1>5, <2>1, <3>2 DEF IInv, Types, Locked
    <3>3. QED
      BY <3>1, <3>2
  <2>2. ASSUME NEW u \in Thread, NEW v \in Thread, Changing(u)', Changing(v)',
               call'[u].device = call'[v].device
        PROVE  u = v
    <3>1. CASE u = t
      BY <1>1, <1>3, <1>4, <1>5, <2>2, <3>1
    <3>2. CASE v = t
      BY <1>1, <1>3, <1>4, <1>5, <2>2, <3>2
    <3>3. CASE u # t /\ v # t
      BY <1>5, <2>2, <3>3 DEF IInv, Locked
    <3>4. QED
      BY <3>1, <3>2, <3>3
  <2>3. \A e \in Instances : io'[e].at # "idle" => ioLock'[e] = "IO"
    BY DEF IInv, Locked
  <2>4. QED
    BY <2>1, <2>2, <2>3 DEF Locked
<1>8. MapMatches'
  <2>1. ASSUME NEW e \in Instances, ~stateLock'[e]
        PROVE  DOMAIN processors'[e] = clients'[e]
    BY <2>1 DEF IInv, Types, MapMatches
  <2>2. ASSUME NEW u \in Thread, Changing(u)'
        PROVE  clients'[call'[u].device] =
                 IF call'[u].op = "add"
                 THEN DOMAIN processors'[call'[u].device] \cup {call'[u].client}
                 ELSE DOMAIN processors'[call'[u].device] \ {call'[u].client}
    <3>1. CASE u = t
      <4>1. DOMAIN processors[d] = clients[d]
        BY DEF IInv, MapMatches
      <4>2. clients'[d] = IF o = "add" THEN clients[d] \cup {c} ELSE clients[d] \ {c}
        BY DEF IInv, Types
      <4>3. QED
        BY <1>1, <1>3, <3>1, <4>1, <4>2
    <3>2. CASE u # t
      <4>1. Changing(u) /\ call'[u] = call[u] /\ call[u].device \in Instances
            /\ call[u].device # d
        BY <1>4, <1>5, <2>2, <3>2
      <4>2. clients'[call[u].device] = clients[call[u].device]
        BY <4>1 DEF IInv, Types
      <4>3. QED
        BY <4>1, <4>2 DEF IInv, MapMatches
    <3>3. QED
      BY <3>1, <3>2
  <2>3. QED
    BY <2>1, <2>2 DEF MapMatches
<1>9. QED
  BY <1>6, <1>7, <1>8 DEF IInv

(* It takes the IO mutex.                                                   *)
LEMMA LockIOKeeps ==
  ASSUME IInv, NEW t \in Thread, LockIO(t)
  PROVE  IInv'
<1> DEFINE d == call[t].device
           x == [call[t] EXCEPT !.at = "map"]
<1>1. /\ Changing(t) /\ ioLock[d] = "nobody"
      /\ ioLock' = [ioLock EXCEPT ![d] = "call"]
      /\ call' = [call EXCEPT ![t] = x]
      /\ UNCHANGED <<clients, stateLock, processors, io>>
  BY DEF LockIO, Making, Continue, Changing, Changes, objects, equalisers
<1>2. d \in Instances /\ IsChange(call[t])
  BY <1>1, ChangingShape DEF IInv
<1>3. /\ IsChange(x) /\ x.op = call[t].op /\ x.device = d /\ x.client = call[t].client
      /\ x.at = "map"
  <2>1. PICK o \in Changes, e \in Instances, c \in Client, a \in {"lock", "map"} :
          call[t] = [op |-> o, device |-> e, client |-> c, at |-> a]
    BY <1>2 DEF IsChange
  <2>2. x = [op |-> o, device |-> e, client |-> c, at |-> "map"]
    BY <2>1
  <2>3. QED
    BY <2>1, <2>2 DEF IsChange
<1> HIDE DEF x
<1>4. /\ call'[t] = x /\ \A u \in Thread \ {t} : call'[u] = call[u]
      /\ call' = [u \in Thread |-> call'[u]]
  BY <1>1 DEF IInv, Types
<1>5. \A u \in Thread : Changing(u)' =>
        /\ Changing(u) /\ call'[u].op = call[u].op /\ call'[u].device = call[u].device
        /\ call'[u].client = call[u].client /\ (u = t \/ call'[u].at = call[u].at)
  BY <1>1, <1>3, <1>4 DEF Changing
<1>6. \A u \in Thread : Changing(u) => call[u].device \in Instances
  BY ChangingShape DEF IInv
<1>7. Types'
  BY <1>1, <1>2, <1>3, <1>4 DEF IInv, Types
<1>8. Locked'
  <2>1. ASSUME NEW u \in Thread, Changing(u)'
        PROVE  /\ stateLock'[call'[u].device]
               /\ call'[u].at = "map" => ioLock'[call'[u].device] = "call"
    <3>1. Changing(u) /\ call'[u].device = call[u].device /\ call[u].device \in Instances
          /\ (u = t \/ call'[u].at = call[u].at)
      BY <1>5, <1>6, <2>1
    <3>2. ioLock'[d] = "call" /\ \A e \in Instances \ {d} : ioLock'[e] = ioLock[e]
      BY <1>1, <1>2 DEF IInv, Types
    <3>3. QED
      BY <1>1, <3>1, <3>2 DEF IInv, Locked
  <2>2. \A u, v \in Thread :
          Changing(u)' /\ Changing(v)' /\ call'[u].device = call'[v].device => u = v
    BY <1>5 DEF IInv, Locked
  <2>3. \A e \in Instances : io'[e].at # "idle" => ioLock'[e] = "IO"
    BY <1>1, <1>2 DEF IInv, Types, Locked
  <2>4. QED
    BY <2>1, <2>2, <2>3 DEF Locked
<1>9. MapMatches'
  <2>1. \A u \in Thread : Changing(u)' =>
          clients'[call'[u].device] =
            IF call'[u].op = "add"
            THEN DOMAIN processors'[call'[u].device] \cup {call'[u].client}
            ELSE DOMAIN processors'[call'[u].device] \ {call'[u].client}
    <3>1. SUFFICES ASSUME NEW u \in Thread, Changing(u)'
                   PROVE  clients'[call'[u].device] =
                            IF call'[u].op = "add"
                            THEN DOMAIN processors'[call'[u].device] \cup {call'[u].client}
                            ELSE DOMAIN processors'[call'[u].device] \ {call'[u].client}
      OBVIOUS
    <3>2. clients[call[u].device] =
            IF call[u].op = "add"
            THEN DOMAIN processors[call[u].device] \cup {call[u].client}
            ELSE DOMAIN processors[call[u].device] \ {call[u].client}
      BY <1>5, <3>1 DEF IInv, MapMatches
    <3>3. QED
      BY <1>1, <1>5, <3>1, <3>2
  <2>2. QED
    BY <1>1, <2>1 DEF IInv, MapMatches
<1>10. QED
  BY <1>7, <1>8, <1>9 DEF IInv

(* It changes the map, and lets both mutexes go.                            *)
LEMMA ChangeProcessorsKeeps ==
  ASSUME IInv, NEW t \in Thread, ChangeProcessors(t)
  PROVE  IInv'
<1> DEFINE d == call[t].device
           c == call[t].client
<1>1. /\ Changing(t) /\ call[t].at = "map" /\ call' = [call EXCEPT ![t] = NoCall]
      /\ processors' = [processors EXCEPT
           ![d] = IF call[t].op = "add" THEN With(@, c, Flat) ELSE Without(@, c)]
      /\ ioLock' = [ioLock EXCEPT ![d] = "nobody"]
      /\ stateLock' = [stateLock EXCEPT ![d] = FALSE]
      /\ UNCHANGED <<clients, io>>
  BY DEF ChangeProcessors, Making, End, Changing, Changes, objects
<1>2. d \in Instances
  BY <1>1, ChangingShape DEF IInv
<1>3. /\ call'[t] = NoCall /\ \A u \in Thread \ {t} : call'[u] = call[u]
      /\ call' = [u \in Thread |-> call'[u]]
  BY <1>1 DEF IInv, Types
<1>4. /\ stateLock'[d] = FALSE /\ \A e \in Instances \ {d} : stateLock'[e] = stateLock[e]
      /\ ioLock'[d] = "nobody" /\ \A e \in Instances \ {d} : ioLock'[e] = ioLock[e]
      /\ \A e \in Instances \ {d} : processors'[e] = processors[e]
      /\ processors'[d] = IF call[t].op = "add" THEN With(processors[d], c, Flat)
                          ELSE Without(processors[d], c)
      /\ processors' = [e \in Instances |-> processors'[e]]
  BY <1>1, <1>2 DEF IInv, Types
<1>5. ASSUME NEW u \in Thread, Changing(u)'
      PROVE  u # t /\ call'[u] = call[u] /\ Changing(u)
             /\ call[u].device \in Instances /\ call[u].device # d
  <2>1. u # t /\ call'[u] = call[u] /\ Changing(u)
    BY <1>3, <1>5 DEF Changing
  <2>2. call[u].device # d
    BY <1>1, <2>1 DEF IInv, Locked
  <2>3. call[u].device \in Instances
    BY <2>1, ChangingShape DEF IInv
  <2>4. QED
    BY <2>1, <2>2, <2>3
<1>6. DOMAIN processors'[d] = clients'[d]
  <2>1. clients[d] = IF call[t].op = "add" THEN DOMAIN processors[d] \cup {c}
                     ELSE DOMAIN processors[d] \ {c}
    BY <1>1 DEF IInv, MapMatches
  <2>2. DOMAIN With(processors[d], c, Flat) = DOMAIN processors[d] \cup {c}
    BY DEF With
  <2>3. DOMAIN Without(processors[d], c) = DOMAIN processors[d] \ {c}
    BY DEF Without
  <2>4. QED
    BY <1>1, <1>4, <2>1, <2>2, <2>3
<1>7. Types'
  BY <1>1, <1>2, <1>3, <1>4 DEF IInv, Types
<1>8. Locked'
  <2>1. io[d].at = "idle"
    BY <1>1, <1>2 DEF IInv, Locked
  <2>2. \A e \in Instances : io'[e].at # "idle" => ioLock'[e] = "IO"
    BY <1>1, <1>4, <2>1 DEF IInv, Locked
  <2>3. \A u \in Thread : Changing(u)' =>
          /\ stateLock'[call'[u].device]
          /\ call'[u].at = "map" => ioLock'[call'[u].device] = "call"
    BY <1>4, <1>5 DEF IInv, Locked
  <2>4. \A u, v \in Thread :
          Changing(u)' /\ Changing(v)' /\ call'[u].device = call'[v].device => u = v
    BY <1>5 DEF IInv, Locked
  <2>5. QED
    BY <2>2, <2>3, <2>4 DEF Locked
<1>9. MapMatches'
  <2>1. \A e \in Instances : ~stateLock'[e] => DOMAIN processors'[e] = clients'[e]
    BY <1>1, <1>4, <1>6 DEF IInv, MapMatches
  <2>2. ASSUME NEW u \in Thread, Changing(u)'
        PROVE  clients'[call'[u].device] =
                 IF call'[u].op = "add"
                 THEN DOMAIN processors'[call'[u].device] \cup {call'[u].client}
                 ELSE DOMAIN processors'[call'[u].device] \ {call'[u].client}
    <3>1. /\ Changing(u) /\ call'[u] = call[u]
          /\ call[u].device \in Instances /\ call[u].device # d
      BY <1>5, <2>2
    <3>2. processors'[call[u].device] = processors[call[u].device]
      BY <1>4, <3>1
    <3>3. clients[call[u].device] =
            IF call[u].op = "add"
            THEN DOMAIN processors[call[u].device] \cup {call[u].client}
            ELSE DOMAIN processors[call[u].device] \ {call[u].client}
      BY <3>1 DEF IInv, MapMatches
    <3>4. QED
      BY <1>1, <3>1, <3>2, <3>3
  <2>3. QED
    BY <2>1, <2>2 DEF MapMatches
<1>10. QED
  BY <1>7, <1>8, <1>9 DEF IInv

-----------------------------------------------------------------------------
(* IO operations.                                                           *)

(* An operation begins, with the IO mutex.                                  *)
LEMMA OperationBegins ==
  ASSUME IInv, NEW d \in Instances, NEW c \in Client, NEW o,
         DoIOOperation(d, o, c), UNCHANGED <<clients, stateLock, processors, call>>
  PROVE  IInv'
<1> DEFINE x == IF o = "ProcessOutput" THEN [at |-> "eq", client |-> c]
                ELSE [at |-> "busy", client |-> BGMApp]
<1>1. /\ ioLock[d] = "nobody" /\ ioLock' = [ioLock EXCEPT ![d] = "IO"]
      /\ io' = [io EXCEPT ![d] = x]
  BY DEF DoIOOperation, TakeIOLock
<1>2. x \in [at : {"busy", "eq"}, client : Client]
  <2>1. BGMApp \in Client
    BY HALAssumption
  <2>2. QED
    BY <2>1
<1> HIDE DEF x
<1>3. /\ ioLock'[d] = "IO" /\ \A e \in Instances \ {d} : ioLock'[e] = ioLock[e]
      /\ \A e \in Instances \ {d} : io'[e] = io[e]
  BY <1>1, <1>2 DEF IInv, Types
<1>4. Types'
  BY <1>1, <1>2 DEF IInv, Types
<1>5. Locked'
  <2>1. \A u \in Thread : Changing(u) => call[u].device \in Instances
    BY ChangingShape DEF IInv
  <2>2. QED
    BY <1>1, <1>3, <2>1 DEF IInv, Locked, Changing
<1>6. MapMatches'
  <2>1. MapMatches /\ clients' = clients /\ stateLock' = stateLock
        /\ processors' = processors /\ call' = call
    BY DEF IInv
  <2>2. QED
    BY <2>1, Zenon DEF MapMatches, Changing
<1>7. QED
  BY <1>4, <1>5, <1>6 DEF IInv

(* It ends.  Setting filters up does not change which there are.            *)
LEMMA FinishOperationKeeps ==
  ASSUME IInv, NEW d \in Instances, FinishOperation(d)
  PROVE  IInv'
<1>1. /\ io[d].at # "idle" /\ ioLock' = [ioLock EXCEPT ![d] = "nobody"]
      /\ io' = [io EXCEPT ![d] = Idle] /\ UNCHANGED <<clients, stateLock, call>>
  BY DEF FinishOperation, EndIOOperation, objects
<1>2. /\ ioLock[d] = "IO"
      /\ ioLock'[d] = "nobody" /\ \A e \in Instances \ {d} : ioLock'[e] = ioLock[e]
      /\ io'[d] = Idle /\ \A e \in Instances \ {d} : io'[e] = io[e]
  <2>1. /\ ioLock \in [Instances -> {"nobody", "IO", "call"}]
        /\ io \in [Instances -> [at : {"idle", "busy", "eq"}, client : Client]]
    BY DEF IInv, Types
  <2>2. ioLock[d] = "IO"
    BY <1>1 DEF IInv, Locked
  <2>3. QED
    BY <1>1, <2>1, <2>2
<1>3. /\ \A e \in Instances : DOMAIN processors'[e] = DOMAIN processors[e]
      /\ processors' = [e \in Instances |-> processors'[e]]
  <2>1. CASE UNCHANGED processors
    BY <2>1 DEF IInv, Types
  <2>2. ASSUME NEW k, NEW x, processors' = [processors EXCEPT ![d][k] = x]
        PROVE  /\ \A e \in Instances : DOMAIN processors'[e] = DOMAIN processors[e]
               /\ processors' = [e \in Instances |-> processors'[e]]
    <3>1. processors = [e \in Instances |-> processors[e]]
      BY DEF IInv, Types
    <3>2. processors' = [processors EXCEPT ![d] = [processors[d] EXCEPT ![k] = x]]
      BY <2>2
    <3>3. DOMAIN [processors[d] EXCEPT ![k] = x] = DOMAIN processors[d]
      OBVIOUS
    <3>4. QED
      BY <3>1, <3>2, <3>3
  <2>3. QED
    BY <2>1, <2>2 DEF FinishOperation, ApplyClientEQ
<1>4. Idle \in [at : {"idle", "busy", "eq"}, client : Client] /\ Idle.at = "idle"
  BY HALAssumption DEF Idle
<1>5. Types'
  BY <1>1, <1>3, <1>4 DEF IInv, Types
<1>6. Locked'
  <2>1. \A u \in Thread : Changing(u) => call[u].device \in Instances
    BY ChangingShape DEF IInv
  <2>2. QED
    BY <1>1, <1>2, <1>4, <2>1 DEF IInv, Locked, Changing
<1>7. MapMatches'
  <2>1. \A u \in Thread : Changing(u) => call[u].device \in Instances
    BY ChangingShape DEF IInv
  <2>2. QED
    BY <1>1, <1>3, <2>1 DEF IInv, MapMatches, Changing
<1>8. QED
  BY <1>5, <1>6, <1>7 DEF IInv

-----------------------------------------------------------------------------
(* The theorems.                                                            *)

(* The invariant of the map of equalisers holds at first.                   *)
LEMMA InvInit == Init => IInv
<1> SUFFICES ASSUME Init PROVE IInv
  OBVIOUS
<1>1. \A t \in Thread : call[t] = NoCall
  BY DEF Init
<1>2. Idle \in [at : {"idle", "busy", "eq"}, client : Client] /\ Idle.at = "idle"
  BY HALAssumption DEF Idle
<1>3. Types
  BY <1>1, <1>2 DEF Init, Types
<1>4. Locked
  BY <1>1, <1>2 DEF Init, Locked, Changing
<1>5. MapMatches
  BY <1>1 DEF Init, MapMatches, Changing
<1>6. QED
  BY <1>3, <1>4, <1>5 DEF IInv

(* Every step is one of the groups above.                                   *)
LEMMA InvStep == IInv /\ [Next]_vars => IInv'
<1> SUFFICES ASSUME IInv, [Next]_vars PROVE IInv'
  OBVIOUS
<1>1. CASE UNCHANGED vars
  BY <1>1, StepElsewhere DEF vars, objects, locks, equalisers, held
<1>2. CASE Elsewhere
  BY <1>2, ElsewhereKeeps, StepElsewhere
<1>3. CASE \E t \in Thread : OtherCall(t)
  BY <1>3, OtherCallKeeps
<1>4. ASSUME NEW t \in Thread, BGM_AddDeviceClient(t) PROVE IInv'
  <2>1. PICK d \in Instances, c \in Client : AddClient(t, d, c)
    BY <1>4 DEF BGM_AddDeviceClient
  <2>2. /\ ~stateLock[d]
        /\ Begin(t, [op |-> "add", device |-> d, client |-> c, at |-> "lock"])
        /\ stateLock' = [stateLock EXCEPT ![d] = TRUE]
        /\ clients' = [clients EXCEPT ![d] = @ \cup {c}]
        /\ UNCHANGED <<ioLock, processors, io>>
    BY <2>1 DEF AddClient, Clients_AddClient, equalisers
  <2>3. QED
    BY <2>2, ChangeBegins DEF Changes
<1>5. ASSUME NEW t \in Thread, BGM_RemoveDeviceClient(t) PROVE IInv'
  <2>1. PICK d \in Instances, c \in Client : RemoveClient(t, d, c)
    BY <1>5 DEF BGM_RemoveDeviceClient
  <2>2. /\ ~stateLock[d]
        /\ Begin(t, [op |-> "remove", device |-> d, client |-> c, at |-> "lock"])
        /\ stateLock' = [stateLock EXCEPT ![d] = TRUE]
        /\ clients' = [clients EXCEPT ![d] = @ \ {c}]
        /\ UNCHANGED <<ioLock, processors, io>>
    BY <2>1 DEF RemoveClient, Clients_RemoveClient, equalisers
  <2>3. QED
    BY <2>2, ChangeBegins DEF Changes
<1>6. ASSUME BGM_DoIOOperation PROVE IInv'
  <2>1. UNCHANGED <<clients, stateLock, processors, call>>
    BY <1>6 DEF BGM_DoIOOperation, objects
  <2>2. CASE \E d \in Instances, c \in Client : \E o : DoIOOperation(d, o, c)
    BY <2>1, <2>2, OperationBegins
  <2>3. CASE Null_DoIOOperation
    BY <2>1, <2>3, StepElsewhere DEF Null_DoIOOperation, held
  <2>4. QED
    BY <1>6, <2>2, <2>3 DEF BGM_DoIOOperation
<1>7. QED
  BY <1>1, <1>2, <1>3, <1>4, <1>5, <1>6, LockIOKeeps, ChangeProcessorsKeeps,
     FinishOperationKeeps
     DEF Next, BGM_SetPropertyData, CallSteps, Elsewhere, OtherCall

(* The strengthening: a call holds the mutexes of its place, and the map    *)
(* differs from the device's clients by the one it is about.                *)
THEOREM Invariance == Spec => []IInv
<1>1. Init => IInv
  BY InvInit
<1>2. IInv /\ [Next]_vars => IInv'
  BY InvStep
<1>3. QED
  BY <1>1, <1>2, PTL DEF Spec

(* No client is inserted into the map of equalisers or erased while the IO  *)
(* thread looks one up, and between calls the map has the device's clients  *)
(* (AddClient, RemoveClient and ApplyClientEQ of WC_Device).                *)
THEOREM MapHeldByOne == Spec => []EQMapHeldByOne
<1>1. IInv => EQMapHeldByOne
  <2> SUFFICES ASSUME IInv PROVE EQMapHeldByOne
    OBVIOUS
  <2>1. ASSUME NEW t \in BusyCalls, call[t].op \in {"add", "remove"}, call[t].at = "map"
        PROVE  io[call[t].device].at # "eq"
    <3>1. t \in Thread /\ Changing(t)
      BY <2>1 DEF BusyCalls, Changing, Changes
    <3>2. call[t].device \in Instances /\ ioLock[call[t].device] = "call"
      BY <2>1, <3>1, ChangingShape DEF IInv, Locked
    <3>3. QED
      BY <3>2 DEF IInv, Locked
  <2>2. QED
    BY <2>1 DEF EQMapHeldByOne, IInv, MapMatches
<1>2. QED
  BY <1>1, Invariance, PTL

-----------------------------------------------------------------------------
(* The music player.                                                        *)

MarkedInv ==
  /\ clients \in [Instances -> SUBSET Client]
  /\ marked \in [Instances -> SUBSET Client]
  /\ music \in [Instances -> [pid : Players, bundle : Players]]
  /\ PlayersMarked

flagged == <<clients, marked, music>>

(* Setting an ID unsets the other and goes through the clients.             *)
LEMMA SetMusicPlayerMarks ==
  ASSUME MarkedInv, NEW d \in Instances, NEW id \in {"pid", "bundle"},
         NEW player \in Players, UNCHANGED clients,
         SetMusicPlayer(d, id, player)
  PROVE  MarkedInv'
<1>1. CASE music[d][id] = player
  BY <1>1 DEF MarkedInv, PlayersMarked, SetMusicPlayer, IsPlayer
<1>2. CASE music[d][id] # player
  <2>1. /\ music' = [music EXCEPT ![d][id] = player, ![d][OtherID(id)] = "nobody"]
        /\ marked' = [marked EXCEPT ![d] = {c \in clients[d] : IsPlayer(c, player)}]
    BY <1>2 DEF SetMusicPlayer, UpdateMusicPlayerFlags
  <2>2. /\ music' \in [Instances -> [pid : Players, bundle : Players]]
        /\ \A e \in Instances \ {d} : music'[e] = music[e]
        /\ \/ music'[d].pid = player /\ music'[d].bundle = "nobody"
           \/ music'[d].bundle = player /\ music'[d].pid = "nobody"
    BY <2>1 DEF MarkedInv, OtherID, Players
  <2>3. /\ marked' \in [Instances -> SUBSET Client]
        /\ \A e \in Instances \ {d} : marked'[e] = marked[e]
        /\ marked'[d] = {c \in clients[d] : IsPlayer(c, player)}
    BY <2>1 DEF MarkedInv
  <2>4. \A c : ~IsPlayer(c, "nobody")
    BY DEF IsPlayer
  <2>5. PlayersMarked'
    BY <2>2, <2>3, <2>4 DEF MarkedInv, PlayersMarked, IsPlayer
  <2>6. QED
    BY <2>2, <2>3, <2>5 DEF MarkedInv
<1>3. QED
  BY <1>1, <1>2

(* A client that comes is marked if it is the player's, one that goes is    *)
(* marked no more.                                                          *)
LEMMA ClientsMarked ==
  ASSUME MarkedInv, NEW d \in Instances, NEW c \in Client, UNCHANGED music,
         Clients_AddClient(d, c) \/ Clients_RemoveClient(d, c)
  PROVE  MarkedInv'
<1>1. CASE Clients_AddClient(d, c)
  BY <1>1 DEF Clients_AddClient, MarkedInv, PlayersMarked, IsPlayer
<1>2. CASE Clients_RemoveClient(d, c)
  BY <1>2 DEF Clients_RemoveClient, MarkedInv, PlayersMarked, IsPlayer
<1>3. QED
  BY <1>1, <1>2

(* Calls of other kinds do not mark clients.                                *)
LEMMA OthersMarkNothing ==
  ASSUME NEW t \in Thread
  PROVE  OtherCall(t) \/ LockIO(t) \/ ChangeProcessors(t) => UNCHANGED flagged
BY DEF OtherCall, SetNullDeviceActive, App_SetAppVolume, App_SetAppEQBandGains,
       ChangeNullDevice, AnnounceNullDevice, SetAppVolumes, SetAppEQ, LockIO,
       ChangeProcessors, objects, members, flagged

ElsewhereUnmarked ==
  \/ BGM_Create \/ BGM_Initialize \/ SetVolume \/ SetMute \/ SetStreamActive
  \/ SetRateOrFormat \/ SetEnabledOutputControls \/ SetDebugLogging
  \/ Null_StartIO \/ Null_StopIO \/ RunBlock \/ Host

(* Nor do the other steps.                                                  *)
LEMMA ElsewhereMarksNothing == ElsewhereUnmarked => UNCHANGED flagged
<1> USE DEF objects, members, flagged
<1>1. BGM_Create \/ BGM_Initialize => UNCHANGED flagged
  BY DEF BGM_Create, BGM_Initialize
<1>2. SetVolume \/ SetMute \/ SetStreamActive => UNCHANGED flagged
  BY DEF SetVolume, SetMute, SetStreamActive
<1>3. SetRateOrFormat \/ SetEnabledOutputControls \/ SetDebugLogging => UNCHANGED flagged
  BY DEF SetRateOrFormat, SetEnabledOutputControls, SetDebugLogging
<1>4. Null_StartIO \/ Null_StopIO \/ RunBlock => UNCHANGED flagged
  BY DEF Null_StartIO, Null_StopIO, RunBlock
<1>5. Host => UNCHANGED flagged
  BY DEF Host, ReadSize, ReadData, PerformConfigChange, AbortConfigChange
<1>6. QED
  BY <1>1, <1>2, <1>3, <1>4, <1>5 DEF ElsewhereUnmarked

(* The clients marked as the music player's are those with one of its IDs,  *)
(* in whatever order clients come and go and the player's IDs are set       *)
(* (AddClient, SetMusicPlayer and UpdateMusicPlayerFlags of WC_Clients).    *)
THEOREM PlayersStayMarked == Spec => []PlayersMarked
<1>1. Init => MarkedInv
  <2>1. ASSUME Init PROVE PlayersMarked
    BY <2>1 DEF Init, PlayersMarked
  <2>2. ASSUME Init PROVE /\ clients \in [Instances -> SUBSET Client]
                          /\ marked \in [Instances -> SUBSET Client]
                          /\ music \in [Instances -> [pid : Players, bundle : Players]]
    BY <2>2 DEF Init, Players
  <2>3. QED
    BY <2>1, <2>2 DEF MarkedInv
<1>2. ASSUME MarkedInv, [Next]_vars PROVE MarkedInv'
  <2>1. CASE UNCHANGED flagged
    BY <1>2, <2>1 DEF MarkedInv, PlayersMarked, IsPlayer, flagged
  <2>2. CASE SetMusicPlayerProperty
    <3>1. PICK d \in Instances, player \in Players :
            SetMusicPlayer(d, "pid", player) \/ SetMusicPlayer(d, "bundle", player)
      BY <2>2 DEF SetMusicPlayerProperty
    <3>2. UNCHANGED clients
      BY <2>2 DEF SetMusicPlayerProperty
    <3>3. QED
      BY <1>2, <3>1, <3>2, SetMusicPlayerMarks
  <2>3. CASE \E t \in Thread : BGM_AddDeviceClient(t)
    <3>1. PICK t \in Thread : BGM_AddDeviceClient(t)
      BY <2>3
    <3>2. PICK d \in Instances, c \in Client : AddClient(t, d, c)
      BY <3>1 DEF BGM_AddDeviceClient
    <3>3. Clients_AddClient(d, c) /\ UNCHANGED music
      BY <3>2 DEF AddClient
    <3>4. QED
      BY <1>2, <3>3, ClientsMarked
  <2>4. CASE \E t \in Thread : BGM_RemoveDeviceClient(t)
    <3>1. PICK t \in Thread : BGM_RemoveDeviceClient(t)
      BY <2>4
    <3>2. PICK d \in Instances, c \in Client : RemoveClient(t, d, c)
      BY <3>1 DEF BGM_RemoveDeviceClient
    <3>3. Clients_RemoveClient(d, c) /\ UNCHANGED music
      BY <3>2 DEF RemoveClient
    <3>4. QED
      BY <1>2, <3>3, ClientsMarked
  <2>5. CASE ElsewhereUnmarked
    BY <2>1, <2>5, ElsewhereMarksNothing
  <2>6. CASE \E t \in Thread : OtherCall(t) \/ LockIO(t) \/ ChangeProcessors(t)
    BY <2>1, <2>6, OthersMarkNothing
  <2>7. CASE BGM_DoIOOperation \/ \E d \in Instances : FinishOperation(d)
    <3>1. ASSUME NEW d \in Instances, FinishOperation(d) PROVE UNCHANGED flagged
      BY <3>1 DEF FinishOperation, objects, members, flagged
    <3>2. BGM_DoIOOperation => UNCHANGED flagged
      BY DEF BGM_DoIOOperation, objects, members, flagged
    <3>3. QED
      BY <2>1, <2>7, <3>1, <3>2
  <2>8. CASE UNCHANGED vars
    BY <2>1, <2>8 DEF vars, objects, members, flagged
  <2>9. QED
    BY <1>2, <2>2, <2>3, <2>4, <2>5, <2>6, <2>7, <2>8
       DEF Next, BGM_SetPropertyData, CallSteps, ElsewhereUnmarked, OtherCall
<1>3. MarkedInv => PlayersMarked
  BY DEF MarkedInv
<1>4. QED
  BY <1>1, <1>2, <1>3, PTL DEF Spec

-----------------------------------------------------------------------------
(* The answers.                                                             *)

Lists == {"PlugIn"} \X {"DeviceList", "OwnedObjects"}
Settings == Instances \X {"AppVolumes", "AppEQ"}
Flags == Instances \X {"DebugLogging"}
Enabled(d) == <<VolumeControl[d] \in active, MuteControl[d] \in active>>
Listing(k) == IF k[2] = "AppVolumes" THEN AppVolumes(k[1]) ELSE AppEQ(k[1])

\* What a watched property is read from.
Source(k) ==
  IF k[1] = "PlugIn" THEN "Null" \in active
  ELSE CASE k[2] = "DeviceIsAlive" -> "Null" \in active
         [] k[2] = "DeviceIsRunning" -> nullIO > 0
         [] k[2] = "Value" -> muted
         [] k[2] = "ScalarValue" -> level[k[1]]
         [] k[2] = "IsActive" -> on[k[1]]
         [] k[2] = "VirtualFormat" -> format[k[1]]
         [] k[2] \in {"OwnedObjects", "ControlList", "EnabledOutputControls"} ->
              Enabled(k[1])
         [] k[2] = "NominalSampleRate" -> rate[k[1]]
         [] k[2] = "MusicPlayerProcessID" -> music[k[1]].pid
         [] k[2] = "MusicPlayerBundleID" -> music[k[1]].bundle
         [] k[2] = "DebugLogging" -> debug
         [] OTHER -> Listing(k)

Number(x) == (IF x[1] THEN 1 ELSE 0) + (IF x[2] THEN 1 ELSE 0)
OneIf(b, o) == IF b THEN <<o>> ELSE <<>>
ControlsOf(d, x) == OneIf(x[1], VolumeControl[d]) \o OneIf(x[2], MuteControl[d])
SizeFor(k, x) ==
  IF k[1] = "PlugIn" THEN IF x THEN 3 ELSE 2
  ELSE CASE k[2] = "OwnedObjects" -> 2 + Number(x)
         [] k[2] = "ControlList" -> Number(x)
         [] OTHER -> 1
DataFor(k, x) ==
  IF k[1] = "PlugIn" THEN <<"Device", "UI">> \o OneIf(x, "Null")
  ELSE CASE k[2] = "OwnedObjects" ->
              <<InputStream[k[1]], OutputStream[k[1]]>> \o ControlsOf(k[1], x)
         [] k[2] = "ControlList" -> ControlsOf(k[1], x)
         [] k[2] = "ScalarValue" -> <<ConvertRawToScalar(Curve[k[1]], x)>>
         [] OTHER -> <<x>>
Size(k) == SizeFor(k, Source(k))
Data(k) == DataFor(k, Source(k))

Answered(k) == Room(k) = Size(k) /\ Read(k, Size(k)) = Data(k)

(* A list for which there is room is given whole.                           *)
LEMMA WholeList ==
  ASSUME NEW S, NEW s \in Seq(S)
  PROVE  List(Len(s), s) = Answer(s)
<1>1. SubSeq(s, 1, Len(s)) = s
  OBVIOUS
<1>2. QED
  BY <1>1 DEF List, Answer

(* What two sequences make together.                                        *)
LEMMA Joined ==
  \A S : \A s, t \in Seq(S) : s \o t \in Seq(S) /\ Len(s \o t) = Len(s) + Len(t)
BY ConcatProperties

(* An object that is listed if it is active takes room for one then.        *)
LEMMA SizeOfOne ==
  ASSUME NEW S, NEW o \in S, NEW b \in BOOLEAN
  PROVE  OneIf(b, o) \in Seq(S) /\ Len(OneIf(b, o)) = IF b THEN 1 ELSE 0
<1>1. <<o>> \in Seq(S) /\ Len(<<o>>) = 1
  OBVIOUS
<1>2. <<>> \in Seq(S) /\ Len(<<>>) = 0
  BY EmptySeq
<1>3. QED
  BY <1>1, <1>2 DEF OneIf

(* The objects by name.                                                     *)
LEMMA AllObjects ==
  Objects = {"PlugIn", "Null", "NullOut", "Device", "UI", "In", "Out", "Volume", "Mute",
             "UIIn", "UIOut", "UIVolume"}
<1>1. SubObjects("Device") = {"In", "Out", "Volume", "Mute"}
  BY DEF SubObjects, InputStream, OutputStream, VolumeControl, MuteControl
<1>2. SubObjects("UI") = {"UIIn", "UIOut", "UIVolume"}
  BY DEF SubObjects, InputStream, OutputStream, VolumeControl, MuteControl
<1>3. QED
  BY <1>1, <1>2 DEF Objects, Instances

(* Each object is asked as its class.                                       *)
LEMMA AskedOf ==
  ASSUME NEW o \in Objects, NEW p, HasProperty(o, p, "Global")
  PROVE  /\ Room(<<o, p>>) = SizeOf(o, p, "Global")
         /\ \A room : Read(<<o, p>>, room) = DataOf(o, p, "Global", room).data
<1>1. LookUpOwnerObject(o) /\ BGM_HasProperty(o, p, "Global")
  BY DEF LookUpOwnerObject, BGM_HasProperty
<1>2. QED
  BY <1>1 DEF Room, Read, BGM_GetPropertyDataSize, BGM_GetPropertyData

(* The plug-in is asked for what it has.                                    *)
LEMMA PlugInAsked ==
  ASSUME NEW o \in {"PlugIn"}, NEW p, PlugIn_Has(p)
  PROVE  /\ Room(<<o, p>>) = PlugIn_Size(p)
         /\ \A room : Read(<<o, p>>, room) = PlugIn_Get(p, room).data
<1>1. o \in Objects
  BY AllObjects DEF Instances, Streams, Volumes
<1>2. /\ HasProperty(o, p, "Global")
      /\ SizeOf(o, p, "Global") = PlugIn_Size(p)
      /\ \A room : DataOf(o, p, "Global", room) = PlugIn_Get(p, room)
  BY DEF HasProperty, SizeOf, DataOf, Instances, Streams, Volumes
<1>3. QED
  BY <1>1, <1>2, AskedOf

(* The Null Device likewise.                                                *)
LEMMA NullAsked ==
  ASSUME NEW o \in {"Null"}, NEW p, Null_Has(p)
  PROVE  /\ Room(<<o, p>>) = Null_Size(p)
         /\ \A room : Read(<<o, p>>, room) = Null_Get(p, "Global", room).data
<1>1. o \in Objects
  BY AllObjects DEF Instances, Streams, Volumes
<1>2. /\ HasProperty(o, p, "Global")
      /\ SizeOf(o, p, "Global") = Null_Size(p)
      /\ \A room : DataOf(o, p, "Global", room) = Null_Get(p, "Global", room)
  BY DEF HasProperty, SizeOf, DataOf, Instances, Streams, Volumes
<1>3. QED
  BY <1>1, <1>2, AskedOf

(* The mute control likewise.                                               *)
LEMMA MuteAsked ==
  ASSUME NEW o \in {"Mute"}, NEW p, Mute_Has(p)
  PROVE  /\ Room(<<o, p>>) = Mute_Size(p)
         /\ \A room : Read(<<o, p>>, room) = Mute_Get(o, p, room).data
<1>1. o \in Objects
  BY AllObjects DEF Instances, Streams, Volumes
<1>2. /\ HasProperty(o, p, "Global")
      /\ SizeOf(o, p, "Global") = Mute_Size(p)
      /\ \A room : DataOf(o, p, "Global", room) = Mute_Get(o, p, room)
  BY DEF HasProperty, SizeOf, DataOf, Instances, Streams, Volumes
<1>3. QED
  BY <1>1, <1>2, AskedOf

(* The volume controls likewise.                                            *)
LEMMA VolumeAsked ==
  ASSUME NEW o \in Volumes, NEW p, Volume_Has(p)
  PROVE  /\ Room(<<o, p>>) = Volume_Size(p)
         /\ \A room : Read(<<o, p>>, room) = Volume_Get(o, p, room).data
<1>1. o \in Objects
  BY AllObjects DEF Instances, Streams, Volumes
<1>2. /\ HasProperty(o, p, "Global")
      /\ SizeOf(o, p, "Global") = Volume_Size(p)
      /\ \A room : DataOf(o, p, "Global", room) = Volume_Get(o, p, room)
  BY DEF HasProperty, SizeOf, DataOf, Instances, Streams, Volumes
<1>3. QED
  BY <1>1, <1>2, AskedOf

(* The streams likewise.                                                    *)
LEMMA StreamAsked ==
  ASSUME NEW o \in Streams, NEW p, Stream_Has(p)
  PROVE  /\ Room(<<o, p>>) = Stream_Size(p)
         /\ \A room : Read(<<o, p>>, room) = Stream_Get(o, p, room).data
<1>1. o \in Objects
  BY AllObjects DEF Instances, Streams, Volumes
<1>2. /\ HasProperty(o, p, "Global")
      /\ SizeOf(o, p, "Global") = Stream_Size(p)
      /\ \A room : DataOf(o, p, "Global", room) = Stream_Get(o, p, room)
  BY DEF HasProperty, SizeOf, DataOf, Instances, Streams, Volumes
<1>3. QED
  BY <1>1, <1>2, AskedOf

(* Both instances of the virtual device likewise.                           *)
LEMMA InstanceAsked ==
  ASSUME NEW o \in Instances, NEW p, Device_HasProperty(p, "Global")
  PROVE  /\ Room(<<o, p>>) = Device_GetPropertyDataSize(o, p, "Global")
         /\ \A room : Read(<<o, p>>, room) = Device_GetPropertyData(o, p, "Global", room).data
<1>1. o \in Objects
  BY AllObjects DEF Instances, Streams, Volumes
<1>2. /\ HasProperty(o, p, "Global")
      /\ SizeOf(o, p, "Global") = Device_GetPropertyDataSize(o, p, "Global")
      /\ \A room : DataOf(o, p, "Global", room) = Device_GetPropertyData(o, p, "Global", room)
  BY DEF HasProperty, SizeOf, DataOf, Instances, Streams, Volumes
<1>3. QED
  BY <1>1, <1>2, AskedOf

(* The two lists of devices have as many as their size says (WC_PlugIn).    *)
LEMMA PlugInAnswers == \A k \in Lists : Answered(k)
<1> SUFFICES ASSUME NEW p \in {"DeviceList", "OwnedObjects"}
             PROVE  Answered(<<"PlugIn", p>>)
  BY DEF Lists
<1> DEFINE k == <<"PlugIn", p>>
<1>1. PlugIn_Has(p)
  BY DEF PlugIn_Has, Object_Has, PlugInProperties, ObjectProperties
<1>2. Room(k) = PlugIn_Size(p) /\ \A room : Read(k, room) = PlugIn_Get(p, room).data
  BY <1>1, PlugInAsked
<1>3. Room(k) = IF "Null" \in active THEN 3 ELSE 2
  BY <1>2 DEF PlugIn_Size, PlugInProperties
<1>4. \A room : Read(k, room) = DeviceList(room).data
  BY <1>2 DEF PlugIn_Get
<1>5. /\ DeviceList(Size(k)) = List(Size(k), Data(k))
      /\ Room(k) = Size(k)
  BY <1>3 DEF DeviceList, Size, Data, SizeFor, DataFor, Source, IfActive, OneIf
<1>6. Data(k) \in Seq({"Device", "UI", "Null"}) /\ Len(Data(k)) = Size(k)
  <2>1. Data(k) = <<"Device", "UI">> \o OneIf("Null" \in active, "Null")
    BY DEF Data, DataFor, Source
  <2>2. /\ OneIf("Null" \in active, "Null") \in Seq({"Device", "UI", "Null"})
        /\ Len(OneIf("Null" \in active, "Null")) = IF "Null" \in active THEN 1 ELSE 0
    BY SizeOfOne DEF OneIf
  <2>3. /\ <<"Device", "UI">> \in Seq({"Device", "UI", "Null"}) /\ Len(<<"Device", "UI">>) = 2
    OBVIOUS
  <2>4. /\ Data(k) \in Seq({"Device", "UI", "Null"})
        /\ Len(Data(k)) = 2 + IF "Null" \in active THEN 1 ELSE 0
    <3> DEFINE pair == <<"Device", "UI">>
               one == OneIf("Null" \in active, "Null")
    <3> HIDE DEF pair, one, k
    <3>1. /\ pair \in Seq({"Device", "UI", "Null"}) /\ one \in Seq({"Device", "UI", "Null"})
          /\ Len(pair) = 2 /\ Len(one) = IF "Null" \in active THEN 1 ELSE 0
          /\ Data(k) = pair \o one
      BY <2>1, <2>2, <2>3 DEF pair, one
    <3>2. pair \o one \in Seq({"Device", "UI", "Null"}) /\ Len(pair \o one) = Len(pair) + Len(one)
      BY <3>1, Joined, Zenon
    <3>3. QED
      BY <3>1, <3>2
  <2>5. Size(k) = 2 + IF "Null" \in active THEN 1 ELSE 0
    BY DEF Size, SizeFor, Source
  <2>6. QED
    BY <2>4, <2>5
<1>7. QED
  BY <1>4, <1>5, <1>6, WholeList DEF Answered, Answer

(* The Null Device, the controls and the streams.                           *)
LEMMA NullAnswers ==
  Answered(<<"Null", "DeviceIsAlive">>) /\ Answered(<<"Null", "DeviceIsRunning">>)
<1>1. ASSUME NEW p \in {"DeviceIsAlive", "DeviceIsRunning"}
      PROVE  /\ Room(<<"Null", p>>) = 1
             /\ Read(<<"Null", p>>, 1) = Null_Get(p, "Global", 1).data
  <2>1. Null_Has(p)
    BY DEF Null_Has, Abstract_Has, AbstractProperties, AnsweredBySubclass, AbstractValues
  <2>2. Null_Size(p) = 1
    BY DEF Null_Size, Abstract_Size, AbstractProperties, AnsweredBySubclass, AbstractValues
  <2>3. QED
    BY <2>1, <2>2, NullAsked
<1>2. QED
  BY <1>1 DEF Answered, Size, Data, SizeFor, DataFor, Source, Null_Get, NullConstants, Scalar,
     Answer

(* The value of a control is one item (WC_VolumeControl, WC_MuteControl).   *)
LEMMA ControlAnswers ==
  Answered(<<"Mute", "Value">>) /\ \A o \in Volumes : Answered(<<o, "ScalarValue">>)
<1>1. Answered(<<"Mute", "Value">>)
  <2>1. Mute_Has("Value") /\ Mute_Size("Value") = 1
    BY DEF Mute_Has, Mute_Size
  <2>2. Room(<<"Mute", "Value">>) = 1 /\ Read(<<"Mute", "Value">>, 1) = <<muted>>
    BY <2>1, MuteAsked DEF Mute_Get, Scalar, Answer
  <2>3. QED
    BY <2>2 DEF Answered, Size, Data, SizeFor, DataFor, Source
<1>2. ASSUME NEW o \in Volumes PROVE Answered(<<o, "ScalarValue">>)
  <2>1. Volume_Has("ScalarValue") /\ Volume_Size("ScalarValue") = 1
    BY DEF Volume_Has, Volume_Size, VolumeProperties, VolumeSettable
  <2>2. /\ Room(<<o, "ScalarValue">>) = 1
        /\ Read(<<o, "ScalarValue">>, 1) = Volume_Get(o, "ScalarValue", 1).data
    BY <2>1, VolumeAsked
  <2>3. Volume_Get(o, "ScalarValue", 1) = Answer(<<ConvertRawToScalar(Curve[o], level[o])>>)
    BY DEF Volume_Get, Scalar
  <2>4. QED
    BY <2>2, <2>3 DEF Answer, Answered, Size, Data, SizeFor, DataFor, Source, Volumes
<1>3. QED
  BY <1>1, <1>2

(* So are whether a stream is active and its format (WC_Stream).            *)
LEMMA StreamAnswers ==
  \A s \in Streams : Answered(<<s, "IsActive">>) /\ Answered(<<s, "VirtualFormat">>)
<1>1. ASSUME NEW s \in Streams, NEW p \in {"IsActive", "VirtualFormat"}
      PROVE  /\ Room(<<s, p>>) = 1
             /\ Read(<<s, p>>, 1) = <<IF p = "IsActive" THEN on[s] ELSE format[s]>>
  <2>1. Stream_Has(p) /\ Stream_Size(p) = 1
    BY DEF Stream_Has, Stream_Size, StreamProperties, StreamSettable
  <2>2. Stream_Get(s, p, 1).data = <<IF p = "IsActive" THEN on[s] ELSE format[s]>>
    BY DEF Stream_Get, Scalar, Answer, StreamLists
  <2>3. QED
    BY <2>1, <2>2, StreamAsked
<1>2. QED
  BY <1>1 DEF Answered, Size, Data, SizeFor, DataFor, Source, Streams

(* The two instances.                                                       *)
InstanceKeys ==
  {"OwnedObjects", "ControlList", "NominalSampleRate", "EnabledOutputControls",
   "MusicPlayerProcessID", "MusicPlayerBundleID", "AppVolumes", "AppEQ", "DebugLogging"}
(* An instance lists its streams, then the controls that are active         *)
(* (WC_Device).                                                             *)
LEMMA InstanceAnswers == \A d \in Instances, p \in InstanceKeys : Answered(<<d, p>>)
<1> SUFFICES ASSUME NEW d \in Instances, NEW p \in InstanceKeys PROVE Answered(<<d, p>>)
  OBVIOUS
<1>1. Custom = {"AppVolumes", "MusicPlayerProcessID", "MusicPlayerBundleID",
                "IsRunningElsewhere", "AudibleState", "EnabledOutputControls",
                "DebugLogging", "AppEQ"}
  <2>1. DOMAIN CustomProperties = 1 .. 8
    BY DEF CustomProperties
  <2>2. QED
    BY <2>1 DEF Custom, CustomProperties
<1>10. DOMAIN CustomData(d) = {"AppVolumes", "MusicPlayerProcessID", "MusicPlayerBundleID",
                                "EnabledOutputControls", "DebugLogging", "AppEQ"}
  BY DEF CustomData
<1>2. Device_HasProperty(p, "Global")
  BY <1>1 DEF Device_HasProperty, InstanceKeys, ScopedProperties, Abstract_Has, Object_Has,
     ObjectProperties, AbstractProperties, AbstractLists, AnsweredBySubclass
<1>3. /\ Room(<<d, p>>) = Device_GetPropertyDataSize(d, p, "Global")
      /\ \A room : Read(<<d, p>>, room) = Device_GetPropertyData(d, p, "Global", room).data
  BY <1>2, InstanceAsked
<1>4. Controls(d) = ControlsOf(d, Enabled(d)) /\ GetNumberOfOutputControls(d) = Number(Enabled(d))
  BY DEF Controls, ControlsOf, Enabled, IfActive, OneIf, GetNumberOfOutputControls, Number
<1>5. /\ ControlsOf(d, Enabled(d)) \in Seq(Objects \cup {"Unknown"})
      /\ Len(ControlsOf(d, Enabled(d))) = Number(Enabled(d))
  <2>1. VolumeControl[d] \in Objects \cup {"Unknown"} /\ MuteControl[d] \in Objects \cup {"Unknown"}
    BY AllObjects DEF VolumeControl, MuteControl, Instances
  <2>2. ASSUME NEW b \in BOOLEAN, NEW c \in BOOLEAN
        PROVE  /\ ControlsOf(d, <<b, c>>) \in Seq(Objects \cup {"Unknown"})
               /\ Len(ControlsOf(d, <<b, c>>)) = Number(<<b, c>>)
    <3>1. /\ OneIf(b, VolumeControl[d]) \in Seq(Objects \cup {"Unknown"})
          /\ Len(OneIf(b, VolumeControl[d])) = IF b THEN 1 ELSE 0
      BY <2>1, SizeOfOne
    <3>2. /\ OneIf(c, MuteControl[d]) \in Seq(Objects \cup {"Unknown"})
          /\ Len(OneIf(c, MuteControl[d])) = IF c THEN 1 ELSE 0
      BY <2>1, SizeOfOne
    <3>3. ControlsOf(d, <<b, c>>) = OneIf(b, VolumeControl[d]) \o OneIf(c, MuteControl[d])
      BY DEF ControlsOf
    <3>4. Number(<<b, c>>) = (IF b THEN 1 ELSE 0) + (IF c THEN 1 ELSE 0)
      BY DEF Number
    <3> DEFINE one == OneIf(b, VolumeControl[d])
               two == OneIf(c, MuteControl[d])
    <3> HIDE DEF one, two
    <3>5. /\ one \o two \in Seq(Objects \cup {"Unknown"})
          /\ Len(one \o two) = (IF b THEN 1 ELSE 0) + (IF c THEN 1 ELSE 0)
      <4>1. /\ one \in Seq(Objects \cup {"Unknown"}) /\ Len(one) = IF b THEN 1 ELSE 0
            /\ two \in Seq(Objects \cup {"Unknown"}) /\ Len(two) = IF c THEN 1 ELSE 0
        BY <3>1, <3>2 DEF one, two
      <4>2. one \o two \in Seq(Objects \cup {"Unknown"}) /\ Len(one \o two) = Len(one) + Len(two)
        BY <4>1, Joined, Zenon
      <4>3. QED
        BY <4>1, <4>2
    <3>6. QED
      BY <3>3, <3>4, <3>5 DEF one, two
  <2>3. (VolumeControl[d] \in active) \in BOOLEAN /\ (MuteControl[d] \in active) \in BOOLEAN
    OBVIOUS
  <2>4. QED
    BY <2>2, <2>3, Zenon DEF Enabled
<1>6. CASE p = "OwnedObjects"
  <2> DEFINE k == <<d, p>>
  <2>1. /\ Data(k) = <<InputStream[d], OutputStream[d]>> \o ControlsOf(d, Enabled(d))
        /\ Size(k) = 2 + Number(Enabled(d))
    BY <1>6 DEF Data, DataFor, Size, SizeFor, Source, Instances
  <2>2. /\ <<InputStream[d], OutputStream[d]>> \in Seq(Objects \cup {"Unknown"})
        /\ Len(<<InputStream[d], OutputStream[d]>>) = 2
    BY AllObjects DEF InputStream, OutputStream, Instances
  <2>3. Data(k) \in Seq(Objects \cup {"Unknown"}) /\ Len(Data(k)) = Size(k)
    <3> DEFINE pair == <<InputStream[d], OutputStream[d]>>
               some == ControlsOf(d, Enabled(d))
    <3> HIDE DEF pair, some, k
    <3>1. /\ pair \in Seq(Objects \cup {"Unknown"}) /\ Len(pair) = 2
          /\ some \in Seq(Objects \cup {"Unknown"}) /\ Len(some) = Number(Enabled(d))
          /\ Data(k) = pair \o some /\ Size(k) = 2 + Number(Enabled(d))
      BY <1>5, <2>1, <2>2 DEF pair, some
    <3>2. /\ pair \o some \in Seq(Objects \cup {"Unknown"})
          /\ Len(pair \o some) = Len(pair) + Len(some)
      BY <3>1, Joined, Zenon
    <3>3. QED
      BY <3>1, <3>2
  <2>4. Number(Enabled(d)) \in Nat
    BY DEF Number
  <2>5. Room(k) = Size(k)
    <3>1. Device_GetPropertyDataSize(d, "OwnedObjects", "Global") = OwnedObjectsSize(d, "Global")
      BY <1>1 DEF Device_GetPropertyDataSize
    <3>2. OwnedObjectsSize(d, "Global") = 2 + Number(Enabled(d))
      BY <1>4, <2>4 DEF OwnedObjectsSize, GetNumberOfSubObjects, GetNumberOfOutputSubObjects
    <3>3. QED
      BY <1>3, <1>6, <2>1, <3>1, <3>2
  <2>6. Read(k, Size(k)) = List(Size(k), Data(k)).data
    <3>1. \A room : Device_GetPropertyData(d, "OwnedObjects", "Global", room)
                       = OwnedObjectsData(d, "Global", room)
      BY <1>10 DEF Device_GetPropertyData, DeviceConstants
    <3>2. \A room : OwnedObjectsData(d, "Global", room) = List(room, Data(k))
      BY <1>4, <2>1 DEF OwnedObjectsData
    <3>3. QED
      BY <1>3, <1>6, <3>1, <3>2
  <2>7. List(Size(k), Data(k)) = Answer(Data(k))
    BY <2>3, WholeList
  <2>8. QED
    BY <2>5, <2>6, <2>7 DEF Answered, Answer
<1>7. CASE p = "ControlList"
  <2> DEFINE k == <<d, p>>
  <2>1. Data(k) = ControlsOf(d, Enabled(d)) /\ Size(k) = Number(Enabled(d))
    BY <1>7 DEF Data, DataFor, Size, SizeFor, Source, Instances
  <2>2. Room(k) = Size(k)
    BY <1>1, <1>3, <1>4, <1>7, <2>1 DEF Device_GetPropertyDataSize
  <2>3. Read(k, Size(k)) = List(Size(k), Data(k)).data
    <3>1. \A room : Device_GetPropertyData(d, "ControlList", "Global", room)
                       = List(room, Controls(d))
      BY <1>10 DEF Device_GetPropertyData, DeviceConstants
    <3>2. QED
      BY <1>3, <1>4, <1>7, <2>1, <3>1
  <2>4. List(Size(k), Data(k)) = Answer(Data(k))
    BY <1>5, <2>1, WholeList
  <2>5. QED
    BY <2>2, <2>3, <2>4 DEF Answered, Answer
<1>8. CASE p \notin {"OwnedObjects", "ControlList"}
  <2> DEFINE k == <<d, p>>
  <2>1. Size(k) = 1 /\ Data(k) = <<Source(k)>>
    BY <1>8 DEF Data, DataFor, Size, SizeFor, Instances, InstanceKeys
  <2>2. Room(k) = 1
    BY <1>1, <1>3, <1>8 DEF InstanceKeys, Device_GetPropertyDataSize, Abstract_Size,
       AbstractProperties, AnsweredBySubclass
  <2>3. Device_GetPropertyData(d, p, "Global", 1) = Scalar(1, Source(k))
    <3>1. CASE p = "NominalSampleRate"
      BY <1>10, <3>1 DEF Device_GetPropertyData, Source, Instances, DeviceConstants
    <3>2. CASE p # "NominalSampleRate"
      <4>1. p \in DOMAIN CustomData(d)
        BY <1>8, <1>10, <3>2 DEF InstanceKeys
      <4>2. Device_GetPropertyData(d, p, "Global", 1) = Scalar(1, CustomData(d)[p])
        BY <1>8, <1>10, <4>1 DEF Device_GetPropertyData, InstanceKeys, DeviceConstants
      <4>3. CustomData(d)[p] = Source(k)
        BY <1>8, <3>2 DEF CustomData, InstanceKeys, Source, Listing, Enabled, Instances
      <4>4. QED
        BY <4>2, <4>3
    <3>3. QED
      BY <3>1, <3>2
  <2>4. QED
    BY <1>3, <2>1, <2>2, <2>3 DEF Answered, Scalar, Answer
<1>9. QED
  BY <1>6, <1>7, <1>8

(* Whatever the state, each property whose changes BGMDriver announces is  *)
(* announced in the size it is given in, and given as what it is read from  *)
(* (GetPropertyDataSize and GetPropertyData of the driver's objects).       *)
LEMMA Answers == \A k \in Watched : Room(k) = Size(k) /\ Read(k, Size(k)) = Data(k)
<1> SUFFICES ASSUME NEW k \in Watched PROVE Answered(k)
  BY DEF Answered
<1>1. \/ k \in Lists \/ k \in {<<"Null", "DeviceIsAlive">>, <<"Null", "DeviceIsRunning">>}
      \/ k = <<"Mute", "Value">> \/ (\E o \in Volumes : k = <<o, "ScalarValue">>)
      \/ \E s \in Streams : k = <<s, "IsActive">> \/ k = <<s, "VirtualFormat">>
      \/ \E d \in Instances, p \in InstanceKeys : k = <<d, p>>
  BY DEF Watched, Lists, InstanceKeys
<1>2. QED
  BY <1>1, PlugInAnswers, NullAnswers, ControlAnswers, StreamAnswers, InstanceAnswers
-----------------------------------------------------------------------------
(* What the host knows.  A change is followed until the host has read what  *)
(* it changed: on its way as a block or to be read again, or, once read     *)
(* again, as the host has it.                                               *)

Actions == {"SetSampleRate", "SetEnabledControls"}
Block ==
  [kind : {"changed"}, keys : SUBSET (Objects \X Properties)]
    \cup [kind : {"request"}, device : Instances, action : Actions]
RequestBlock == [device : Instances, action : Actions]

\* What a call still has to set: where, and what of whom.
ToSet(values) == Instances \X [who : SUBSET Client, value : values]

NullCalls == [op : {"null"}, value : BOOLEAN, at : {"change", "announce"}]
CallTypes == \A t \in Thread :
  /\ Making(t, "null") => call[t] \in NullCalls
  /\ Making(t, "volumes") => call[t].todo \in Seq(ToSet(AppVolumeSet)) \ {<<>>}
  /\ Making(t, "gains") => call[t].todo \in Seq(ToSet(GainSet)) \ {<<>>}
HostTypes ==
  /\ queue \in Seq(Block) /\ requests \in Seq(RequestBlock)
  /\ pendingRate = [d \in Instances |-> pendingRate[d]]
  /\ pendingControls \in [Instances -> BOOLEAN \X BOOLEAN]
  /\ phase \in {"none", "created", "ready"}
  /\ told \subseteq Watched
  /\ reading # Nothing =>
       /\ reading = <<reading[1], reading[2]>> /\ reading[1] \in Watched
       /\ reading[1] \in Settings => reading[2] = 1
  /\ phase = "ready" => view = [k \in Watched |-> view[k]]
RateTypes ==
  /\ rate = [d \in Instances |-> rate[d]] /\ format = [s \in Streams |-> format[s]]
  /\ \A d \in Instances : format[InputStream[d]] = rate[d] /\ format[OutputStream[d]] = rate[d]
ClientTypes ==
  /\ volumes = [d \in Instances |-> [c \in Client |-> volumes[d][c]]]
  /\ gains \in [Instances -> [Client -> GainSet]]
  /\ added \in [Instances -> SUBSET Client] /\ clients \in [Instances -> SUBSET Client]
  /\ \A d \in Instances : clients[d] \subseteq added[d]
ObjectTypes ==
  /\ level = [o \in Volumes |-> level[o]] /\ on = [s \in Streams |-> on[s]]
  /\ music \in [Instances -> [pid : Players, bundle : Players]] /\ nullIO \in Nat

\* Until the plug-in is initialised nothing is under way.
Dormant ==
  phase # "ready" =>
    /\ queue = <<>> /\ requests = <<>> /\ told = {} /\ reading = Nothing
    /\ nullIO = 0 /\ announced = "Device" /\ (\A t \in Thread : call[t] = NoCall)
    /\ \A d \in Instances : io[d].at = "idle" /\ pendingControls[d] = <<TRUE, TRUE>>

Under(d, a) ==
  \/ \E i \in 1 .. Len(queue) :
       queue[i].kind = "request" /\ queue[i].device = d /\ queue[i].action = a
  \/ \E i \in 1 .. Len(requests) : requests[i].device = d /\ requests[i].action = a
\* What was asked for last is in force, or still to be performed.
RateAsked == \A d \in Instances :
  rate[d] = pendingRate[d] \/ d \in aborted \/ Under(d, "SetSampleRate")
ControlsSet(d) ==
  /\ (VolumeControl[d] \in active) <=> pendingControls[d][1]
  /\ d = "Device" => (("Mute" \in active) <=> pendingControls[d][2])
ControlsAsked == phase = "ready" => \A d \in Instances :
  ControlsSet(d) \/ d \in aborted \/ Under(d, "SetEnabledControls")

Announcing == \E t \in Thread : Making(t, "null") /\ call[t].at = "announce"
Coming(k) ==
  \/ k \in told \/ (k \in Lists /\ Announcing)
  \/ \E i \in 1 .. Len(queue) : queue[i].kind = "changed" /\ k \in queue[i].keys

BeingRead(k) == reading # Nothing /\ reading[1] = k
\* The host has what is, or room for it and will read it next.
Fresh(k) == IF BeingRead(k) THEN reading[2] = Size(k) ELSE view[k] = Data(k)
\* Of the settings of clients that have not gone.
Listed(k) == {e \in view[k][1] : e[1] \in clients[k[1]]}
FreshSettings(k) == BeingRead(k) \/ Listed(k) = Listing(k)

Singles == Watched \ (Settings \cup Flags)
Flagged == UNCHANGED <<debug, announced>>
  \/ \E d \in Instances : announced' = d /\ Coming(<<d, "DebugLogging">>)'
Followed ==
  phase = "ready" =>
    /\ \A k \in Singles : Coming(k) \/ Fresh(k)
    /\ announced \in Instances
    /\ \A k \in Flags : k[1] = announced => Coming(k) \/ Fresh(k)
    /\ \A k \in Settings : Coming(k) \/ FreshSettings(k)
\* Clients that never were have no settings and are on no list.
Newcomers ==
  /\ \A d \in Instances : \A c \in Client \ added[d] :
       volumes[d][c] = DefaultVolume /\ gains[d][c] = "flat"
  /\ phase = "ready" => \A k \in Settings :
       \A e \in view[k][1] : e[1] \in added[k[1]]

HostInv ==
  /\ CallTypes /\ HostTypes /\ RateTypes /\ ClientTypes /\ ObjectTypes /\ Dormant
  /\ RateAsked /\ ControlsAsked /\ Followed /\ Newcomers
-----------------------------------------------------------------------------
(* The queue.                                                               *)

\* Blocks already on the queue stay where they are.
Queued ==
  /\ queue' \in Seq(Block)
  /\ \A i \in 1 .. Len(queue) : i \in 1 .. Len(queue') /\ queue'[i] = queue[i]

(* A queue nobody adds to.                                                  *)
LEMMA QueueKept ==
  ASSUME queue \in Seq(Block), UNCHANGED queue
  PROVE  Queued
BY DEF Queued

(* A block is added at the end.                                             *)
LEMMA Dispatched ==
  ASSUME queue \in Seq(Block), NEW b \in Block, Dispatch(b)
  PROVE  Queued /\ Len(queue') \in 1 .. Len(queue') /\ queue'[Len(queue')] = b
BY DEF Queued, Dispatch

(* A change that was announced is followed, one that was waiting still is.  *)
LEMMA AnnouncedComes ==
  ASSUME NEW o \in Objects, NEW ps \in SUBSET Properties, queue \in Seq(Block),
         Dispatch(Changed(o, ps))
  PROVE  Queued /\ \A p \in ps : Coming(<<o, p>>)'
<1> DEFINE b == Changed(o, ps)
<1>1. b \in Block /\ b.kind = "changed" /\ b.keys = {o} \X ps
  BY DEF Changed, Block
<1> HIDE DEF b
<1>2. Queued /\ Len(queue') \in 1 .. Len(queue') /\ queue'[Len(queue')] = b
  BY <1>1, Dispatched DEF b
<1>3. QED
  BY <1>1, <1>2 DEF Coming

(* A change that was asked for is under way.                                *)
LEMMA RequestedUnder ==
  ASSUME NEW d \in Instances, NEW a \in Actions, queue \in Seq(Block),
         Dispatch(Request(d, a))
  PROVE  Queued /\ Under(d, a)'
<1> DEFINE b == Request(d, a)
<1>1. b \in Block /\ b.kind = "request" /\ b.device = d /\ b.action = a
  BY DEF Request, Block
<1> HIDE DEF b
<1>2. Queued /\ Len(queue') \in 1 .. Len(queue') /\ queue'[Len(queue')] = b
  BY <1>1, Dispatched DEF b
<1>3. QED
  BY <1>1, <1>2 DEF Under

(* What is coming is not forgotten before the host reads.                   *)
LEMMA ComingStays ==
  ASSUME Queued, told \subseteq told', Announcing => Announcing', NEW k, Coming(k)
  PROVE  Coming(k)'
BY DEF Queued, Coming

(* Nor is a request.                                                        *)
LEMMA UnderStays ==
  ASSUME Queued, UNCHANGED requests, NEW d, NEW a, Under(d, a)
  PROVE  Under(d, a)'
BY DEF Queued, Under

(* A setter announces what it changed as its last act.                      *)
LEMMA IfAnnounced ==
  ASSUME NEW o \in Objects, NEW ps \in SUBSET Properties, NEW changed,
         queue \in Seq(Block), AnnounceIf(changed, o, ps)
  PROVE  Queued /\ (changed => \A p \in ps : Coming(<<o, p>>)')
<1>1. CASE changed
  BY <1>1, AnnouncedComes DEF AnnounceIf
<1>2. CASE ~changed
  BY <1>2, QueueKept DEF AnnounceIf
<1>3. QED
  BY <1>1, <1>2

(* The properties that are announced are properties.                        *)
LEMMA KnownProperties ==
  {"ScalarValue", "DecibelValue", "Value", "IsActive", "MusicPlayerProcessID",
   "MusicPlayerBundleID", "DebugLogging", "AppVolumes", "AppEQ", "OwnedObjects",
   "DeviceList", "DeviceIsAlive", "DeviceIsRunning"} \subseteq Properties
<1>1. {"MusicPlayerProcessID", "MusicPlayerBundleID", "DebugLogging", "AppVolumes", "AppEQ"}
        \subseteq Custom
  <2>1. DOMAIN CustomProperties = 1 .. 8
    BY DEF CustomProperties
  <2>2. QED
    BY <2>1 DEF Custom, CustomProperties
<1>2. {"ScalarValue", "DecibelValue"} \subseteq VolumeProperties
  BY DEF VolumeProperties, VolumeSettable
<1>3. "IsActive" \in StreamProperties
  BY DEF StreamProperties, StreamSettable
<1>4. {"DeviceIsAlive", "DeviceIsRunning"} \subseteq AbstractProperties
  BY DEF AbstractProperties, AnsweredBySubclass, AbstractValues
<1>5. "OwnedObjects" \in ObjectProperties /\ "DeviceList" \in PlugInProperties
  BY DEF ObjectProperties, PlugInProperties
<1>6. QED
  BY <1>1, <1>2, <1>3, <1>4, <1>5 DEF Properties

-----------------------------------------------------------------------------
(* What a step leaves alone.                                                *)

(* What the host knows of a value that has not changed it still knows.      *)
LEMMA FreshStays ==
  ASSUME UNCHANGED <<view, reading>>, NEW k, Source(k)' = Source(k), Fresh(k)
  PROVE  Fresh(k)'
<1>1. Size(k)' = Size(k) /\ Data(k)' = Data(k)
  BY DEF Size, Data
<1>2. QED
  BY <1>1 DEF Fresh, BeingRead

(* It is enough that of every property the host either knows it or will.    *)
LEMMA FollowedOn ==
  ASSUME Followed, phase = "ready", UNCHANGED announced,
         \A k \in Watched \ Settings : Coming(k) \/ Fresh(k) => Coming(k)' \/ Fresh(k)',
         \A k \in Settings : Coming(k) \/ FreshSettings(k) => Coming(k)' \/ FreshSettings(k)'
  PROVE  Followed'
<1>1. Singles \subseteq Watched \ Settings /\ Flags \subseteq Watched \ Settings
  BY DEF Singles, Flags, Watched, Settings
<1>2. \A k \in Flags : k[1] = announced' => Coming(k)' \/ Fresh(k)'
  BY <1>1 DEF Followed
<1>3. \A k \in Singles : Coming(k)' \/ Fresh(k)'
  BY <1>1 DEF Followed
<1>4. \A k \in Settings : Coming(k)' \/ FreshSettings(k)'
  BY DEF Followed
<1>5. QED
  BY <1>2, <1>3, <1>4 DEF Followed

(* A step of the driver changes what it announces and nothing else.         *)
LEMMA FollowedStays ==
  ASSUME Followed, phase = "ready", UNCHANGED <<view, reading>>,
         \A k : Coming(k) => Coming(k)',
         \A k \in Singles : Coming(k)' \/ Source(k)' = Source(k),
         Flagged,
         \A k \in Settings : Coming(k)' \/ (FreshSettings(k) => FreshSettings(k)')
  PROVE  Followed'
<1>1. \A k : Coming(k) => Coming(k)'
  OBVIOUS
<1>2. ASSUME NEW k \in Singles PROVE Coming(k)' \/ Fresh(k)'
  BY <1>1, FreshStays DEF Followed
<1>3. ASSUME NEW k \in Flags, k[1] = announced' PROVE Coming(k)' \/ Fresh(k)'
  <2>1. CASE UNCHANGED <<debug, announced>>
    <3>1. Coming(k) \/ Fresh(k)
      BY <1>3, <2>1 DEF Followed
    <3>2. Source(k)' = Source(k)
      BY <2>1 DEF Flags, Instances, Source
    <3>3. QED
      BY <1>1, <3>1, <3>2, FreshStays
  <2>2. ASSUME NEW d \in Instances, announced' = d, Coming(<<d, "DebugLogging">>)'
        PROVE  Coming(k)'
    <3>1. k = <<d, "DebugLogging">>
      BY <1>3, <2>2 DEF Flags
    <3>2. QED
      BY <2>2, <3>1
  <2>3. QED
    BY <2>1, <2>2 DEF Flagged
<1>4. ASSUME NEW k \in Settings PROVE Coming(k)' \/ FreshSettings(k)'
  BY <1>1 DEF Followed
<1>5. announced' \in Instances
  BY DEF Followed, Flagged
<1>6. QED
  BY <1>2, <1>3, <1>4, <1>5 DEF Followed

(* Likewise of settings, if neither they nor the clients change.            *)
LEMMA SettingsStay ==
  ASSUME UNCHANGED <<volumes, gains, clients, view, reading>>, NEW k
  PROVE  FreshSettings(k) => FreshSettings(k)'
BY DEF FreshSettings, BeingRead, Listing, Listed, AppVolumes, AppEQ
-----------------------------------------------------------------------------
(* Setters of one step.                                                     *)

(* Of an initialised plug-in nothing has to be dormant.                     *)
LEMMA ReadyToStep ==
  ASSUME HostInv, phase = "ready", UNCHANGED phase
  PROVE  Dormant'
BY DEF Dormant

(* What is pending stays asked for.                                         *)
LEMMA RatesStay ==
  ASSUME RateAsked, Queued, UNCHANGED <<rate, pendingRate, aborted, requests>>
  PROVE  RateAsked'
BY UnderStays DEF RateAsked

(* The same of the controls.                                                *)
LEMMA ControlsStay ==
  ASSUME ControlsAsked, Queued, UNCHANGED <<phase, pendingControls, aborted, requests>>,
         \A d \in Instances :
           /\ (VolumeControl[d] \in active') <=> (VolumeControl[d] \in active)
           /\ d = "Device" => (("Mute" \in active') <=> ("Mute" \in active))
  PROVE  ControlsAsked'
<1>1. ASSUME NEW d \in Instances, ControlsSet(d) PROVE ControlsSet(d)'
  BY <1>1 DEF ControlsSet
<1>2. QED
  BY <1>1, UnderStays DEF ControlsAsked

(* Whatever is announced as it changes is followed.                         *)
LEMMA StepKeeps ==
  ASSUME HostInv, phase = "ready", Queued, ObjectTypes', CallTypes', ControlsAsked',
         UNCHANGED <<rate, format, volumes, gains, clients, added, phase, requests,
                     pendingRate, pendingControls, aborted, view, told, reading>>,
         \A k : Coming(k) => Coming(k)',
         \A k \in Singles : Coming(k)' \/ Source(k)' = Source(k),
         Flagged
  PROVE  HostInv'
<1>1. HostTypes'
  BY DEF HostInv, HostTypes, Queued
<1>2. RateTypes' /\ ClientTypes'
  BY DEF HostInv, RateTypes, ClientTypes
<1>3. Dormant'
  BY ReadyToStep
<1>4. RateAsked'
  BY RatesStay DEF HostInv
<1>5. Followed'
  BY FollowedStays, SettingsStay DEF HostInv
<1>6. Newcomers'
  BY DEF HostInv, Newcomers
<1>7. QED
  BY <1>1, <1>2, <1>3, <1>4, <1>5, <1>6 DEF HostInv

(* A setter makes no call of several steps.                                 *)
LEMMA SetterKeeps ==
  ASSUME HostInv, phase = "ready", Queued, ObjectTypes',
         UNCHANGED <<active, rate, format, volumes, gains, clients, added, phase, requests,
                     pendingRate, pendingControls, aborted, call, view, told, reading>>,
         \A k \in Singles : Coming(k)' \/ Source(k)' = Source(k),
         Flagged
  PROVE  HostInv'
<1>1. CallTypes'
  BY DEF HostInv, CallTypes, Making
<1>2. ControlsAsked'
  BY ControlsStay DEF HostInv
<1>3. \A k : Coming(k) => Coming(k)'
  BY ComingStays DEF Announcing, Making
<1>4. QED
  BY <1>1, <1>2, <1>3, StepKeeps

(* The volumes of the devices.                                              *)
LEMMA SetVolumeKeeps ==
  ASSUME HostInv, SetVolume
  PROVE  HostInv'
<1>10. PICK o \in Volumes : \E v : SetVolumeRaw(o, v) /\ phase = "ready"
  BY DEF SetVolume, Setter
<1>1. PICK v : SetVolumeRaw(o, v) /\ phase = "ready"
  BY <1>10
<1>2. UNCHANGED <<active, muted, on, rate, format, music, volumes, gains, clients, debug,
                  nullIO, phase, config, call, members, locks, equalisers, host>>
  BY DEF SetVolume
<1>3. /\ level' = [level EXCEPT ![o] = v]
      /\ AnnounceIf(level[o] # v, o, {"ScalarValue", "DecibelValue"})
  BY <1>1 DEF SetVolumeRaw
<1>4. /\ Queued
      /\ level[o] # v => Coming(<<o, "ScalarValue">>)'
  <2>1. o \in Objects /\ {"ScalarValue", "DecibelValue"} \in SUBSET Properties
    BY AllObjects, KnownProperties DEF Volumes
  <2>2. queue \in Seq(Block)
    BY DEF HostInv, HostTypes
  <2>3. QED
    BY <1>3, <2>1, <2>2, IfAnnounced
<1>5. ASSUME NEW k \in Singles PROVE Coming(k)' \/ Source(k)' = Source(k)
  <2>1. level = [x \in Volumes |-> level[x]]
    BY DEF HostInv, ObjectTypes
  <2>2. k \in Watched
    BY DEF Singles
  <2>3. CASE k[2] = "ScalarValue"
    <3>1. PICK x \in Volumes : k = <<x, "ScalarValue">>
      BY <2>2, <2>3 DEF Watched
    <3>2. Source(k) = level[x] /\ Source(k)' = level'[x]
      BY <3>1 DEF Source, Volumes
    <3>3. QED
      BY <1>3, <1>4, <2>1, <3>1, <3>2
  <2>4. CASE k[2] # "ScalarValue"
    BY <1>2, <2>4 DEF Source, Enabled, Listing, AppVolumes, AppEQ
  <2>5. QED
    BY <2>3, <2>4
<1>6. ObjectTypes'
  BY <1>2, <1>3 DEF HostInv, ObjectTypes
<1>7. QED
  BY <1>1, <1>2, <1>4, <1>5, <1>6, SetterKeeps DEF Flagged, config, members, host

(* Mute.                                                                    *)
LEMMA SetMuteKeeps ==
  ASSUME HostInv, SetMute
  PROVE  HostInv'
<1>1. PICK m \in BOOLEAN : muted' = m /\ AnnounceIf(muted # m, "Mute", {"Value"})
  BY DEF SetMute
<1>2. /\ UNCHANGED <<active, level, on, rate, format, music, volumes, gains, clients, debug,
                     nullIO, phase, config, call, members, locks, equalisers, host>>
      /\ phase = "ready"
  BY DEF SetMute, Setter
<1>3. Queued /\ (muted # m => Coming(<<"Mute", "Value">>)')
  <2>1. "Mute" \in Objects /\ {"Value"} \in SUBSET Properties
    BY AllObjects, KnownProperties
  <2>2. queue \in Seq(Block)
    BY DEF HostInv, HostTypes
  <2>3. QED
    BY <1>1, <2>1, <2>2, IfAnnounced
<1>4. ASSUME NEW k \in Singles PROVE Coming(k)' \/ Source(k)' = Source(k)
  <2>1. k \in Watched
    BY DEF Singles
  <2>2. CASE k[2] = "Value"
    <3>1. k = <<"Mute", "Value">>
      BY <2>1, <2>2 DEF Watched
    <3>2. Source(k) = muted /\ Source(k)' = muted'
      BY <3>1 DEF Source
    <3>3. QED
      BY <1>1, <1>3, <3>1, <3>2
  <2>3. CASE k[2] # "Value"
    BY <1>2, <2>3 DEF Source, Enabled, Listing, AppVolumes, AppEQ
  <2>4. QED
    BY <2>2, <2>3
<1>5. ObjectTypes'
  BY <1>2 DEF HostInv, ObjectTypes
<1>6. QED
  BY <1>2, <1>3, <1>4, <1>5, SetterKeeps DEF Flagged, config, members, host

(* Whether a stream is active.                                              *)
LEMMA SetStreamActiveKeeps ==
  ASSUME HostInv, SetStreamActive
  PROVE  HostInv'
<1>1. PICK o \in Streams, b \in BOOLEAN :
        /\ phase = "ready" /\ on' = [on EXCEPT ![o] = b]
        /\ AnnounceIf(on[o] # b, o, {"IsActive"})
  BY DEF SetStreamActive, Setter
<1>2. UNCHANGED <<active, level, muted, rate, format, music, volumes, gains, clients, debug,
                  nullIO, phase, config, call, members, locks, equalisers, host>>
  BY DEF SetStreamActive
<1>3. Queued /\ (on[o] # b => Coming(<<o, "IsActive">>)')
  <2>1. o \in Objects /\ {"IsActive"} \in SUBSET Properties
    BY AllObjects, KnownProperties DEF Streams
  <2>2. queue \in Seq(Block)
    BY DEF HostInv, HostTypes
  <2>3. QED
    BY <1>1, <2>1, <2>2, IfAnnounced
<1>4. ASSUME NEW k \in Singles PROVE Coming(k)' \/ Source(k)' = Source(k)
  <2>1. k \in Watched /\ on = [x \in Streams |-> on[x]]
    BY DEF Singles, HostInv, ObjectTypes
  <2>2. CASE k[2] = "IsActive"
    <3>1. PICK x \in Streams : k = <<x, "IsActive">>
      BY <2>1, <2>2 DEF Watched
    <3>2. Source(k) = on[x] /\ Source(k)' = on'[x]
      BY <3>1 DEF Source, Streams
    <3>3. QED
      BY <1>1, <1>3, <2>1, <3>1, <3>2
  <2>3. CASE k[2] # "IsActive"
    BY <1>2, <2>3 DEF Source, Enabled, Listing, AppVolumes, AppEQ
  <2>4. QED
    BY <2>2, <2>3
<1>5. ObjectTypes'
  BY <1>1, <1>2 DEF HostInv, ObjectTypes
<1>6. QED
  BY <1>1, <1>2, <1>3, <1>4, <1>5, SetterKeeps DEF Flagged, config, members, host
-----------------------------------------------------------------------------

(* Both IDs of the music player are announced, the other one changes too.   *)
LEMMA SetMusicPlayerKeeps ==
  ASSUME HostInv, SetMusicPlayerProperty
  PROVE  HostInv'
<1>1. PICK d \in Instances, id \in {"pid", "bundle"}, player \in Players :
        SetMusicPlayer(d, id, player) /\ phase = "ready"
  BY DEF SetMusicPlayerProperty, Setter
<1>2. UNCHANGED <<active, level, muted, on, rate, format, volumes, gains, clients, debug,
                  nullIO, phase, config, call, added, locks, equalisers, host>>
  BY DEF SetMusicPlayerProperty
<1>3. CASE music[d][id] = player
  <2>1. UNCHANGED <<music, queue>>
    BY <1>1, <1>3 DEF SetMusicPlayer
  <2>2. Queued /\ ObjectTypes'
    BY <1>2, <2>1, QueueKept DEF HostInv, HostTypes, ObjectTypes
  <2>3. \A k \in Singles : Source(k)' = Source(k)
    BY <1>2, <2>1 DEF Source, Enabled, Listing, AppVolumes, AppEQ
  <2>4. QED
    BY <1>1, <1>2, <2>1, <2>2, <2>3, SetterKeeps DEF Flagged, config, host
<1>4. CASE music[d][id] # player
  <2>1. /\ music' = [music EXCEPT ![d][id] = player, ![d][OtherID(id)] = "nobody"]
        /\ Dispatch(Changed(d, {"MusicPlayerProcessID", "MusicPlayerBundleID"}))
    BY <1>1, <1>4 DEF SetMusicPlayer
  <2>2. /\ Queued /\ Coming(<<d, "MusicPlayerProcessID">>)'
        /\ Coming(<<d, "MusicPlayerBundleID">>)'
    <3>1. d \in Objects
      BY AllObjects DEF Instances
    <3>2. {"MusicPlayerProcessID", "MusicPlayerBundleID"} \in SUBSET Properties
      BY KnownProperties
    <3>3. queue \in Seq(Block)
      BY DEF HostInv, HostTypes
    <3>4. QED
      BY <2>1, <3>1, <3>2, <3>3, AnnouncedComes
  <2>3. /\ music' \in [Instances -> [pid : Players, bundle : Players]]
        /\ \A e \in Instances \ {d} : music'[e] = music[e]
    BY <2>1 DEF HostInv, ObjectTypes, OtherID, Players
  <2>4. ASSUME NEW k \in Singles PROVE Coming(k)' \/ Source(k)' = Source(k)
    <3>1. CASE k[2] \in {"MusicPlayerProcessID", "MusicPlayerBundleID"}
      <4>1. PICK e \in Instances : k = <<e, k[2]>>
        BY <3>1 DEF Singles, Watched
      <4>2. CASE e = d
        BY <2>2, <3>1, <4>1, <4>2
      <4>3. CASE e # d
        <5>1. k[1] = e /\ k[1] # "PlugIn"
          BY <4>1 DEF Instances
        <5>2. music'[k[1]] = music[k[1]]
          BY <2>3, <4>3, <5>1
        <5>3. QED
          BY <3>1, <5>1, <5>2 DEF Source
      <4>4. QED
        BY <4>2, <4>3
    <3>2. CASE k[2] \notin {"MusicPlayerProcessID", "MusicPlayerBundleID"}
      BY <1>2, <3>2 DEF Source, Enabled, Listing, AppVolumes, AppEQ
    <3>3. QED
      BY <3>1, <3>2
  <2>5. ObjectTypes'
    BY <1>2, <2>3 DEF HostInv, ObjectTypes
  <2>6. QED
    BY <1>1, <1>2, <2>2, <2>4, <2>5, SetterKeeps DEF Flagged, config, host
<1>5. QED
  BY <1>3, <1>4

(* Debug logging, which the host knows of the instance it was set through.  *)
LEMMA SetDebugLoggingKeeps ==
  ASSUME HostInv, SetDebugLogging
  PROVE  HostInv'
<1>1. PICK d \in Instances, b \in BOOLEAN :
        /\ phase = "ready" /\ debug' = b /\ AnnounceIf(debug # b, d, {"DebugLogging"})
        /\ announced' = IF debug # b THEN d ELSE announced
  BY DEF SetDebugLogging, Setter
<1>2. UNCHANGED <<active, level, muted, on, rate, format, music, volumes, gains, clients,
                  nullIO, phase, requests, pendingRate, pendingControls, aborted, call,
                  members, locks, equalisers, host>>
  BY DEF SetDebugLogging
<1>3. Queued /\ (debug # b => Coming(<<d, "DebugLogging">>)')
  <2>1. d \in Objects /\ {"DebugLogging"} \in SUBSET Properties
    BY AllObjects, KnownProperties DEF Instances
  <2>2. queue \in Seq(Block)
    BY DEF HostInv, HostTypes
  <2>3. QED
    BY <1>1, <2>1, <2>2, IfAnnounced
<1>4. \A k \in Singles : Source(k)' = Source(k)
  <2>1. ASSUME NEW k \in Singles PROVE k[2] # "DebugLogging"
    <3>1. k \in Watched /\ k \notin Flags
      BY DEF Singles
    <3>2. QED
      BY <3>1 DEF Watched, Flags
  <2>2. QED
    BY <1>2, <2>1 DEF Source, Enabled, Listing, AppVolumes, AppEQ
<1>5. Flagged
  BY <1>1, <1>3 DEF Flagged
<1>6. ObjectTypes'
  BY <1>2 DEF HostInv, ObjectTypes
<1>7. QED
  BY <1>1, <1>2, <1>3, <1>4, <1>5, <1>6, SetterKeeps DEF Flagged, members, host

(* Starting and stopping IO on the Null Device.                             *)
LEMMA NullIOKeeps ==
  ASSUME HostInv, Null_StartIO \/ Null_StopIO
  PROVE  HostInv'
<1>1. phase = "ready"
  <2>1. CASE Null_StartIO
    BY <2>1 DEF Null_StartIO
  <2>2. CASE Null_StopIO
    <3>1. nullIO > 0
      BY <2>2 DEF Null_StopIO
    <3>2. nullIO # 0
      BY <3>1 DEF HostInv, ObjectTypes
    <3>3. Dormant
      BY DEF HostInv
    <3>4. QED
      BY <3>2, <3>3 DEF Dormant
  <2>3. QED
    BY <2>1, <2>2
<1>2. UNCHANGED <<active, level, muted, on, rate, format, music, volumes, gains, clients,
                  debug, phase, config, call, members, locks, equalisers, host>>
  BY DEF Null_StartIO, Null_StopIO, setup
<1>3. nullIO \in Nat /\ queue \in Seq(Block)
  BY DEF HostInv, ObjectTypes, HostTypes
<1>4. /\ nullIO' \in Nat /\ Queued
      /\ ((nullIO' > 0) <=> (nullIO > 0)) \/ Coming(<<"Null", "DeviceIsRunning">>)'
  <2>1. "Null" \in Objects /\ {"DeviceIsRunning"} \in SUBSET Properties
    BY AllObjects, KnownProperties
  <2>2. CASE Null_StartIO
    <3>1. nullIO' = nullIO + 1 /\ AnnounceIf(nullIO = 0, "Null", {"DeviceIsRunning"})
      BY <2>2 DEF Null_StartIO
    <3>2. Queued /\ (nullIO = 0 => Coming(<<"Null", "DeviceIsRunning">>)')
      BY <1>3, <2>1, <3>1, IfAnnounced
    <3>3. QED
      BY <1>3, <3>1, <3>2
  <2>3. CASE Null_StopIO
    <3>1. /\ nullIO > 0 /\ nullIO' = nullIO - 1
          /\ AnnounceIf(nullIO' = 0, "Null", {"DeviceIsRunning"})
      BY <2>3 DEF Null_StopIO
    <3>2. Queued /\ (nullIO' = 0 => Coming(<<"Null", "DeviceIsRunning">>)')
      BY <1>3, <2>1, <3>1, IfAnnounced
    <3>3. QED
      BY <1>3, <3>1, <3>2
  <2>4. QED
    BY <2>2, <2>3
<1>5. ASSUME NEW k \in Singles PROVE Coming(k)' \/ Source(k)' = Source(k)
  <2>1. CASE k[2] = "DeviceIsRunning"
    <3>1. k = <<"Null", "DeviceIsRunning">>
      BY <2>1 DEF Singles, Watched
    <3>2. Source(k) = (nullIO > 0) /\ Source(k)' = (nullIO' > 0)
      BY <3>1 DEF Source
    <3>3. QED
      BY <1>4, <3>1, <3>2
  <2>2. CASE k[2] # "DeviceIsRunning"
    BY <1>2, <2>2 DEF Source, Enabled, Listing, AppVolumes, AppEQ
  <2>3. QED
    BY <2>1, <2>2
<1>6. ObjectTypes'
  BY <1>2, <1>4 DEF HostInv, ObjectTypes
<1>7. QED
  BY <1>1, <1>2, <1>4, <1>5, <1>6, SetterKeeps DEF Flagged, config, members, host
-----------------------------------------------------------------------------
(* Configuration changes are asked for.                                     *)

(* A request changes what is pending only.                                  *)
LEMMA RequestKeeps ==
  ASSUME HostInv, phase = "ready", Queued,
         UNCHANGED <<objects, phase, requests, aborted, announced, call, added, view, told,
                     reading>>,
         pendingRate' = [d \in Instances |-> pendingRate'[d]],
         pendingControls' \in [Instances -> BOOLEAN \X BOOLEAN],
         RateAsked', ControlsAsked'
  PROVE  HostInv'
<1> USE DEF objects
<1>1. CallTypes' /\ HostTypes'
  BY DEF HostInv, CallTypes, HostTypes, Queued, Making
<1>2. RateTypes' /\ ClientTypes' /\ ObjectTypes'
  BY DEF HostInv, RateTypes, ClientTypes, ObjectTypes
<1>3. Dormant'
  BY ReadyToStep
<1>4. Followed'
  <2>1. \A k : Coming(k) => Coming(k)'
    BY ComingStays DEF Announcing, Making
  <2>2. \A k : Source(k)' = Source(k)
    BY DEF Source, Enabled, Listing, AppVolumes, AppEQ
  <2>3. QED
    BY <2>1, <2>2, FollowedStays, SettingsStay DEF HostInv, Flagged
<1>5. Newcomers'
  BY DEF HostInv, Newcomers
<1>6. QED
  BY <1>1, <1>2, <1>3, <1>4, <1>5 DEF HostInv

(* A sample rate or format is asked for.                                    *)
LEMMA SetRateKeeps ==
  ASSUME HostInv, SetRateOrFormat
  PROVE  HostInv'
<1>1. PICK d \in Instances, r \in Rate : phase = "ready" /\ RequestSampleRate(d, r)
  BY DEF SetRateOrFormat, Setter
<1>2. UNCHANGED <<objects, phase, requests, pendingControls, aborted, announced, call,
                  members, locks, equalisers, host>>
  BY DEF SetRateOrFormat
<1>3. queue \in Seq(Block) /\ pendingRate = [e \in Instances |-> pendingRate[e]]
  BY DEF HostInv, HostTypes
<1>4. /\ Queued /\ pendingRate' = [e \in Instances |-> pendingRate'[e]]
      /\ RateAsked'
  <2>1. CASE r = rate[d]
    <3>1. UNCHANGED <<pendingRate, queue>>
      BY <1>1, <2>1 DEF RequestSampleRate
    <3>2. Queued
      BY <1>3, <3>1, QueueKept
    <3>3. QED
      BY <1>2, <1>3, <3>1, <3>2, RatesStay DEF HostInv, objects
  <2>2. CASE r # rate[d]
    <3>1. /\ pendingRate' = [pendingRate EXCEPT ![d] = r]
          /\ Dispatch(Request(d, "SetSampleRate"))
      BY <1>1, <2>2 DEF RequestSampleRate
    <3>2. Queued /\ Under(d, "SetSampleRate")'
      BY <1>3, <3>1, RequestedUnder DEF Actions
    <3>3. \A e \in Instances \ {d} : pendingRate'[e] = pendingRate[e]
      BY <1>3, <3>1
    <3>4. \A e : Under(e, "SetSampleRate") => Under(e, "SetSampleRate")'
      BY <1>2, <3>2, UnderStays
    <3>5. RateAsked'
      BY <1>2, <3>2, <3>3, <3>4 DEF HostInv, RateAsked, objects
    <3>6. QED
      BY <1>3, <3>1, <3>2, <3>5
  <2>3. QED
    BY <2>1, <2>2
<1>5. ControlsAsked' /\ pendingControls' \in [Instances -> BOOLEAN \X BOOLEAN]
  <2>1. ControlsAsked'
    BY <1>2, <1>4, ControlsStay DEF HostInv, objects
  <2>2. QED
    BY <1>2, <2>1 DEF HostInv, HostTypes
<1>6. QED
  BY <1>1, <1>2, <1>4, <1>5, RequestKeeps DEF members, host

(* Every change of the controls is asked for, also that of BGMApp's going.  *)
LEMMA ControlsRequested ==
  ASSUME HostInv, NEW d \in Instances, NEW v \in BOOLEAN, NEW m \in BOOLEAN,
         RequestEnabledControls(d, v, m), UNCHANGED <<active, phase, requests, aborted>>
  PROVE  /\ Queued /\ pendingControls' \in [Instances -> BOOLEAN \X BOOLEAN]
         /\ ControlsAsked'
<1> DEFINE changeVolume == IsActive(VolumeControl[d]) # v
           changeMute == IsActive(MuteControl[d]) # m
           new == <<IF changeVolume THEN v ELSE pendingControls[d][1],
                    IF changeMute THEN m ELSE pendingControls[d][2]>>
<1>1. queue \in Seq(Block) /\ pendingControls \in [Instances -> BOOLEAN \X BOOLEAN]
  BY DEF HostInv, HostTypes
<1>2. new \in BOOLEAN \X BOOLEAN /\ pendingControls' = [pendingControls EXCEPT ![d] = new]
  BY <1>1 DEF RequestEnabledControls
<1>3. pendingControls' \in [Instances -> BOOLEAN \X BOOLEAN]
  <2> HIDE DEF new
  <2>1. QED
    BY <1>1, <1>2
<1>4. CASE changeVolume \/ changeMute
  <2>1. Dispatch(Request(d, "SetEnabledControls"))
    BY <1>4 DEF RequestEnabledControls
  <2>2. Queued /\ Under(d, "SetEnabledControls")'
    BY <1>1, <2>1, RequestedUnder DEF Actions
  <2>3. \A e \in Instances \ {d} : pendingControls'[e] = pendingControls[e]
    BY <1>1, <1>2
  <2>4. \A e : Under(e, "SetEnabledControls") => Under(e, "SetEnabledControls")'
    BY <2>2, UnderStays
  <2>5. ControlsAsked'
    BY <2>2, <2>3, <2>4 DEF HostInv, ControlsAsked, ControlsSet
  <2>6. QED
    BY <1>3, <2>2, <2>5
<1>5. CASE ~(changeVolume \/ changeMute)
  <2>1. UNCHANGED queue
    BY <1>5 DEF RequestEnabledControls
  <2>2. new = pendingControls[d]
    BY <1>1, <1>5
  <2>3. UNCHANGED pendingControls
    <3> HIDE DEF new
    <3>1. QED
      BY <1>1, <1>2, <2>2
  <2>4. Queued
    BY <1>1, <2>1, QueueKept
  <2>5. QED
    BY <1>3, <2>3, <2>4, ControlsStay DEF HostInv
<1>6. QED
  BY <1>4, <1>5

(* The controls that BGMApp wants enabled are asked for.                    *)
LEMMA SetEnabledKeeps ==
  ASSUME HostInv, SetEnabledOutputControls
  PROVE  HostInv'
<1>1. PICK d \in Instances, v \in BOOLEAN, m \in BOOLEAN :
        phase = "ready" /\ RequestEnabledControls(d, v, m)
  BY DEF SetEnabledOutputControls, Setter
<1>2. UNCHANGED <<objects, phase, requests, pendingRate, aborted, announced, call,
                  members, locks, equalisers, host>>
  BY DEF SetEnabledOutputControls
<1>3. /\ Queued /\ pendingControls' \in [Instances -> BOOLEAN \X BOOLEAN]
      /\ ControlsAsked'
  BY <1>1, <1>2, ControlsRequested DEF objects
<1>4. RateAsked'
  BY <1>2, <1>3, RatesStay DEF HostInv, objects
<1>5. pendingRate' = [e \in Instances |-> pendingRate'[e]]
  BY <1>2 DEF HostInv, HostTypes
<1>6. QED
  BY <1>1, <1>2, <1>3, <1>4, <1>5, RequestKeeps DEF members, host
-----------------------------------------------------------------------------
(* Calls of several steps.                                                  *)

(* A call begins, goes on or ends.                                          *)
LEMMA CallTypesKept ==
  ASSUME IInv, HostInv, NEW t \in Thread, NEW x, call' = [call EXCEPT ![t] = x],
         \/ x = NoCall
         \/ x \in NullCalls
         \/ x.op \notin {"null", "volumes", "gains"}
         \/ x.op = "volumes" /\ x.todo \in Seq(ToSet(AppVolumeSet)) \ {<<>>}
         \/ x.op = "gains" /\ x.todo \in Seq(ToSet(GainSet)) \ {<<>>}
  PROVE  CallTypes'
<1>1. call'[t] = x /\ \A u \in Thread \ {t} : call'[u] = call[u]
  BY DEF IInv, Types
<1>2. QED
  BY <1>1 DEF HostInv, CallTypes, Making, NullCalls

(* A list about to be announced still is after another call's step.         *)
LEMMA AnnouncingStays ==
  ASSUME IInv, NEW t \in Thread, NEW x, call' = [call EXCEPT ![t] = x],
         ~(Making(t, "null") /\ call[t].at = "announce"), Announcing
  PROVE  Announcing'
<1>1. \A u \in Thread \ {t} : call'[u] = call[u]
  BY DEF IInv, Types
<1>2. QED
  BY <1>1 DEF Announcing, Making

(* A call that has only begun, or a lock taken, changes nothing the host    *)
(* knows.                                                                   *)
LEMMA OnlyCallKeeps ==
  ASSUME IInv, HostInv, phase = "ready",
         UNCHANGED <<objects, phase, queue, config, added, host>>,
         NEW t \in Thread, NEW x, call' = [call EXCEPT ![t] = x],
         ~(Making(t, "null") /\ call[t].at = "announce"),
         \/ x = NoCall
         \/ x \in NullCalls
         \/ x.op \notin {"null", "volumes", "gains"}
         \/ x.op = "volumes" /\ x.todo \in Seq(ToSet(AppVolumeSet)) \ {<<>>}
         \/ x.op = "gains" /\ x.todo \in Seq(ToSet(GainSet)) \ {<<>>}
  PROVE  HostInv'
<1>1. CallTypes'
  BY CallTypesKept
<1>2. Queued
  BY QueueKept DEF HostInv, HostTypes
<1>3. \A k : Coming(k) => Coming(k)'
  BY <1>2, AnnouncingStays, ComingStays DEF host
<1>4. ObjectTypes'
  BY DEF HostInv, ObjectTypes, objects
<1>5. ControlsAsked'
  BY <1>2, ControlsStay DEF HostInv, objects, config
<1>6. \A k : Source(k)' = Source(k)
  BY DEF Source, Enabled, Listing, AppVolumes, AppEQ, objects
<1>7. QED
  BY <1>1, <1>2, <1>3, <1>4, <1>5, <1>6, StepKeeps DEF Flagged, objects, config, host

(* Activating or deactivating the Null Device begins.                       *)
LEMMA SetNullKeeps ==
  ASSUME IInv, HostInv, NEW t \in Thread, SetNullDeviceActive(t)
  PROVE  HostInv'
<1>1. PICK b \in BOOLEAN :
        phase = "ready" /\ Begin(t, [op |-> "null", value |-> b, at |-> "change"])
  BY DEF SetNullDeviceActive, Setter
<1>2. UNCHANGED <<objects, phase, queue, config, members, locks, equalisers, host>>
  BY DEF SetNullDeviceActive
<1> DEFINE x == [op |-> "null", value |-> b, at |-> "change"]
<1>3. call' = [call EXCEPT ![t] = x] /\ call[t] = NoCall /\ x \in NullCalls
  BY <1>1 DEF Begin, NullCalls
<1> HIDE DEF x
<1>4. QED
  BY <1>1, <1>2, <1>3, OnlyCallKeeps DEF Making, members

(* An app and its helpers.                                                  *)
LEMMA ProcessesOf ==
  ASSUME NEW c \in Client
  PROVE  Processes(c) \in Seq(Client) /\ Len(Processes(c)) \in Nat \ {0}
<1> DEFINE one == <<c>>
           rest == Helpers[c]
<1>1. one \in Seq(Client) /\ Len(one) = 1 /\ rest \in Seq(Client) /\ Len(rest) \in Nat
  BY HALAssumption
<1>2. Processes(c) = one \o rest
  BY DEF Processes, ResponsibleBundleIDsOf
<1> HIDE DEF one, rest
<1>3. one \o rest \in Seq(Client) /\ Len(one \o rest) = Len(one) + Len(rest)
  BY <1>1, Joined, Zenon
<1>4. QED
  BY <1>1, <1>2, <1>3

(* A function of 1 to n is a sequence.                                      *)
LEMMA Built ==
  ASSUME NEW S, NEW n \in Nat \ {0}, NEW f, DOMAIN f = 1 .. n, f = [i \in 1 .. n |-> f[i]],
         \A i \in 1 .. n : f[i] \in S
  PROVE  f \in Seq(S) \ {<<>>}
<1>1. f \in [1 .. n -> S]
  OBVIOUS
<1>2. f \in Seq(S) /\ Len(f) = n
  BY <1>1
<1>3. QED
  BY <1>2

(* BGMApp begins to set a volume on both instances.                         *)
LEMMA SendVolumeKeeps ==
  ASSUME IInv, HostInv, NEW t \in Thread, App_SetAppVolume(t)
  PROVE  HostInv'
<1>1. PICK c \in Client, v \in AppVolumeSet \cup {101} :
        /\ phase = "ready"
        /\ Begin(t, [op |-> "volumes", todo |-> SendAppVolume(c, ClampVolume(v))])
  BY DEF App_SetAppVolume, Setter
<1>2. UNCHANGED <<objects, phase, queue, config, members, locks, equalisers, host>>
  BY DEF App_SetAppVolume
<1> DEFINE l == SendAppVolume(c, ClampVolume(v))
           who == {Processes(c)[j] : j \in DOMAIN Processes(c)}
<1>3. ClampVolume(v) \in AppVolumeSet
  BY DEF ClampVolume, Clamp, AppVolumeSet
<1>4. who \in SUBSET Client
  BY ProcessesOf
<1>5. /\ l = [i \in 1 .. 2 |-> l[i]] /\ DOMAIN l = 1 .. 2
      /\ \A i \in 1 .. 2 :
           l[i] = <<IF i = 1 THEN "Device" ELSE "UI", Entries(who, ClampVolume(v))>>
  BY DEF SendAppVolume
<1>6. Entries(who, ClampVolume(v)) \in [who : SUBSET Client, value : AppVolumeSet]
  <2> HIDE DEF who
  <2>1. QED
    BY <1>3, <1>4 DEF Entries
<1>7. \A i \in 1 .. 2 : l[i] \in ToSet(AppVolumeSet)
  BY <1>5, <1>6 DEF ToSet, Instances
<1> HIDE DEF l
<1>8. l \in Seq(ToSet(AppVolumeSet)) \ {<<>>}
  BY <1>5, <1>7, Built
<1>9. QED
  <2> DEFINE x == [op |-> "volumes", todo |-> l]
  <2>1. call' = [call EXCEPT ![t] = x] /\ call[t] = NoCall
    BY <1>1 DEF Begin, l
  <2>2. x.op = "volumes" /\ x.todo \in Seq(ToSet(AppVolumeSet)) \ {<<>>}
    BY <1>8
  <2> HIDE DEF x
  <2>3. QED
    BY <1>1, <1>2, <2>1, <2>2, OnlyCallKeeps DEF Making, members

(* It begins to set an equaliser.                                           *)
LEMMA SendEQKeeps ==
  ASSUME IInv, HostInv, NEW t \in Thread, App_SetAppEQBandGains(t)
  PROVE  HostInv'
<1>1. PICK c \in Client, g \in GainSet \cup {"beyond"} :
        /\ phase = "ready"
        /\ Begin(t, [op |-> "gains", todo |-> SendAppEQ(c, ClampGain(g))])
  BY DEF App_SetAppEQBandGains, Setter
<1>2. UNCHANGED <<objects, phase, queue, config, members, locks, equalisers, host>>
  BY DEF App_SetAppEQBandGains
<1> DEFINE l == SendAppEQ(c, ClampGain(g))
           n == Len(Processes(c))
<1>3. ClampGain(g) \in GainSet
  BY DEF ClampGain, GainSet
<1>4. Processes(c) \in Seq(Client) /\ n \in Nat \ {0}
  BY ProcessesOf
<1>5. /\ l = [i \in 1 .. 2 * n |-> l[i]] /\ DOMAIN l = 1 .. 2 * n
      /\ \A i \in 1 .. 2 * n :
           l[i] = <<IF i % 2 = 1 THEN "Device" ELSE "UI",
                    Entries({Processes(c)[(i + 1) \div 2]}, ClampGain(g))>>
  BY DEF SendAppEQ
<1>6. ASSUME NEW i \in 1 .. 2 * n PROVE l[i] \in ToSet(GainSet)
  <2> HIDE DEF l, n
  <2>1. (i + 1) \div 2 \in 1 .. n
    BY <1>4
  <2>2. Processes(c)[(i + 1) \div 2] \in Client
    BY <1>4, <2>1 DEF n
  <2> DEFINE e == Entries({Processes(c)[(i + 1) \div 2]}, ClampGain(g))
  <2>3. e \in [who : SUBSET Client, value : GainSet]
    BY <1>3, <2>2 DEF Entries
  <2>4. l[i] = <<IF i % 2 = 1 THEN "Device" ELSE "UI", e>>
    BY <1>5
  <2> HIDE DEF e
  <2>5. QED
    BY <2>3, <2>4 DEF ToSet, Instances
<1> HIDE DEF l, n
<1>7. l \in Seq(ToSet(GainSet)) \ {<<>>}
  <2>1. 2 * n \in Nat \ {0}
    BY <1>4
  <2>2. QED
    BY <1>5, <1>6, <2>1, Built
<1>8. QED
  <2> DEFINE x == [op |-> "gains", todo |-> l]
  <2>1. call' = [call EXCEPT ![t] = x] /\ call[t] = NoCall
    BY <1>1 DEF Begin, l
  <2>2. x.op = "gains" /\ x.todo \in Seq(ToSet(GainSet)) \ {<<>>}
    BY <1>7
  <2> HIDE DEF x
  <2>3. QED
    BY <1>1, <1>2, <2>1, <2>2, OnlyCallKeeps DEF Making, members
-----------------------------------------------------------------------------

(* Calls are made of a plug-in that is initialised.                         *)
LEMMA Awake ==
  ASSUME HostInv, NEW t \in Thread, call[t] # NoCall
  PROVE  phase = "ready"
<1>1. Dormant
  BY DEF HostInv
<1>2. QED
  BY <1>1 DEF Dormant

(* Until the list is announced the thread is about to announce it.          *)
LEMMA ChangeNullKeeps ==
  ASSUME IInv, HostInv, NEW t \in Thread, ChangeNullDevice(t)
  PROVE  HostInv'
<1> DEFINE x == [call[t] EXCEPT !.at = "announce"]
<1>1. /\ Making(t, "null") /\ call' = [call EXCEPT ![t] = x]
      /\ \/ Null_Activate
         \/ Null_Deactivate
  BY DEF ChangeNullDevice, Continue
<1>2. UNCHANGED <<level, muted, on, rate, format, music, volumes, gains, clients, debug,
                  nullIO, setup, config, members, locks, equalisers, host>>
  BY DEF ChangeNullDevice
<1>3. phase = "ready"
  BY <1>1, Awake DEF Making
<1>4. x \in NullCalls /\ x.op = "null" /\ x.at = "announce" /\ x # NoCall
  <2>1. call[t] \in NullCalls
    BY <1>1 DEF HostInv, CallTypes
  <2>2. x \in NullCalls /\ x.op = "null" /\ x.at = "announce"
    BY <2>1 DEF NullCalls
  <2> HIDE DEF x
  <2>3. QED
    BY <2>2, HALAssumption DEF NullCalls
<1> HIDE DEF x
<1>5. CallTypes'
  BY <1>1, <1>4, CallTypesKept
<1>6. Announcing'
  <2>1. call'[t] = x
    BY <1>1 DEF IInv, Types
  <2>2. QED
    BY <1>4, <2>1 DEF Announcing, Making
<1>7. /\ Queued
      /\ (("Null" \in active') <=> ("Null" \in active)) \/ Coming(<<"Null", "DeviceIsAlive">>)'
      /\ \A o : o # "Null" => ((o \in active') <=> (o \in active))
  <2>1. "Null" \in Objects /\ {"DeviceIsAlive"} \in SUBSET Properties /\ queue \in Seq(Block)
    BY AllObjects, KnownProperties DEF HostInv, HostTypes
  <2>2. CASE Null_Activate
    <3>1. Queued /\ (~IsActive("Null") => Coming(<<"Null", "DeviceIsAlive">>)')
      BY <2>1, <2>2, IfAnnounced DEF Null_Activate
    <3>2. QED
      BY <2>2, <3>1 DEF Null_Activate, IsActive
  <2>3. CASE Null_Deactivate
    <3>1. Queued /\ (IsActive("Null") => Coming(<<"Null", "DeviceIsAlive">>)')
      BY <2>1, <2>3, IfAnnounced DEF Null_Deactivate
    <3>2. QED
      BY <2>3, <3>1 DEF Null_Deactivate, IsActive
  <2>4. QED
    BY <1>1, <2>2, <2>3
<1>8. \A k : Coming(k) => Coming(k)'
  BY <1>2, <1>6, <1>7, ComingStays DEF host
<1>9. ControlsAsked'
  <2>1. \A d \in Instances : VolumeControl[d] # "Null"
    BY DEF Instances, VolumeControl
  <2>2. QED
    BY <1>2, <1>7, <2>1, ControlsStay DEF HostInv, setup, config
<1>10. ASSUME NEW k \in Singles PROVE Coming(k)' \/ Source(k)' = Source(k)
  <2>1. k \in Watched
    BY DEF Singles
  <2>2. CASE k \in Lists
    BY <1>6, <2>2 DEF Coming
  <2>3. CASE k[2] = "DeviceIsAlive"
    <3>1. k = <<"Null", "DeviceIsAlive">>
      BY <2>1, <2>3 DEF Watched
    <3>2. Source(k) = ("Null" \in active) /\ Source(k)' = ("Null" \in active')
      BY <3>1 DEF Source
    <3>3. QED
      BY <1>7, <3>1, <3>2
  <2>4. CASE k[2] \in {"OwnedObjects", "ControlList", "EnabledOutputControls"} /\ k \notin Lists
    <3>1. k[1] \in Instances
      BY <2>1, <2>4 DEF Watched, Lists
    <3>2. VolumeControl[k[1]] # "Null" /\ MuteControl[k[1]] # "Null"
      BY <3>1 DEF Instances, VolumeControl, MuteControl
    <3>3. Enabled(k[1])' = Enabled(k[1])
      BY <1>7, <3>2 DEF Enabled
    <3>4. QED
      BY <2>4, <3>1, <3>3 DEF Source, Instances
  <2>5. CASE /\ k \notin Lists
             /\ k[2] \notin {"DeviceIsAlive", "OwnedObjects", "ControlList",
                             "EnabledOutputControls"}
    <3>1. k[1] # "PlugIn"
      BY <2>1, <2>5 DEF Watched, Lists, Streams, Volumes, Instances
    <3>2. QED
      BY <1>2, <2>5, <3>1 DEF Source, Listing, AppVolumes, AppEQ
  <2>6. QED
    BY <2>2, <2>3, <2>4, <2>5
<1>11. ObjectTypes'
  BY <1>2 DEF HostInv, ObjectTypes
<1>12. QED
  BY <1>2, <1>3, <1>5, <1>7, <1>8, <1>9, <1>10, <1>11, StepKeeps DEF Flagged, setup, config, members,
     host

(* The announcement takes its place.                                        *)
LEMMA AnnounceNullKeeps ==
  ASSUME IInv, HostInv, NEW t \in Thread, AnnounceNullDevice(t)
  PROVE  HostInv'
<1>1. /\ Making(t, "null") /\ call' = [call EXCEPT ![t] = NoCall]
      /\ Dispatch(Changed("PlugIn", {"OwnedObjects", "DeviceList"}))
      /\ UNCHANGED <<objects, setup, config, members, locks, equalisers, host>>
  BY DEF AnnounceNullDevice, End
<1>2. phase = "ready"
  BY <1>1, Awake DEF Making
<1>3. Queued /\ \A k \in Lists : Coming(k)'
  <2>1. /\ "PlugIn" \in Objects /\ {"OwnedObjects", "DeviceList"} \in SUBSET Properties
        /\ queue \in Seq(Block)
    BY AllObjects, KnownProperties DEF HostInv, HostTypes
  <2>2. QED
    BY <1>1, <2>1, AnnouncedComes DEF Lists
<1>4. ASSUME NEW k, Coming(k) PROVE Coming(k)'
  BY <1>1, <1>3, <1>4 DEF Coming, Queued, host
<1>5. CallTypes'
  BY <1>1, CallTypesKept
<1>6. ControlsAsked'
  BY <1>1, <1>3, ControlsStay DEF HostInv, objects, setup, config
<1>7. \A k : Source(k)' = Source(k)
  BY <1>1 DEF Source, Enabled, Listing, AppVolumes, AppEQ, objects
<1>8. ObjectTypes'
  BY <1>1 DEF HostInv, ObjectTypes, objects
<1>9. QED
  BY <1>1, <1>2, <1>3, <1>4, <1>5, <1>6, <1>7, <1>8, StepKeeps
     DEF Flagged, objects, setup, config, members, host

(* Calls that add or remove a client go on; IO operations.                  *)
LEMMA LockingKeeps ==
  ASSUME IInv, HostInv, NEW t \in Thread, LockIO(t) \/ ChangeProcessors(t)
  PROVE  HostInv'
<1>1. /\ call[t] # NoCall /\ call[t].op \in Changes
      /\ UNCHANGED <<objects, setup, queue, config, members, host>>
      /\ \/ call' = [call EXCEPT ![t] = NoCall]
         \/ call' = [call EXCEPT ![t] = [call[t] EXCEPT !.at = "map"]]
  BY DEF LockIO, ChangeProcessors, Making, Continue, End, Changes
<1>2. phase = "ready" /\ ~Making(t, "null")
  BY <1>1, Awake DEF Making, Changes
<1>3. CASE call' = [call EXCEPT ![t] = NoCall]
  BY <1>1, <1>2, <1>3, OnlyCallKeeps DEF setup, members
<1>4. CASE call' = [call EXCEPT ![t] = [call[t] EXCEPT !.at = "map"]]
  <2> DEFINE x == [call[t] EXCEPT !.at = "map"]
  <2>1. IsChange(call[t])
    BY <1>1, ChangingShape DEF IInv, Changing
  <2>2. x.op \in Changes
    BY <2>1 DEF IsChange
  <2>3. call' = [call EXCEPT ![t] = x]
    BY <1>4
  <2> HIDE DEF x
  <2>4. QED
    BY <1>1, <1>2, <2>2, <2>3, OnlyCallKeeps DEF setup, members, Changes
<1>5. QED
  BY <1>1, <1>3, <1>4

(* A step of nothing that is watched.                                       *)
LEMMA NothingKnownChanges ==
  ASSUME HostInv, phase = "ready" \/ UNCHANGED io,
         UNCHANGED <<objects, phase, queue, config, call, added, host>>
  PROVE  HostInv'
<1>1. CallTypes' /\ HostTypes'
  BY DEF HostInv, CallTypes, HostTypes, Making, config, host
<1>2. RateTypes' /\ ClientTypes' /\ ObjectTypes'
  BY DEF HostInv, RateTypes, ClientTypes, ObjectTypes, objects
<1>3. Dormant'
  BY DEF HostInv, Dormant, objects, config, host
<1>4. RateAsked' /\ ControlsAsked'
  BY DEF HostInv, RateAsked, ControlsAsked, ControlsSet, Under, objects, config
<1>5. Followed'
  <2>1. \A k : Coming(k) => Coming(k)'
    BY DEF Coming, Announcing, Making, host
  <2>2. \A k : Source(k)' = Source(k)
    BY DEF Source, Enabled, Listing, AppVolumes, AppEQ, objects
  <2>3. CASE phase = "ready"
    BY <2>1, <2>2, <2>3, FollowedStays, SettingsStay DEF HostInv, Flagged, objects, config, host
  <2>4. CASE phase # "ready"
    BY <2>4 DEF Followed
  <2>5. QED
    BY <2>3, <2>4
<1>6. Newcomers'
  BY DEF HostInv, Newcomers, objects, host
<1>7. QED
  BY <1>1, <1>2, <1>3, <1>4, <1>5, <1>6 DEF HostInv

(* IO operations change nothing that is watched.                            *)
LEMMA OperationsKeep ==
  ASSUME HostInv, BGM_DoIOOperation \/ \E d \in Instances : FinishOperation(d)
  PROVE  HostInv'
<1>1. UNCHANGED <<objects, setup, queue, config, call, members, host>>
  BY DEF BGM_DoIOOperation, FinishOperation
<1>2. phase = "ready"
  <2>1. CASE BGM_DoIOOperation
    BY <2>1 DEF BGM_DoIOOperation
  <2>2. ASSUME NEW d \in Instances, FinishOperation(d) PROVE phase = "ready"
    <3>1. io[d].at # "idle"
      BY <2>2 DEF FinishOperation
    <3>2. Dormant
      BY DEF HostInv
    <3>3. QED
      BY <3>1, <3>2 DEF Dormant
  <2>3. QED
    BY <2>1, <2>2
<1>3. QED
  BY <1>1, <1>2, NothingKnownChanges DEF setup, members
-----------------------------------------------------------------------------
(* Settings of clients, and the clients.                                    *)

(* Settings or clients change, and the host is told if it has to be.        *)
LEMMA SettingsKeep ==
  ASSUME HostInv, phase = "ready", Queued, CallTypes', ClientTypes', Newcomers', ControlsAsked',
         UNCHANGED <<active, level, muted, on, rate, format, music, debug, nullIO, phase,
                     requests, pendingRate, aborted, announced, view, told, reading>>,
         pendingControls' \in [Instances -> BOOLEAN \X BOOLEAN],
         \A k : Coming(k) => Coming(k)',
         \A k \in Settings : Coming(k)' \/ (FreshSettings(k) => FreshSettings(k)')
  PROVE  HostInv'
<1>1. HostTypes'
  BY DEF HostInv, HostTypes, Queued
<1>2. RateTypes' /\ ObjectTypes'
  BY DEF HostInv, RateTypes, ObjectTypes
<1>3. Dormant'
  BY ReadyToStep
<1>4. RateAsked'
  BY RatesStay DEF HostInv
<1>5. Followed'
  <2>1. ASSUME NEW k \in Singles PROVE Source(k)' = Source(k)
    <3>1. k \in Watched /\ k \notin Settings
      BY DEF Singles
    <3>2. k[2] \notin {"AppVolumes", "AppEQ"}
      BY <3>1 DEF Watched, Settings
    <3>3. k[2] \in {"DeviceList", "DeviceIsAlive", "DeviceIsRunning", "Value", "ScalarValue",
                    "IsActive", "VirtualFormat", "OwnedObjects", "ControlList",
                    "EnabledOutputControls", "NominalSampleRate", "MusicPlayerProcessID",
                    "MusicPlayerBundleID", "DebugLogging"}
      BY <3>1, <3>2 DEF Watched
    <3>4. k[2] = "DeviceList" => k[1] = "PlugIn"
      BY <3>1 DEF Watched
    <3>5. QED
      BY <3>3, <3>4 DEF Source, Enabled
  <2>2. QED
    BY <2>1, FollowedStays DEF HostInv, Flagged
<1>6. QED
  BY <1>1, <1>2, <1>3, <1>4, <1>5 DEF HostInv

(* What a call has left to set once it has set one.                         *)
LEMMA RestOfCall ==
  ASSUME NEW o, NEW l, NEW x, x = [op |-> o, todo |-> l]
  PROVE  [x EXCEPT !.todo = Tail(@)] = [op |-> o, todo |-> Tail(l)]
<1> DEFINE m == Tail(l)
<1>1. [x EXCEPT !.todo = Tail(@)] = [x EXCEPT !.todo = m]
  <2>1. x.todo = l
    OBVIOUS
  <2>2. QED
    BY <2>1, Zenon
<1> HIDE DEF m
<1>2. [x EXCEPT !.todo = m] = [op |-> o, todo |-> m]
  OBVIOUS
<1>3. QED
  BY <1>1, <1>2 DEF m

(* The rest of a call's array is set next.                                  *)
LEMMA RestTypes ==
  ASSUME IInv, HostInv, NEW t \in Thread, Making(t, "volumes") \/ Making(t, "gains"), Rest(t)
  PROVE  CallTypes' /\ (Announcing => Announcing')
<1>1. ~Making(t, "null")
  BY DEF Making
<1>2. CASE call' = [call EXCEPT ![t] = NoCall]
  BY <1>1, <1>2, CallTypesKept, AnnouncingStays
<1>3. CASE Len(call[t].todo) # 1
  <2> DEFINE x == [call[t] EXCEPT !.todo = Tail(@)]
             l == call[t].todo
  <2>1. call' = [call EXCEPT ![t] = x]
    BY <1>3 DEF Rest, Continue
  <2>2. IsOther(call[t])
    BY DEF IInv, Types, Making, IsChange, Changes
  <2>3. ASSUME NEW S, l \in Seq(S) \ {<<>>} PROVE Tail(l) \in Seq(S) \ {<<>>}
    <3> HIDE DEF l
    <3>1. Len(l) # 1 /\ l \in Seq(S) /\ l # <<>>
      BY <1>3, <2>3 DEF l
    <3>2. Len(l) \in Nat \ {0} /\ Tail(l) \in Seq(S) /\ Len(Tail(l)) = Len(l) - 1
      BY <3>1, HeadTailProperties, EmptySeq
    <3>3. Len(Tail(l)) # 0
      BY <3>1, <3>2
    <3>5. Tail(l) # <<>>
      BY <3>3, EmptySeq
    <3>4. QED
      BY <3>2, <3>5
  <2>4. \/ x.op = "volumes" /\ x.todo \in Seq(ToSet(AppVolumeSet)) \ {<<>>}
        \/ x.op = "gains" /\ x.todo \in Seq(ToSet(GainSet)) \ {<<>>}
    <3>1. CASE Making(t, "volumes")
      <4>1. l \in Seq(ToSet(AppVolumeSet)) \ {<<>>}
        BY <3>1 DEF HostInv, CallTypes
      <4>2. call[t] = [op |-> "volumes", todo |-> l]
        BY <2>2, <3>1 DEF IsOther, Making
      <4> HIDE DEF l
      <4>3. x = [op |-> "volumes", todo |-> Tail(l)]
        BY <4>2, RestOfCall
      <4>4. QED
        BY <2>3, <4>1, <4>3
    <3>2. CASE Making(t, "gains")
      <4>1. l \in Seq(ToSet(GainSet)) \ {<<>>}
        BY <3>2 DEF HostInv, CallTypes
      <4>2. call[t] = [op |-> "gains", todo |-> l]
        BY <2>2, <3>2 DEF IsOther, Making
      <4> HIDE DEF l
      <4>3. x = [op |-> "gains", todo |-> Tail(l)]
        BY <4>2, RestOfCall
      <4>4. QED
        BY <2>3, <4>1, <4>3
    <3>3. QED
      BY <3>1, <3>2
  <2> HIDE DEF x
  <2>5. CallTypes'
    BY <2>1, <2>4, CallTypesKept
  <2>6. QED
    BY <1>1, <2>1, <2>5, AnnouncingStays
<1>4. QED
  BY <1>2, <1>3 DEF Rest, End

(* A volume that was set for a client that is there is announced.           *)
LEMMA SetVolumesKeeps ==
  ASSUME IInv, HostInv, NEW t \in Thread, SetAppVolumes(t)
  PROVE  HostInv'
<1>1. PICK d \in Instances, e \in [who : SUBSET Client, value : AppVolumeSet] :
        Head(call[t].todo) = <<d, e>>
  <2>1. call[t].todo \in Seq(ToSet(AppVolumeSet)) \ {<<>>}
    BY DEF SetAppVolumes, HostInv, CallTypes
  <2>2. Head(call[t].todo) \in ToSet(AppVolumeSet)
    BY <2>1
  <2>3. QED
    BY <2>2 DEF ToSet
<1> DEFINE r == [e EXCEPT !.value = RelativeVolume(@)]
<1>2. /\ Making(t, "volumes") /\ volumes' = Apply(volumes, d, r) /\ Rest(t)
      /\ AnnounceIf(Found(d, e) # {}, d, {"AppVolumes"})
      /\ UNCHANGED <<active, level, muted, on, rate, format, music, gains, clients, debug,
                     nullIO, setup, config, members, locks, equalisers, host>>
  <2> DEFINE h == Head(call[t].todo)
  <2>1. h[1] = d /\ h[2] = e
    BY <1>1
  <2>2. /\ Making(t, "volumes")
        /\ volumes' = Apply(volumes, h[1], [h[2] EXCEPT !.value = RelativeVolume(@)])
        /\ Rest(t) /\ AnnounceIf(Found(h[1], h[2]) # {}, h[1], {"AppVolumes"})
        /\ UNCHANGED <<active, level, muted, on, rate, format, music, gains, clients, debug,
                       nullIO, setup, config, members, locks, equalisers, host>>
    BY DEF SetAppVolumes
  <2> HIDE DEF h
  <2>3. QED
    BY <2>1, <2>2, Zenon
<1>3. Found(d, r) = Found(d, e) /\ Found(d, e) \subseteq clients[d]
  BY DEF Found
<1> HIDE DEF r
<1>4. phase = "ready"
  BY <1>2, Awake DEF Making
<1>5. /\ volumes' = [i \in Instances |-> [c \in Client |-> volumes'[i][c]]]
      /\ \A i \in Instances, c \in Client :
           volumes'[i][c] # volumes[i][c] => i = d /\ c \in Found(d, e)
  <2>1. volumes = [i \in Instances |-> [c \in Client |-> volumes[i][c]]]
    BY DEF HostInv, ClientTypes
  <2>2. volumes' = [volumes EXCEPT ![d] =
          [c \in Client |-> IF c \in Found(d, e) THEN r.value ELSE volumes[d][c]]]
    BY <1>2, <1>3 DEF Apply
  <2>3. QED
    BY <2>1, <2>2
<1>6. Queued /\ (Found(d, e) # {} => Coming(<<d, "AppVolumes">>)')
  <2>1. d \in Objects /\ {"AppVolumes"} \in SUBSET Properties /\ queue \in Seq(Block)
    BY AllObjects, KnownProperties DEF Instances, HostInv, HostTypes
  <2>2. QED
    BY <1>2, <2>1, IfAnnounced
<1>7. CallTypes' /\ \A k : Coming(k) => Coming(k)'
  <2>1. CallTypes' /\ (Announcing => Announcing')
    BY <1>2, RestTypes
  <2>2. UNCHANGED told
    BY <1>2 DEF host
  <2>3. QED
    BY <1>6, <2>1, <2>2, ComingStays
<1>8. ClientTypes' /\ Newcomers'
  <2>1. ClientTypes'
    BY <1>2, <1>5 DEF HostInv, ClientTypes, members
  <2>2. ASSUME NEW i \in Instances, NEW c \in Client \ added[i]
        PROVE  volumes'[i][c] = DefaultVolume /\ gains[i][c] = "flat"
    <3>1. c \notin clients[i] /\ volumes[i][c] = DefaultVolume /\ gains[i][c] = "flat"
      BY DEF HostInv, ClientTypes, Newcomers
    <3>2. QED
      BY <1>3, <1>5, <3>1
  <2>3. QED
    BY <1>2, <2>1, <2>2 DEF HostInv, Newcomers, setup, members, host
<1>9. ControlsAsked' /\ pendingControls' \in [Instances -> BOOLEAN \X BOOLEAN]
  BY <1>2, <1>6, ControlsStay DEF HostInv, HostTypes, setup, config
<1>10. ASSUME NEW k \in Settings PROVE Coming(k)' \/ (FreshSettings(k) => FreshSettings(k)')
  <2>1. CASE k = <<d, "AppVolumes">> /\ Found(d, e) # {}
    BY <1>6, <2>1
  <2>2. CASE ~(k = <<d, "AppVolumes">> /\ Found(d, e) # {})
    <3>1. Listing(k)' = Listing(k)
      <4>1. CASE k[2] = "AppVolumes"
        <5>1. PICK i \in Instances : k = <<i, "AppVolumes">>
          BY <4>1 DEF Settings
        <5>2. \A c \in Client : volumes'[i][c] = volumes[i][c]
          BY <1>5, <2>2, <5>1
        <5>3. clients[i] \subseteq Client /\ clients'[i] = clients[i]
          BY <1>2 DEF HostInv, ClientTypes
        <5>4. {x \in clients'[i] : volumes'[i][x] # DefaultVolume}
                = {x \in clients[i] : volumes[i][x] # DefaultVolume}
          BY <5>2, <5>3
        <5>5. AppVolumes(i)' = AppVolumes(i)
          BY <5>2, <5>3, <5>4 DEF AppVolumes
        <5>6. QED
          BY <5>1, <5>5 DEF Listing
      <4>2. CASE k[2] # "AppVolumes"
        BY <1>2, <4>2 DEF Listing, AppEQ
      <4>3. QED
        BY <4>1, <4>2
    <3>2. QED
      BY <1>2, <3>1 DEF FreshSettings, BeingRead, Listed, host
  <2>3. QED
    BY <2>1, <2>2
<1>11. QED
  BY <1>2, <1>4, <1>6, <1>7, <1>8, <1>9, <1>10, SettingsKeep DEF setup, config, host
-----------------------------------------------------------------------------
(* So is an equaliser.                                                      *)
LEMMA SetEQKeeps ==
  ASSUME IInv, HostInv, NEW t \in Thread, SetAppEQ(t)
  PROVE  HostInv'
<1>1. PICK d \in Instances, e \in [who : SUBSET Client, value : GainSet] :
        Head(call[t].todo) = <<d, e>>
  <2>1. call[t].todo \in Seq(ToSet(GainSet)) \ {<<>>}
    BY DEF SetAppEQ, HostInv, CallTypes
  <2>2. Head(call[t].todo) \in ToSet(GainSet)
    BY <2>1
  <2>3. QED
    BY <2>2 DEF ToSet
<1>2. /\ Making(t, "gains") /\ gains' = Apply(gains, d, e) /\ Rest(t)
      /\ AnnounceIf(Found(d, e) # {}, d, {"AppEQ"})
      /\ UNCHANGED <<active, level, muted, on, rate, format, music, volumes, clients, debug,
                     nullIO, setup, config, members, locks, equalisers, host>>
  <2> DEFINE h == Head(call[t].todo)
  <2>1. h[1] = d /\ h[2] = e
    BY <1>1
  <2>2. /\ Making(t, "gains") /\ gains' = Apply(gains, h[1], h[2])
        /\ Rest(t) /\ AnnounceIf(Found(h[1], h[2]) # {}, h[1], {"AppEQ"})
        /\ UNCHANGED <<active, level, muted, on, rate, format, music, volumes, clients, debug,
                       nullIO, setup, config, members, locks, equalisers, host>>
    BY DEF SetAppEQ
  <2> HIDE DEF h
  <2>3. QED
    BY <2>1, <2>2, Zenon
<1>3. Found(d, e) \subseteq clients[d] /\ e.value \in GainSet
  BY DEF Found
<1>4. phase = "ready"
  BY <1>2, Awake DEF Making
<1>5. /\ gains' \in [Instances -> [Client -> GainSet]]
      /\ \A i \in Instances, c \in Client :
           gains'[i][c] # gains[i][c] => i = d /\ c \in Found(d, e)
  <2>1. gains \in [Instances -> [Client -> GainSet]]
    BY DEF HostInv, ClientTypes
  <2>2. gains' = [gains EXCEPT ![d] =
          [c \in Client |-> IF c \in Found(d, e) THEN e.value ELSE gains[d][c]]]
    BY <1>2 DEF Apply
  <2>3. QED
    BY <1>3, <2>1, <2>2
<1>6. Queued /\ (Found(d, e) # {} => Coming(<<d, "AppEQ">>)')
  <2>1. d \in Objects /\ {"AppEQ"} \in SUBSET Properties /\ queue \in Seq(Block)
    BY AllObjects, KnownProperties DEF Instances, HostInv, HostTypes
  <2>2. QED
    BY <1>2, <2>1, IfAnnounced
<1>7. CallTypes' /\ \A k : Coming(k) => Coming(k)'
  <2>1. CallTypes' /\ (Announcing => Announcing')
    BY <1>2, RestTypes
  <2>2. UNCHANGED told
    BY <1>2 DEF host
  <2>3. QED
    BY <1>6, <2>1, <2>2, ComingStays
<1>8. ClientTypes' /\ Newcomers'
  <2>1. ClientTypes'
    BY <1>2, <1>5 DEF HostInv, ClientTypes, members
  <2>2. ASSUME NEW i \in Instances, NEW c \in Client \ added[i]
        PROVE  volumes[i][c] = DefaultVolume /\ gains'[i][c] = "flat"
    <3>1. c \notin clients[i] /\ volumes[i][c] = DefaultVolume /\ gains[i][c] = "flat"
      BY DEF HostInv, ClientTypes, Newcomers
    <3>2. QED
      BY <1>3, <1>5, <3>1
  <2>3. QED
    BY <1>2, <2>1, <2>2 DEF HostInv, Newcomers, setup, members, host
<1>9. ControlsAsked' /\ pendingControls' \in [Instances -> BOOLEAN \X BOOLEAN]
  BY <1>2, <1>6, ControlsStay DEF HostInv, HostTypes, setup, config
<1>10. ASSUME NEW k \in Settings PROVE Coming(k)' \/ (FreshSettings(k) => FreshSettings(k)')
  <2>1. CASE k = <<d, "AppEQ">> /\ Found(d, e) # {}
    BY <1>6, <2>1
  <2>2. CASE ~(k = <<d, "AppEQ">> /\ Found(d, e) # {})
    <3>1. Listing(k)' = Listing(k)
      <4>1. CASE k[2] = "AppEQ"
        <5>1. PICK i \in Instances : k = <<i, "AppEQ">>
          BY <4>1 DEF Settings
        <5>2. \A c \in Client : gains'[i][c] = gains[i][c]
          BY <1>5, <2>2, <5>1
        <5>3. clients[i] \subseteq Client /\ clients'[i] = clients[i]
          BY <1>2 DEF HostInv, ClientTypes
        <5>4. {x \in clients'[i] : gains'[i][x] # "flat"}
                = {x \in clients[i] : gains[i][x] # "flat"}
          BY <5>2, <5>3
        <5>5. AppEQ(i)' = AppEQ(i)
          BY <5>2, <5>3, <5>4 DEF AppEQ
        <5>6. QED
          BY <5>1, <5>5 DEF Listing
      <4>2. CASE k[2] # "AppEQ"
        BY <1>2, <4>2 DEF Listing, Settings, AppVolumes
      <4>3. QED
        BY <4>1, <4>2
    <3>2. QED
      BY <1>2, <3>1 DEF FreshSettings, BeingRead, Listed, host
  <2>3. QED
    BY <2>1, <2>2
<1>11. QED
  BY <1>2, <1>4, <1>6, <1>7, <1>8, <1>9, <1>10, SettingsKeep DEF setup, config, host

(* A client that comes is on no list.                                       *)
LEMMA AddKeeps ==
  ASSUME IInv, HostInv, NEW t \in Thread, BGM_AddDeviceClient(t)
  PROVE  HostInv'
<1>1. PICK d \in Instances, c \in Client : phase = "ready" /\ AddClient(t, d, c)
  BY DEF BGM_AddDeviceClient
<1> DEFINE begun == [op |-> "add", device |-> d, client |-> c, at |-> "lock"]
<1>2. /\ c \notin added[d] /\ clients' = [clients EXCEPT ![d] = @ \cup {c}]
      /\ added' = [added EXCEPT ![d] = @ \cup {c}]
      /\ call[t] = NoCall /\ call' = [call EXCEPT ![t] = begun]
      /\ UNCHANGED <<active, level, muted, on, rate, format, music, volumes, gains,
                     debug, nullIO, phase, queue, config, ioLock, equalisers, host>>
  BY <1>1 DEF AddClient, Clients_AddClient, Begin
<1>3. begun.op \notin {"null", "volumes", "gains"}
  OBVIOUS
<1> HIDE DEF begun
<1>4. CallTypes' /\ (Announcing => Announcing')
  <2>1. ~Making(t, "null")
    BY <1>2 DEF Making
  <2>2. CallTypes'
    BY <1>2, <1>3, CallTypesKept
  <2>3. Announcing => Announcing'
    BY <1>2, <2>1, AnnouncingStays
  <2>4. QED
    BY <2>2, <2>3
<1>5. /\ added \in [Instances -> SUBSET Client] /\ clients \in [Instances -> SUBSET Client]
      /\ \A i \in Instances : clients[i] \subseteq added[i]
  BY DEF HostInv, ClientTypes
<1>6. /\ added' \in [Instances -> SUBSET Client] /\ clients' \in [Instances -> SUBSET Client]
      /\ added'[d] = added[d] \cup {c} /\ clients'[d] = clients[d] \cup {c}
      /\ \A i \in Instances \ {d} : added'[i] = added[i] /\ clients'[i] = clients[i]
  BY <1>2, <1>5
<1>7. \A i \in Instances : clients'[i] \subseteq added'[i] /\ added[i] \subseteq added'[i]
  BY <1>5, <1>6
<1>8. ClientTypes' /\ Newcomers'
  <2>1. ClientTypes'
    BY <1>2, <1>6, <1>7 DEF HostInv, ClientTypes
  <2>2. Newcomers'
    BY <1>2, <1>7 DEF HostInv, Newcomers, Settings, host
  <2>3. QED
    BY <2>1, <2>2
<1>9. Queued
  BY <1>2, QueueKept DEF HostInv, HostTypes
<1>10. \A k : Coming(k) => Coming(k)'
  BY <1>2, <1>4, <1>9, ComingStays DEF host
<1>11. ControlsAsked' /\ pendingControls' \in [Instances -> BOOLEAN \X BOOLEAN]
  BY <1>2, <1>9, ControlsStay DEF HostInv, HostTypes, config
<1>12. ASSUME NEW k \in Settings PROVE FreshSettings(k) => FreshSettings(k)'
  <2>1. PICK i \in Instances, p \in {"AppVolumes", "AppEQ"} : k = <<i, p>>
    BY DEF Settings
  <2>2. Listed(k)' = Listed(k)
    <3>1. \A e \in view[k][1] : e[1] \in added[i]
      BY <1>1, <2>1 DEF HostInv, Newcomers
    <3>2. \A e \in view[k][1] : e[1] \in clients'[i] <=> e[1] \in clients[i]
      BY <1>2, <1>6, <3>1
    <3>3. QED
      BY <1>2, <2>1, <3>2 DEF Listed, host
  <2>3. Listing(k)' = Listing(k)
    <3>1. volumes[d][c] = DefaultVolume /\ gains[d][c] = "flat"
      BY <1>2 DEF HostInv, Newcomers
    <3>2. /\ {x \in clients'[i] : volumes[i][x] # DefaultVolume}
               = {x \in clients[i] : volumes[i][x] # DefaultVolume}
          /\ {x \in clients'[i] : gains[i][x] # "flat"}
               = {x \in clients[i] : gains[i][x] # "flat"}
      BY <1>6, <3>1
    <3>3. AppVolumes(i)' = AppVolumes(i) /\ AppEQ(i)' = AppEQ(i)
      BY <1>2, <3>2 DEF AppVolumes, AppEQ
    <3>4. QED
      BY <2>1, <3>3 DEF Listing
  <2>4. QED
    BY <1>2, <2>2, <2>3 DEF FreshSettings, BeingRead, host
<1>13. QED
  BY <1>1, <1>2, <1>4, <1>8, <1>9, <1>10, <1>11, <1>12, SettingsKeep DEF config, host

(* One that goes stays listed, but is not asked about.                      *)
LEMMA RemoveKeeps ==
  ASSUME IInv, HostInv, NEW t \in Thread, BGM_RemoveDeviceClient(t)
  PROVE  HostInv'
<1>1. PICK d \in Instances, c \in Client : phase = "ready" /\ RemoveClient(t, d, c)
  BY DEF BGM_RemoveDeviceClient
<1> DEFINE begun == [op |-> "remove", device |-> d, client |-> c, at |-> "lock"]
<1>2. /\ clients' = [clients EXCEPT ![d] = @ \ {c}]
      /\ call[t] = NoCall /\ call' = [call EXCEPT ![t] = begun]
      /\ \/ RequestEnabledControls(d, TRUE, TRUE)
         \/ UNCHANGED <<pendingControls, queue>>
      /\ UNCHANGED <<active, level, muted, on, rate, format, music, volumes, gains,
                     debug, nullIO, setup, requests, pendingRate, aborted, announced, added,
                     ioLock, equalisers, host>>
  BY <1>1 DEF RemoveClient, Clients_RemoveClient, Begin
<1>3. begun.op \notin {"null", "volumes", "gains"}
  OBVIOUS
<1> HIDE DEF begun
<1>4. CallTypes' /\ (Announcing => Announcing')
  <2>1. ~Making(t, "null")
    BY <1>2 DEF Making
  <2>2. CallTypes'
    BY <1>2, <1>3, CallTypesKept
  <2>3. Announcing => Announcing'
    BY <1>2, <2>1, AnnouncingStays
  <2>4. QED
    BY <2>2, <2>3
<1>5. /\ added \in [Instances -> SUBSET Client] /\ clients \in [Instances -> SUBSET Client]
      /\ \A i \in Instances : clients[i] \subseteq added[i]
  BY DEF HostInv, ClientTypes
<1>6. /\ clients' \in [Instances -> SUBSET Client] /\ clients'[d] = clients[d] \ {c}
      /\ \A i \in Instances \ {d} : clients'[i] = clients[i]
  BY <1>2, <1>5
<1>8. ClientTypes' /\ Newcomers'
  <2>1. ClientTypes'
    BY <1>2, <1>5, <1>6 DEF HostInv, ClientTypes
  <2>2. Newcomers'
    BY <1>2 DEF HostInv, Newcomers, setup, host
  <2>3. QED
    BY <2>1, <2>2
<1>9. /\ Queued /\ ControlsAsked' /\ pendingControls' \in [Instances -> BOOLEAN \X BOOLEAN]
  <2>1. CASE RequestEnabledControls(d, TRUE, TRUE)
    BY <1>2, <2>1, ControlsRequested DEF setup
  <2>2. CASE UNCHANGED <<pendingControls, queue>>
    <3>1. Queued
      BY <2>2, QueueKept DEF HostInv, HostTypes
    <3>2. ControlsAsked'
      BY <1>2, <2>2, <3>1, ControlsStay DEF HostInv, setup
    <3>3. QED
      BY <2>2, <3>1, <3>2 DEF HostInv, HostTypes
  <2>3. QED
    BY <1>2, <2>1, <2>2
<1>10. \A k : Coming(k) => Coming(k)'
  BY <1>2, <1>4, <1>9, ComingStays DEF host
<1>12. ASSUME NEW k \in Settings PROVE FreshSettings(k) => FreshSettings(k)'
  <2>1. PICK i \in Instances, p \in {"AppVolumes", "AppEQ"} : k = <<i, p>>
    BY DEF Settings
  <2>2. CASE i # d
    <3>1. Listed(k)' = Listed(k)
      BY <1>2, <1>6, <2>1, <2>2 DEF Listed, host
    <3>2. AppVolumes(i)' = AppVolumes(i) /\ AppEQ(i)' = AppEQ(i)
      BY <1>2, <1>6, <2>2 DEF AppVolumes, AppEQ
    <3>3. QED
      BY <1>2, <2>1, <3>1, <3>2 DEF FreshSettings, BeingRead, Listing, host
  <2>3. CASE i = d
    <3>1. Listed(k)' = {e \in Listed(k) : e[1] # c}
      BY <1>2, <1>6, <2>1, <2>3 DEF Listed, host
    <3>2. /\ AppVolumes(i)' = {e \in AppVolumes(i) : e[1] # c}
          /\ AppEQ(i)' = {e \in AppEQ(i) : e[1] # c}
      BY <1>2, <1>6, <2>3 DEF AppVolumes, AppEQ
    <3>3. Listing(k)' = {e \in Listing(k) : e[1] # c}
      BY <2>1, <3>2 DEF Listing
    <3>4. QED
      BY <1>2, <3>1, <3>3 DEF FreshSettings, BeingRead, host
  <2>4. QED
    BY <2>2, <2>3
<1>13. QED
  BY <1>1, <1>2, <1>4, <1>8, <1>9, <1>10, <1>12, SettingsKeep DEF setup, host
-----------------------------------------------------------------------------
(* The queue is run.                                                        *)

(* The host watches the settings of clients.                                *)
LEMMA SettingsWatched == Settings \subseteq Watched
BY DEF Settings, Watched

(* Each item but the first is in the tail, one place before.                *)
LEMMA TailOf ==
  ASSUME NEW S, NEW s \in Seq(S), s # <<>>
  PROVE  /\ Head(s) = s[1] /\ s[1] \in S /\ Tail(s) \in Seq(S) /\ Len(s) \in Nat
         /\ \A i \in 1 .. Len(s) : i = 1 \/ (i - 1 \in 1 .. Len(Tail(s)) /\ Tail(s)[i - 1] = s[i])
<1>1. Head(s) = s[1] /\ s[1] \in S /\ Tail(s) \in Seq(S) /\ Len(s) \in Nat
  OBVIOUS
<1>2. Len(Tail(s)) = Len(s) - 1 /\ \A i \in 1 .. Len(s) - 1 : Tail(s)[i] = s[i + 1]
  OBVIOUS
<1> DEFINE l == Tail(s)
<1> HIDE DEF l
<1>3. ASSUME NEW i \in 1 .. Len(s), i # 1 PROVE i - 1 \in 1 .. Len(l) /\ l[i - 1] = s[i]
  <2>1. Len(l) = Len(s) - 1 /\ i - 1 \in 1 .. Len(s) - 1
    BY <1>1, <1>2, <1>3 DEF l
  <2>2. l[i - 1] = s[(i - 1) + 1]
    BY <1>2, <2>1 DEF l
  <2>3. (i - 1) + 1 = i
    OBVIOUS
  <2>4. QED
    BY <2>1, <2>2, <2>3
<1>4. QED
  BY <1>1, <1>3 DEF l

(* The host is told what a block announces, and asked what it requests.     *)
LEMMA RunKeeps ==
  ASSUME IInv, HostInv, RunBlock
  PROVE  HostInv'
<1> DEFINE b == queue[1]
           rest == Tail(queue)
<1>1. queue \in Seq(Block) /\ queue # <<>> /\ queue' = Tail(queue) /\ requests \in Seq(RequestBlock)
      /\ phase = "ready"
  BY DEF HostInv, HostTypes, RunBlock, Dormant
<1>2. /\ b \in Block /\ rest \in Seq(Block) /\ Len(queue) \in Nat /\ Head(queue) = b
      /\ \A i \in 1 .. Len(queue) :
           i = 1 \/ (i - 1 \in 1 .. Len(rest) /\ rest[i - 1] = queue[i])
  BY <1>1, TailOf
<1>3. UNCHANGED <<objects, setup, pendingRate, pendingControls, aborted, announced, call,
                  members, locks, equalisers, view, reading>>
  BY DEF RunBlock
<1>4. \/ b.kind = "changed" /\ told' = told \cup (b.keys \cap Watched) /\ UNCHANGED requests
      \/ /\ b.kind = "request" /\ UNCHANGED told
         /\ requests' = Append(requests, [device |-> b.device, action |-> b.action])
  <2> DEFINE h == Head(queue)
  <2>1. \/ h.kind = "changed" /\ told' = told \cup (h.keys \cap Watched) /\ UNCHANGED requests
        \/ /\ h.kind = "request" /\ UNCHANGED told
           /\ requests' = Append(requests, [device |-> h.device, action |-> h.action])
    BY DEF RunBlock
  <2>2. h = b
    BY <1>2
  <2> HIDE DEF h, b
  <2>3. QED
    BY <2>1, <2>2
<1>5. b.kind = "request" => b.device \in Instances /\ b.action \in Actions
  <2> HIDE DEF b
  <2>1. QED
    BY <1>2 DEF Block
<1>6. queue' = rest
  BY <1>1
<1> HIDE DEF b, rest
<1>7. told' \subseteq Watched /\ told \subseteq told'
  BY <1>4 DEF HostInv, HostTypes
<1>8. /\ requests' \in Seq(RequestBlock)
      /\ \A i \in 1 .. Len(requests) : i \in 1 .. Len(requests') /\ requests'[i] = requests[i]
      /\ b.kind = "request" =>
           \E i \in 1 .. Len(requests') :
             requests'[i].device = b.device /\ requests'[i].action = b.action
  <2>1. CASE b.kind = "changed"
    BY <1>1, <1>4, <2>1
  <2>2. CASE b.kind = "request"
    <3> DEFINE r == [device |-> b.device, action |-> b.action]
    <3>1. r \in RequestBlock /\ r.device = b.device /\ r.action = b.action
      BY <1>5, <2>2 DEF RequestBlock
    <3>2. requests' = Append(requests, r)
      BY <1>4, <2>2
    <3> HIDE DEF r
    <3>3. /\ requests' \in Seq(RequestBlock)
          /\ \A i \in 1 .. Len(requests) : i \in 1 .. Len(requests') /\ requests'[i] = requests[i]
          /\ Len(requests') \in 1 .. Len(requests') /\ requests'[Len(requests')] = r
      BY <1>1, <3>1, <3>2
    <3>4. QED
      BY <3>1, <3>3
  <2>3. QED
    BY <1>4, <2>1, <2>2
<1>9. ASSUME NEW k \in Watched, Coming(k) PROVE Coming(k)'
  <2>1. CASE k \in told
    BY <1>7, <2>1 DEF Coming
  <2>2. CASE k \in Lists /\ Announcing
    BY <1>3, <2>2 DEF Coming, Announcing, Making
  <2>3. ASSUME NEW i \in 1 .. Len(queue), queue[i].kind = "changed" /\ k \in queue[i].keys
        PROVE  Coming(k)'
    <3>1. CASE i = 1
      <4>1. b.kind = "changed" /\ k \in b.keys
        BY <2>3, <3>1 DEF b
      <4>2. QED
        BY <1>4, <4>1 DEF Coming
    <3>2. CASE i - 1 \in 1 .. Len(rest) /\ rest[i - 1] = queue[i]
      <4>1. i - 1 \in 1 .. Len(queue') /\ queue'[i - 1].kind = "changed" /\ k \in queue'[i - 1].keys
        BY <1>6, <2>3, <3>2
      <4>2. QED
        BY <4>1 DEF Coming
    <3>3. QED
      BY <1>2, <3>1, <3>2
  <2>4. QED
    BY <1>9, <2>1, <2>2, <2>3 DEF Coming
<1>10. ASSUME NEW d, NEW a, Under(d, a) PROVE Under(d, a)'
  <2>1. ASSUME NEW i \in 1 .. Len(queue), queue[i].kind = "request",
               queue[i].device = d, queue[i].action = a
        PROVE  Under(d, a)'
    <3>1. CASE i = 1
      <4>1. b.kind = "request" /\ b.device = d /\ b.action = a
        BY <2>1, <3>1 DEF b
      <4>2. QED
        BY <1>8, <4>1 DEF Under
    <3>2. CASE i - 1 \in 1 .. Len(rest) /\ rest[i - 1] = queue[i]
      <4>1. /\ i - 1 \in 1 .. Len(queue') /\ queue'[i - 1].kind = "request"
            /\ queue'[i - 1].device = d /\ queue'[i - 1].action = a
        BY <1>6, <2>1, <3>2
      <4>2. QED
        BY <4>1 DEF Under
    <3>3. QED
      BY <1>2, <3>1, <3>2
  <2>2. ASSUME NEW i \in 1 .. Len(requests), requests[i].device = d, requests[i].action = a
        PROVE  Under(d, a)'
    BY <1>8, <2>2 DEF Under
  <2>3. QED
    BY <1>10, <2>1, <2>2 DEF Under
<1>11. CallTypes' /\ HostTypes'
  BY <1>2, <1>3, <1>6, <1>7, <1>8 DEF HostInv, CallTypes, HostTypes, Making, setup
<1>12. RateTypes' /\ ClientTypes' /\ ObjectTypes'
  BY <1>3 DEF HostInv, RateTypes, ClientTypes, ObjectTypes, objects, members
<1>13. Dormant' /\ Newcomers'
  BY <1>1, <1>3 DEF HostInv, Dormant, Newcomers, objects, setup, members
<1>14. RateAsked' /\ ControlsAsked'
  <2>1. \A d : ControlsSet(d) => ControlsSet(d)'
    BY <1>3 DEF ControlsSet, objects
  <2>2. QED
    BY <1>3, <1>10, <2>1 DEF HostInv, RateAsked, ControlsAsked, objects, setup
<1>15. Followed'
  <2>1. ASSUME NEW k PROVE (Fresh(k) => Fresh(k)') /\ (FreshSettings(k) => FreshSettings(k)')
    <3>1. Source(k)' = Source(k)
      BY <1>3 DEF Source, Enabled, Listing, AppVolumes, AppEQ, objects
    <3>2. QED
      BY <1>3, <3>1, FreshStays, SettingsStay DEF objects
  <2>2. QED
    BY <1>1, <1>3, <1>9, <2>1, FollowedOn, SettingsWatched DEF HostInv
<1>16. QED
  BY <1>11, <1>12, <1>13, <1>14, <1>15 DEF HostInv
-----------------------------------------------------------------------------
(* The host reads.                                                          *)

(* Reading changes what the host knows only.                                *)
LEMMA ReadingKeeps ==
  ASSUME HostInv, phase = "ready", HostTypes', Followed', Newcomers',
         UNCHANGED <<objects, setup, queue, config, call, members>>
  PROVE  HostInv'
<1>1. CallTypes'
  BY DEF HostInv, CallTypes, Making
<1>2. RateTypes' /\ ClientTypes' /\ ObjectTypes'
  BY DEF HostInv, RateTypes, ClientTypes, ObjectTypes, objects, members
<1>3. Dormant'
  BY DEF Dormant, setup
<1>4. RateAsked' /\ ControlsAsked'
  BY DEF HostInv, RateAsked, ControlsAsked, ControlsSet, Under, objects, config, setup
<1>5. QED
  BY <1>1, <1>2, <1>3, <1>4 DEF HostInv

(* It makes room for what it will read.                                     *)
LEMMA ReadSizeKeeps ==
  ASSUME HostInv, ReadSize
  PROVE  HostInv'
<1>1. UNCHANGED <<objects, setup, queue, config, call, members, locks, equalisers, view>>
  BY DEF ReadSize
<1>2. PICK k \in told : told' = told \ {k} /\ reading' = <<k, Room(k)>>
  <2>1. (CHOOSE x \in told : TRUE) \in told
    BY DEF ReadSize
  <2>2. QED
    BY <2>1 DEF ReadSize
<1>3. reading = Nothing /\ k \in Watched /\ phase = "ready"
  BY DEF ReadSize, HostInv, HostTypes, Dormant
<1> DEFINE n == Size(k)
<1>4. reading' = <<k, n>> /\ reading' # Nothing /\ (k \in Settings => n = 1)
  <2>1. Room(k) = n
    BY <1>3, Answers
  <2>2. k \in Settings => n = 1
    BY DEF Size, SizeFor, Settings, Instances
  <2> HIDE DEF n
  <2>3. reading' = <<k, n>>
    BY <1>2, <2>1
  <2>4. QED
    BY <2>2, <2>3 DEF Nothing
<1>10. Size(k)' = n
  BY <1>1 DEF Size, Source, Enabled, Listing, AppVolumes, AppEQ, objects
<1> HIDE DEF n
<1>5. HostTypes'
  BY <1>1, <1>2, <1>3, <1>4 DEF HostInv, HostTypes, config, setup
<1>6. Newcomers'
  BY <1>1 DEF HostInv, Newcomers, objects, members, setup
<1>7. ASSUME NEW j \in Watched, j # k
      PROVE  /\ Coming(j) => Coming(j)'
             /\ Fresh(j) => Fresh(j)'
             /\ FreshSettings(j) => FreshSettings(j)'
  <2>1. ~BeingRead(j) /\ ~BeingRead(j)'
    BY <1>3, <1>4, <1>7 DEF BeingRead
  <2>2. Data(j)' = Data(j) /\ Listing(j)' = Listing(j) /\ Listed(j)' = Listed(j)
    BY <1>1 DEF Data, Source, Enabled, Listing, Listed, AppVolumes, AppEQ, objects
  <2>3. QED
    BY <1>1, <1>2, <1>7, <2>1, <2>2 DEF Coming, Announcing, Making, Fresh, FreshSettings
<1>8. Fresh(k)' /\ FreshSettings(k)'
  BY <1>4, <1>10 DEF Fresh, FreshSettings, BeingRead
<1>9. Followed'
  BY <1>1, <1>3, <1>7, <1>8, FollowedOn, SettingsWatched DEF HostInv, config
<1>11. QED
  BY <1>1, <1>3, <1>5, <1>6, <1>9, ReadingKeeps

(* What it then reads is what there is, or it has been told again.          *)
LEMMA ReadDataKeeps ==
  ASSUME HostInv, ReadData
  PROVE  HostInv'
<1>13. PICK k : k = reading[1]
  OBVIOUS
<1>14. PICK n : n = reading[2]
  OBVIOUS
<1>1. /\ reading # Nothing /\ reading' = Nothing
      /\ view' = [view EXCEPT ![k] = Read(k, n)]
      /\ UNCHANGED <<objects, setup, queue, config, call, members, locks, equalisers, told>>
  BY <1>13, <1>14 DEF ReadData
<1>2. /\ phase = "ready" /\ k \in Watched /\ (k \in Settings => n = 1)
      /\ view = [j \in Watched |-> view[j]]
  BY <1>1, <1>13, <1>14 DEF HostInv, HostTypes, Dormant
<1>3. \A j : BeingRead(j) <=> j = k
  BY <1>1, <1>13 DEF BeingRead
<1>4. /\ view' = [j \in Watched |-> view'[j]] /\ view'[k] = Read(k, n)
      /\ \A j \in Watched \ {k} : view'[j] = view[j]
  BY <1>1, <1>2
<1>5. HostTypes'
  BY <1>1, <1>4 DEF HostInv, HostTypes, config, setup
<1>6. ASSUME NEW j \in Watched
      PROVE  Data(j)' = Data(j) /\ Listing(j)' = Listing(j) /\ ~BeingRead(j)'
  BY <1>1 DEF Data, Source, Enabled, Listing, AppVolumes, AppEQ, objects, BeingRead
<1>7. ASSUME n = Size(k) PROVE view'[k] = Data(k)
  BY <1>2, <1>4, <1>7, Answers
<1>8. ASSUME k \in Settings
      PROVE  /\ view'[k] = <<Listing(k)>> /\ Listed(k)' = Listing(k)
             /\ \A e \in Listing(k) : e[1] \in clients[k[1]]
  <2>1. Size(k) = 1 /\ Data(k) = <<Listing(k)>>
    BY <1>8 DEF Size, SizeFor, Data, DataFor, Source, Settings, Instances
  <2>2. view'[k] = <<Listing(k)>>
    BY <1>2, <1>7, <1>8, <2>1
  <2>3. \A e \in Listing(k) : e[1] \in clients[k[1]]
    BY DEF Listing, AppVolumes, AppEQ
  <2>4. QED
    BY <1>1, <2>2, <2>3 DEF Listed, objects
<1>9. Newcomers'
  <2>1. \A d \in Instances : clients[d] \subseteq added[d]
    BY DEF HostInv, ClientTypes
  <2>2. ASSUME NEW j \in Settings, NEW e \in view'[j][1] PROVE e[1] \in added[j[1]]
    <3>1. CASE j = k
      <4>1. e \in Listing(k) /\ k[1] \in Instances
        BY <1>8, <2>2, <3>1 DEF Settings
      <4>2. QED
        BY <1>8, <2>1, <2>2, <3>1, <4>1
    <3>2. CASE j # k
      <4>1. e \in view[j][1]
        BY <1>4, <2>2, <3>2, SettingsWatched
      <4>2. QED
        BY <1>2, <4>1 DEF HostInv, Newcomers
    <3>3. QED
      BY <3>1, <3>2
  <2>3. QED
    BY <1>1, <2>2 DEF HostInv, Newcomers, objects, members, setup
<1>10. ASSUME NEW j \in Watched
       PROVE  /\ Coming(j) => Coming(j)'
              /\ Fresh(j) => Fresh(j)'
              /\ j \in Settings => (FreshSettings(j) => FreshSettings(j)')
  <2>1. Coming(j) => Coming(j)'
    BY <1>1 DEF Coming, Announcing, Making
  <2>2. CASE j = k
    <3>1. Fresh(k) => n = Size(k)
      BY <1>3, <1>14 DEF Fresh
    <3>2. Fresh(k) => Fresh(k)'
      BY <1>6, <1>7, <2>2, <3>1 DEF Fresh
    <3>3. k \in Settings => FreshSettings(k)'
      BY <1>6, <1>8, <2>2 DEF FreshSettings
    <3>4. QED
      BY <2>1, <2>2, <3>2, <3>3
  <2>3. CASE j # k
    <3>1. Listed(j)' = Listed(j)
      BY <1>1, <1>4, <2>3 DEF Listed, objects
    <3>2. QED
      BY <1>3, <1>4, <1>6, <2>1, <2>3, <3>1 DEF Fresh, FreshSettings
  <2>4. QED
    BY <2>2, <2>3
<1>11. Followed'
  BY <1>1, <1>2, <1>10, FollowedOn, SettingsWatched DEF HostInv, config
<1>12. QED
  BY <1>1, <1>2, <1>5, <1>9, <1>11, ReadingKeeps
-----------------------------------------------------------------------------
(* The host changes a configuration, or refuses to.                         *)

(* The first request is answered, the others stay under way.                *)
LEMMA RequestTaken ==
  ASSUME HostInv, requests # <<>>, requests' = Tail(requests), UNCHANGED queue
  PROVE  /\ phase = "ready" /\ requests' \in Seq(RequestBlock)
         /\ Head(requests).device \in Instances /\ Head(requests).action \in Actions
         /\ \A d, a : Under(d, a) =>
              Under(d, a)' \/ (d = Head(requests).device /\ a = Head(requests).action)
<1> DEFINE r == requests[1]
           rest == Tail(requests)
<1>1. requests \in Seq(RequestBlock) /\ phase = "ready"
  BY DEF HostInv, HostTypes, Dormant
<1>2. /\ r \in RequestBlock /\ rest \in Seq(RequestBlock) /\ Len(requests) \in Nat
      /\ Head(requests) = r
      /\ \A i \in 1 .. Len(requests) :
           i = 1 \/ (i - 1 \in 1 .. Len(rest) /\ rest[i - 1] = requests[i])
  BY <1>1, TailOf
<1>3. requests' = rest
  OBVIOUS
<1> HIDE DEF rest
<1>4. ASSUME NEW d, NEW a, NEW i \in 1 .. Len(requests),
             requests[i].device = d, requests[i].action = a
      PROVE  Under(d, a)' \/ (d = r.device /\ a = r.action)
  <2>1. CASE i = 1
    BY <1>4, <2>1
  <2>2. CASE i - 1 \in 1 .. Len(rest) /\ rest[i - 1] = requests[i]
    <3>1. /\ i - 1 \in 1 .. Len(requests') /\ requests'[i - 1].device = d
          /\ requests'[i - 1].action = a
      BY <1>3, <1>4, <2>2
    <3>2. QED
      BY <3>1 DEF Under
  <2>3. QED
    BY <1>2, <2>1, <2>2
<1>5. r.device \in Instances /\ r.action \in Actions
  <2> HIDE DEF r
  <2>1. QED
    BY <1>2 DEF RequestBlock
<1>6. ASSUME NEW d, NEW a, Under(d, a)
      PROVE  Under(d, a)' \/ (d = r.device /\ a = r.action)
  <2>1. CASE \E i \in 1 .. Len(queue) :
               queue[i].kind = "request" /\ queue[i].device = d /\ queue[i].action = a
    BY <2>1 DEF Under
  <2>2. CASE \E i \in 1 .. Len(requests) : requests[i].device = d /\ requests[i].action = a
    BY <1>4, <2>2
  <2>3. QED
    BY <1>6, <2>1, <2>2 DEF Under
<1> HIDE DEF r
<1>7. QED
  BY <1>1, <1>2, <1>3, <1>5, <1>6

(* A refused change is excused.                                             *)
LEMMA AbortKeeps ==
  ASSUME HostInv, AbortConfigChange
  PROVE  HostInv'
<1> DEFINE d == Head(requests).device
<1>1. /\ requests # <<>> /\ requests' = Tail(requests) /\ aborted' = aborted \cup {d}
      /\ UNCHANGED <<objects, setup, queue, pendingRate, pendingControls, announced, call,
                     members, locks, equalisers, host>>
  BY DEF AbortConfigChange
<1>2. /\ phase = "ready" /\ requests' \in Seq(RequestBlock)
      /\ \A e, a : Under(e, a) => Under(e, a)' \/ e = d
  BY <1>1, RequestTaken
<1> HIDE DEF d
<1>3. RateAsked'
  BY <1>1, <1>2 DEF HostInv, RateAsked, objects
<1>4. ControlsAsked'
  <2>1. ASSUME NEW e \in Instances, ControlsSet(e) PROVE ControlsSet(e)'
    BY <1>1, <2>1 DEF ControlsSet, objects
  <2>2. QED
    BY <1>1, <1>2, <2>1 DEF HostInv, ControlsAsked, setup
<1>5. CallTypes' /\ HostTypes'
  BY <1>1, <1>2 DEF HostInv, CallTypes, HostTypes, Making, host, setup
<1>6. RateTypes' /\ ClientTypes' /\ ObjectTypes'
  BY <1>1 DEF HostInv, RateTypes, ClientTypes, ObjectTypes, objects, members
<1>7. Dormant' /\ Newcomers'
  BY <1>1, <1>2 DEF HostInv, Dormant, Newcomers, objects, setup, members, host
<1>8. Followed'
  <2>1. ASSUME NEW k \in Watched
        PROVE  /\ Coming(k) => Coming(k)'
               /\ Fresh(k) => Fresh(k)'
               /\ FreshSettings(k) => FreshSettings(k)'
    <3>1. Coming(k) => Coming(k)'
      BY <1>1 DEF Coming, Announcing, Making, host
    <3>2. Source(k)' = Source(k)
      BY <1>1 DEF Source, Enabled, Listing, AppVolumes, AppEQ, objects
    <3>3. QED
      BY <1>1, <3>1, <3>2, FreshStays, SettingsStay DEF objects, host
  <2>2. QED
    BY <1>1, <1>2, <2>1, FollowedOn, SettingsWatched DEF HostInv
<1>9. QED
  BY <1>3, <1>4, <1>5, <1>6, <1>7, <1>8 DEF HostInv

(* All that a reconfiguration makes the host read, it watches.              *)
LEMMA ReconfiguredWatched ==
  ASSUME NEW d \in Instances
  PROVE  Reconfigured(d) \subseteq Watched
<1>1. {d} \X {"OwnedObjects", "ControlList", "NominalSampleRate", "EnabledOutputControls"}
        \subseteq Watched
  BY DEF Watched
<1>2. {InputStream[d], OutputStream[d]} \subseteq Streams \ {"NullOut"}
  BY DEF Instances, InputStream, OutputStream, Streams
<1>3. {InputStream[d], OutputStream[d]} \X {"VirtualFormat"} \subseteq Watched
  BY <1>2 DEF Watched
<1>4. QED
  BY <1>1, <1>3 DEF Reconfigured

(* What the change is of is read again, the rest is as it was.              *)
LEMMA ReconfiguredOthers ==
  ASSUME HostInv, phase = "ready", NEW d \in Instances,
         UNCHANGED <<level, muted, on, music, volumes, gains, clients, debug, nullIO, setup,
                     queue, announced, call, members, view, reading>>,
         told' = told \cup Reconfigured(d),
         CallTypes', HostTypes', RateTypes', RateAsked', ControlsAsked',
         \A k \in Watched : k \in Reconfigured(d) \/ Source(k)' = Source(k)
  PROVE  HostInv'
<1>1. ClientTypes' /\ ObjectTypes'
  BY DEF HostInv, ClientTypes, ObjectTypes, members
<1>2. Dormant' /\ Newcomers'
  BY DEF HostInv, Dormant, Newcomers, setup, members
<1>3. \A k : Coming(k) => Coming(k)'
  BY DEF Coming, Announcing, Making
<1>4. Followed'
  <2>1. \A k \in Watched : Coming(k)' \/ Source(k)' = Source(k)
    BY DEF Coming
  <2>2. ASSUME NEW k \in Watched
        PROVE  /\ Coming(k) \/ Fresh(k) => Coming(k)' \/ Fresh(k)'
               /\ FreshSettings(k) => FreshSettings(k)'
    BY <1>3, <2>1, FreshStays, SettingsStay
  <2>3. QED
    BY <1>3, <2>2, FollowedOn, SettingsWatched DEF HostInv
<1>5. QED
  BY <1>1, <1>2, <1>4 DEF HostInv

(* The rate last asked for is set, and that of both streams.                *)
LEMMA PerformRateKeeps ==
  ASSUME HostInv, PerformConfigChange, Head(requests).action = "SetSampleRate"
  PROVE  HostInv'
<1>10. PICK d : d = Head(requests).device
  OBVIOUS
<1>11. PICK r : r = pendingRate[d]
  OBVIOUS
<1>1. /\ requests # <<>> /\ requests' = Tail(requests) /\ told' = told \cup Reconfigured(d)
      /\ SetSampleRate(d, r)
      /\ UNCHANGED <<level, muted, on, music, volumes, gains, clients, debug, nullIO,
                     setup, queue, pendingRate, pendingControls, aborted, announced,
                     call, members, locks, equalisers, view, reading>>
  BY <1>10, <1>11 DEF PerformConfigChange
<1>2. /\ phase = "ready" /\ requests' \in Seq(RequestBlock) /\ d \in Instances
      /\ \A e, a : Under(e, a) => Under(e, a)' \/ (e = d /\ a = "SetSampleRate")
  BY <1>1, <1>10, RequestTaken
<1>3. /\ rate = [e \in Instances |-> rate[e]] /\ format = [s \in Streams |-> format[s]]
      /\ \A e \in Instances : format[InputStream[e]] = rate[e] /\ format[OutputStream[e]] = rate[e]
  BY DEF HostInv, RateTypes
<1>4. /\ rate' = [e \in Instances |-> rate'[e]] /\ format' = [s \in Streams |-> format'[s]]
      /\ rate'[d] = r /\ \A e \in Instances \ {d} : rate'[e] = rate[e]
      /\ \A s \in Streams :
           format'[s] = IF s \in {InputStream[d], OutputStream[d]} THEN r ELSE format[s]
      /\ UNCHANGED active
  <2>1. {InputStream[d], OutputStream[d]} \subseteq Streams
    BY <1>2 DEF Instances, InputStream, OutputStream, Streams
  <2>2. QED
    BY <1>1, <1>2, <1>3, <2>1 DEF SetSampleRate
<1>5. RateTypes'
  <2>1. ASSUME NEW e \in Instances
        PROVE  format'[InputStream[e]] = rate'[e] /\ format'[OutputStream[e]] = rate'[e]
    <3>1. InputStream[e] \in Streams /\ OutputStream[e] \in Streams
      BY DEF Instances, InputStream, OutputStream, Streams
    <3>2. e # d => {InputStream[e], OutputStream[e]} \cap {InputStream[d], OutputStream[d]} = {}
      BY <1>2 DEF Instances, InputStream, OutputStream
    <3>3. QED
      BY <1>3, <1>4, <3>1, <3>2
  <2>2. QED
    BY <1>4, <2>1 DEF RateTypes
<1>6. RateAsked'
  <2>1. rate'[d] = pendingRate'[d]
    BY <1>1, <1>4, <1>11
  <2>2. ASSUME NEW e \in Instances \ {d}
        PROVE  rate'[e] = pendingRate'[e] \/ e \in aborted' \/ Under(e, "SetSampleRate")'
    BY <1>1, <1>2, <1>4 DEF HostInv, RateAsked
  <2>3. QED
    BY <2>1, <2>2 DEF RateAsked
<1>7. ControlsAsked'
  <2>1. ASSUME NEW e \in Instances, ControlsSet(e) PROVE ControlsSet(e)'
    BY <1>1, <1>4, <2>1 DEF ControlsSet
  <2>2. QED
    BY <1>1, <1>2, <2>1 DEF HostInv, ControlsAsked, setup
<1>8. CallTypes' /\ HostTypes'
  BY <1>1, <1>2, ReconfiguredWatched DEF HostInv, CallTypes, HostTypes, Making, setup
<1>9. ASSUME NEW k \in Watched PROVE k \in Reconfigured(d) \/ Source(k)' = Source(k)
  <2>1. CASE k[2] = "NominalSampleRate"
    <3>1. PICK e \in Instances : k = <<e, "NominalSampleRate">>
      BY <2>1 DEF Watched
    <3>2. Source(k) = rate[e] /\ Source(k)' = rate'[e]
      BY <3>1 DEF Source, Instances
    <3>3. QED
      BY <1>4, <3>1, <3>2 DEF Reconfigured
  <2>2. CASE k[2] = "VirtualFormat"
    <3>1. PICK s \in Streams : k = <<s, "VirtualFormat">>
      BY <2>2 DEF Watched
    <3>2. Source(k) = format[s] /\ Source(k)' = format'[s]
      BY <3>1 DEF Source, Streams
    <3>3. QED
      BY <1>4, <3>1, <3>2 DEF Reconfigured
  <2>3. CASE k[2] \notin {"NominalSampleRate", "VirtualFormat"}
    BY <1>1, <1>4, <2>3 DEF Source, Enabled, Listing, AppVolumes, AppEQ
  <2>4. QED
    BY <2>1, <2>2, <2>3
<1>12. QED
  BY <1>1, <1>2, <1>5, <1>6, <1>7, <1>8, <1>9, ReconfiguredOthers

(* The controls last asked for are enabled.                                 *)
LEMMA PerformControlsKeeps ==
  ASSUME HostInv, PerformConfigChange, Head(requests).action = "SetEnabledControls"
  PROVE  HostInv'
<1>10. PICK d : d = Head(requests).device
  OBVIOUS
<1>1. /\ requests # <<>> /\ requests' = Tail(requests) /\ told' = told \cup Reconfigured(d)
      /\ SetEnabledControls(d, pendingControls[d][1], pendingControls[d][2])
      /\ UNCHANGED <<level, muted, on, music, volumes, gains, clients, debug, nullIO,
                     setup, queue, pendingRate, pendingControls, aborted, announced,
                     call, members, locks, equalisers, view, reading>>
  BY <1>10 DEF PerformConfigChange
<1>2. /\ phase = "ready" /\ requests' \in Seq(RequestBlock) /\ d \in Instances
      /\ \A e, a : Under(e, a) => Under(e, a)' \/ (e = d /\ a = "SetEnabledControls")
  BY <1>1, <1>10, RequestTaken
<1>3. /\ (VolumeControl[d] \in active') <=> pendingControls[d][1]
      /\ d = "Device" => (("Mute" \in active') <=> pendingControls[d][2])
      /\ \A o : o \notin {VolumeControl[d], MuteControl[d]} => ((o \in active') <=> (o \in active))
      /\ UNCHANGED <<rate, format>>
  BY <1>1, <1>2 DEF SetEnabledControls, Instances, VolumeControl, MuteControl
<1>4. \A e \in Instances \ {d} :
        /\ VolumeControl[e] \notin {VolumeControl[d], MuteControl[d]}
        /\ e = "Device" => MuteControl[d] = "Unknown" /\ VolumeControl[d] # "Mute"
  BY <1>2 DEF Instances, VolumeControl, MuteControl
<1>5. RateTypes'
  BY <1>3 DEF HostInv, RateTypes
<1>6. RateAsked'
  BY <1>1, <1>2, <1>3 DEF HostInv, RateAsked
<1>7. ControlsAsked'
  <2>1. ControlsSet(d)'
    BY <1>1, <1>3 DEF ControlsSet
  <2>2. ASSUME NEW e \in Instances \ {d}, ControlsSet(e) PROVE ControlsSet(e)'
    BY <1>1, <1>3, <1>4, <2>2 DEF ControlsSet
  <2>3. QED
    BY <1>1, <1>2, <2>1, <2>2 DEF HostInv, ControlsAsked, setup
<1>8. CallTypes' /\ HostTypes'
  BY <1>1, <1>2, ReconfiguredWatched DEF HostInv, CallTypes, HostTypes, Making, setup
<1>9. ASSUME NEW k \in Watched PROVE k \in Reconfigured(d) \/ Source(k)' = Source(k)
  <2>1. CASE k[1] \in {"PlugIn", "Null"}
    <3>1. (("Null" \in active') <=> ("Null" \in active))
      BY <1>2, <1>3 DEF Instances, VolumeControl, MuteControl
    <3>2. k[1] = "Null" => k[2] \in {"DeviceIsAlive", "DeviceIsRunning"}
      BY DEF Watched, Instances, Streams, Volumes
    <3>3. QED
      BY <1>1, <2>1, <3>1, <3>2 DEF Source
  <2>2. CASE /\ k[1] \notin {"PlugIn", "Null"}
             /\ k[2] \in {"OwnedObjects", "ControlList", "EnabledOutputControls"}
    <3>1. k[1] \in Instances
      BY <2>2 DEF Watched
    <3>2. CASE k[1] = d
      BY <2>2, <3>2 DEF Reconfigured, Watched
    <3>3. CASE k[1] # d
      <4>1. Enabled(k[1])' = Enabled(k[1])
        <5>1. VolumeControl[k[1]] \notin {VolumeControl[d], MuteControl[d]}
          BY <1>4, <3>1, <3>3
        <5>2. ((VolumeControl[k[1]] \in active') <=> (VolumeControl[k[1]] \in active))
          BY <1>3, <5>1
        <5>3. ((MuteControl[k[1]] \in active') <=> (MuteControl[k[1]] \in active))
          BY <1>3, <1>2, <3>1, <3>3 DEF Instances, MuteControl, VolumeControl
        <5>4. QED
          BY <5>2, <5>3 DEF Enabled
      <4>2. QED
        BY <2>2, <3>1, <4>1 DEF Source, Instances
    <3>4. QED
      BY <3>2, <3>3
  <2>3. CASE /\ k[1] \notin {"PlugIn", "Null"}
             /\ k[2] \notin {"OwnedObjects", "ControlList", "EnabledOutputControls"}
    <3>1. k[2] # "DeviceIsAlive"
      BY <2>3 DEF Watched
    <3>2. QED
      BY <1>1, <1>3, <2>3, <3>1 DEF Source, Listing, AppVolumes, AppEQ
  <2>4. QED
    BY <2>1, <2>2, <2>3
<1>12. QED
  BY <1>1, <1>2, <1>5, <1>6, <1>7, <1>8, <1>9, ReconfiguredOthers

(* A change is one or the other.                                            *)
LEMMA PerformKeeps ==
  ASSUME HostInv, PerformConfigChange
  PROVE  HostInv'
<1>1. Head(requests).action \in {"SetSampleRate", "SetEnabledControls"}
  BY DEF PerformConfigChange
<1>2. QED
  BY <1>1, PerformRateKeeps, PerformControlsKeeps
-----------------------------------------------------------------------------
(* The driver is loaded.                                                    *)

(* Answers, of the next state.                                              *)
LEMMA AnswersNext ==
  (\A k \in Watched : Room(k) = Size(k) /\ Read(k, Size(k)) = Data(k))'
BY Answers, PTL

(* The plug-in is created.                                                  *)
LEMMA CreateKeeps ==
  ASSUME HostInv, BGM_Create
  PROVE  HostInv'
<1>1. /\ phase = "none" /\ phase' = "created"
      /\ UNCHANGED <<level, muted, on, rate, format, music, volumes, gains,
                     clients, debug, nullIO>>
      /\ UNCHANGED <<calls, queue, config, call, members, locks, equalisers, host>>
  BY DEF BGM_Create
<1>2. CallTypes' /\ HostTypes'
  BY <1>1 DEF HostInv, CallTypes, HostTypes, Making, config, host
<1>3. RateTypes' /\ ClientTypes' /\ ObjectTypes'
  BY <1>1 DEF HostInv, RateTypes, ClientTypes, ObjectTypes, members
<1>4. Dormant'
  BY <1>1 DEF HostInv, Dormant, config, host, equalisers
<1>5. RateAsked' /\ ControlsAsked'
  BY <1>1 DEF HostInv, RateAsked, ControlsAsked, Under, config
<1>6. Followed' /\ Newcomers'
  BY <1>1 DEF HostInv, Followed, Newcomers, members
<1>7. QED
  BY <1>2, <1>3, <1>4, <1>5, <1>6 DEF HostInv

(* Once it is initialised the host reads everything there is.               *)
LEMMA InitializeKeeps ==
  ASSUME HostInv, BGM_Initialize
  PROVE  HostInv'
<1>1. /\ phase = "created" /\ phase' = "ready"
      /\ active' = active \cup UNION {Activated(d) : d \in Instances}
      /\ level' = [level EXCEPT !["UIVolume"] = 96]
      /\ Dispatch(Changed("UIVolume", {"ScalarValue", "DecibelValue"}))
      /\ UNCHANGED <<muted, on, rate, format, music, volumes, gains, clients,
                     debug, nullIO>>
      /\ view' = [k \in Watched |-> Read(k, Room(k))']
      /\ UNCHANGED <<calls, config, call, members, locks, equalisers, told, reading>>
  BY DEF BGM_Initialize, CreateInstances
<1>2. /\ requests = <<>> /\ told = {} /\ reading = Nothing
      /\ \A d \in Instances : pendingControls[d] = <<TRUE, TRUE>>
  BY <1>1 DEF HostInv, Dormant
<1>3. Queued
  <2>1. "UIVolume" \in Objects /\ {"ScalarValue", "DecibelValue"} \in SUBSET Properties
    BY AllObjects, KnownProperties
  <2>2. queue \in Seq(Block)
    BY DEF HostInv, HostTypes
  <2>3. QED
    BY <1>1, <2>1, <2>2, AnnouncedComes
<1>4. view' = [k \in Watched |-> Data(k)'] /\ \A k : ~BeingRead(k)'
  <2>1. \A k \in Watched : Read(k, Room(k))' = Data(k)'
    BY AnswersNext
  <2>2. view' = [k \in Watched |-> Data(k)']
    BY <1>1, <2>1
  <2>3. QED
    BY <1>1, <1>2, <2>2 DEF BeingRead
<1>5. CallTypes' /\ HostTypes'
  <2>1. CallTypes'
    BY <1>1 DEF HostInv, CallTypes, Making
  <2>2. view' = [k \in Watched |-> view'[k]]
    BY <1>4
  <2>3. QED
    BY <1>1, <1>3, <2>1, <2>2 DEF HostInv, HostTypes, Queued, config
<1>6. RateTypes' /\ ClientTypes' /\ ObjectTypes'
  <2>1. RateTypes' /\ ClientTypes'
    BY <1>1 DEF HostInv, RateTypes, ClientTypes, members
  <2>2. QED
    BY <1>1, <2>1 DEF HostInv, ObjectTypes
<1>7. Dormant'
  BY <1>1 DEF Dormant
<1>8. RateAsked'
  BY <1>1, <1>3, RatesStay DEF HostInv, config
<1>9. ControlsAsked'
  <2>1. VolumeControl["Device"] = "Volume" /\ VolumeControl["UI"] = "UIVolume"
    BY DEF VolumeControl
  <2>2. {"Volume", "Mute"} \subseteq Activated("Device") /\ "UIVolume" \in Activated("UI")
    BY DEF Activated, SubObjects, VolumeControl, MuteControl
  <2>3. {"Volume", "Mute", "UIVolume"} \subseteq active'
    BY <1>1, <2>2 DEF Instances
  <2>4. ASSUME NEW d \in Instances PROVE ControlsSet(d)'
    <3>1. pendingControls'[d][1] /\ pendingControls'[d][2]
      <4>1. pendingControls'[d] = <<TRUE, TRUE>>
        BY <1>1, <1>2 DEF config
      <4>2. QED
        BY <4>1
    <3>2. VolumeControl[d] \in active' /\ "Mute" \in active'
      BY <2>1, <2>3 DEF Instances
    <3>3. QED
      BY <3>1, <3>2 DEF ControlsSet
  <2>5. QED
    BY <2>4 DEF ControlsAsked
<1>10. ASSUME NEW k \in Settings
       PROVE  view'[k] = <<Listing(k)'>> /\ \A e \in Listing(k)' : e[1] \in clients'[k[1]]
  <2>1. Data(k)' = <<Listing(k)'>>
    BY DEF Data, DataFor, Source, Settings, Instances
  <2>2. \A e \in Listing(k)' : e[1] \in clients'[k[1]]
    BY DEF Listing, AppVolumes, AppEQ
  <2>3. view'[k] = Data(k)'
    BY <1>4, SettingsWatched
  <2>4. QED
    BY <2>1, <2>2, <2>3
<1>11. Newcomers'
  <2>1. ASSUME NEW k \in Settings, NEW e \in view'[k][1] PROVE e[1] \in added'[k[1]]
    <3>1. e[1] \in clients'[k[1]] /\ k[1] \in Instances
      BY <1>10, <2>1 DEF Settings
    <3>2. QED
      BY <1>6, <3>1 DEF ClientTypes
  <2>2. QED
    BY <1>1, <2>1 DEF HostInv, Newcomers, members
<1>12. Followed'
  <2>1. \A k \in Watched : Fresh(k)'
    BY <1>4 DEF Fresh
  <2>2. ASSUME NEW k \in Settings PROVE FreshSettings(k)'
    BY <1>10 DEF FreshSettings, Listed
  <2>3. Singles \subseteq Watched /\ Flags \subseteq Watched /\ announced' \in Instances
    BY <1>1 DEF Singles, Flags, Watched, Instances, HostInv, Dormant, config
  <2>4. QED
    BY <2>1, <2>2, <2>3 DEF Followed
<1>13. QED
  BY <1>5, <1>6, <1>7, <1>8, <1>9, <1>11, <1>12 DEF HostInv

-----------------------------------------------------------------------------
(* The invariant holds before the driver is loaded.                         *)
LEMMA HostInit == Init => HostInv
<1> SUFFICES ASSUME Init PROVE HostInv
  OBVIOUS
<1>1. CallTypes
  BY DEF Init, CallTypes, Making
<1>2. HostTypes
  <2>1. pendingControls \in [Instances -> BOOLEAN \X BOOLEAN]
    BY DEF Init
  <2>2. queue \in Seq(Block) /\ requests \in Seq(RequestBlock)
    BY EmptySeq DEF Init
  <2>3. QED
    BY <2>1, <2>2 DEF Init, HostTypes
<1>3. RateTypes
  BY DEF Init, RateTypes, Instances, InputStream, OutputStream, Streams
<1>4. ClientTypes
  BY DEF Init, ClientTypes, GainSet
<1>5. ObjectTypes
  BY DEF Init, ObjectTypes, Players
<1>6. Dormant
  BY DEF Init, Dormant, Idle
<1>7. RateAsked /\ ControlsAsked
  BY DEF Init, RateAsked, ControlsAsked
<1>8. Followed /\ Newcomers
  BY DEF Init, Followed, Newcomers
<1>9. QED
  BY <1>1, <1>2, <1>3, <1>4, <1>5, <1>6, <1>7, <1>8 DEF HostInv

(* Every step keeps it.                                                     *)
LEMMA HostStep == IInv /\ HostInv /\ [Next]_vars => HostInv'
<1> SUFFICES ASSUME IInv, HostInv, [Next]_vars PROVE HostInv'
  OBVIOUS
<1>1. CASE BGM_Create \/ BGM_Initialize
  BY <1>1, CreateKeeps, InitializeKeeps
<1>2. CASE BGM_SetPropertyData
  <2>1. CASE SetVolume \/ SetMute \/ SetStreamActive \/ SetRateOrFormat
    BY <2>1, SetVolumeKeeps, SetMuteKeeps, SetStreamActiveKeeps, SetRateKeeps
  <2>2. CASE SetEnabledOutputControls \/ SetMusicPlayerProperty \/ SetDebugLogging
    BY <2>2, SetEnabledKeeps, SetMusicPlayerKeeps, SetDebugLoggingKeeps
  <2>3. ASSUME NEW t \in Thread,
               SetNullDeviceActive(t) \/ App_SetAppVolume(t) \/ App_SetAppEQBandGains(t)
        PROVE  HostInv'
    BY <2>3, SetNullKeeps, SendVolumeKeeps, SendEQKeeps
  <2>4. QED
    BY <1>2, <2>1, <2>2, <2>3 DEF BGM_SetPropertyData
<1>3. CASE Null_StartIO \/ Null_StopIO \/ RunBlock
  BY <1>3, NullIOKeeps, RunKeeps
<1>4. CASE BGM_DoIOOperation \/ \E d \in Instances : FinishOperation(d)
  BY <1>4, OperationsKeep
<1>5. CASE Host
  BY <1>5, ReadSizeKeeps, ReadDataKeeps, PerformKeeps, AbortKeeps DEF Host
<1>6. ASSUME NEW t \in Thread,
             BGM_AddDeviceClient(t) \/ BGM_RemoveDeviceClient(t) \/ LockIO(t) \/ CallSteps(t)
      PROVE  HostInv'
  <2>1. CASE BGM_AddDeviceClient(t) \/ BGM_RemoveDeviceClient(t) \/ LockIO(t)
    BY <2>1, AddKeeps, RemoveKeeps, LockingKeeps
  <2>2. CASE CallSteps(t)
    BY <2>2, ChangeNullKeeps, AnnounceNullKeeps, SetVolumesKeeps, SetEQKeeps, LockingKeeps
       DEF CallSteps
  <2>3. QED
    BY <1>6, <2>1, <2>2
<1>7. CASE UNCHANGED vars
  BY <1>7, NothingKnownChanges DEF vars, setup, members, equalisers
<1>8. QED
  BY <1>1, <1>2, <1>3, <1>4, <1>5, <1>6, <1>7 DEF Next
-----------------------------------------------------------------------------
(* What the host has read names what there is.                              *)

Items(s) == {s[i] : i \in DOMAIN s}

(* Two lists joined name what either names.                                 *)
LEMMA JoinedItems ==
  ASSUME NEW S, NEW s \in Seq(S), NEW t \in Seq(S)
  PROVE  Items(s \o t) = Items(s) \cup Items(t)
<1> DEFINE m == Len(s)
           n == Len(t)
           l == s \o t
<1>1. /\ m \in Nat /\ n \in Nat /\ DOMAIN s = 1 .. m /\ DOMAIN t = 1 .. n
      /\ DOMAIN l = 1 .. m + n
      /\ \A i \in 1 .. m + n : l[i] = IF i <= m THEN s[i] ELSE t[i - m]
  BY ConcatProperties
<1> HIDE DEF m, n, l
<1>2. ASSUME NEW i \in 1 .. m + n PROVE l[i] \in Items(s) \cup Items(t)
  <2>1. CASE i <= m
    <3>1. i \in 1 .. m
      BY <1>1, <2>1
    <3>2. QED
      BY <1>1, <2>1, <3>1 DEF Items
  <2>2. CASE ~(i <= m)
    <3>1. i - m \in 1 .. n
      BY <1>1, <2>2
    <3>2. QED
      BY <1>1, <2>2, <3>1 DEF Items
  <2>3. QED
    BY <2>1, <2>2
<1>3. ASSUME NEW i \in 1 .. m PROVE s[i] \in Items(l)
  <2>1. i \in 1 .. m + n /\ i <= m
    BY <1>1
  <2>2. QED
    BY <1>1, <2>1 DEF Items
<1>4. ASSUME NEW i \in 1 .. n PROVE t[i] \in Items(l)
  <2>1. i + m \in 1 .. m + n /\ ~(i + m <= m) /\ (i + m) - m = i
    BY <1>1
  <2>2. l[i + m] = t[i]
    BY <1>1, <2>1
  <2>3. QED
    BY <1>1, <2>1, <2>2 DEF Items
<1>5. QED
  BY <1>1, <1>2, <1>3, <1>4 DEF Items, l

(* A list of at most one object.                                            *)
LEMMA ItemsOfOne ==
  ASSUME NEW b \in BOOLEAN, NEW o
  PROVE  Items(OneIf(b, o)) = IF b THEN {o} ELSE {}
<1>1. Items(<<o>>) = {o}
  <2>1. DOMAIN <<o>> = {1}
    OBVIOUS
  <2>2. QED
    BY <2>1 DEF Items
<1>2. Items(<<>>) = {}
  <2>1. DOMAIN <<>> = {}
    OBVIOUS
  <2>2. QED
    BY <2>1 DEF Items
<1>3. QED
  BY <1>1, <1>2 DEF OneIf

(* A list of two.                                                           *)
LEMMA ItemsOfTwo ==
  ASSUME NEW a, NEW b
  PROVE  Items(<<a, b>>) = {a, b}
<1>1. DOMAIN <<a, b>> = {1, 2}
  OBVIOUS
<1>2. QED
  BY <1>1 DEF Items

(* The list of devices, with and without the Null Device.                   *)
LEMMA DevicesItems ==
  ASSUME NEW b \in BOOLEAN
  PROVE  Items(DataFor(<<"PlugIn", "DeviceList">>, b))
           = Instances \cup (IF b THEN {"Null"} ELSE {})
<1> DEFINE S == {"Device", "UI", "Null"}
           pair == <<"Device", "UI">>
           one == OneIf(b, "Null")
<1>1. pair \in Seq(S) /\ one \in Seq(S)
  <2>1. pair \in Seq(S)
    OBVIOUS
  <2>2. one \in Seq(S)
    BY SizeOfOne
  <2>3. QED
    BY <2>1, <2>2
<1>2. Items(pair) = {"Device", "UI"} /\ Items(one) = IF b THEN {"Null"} ELSE {}
  BY ItemsOfTwo, ItemsOfOne
<1>3. DataFor(<<"PlugIn", "DeviceList">>, b) = pair \o one
  BY DEF DataFor
<1> HIDE DEF S, pair, one
<1>4. Items(pair \o one) = Items(pair) \cup Items(one)
  BY <1>1, JoinedItems
<1>5. QED
  BY <1>2, <1>3, <1>4 DEF Instances

(* It names the devices that are active.                                    *)
LEMMA DevicesListed ==
  Items(DataFor(<<"PlugIn", "DeviceList">>, "Null" \in active))
    = Instances \cup ({"Null"} \cap active)
<1> DEFINE b == "Null" \in active
<1>1. b \in BOOLEAN
  OBVIOUS
<1>2. Items(DataFor(<<"PlugIn", "DeviceList">>, b)) = Instances \cup (IF b THEN {"Null"} ELSE {})
  BY <1>1, DevicesItems, Zenon
<1>3. {"Null"} \cap active = IF b THEN {"Null"} ELSE {}
  OBVIOUS
<1> HIDE DEF b
<1>4. QED
  BY <1>2, <1>3 DEF b

(* The list of controls, with and without each.                             *)
LEMMA ControlsItems ==
  ASSUME NEW d \in Instances, NEW b \in BOOLEAN, NEW c \in BOOLEAN
  PROVE  /\ ControlsOf(d, <<b, c>>) \in Seq(Objects \cup {"Unknown"})
         /\ Items(ControlsOf(d, <<b, c>>))
              = (IF b THEN {VolumeControl[d]} ELSE {}) \cup (IF c THEN {MuteControl[d]} ELSE {})
<1> DEFINE S == Objects \cup {"Unknown"}
           one == OneIf(b, VolumeControl[d])
           two == OneIf(c, MuteControl[d])
<1>1. VolumeControl[d] \in S /\ MuteControl[d] \in S
  BY AllObjects DEF VolumeControl, MuteControl, Instances
<1>2. one \in Seq(S) /\ two \in Seq(S)
  BY <1>1, SizeOfOne
<1>3. /\ Items(one) = IF b THEN {VolumeControl[d]} ELSE {}
      /\ Items(two) = IF c THEN {MuteControl[d]} ELSE {}
  BY ItemsOfOne
<1>4. ControlsOf(d, <<b, c>>) = one \o two
  BY DEF ControlsOf
<1> HIDE DEF one, two, S
<1>5. Items(one \o two) = Items(one) \cup Items(two)
  BY <1>2, JoinedItems
<1>6. one \o two \in Seq(S)
  BY <1>2, Joined, Zenon
<1>7. QED
  BY <1>3, <1>4, <1>5, <1>6 DEF S

(* It names the controls that are active.                                   *)
LEMMA ControlsListed ==
  ASSUME NEW d \in Instances
  PROVE  /\ ControlsOf(d, Enabled(d)) \in Seq(Objects \cup {"Unknown"})
         /\ Items(ControlsOf(d, Enabled(d))) \ {"Unknown"} = ControlsActive(d)
<1> DEFINE b == VolumeControl[d] \in active
           c == MuteControl[d] \in active
<1>1. b \in BOOLEAN /\ c \in BOOLEAN /\ Enabled(d) = <<b, c>>
  BY DEF Enabled
<1>2. /\ ControlsOf(d, <<b, c>>) \in Seq(Objects \cup {"Unknown"})
      /\ Items(ControlsOf(d, <<b, c>>))
           = (IF b THEN {VolumeControl[d]} ELSE {}) \cup (IF c THEN {MuteControl[d]} ELSE {})
  BY <1>1, ControlsItems, Zenon
<1>3. ControlsActive(d) = ((IF b THEN {VolumeControl[d]} ELSE {})
                             \cup (IF c THEN {MuteControl[d]} ELSE {})) \ {"Unknown"}
  BY DEF ControlsActive
<1> HIDE DEF b, c
<1>4. QED
  BY <1>1, <1>2, <1>3

(* Owned are the streams too.                                               *)
LEMMA OwnedListed ==
  ASSUME NEW d \in Instances
  PROVE  Items(DataFor(<<d, "OwnedObjects">>, Enabled(d))) \ {"Unknown"}
           = ControlsActive(d) \cup {InputStream[d], OutputStream[d]}
<1> DEFINE S == Objects \cup {"Unknown"}
           pair == <<InputStream[d], OutputStream[d]>>
           rest == ControlsOf(d, Enabled(d))
<1>1. InputStream[d] \in S /\ OutputStream[d] \in S
      /\ "Unknown" \notin {InputStream[d], OutputStream[d]}
  BY AllObjects DEF InputStream, OutputStream, Instances
<1>2. pair \in Seq(S) /\ Items(pair) = {InputStream[d], OutputStream[d]}
  BY <1>1, ItemsOfTwo
<1>3. rest \in Seq(S) /\ Items(rest) \ {"Unknown"} = ControlsActive(d)
  BY ControlsListed
<1>4. DataFor(<<d, "OwnedObjects">>, Enabled(d)) = pair \o rest
  BY DEF DataFor, Instances
<1> HIDE DEF S, pair, rest
<1>5. Items(pair \o rest) = Items(pair) \cup Items(rest)
  BY <1>2, <1>3, JoinedItems
<1>6. QED
  BY <1>1, <1>2, <1>3, <1>4, <1>5

-----------------------------------------------------------------------------
(* Nothing that changed, and no request, has been lost on the way to the    *)
(* host.                                                                    *)

(* When it is quiet nothing is on its way, asked for or being read.         *)
LEMMA NothingComes ==
  ASSUME Quiet
  PROVE  /\ \A k : ~Coming(k) /\ ~BeingRead(k)
         /\ \A d, a : ~Under(d, a)
<1>1. ~Announcing
  BY DEF Quiet, BusyCalls, Announcing, Making
<1>2. 1 .. Len(queue) = {} /\ 1 .. Len(requests) = {}
  BY EmptySeq DEF Quiet
<1>3. QED
  BY <1>1, <1>2 DEF Quiet, Coming, Under, BeingRead

(* When nothing is coming the host has what there is.                       *)
LEMMA SinglesCurrent ==
  ASSUME HostInv, Quiet, NEW k \in Singles
  PROVE  view[k] = Data(k)
<1>1. Coming(k) \/ Fresh(k)
  BY DEF HostInv, Followed, Quiet
<1>2. QED
  BY <1>1, NothingComes DEF Fresh

(* It knows the objects of an instance, its rate, its music player and its  *)
(* equalisers.                                                              *)
LEMMA InstancesKnown ==
  ASSUME HostInv, Quiet, NEW d \in Instances
  PROVE  InstanceKnown(d)
<1>1. ASSUME NEW p \in {"ControlList", "OwnedObjects", "NominalSampleRate",
                        "EnabledOutputControls", "MusicPlayerProcessID",
                        "MusicPlayerBundleID"}
      PROVE  view[<<d, p>>] = Data(<<d, p>>)
  <2>1. <<d, p>> \in Singles
    BY DEF Singles, Watched, Settings, Flags
  <2>2. QED
    BY <2>1, SinglesCurrent
<1>2. KnownObjects(d, "ControlList") = ControlsActive(d)
  <2>1. Data(<<d, "ControlList">>) = ControlsOf(d, Enabled(d))
    BY DEF Data, DataFor, Source, Instances
  <2>2. view[<<d, "ControlList">>] = ControlsOf(d, Enabled(d))
    BY <1>1, <2>1
  <2>3. QED
    BY <2>2, ControlsListed DEF KnownObjects, Items
<1>3. KnownObjects(d, "OwnedObjects") = ControlsActive(d) \cup {InputStream[d], OutputStream[d]}
  <2>1. Data(<<d, "OwnedObjects">>) = DataFor(<<d, "OwnedObjects">>, Enabled(d))
    BY DEF Data, Source, Instances
  <2>2. view[<<d, "OwnedObjects">>] = DataFor(<<d, "OwnedObjects">>, Enabled(d))
    BY <1>1, <2>1
  <2>3. QED
    BY <2>2, OwnedListed DEF KnownObjects, Items
<1>4. Known(d, "NominalSampleRate", rate[d])
  BY <1>1 DEF Known, Data, DataFor, Source, Instances
<1>5. ASSUME NEW s \in {InputStream[d], OutputStream[d]}
      PROVE  Known(s, "VirtualFormat", rate[d])
  <2>1. s \in Streams \ {"NullOut"} /\ s \notin Instances \cup {"PlugIn"}
    BY DEF Instances, InputStream, OutputStream, Streams
  <2>2. <<s, "VirtualFormat">> \in Singles
    BY <2>1 DEF Singles, Watched, Settings, Flags
  <2>3. view[<<s, "VirtualFormat">>] = Data(<<s, "VirtualFormat">>)
    BY <2>2, SinglesCurrent
  <2>4. Data(<<s, "VirtualFormat">>) = <<format[s]>>
    BY <2>1 DEF Data, DataFor, Source
  <2>5. format[s] = rate[d]
    BY DEF HostInv, RateTypes
  <2>6. QED
    BY <2>3, <2>4, <2>5 DEF Known
<1>6. /\ Known(d, "MusicPlayerProcessID", music[d].pid)
      /\ Known(d, "MusicPlayerBundleID", music[d].bundle)
  BY <1>1 DEF Known, Data, DataFor, Source, Instances
<1>7. ASSUME NEW c \in clients[d]
      PROVE  (<<c, "boost">> \in KnownSettings(d, "AppEQ")) <=> gains[d][c] = "boost"
  <2> DEFINE k == <<d, "AppEQ">>
             v == view[k][1]
  <2>1. k \in Settings
    BY DEF Settings
  <2>2. Coming(k) \/ FreshSettings(k)
    BY <2>1 DEF HostInv, Followed, Quiet
  <2>3. Listed(k) = AppEQ(d)
    BY <2>2, NothingComes DEF FreshSettings, Listing
  <2>4. {e \in v : e[1] \in clients[d]} = AppEQ(d)
    BY <2>3 DEF Listed
  <2>5. (<<c, "boost">> \in v) <=> <<c, "boost">> \in AppEQ(d)
    <3> HIDE DEF v
    <3>1. <<c, "boost">>[1] \in clients[d]
      OBVIOUS
    <3>2. QED
      BY <2>4, <3>1
  <2>6. <<c, "boost">> \in AppEQ(d) <=> gains[d][c] = "boost"
    BY DEF AppEQ
  <2>7. QED
    BY <2>5, <2>6 DEF KnownSettings
<1>8. Known(d, "EnabledOutputControls",
            <<IsActive(VolumeControl[d]), IsActive(MuteControl[d])>>)
  BY <1>1 DEF Known, IsActive, Data, DataFor, Source, Enabled, Instances
<1>9. QED
  BY <1>2, <1>3, <1>4, <1>5, <1>6, <1>7, <1>8 DEF InstanceKnown

(* It knows the volumes.                                                    *)
LEMMA VolumesAreListed ==
  ASSUME HostInv, Quiet, NEW d \in Instances
  PROVE  VolumesListed(d)
<1>1. Known(VolumeControl[d], "ScalarValue",
            ConvertRawToScalar(Curve[VolumeControl[d]], level[VolumeControl[d]]))
  <2>1. PICK v \in Volumes : v = VolumeControl[d]
    BY DEF Volumes, VolumeControl, Instances
  <2>2. <<v, "ScalarValue">> \in Singles
    BY DEF Singles, Watched, Settings, Flags
  <2>3. view[<<v, "ScalarValue">>] = Data(<<v, "ScalarValue">>)
    BY <2>2, SinglesCurrent
  <2>4. Data(<<v, "ScalarValue">>) = <<ConvertRawToScalar(Curve[v], level[v])>>
    BY DEF Data, DataFor, Source, Volumes
  <2>5. QED
    BY <2>1, <2>3, <2>4 DEF Known
<1>2. {e \in KnownSettings(d, "AppVolumes") : e[1] \in clients[d]} = AppVolumes(d)
  <2> DEFINE k == <<d, "AppVolumes">>
  <2>1. k \in Settings
    BY DEF Settings
  <2>2. Coming(k) \/ FreshSettings(k)
    BY <2>1 DEF HostInv, Followed, Quiet
  <2>3. Listed(k) = AppVolumes(d)
    BY <2>2, NothingComes DEF FreshSettings, Listing
  <2>4. QED
    BY <2>3 DEF Listed, KnownSettings
<1>3. QED
  BY <1>1, <1>2 DEF VolumesListed

(* It knows everything it watches.                                          *)
LEMMA AllKnown ==
  ASSUME HostInv, Quiet
  PROVE  ViewsCurrent
<1>1. \A k \in Singles : view[k] = Data(k)
  BY SinglesCurrent
<1>2. KnownObjects("PlugIn", "DeviceList") = Instances \cup ({"Null"} \cap active)
  <2>1. <<"PlugIn", "DeviceList">> \in Singles
    BY DEF Singles, Watched, Settings, Flags, Instances
  <2>2. view[<<"PlugIn", "DeviceList">>] = DataFor(<<"PlugIn", "DeviceList">>, "Null" \in active)
    BY <1>1, <2>1 DEF Data, Source
  <2>3. "Unknown" \notin Instances \cup {"Null"}
    BY DEF Instances
  <2>4. QED
    BY <2>2, <2>3, DevicesListed DEF KnownObjects, Items
<1>3. /\ Known("Null", "DeviceIsAlive", IsActive("Null"))
      /\ Known("Null", "DeviceIsRunning", nullIO > 0)
      /\ Known("Mute", "Value", muted)
  <2>1. {<<"Null", "DeviceIsAlive">>, <<"Null", "DeviceIsRunning">>, <<"Mute", "Value">>}
          \subseteq Singles
    BY DEF Singles, Watched, Settings, Flags, Instances
  <2>2. QED
    BY <1>1, <2>1 DEF Known, IsActive, Data, DataFor, Source
<1>4. ASSUME NEW s \in Streams PROVE Known(s, "IsActive", on[s])
  <2>1. <<s, "IsActive">> \in Singles /\ s # "PlugIn"
    BY DEF Singles, Watched, Settings, Flags, Streams, Instances
  <2>2. QED
    BY <1>1, <2>1 DEF Known, Data, DataFor, Source
<1>5. \A d \in Instances : InstanceKnown(d)
  BY InstancesKnown
<1>6. Known(announced, "DebugLogging", debug)
  <2>1. PICK d \in Instances : d = announced
    BY DEF HostInv, Followed, Quiet
  <2> DEFINE k == <<d, "DebugLogging">>
  <2>2. Coming(k) \/ Fresh(k)
    BY <2>1 DEF HostInv, Followed, Quiet, Flags
  <2>3. view[k] = Data(k)
    BY <2>2, NothingComes DEF Fresh
  <2>4. Data(k) = <<debug>>
    BY DEF Data, DataFor, Source, Instances
  <2>5. QED
    BY <2>1, <2>3, <2>4 DEF Known
<1>7. QED
  BY <1>2, <1>3, <1>4, <1>5, <1>6 DEF ViewsCurrent

(* The strengthening: of every property the host watches, either a block,   *)
(* the host's list of what to read or a call about to announce it will make *)
(* the host read it, or the host has it, or the room for it, as it is; and  *)
(* the rate and the controls that are pending are in force, refused, or     *)
(* under way.  Of DebugLogging it is so on the instance it was last         *)
(* announced on, and an instance ignores a request for what it has even if  *)
(* another change is pending.                                               *)
THEOREM HostInvariance == Spec => []HostInv
<1>1. Init => HostInv
  BY HostInit
<1>2. IInv /\ HostInv /\ [Next]_vars => HostInv'
  BY HostStep
<1>3. QED
  BY <1>1, <1>2, Invariance, PTL DEF Spec

\* What was asked for last is what is pending, but for what was ignored.
LastAsked ==
  /\ asked \in [Instances -> [rate : Rate, controls : BOOLEAN \X BOOLEAN]]
  /\ \A d \in Instances :
       \/ d \in ignored
       \/ asked[d].rate = pendingRate[d] /\ asked[d].controls = pendingControls[d]

Pending == <<asked, ignored, pendingRate, pendingControls>>
\* What asks for no reconfiguration.
AsksNothing ==
  \/ SetVolume \/ SetMute \/ SetStreamActive \/ SetMusicPlayerProperty \/ SetDebugLogging
  \/ BGM_Create \/ BGM_Initialize \/ Null_StartIO \/ Null_StopIO \/ BGM_DoIOOperation
  \/ RunBlock \/ Host \/ UNCHANGED vars
  \/ \E d \in Instances : FinishOperation(d)
  \/ \E t \in Thread :
       \/ SetNullDeviceActive(t) \/ App_SetAppVolume(t) \/ App_SetAppEQBandGains(t)
       \/ BGM_AddDeviceClient(t) \/ LockIO(t) \/ CallSteps(t)
(* It leaves what is pending alone.                                         *)
LEMMA NothingAsked == AsksNothing => UNCHANGED Pending
<1> USE DEF config, asks, Pending
<1>1. SetVolume \/ SetMute \/ SetStreamActive \/ SetMusicPlayerProperty \/ SetDebugLogging
        => UNCHANGED Pending
  BY DEF SetVolume, SetMute, SetStreamActive, SetMusicPlayerProperty, SetDebugLogging
<1>2. BGM_Create \/ BGM_Initialize \/ Null_StartIO \/ Null_StopIO \/ BGM_DoIOOperation
        => UNCHANGED Pending
  BY DEF BGM_Create, BGM_Initialize, Null_StartIO, Null_StopIO, BGM_DoIOOperation
<1>3. RunBlock \/ Host \/ UNCHANGED vars => UNCHANGED Pending
  BY DEF RunBlock, Host, ReadSize, ReadData, PerformConfigChange, AbortConfigChange, vars
<1>4. ASSUME NEW d \in Instances, FinishOperation(d) PROVE UNCHANGED Pending
  BY <1>4 DEF FinishOperation
<1>5. ASSUME NEW t \in Thread,
             \/ SetNullDeviceActive(t) \/ App_SetAppVolume(t) \/ App_SetAppEQBandGains(t)
             \/ BGM_AddDeviceClient(t) \/ LockIO(t)
      PROVE  UNCHANGED Pending
  BY <1>5 DEF SetNullDeviceActive, App_SetAppVolume, App_SetAppEQBandGains,
     BGM_AddDeviceClient, AddClient, LockIO
<1>6. ASSUME NEW t \in Thread, CallSteps(t) PROVE UNCHANGED Pending
  BY <1>6 DEF CallSteps, ChangeNullDevice, AnnounceNullDevice, SetAppVolumes, SetAppEQ,
     ChangeProcessors
<1>7. QED
  BY <1>1, <1>2, <1>3, <1>4, <1>5, <1>6 DEF AsksNothing

(* A rate that is asked for is pending, or the one there is.                *)
LEMMA RateLastAsked ==
  ASSUME HostInv, LastAsked, NEW d \in Instances, NEW r \in Rate, RequestSampleRate(d, r),
         UNCHANGED pendingControls
  PROVE  LastAsked'
<1>1. /\ asked' = [asked EXCEPT ![d]["rate"] = r]
      /\ ignored' = IF r = rate[d] /\ r # pendingRate[d] THEN ignored \cup {d} ELSE ignored
  BY DEF RequestSampleRate, Ask
<1>2. /\ asked' \in [Instances -> [rate : Rate, controls : BOOLEAN \X BOOLEAN]]
      /\ asked'[d].rate = r /\ asked'[d].controls = asked[d].controls
      /\ \A e \in Instances \ {d} : asked'[e] = asked[e]
  BY <1>1 DEF LastAsked
<1>3. /\ pendingRate'[d] = IF r # rate[d] THEN r ELSE pendingRate[d]
      /\ \A e \in Instances \ {d} : pendingRate'[e] = pendingRate[e]
  <2>1. pendingRate = [e \in Instances |-> pendingRate[e]]
    BY DEF HostInv, HostTypes
  <2>2. QED
    BY <2>1 DEF RequestSampleRate
<1>4. QED
  BY <1>1, <1>2, <1>3 DEF LastAsked

(* So are controls.                                                         *)
LEMMA ControlsLastAsked ==
  ASSUME HostInv, LastAsked, NEW d \in Instances, NEW v \in BOOLEAN, NEW m \in BOOLEAN,
         RequestEnabledControls(d, v, m), UNCHANGED pendingRate
  PROVE  LastAsked'
<1> DEFINE changeVolume == IsActive(VolumeControl[d]) # v
           changeMute == IsActive(MuteControl[d]) # m
           new == <<IF changeVolume THEN v ELSE pendingControls[d][1],
                    IF changeMute THEN m ELSE pendingControls[d][2]>>
           ignores == \/ ~changeVolume /\ pendingControls[d][1] # v
                      \/ ~changeMute /\ pendingControls[d][2] # m
           both == <<v, m>>
<1>1. /\ asked' = [asked EXCEPT ![d]["controls"] = both]
      /\ ignored' = IF ignores THEN ignored \cup {d} ELSE ignored
      /\ pendingControls' = [pendingControls EXCEPT ![d] = new]
  BY DEF RequestEnabledControls, Ask
<1>2. pendingControls \in [Instances -> BOOLEAN \X BOOLEAN] /\ both \in BOOLEAN \X BOOLEAN
  BY DEF HostInv, HostTypes
<1>3. ~ignores => new = both
  <2>1. ASSUME ~ignores
        PROVE  /\ (IF changeVolume THEN v ELSE pendingControls[d][1]) = v
               /\ (IF changeMute THEN m ELSE pendingControls[d][2]) = m
    BY <2>1
  <2>2. QED
    BY <2>1
<1> HIDE DEF new, ignores, both
<1>4. /\ asked' \in [Instances -> [rate : Rate, controls : BOOLEAN \X BOOLEAN]]
      /\ asked'[d].rate = asked[d].rate /\ asked'[d].controls = both
      /\ \A e \in Instances \ {d} : asked'[e] = asked[e]
  BY <1>1, <1>2 DEF LastAsked
<1>5. /\ pendingControls'[d] = new
      /\ \A e \in Instances \ {d} : pendingControls'[e] = pendingControls[e]
  BY <1>1, <1>2
<1>6. QED
  BY <1>1, <1>3, <1>4, <1>5 DEF LastAsked

(* Every step keeps it.                                                     *)
LEMMA LastAskedStep ==
  ASSUME HostInv, LastAsked, [Next]_vars
  PROVE  LastAsked'
<1>1. CASE AsksNothing
  BY <1>1, NothingAsked DEF LastAsked, Pending
<1>2. CASE SetRateOrFormat
  <2>1. PICK d \in Instances, r \in Rate : RequestSampleRate(d, r)
    BY <1>2 DEF SetRateOrFormat
  <2>2. QED
    BY <1>2, <2>1, RateLastAsked DEF SetRateOrFormat
<1>3. CASE SetEnabledOutputControls
  <2>1. PICK d \in Instances, v \in BOOLEAN, m \in BOOLEAN : RequestEnabledControls(d, v, m)
    BY <1>3 DEF SetEnabledOutputControls
  <2>2. QED
    BY <1>3, <2>1, ControlsLastAsked DEF SetEnabledOutputControls
<1>4. ASSUME NEW t \in Thread, BGM_RemoveDeviceClient(t) PROVE LastAsked'
  <2>1. PICK d \in Instances, c \in Client : RemoveClient(t, d, c)
    BY <1>4 DEF BGM_RemoveDeviceClient
  <2>2. CASE c = BGMApp
    <3>1. RequestEnabledControls(d, TRUE, TRUE) /\ UNCHANGED pendingRate
      BY <2>1, <2>2 DEF RemoveClient
    <3>2. QED
      BY <3>1, ControlsLastAsked
  <2>3. CASE c # BGMApp
    <3>1. UNCHANGED <<asked, ignored, pendingRate, pendingControls>>
      BY <2>1, <2>3 DEF RemoveClient, asks
    <3>2. QED
      BY <3>1 DEF LastAsked
  <2>4. QED
    BY <2>2, <2>3
<1>5. QED
  <2>1. BGM_SetPropertyData => AsksNothing \/ SetRateOrFormat \/ SetEnabledOutputControls
    BY DEF BGM_SetPropertyData, AsksNothing
  <2>2. Next => \/ AsksNothing \/ SetRateOrFormat \/ SetEnabledOutputControls
                \/ \E t \in Thread : BGM_RemoveDeviceClient(t)
    BY <2>1 DEF Next, AsksNothing
  <2>3. UNCHANGED vars => AsksNothing
    BY DEF AsksNothing
  <2>4. QED
    BY <1>1, <1>2, <1>3, <1>4, <2>2, <2>3

(* What a device was last asked for is what it has pending, unless it       *)
(* ignored a request for what it had while another change was pending       *)
(* (WC_Device::RequestSampleRate and RequestEnabledControls).               *)
LEMMA AskedInvariance == Spec => []LastAsked
<1>1. Init => LastAsked
  <2> SUFFICES ASSUME Init PROVE LastAsked
    OBVIOUS
  <2> DEFINE start == [rate |-> DefaultRate, controls |-> <<TRUE, TRUE>>]
  <2>1. /\ start \in [rate : Rate, controls : BOOLEAN \X BOOLEAN]
        /\ start.rate = DefaultRate /\ start.controls = <<TRUE, TRUE>>
    BY HALAssumption
  <2>2. /\ asked = [d \in Instances |-> start]
        /\ pendingRate = [d \in Instances |-> DefaultRate]
        /\ pendingControls = [d \in Instances |-> <<TRUE, TRUE>>]
    BY DEF Init
  <2> HIDE DEF start
  <2>3. QED
    BY <2>1, <2>2 DEF LastAsked
<1>2. HostInv /\ LastAsked /\ [Next]_vars => LastAsked'
  BY LastAskedStep
<1>3. QED
  BY <1>1, <1>2, HostInvariance, PTL DEF Spec

(* When no block, request or call is under way, the host has read of every  *)
(* property it watches what it is now, whatever was set, added, removed or  *)
(* reconfigured between two of its reads: DebugLogging of the instance it   *)
(* was announced on, settings of the clients that have not gone.  And       *)
(* unless it refused a change, the sample rate and the controls of a device *)
(* are those last accepted as pending, and those last asked for if the      *)
(* device has ignored no request (the announcements of every setter of      *)
(* BGMDriver, CADispatchQueue and WC_Device::PerformConfigChange).          *)
THEOREM HostKnows == Spec => []HostUpToDate
<1>1. HostInv /\ LastAsked => HostUpToDate
  <2> SUFFICES ASSUME HostInv, LastAsked, Quiet
               PROVE  ViewsCurrent /\ \A d \in Instances : VolumesListed(d) /\ AsAsked(d)
    BY DEF HostUpToDate
  <2>1. ASSUME NEW d \in Instances PROVE AsAsked(d)
    <3>1. rate[d] = pendingRate[d] \/ d \in aborted
      BY NothingComes DEF HostInv, RateAsked
    <3>2. ControlsSet(d) \/ d \in aborted
      BY NothingComes DEF HostInv, ControlsAsked, Quiet
    <3>3. pendingControls[d] \in BOOLEAN \X BOOLEAN
      BY DEF HostInv, HostTypes
    <3>4. pendingControls[d][1] \in BOOLEAN /\ pendingControls[d][2] \in BOOLEAN
      BY <3>3
    <3>5. d \notin aborted => InForce(d, pendingRate[d], pendingControls[d])
      BY <3>1, <3>2, <3>4 DEF InForce, ControlsSet, IsActive
    <3>6. \/ d \in ignored
          \/ asked[d].rate = pendingRate[d] /\ asked[d].controls = pendingControls[d]
      BY DEF LastAsked
    <3>7. QED
      BY <3>5, <3>6 DEF AsAsked
  <2>2. QED
    BY <2>1, AllKnown, VolumesAreListed
<1>2. QED
  BY <1>1, HostInvariance, AskedInvariance, PTL

-----------------------------------------------------------------------------
(* Every property is answered.                                              *)

\* An answer of so many items.
Given(answer, n) == answer.error = "none" /\ Len(answer.data) = n

(* It has the items it is made of.                                          *)
LEMMA AnswerGiven == \A l : Given(Answer(l), Len(l))
BY DEF Given, Answer

(* For one item there is room.                                              *)
LEMMA ScalarGiven == \A v : Given(Scalar(1, v), 1)
BY DEF Given, Scalar, Answer

(* For a list there is, if it is as long as its size says.                  *)
LEMMA ListGiven ==
  ASSUME NEW S, NEW s \in Seq(S)
  PROVE  Given(List(Len(s), s), Len(s))
BY WholeList DEF Given, Answer

(* So for a list of one.                                                    *)
LEMMA OneGiven == \A x : Given(List(1, <<x>>), 1)
<1> SUFFICES ASSUME NEW x PROVE Given(List(1, <<x>>), 1)
  OBVIOUS
<1>1. <<x>> \in Seq({x}) /\ Len(<<x>>) = 1
  OBVIOUS
<1>2. QED
  BY <1>1, ListGiven

(* What WC_Object answers.                                                  *)
LEMMA ObjectGiven ==
  ASSUME NEW o, NEW p, Object_Has(p)
  PROVE  Given(Object_Get(o, p, Object_Size(p)), Object_Size(p))
<1>1. CASE p = "OwnedObjects"
  BY <1>1, EmptySeq DEF Object_Get, Object_Size, Given, Answer
<1>2. CASE p # "OwnedObjects"
  BY <1>2, ScalarGiven DEF Object_Has, Object_Get, Object_Size, ObjectProperties
<1>3. QED
  BY <1>1, <1>2

(* What the controls answer.                                                *)
LEMMA ControlGiven ==
  ASSUME NEW o, NEW p, Control_Has(p)
  PROVE  Given(Control_Get(o, p, Control_Size(p)), Control_Size(p))
BY ScalarGiven, ObjectGiven DEF Control_Has, Control_Get, Control_Size

(* What a volume control answers.                                           *)
LEMMA VolumeGiven ==
  ASSUME NEW o, NEW p, Volume_Has(p)
  PROVE  Given(Volume_Get(o, p, Volume_Size(p)), Volume_Size(p))
<1>1. CASE p \in VolumeProperties
  <2>1. Volume_Size(p) = 1 /\ \E v : Volume_Get(o, p, 1) = Scalar(1, v)
    <3>1. CASE p = "ScalarValue"
      BY <1>1, <3>1 DEF Volume_Size, Volume_Get
    <3>2. CASE p = "DecibelValue"
      BY <1>1, <3>2 DEF Volume_Size, Volume_Get
    <3>3. CASE p = "DecibelRange"
      BY <1>1, <3>3 DEF Volume_Size, Volume_Get
    <3>4. CASE p \in {"ConvertScalarToDecibels", "ConvertDecibelsToScalar"}
      BY <1>1, <3>4 DEF Volume_Size, Volume_Get
    <3>5. QED
      BY <1>1, <3>1, <3>2, <3>3, <3>4 DEF VolumeProperties, VolumeSettable
  <2>2. QED
    BY <2>1, ScalarGiven
<1>2. CASE p \notin VolumeProperties
  <2>1. Control_Has(p) /\ Volume_Size(p) = Control_Size(p)
    BY <1>2 DEF Volume_Has, Volume_Size
  <2>2. Volume_Get(o, p, Control_Size(p)) = Control_Get(o, p, Control_Size(p))
    BY <1>2 DEF Volume_Get, VolumeProperties, VolumeSettable
  <2>3. QED
    BY <2>1, <2>2, ControlGiven
<1>3. QED
  BY <1>1, <1>2

(* What the mute control answers.                                           *)
LEMMA MuteGiven ==
  ASSUME NEW o, NEW p, Mute_Has(p)
  PROVE  Given(Mute_Get(o, p, Mute_Size(p)), Mute_Size(p))
BY ScalarGiven, ControlGiven DEF Mute_Has, Mute_Get, Mute_Size

(* What a stream answers.                                                   *)
LEMMA StreamGiven ==
  ASSUME NEW o, NEW p, Stream_Has(p)
  PROVE  Given(Stream_Get(o, p, Stream_Size(p)), Stream_Size(p))
<1>1. CASE p \in StreamLists
  BY <1>1, OneGiven DEF Stream_Get, Stream_Size, StreamLists, StreamProperties
<1>2. CASE p \in StreamProperties \ StreamLists
  BY <1>2, ScalarGiven DEF Stream_Get, Stream_Size, StreamLists, StreamProperties, StreamSettable
<1>3. CASE p \notin StreamProperties
  <2>1. Object_Has(p) /\ Stream_Size(p) = Object_Size(p)
    BY <1>3 DEF Stream_Has, Stream_Size
  <2>2. Stream_Get(o, p, Object_Size(p)) = Object_Get(o, p, Object_Size(p))
    BY <1>3 DEF Stream_Get, StreamProperties, StreamSettable, StreamLists
  <2>3. QED
    BY <2>1, <2>2, ObjectGiven
<1>4. QED
  BY <1>1, <1>2, <1>3 DEF StreamLists, StreamProperties

(* What WC_AbstractDevice answers for both kinds of device.                 *)
LEMMA AbstractGiven ==
  ASSUME NEW o, NEW p, Abstract_Has(p),
         p \notin AnsweredBySubclass \cup {"Streams", "ControlList"}
  PROVE  Given(Abstract_Get(o, p, Abstract_Size(p)), Abstract_Size(p))
<1>1. CASE p = "RelatedDevices"
  BY <1>1, OneGiven
     DEF Abstract_Get, Abstract_Size, AbstractProperties, AbstractLists, AnsweredBySubclass
<1>2. CASE p \in AbstractValues
  BY <1>2, ScalarGiven
     DEF Abstract_Get, Abstract_Size, AbstractProperties, AbstractValues, AnsweredBySubclass
<1>3. CASE p \notin AbstractProperties
  <2>1. Object_Has(p) /\ Abstract_Size(p) = Object_Size(p)
    BY <1>3 DEF Abstract_Has, Abstract_Size, AbstractProperties, AbstractLists
  <2>2. Abstract_Get(o, p, Object_Size(p)) = Object_Get(o, p, Object_Size(p))
    BY <1>3 DEF Abstract_Get, AbstractProperties, AbstractLists, AbstractValues
  <2>3. QED
    BY <2>1, <2>2, ObjectGiven
<1>4. QED
  BY <1>1, <1>2, <1>3 DEF AbstractProperties, AbstractLists, AnsweredBySubclass

(* What the Null Device answers: of its streams as inputs, one fewer.       *)
LEMMA NullGiven ==
  ASSUME NEW p, NEW s, Null_Has(p)
  PROVE  LET cut == p = "Streams" /\ s = "Input"
             got == Null_Get(p, s, Null_Size(p))
         IN  (cut => Given(got, Null_Size(p) - 1)) /\ (~cut => Given(got, Null_Size(p)))
<1>1. CASE p \in NullConstants \cup {"DeviceUID", "DeviceIsAlive", "DeviceIsRunning"}
  <2>1. Null_Size(p) = 1
    BY <1>1 DEF Null_Size, Abstract_Size, NullConstants, AbstractProperties, AbstractValues,
       AnsweredBySubclass
  <2>2. \E v : Null_Get(p, s, 1) = Scalar(1, v)
    BY <1>1 DEF Null_Get, NullConstants
  <2>3. QED
    BY <1>1, <2>1, <2>2, ScalarGiven DEF NullConstants
<1>2. CASE p = "Streams"
  <2>1. Null_Size(p) = 1
    BY <1>2 DEF Null_Size
  <2>2. Null_Get(p, s, 1) = List(1, IF s = "Input" THEN <<>> ELSE <<"NullOut">>)
    BY <1>2 DEF Null_Get, NullConstants
  <2>3. QED
    BY <1>2, <2>1, <2>2, OneGiven DEF Given, List, Answer
<1>3. CASE p = "AvailableNominalSampleRates"
  <2>1. Null_Size(p) = 1 /\ Null_Get(p, s, 1) = List(1, <<p>>)
    BY <1>3 DEF Null_Size, Null_Get, NullConstants
  <2>2. QED
    BY <1>3, <2>1, OneGiven
<1>4. CASE p = "ControlList"
  <2>1. Null_Size(p) = 0 /\ Null_Get(p, s, 0) = Answer(<<>>)
    BY <1>4 DEF Null_Size, Abstract_Size, Null_Get, NullConstants, Abstract_Get,
       AnsweredBySubclass
  <2>2. QED
    BY <1>4, <2>1, EmptySeq DEF Given, Answer
<1>5. CASE p \notin AnsweredBySubclass \cup {"Streams", "ControlList"} /\ p # "DeviceIsAlive"
  <2>1. Abstract_Has(p)
    BY DEF Null_Has, Abstract_Has, AbstractProperties, AbstractValues
  <2>2. Null_Size(p) = Abstract_Size(p)
    BY <1>5 DEF Null_Size, AnsweredBySubclass
  <2>3. \A room : Null_Get(p, s, room) = Abstract_Get("Null", p, room)
    BY <1>5 DEF Null_Get, NullConstants, AnsweredBySubclass
  <2>4. QED
    BY <1>5, <2>1, <2>2, <2>3, AbstractGiven DEF Given
<1>6. QED
  BY <1>1, <1>2, <1>3, <1>4, <1>5 DEF AnsweredBySubclass, NullConstants

\* What both lists of the plug-in name.
DeviceNames == <<"Device", "UI">> \o IfActive("Null")
(* They are as many as the plug-in says.                                    *)
LEMMA DevicesNamed ==
  /\ DeviceNames \in Seq({"Device", "UI", "Null"})
  /\ Len(DeviceNames) = IF "Null" \in active THEN 3 ELSE 2
<1> DEFINE pair == <<"Device", "UI">>
           one == IfActive("Null")
           S == {"Device", "UI", "Null"}
<1>1. pair \in Seq(S) /\ Len(pair) = 2
  OBVIOUS
<1>2. one \in Seq(S) /\ Len(one) = IF "Null" \in active THEN 1 ELSE 0
  <2>1. IfActive("Null") = OneIf("Null" \in active, "Null")
    BY DEF IfActive, OneIf
  <2>2. QED
    BY <2>1, SizeOfOne DEF OneIf
<1> HIDE DEF pair, one, S
<1>3. pair \o one \in Seq(S) /\ Len(pair \o one) = Len(pair) + Len(one)
  BY <1>1, <1>2, Joined, Zenon
<1>4. DeviceNames = pair \o one
  BY DEF DeviceNames, pair, one
<1>5. QED
  BY <1>1, <1>2, <1>3, <1>4 DEF S

(* What the plug-in answers.                                                *)
LEMMA PlugInGiven ==
  ASSUME NEW p, PlugIn_Has(p)
  PROVE  Given(PlugIn_Get(p, PlugIn_Size(p)), PlugIn_Size(p))
<1>1. CASE p \in {"OwnedObjects", "DeviceList"}
  <2>1. PlugIn_Size(p) = Len(DeviceNames)
    BY <1>1, DevicesNamed DEF PlugIn_Size, PlugInProperties
  <2>2. \A room : PlugIn_Get(p, room) = List(room, DeviceNames)
    BY <1>1 DEF PlugIn_Get, DeviceList, DeviceNames
  <2>3. Given(List(Len(DeviceNames), DeviceNames), Len(DeviceNames))
    BY DevicesNamed, ListGiven
  <2>4. QED
    BY <2>1, <2>2, <2>3
<1>2. CASE p \in PlugInProperties \ {"DeviceList"}
  <2>1. PlugIn_Size(p) = 1
    BY <1>2 DEF PlugIn_Size, PlugInProperties
  <2>2. \E v : PlugIn_Get(p, 1) = Scalar(1, v) \/ PlugIn_Get(p, 1) = List(1, <<v>>)
    BY <1>2 DEF PlugIn_Get, PlugInProperties
  <2>3. QED
    BY <2>1, <2>2, ScalarGiven, OneGiven
<1>3. CASE p \notin PlugInProperties \cup {"OwnedObjects"}
  <2>1. Object_Has(p) /\ PlugIn_Size(p) = Object_Size(p)
    BY <1>3 DEF PlugIn_Has, PlugIn_Size, PlugInProperties
  <2>2. \A room : PlugIn_Get(p, room) = Object_Get("PlugIn", p, room)
    BY <1>3 DEF PlugIn_Get, PlugInProperties
  <2>3. QED
    BY <2>1, <2>2, ObjectGiven
<1>4. QED
  BY <1>1, <1>2, <1>3 DEF PlugInProperties

(* The custom properties by name.                                           *)
LEMMA AllCustom ==
  /\ Custom = {"AppVolumes", "MusicPlayerProcessID", "MusicPlayerBundleID",
               "IsRunningElsewhere", "AudibleState", "EnabledOutputControls",
               "DebugLogging", "AppEQ"}
  /\ \A d : DOMAIN CustomData(d) = {"AppVolumes", "MusicPlayerProcessID", "MusicPlayerBundleID",
                                    "EnabledOutputControls", "DebugLogging", "AppEQ"}
<1>1. DOMAIN CustomProperties = 1 .. 8
  BY DEF CustomProperties
<1>2. QED
  BY <1>1 DEF Custom, CustomProperties, CustomData

(* The controls that are listed are as many as are counted.                 *)
LEMMA ControlsCounted ==
  ASSUME NEW d \in Instances
  PROVE  /\ Controls(d) \in Seq(Objects \cup {"Unknown"})
         /\ Len(Controls(d)) = GetNumberOfOutputControls(d)
         /\ GetNumberOfOutputControls(d) \in Nat
<1> DEFINE S == Objects \cup {"Unknown"}
           one == IfActive(VolumeControl[d])
           two == IfActive(MuteControl[d])
<1>1. VolumeControl[d] \in S /\ MuteControl[d] \in S
  BY DEF Objects, SubObjects, VolumeControl, MuteControl, Instances
<1>2. /\ one \in Seq(S) /\ Len(one) = IF VolumeControl[d] \in active THEN 1 ELSE 0
      /\ two \in Seq(S) /\ Len(two) = IF MuteControl[d] \in active THEN 1 ELSE 0
  <2>1. ASSUME NEW o \in S
        PROVE  IfActive(o) \in Seq(S) /\ Len(IfActive(o)) = IF o \in active THEN 1 ELSE 0
    <3>1. IfActive(o) = OneIf(o \in active, o)
      BY DEF IfActive, OneIf
    <3>2. QED
      BY <3>1, SizeOfOne DEF OneIf
  <2>2. QED
    BY <1>1, <2>1
<1> HIDE DEF S, one, two
<1>3. one \o two \in Seq(S) /\ Len(one \o two) = Len(one) + Len(two)
  BY <1>2, Joined, Zenon
<1>4. Controls(d) = one \o two
  BY DEF Controls, one, two
<1>5. QED
  BY <1>2, <1>3, <1>4 DEF GetNumberOfOutputControls, S

\* What an instance owns in all scopes.
Owned(d) == <<InputStream[d], OutputStream[d]>> \o Controls(d)
(* It is as much as the size says.                                          *)
LEMMA OwnedCounted ==
  ASSUME NEW d \in Instances
  PROVE  /\ Owned(d) \in Seq(Objects \cup {"Unknown"})
         /\ Len(Owned(d)) = GetNumberOfSubObjects(d)
<1> DEFINE S == Objects \cup {"Unknown"}
           pair == <<InputStream[d], OutputStream[d]>>
           some == Controls(d)
<1>1. pair \in Seq(S) /\ Len(pair) = 2
  BY DEF Objects, SubObjects, InputStream, OutputStream, VolumeControl, MuteControl, Instances
<1>2. some \in Seq(S) /\ Len(some) = GetNumberOfOutputControls(d)
      /\ GetNumberOfOutputControls(d) \in Nat
  BY ControlsCounted
<1> HIDE DEF S, pair, some
<1>3. pair \o some \in Seq(S) /\ Len(pair \o some) = Len(pair) + Len(some)
  BY <1>1, <1>2, Joined, Zenon
<1>4. Owned(d) = pair \o some
  BY DEF Owned, pair, some
<1>5. QED
  BY <1>1, <1>2, <1>3, <1>4 DEF S, GetNumberOfSubObjects, GetNumberOfOutputSubObjects

(* What it owns in the output scope is cut to the number of its controls.   *)
LEMMA OutputCut ==
  ASSUME NEW d \in Instances
  PROVE  LET n == GetNumberOfOutputControls(d)
         IN  Given(List(n, <<OutputStream[d]>> \o Controls(d)), n)
<1> DEFINE S == Objects \cup {"Unknown"}
           n == GetNumberOfOutputControls(d)
           one == <<OutputStream[d]>>
           some == Controls(d)
           items == one \o some
<1>1. one \in Seq(S) /\ Len(one) = 1
  BY DEF Objects, SubObjects, InputStream, OutputStream, VolumeControl, MuteControl, Instances
<1>2. some \in Seq(S) /\ Len(some) = n /\ n \in Nat
  BY ControlsCounted
<1> HIDE DEF S, n, one, some
<1>3. items \in Seq(S) /\ Len(items) = 1 + n
  BY <1>1, <1>2, Joined, Zenon
<1> HIDE DEF items
<1>4. List(n, items) = Answer(SubSeq(items, 1, n))
  BY <1>2, <1>3 DEF List
<1>5. Len(SubSeq(items, 1, n)) = n
  BY <1>2, <1>3
<1>6. Given(List(n, items), n)
  BY <1>4, <1>5, AnswerGiven
<1>7. QED
  BY <1>6 DEF items, one, some, n

(* What an instance answers.                                                *)
LEMMA InstanceGiven ==
  ASSUME NEW d \in Instances, NEW p, NEW s \in Scopes, Device_HasProperty(p, s)
  PROVE  LET size == Device_GetPropertyDataSize(d, p, s)
             got == Device_GetPropertyData(d, p, s, size)
             cut == p = "OwnedObjects" /\ s = "Output"
         IN  (cut => Given(got, size - 1)) /\ (~cut => Given(got, size))
<1> DEFINE size == Device_GetPropertyDataSize(d, p, s)
           got == Device_GetPropertyData(d, p, s, size)
<1>10. /\ Custom = {"AppVolumes", "MusicPlayerProcessID", "MusicPlayerBundleID",
                   "IsRunningElsewhere", "AudibleState", "EnabledOutputControls",
                   "DebugLogging", "AppEQ"}
       /\ DOMAIN CustomData(d) = {"AppVolumes", "MusicPlayerProcessID", "MusicPlayerBundleID",
                                 "EnabledOutputControls", "DebugLogging", "AppEQ"}
  BY AllCustom
<1> USE <1>10
<1>1. CASE p = "OwnedObjects"
  <2>1. size = OwnedObjectsSize(d, s) /\ got = OwnedObjectsData(d, s, size)
    <3>1. size = OwnedObjectsSize(d, s)
      BY <1>1 DEF Device_GetPropertyDataSize
    <3>2. \A room : Device_GetPropertyData(d, p, s, room) = OwnedObjectsData(d, s, room)
      BY <1>1 DEF Device_GetPropertyData, DeviceConstants
    <3>3. QED
      BY <3>1, <3>2
  <2>2. CASE s = "Global"
    <3>1. size = Len(Owned(d)) /\ got = List(size, Owned(d))
      BY <2>1, <2>2, OwnedCounted DEF OwnedObjectsSize, OwnedObjectsData, Owned
    <3>2. QED
      BY <2>2, <3>1, OwnedCounted, ListGiven DEF Given
  <2>3. CASE s = "Input"
    <3>1. size = 1 /\ got = List(1, <<InputStream[d]>>)
      BY <2>1, <2>3 DEF OwnedObjectsSize, OwnedObjectsData
    <3>2. QED
      BY <2>3, <3>1, OneGiven DEF Given
  <2>4. CASE s = "Output"
    <3> DEFINE n == GetNumberOfOutputControls(d)
    <3>1. size = 1 + n /\ n \in Nat
      BY <2>1, <2>4, ControlsCounted DEF OwnedObjectsSize
    <3>2. got = List(n, <<OutputStream[d]>> \o Controls(d))
      BY <2>1, <2>4, <3>1 DEF OwnedObjectsData
    <3>3. Given(got, n)
      BY <3>2, OutputCut
    <3>4. QED
      BY <1>1, <2>4, <3>1, <3>3 DEF Given
  <2>5. QED
    BY <2>2, <2>3, <2>4 DEF Scopes
<1>2. CASE p = "Streams"
  <2>1. /\ size = IF s = "Global" THEN 2 ELSE 1
        /\ got = StreamsData(d, s, size)
    <3>1. size = IF s = "Global" THEN 2 ELSE 1
      BY <1>2 DEF Device_GetPropertyDataSize
    <3>2. \A room : Device_GetPropertyData(d, p, s, room) = StreamsData(d, s, room)
      BY <1>2 DEF Device_GetPropertyData, DeviceConstants
    <3>3. QED
      BY <3>1, <3>2
  <2>2. ASSUME NEW x, NEW y PROVE Given(List(2, <<x, y>>), 2)
    <3>1. <<x, y>> \in Seq({x, y}) /\ Len(<<x, y>>) = 2
      OBVIOUS
    <3>2. QED
      BY <3>1, ListGiven
  <2>3. Given(got, size)
    <3>1. CASE s = "Global"
      BY <2>1, <2>2, <3>1 DEF StreamsData
    <3>2. CASE s = "Input"
      BY <2>1, <3>2, OneGiven DEF StreamsData
    <3>3. CASE s = "Output"
      BY <2>1, <3>3, OneGiven DEF StreamsData
    <3>4. QED
      BY <3>1, <3>2, <3>3 DEF Scopes
  <2>4. QED
    BY <1>2, <2>3 DEF Given
<1>3. CASE p = "ControlList"
  <2>1. size = GetNumberOfOutputControls(d) /\ got = List(size, Controls(d))
    <3>1. size = GetNumberOfOutputControls(d)
      BY <1>3 DEF Device_GetPropertyDataSize
    <3>2. \A room : Device_GetPropertyData(d, p, s, room) = List(room, Controls(d))
      BY <1>3 DEF Device_GetPropertyData, DeviceConstants
    <3>3. QED
      BY <3>1, <3>2
  <2>2. QED
    BY <1>3, <2>1, ControlsCounted, ListGiven DEF Given
<1>4. CASE p = "CustomPropertyInfoList"
  <2>1. size = 8 /\ got = CustomInfoData(8)
    <3>1. size = 8
      BY <1>4 DEF Device_GetPropertyDataSize, kNumCustomProperties
    <3>2. \A room : Device_GetPropertyData(d, p, s, room) = CustomInfoData(room)
      BY <1>4 DEF Device_GetPropertyData, DeviceConstants
    <3>3. QED
      BY <3>1, <3>2
  <2>2. CustomProperties \in Seq(Custom) /\ Len(CustomProperties) = 8
    BY DEF CustomProperties
  <2>3. CustomInfoData(8) = List(8, CustomProperties)
    BY DEF CustomInfoData, kNumCustomProperties
  <2>4. Given(List(8, CustomProperties), 8)
    <3> DEFINE l == CustomProperties
    <3>1. l \in Seq(Custom) /\ Len(l) = 8
      BY <2>2
    <3> HIDE DEF l
    <3>2. Given(List(Len(l), l), Len(l))
      BY <3>1, ListGiven
    <3>3. QED
      BY <3>1, <3>2 DEF l
  <2>5. Given(got, size)
    BY <2>1, <2>3, <2>4, Zenon
  <2>6. QED
    BY <1>4, <2>5 DEF Given
<1>5. CASE p \in {"PreferredChannelsForStereo", "PreferredChannelLayout"}
  <2>1. size = 2 /\ got = PreferredData(p, 2)
    <3>1. size = 2
      BY <1>5 DEF Device_GetPropertyDataSize
    <3>2. \A room : Device_GetPropertyData(d, p, s, room) = PreferredData(p, room)
      BY <1>5 DEF Device_GetPropertyData, DeviceConstants
    <3>3. QED
      BY <3>1, <3>2
  <2>2. QED
    BY <1>5, <2>1 DEF PreferredData, Answer, Given
<1>6. CASE p = "AvailableNominalSampleRates"
  <2>1. size = 1 /\ got = List(1, <<p>>)
    <3>1. size = 1
      BY <1>6 DEF Device_GetPropertyDataSize
    <3>2. \A room : Device_GetPropertyData(d, p, s, room) = List(room, <<p>>)
      BY <1>6 DEF Device_GetPropertyData, DeviceConstants
    <3>3. QED
      BY <3>1, <3>2
  <2>2. QED
    BY <1>6, <2>1, OneGiven DEF Given
<1> DEFINE single == {"NominalSampleRate", "DeviceUID", "CanBeDefaultDevice"}
                       \cup DeviceConstants \cup DOMAIN CustomData(d)
<1>7. CASE p \in single
  <2>1. size = 1
    BY <1>7 DEF Device_GetPropertyDataSize, DeviceConstants, Abstract_Size, AbstractProperties,
       AbstractValues, AnsweredBySubclass
  <2>2. \E v : Device_GetPropertyData(d, p, s, 1) = Scalar(1, v)
    BY <1>7 DEF Device_GetPropertyData, DeviceConstants
  <2>3. QED
    BY <1>7, <1>10, <2>1, <2>2, ScalarGiven DEF DeviceConstants
<1>8. CASE p \notin single \cup {"OwnedObjects", "Streams", "ControlList",
                     "CustomPropertyInfoList", "PreferredChannelsForStereo",
                     "PreferredChannelLayout", "AvailableNominalSampleRates"}
  <2>1. Abstract_Has(p) /\ p \notin AnsweredBySubclass \cup {"Streams", "ControlList"}
    BY <1>8 DEF Device_HasProperty, ScopedProperties, DeviceConstants, Abstract_Has,
       AbstractProperties, AbstractValues, AnsweredBySubclass
  <2>2. p \notin {"Icon"} \cup Custom
    BY <1>8 DEF DeviceConstants
  <2>3. size = Abstract_Size(p)
    BY <1>8, <2>2 DEF Device_GetPropertyDataSize
  <2>4. \A room : Device_GetPropertyData(d, p, s, room) = Abstract_Get(d, p, room)
    BY <1>8 DEF Device_GetPropertyData, DeviceConstants
  <2>5. QED
    BY <1>8, <2>1, <2>3, <2>4, AbstractGiven DEF Given
<1>9. QED
  BY <1>1, <1>2, <1>3, <1>4, <1>5, <1>6, <1>7, <1>8

(* Every property that an object says it has it answers, in the size it     *)
(* announced or, of the two lists, with one item fewer.                     *)
LEMMA AllServed ==
  ASSUME NEW o \in Objects, NEW p, NEW s \in Scopes, BGM_HasProperty(o, p, s)
  PROVE  Served(o, p, s)
<1> DEFINE room == BGM_GetPropertyDataSize(o, p, s)
           got == BGM_GetPropertyData(o, p, s, room)
<1>1. /\ HasProperty(o, p, s) /\ LookUpOwnerObject(o)
      /\ room = SizeOf(o, p, s)
  BY DEF BGM_HasProperty, BGM_GetPropertyDataSize
<1>2. got = DataOf(o, p, s, room)
  BY <1>1 DEF BGM_GetPropertyData
<1>3. SUFFICES /\ CutShort(o, p, s) => Given(got, room - 1)
               /\ ~CutShort(o, p, s) => Given(got, room)
  BY DEF Served, Given
<1>4. CASE o = "PlugIn"
  <2>1. PlugIn_Has(p) /\ room = PlugIn_Size(p) /\ got = PlugIn_Get(p, room)
    BY <1>1, <1>2, <1>4 DEF HasProperty, SizeOf, DataOf, Instances, Streams, Volumes
  <2>2. QED
    BY <1>4, <2>1, PlugInGiven DEF CutShort, Instances
<1>5. CASE o = "Null"
  <2>1. Null_Has(p) /\ room = Null_Size(p) /\ got = Null_Get(p, s, room)
    BY <1>1, <1>2, <1>5 DEF HasProperty, SizeOf, DataOf, Instances, Streams, Volumes
  <2>2. QED
    BY <1>5, <2>1, NullGiven DEF CutShort, Instances
<1>6. CASE o \in Streams
  <2>1. Stream_Has(p) /\ room = Stream_Size(p) /\ got = Stream_Get(o, p, room)
    BY <1>1, <1>2, <1>6 DEF HasProperty, SizeOf, DataOf, Instances, Streams, Volumes
  <2>2. QED
    BY <1>6, <2>1, StreamGiven DEF CutShort, Instances, Streams
<1>7. CASE o \in Volumes
  <2>1. Volume_Has(p) /\ room = Volume_Size(p) /\ got = Volume_Get(o, p, room)
    BY <1>1, <1>2, <1>7 DEF HasProperty, SizeOf, DataOf, Instances, Streams, Volumes
  <2>2. QED
    BY <1>7, <2>1, VolumeGiven DEF CutShort, Instances, Volumes
<1>8. CASE o = "Mute"
  <2>1. Mute_Has(p) /\ room = Mute_Size(p) /\ got = Mute_Get(o, p, room)
    BY <1>1, <1>2, <1>8 DEF HasProperty, SizeOf, DataOf, Instances, Streams, Volumes
  <2>2. QED
    BY <1>8, <2>1, MuteGiven DEF CutShort, Instances
<1>9. CASE o \in Instances
  <2>1. /\ Device_HasProperty(p, s) /\ room = Device_GetPropertyDataSize(o, p, s)
        /\ got = Device_GetPropertyData(o, p, s, room)
    BY <1>1, <1>2, <1>9 DEF HasProperty, SizeOf, DataOf, Instances, Streams, Volumes
  <2>2. QED
    BY <1>9, <2>1, InstanceGiven DEF CutShort, Instances
<1>10. QED
  BY <1>4, <1>5, <1>6, <1>7, <1>8, <1>9, AllObjects DEF Instances, Streams, Volumes

-----------------------------------------------------------------------------
(* The lists name what there is.                                            *)

Distinct(s) == \A i, j \in DOMAIN s : s[i] = s[j] => i = j

(* Two lists that have nothing in common.                                   *)
LEMMA JoinedDistinct ==
  ASSUME NEW S, NEW s \in Seq(S), NEW t \in Seq(S), Distinct(s), Distinct(t),
         Items(s) \cap Items(t) = {}
  PROVE  Distinct(s \o t)
<1> DEFINE m == Len(s)
           n == Len(t)
           l == s \o t
<1>1. /\ m \in Nat /\ n \in Nat /\ DOMAIN s = 1 .. m /\ DOMAIN t = 1 .. n
      /\ DOMAIN l = 1 .. m + n
      /\ \A i \in 1 .. m + n : l[i] = IF i <= m THEN s[i] ELSE t[i - m]
  BY ConcatProperties
<1> HIDE DEF m, n, l
<1> SUFFICES ASSUME NEW i \in 1 .. m + n, NEW j \in 1 .. m + n, l[i] = l[j]
             PROVE  i = j
  BY <1>1 DEF Distinct, l
<1>2. ASSUME NEW k \in 1 .. m + n
      PROVE  /\ k <= m => k \in DOMAIN s /\ l[k] = s[k] /\ l[k] \in Items(s)
             /\ ~(k <= m) => k - m \in DOMAIN t /\ l[k] = t[k - m] /\ l[k] \in Items(t)
  <2>1. k <= m => k \in 1 .. m
    BY <1>1
  <2>2. ~(k <= m) => k - m \in 1 .. n
    BY <1>1
  <2>3. QED
    BY <1>1, <2>1, <2>2 DEF Items
<1>3. (i <= m) <=> (j <= m)
  BY <1>2
<1>4. CASE i <= m
  BY <1>2, <1>3, <1>4 DEF Distinct
<1>5. CASE ~(i <= m)
  <2>1. i - m = j - m
    BY <1>2, <1>3, <1>5 DEF Distinct
  <2>2. QED
    BY <1>1, <2>1
<1>6. QED
  BY <1>4, <1>5

(* The beginning of a list.                                                 *)
LEMMA CutItems ==
  ASSUME NEW S, NEW s \in Seq(S), NEW n \in 0 .. Len(s)
  PROVE  /\ Items(SubSeq(s, 1, n)) \subseteq Items(s)
         /\ Distinct(s) => Distinct(SubSeq(s, 1, n))
<1> DEFINE l == SubSeq(s, 1, n)
<1>1. Len(s) \in Nat /\ DOMAIN s = 1 .. Len(s)
  OBVIOUS
<1>2. DOMAIN l = 1 .. n /\ \A i \in 1 .. n : l[i] = s[i] /\ i \in DOMAIN s
  OBVIOUS
<1> HIDE DEF l
<1>3. QED
  BY <1>1, <1>2 DEF Items, Distinct, l

(* Short lists.                                                             *)
LEMMA ShortDistinct ==
  /\ Distinct(<<>>) /\ \A x : Distinct(<<x>>)
  /\ \A x, y : x # y => Distinct(<<x, y>>)
<1>1. Distinct(<<>>)
  <2>1. DOMAIN <<>> = {}
    OBVIOUS
  <2>2. QED
    BY <2>1 DEF Distinct
<1>2. ASSUME NEW x PROVE Distinct(<<x>>)
  <2>1. DOMAIN <<x>> = {1}
    OBVIOUS
  <2>2. QED
    BY <2>1 DEF Distinct
<1>3. ASSUME NEW x, NEW y, x # y PROVE Distinct(<<x, y>>)
  <2>1. DOMAIN <<x, y>> = {1, 2} /\ <<x, y>>[1] = x /\ <<x, y>>[2] = y
    OBVIOUS
  <2>2. QED
    BY <1>3, <2>1 DEF Distinct
<1>4. QED
  BY <1>1, <1>2, <1>3

(* A list of an object that may be active.                                  *)
LEMMA IfActiveItems ==
  ASSUME NEW o
  PROVE  /\ Items(IfActive(o)) = {o} \cap active /\ Distinct(IfActive(o))
         /\ \A S : o \in S => IfActive(o) \in Seq(S)
<1>1. Items(<<>>) = {} /\ Items(<<o>>) = {o}
  BY ItemsOfOne DEF OneIf
<1>2. \A S : o \in S => <<o>> \in Seq(S) /\ <<>> \in Seq(S)
  OBVIOUS
<1>3. CASE o \in active
  BY <1>1, <1>2, <1>3, ShortDistinct DEF IfActive
<1>4. CASE o \notin active
  BY <1>1, <1>2, <1>4, ShortDistinct DEF IfActive
<1>5. QED
  BY <1>3, <1>4

(* The plug-in names the devices that are active.                           *)
LEMMA DeviceNamesTidy ==
  /\ Items(DeviceNames) = Instances \cup ({"Null"} \cap active)
  /\ Distinct(DeviceNames)
<1> DEFINE pair == <<"Device", "UI">>
           one == IfActive("Null")
           S == {"Device", "UI", "Null"}
<1>1. /\ pair \in Seq(S) /\ Items(pair) = Instances
  BY ItemsOfTwo DEF Instances
<1>2. Distinct(pair)
  BY ShortDistinct
<1>3. one \in Seq(S) /\ Items(one) = {"Null"} \cap active /\ Distinct(one)
  BY IfActiveItems
<1>4. Items(pair) \cap Items(one) = {}
  BY <1>1, <1>3 DEF Instances
<1>5. DeviceNames = pair \o one
  BY DEF DeviceNames
<1> HIDE DEF pair, one, S
<1>6. QED
  BY <1>1, <1>2, <1>3, <1>4, <1>5, JoinedItems, JoinedDistinct

(* An instance names its controls that are active.                          *)
LEMMA ControlsTidy ==
  ASSUME NEW d \in Instances
  PROVE  /\ Items(Controls(d)) = {VolumeControl[d], MuteControl[d]} \cap active
         /\ Distinct(Controls(d))
<1> DEFINE one == IfActive(VolumeControl[d])
           two == IfActive(MuteControl[d])
           S == {VolumeControl[d], MuteControl[d]}
<1>1. one \in Seq(S) /\ Items(one) = {VolumeControl[d]} \cap active /\ Distinct(one)
  BY IfActiveItems
<1>2. two \in Seq(S) /\ Items(two) = {MuteControl[d]} \cap active /\ Distinct(two)
  BY IfActiveItems
<1>3. VolumeControl[d] # MuteControl[d]
  BY DEF Instances, VolumeControl, MuteControl
<1>4. Controls(d) = one \o two
  BY DEF Controls
<1> HIDE DEF one, two
<1>5. QED
  BY <1>1, <1>2, <1>3, <1>4, JoinedItems, JoinedDistinct

(* Before them its streams.                                                 *)
LEMMA OwnedTidy ==
  ASSUME NEW d \in Instances,
         NEW streams \in {<<InputStream[d], OutputStream[d]>>, <<OutputStream[d]>>}
  PROVE  /\ streams \o Controls(d) \in Seq(Objects \cup {"Unknown"})
         /\ Items(streams \o Controls(d)) \subseteq
              {InputStream[d], OutputStream[d]} \cup ({VolumeControl[d], MuteControl[d]} \cap active)
         /\ Distinct(streams \o Controls(d))
         /\ Len(streams \o Controls(d)) = Len(streams) + Len(Controls(d))
<1> DEFINE S == Objects \cup {"Unknown"}
           some == Controls(d)
<1>1. /\ InputStream[d] \in S /\ OutputStream[d] \in S /\ InputStream[d] # OutputStream[d]
      /\ {InputStream[d], OutputStream[d]} \cap {VolumeControl[d], MuteControl[d]} = {}
  BY AllObjects DEF InputStream, OutputStream, VolumeControl, MuteControl, Instances
<1>2. /\ some \in Seq(S) /\ Items(some) = {VolumeControl[d], MuteControl[d]} \cap active
      /\ Distinct(some)
  BY ControlsCounted, ControlsTidy
<1>3. /\ streams \in Seq(S) /\ Distinct(streams)
      /\ Items(streams) \subseteq {InputStream[d], OutputStream[d]}
  <2>1. CASE streams = <<InputStream[d], OutputStream[d]>>
    <3>1. <<InputStream[d], OutputStream[d]>> \in Seq(S)
      BY <1>1
    <3>2. Distinct(<<InputStream[d], OutputStream[d]>>)
      BY <1>1, ShortDistinct
    <3>3. Items(<<InputStream[d], OutputStream[d]>>) = {InputStream[d], OutputStream[d]}
      BY ItemsOfTwo
    <3>4. QED
      BY <2>1, <3>1, <3>2, <3>3
  <2>2. CASE streams = <<OutputStream[d]>>
    <3>1. <<OutputStream[d]>> \in Seq(S)
      BY <1>1
    <3>2. Items(<<OutputStream[d]>>) = {OutputStream[d]}
      BY ItemsOfOne DEF OneIf
    <3>3. QED
      BY <2>2, <3>1, <3>2, ShortDistinct
  <2>3. QED
    BY <2>1, <2>2
<1> HIDE DEF S, some
<1>4. /\ streams \o some \in Seq(S) /\ Len(streams \o some) = Len(streams) + Len(some)
  BY <1>2, <1>3, Joined, Zenon
<1>5. Items(streams \o some) = Items(streams) \cup Items(some) /\ Distinct(streams \o some)
  <2>1. streams \in Seq(S) /\ some \in Seq(S) /\ Distinct(streams) /\ Distinct(some)
    BY <1>2, <1>3
  <2>2. Items(streams) \cap Items(some) = {}
    BY <1>1, <1>2, <1>3
  <2>3. Items(streams \o some) = Items(streams) \cup Items(some)
    BY <2>1, JoinedItems
  <2>4. Distinct(streams \o some)
    BY <2>1, <2>2, JoinedDistinct
  <2>5. QED
    BY <2>3, <2>4
<1>6. QED
  BY <1>2, <1>3, <1>4, <1>5 DEF S, some

(* The owners.                                                              *)
LEMMA Owners ==
  /\ \A d \in Instances \cup {"Null"} : OwnerOf(d) = "PlugIn"
  /\ OwnerOf("NullOut") = "Null"
  /\ \A d \in Instances : \A o \in SubObjects(d) : OwnerOf(o) = d
<1>1. (\A d \in Instances \cup {"Null"} : OwnerOf(d) = "PlugIn") /\ OwnerOf("NullOut") = "Null"
  BY DEF OwnerOf, Devices, Instances
<1>2. ASSUME NEW d \in Instances, NEW o \in SubObjects(d) PROVE OwnerOf(o) = d
  <2>1. SubObjects("Device") = {"In", "Out", "Volume", "Mute"}
    BY DEF SubObjects, InputStream, OutputStream, VolumeControl, MuteControl
  <2>2. SubObjects("UI") = {"UIIn", "UIOut", "UIVolume"}
    BY DEF SubObjects, InputStream, OutputStream, VolumeControl, MuteControl
  <2>3. OwnerOf(o) = CHOOSE e \in Instances : o \in SubObjects(e)
    BY <2>1, <2>2 DEF OwnerOf, Devices, Instances
  <2>4. \A e \in Instances : o \in SubObjects(e) => e = d
    BY <2>1, <2>2 DEF Instances
  <2>5. QED
    BY <2>3, <2>4
<1>3. QED
  BY <1>1, <1>2

\* What a list of objects of o must be.
WellNamed(o, s) ==
  /\ Distinct(s) /\ ("Unknown" \in Items(s) => o = "UI")
  /\ \A x \in Items(s) \ {"Unknown"} : (x \in active \/ x \in Streams) /\ OwnerOf(x) = o
(* Then the list is named as the property says.                             *)
LEMMA NamedIf ==
  ASSUME NEW o, NEW p, NEW s,
         WellNamed(o, BGM_GetPropertyData(o, p, s, BGM_GetPropertyDataSize(o, p, s)).data)
  PROVE  Named(o, p, s)
BY DEF Named, WellNamed, Distinct, Items

(* An empty list, and the first items of a good one.                        *)
LEMMA WellCut ==
  /\ \A o : WellNamed(o, <<>>)
  /\ \A o, S : \A s \in Seq(S) : \A n \in 0 .. Len(s) :
       WellNamed(o, s) => WellNamed(o, SubSeq(s, 1, n))
<1>1. Items(<<>>) = {}
  BY ItemsOfOne DEF OneIf
<1>2. ASSUME NEW o, NEW S, NEW s \in Seq(S), NEW n \in 0 .. Len(s), WellNamed(o, s)
      PROVE  WellNamed(o, SubSeq(s, 1, n))
  BY <1>2, CutItems DEF WellNamed
<1>3. QED
  BY <1>1, <1>2, ShortDistinct DEF WellNamed

(* A list is given from its beginning.                                      *)
LEMMA WellGiven ==
  ASSUME NEW o, NEW S, NEW s \in Seq(S), NEW room \in Nat, WellNamed(o, s)
  PROVE  WellNamed(o, List(room, s).data)
<1>1. (IF room < Len(s) THEN room ELSE Len(s)) \in 0 .. Len(s)
  OBVIOUS
<1>2. QED
  BY <1>1, WellCut DEF List, Answer

(* The lists of an instance name what it owns.                              *)
LEMMA InstanceNamed ==
  ASSUME NEW d \in Instances, NEW p \in {"OwnedObjects", "Streams", "ControlList"},
         NEW s \in Scopes
  PROVE  WellNamed(d, Device_GetPropertyData(d, p, s, Device_GetPropertyDataSize(d, p, s)).data)
<1> DEFINE size == Device_GetPropertyDataSize(d, p, s)
           got == Device_GetPropertyData(d, p, s, size)
           own == {InputStream[d], OutputStream[d], VolumeControl[d], MuteControl[d]}
<1>1. /\ own \ {"Unknown"} = SubObjects(d)
      /\ "Unknown" \in own => d = "UI"
      /\ {InputStream[d], OutputStream[d]} \subseteq Streams
  BY DEF SubObjects, Instances, InputStream, OutputStream, VolumeControl, MuteControl, Streams
<1>2. DOMAIN CustomData(d) = {"AppVolumes", "MusicPlayerProcessID", "MusicPlayerBundleID",
                              "EnabledOutputControls", "DebugLogging", "AppEQ"}
  BY AllCustom
<1>8. Custom = {"AppVolumes", "MusicPlayerProcessID", "MusicPlayerBundleID",
                "IsRunningElsewhere", "AudibleState", "EnabledOutputControls",
                "DebugLogging", "AppEQ"}
  BY AllCustom
<1>3. ASSUME NEW l, Distinct(l),
             Items(l) \subseteq {InputStream[d], OutputStream[d]}
                                  \cup ({VolumeControl[d], MuteControl[d]} \cap active)
      PROVE  WellNamed(d, l)
  BY <1>1, <1>3, Owners DEF WellNamed
<1>4. CASE p = "OwnedObjects"
  <2>1. size = OwnedObjectsSize(d, s)
    BY <1>4, <1>8 DEF Device_GetPropertyDataSize
  <2>2. got = OwnedObjectsData(d, s, size)
    BY <1>2, <1>4 DEF Device_GetPropertyData, DeviceConstants
  <2>3. CASE s = "Global"
    <3> DEFINE l == <<InputStream[d], OutputStream[d]>> \o Controls(d)
    <3>1. size \in Nat /\ got = List(size, l)
      BY <2>1, <2>2, <2>3, ControlsCounted
         DEF OwnedObjectsSize, OwnedObjectsData, GetNumberOfSubObjects, GetNumberOfOutputSubObjects
    <3>2. l \in Seq(Objects \cup {"Unknown"}) /\ WellNamed(d, l)
      BY <1>3, OwnedTidy
    <3> HIDE DEF l, size, got
    <3>3. QED
      BY <3>1, <3>2, WellGiven DEF size, got
  <2>4. CASE s = "Input"
    <3>1. size = 1 /\ got = List(1, <<InputStream[d]>>)
      BY <2>1, <2>2, <2>4 DEF OwnedObjectsSize, OwnedObjectsData
    <3>2. Items(<<InputStream[d]>>) = {InputStream[d]} /\ Distinct(<<InputStream[d]>>)
      BY ItemsOfOne, ShortDistinct DEF OneIf
    <3>3. WellNamed(d, <<InputStream[d]>>) /\ <<InputStream[d]>> \in Seq(Streams)
      BY <1>1, <1>3, <3>2
    <3>4. QED
      BY <3>1, <3>3, WellGiven
  <2>5. CASE s = "Output"
    <3> DEFINE l == <<OutputStream[d]>> \o Controls(d)
               controls == GetNumberOfOutputControls(d)
               cut == IF size < controls THEN size ELSE controls
    <3>1. size \in Nat /\ cut \in Nat /\ got = List(cut, l)
      BY <2>1, <2>2, <2>5, ControlsCounted DEF OwnedObjectsSize, OwnedObjectsData
    <3>2. l \in Seq(Objects \cup {"Unknown"}) /\ WellNamed(d, l)
      BY <1>3, OwnedTidy
    <3> HIDE DEF l, cut, size, got
    <3>3. QED
      BY <3>1, <3>2, WellGiven DEF size, got
  <2>6. QED
    BY <2>3, <2>4, <2>5 DEF Scopes
<1>5. CASE p = "Streams"
  <2>1. size \in Nat
    BY <1>5, <1>8 DEF Device_GetPropertyDataSize
  <2>2. got = StreamsData(d, s, size)
    BY <1>2, <1>5 DEF Device_GetPropertyData, DeviceConstants
  <2>3. \E l \in {<<InputStream[d], OutputStream[d]>>, <<InputStream[d]>>, <<OutputStream[d]>>} :
          got = List(size, l)
    BY <2>2 DEF StreamsData, Scopes
  <2>4. ASSUME NEW l \in {<<InputStream[d], OutputStream[d]>>, <<InputStream[d]>>,
                          <<OutputStream[d]>>}
        PROVE  WellNamed(d, l) /\ l \in Seq(Streams)
    <3>1. InputStream[d] # OutputStream[d]
      BY DEF InputStream, OutputStream, Instances
    <3>2. /\ Items(<<InputStream[d]>>) = {InputStream[d]}
          /\ Items(<<OutputStream[d]>>) = {OutputStream[d]}
      BY ItemsOfOne DEF OneIf
    <3>3. /\ <<InputStream[d], OutputStream[d]>> \in Seq(Streams)
          /\ <<InputStream[d]>> \in Seq(Streams) /\ <<OutputStream[d]>> \in Seq(Streams)
      BY <1>1
    <3>4. QED
      BY <1>3, <3>1, <3>2, <3>3, ItemsOfTwo, ShortDistinct
  <2>5. QED
    BY <2>1, <2>3, <2>4, WellGiven
<1>6. CASE p = "ControlList"
  <2>1. size = GetNumberOfOutputControls(d)
    BY <1>6, <1>8 DEF Device_GetPropertyDataSize
  <2>2. got = List(size, Controls(d))
    BY <1>2, <1>6 DEF Device_GetPropertyData, DeviceConstants
  <2>3. WellNamed(d, Controls(d))
    BY <1>3, ControlsTidy
  <2>4. QED
    BY <2>1, <2>2, <2>3, ControlsCounted, WellGiven
<1>7. QED
  BY <1>4, <1>5, <1>6

(* So do all the lists of active objects.                                   *)
LEMMA AllNamed ==
  ASSUME NEW o \in Objects, Instances \subseteq active,
         NEW p \in ObjectLists, NEW s \in Scopes, BGM_HasProperty(o, p, s)
  PROVE  Named(o, p, s)
<1> DEFINE room == BGM_GetPropertyDataSize(o, p, s)
           got == BGM_GetPropertyData(o, p, s, room)
<1>1. /\ HasProperty(o, p, s) /\ LookUpOwnerObject(o)
      /\ room = SizeOf(o, p, s)
  BY DEF BGM_HasProperty, BGM_GetPropertyDataSize
<1>2. got = DataOf(o, p, s, room)
  BY <1>1 DEF BGM_GetPropertyData
<1> SUFFICES WellNamed(o, got.data)
  BY NamedIf
<1>4. CASE o = "PlugIn"
  <2>1. PlugIn_Has(p) /\ room = PlugIn_Size(p) /\ got = PlugIn_Get(p, room)
    BY <1>1, <1>2, <1>4 DEF HasProperty, SizeOf, DataOf, Instances, Streams, Volumes
  <2>2. p \in {"OwnedObjects", "DeviceList"}
    BY <2>1 DEF ObjectLists, PlugIn_Has, PlugInProperties, Object_Has, ObjectProperties
  <2>3. room = Len(DeviceNames) /\ room \in Nat
    BY <2>1, <2>2, DevicesNamed DEF PlugIn_Size, PlugInProperties
  <2>4. got = List(room, DeviceNames)
    BY <2>1, <2>2 DEF PlugIn_Get, DeviceList, DeviceNames
  <2>5. WellNamed(o, DeviceNames)
    BY <1>4, DeviceNamesTidy, Owners DEF WellNamed, Instances
  <2>6. QED
    BY <2>3, <2>4, <2>5, DevicesNamed, WellGiven
<1>5. CASE o = "Null"
  <2>1. Null_Has(p) /\ room = Null_Size(p) /\ got = Null_Get(p, s, room)
    BY <1>1, <1>2, <1>5 DEF HasProperty, SizeOf, DataOf, Instances, Streams, Volumes
  <2>2. p \in {"OwnedObjects", "Streams", "ControlList"}
    BY <2>1 DEF ObjectLists, Null_Has, Abstract_Has, AbstractProperties, AbstractLists,
       AbstractValues, AnsweredBySubclass, Object_Has, ObjectProperties
  <2>3. CASE p \in {"OwnedObjects", "ControlList"}
    <3>1. got = Abstract_Get("Null", p, room)
      BY <2>1, <2>3 DEF Null_Get, NullConstants
    <3>3. ASSUME p = "ControlList" PROVE got.data = <<>>
      <4>1. got = Answer(<<>>)
        BY <3>1, <3>3 DEF Abstract_Get, AnsweredBySubclass
      <4>2. QED
        BY <4>1 DEF Answer
    <3>4. ASSUME p = "OwnedObjects" PROVE got.data = <<>>
      <4>1. got = Object_Get("Null", p, room)
        BY <3>1, <3>4 DEF Abstract_Get, AnsweredBySubclass
      <4>2. QED
        BY <3>4, <4>1 DEF Object_Get, Answer
    <3>5. got.data = <<>>
      BY <2>3, <3>3, <3>4 DEF Answer
    <3>2. QED
      BY <3>5, WellCut
  <2>4. CASE p = "Streams"
    <3>1. room = 1 /\ \E l \in {<<>>, <<"NullOut">>} : got = List(1, l)
      BY <2>1, <2>4 DEF Null_Size, Null_Get, NullConstants
    <3>2. Items(<<"NullOut">>) = {"NullOut"} /\ Distinct(<<"NullOut">>)
      BY ItemsOfOne, ShortDistinct DEF OneIf
    <3>3. WellNamed("Null", <<"NullOut">>) /\ WellNamed("Null", <<>>)
      BY <3>2, WellCut, Owners DEF WellNamed, Streams
    <3>4. <<"NullOut">> \in Seq({"NullOut"}) /\ <<>> \in Seq({"NullOut"})
      OBVIOUS
    <3>5. QED
      BY <1>5, <3>1, <3>3, <3>4, WellGiven
  <2>5. QED
    BY <2>2, <2>3, <2>4
<1>6. CASE o \in Streams \cup Volumes \cup {"Mute"}
  <2>1. p = "OwnedObjects"
    BY <1>1, <1>6 DEF HasProperty, Stream_Has, Volume_Has, Mute_Has, Control_Has, Object_Has,
       ObjectLists, StreamProperties, StreamSettable, StreamLists, VolumeProperties,
       VolumeSettable, ControlProperties, ObjectProperties, Instances, Streams, Volumes
  <2>2. got = Object_Get(o, p, room)
    <3>1. CASE o \in Streams
      BY <1>2, <2>1, <3>1 DEF DataOf, Stream_Get, StreamLists, Instances, Streams, Volumes
    <3>2. CASE o \in Volumes
      BY <1>2, <2>1, <3>2 DEF DataOf, Volume_Get, Control_Get, ControlProperties, Instances,
         Streams, Volumes
    <3>3. CASE o = "Mute"
      BY <1>2, <2>1, <3>3 DEF DataOf, Mute_Get, Control_Get, ControlProperties, Instances,
         Streams, Volumes
    <3>4. QED
      BY <1>6, <3>1, <3>2, <3>3
  <2>3. got.data = <<>>
    BY <2>1, <2>2 DEF Object_Get, Answer
  <2>4. QED
    BY <2>3, WellCut
<1>7. CASE o \in Instances
  <2>1. /\ Device_HasProperty(p, s) /\ room = Device_GetPropertyDataSize(o, p, s)
        /\ got = Device_GetPropertyData(o, p, s, room)
    BY <1>1, <1>2, <1>7 DEF HasProperty, SizeOf, DataOf, Instances, Streams, Volumes
  <2>2. p # "DeviceList"
    BY <2>1, AllCustom DEF Device_HasProperty, ScopedProperties, Abstract_Has,
       AbstractProperties, AbstractLists, AbstractValues, AnsweredBySubclass, Object_Has,
       ObjectProperties
  <2>3. QED
    BY <1>7, <2>1, <2>2, InstanceNamed DEF ObjectLists
<1>8. QED
  BY <1>4, <1>5, <1>6, <1>7, AllObjects DEF Instances, Streams, Volumes

(* The list of custom properties is whole.                                  *)
LEMMA AllDiscoverable ==
  ASSUME NEW d \in Instances
  PROVE  Discoverable(d)
<1> DEFINE room == BGM_GetPropertyDataSize(d, "CustomPropertyInfoList", "Global")
<1>7. Custom = {"AppVolumes", "MusicPlayerProcessID", "MusicPlayerBundleID",
                "IsRunningElsewhere", "AudibleState", "EnabledOutputControls",
                "DebugLogging", "AppEQ"}
  BY AllCustom
<1>8. d # "PlugIn" /\ d \in Objects
  BY AllObjects DEF Instances
<1>1. BGM_HasProperty(d, "CustomPropertyInfoList", "Global")
  <2>1. Device_HasProperty("CustomPropertyInfoList", "Global")
    BY DEF Device_HasProperty, ScopedProperties
  <2>2. HasProperty(d, "CustomPropertyInfoList", "Global")
    BY <2>1 DEF HasProperty, Instances, Streams, Volumes
  <2>3. QED
    BY <1>8, <2>2 DEF BGM_HasProperty, LookUpOwnerObject
<1>2. room = 8
  <2>1. room = Device_GetPropertyDataSize(d, "CustomPropertyInfoList", "Global")
    BY <1>1 DEF BGM_GetPropertyDataSize, SizeOf, Instances, Streams, Volumes
  <2>2. QED
    BY <1>7, <2>1 DEF Device_GetPropertyDataSize, kNumCustomProperties
<1>3. DOMAIN CustomData(d) = {"AppVolumes", "MusicPlayerProcessID", "MusicPlayerBundleID",
                              "EnabledOutputControls", "DebugLogging", "AppEQ"}
  BY AllCustom
<1>4. BGM_GetPropertyData(d, "CustomPropertyInfoList", "Global", 8) = CustomInfoData(8)
  <2>1. DataOf(d, "CustomPropertyInfoList", "Global", 8)
          = Device_GetPropertyData(d, "CustomPropertyInfoList", "Global", 8)
    BY DEF DataOf, Instances, Streams, Volumes
  <2>2. Device_GetPropertyData(d, "CustomPropertyInfoList", "Global", 8) = CustomInfoData(8)
    BY <1>3 DEF Device_GetPropertyData, DeviceConstants
  <2>3. QED
    BY <1>1, <2>1, <2>2 DEF BGM_GetPropertyData, BGM_HasProperty
<1>5. CustomProperties \in Seq(Custom) /\ Len(CustomProperties) = 8
  BY <1>7 DEF CustomProperties
<1>6. CustomInfoData(8).data = CustomProperties
  <2>1. CustomInfoData(8) = List(8, CustomProperties)
    BY DEF CustomInfoData, kNumCustomProperties
  <2>2. List(Len(CustomProperties), CustomProperties) = Answer(CustomProperties)
    BY <1>5, WholeList
  <2>3. CustomInfoData(8) = Answer(CustomProperties)
    BY <1>5, <2>1, <2>2, Zenon
  <2>4. QED
    BY <2>3 DEF Answer
<1>9. QED
  BY <1>2, <1>4, <1>6 DEF Discoverable, Custom

\* PropertiesServed, but for the arithmetic of the volume curves.
ObjectsServed ==
  /\ \A o \in Objects \cap (active \cup Streams), p \in Properties, s \in Scopes :
       BGM_HasProperty(o, p, s) => Served(o, p, s)
  /\ \A o \in Objects \cap active, p \in ObjectLists, s \in Scopes :
       BGM_HasProperty(o, p, s) => Named(o, p, s)
  /\ \A d \in Instances \cap active : Discoverable(d)
(* Once the instances are active every property is served.                  *)
LEMMA AllPropertiesServed ==
  ASSUME Instances \subseteq active
  PROVE  ObjectsServed /\ (VolumesConvert => PropertiesServed)
<1>1. ObjectsServed
  BY AllServed, AllNamed, AllDiscoverable DEF ObjectsServed
<1>2. QED
  BY <1>1 DEF ObjectsServed, PropertiesServed

-----------------------------------------------------------------------------
(* The library's calls.                                                     *)

\* What coreaudiod asks the driver for as it is.
Passed(p) == p \notin HALsOwn \cup DOMAIN TranslatedTo

(* The properties that are translated are not coreaudiod's own.             *)
LEMMA Translations ==
  /\ DOMAIN TranslatedTo = {"VolumeScalar", "VolumeDecibels", "VolumeDecibelsToScalar",
                            "VolumeScalarToDecibels", "Mute"}
  /\ HALsOwn \cap DOMAIN TranslatedTo = {}
BY DEF TranslatedTo, HALsOwn

(* The control that a volume or mute is translated to answers it.           *)
LEMMA ControlAnswered ==
  ASSUME NEW d, NEW p \in DOMAIN TranslatedTo, NEW s, NEW controls,
         Controlled(d, p, s, controls)
  PROVE  BGM_GetPropertyData(ControlFor(d, p), TranslatedTo[p], "Global", 1).error = "none"
<1> DEFINE o == ControlFor(d, p)
           q == TranslatedTo[p]
<1>1. d \in Instances /\ o # "Unknown"
  BY DEF Controlled
<1>2. CASE p = "Mute"
  <2>1. o = "Mute" /\ q = "Value"
    BY <1>1, <1>2 DEF ControlFor, MuteControl, Instances, TranslatedTo
  <2>2. BGM_HasProperty("Mute", "Value", "Global")
    BY AllObjects DEF BGM_HasProperty, LookUpOwnerObject, HasProperty, Mute_Has, Instances,
       Streams, Volumes
  <2>3. BGM_GetPropertyDataSize("Mute", "Value", "Global") = 1
    BY <2>2 DEF BGM_GetPropertyDataSize, SizeOf, Mute_Size, Instances, Streams, Volumes
  <2>4. Served("Mute", "Value", "Global")
    BY <2>2, AllServed, AllObjects DEF Scopes
  <2>5. QED
    BY <2>1, <2>3, <2>4 DEF Served
<1>3. CASE p # "Mute"
  <2>1. o \in Volumes /\ q \in VolumeProperties
    BY <1>1, <1>3, Translations
       DEF ControlFor, VolumeControl, Instances, Volumes, TranslatedTo, VolumeProperties,
           VolumeSettable
  <2>2. BGM_HasProperty(o, q, "Global")
    BY <2>1, AllObjects DEF BGM_HasProperty, LookUpOwnerObject, HasProperty, Volume_Has,
       Instances, Streams, Volumes
  <2>3. BGM_GetPropertyDataSize(o, q, "Global") = 1
    BY <2>1, <2>2 DEF BGM_GetPropertyDataSize, SizeOf, Volume_Size, Instances, Streams, Volumes
  <2>4. Served(o, q, "Global")
    BY <2>1, <2>2, AllServed, AllObjects DEF Scopes, Volumes
  <2>5. QED
    BY <2>3, <2>4 DEF Served
<1>4. QED
  BY <1>2, <1>3

(* A property is read without an error exactly if the library finds it.     *)
LEMMA FoundIsRead ==
  ASSUME NEW o \in Objects, NEW p, NEW s \in Scopes, NEW controls
  PROVE  (AudioObjectGetPropertyData(o, p, s, controls).error = "none")
           <=> AudioObjectHasProperty(o, p, s, controls)
<1> DEFINE got == AudioObjectGetPropertyData(o, p, s, controls)
<1>1. CASE p \in HALsOwn
  <2>1. got = Answer(<<p>>) /\ AudioObjectHasProperty(o, p, s, controls)
    BY <1>1, Translations DEF AudioObjectGetPropertyData, AudioObjectHasProperty
  <2>2. QED
    BY <2>1 DEF Answer
<1>2. CASE p \in DOMAIN TranslatedTo
  <2>1. AudioObjectHasProperty(o, p, s, controls) <=> Controlled(o, p, s, controls)
    BY <1>2, Translations DEF AudioObjectHasProperty
  <2>2. CASE Controlled(o, p, s, controls)
    <3>1. got = BGM_GetPropertyData(ControlFor(o, p), TranslatedTo[p], "Global", 1)
      BY <1>2, <2>2, Translations DEF AudioObjectGetPropertyData
    <3>2. QED
      BY <1>2, <2>1, <2>2, <3>1, ControlAnswered
  <2>3. CASE ~Controlled(o, p, s, controls)
    <3>1. got = Error("UnknownProperty")
      BY <1>2, <2>3, Translations DEF AudioObjectGetPropertyData
    <3>2. QED
      BY <2>1, <2>3, <3>1 DEF Error
  <2>4. QED
    BY <2>2, <2>3
<1>3. CASE Passed(p)
  <2>1. AudioObjectHasProperty(o, p, s, controls) <=> BGM_HasProperty(o, p, s)
    BY <1>3 DEF Passed, AudioObjectHasProperty
  <2>2. got = BGM_GetPropertyData(o, p, s, BGM_GetPropertyDataSize(o, p, s))
    BY <1>3 DEF Passed, AudioObjectGetPropertyData
  <2>3. CASE BGM_HasProperty(o, p, s)
    BY <2>1, <2>2, <2>3, AllServed DEF Served
  <2>4. CASE ~BGM_HasProperty(o, p, s)
    <3>1. got = Error("UnknownProperty")
      BY <2>2, <2>4 DEF BGM_GetPropertyData, LookUpOwnerObject
    <3>2. QED
      BY <2>1, <2>4, <3>1 DEF Error
  <2>5. QED
    BY <2>3, <2>4
<1>4. QED
  BY <1>1, <1>2, <1>3 DEF Passed

(* So a call throws exactly if it does not ask for what is not there.       *)
LEMMA ThrowsIf ==
  ASSUME NEW o \in Objects, NEW c, NEW s \in Scopes, NEW controls, c.guarded \in BOOLEAN
  PROVE  Throws(o, c, s, controls)
           <=> ~c.guarded /\ ~AudioObjectHasProperty(o, c.property, s, controls)
<1> DEFINE read == AudioObjectGetPropertyData(o, c.property, s, controls).error = "none"
           found == AudioObjectHasProperty(o, c.property, s, controls)
<1>1. read <=> found
  BY FoundIsRead
<1>2. Throws(o, c, s, controls) <=> (c.guarded => found) /\ ~read
  BY DEF Throws
<1> HIDE DEF read, found
<1>3. QED
  BY <1>1, <1>2 DEF found

\* What every call of the library is, and those of a property that BGMApp
\* asks for without asking first are in the scopes that have it.
CallShape(c) ==
  /\ c.guarded \in BOOLEAN /\ c.scopes \subseteq Scopes
  /\ c.property \in {"CanBeDefaultDevice", "Latency"} => c.scopes \subseteq Sides
(* The calls about some properties in some scopes.                          *)
LEMMA ShapeOf ==
  /\ \A ps, ss : \A c \in Asking(ps, ss) \cup AskingFirst(ps, ss) :
       c.property \in ps /\ c.scopes = ss /\ c.guarded \in BOOLEAN
  /\ Sides \subseteq Scopes /\ {"Global"} \subseteq Scopes
<1>1. ASSUME NEW ps, NEW ss, NEW c \in Asking(ps, ss) \cup AskingFirst(ps, ss)
      PROVE  c.property \in ps /\ c.scopes = ss /\ c.guarded \in BOOLEAN
  <2>1. \E p \in ps, b \in BOOLEAN : c = [property |-> p, scopes |-> ss, guarded |-> b]
    BY DEF Asking, AskingFirst, Call
  <2>2. QED
    BY <2>1
<1>2. QED
  BY <1>1 DEF Sides, Scopes

(* So all calls about devices.                                              *)
LEMMA DeviceCallsShape == \A c \in DeviceCalls : CallShape(c)
<1> USE DEF CallShape
<1>1. \A c \in ObjectCalls : CallShape(c)
  BY ShapeOf DEF ObjectCalls
<1>2. \A c \in IdentityCalls : CallShape(c)
  BY ShapeOf DEF IdentityCalls
<1>3. \A c \in ChannelCalls \cup StreamListCalls : CallShape(c)
  BY ShapeOf DEF ChannelCalls, StreamListCalls
<1>4. \A c \in TimingCalls : CallShape(c)
  BY ShapeOf DEF TimingCalls
<1>5. \A c \in IOCalls \cup VolumeCalls : CallShape(c)
  BY ShapeOf DEF IOCalls, VolumeCalls
<1>6. \A c \in SubVolumeCalls \cup SwitchCalls : CallShape(c)
  BY ShapeOf DEF SubVolumeCalls, SwitchCalls
<1>7. \A c \in SelectorCalls \cup ClockSourceCalls : CallShape(c)
  BY ShapeOf DEF SelectorCalls, ClockSourceCalls
<1>8. QED
  BY <1>1, <1>2, <1>3, <1>4, <1>5, <1>6, <1>7 DEF DeviceCalls

(* Every device has what BGMApp asks of it.                                 *)
LEMMA AppAsksFound ==
  ASSUME NEW d \in Devices, NEW p \in AppAsks, NEW s \in Scopes, NEW controls,
         p \in {"CanBeDefaultDevice", "Latency"} => s \in Sides
  PROVE  AudioObjectHasProperty(d, p, s, controls)
<1>1. CASE p \in HALsOwn
  BY <1>1, Translations DEF AudioObjectHasProperty
<1>2. CASE p \notin HALsOwn
  <2>1. p \notin DOMAIN TranslatedTo
    BY Translations DEF AppAsks
  <2>2. AudioObjectHasProperty(d, p, s, controls) = BGM_HasProperty(d, p, s)
    BY <1>2, <2>1 DEF AudioObjectHasProperty
  <2>3. Abstract_Has(p)
    BY <1>2 DEF AppAsks, HALsOwn, Abstract_Has, AbstractProperties, AnsweredBySubclass,
       AbstractLists, AbstractValues
  <2>4. p \in ScopedProperties => p \in {"CanBeDefaultDevice", "Latency"}
    BY DEF AppAsks, ScopedProperties
  <2>5. HasProperty(d, p, s)
    BY <2>3, <2>4 DEF HasProperty, Device_HasProperty, Null_Has, Devices, Instances, Sides,
       Streams, Volumes
  <2>6. QED
    BY <2>2, <2>5, AllObjects DEF BGM_HasProperty, LookUpOwnerObject, Devices
<1>3. QED
  BY <1>1, <1>2

(* An instance has its custom properties.                                   *)
LEMMA CustomFound ==
  ASSUME NEW d \in Instances, NEW p \in Custom, NEW controls
  PROVE  AudioObjectHasProperty(d, p, "Global", controls)
<1>1. Custom = {"AppVolumes", "MusicPlayerProcessID", "MusicPlayerBundleID",
                "IsRunningElsewhere", "AudibleState", "EnabledOutputControls",
                "DebugLogging", "AppEQ"}
  BY AllCustom
<1>2. p \notin HALsOwn /\ p \notin DOMAIN TranslatedTo /\ p \notin ScopedProperties
  BY <1>1, Translations DEF HALsOwn, ScopedProperties
<1>3. HasProperty(d, p, "Global")
  <2>1. Device_HasProperty(p, "Global")
    BY <1>2 DEF Device_HasProperty
  <2>2. QED
    BY <2>1 DEF HasProperty, Instances, Streams, Volumes
<1>4. QED
  BY <1>2, <1>3, AllObjects
     DEF AudioObjectHasProperty, BGM_HasProperty, LookUpOwnerObject, Instances

(* A device's UID is its own.                                               *)
LEMMA UIDs == \A d \in Devices : CopyDeviceUID(d) = d
<1> SUFFICES ASSUME NEW d \in Devices PROVE CopyDeviceUID(d) = d
  OBVIOUS
<1>1. "DeviceUID" \notin HALsOwn /\ "DeviceUID" \notin DOMAIN TranslatedTo
  BY Translations DEF HALsOwn
<1>2. d \in Objects /\ (d \in Instances \/ d = "Null")
  BY AllObjects DEF Devices, Instances
<1>3. Abstract_Has("DeviceUID")
  BY DEF Abstract_Has, AbstractProperties, AnsweredBySubclass
<1>4. BGM_HasProperty(d, "DeviceUID", "Global")
  <2>1. HasProperty(d, "DeviceUID", "Global")
    BY <1>2, <1>3 DEF HasProperty, Device_HasProperty, Null_Has, ScopedProperties, Instances,
       Streams, Volumes
  <2>2. QED
    BY <1>2, <2>1 DEF BGM_HasProperty, LookUpOwnerObject
<1>5. Custom = {"AppVolumes", "MusicPlayerProcessID", "MusicPlayerBundleID",
                "IsRunningElsewhere", "AudibleState", "EnabledOutputControls",
                "DebugLogging", "AppEQ"}
      /\ DOMAIN CustomData(d) = {"AppVolumes", "MusicPlayerProcessID", "MusicPlayerBundleID",
                              "EnabledOutputControls", "DebugLogging", "AppEQ"}
  BY AllCustom
<1>6. Abstract_Size("DeviceUID") = 1
  BY DEF Abstract_Size, AbstractProperties, AnsweredBySubclass
<1>7. BGM_GetPropertyDataSize(d, "DeviceUID", "Global") = 1
  <2>1. CASE d = "Null"
    BY <1>4, <1>6, <2>1
       DEF BGM_GetPropertyDataSize, SizeOf, Null_Size, Instances, Streams, Volumes
  <2>2. CASE d \in Instances
    <3>1. Device_GetPropertyDataSize(d, "DeviceUID", "Global") = 1
      BY <1>5, <1>6 DEF Device_GetPropertyDataSize
    <3>2. QED
      BY <1>4, <2>2, <3>1 DEF BGM_GetPropertyDataSize, SizeOf, Instances, Streams, Volumes
  <2>3. QED
    BY <1>2, <2>1, <2>2
<1>8. DataOf(d, "DeviceUID", "Global", 1) = Scalar(1, d)
  <2>1. CASE d = "Null"
    BY <2>1 DEF DataOf, Null_Get, NullConstants, Instances, Streams, Volumes
  <2>2. CASE d \in Instances
    <3>1. Device_GetPropertyData(d, "DeviceUID", "Global", 1) = Scalar(1, d)
      BY <1>5 DEF Device_GetPropertyData, DeviceConstants
    <3>2. QED
      BY <2>2, <3>1 DEF DataOf, Instances, Streams, Volumes
  <2>3. QED
    BY <1>2, <2>1, <2>2
<1>9. AudioObjectGetPropertyData(d, "DeviceUID", "Global", {}) = Scalar(1, d)
  BY <1>1, <1>2, <1>4, <1>7, <1>8
     DEF AudioObjectGetPropertyData, BGM_GetPropertyData, LookUpOwnerObject
<1>10. Scalar(1, d).data = <<d>>
  BY DEF Scalar, Answer
<1>11. QED
  BY <1>9, <1>10 DEF CopyDeviceUID

(* What BGMApp asks is answered, whatever controls the host knows.          *)
LEMMA AllAsksAnswered ==
  ASSUME NEW d \in Devices, NEW controls
  PROVE  AsksAnswered(d, controls)
<1>1. d \in Objects /\ (d \in Instances \/ d = "Null")
  BY AllObjects DEF Devices, Instances
<1>2. ASSUME NEW c \in AppCalls, NEW s \in c.scopes PROVE ~Throws(d, c, s, controls)
  <2>1. CallShape(c) /\ c.property \in AppAsks
    BY DeviceCallsShape DEF AppCalls
  <2>2. AudioObjectHasProperty(d, c.property, s, controls)
    BY <2>1, AppAsksFound DEF CallShape
  <2>3. QED
    BY <1>1, <2>1, <2>2, ThrowsIf DEF CallShape
<1>3. ASSUME NEW p \in {"VolumeScalar", "Mute"}, HasSettableMain(d, p, controls)
      PROVE  AudioObjectGetPropertyData(d, p, "Output", controls).error = "none"
  BY <1>1, <1>3, FoundIsRead DEF HasSettableMain, Scopes
<1>4. ASSUME d \in Instances, NEW p \in AppReads
      PROVE  ~Throws(d, Call(p, Sides, FALSE), "Global", controls)
  <2>1. p \in Custom
    BY AllCustom DEF AppReads
  <2>2. AudioObjectHasProperty(d, p, "Global", controls)
    BY <1>4, <2>1, CustomFound
  <2> DEFINE c == Call(p, Sides, FALSE)
  <2>3. c.guarded \in BOOLEAN /\ c.property = p
    BY DEF Call
  <2> HIDE DEF c
  <2>4. ~Throws(d, c, "Global", controls)
    BY <1>1, <2>2, <2>3, ThrowsIf DEF Scopes
  <2>5. QED
    BY <2>4 DEF c
<1>5. ASSUME d \in Instances, NEW p \in AppSets
      PROVE  AudioObjectIsPropertySettable(d, p, "Global", controls)
  <2>1. p = "NominalSampleRate" \/ p \in Custom \ {"IsRunningElsewhere", "AudibleState"}
    BY AllCustom DEF AppSets
  <2>2. p \in DeviceSettable
    BY <2>1 DEF DeviceSettable
  <2>3. p \notin HALsOwn /\ p \notin DOMAIN TranslatedTo
    BY Translations DEF AppSets, HALsOwn
  <2>4. BGM_HasProperty(d, p, "Global")
    <3>1. Device_HasProperty(p, "Global")
      BY <2>1 DEF Device_HasProperty, AppSets, ScopedProperties, Abstract_Has,
         AbstractProperties, AnsweredBySubclass
    <3>2. QED
      BY <1>1, <1>5, <3>1
         DEF BGM_HasProperty, LookUpOwnerObject, HasProperty, Instances, Streams, Volumes
  <2>5. IsPropertySettable(d, p)
    BY <1>5, <2>2 DEF IsPropertySettable, Instances, Streams, Volumes
  <2>6. QED
    BY <2>3, <2>4, <2>5 DEF AudioObjectIsPropertySettable, BGM_IsPropertySettable
<1>6. ~CanBeOutputDeviceInBGMApp(d)
  BY <1>1, UIDs DEF CanBeOutputDeviceInBGMApp, IsBGMDeviceInstance
<1>7. d \in active => TranslateUIDToDevice(CopyDeviceUID(d)) = d
  BY <1>1, UIDs DEF TranslateUIDToDevice
<1>8. QED
  BY <1>2, <1>3, <1>4, <1>5, <1>6, <1>7 DEF AsksAnswered

(* So are the library's calls about what there is.                          *)
LEMMA AllCallsAnswered ==
  ASSUME NEW d \in Devices, NEW controls
  PROVE  CallsAnswered(d, controls)
<1>1. d \in Objects
  BY AllObjects DEF Devices
<1>2. ASSUME NEW c \in DeviceCalls, NEW s \in c.scopes
      PROVE  Throws(d, c, s, controls)
               <=> ~c.guarded /\ ~AudioObjectHasProperty(d, c.property, s, controls)
  BY <1>1, DeviceCallsShape, ThrowsIf DEF CallShape
<1>3. ASSUME d \in Instances, NEW x \in {InputStream[d], OutputStream[d]}, NEW c \in StreamCalls
      PROVE  ~Throws(x, c, "Global", controls)
  <2>1. x \in Streams /\ x \in Objects
    BY <1>3, AllObjects DEF InputStream, OutputStream, Instances, Streams
  <2>2. c.guarded \in BOOLEAN /\ c.property \in StreamProperties
    <3>1. {"Direction", "TerminalType", "StartingChannel", "Latency", "VirtualFormat",
           "AvailableVirtualFormats", "PhysicalFormat", "AvailablePhysicalFormats"}
            \subseteq StreamProperties
      BY DEF StreamProperties, StreamSettable, StreamLists
    <3>2. QED
      BY <3>1, ShapeOf DEF StreamCalls
  <2>3. c.property \notin HALsOwn /\ c.property \notin DOMAIN TranslatedTo
    BY <2>2, Translations DEF HALsOwn, StreamProperties, StreamSettable, StreamLists
  <2>4. BGM_HasProperty(x, c.property, "Global")
    <3>1. Stream_Has(c.property)
      BY <2>2 DEF Stream_Has
    <3>2. HasProperty(x, c.property, "Global")
      BY <2>1, <3>1 DEF HasProperty, Streams, Instances, Volumes
    <3>3. QED
      BY <2>1, <3>2 DEF BGM_HasProperty, LookUpOwnerObject
  <2>5. AudioObjectHasProperty(x, c.property, "Global", controls)
    BY <2>3, <2>4 DEF AudioObjectHasProperty
  <2>6. QED
    BY <2>1, <2>2, <2>5, ThrowsIf DEF Scopes
<1>4. QED
  BY <1>2, <1>3 DEF CallsAnswered

-----------------------------------------------------------------------------
(* What the host asks of is there.                                          *)

TheDevices == <<"PlugIn", "DeviceList">>

\* Once the driver is initialised its instances are active, and the host
\* knows of devices only.
Loaded ==
  /\ phase = "ready" => Instances \subseteq active /\ Items(view[TheDevices]) \subseteq Devices
  /\ reading # Nothing /\ reading[1] = TheDevices => reading[2] \in Nat

(* However much room there is, the list of devices names devices.           *)
LEMMA DevicesRead ==
  /\ \A room \in Nat : Items(Read(TheDevices, room)) \subseteq Devices
  /\ Room(TheDevices) \in Nat
<1>1. BGM_HasProperty("PlugIn", "DeviceList", "Global")
  BY AllObjects DEF BGM_HasProperty, LookUpOwnerObject, HasProperty, PlugIn_Has,
     PlugInProperties, Instances, Streams, Volumes
<1>2. \A room : BGM_GetPropertyData("PlugIn", "DeviceList", "Global", room)
                  = List(room, DeviceNames)
  <2>1. \A room : PlugIn_Get("DeviceList", room) = List(room, DeviceNames)
    BY DEF PlugIn_Get, DeviceList, DeviceNames
  <2>2. \A room : DataOf("PlugIn", "DeviceList", "Global", room) = PlugIn_Get("DeviceList", room)
    BY DEF DataOf, Instances, Streams, Volumes
  <2>3. QED
    BY <1>1, <2>1, <2>2 DEF BGM_GetPropertyData, BGM_HasProperty
<1>3. Room(TheDevices) \in Nat
  <2>1. PlugIn_Size("DeviceList") \in Nat
    BY DEF PlugIn_Size, PlugInProperties
  <2>2. SizeOf("PlugIn", "DeviceList", "Global") = PlugIn_Size("DeviceList")
    BY DEF SizeOf, Instances, Streams, Volumes
  <2>3. QED
    BY <1>1, <2>1, <2>2 DEF Room, TheDevices, BGM_GetPropertyDataSize
<1>4. ASSUME NEW room \in Nat PROVE Items(Read(TheDevices, room)) \subseteq Devices
  <2> DEFINE n == IF room < Len(DeviceNames) THEN room ELSE Len(DeviceNames)
  <2>1. n \in 0 .. Len(DeviceNames)
    BY DevicesNamed
  <2>2. List(room, DeviceNames).data = SubSeq(DeviceNames, 1, n)
    BY DEF List, Answer
  <2>3. Read(TheDevices, room) = SubSeq(DeviceNames, 1, n)
    BY <1>2, <2>2 DEF Read, TheDevices
  <2> HIDE DEF n
  <2>4. Items(SubSeq(DeviceNames, 1, n)) \subseteq Items(DeviceNames)
    BY <2>1, CutItems, DevicesNamed
  <2>5. QED
    BY <2>3, <2>4, DeviceNamesTidy DEF Devices, Instances
<1>5. QED
  BY <1>3, <1>4

(* Of the next state too.                                                   *)
LEMMA DevicesReadNext ==
  ((\A room \in Nat : Items(Read(TheDevices, room)) \subseteq Devices)
     /\ Room(TheDevices) \in Nat)'
BY DevicesRead, PTL

\* What leaves the objects that are active and the host's knowledge alone.
Settled ==
  \/ SetVolume \/ SetMute \/ SetStreamActive \/ SetRateOrFormat
  \/ SetEnabledOutputControls \/ SetMusicPlayerProperty \/ SetDebugLogging
  \/ Null_StartIO \/ Null_StopIO \/ BGM_DoIOOperation \/ RunBlock \/ AbortConfigChange
  \/ UNCHANGED vars
  \/ \E d \in Instances : FinishOperation(d)
  \/ \E t \in Thread :
       \/ SetNullDeviceActive(t) \/ App_SetAppVolume(t) \/ App_SetAppEQBandGains(t)
       \/ BGM_AddDeviceClient(t) \/ BGM_RemoveDeviceClient(t) \/ LockIO(t)
       \/ AnnounceNullDevice(t) \/ SetAppVolumes(t) \/ SetAppEQ(t) \/ ChangeProcessors(t)
(* They do.                                                                 *)
LEMMA SettledKeeps == Settled => UNCHANGED <<active, phase, view, reading>>
<1> USE DEF objects, setup, host
<1>1. SetVolume \/ SetMute \/ SetStreamActive \/ SetDebugLogging
        => UNCHANGED <<active, phase, view, reading>>
  BY DEF SetVolume, SetMute, SetStreamActive, SetDebugLogging
<1>2. SetRateOrFormat \/ SetEnabledOutputControls \/ SetMusicPlayerProperty
        => UNCHANGED <<active, phase, view, reading>>
  BY DEF SetRateOrFormat, SetEnabledOutputControls, SetMusicPlayerProperty
<1>3. Null_StartIO \/ Null_StopIO \/ BGM_DoIOOperation \/ RunBlock \/ AbortConfigChange
        \/ UNCHANGED vars => UNCHANGED <<active, phase, view, reading>>
  BY DEF Null_StartIO, Null_StopIO, BGM_DoIOOperation, RunBlock, AbortConfigChange, vars
<1>4. ASSUME NEW d \in Instances, FinishOperation(d)
      PROVE  UNCHANGED <<active, phase, view, reading>>
  BY <1>4 DEF FinishOperation
<1>5. ASSUME NEW t \in Thread,
             \/ SetNullDeviceActive(t) \/ App_SetAppVolume(t) \/ App_SetAppEQBandGains(t)
             \/ AnnounceNullDevice(t) \/ SetAppVolumes(t) \/ SetAppEQ(t)
      PROVE  UNCHANGED <<active, phase, view, reading>>
  BY <1>5 DEF SetNullDeviceActive, App_SetAppVolume, App_SetAppEQBandGains, AnnounceNullDevice,
     SetAppVolumes, SetAppEQ
<1>6. ASSUME NEW t \in Thread,
             \/ BGM_AddDeviceClient(t) \/ BGM_RemoveDeviceClient(t) \/ LockIO(t)
             \/ ChangeProcessors(t)
      PROVE  UNCHANGED <<active, phase, view, reading>>
  BY <1>6 DEF BGM_AddDeviceClient, BGM_RemoveDeviceClient, AddClient, RemoveClient, LockIO,
     ChangeProcessors
<1>7. QED
  BY <1>1, <1>2, <1>3, <1>4, <1>5, <1>6 DEF Settled

(* Every other step leaves the instances active, and the host reads the     *)
(* list of devices in the room it asked for.                                *)
LEMMA LoadedStep ==
  ASSUME HostInv, Loaded, [Next]_vars
  PROVE  Loaded'
<1>1. CASE Settled
  <2>1. UNCHANGED <<active, phase, view, reading>>
    BY <1>1, SettledKeeps
  <2>2. QED
    BY <2>1 DEF Loaded
<1>2. CASE BGM_Create
  BY <1>2 DEF BGM_Create, Loaded, host
<1>3. CASE BGM_Initialize
  <2>1. /\ active' = active \cup UNION {Activated(d) : d \in Instances}
        /\ view' = [k \in Watched |-> Read(k, Room(k))'] /\ UNCHANGED reading
    BY <1>3 DEF BGM_Initialize, CreateInstances
  <2>2. Instances \subseteq active'
    BY <2>1 DEF Activated
  <2>3. TheDevices \in Watched
    BY DEF TheDevices, Watched
  <2>4. view'[TheDevices] = Read(TheDevices, Room(TheDevices))'
    BY <2>1, <2>3
  <2>5. Items(Read(TheDevices, Room(TheDevices)))' \subseteq Devices
    BY DevicesReadNext
  <2>6. Items(view'[TheDevices]) \subseteq Devices
    BY <2>4, <2>5 DEF Items
  <2>7. QED
    BY <2>1, <2>2, <2>6 DEF Loaded
<1>4. CASE ReadSize
  <2>1. PICK k \in told : reading' = <<k, Room(k)>>
    <3>1. (CHOOSE x \in told : TRUE) \in told
      BY <1>4 DEF ReadSize
    <3>2. QED
      BY <1>4, <3>1 DEF ReadSize
  <2>2. UNCHANGED <<active, phase, view>>
    BY <1>4 DEF ReadSize, objects, setup
  <2>3. reading'[1] = TheDevices => reading'[2] \in Nat
    BY <2>1, DevicesRead
  <2>4. QED
    BY <2>2, <2>3 DEF Loaded
<1>5. CASE ReadData
  <2>1. PICK k : k = reading[1]
    OBVIOUS
  <2>2. PICK n : n = reading[2]
    OBVIOUS
  <2>3. /\ reading # Nothing /\ reading' = Nothing /\ view' = [view EXCEPT ![k] = Read(k, n)]
        /\ UNCHANGED <<active, phase>>
    BY <1>5, <2>1, <2>2 DEF ReadData, objects, setup
  <2>4. phase = "ready" /\ view = [j \in Watched |-> view[j]]
    BY <2>3 DEF HostInv, HostTypes, Dormant
  <2>5. TheDevices \in Watched
    BY DEF TheDevices, Watched
  <2>6. CASE k = TheDevices
    <3>1. view'[TheDevices] = Read(TheDevices, n) /\ n \in Nat
      BY <2>1, <2>2, <2>3, <2>4, <2>5, <2>6 DEF Loaded
    <3>2. QED
      BY <2>3, <2>4, <3>1, DevicesRead DEF Loaded
  <2>7. CASE k # TheDevices
    <3>1. view'[TheDevices] = view[TheDevices]
      BY <2>3, <2>4, <2>5, <2>7
    <3>2. QED
      BY <2>3, <2>4, <3>1 DEF Loaded
  <2>8. QED
    BY <2>6, <2>7
<1>6. CASE PerformConfigChange
  <2>1. \/ active' = active
        \/ \E d \in Instances : active \ {VolumeControl[d], MuteControl[d]} \subseteq active'
    <3>1. \E d : \/ SetSampleRate(d, pendingRate[d])
                 \/ SetEnabledControls(d, pendingControls[d][1], pendingControls[d][2])
                    /\ d = Head(requests).device
      BY <1>6 DEF PerformConfigChange
    <3>2. Head(requests).device \in Instances
      <4>1. requests \in Seq(RequestBlock) /\ requests # <<>>
        BY <1>6 DEF PerformConfigChange, HostInv, HostTypes
      <4>2. Head(requests) \in RequestBlock
        BY <4>1
      <4>3. QED
        BY <4>2 DEF RequestBlock
    <3>3. QED
      BY <3>1, <3>2 DEF SetSampleRate, SetEnabledControls
  <2>2. UNCHANGED <<phase, view, reading>>
    BY <1>6 DEF PerformConfigChange, setup
  <2>3. \A d \in Instances : Instances \cap {VolumeControl[d], MuteControl[d]} = {}
    BY DEF Instances, VolumeControl, MuteControl
  <2>4. QED
    BY <2>1, <2>2, <2>3 DEF Loaded
<1>7. CASE \E t \in Thread : ChangeNullDevice(t)
  <2>1. active \ {"Null"} \subseteq active' /\ UNCHANGED <<phase, view, reading>>
    BY <1>7 DEF ChangeNullDevice, Null_Activate, Null_Deactivate, setup, host
  <2>2. QED
    BY <2>1 DEF Loaded, Instances
<1>8. QED
  <2>1. BGM_SetPropertyData => Settled
    BY DEF BGM_SetPropertyData, Settled
  <2>2. Host => Settled \/ ReadSize \/ ReadData \/ PerformConfigChange
    BY DEF Host, Settled
  <2>3. ASSUME NEW t \in Thread, CallSteps(t) PROVE Settled \/ ChangeNullDevice(t)
    BY <2>3 DEF CallSteps, Settled
  <2>4. Next => \/ Settled \/ BGM_Create \/ BGM_Initialize \/ ReadSize \/ ReadData
                \/ PerformConfigChange \/ \E t \in Thread : ChangeNullDevice(t)
    BY <2>1, <2>2, <2>3 DEF Next, Settled
  <2>5. UNCHANGED vars => Settled
    BY DEF Settled
  <2>6. QED
    BY <1>1, <1>2, <1>3, <1>4, <1>5, <1>6, <1>7, <2>4, <2>5

(* The calls of the library about the devices the host lists.               *)
LEMMA AppIsServed == phase = "ready" /\ Loaded => AppServed
BY AllAsksAnswered, AllCallsAnswered DEF Loaded, AppServed, TheDevices, Items

(* The instances stay active, and the list of devices a list of devices.    *)
LEMMA StaysLoaded == Spec => []Loaded
<1>1. Init => Loaded
  BY DEF Init, Loaded
<1>2. HostInv /\ Loaded /\ [Next]_vars => Loaded'
  BY LoadedStep
<1>3. QED
  BY <1>1, <1>2, HostInvariance, PTL DEF Spec

(* At any time, in the middle of a change too, every property that an       *)
(* object says it has is answered, in the size it announced but for two     *)
(* lists with one item fewer (the output scope of an instance's             *)
(* OwnedObjects and the input scope of the Null Device's Streams); every    *)
(* list of objects names active objects of that owner, each once, and the   *)
(* list of custom properties leaves none out (the HasProperty,              *)
(* GetPropertyDataSize and GetPropertyData methods of BGMDriver's objects). *)
THEOREM ObjectsStayServed == Spec => [](phase = "ready" => ObjectsServed)
<1>1. phase = "ready" /\ Loaded => ObjectsServed
  BY AllPropertiesServed DEF Loaded
<1>2. QED
  BY <1>1, StaysLoaded, PTL

(* Whatever BGMApp asks, at any time, of the devices that the host lists    *)
(* is answered: no call that it makes without asking first throws, a call   *)
(* of the library throws exactly if it does not ask for what is not there,  *)
(* what it sets is settable, and none of the driver's own devices is taken  *)
(* for an output device (CAHALAudioObject, CAHALAudioDevice, BGMAudioDevice *)
(* and the property handlers of WC_Device and WC_NullDevice).               *)
THEOREM AppStaysServed == Spec => [](phase = "ready" => AppServed)
BY AppIsServed, StaysLoaded, PTL

-----------------------------------------------------------------------------
(* The volumes at their ends.                                               *)

Relative == {RelativeVolume(v) : v \in AppVolumeSet}
AtEnds == level \in [Volumes -> Levels] /\ volumes \in [Instances -> [Client -> Relative]]

\* What changes neither a volume control nor an app's volume.
Untouched ==
  \/ SetMute \/ SetStreamActive \/ SetRateOrFormat
  \/ SetEnabledOutputControls \/ SetMusicPlayerProperty \/ SetDebugLogging
  \/ Null_StartIO \/ Null_StopIO \/ BGM_DoIOOperation \/ RunBlock \/ Host
  \/ BGM_Create \/ UNCHANGED vars
  \/ \E d \in Instances : FinishOperation(d)
  \/ \E t \in Thread :
       \/ SetNullDeviceActive(t) \/ App_SetAppVolume(t) \/ App_SetAppEQBandGains(t)
       \/ BGM_AddDeviceClient(t) \/ BGM_RemoveDeviceClient(t) \/ LockIO(t)
       \/ ChangeNullDevice(t) \/ AnnounceNullDevice(t) \/ SetAppEQ(t) \/ ChangeProcessors(t)
(* It does not.                                                             *)
LEMMA UntouchedKeeps == Untouched => UNCHANGED <<level, volumes>>
<1> USE DEF objects
<1>1. SetMute \/ SetStreamActive \/ SetDebugLogging \/ BGM_Create => UNCHANGED <<level, volumes>>
  BY DEF SetMute, SetStreamActive, SetDebugLogging, BGM_Create
<1>2. SetRateOrFormat \/ SetEnabledOutputControls \/ SetMusicPlayerProperty
        => UNCHANGED <<level, volumes>>
  BY DEF SetRateOrFormat, SetEnabledOutputControls, SetMusicPlayerProperty
<1>3. Null_StartIO \/ Null_StopIO \/ BGM_DoIOOperation \/ RunBlock \/ UNCHANGED vars
        => UNCHANGED <<level, volumes>>
  BY DEF Null_StartIO, Null_StopIO, BGM_DoIOOperation, RunBlock, vars
<1>4. Host => UNCHANGED <<level, volumes>>
  BY DEF Host, ReadSize, ReadData, PerformConfigChange, AbortConfigChange
<1>5. ASSUME NEW d \in Instances, FinishOperation(d)
      PROVE  UNCHANGED <<level, volumes>>
  BY <1>5 DEF FinishOperation
<1>6. ASSUME NEW t \in Thread,
             \/ SetNullDeviceActive(t) \/ App_SetAppVolume(t) \/ App_SetAppEQBandGains(t)
             \/ ChangeNullDevice(t) \/ AnnounceNullDevice(t) \/ SetAppEQ(t)
      PROVE  UNCHANGED <<level, volumes>>
  BY <1>6 DEF SetNullDeviceActive, App_SetAppVolume, App_SetAppEQBandGains, ChangeNullDevice,
     AnnounceNullDevice, SetAppEQ
<1>7. ASSUME NEW t \in Thread,
             \/ BGM_AddDeviceClient(t) \/ BGM_RemoveDeviceClient(t) \/ LockIO(t)
             \/ ChangeProcessors(t)
      PROVE  UNCHANGED <<level, volumes>>
  BY <1>7 DEF BGM_AddDeviceClient, BGM_RemoveDeviceClient, AddClient, RemoveClient, LockIO,
     ChangeProcessors
<1>8. QED
  BY <1>1, <1>2, <1>3, <1>4, <1>5, <1>6, <1>7 DEF Untouched

(* A volume is set to an end of its range, an app's to one of those sent.   *)
LEMMA AtEndsStep ==
  ASSUME VolumesEnd, HostInv, AtEnds, [Next]_vars
  PROVE  AtEnds'
<1>1. CASE Untouched
  BY <1>1, UntouchedKeeps DEF AtEnds
<1>2. CASE BGM_Initialize
  BY <1>2 DEF BGM_Initialize, CreateInstances, AtEnds, Levels, Volumes
<1>3. CASE SetVolume
  <2>1. PICK o \in Volumes :
          \/ \E s \in BeyondScalars : SetVolumeRaw(o, ConvertScalarToRaw(Curve[o], s))
          \/ \E db \in BeyondDecibels : SetVolumeRaw(o, ConvertDBToRaw(Curve[o], db))
    BY <1>3 DEF SetVolume
  <2>2. \E v \in Levels : level' = [level EXCEPT ![o] = v]
    BY <2>1 DEF SetVolumeRaw, VolumesEnd
  <2>3. UNCHANGED volumes
    BY <1>3 DEF SetVolume
  <2>4. QED
    BY <2>2, <2>3 DEF AtEnds
<1>4. ASSUME NEW t \in Thread, SetAppVolumes(t) PROVE AtEnds'
  <2>1. PICK d \in Instances, e \in [who : SUBSET Client, value : AppVolumeSet] :
          Head(call[t].todo) = <<d, e>>
    <3>1. call[t].todo \in Seq(ToSet(AppVolumeSet)) \ {<<>>}
      BY <1>4 DEF SetAppVolumes, HostInv, CallTypes
    <3>2. Head(call[t].todo) \in ToSet(AppVolumeSet)
      BY <3>1
    <3>3. QED
      BY <3>2 DEF ToSet
  <2> DEFINE h == Head(call[t].todo)
             r == [e EXCEPT !.value = RelativeVolume(@)]
  <2>2. h[1] = d /\ h[2] = e
    BY <2>1
  <2>3. volumes' = Apply(volumes, h[1], [h[2] EXCEPT !.value = RelativeVolume(@)])
        /\ UNCHANGED level
    BY <1>4 DEF SetAppVolumes
  <2>4. r.value \in Relative
    BY DEF Relative
  <2> HIDE DEF h
  <2>5. volumes' = Apply(volumes, d, r) /\ UNCHANGED level
    BY <2>2, <2>3, Zenon
  <2> HIDE DEF r
  <2>6. volumes' = [volumes EXCEPT ![d] =
          [c \in Client |-> IF c \in Found(d, r) THEN r.value ELSE volumes[d][c]]]
    BY <2>5 DEF Apply
  <2>7. QED
    BY <2>4, <2>5, <2>6 DEF AtEnds
<1>5. QED
  <2>1. BGM_SetPropertyData => Untouched \/ SetVolume
    BY DEF BGM_SetPropertyData, Untouched
  <2>2. ASSUME NEW t \in Thread, CallSteps(t) PROVE Untouched \/ SetAppVolumes(t)
    BY <2>2 DEF CallSteps, Untouched
  <2>3. Next => Untouched \/ BGM_Initialize \/ SetVolume \/ \E t \in Thread : SetAppVolumes(t)
    BY <2>1, <2>2 DEF Next, Untouched
  <2>4. UNCHANGED vars => Untouched
    BY DEF Untouched
  <2>5. QED
    BY <1>1, <1>2, <1>3, <1>4, <2>3, <2>4

(* A curve of one range.                                                    *)
LEMMA OneRange ==
  ASSUME NEW c, NEW r, c.ranges = {r}
  PROVE  /\ GetMinimumRaw(c) = r.minRaw /\ GetMaximumRaw(c) = r.maxRaw
         /\ RawRange(c) = r.maxRaw - r.minRaw
<1>1. First(c) = r
  BY DEF First
<1>2. Last(c) = r
  BY DEF Last
<1>3. QED
  BY <1>1, <1>2 DEF GetMinimumRaw, GetMaximumRaw, RawRange

(* The curves in use.                                                       *)
LEMMA Curves ==
  /\ \A o \in Volumes : GetMinimumRaw(Curve[o]) = 0 /\ GetMaximumRaw(Curve[o]) = 96
                        /\ RawRange(Curve[o]) = 96
  /\ GetMinimumRaw(AppVolumeCurve) = 0 /\ GetMaximumRaw(AppVolumeCurve) = 100
  /\ RawRange(AppVolumeCurve) = 100
<1>1. ASSUME NEW r PROVE AddRange(NewCurve, r).ranges = {r}
  BY DEF AddRange, NewCurve
<1>2. AppVolumeCurve.ranges = {CurveRange(0, 100, -19200, 0)}
  BY <1>1 DEF AppVolumeCurve
<1>3. NewVolumeCurve.ranges = {CurveRange(0, 96, -19200, 0)}
  BY <1>1 DEF NewVolumeCurve
<1>4. ASSUME NEW c, NEW f PROVE SetTransferFunction(c, f).ranges = c.ranges
  BY DEF SetTransferFunction
<1>5. Curve["Volume"] = NewVolumeCurve /\ Curve["UIVolume"] = SetTransferFunction(NewVolumeCurve, 7)
  BY DEF Curve
<1>6. ASSUME NEW o \in Volumes PROVE Curve[o].ranges = {CurveRange(0, 96, -19200, 0)}
  BY <1>3, <1>4, <1>5 DEF Volumes
<1>7. /\ CurveRange(0, 96, -19200, 0).minRaw = 0 /\ CurveRange(0, 96, -19200, 0).maxRaw = 96
      /\ CurveRange(0, 100, -19200, 0).minRaw = 0 /\ CurveRange(0, 100, -19200, 0).maxRaw = 100
  BY DEF CurveRange
<1>8. ASSUME NEW o \in Volumes
      PROVE  GetMinimumRaw(Curve[o]) = 0 /\ GetMaximumRaw(Curve[o]) = 96
             /\ RawRange(Curve[o]) = 96
  BY <1>6, <1>7, OneRange
<1>9. GetMinimumRaw(AppVolumeCurve) = 0 /\ GetMaximumRaw(AppVolumeCurve) = 100
      /\ RawRange(AppVolumeCurve) = 100
  BY <1>2, <1>7, OneRange
<1>10. QED
  BY <1>8, <1>9

(* The scalar of full volume is the highest, and an app's volume is found   *)
(* again by its scalar.                                                     *)
LEMMA FullVolumes ==
  /\ \A o \in Volumes : ConvertRawToScalar(Curve[o], 96) = FullScalar(Curve[o])
  /\ RelativeVolume(100) = FullScalar(AppVolumeCurve)
  /\ ScalesAgree(AppVolumeCurve) =>
       \A v \in AppVolumeSet : ConvertScalarToRaw(AppVolumeCurve, RelativeVolume(v)) = v
<1>1. ASSUME NEW o \in Volumes PROVE ConvertRawToScalar(Curve[o], 96) = FullScalar(Curve[o])
  <2>1. Clamp(96, 0, 96) - 0 = 96
    BY DEF Clamp
  <2>2. QED
    BY <2>1, Curves DEF ConvertRawToScalar, FullScalar
<1>2. RelativeVolume(100) = FullScalar(AppVolumeCurve)
  <2>1. Clamp(100, 0, 100) - 0 = 100
    BY DEF Clamp
  <2>2. QED
    BY <2>1, Curves DEF RelativeVolume, ConvertRawToScalar, FullScalar
<1>3. ASSUME ScalesAgree(AppVolumeCurve), NEW v \in AppVolumeSet
      PROVE  ConvertScalarToRaw(AppVolumeCurve, RelativeVolume(v)) = v
  <2>1. v \in GetMinimumRaw(AppVolumeCurve) .. GetMaximumRaw(AppVolumeCurve)
    BY Curves DEF AppVolumeSet
  <2>2. QED
    BY <1>3, <2>1 DEF ScalesAgree, RelativeVolume
<1>4. QED
  BY <1>1, <1>2, <1>3

(* When it is quiet the host knows the volumes at their ends.               *)
LEMMA VolumesAreKnown ==
  ASSUME VolumesConvert, VolumesEnd, AtEnds, NEW d \in Instances, VolumesListed(d),
         clients[d] \subseteq Client
  PROVE  VolumesKnown(d)
<1>1. Known(VolumeControl[d], "ScalarValue",
            IF level[VolumeControl[d]] = 0 THEN 0 ELSE FullScalar(Curve[VolumeControl[d]]))
  <2>1. PICK o \in Volumes : o = VolumeControl[d]
    BY DEF Volumes, VolumeControl, Instances
  <2>2. level[o] \in {0, 96}
    BY DEF AtEnds, Levels
  <2>3. Known(o, "ScalarValue", ConvertRawToScalar(Curve[o], level[o]))
    BY <2>1 DEF VolumesListed
  <2>4. ConvertRawToScalar(Curve[o], 0) = 0
    BY DEF VolumesEnd
  <2>5. ConvertRawToScalar(Curve[o], level[o])
          = IF level[o] = 0 THEN 0 ELSE FullScalar(Curve[o])
    BY <2>2, <2>4, FullVolumes
  <2>6. QED
    BY <2>1, <2>3, <2>5
<1>2. ASSUME NEW c \in clients[d]
      PROVE  (<<c, 100>> \in KnownSettings(d, "AppVolumes"))
               <=> volumes[d][c] = FullScalar(AppVolumeCurve)
  <2> DEFINE known == KnownSettings(d, "AppVolumes")
             v == volumes[d][c]
             raw == ConvertScalarToRaw(AppVolumeCurve, v)
  <2>1. <<c, 100>> \in known <=> <<c, 100>> \in AppVolumes(d)
    <3>1. {e \in known : e[1] \in clients[d]} = AppVolumes(d)
      BY DEF VolumesListed
    <3>2. <<c, 100>>[1] \in clients[d]
      OBVIOUS
    <3> HIDE DEF known
    <3>3. QED
      BY <3>1, <3>2
  <2>2. <<c, 100>> \in AppVolumes(d) <=> v # DefaultVolume /\ raw = 100
    BY DEF AppVolumes
  <2>3. PICK n \in {50, 100} : v = RelativeVolume(n)
    BY DEF AtEnds, Relative, AppVolumeSet
  <2>4. raw = n /\ DefaultVolume = RelativeVolume(50)
        /\ ConvertScalarToRaw(AppVolumeCurve, DefaultVolume) = 50
    BY <2>3, FullVolumes DEF VolumesConvert, DefaultVolume, AppVolumeSet
  <2>5. RelativeVolume(100) = FullScalar(AppVolumeCurve)
    BY FullVolumes
  <2> HIDE DEF known, raw
  <2>6. v # DefaultVolume /\ raw = 100 <=> v = FullScalar(AppVolumeCurve)
    <3>1. CASE n = 100
      BY <2>3, <2>4, <2>5, <3>1 DEF raw
    <3>2. CASE n = 50
      <4>1. ConvertScalarToRaw(AppVolumeCurve, RelativeVolume(100)) = 100
        BY FullVolumes DEF VolumesConvert, AppVolumeSet
      <4>2. QED
        BY <2>3, <2>4, <2>5, <3>2, <4>1
    <3>3. QED
      BY <2>3, <3>1, <3>2
  <2>7. QED
    BY <2>1, <2>2, <2>6 DEF known
<1>3. QED
  BY <1>1, <1>2 DEF VolumesKnown

(* Everything the run checks of what the driver tells the host and BGMApp:  *)
(* nothing is lost on the way to the host, every property and every call is *)
(* answered, the volumes are known, the music player's clients are marked.  *)
(* The two hypotheses are arithmetic about the two curves in use, without a *)
(* variable or a parameter: TLC evaluates both, as parts of HostServed, in  *)
(* the run that checks it.                                                  *)
THEOREM HostIsServed ==
  ASSUME VolumesConvert, VolumesEnd
  PROVE  Spec => []HostServed
<1>1. Init => AtEnds
  BY DEF Init, AtEnds, Levels, Relative, AppVolumeSet, DefaultVolume
<1>2. HostInv /\ AtEnds /\ [Next]_vars => AtEnds'
  BY AtEndsStep
<1>3. HostInv /\ HostUpToDate /\ Loaded /\ AtEnds /\ PlayersMarked => HostServed
  <2> SUFFICES ASSUME HostInv, HostUpToDate, Loaded, AtEnds, PlayersMarked PROVE HostServed
    OBVIOUS
  <2>1. phase = "ready" => AppServed
    BY AppIsServed
  <2>2. ASSUME Quiet PROVE PropertiesServed /\ \A d \in Instances : VolumesKnown(d)
    <3>1. PropertiesServed
      BY <2>2, AllPropertiesServed DEF Quiet, Loaded
    <3>2. ASSUME NEW d \in Instances PROVE VolumesKnown(d)
      <4>1. VolumesListed(d) /\ clients[d] \subseteq Client
        BY <2>2 DEF HostUpToDate, HostInv, ClientTypes
      <4>2. QED
        BY <4>1, VolumesAreKnown
    <3>3. QED
      BY <3>1, <3>2
  <2>3. QED
    BY <2>1, <2>2 DEF HostServed
<1>4. QED
  BY <1>1, <1>2, <1>3, StaysLoaded, HostInvariance, HostKnows, PlayersStayMarked, PTL DEF Spec
=============================================================================
