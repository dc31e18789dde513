------------------------------ MODULE AppProofs ------------------------------
(***************************************************************************)
(* What TLAPS proves of two components of the app, whatever their bounds.  *)
(*                                                                         *)
(* AutoPause: the variables keep their types, and, whichever delays are 0, *)
(* the player is only unpaused by the app that paused it, but for the one  *)
(* crossing of the two queues that UnpausesOnlyWhatItPaused names.         *)
(*                                                                         *)
(* XPCHelper: the types, and that a call reaches a BGMApp that stays       *)
(* registered, for any number of connections and of restarts.              *)
(***************************************************************************)
EXTENDS AutoPause, XPCHelper, TLAPS

(* The steps that Next consists of, one name for each group that the proofs *)
(* treat alike.                                                             *)
OutsideStep ==
  \/ ClientIO \/ WriteMix \/ StartIO \/ StopIO
  \/ AppStartsOrStops \/ UserPlaysOrPauses \/ UserToggles

ListenerStep ==
  ListenerReads \/ QueuePauseBlock \/ QueueUnpauseBlock \/ ResetWePaused

BlockStep ==
  \/ \E kind \in {"mayPause", "mayUnpause"} : BlockStarts(kind)
  \/ PauseBlock \/ UnpauseBlock

PlayerStep == \E q \in Queues : Pause(q) \/ Assign(q) \/ Unpause(q)

(* Next is made of these four groups of steps. *)
LEMMA Steps == Next => OutsideStep \/ ListenerStep \/ BlockStep \/ PlayerStep
BY DEF Next, IOThread, ListenerQueue, PauseUnpauseMusicQueue,
       OutsideStep, ListenerStep, BlockStep, PlayerStep, Queues

-----------------------------------------------------------------------------
(* Types.                                                                  *)

(* A buffer more keeps the distances within the threshold they are         *)
(* compared with.                                                          *)
LEMMA DistancesStayBounded ==
  ASSUME AudibleTypeOK
  PROVE  /\ OneBufferOn \in [Kinds -> 0 .. MinChanged]
         /\ AfterReset \in [Kinds -> 0 .. MinChanged]
BY MinChangedAssumption DEF AudibleTypeOK, OneBufferOn, AfterReset

(* The operations of WC_AudibleState keep its type. *)
LEMMA AudibleTypeKept ==
  ASSUME AudibleTypeOK,
         \/ Reset
         \/ \E heard : UpdateWithClientIO(heard)
         \/ \E audible \in BOOLEAN : UpdateWithMixedIO(audible)
         \/ UNCHANGED <<mState, since>>
  PROVE  AudibleTypeOK'
<1>1. CASE Reset
  BY <1>1, DistancesStayBounded DEF Reset, AudibleTypeOK, DeviceStates
<1>2. CASE \E heard : UpdateWithClientIO(heard)
  <2>1. PICK heard : UpdateWithClientIO(heard)
    BY <1>2
  <2>2. since' \in [Kinds -> 0 .. MinChanged]
    BY <2>1, DistancesStayBounded, MinChangedAssumption DEF UpdateWithClientIO
  <2>3. QED
    BY <2>1, <2>2 DEF UpdateWithClientIO, AudibleTypeOK
<1>3. CASE \E audible \in BOOLEAN : UpdateWithMixedIO(audible)
  <2>1. PICK audible \in BOOLEAN : UpdateWithMixedIO(audible)
    BY <1>3
  <2>2. since' \in [Kinds -> 0 .. MinChanged]
    <3>1. (IF audible THEN since["silent"] ELSE 0) \in 0 .. MinChanged
      BY MinChangedAssumption DEF AudibleTypeOK, Kinds
    <3>2. QED
      BY <2>1, <3>1 DEF UpdateWithMixedIO, AudibleTypeOK
  <2>3. mState' \in DeviceStates
    BY <2>1 DEF UpdateWithMixedIO, RecalculateState, AudibleTypeOK, DeviceStates
  <2>4. QED
    BY <2>2, <2>3 DEF AudibleTypeOK
<1>4. CASE UNCHANGED <<mState, since>>
  BY <1>4 DEF AudibleTypeOK
<1>5. QED
  BY <1>1, <1>2, <1>3, <1>4

(* Initially every variable has its type. *)
LEMMA TypeInit == Init => TypeOK
<1> SUFFICES ASSUME Init PROVE TypeOK
  OBVIOUS
<1>1. AudibleTypeOK
  BY MinChangedAssumption DEF Init, AudibleTypeOK, AfterReset, DeviceStates
<1>2. pc \in [Queues -> Points]
  BY DEF Init, Points
<1>3. notified \in 0 .. MaxNotifications /\ user \in 0 .. MaxUser
  BY AutoPauseAssumption DEF Init
<1>4. /\ app \in BOOLEAN /\ playing \in BOOLEAN /\ running \in BOOLEAN
      /\ enabled \in BOOLEAN /\ wePaused \in BOOLEAN
      /\ latest \in BOOLEAN /\ debt \in BOOLEAN /\ crossed \in BOOLEAN
  BY Zenon DEF Init
<1>5. QED
  BY <1>1, <1>2, <1>3, <1>4 DEF Init, TypeOK

(* Every step keeps the types. *)
LEMMA TypeKept == TypeOK /\ [Next]_vars => TypeOK'
<1> SUFFICES ASSUME TypeOK, [Next]_vars PROVE TypeOK'
  OBVIOUS
<1> USE DEF TypeOK, io, blocks, ghosts, outside, settings
<1>1. CASE OutsideStep
  <2>1. AudibleTypeOK'
    BY <1>1, AudibleTypeKept
    DEF OutsideStep, ClientIO, WriteMix, StartIO, StopIO, AppStartsOrStops,
        UserPlaysOrPauses, UserToggles
  <2>2. notified' \in 0 .. MaxNotifications
    BY <1>1, AutoPauseAssumption
    DEF OutsideStep, ClientIO, WriteMix, StartIO, StopIO, AppStartsOrStops,
        UserPlaysOrPauses, UserToggles, Notifications
  <2>3. user' \in 0 .. MaxUser
    BY <1>1, AutoPauseAssumption
    DEF OutsideStep, ClientIO, WriteMix, StartIO, StopIO, AppStartsOrStops,
        UserPlaysOrPauses, UserToggles
  <2>4. /\ app' \in BOOLEAN /\ playing' \in BOOLEAN /\ running' \in BOOLEAN
        /\ turn' \in {"clients", "mix"} /\ enabled' \in BOOLEAN
        /\ held' \in {"no", "held", "forgotten"}
    BY <1>1
    DEF OutsideStep, ClientIO, WriteMix, StartIO, StopIO, AppStartsOrStops,
        UserPlaysOrPauses, UserToggles
  <2>5. UNCHANGED <<delays, wePaused, waiting, pc, latest, debt, crossed>>
    BY <1>1
    DEF OutsideStep, ClientIO, WriteMix, StartIO, StopIO, AppStartsOrStops,
        UserPlaysOrPauses, UserToggles
  <2>6. QED
    BY <2>1, <2>2, <2>3, <2>4, <2>5
<1>2. CASE ListenerStep
  <2>1. UNCHANGED <<mState, since, turn, app, running, playing, delays, enabled, user, debt,
                    crossed>>
    BY <1>2
    DEF ListenerStep, ListenerReads, QueuePauseBlock, QueueUnpauseBlock, ResetWePaused
  <2>2. AudibleTypeOK'
    BY <2>1, AudibleTypeKept
  <2>3. pc' \in [Queues -> Points]
    BY <1>2
    DEF ListenerStep, ListenerReads, QueuePauseBlock, QueueUnpauseBlock, ResetWePaused,
        Goto, Points, DeviceStates, AudibleTypeOK
  <2>4. /\ notified' \in 0 .. MaxNotifications
        /\ waiting' \subseteq {"mayPause", "mayUnpause"}
        /\ held' \in {"no", "held", "forgotten"}
    <3>1. CASE ListenerReads
      BY <3>1, AutoPauseAssumption DEF ListenerReads
    <3>2. CASE QueuePauseBlock
      BY <3>2 DEF QueuePauseBlock
    <3>3. CASE QueueUnpauseBlock
      BY <3>3 DEF QueueUnpauseBlock
    <3>4. CASE ResetWePaused
      BY <3>4 DEF ResetWePaused
    <3>5. QED
      BY <1>2, <3>1, <3>2, <3>3, <3>4 DEF ListenerStep
  <2>5. wePaused' \in BOOLEAN /\ latest' \in BOOLEAN
    <3>1. CASE ListenerReads
      BY <3>1 DEF ListenerReads
    <3>2. CASE QueuePauseBlock
      BY <3>2, Zenon DEF QueuePauseBlock, Newer
    <3>3. CASE QueueUnpauseBlock
      BY <3>3, Zenon DEF QueueUnpauseBlock, Newer
    <3>4. CASE ResetWePaused
      BY <3>4 DEF ResetWePaused
    <3>5. QED
      BY <1>2, <3>1, <3>2, <3>3, <3>4 DEF ListenerStep
  <2>6. QED
    BY <2>1, <2>2, <2>3, <2>4, <2>5
<1>3. CASE BlockStep
  <2>1. UNCHANGED <<mState, since, turn, app, running, playing, delays, enabled, user,
                    notified, debt, held, crossed>>
    BY <1>3 DEF BlockStep, BlockStarts, PauseBlock, UnpauseBlock
  <2>2. AudibleTypeOK'
    BY <2>1, AudibleTypeKept
  <2>3. pc' \in [Queues -> Points]
    BY <1>3 DEF BlockStep, BlockStarts, PauseBlock, UnpauseBlock, Goto, Points
  <2>4. waiting' \subseteq {"mayPause", "mayUnpause"}
    BY <1>3 DEF BlockStep, BlockStarts, PauseBlock, UnpauseBlock
  <2>5. wePaused' \in BOOLEAN /\ latest' \in BOOLEAN
    BY <1>3 DEF BlockStep, BlockStarts, PauseBlock, UnpauseBlock
  <2>6. QED
    BY <2>1, <2>2, <2>3, <2>4, <2>5
<1>4. CASE PlayerStep
  <2>1. PICK q \in Queues : Pause(q) \/ Assign(q) \/ Unpause(q)
    BY <1>4 DEF PlayerStep
  <2>2. UNCHANGED <<mState, since, turn, app, running, delays, enabled, user,
                    notified, waiting, latest>>
    BY <2>1 DEF Pause, Assign, Unpause
  <2>3. AudibleTypeOK'
    BY <2>2, AudibleTypeKept
  <2>4. pc' \in [Queues -> Points]
    BY <2>1 DEF Pause, Assign, Unpause, Goto, Points
  <2>5. /\ playing' \in BOOLEAN /\ wePaused' \in BOOLEAN /\ debt' \in BOOLEAN
        /\ held' \in {"no", "held", "forgotten"}
    BY <2>1 DEF Pause, Assign, Unpause
  <2>6. crossed' \in BOOLEAN
    <3>1. CASE Pause(q)
      BY <3>1, Zenon DEF Pause
    <3>2. CASE Assign(q)
      BY <3>2 DEF Assign
    <3>3. CASE Unpause(q)
      BY <3>3, Zenon DEF Unpause
    <3>4. QED
      BY <2>1, <3>1, <3>2, <3>3
  <2>7. QED
    BY <2>2, <2>3, <2>4, <2>5, <2>6
<1>5. CASE UNCHANGED vars
  <2>1. UNCHANGED <<mState, since, turn, app, running, playing, delays, enabled, user,
                    notified, wePaused, waiting, pc, latest, debt, held, crossed>>
    BY <1>5 DEF vars
  <2>2. AudibleTypeOK'
    BY <2>1, AudibleTypeKept
  <2>3. QED
    BY <2>1, <2>2
<1>6. QED
  BY <1>1, <1>2, <1>3, <1>4, <1>5, Steps

(* Every variable keeps its type, whatever the bounds and the delays. *)
THEOREM TypeCorrect == Spec => []TypeOK
BY TypeInit, TypeKept, PTL DEF Spec

-----------------------------------------------------------------------------
(* The app unpauses only what it paused.                                   *)

(* One queue pauses, one unpauses: a block on the pause queue where there is *)
(* a delay, and the listener where there is none.                            *)
Pauses(q) == IF PauseDelayed THEN q = Pauser ELSE q = Listener
Unpauses(q) == IF UnpauseDelayed THEN q = Pauser ELSE q = Listener

QueuesKeepToTheirs ==
  /\ \A q \in Queues : ~Pauses(q) =>
       pc[q] \notin {"mayPause", "pause", "assignYES", "assignNO"}
  /\ \A q \in Queues : ~Unpauses(q) => pc[q] \notin {"mayUnpause", "unpause"}
  /\ "mayPause" \in waiting => PauseDelayed
  /\ "mayUnpause" \in waiting => UnpauseDelayed

(* What wePaused, or a queue that is about to set it or has cleared it to  *)
(* unpause the player, stands for: a pause that is not undone yet.  A      *)
(* queue pauses with the flag clear, so it is set behind the back of one   *)
(* that is about to unpause only if the two have crossed.                  *)
FlagIsOwed ==
  /\ wePaused => debt \/ crossed
  /\ \A q \in Queues : pc[q] \in {"assignYES", "unpause"} => debt \/ crossed
  /\ \A q \in Queues : pc[q] \in {"pause", "assignYES"} => ~wePaused
  /\ \A q, r \in Queues :
       pc[q] = "unpause" /\ (wePaused \/ pc[r] = "assignYES") => crossed

CrossingNeedsTwo == crossed => PauseDelayed # UnpauseDelayed

IInv == TypeOK /\ QueuesKeepToTheirs /\ FlagIsOwed /\ CrossingNeedsTwo

(* Initially no queue acts and nothing is owed. *)
LEMMA InvInit == Init => IInv
<1> SUFFICES ASSUME Init PROVE IInv
  OBVIOUS
<1>1. TypeOK
  BY TypeInit
<1>2. \A q \in Queues : pc[q] = "idle"
  BY DEF Init
<1>3. QueuesKeepToTheirs
  BY <1>2 DEF Init, QueuesKeepToTheirs
<1>4. FlagIsOwed /\ CrossingNeedsTwo
  BY <1>2 DEF Init, FlagIsOwed, CrossingNeedsTwo
<1>5. QED
  BY <1>1, <1>3, <1>4 DEF IInv

(* The parts of IInv but the types. *)
Parts == QueuesKeepToTheirs /\ FlagIsOwed /\ CrossingNeedsTwo

(* A step that touches none of what the parts speak of keeps them. *)
LEMMA PartsOfTheSame ==
  ASSUME Parts, UNCHANGED <<delays, wePaused, waiting, pc, debt, crossed>>
  PROVE  Parts'
BY DEF Parts, QueuesKeepToTheirs, FlagIsOwed, CrossingNeedsTwo, Pauses, Unpauses,
   PauseDelayed, UnpauseDelayed

(* A queue that goes on to a point of no consequence, with the flag as it  *)
(* was or cleared, keeps them.                                             *)
LEMMA PartsGoingOn ==
  ASSUME IInv, NEW q \in Queues, UNCHANGED <<delays, debt, crossed>>,
         pc' = [pc EXCEPT ![q] = pc'[q]],
         pc'[q] \in DeviceStates \cup {"idle", "mayPause", "mayUnpause"},
         pc'[q] = "mayPause" => Pauses(q), pc'[q] = "mayUnpause" => Unpauses(q),
         wePaused' => wePaused,
         "mayPause" \in waiting' => PauseDelayed,
         "mayUnpause" \in waiting' => UnpauseDelayed
  PROVE  Parts'
<1>1. \A r \in Queues : r # q => pc'[r] = pc[r]
  BY DEF IInv, TypeOK
<1>2. /\ pc'[q] \notin {"pause", "assignYES", "assignNO", "unpause"}
      /\ pc'[q] = "mayPause" => Pauses(q)
      /\ pc'[q] = "mayUnpause" => Unpauses(q)
  BY DEF DeviceStates
<1>3. QueuesKeepToTheirs'
  BY <1>1, <1>2 DEF IInv, QueuesKeepToTheirs, Pauses, Unpauses, PauseDelayed, UnpauseDelayed
<1>4. FlagIsOwed'
  BY <1>1, <1>2 DEF IInv, FlagIsOwed
<1>5. CrossingNeedsTwo'
  BY DEF IInv, CrossingNeedsTwo, PauseDelayed, UnpauseDelayed
<1>6. QED
  BY <1>3, <1>4, <1>5 DEF Parts

(* A queue that goes to unpause clears the flag, which was set: it is owed. *)
LEMMA PartsGoingToUnpause ==
  ASSUME IInv, NEW q \in Queues, UNCHANGED <<delays, debt, crossed>>,
         pc' = [pc EXCEPT ![q] = "unpause"], Unpauses(q),
         wePaused, ~wePaused', waiting' = waiting
  PROVE  Parts'
<1>1. /\ \A r \in Queues : r # q => pc'[r] = pc[r]
      /\ pc'[q] = "unpause"
  BY DEF IInv, TypeOK
<1>2. QueuesKeepToTheirs'
  BY <1>1 DEF IInv, QueuesKeepToTheirs, Pauses, Unpauses, PauseDelayed, UnpauseDelayed
<1>3. \A r \in Queues : pc[r] \notin {"pause", "assignYES"}
  BY DEF IInv, FlagIsOwed
<1>4. FlagIsOwed'
  BY <1>1, <1>3 DEF IInv, FlagIsOwed
<1>5. CrossingNeedsTwo'
  BY DEF IInv, CrossingNeedsTwo, PauseDelayed, UnpauseDelayed
<1>6. QED
  BY <1>2, <1>4, <1>5 DEF Parts

(* A queue that goes to pause has found the flag clear. *)
LEMMA PartsGoingToPause ==
  ASSUME IInv, NEW q \in Queues, UNCHANGED <<delays, wePaused, waiting, debt, crossed>>,
         pc' = [pc EXCEPT ![q] = "pause"], Pauses(q), ~wePaused
  PROVE  Parts'
<1>1. /\ \A r \in Queues : r # q => pc'[r] = pc[r]
      /\ pc'[q] = "pause"
  BY DEF IInv, TypeOK
<1>2. QueuesKeepToTheirs'
  BY <1>1 DEF IInv, QueuesKeepToTheirs, Pauses, Unpauses, PauseDelayed, UnpauseDelayed
<1>3. FlagIsOwed'
  BY <1>1 DEF IInv, FlagIsOwed
<1>4. CrossingNeedsTwo'
  BY DEF IInv, CrossingNeedsTwo, PauseDelayed, UnpauseDelayed
<1>5. QED
  BY <1>2, <1>3, <1>4 DEF Parts

(* The steps of the two queues but those on the player keep the parts. *)
LEMMA PartsQueueStep ==
  ASSUME IInv, ListenerStep \/ BlockStep
  PROVE  Parts'
<1>1. pc \in [Queues -> Points] /\ Listener \in Queues /\ Pauser \in Queues
  BY DEF IInv, TypeOK, Queues
<1>2. Listener # Pauser /\ (Unpauses(Listener) <=> ~UnpauseDelayed)
      /\ (Pauses(Listener) <=> ~PauseDelayed)
      /\ (PauseDelayed => Pauses(Pauser)) /\ (UnpauseDelayed => Unpauses(Pauser))
  BY DEF Pauses, Unpauses, Listener, Pauser
<1>3. /\ "mayPause" \in waiting => PauseDelayed
      /\ "mayUnpause" \in waiting => UnpauseDelayed
      /\ pc[Pauser] = "mayPause" => Pauses(Pauser)
      /\ pc[Pauser] = "mayUnpause" => Unpauses(Pauser)
  BY <1>1 DEF IInv, QueuesKeepToTheirs
<1>4. CASE ListenerReads
  <2>1. pc' = [pc EXCEPT ![Listener] = mState] /\ mState \in DeviceStates
    BY <1>4 DEF ListenerReads, Goto, IInv, TypeOK, AudibleTypeOK
  <2>2. pc'[Listener] = mState /\ mState \notin {"mayPause", "mayUnpause"}
    BY <1>1, <2>1 DEF DeviceStates
  <2>3. UNCHANGED <<delays, wePaused, waiting, debt, crossed>>
    BY <1>4 DEF ListenerReads, settings, ghosts
  <2>4. QED
    BY <1>1, <1>3, <2>1, <2>2, <2>3, PartsGoingOn
<1>5. CASE QueuePauseBlock
  <2>1. UNCHANGED <<delays, wePaused, debt, crossed>>
    BY <1>5 DEF QueuePauseBlock, settings, ghosts
  <2>2. CASE ~PauseDelayed /\ ~wePaused /\ mState = "audible"
    <3>1. pc' = [pc EXCEPT ![Listener] = "pause"] /\ waiting' = waiting
      BY <1>5, <2>2 DEF QueuePauseBlock, Goto
    <3>2. QED
      BY <1>1, <1>2, <2>1, <2>2, <3>1, PartsGoingToPause
  <2>3. CASE ~(~PauseDelayed /\ ~wePaused /\ mState = "audible")
    <3>1. /\ pc' = [pc EXCEPT ![Listener] = "idle"]
          /\ waiting' = IF PauseDelayed THEN waiting \cup {"mayPause"} ELSE waiting
      BY <1>5, <2>3 DEF QueuePauseBlock, Goto
    <3>2. pc'[Listener] = "idle"
      BY <1>1, <3>1
    <3>3. /\ "mayPause" \in waiting' => PauseDelayed
          /\ "mayUnpause" \in waiting' => UnpauseDelayed
      BY <1>3, <3>1
    <3>4. QED
      BY <1>1, <2>1, <3>1, <3>2, <3>3, PartsGoingOn
  <2>4. QED
    BY <2>2, <2>3
<1>6. CASE QueueUnpauseBlock
  <2> DEFINE now == ~UnpauseDelayed /\ wePaused /\ mState = "silent"
  <2>1. /\ pc' = [pc EXCEPT ![Listener] = IF now THEN "unpause" ELSE "idle"]
        /\ wePaused' = (wePaused /\ ~now)
        /\ UNCHANGED <<delays, debt, crossed>>
        /\ waiting' = IF UnpauseDelayed THEN waiting \cup {"mayUnpause"} ELSE waiting
    BY <1>6, Zenon DEF QueueUnpauseBlock, Goto, settings, ghosts
  <2>2. CASE now
    <3>1. /\ pc' = [pc EXCEPT ![Listener] = "unpause"]
          /\ wePaused /\ ~wePaused' /\ waiting' = waiting
      BY <2>1, <2>2
    <3>2. QED
      BY <1>1, <1>2, <2>1, <2>2, <3>1, PartsGoingToUnpause
  <2>3. CASE ~now
    <3>1. pc' = [pc EXCEPT ![Listener] = "idle"] /\ (wePaused' => wePaused)
      BY <2>1, <2>3, Zenon
    <3>2. pc'[Listener] = "idle"
      BY <1>1, <3>1
    <3>3. /\ "mayPause" \in waiting' => PauseDelayed
          /\ "mayUnpause" \in waiting' => UnpauseDelayed
      BY <1>3, <2>1
    <3>4. QED
      BY <1>1, <2>1, <3>1, <3>2, <3>3, PartsGoingOn
  <2>4. QED
    BY <2>2, <2>3
<1>7. CASE ResetWePaused
  <2>1. /\ pc' = [pc EXCEPT ![Listener] = "idle"] /\ ~wePaused'
        /\ UNCHANGED <<delays, waiting, debt, crossed>>
    BY <1>7 DEF ResetWePaused, Goto, settings
  <2>2. pc'[Listener] = "idle"
    BY <1>1, <2>1
  <2>3. QED
    BY <1>1, <1>3, <2>1, <2>2, PartsGoingOn
<1>8. CASE \E kind \in {"mayPause", "mayUnpause"} : BlockStarts(kind)
  <2>1. PICK kind \in {"mayPause", "mayUnpause"} : BlockStarts(kind)
    BY <1>8
  <2>2. /\ kind \in waiting /\ waiting' \subseteq waiting
        /\ pc' = [pc EXCEPT ![Pauser] = pc'[Pauser]] /\ pc'[Pauser] \in {kind, "idle"}
        /\ UNCHANGED <<delays, wePaused, debt, crossed>>
    BY <1>1, <2>1 DEF BlockStarts, Goto, settings, ghosts
  <2>3. /\ pc'[Pauser] = "mayPause" => Pauses(Pauser)
        /\ pc'[Pauser] = "mayUnpause" => Unpauses(Pauser)
    BY <1>2, <1>3, <2>2
  <2>4. QED
    BY <1>1, <1>3, <2>2, <2>3, PartsGoingOn
<1>9. CASE PauseBlock
  <2>1. /\ pc[Pauser] = "mayPause" /\ UNCHANGED <<delays, wePaused, waiting, debt, crossed>>
        /\ pc' = [pc EXCEPT ![Pauser] = IF ~wePaused /\ latest THEN "pause" ELSE "idle"]
    BY <1>9 DEF PauseBlock, Goto, settings, ghosts
  <2>2. CASE ~wePaused /\ latest
    BY <1>1, <1>3, <2>1, <2>2, PartsGoingToPause
  <2>3. CASE ~(~wePaused /\ latest)
    <3>1. pc' = [pc EXCEPT ![Pauser] = "idle"] /\ pc'[Pauser] = "idle"
      BY <1>1, <2>1, <2>3
    <3>2. QED
      BY <1>1, <1>3, <2>1, <3>1, PartsGoingOn
  <2>4. QED
    BY <2>2, <2>3
<1>10. CASE UnpauseBlock
  <2>1. /\ pc[Pauser] = "mayUnpause" /\ UNCHANGED <<delays, waiting, debt, crossed>>
        /\ pc' = [pc EXCEPT ![Pauser] = IF wePaused /\ latest THEN "unpause" ELSE "idle"]
        /\ wePaused' = (wePaused /\ ~latest)
    BY <1>10, Zenon DEF UnpauseBlock, Goto, settings, ghosts
  <2>2. CASE wePaused /\ latest
    <3>1. ~wePaused' /\ pc' = [pc EXCEPT ![Pauser] = "unpause"]
      BY <2>1, <2>2
    <3>2. QED
      BY <1>1, <1>3, <2>1, <2>2, <3>1, PartsGoingToUnpause
  <2>3. CASE ~(wePaused /\ latest)
    <3>1. wePaused' => wePaused
      BY <2>1, Zenon
    <3>2. pc' = [pc EXCEPT ![Pauser] = "idle"] /\ pc'[Pauser] = "idle"
      BY <1>1, <2>1, <2>3
    <3>3. QED
      BY <1>1, <1>3, <2>1, <3>1, <3>2, PartsGoingOn
  <2>4. QED
    BY <2>2, <2>3
<1>11. QED
  BY <1>4, <1>5, <1>6, <1>7, <1>8, <1>9, <1>10 DEF ListenerStep, BlockStep

(* WCMusicPlayer::pause: what is paused is owed; if the other queue is about *)
(* to unpause, the two have crossed, which takes two queues.                *)
LEMMA PartsPause ==
  ASSUME IInv, NEW q \in Queues, Pause(q)
  PROVE  Parts'
<1>1. /\ pc[q] = "pause" /\ UNCHANGED <<delays, wePaused, waiting>>
      /\ pc' = [pc EXCEPT ![q] = IF playing THEN "assignYES" ELSE "assignNO"]
  BY DEF Pause, Goto, settings
<1>2. debt' = (debt \/ playing)
  BY DEF Pause
<1>3. crossed' = (crossed \/ \E r \in Queues : pc[r] = "unpause")
  BY DEF Pause
<1>4. /\ \A r \in Queues : r # q => pc'[r] = pc[r]
      /\ pc'[q] \in {"assignYES", "assignNO"}
      /\ pc'[q] = "assignYES" => playing
  BY <1>1 DEF IInv, TypeOK
<1>5. Pauses(q) /\ ~wePaused
  BY <1>1 DEF IInv, QueuesKeepToTheirs, FlagIsOwed
<1>6. QueuesKeepToTheirs'
  BY <1>1, <1>4, <1>5
  DEF IInv, QueuesKeepToTheirs, Pauses, Unpauses, PauseDelayed, UnpauseDelayed
<1>7. FlagIsOwed'
  <2>1. ~wePaused'
    BY <1>1, <1>5
  <2>2. \A r \in Queues : pc'[r] \in {"assignYES", "unpause"} => debt' \/ crossed'
    BY <1>2, <1>3, <1>4 DEF IInv, FlagIsOwed
  <2>3. \A r \in Queues : pc'[r] = "unpause" => crossed'
    BY <1>3, <1>4
  <2>4. QED
    BY <2>1, <2>2, <2>3 DEF FlagIsOwed
<1>8. CrossingNeedsTwo'
  <2>1. CASE \E r \in Queues : pc[r] = "unpause"
    <3>1. PICK r \in Queues : pc[r] = "unpause"
      BY <2>1
    <3>2. r # q /\ Unpauses(r)
      BY <1>1, <3>1 DEF IInv, QueuesKeepToTheirs
    <3>3. PauseDelayed # UnpauseDelayed
      BY <1>5, <3>2 DEF Pauses, Unpauses
    <3>4. QED
      BY <1>1, <3>3 DEF CrossingNeedsTwo, PauseDelayed, UnpauseDelayed
  <2>2. CASE ~\E r \in Queues : pc[r] = "unpause"
    <3>1. crossed' => crossed
      BY <1>3, <2>2
    <3>2. QED
      BY <1>1, <3>1 DEF IInv, CrossingNeedsTwo, PauseDelayed, UnpauseDelayed
  <2>3. QED
    BY <2>1, <2>2
<1>9. QED
  BY <1>6, <1>7, <1>8 DEF Parts

(* Assigning to wePaused sets a flag that is owed. *)
LEMMA PartsAssign ==
  ASSUME IInv, NEW q \in Queues, Assign(q)
  PROVE  Parts'
<1>1. /\ pc[q] \in {"assignYES", "assignNO"} /\ UNCHANGED <<delays, waiting, debt, crossed>>
      /\ pc' = [pc EXCEPT ![q] = "idle"]
  BY DEF Assign, Goto, settings, ghosts
<1>2. wePaused' = (pc[q] = "assignYES" \/ wePaused)
  BY DEF Assign
<1>3. pc'[q] = "idle" /\ \A r \in Queues : r # q => pc'[r] = pc[r]
  BY <1>1 DEF IInv, TypeOK
<1>4. Pauses(q)
  BY <1>1 DEF IInv, QueuesKeepToTheirs
<1>5. QueuesKeepToTheirs'
  BY <1>1, <1>3
  DEF IInv, QueuesKeepToTheirs, Pauses, Unpauses, PauseDelayed, UnpauseDelayed
<1>6. \A r \in Queues : r # q => pc[r] \notin {"pause", "assignYES"}
  BY <1>4 DEF IInv, QueuesKeepToTheirs, Pauses
<1>7. FlagIsOwed'
  <2>1. \A r \in Queues : pc'[r] \notin {"pause", "assignYES"}
    BY <1>3, <1>6
  <2>2. wePaused' => debt' \/ crossed'
    BY <1>1, <1>2 DEF IInv, FlagIsOwed
  <2>3. \A r \in Queues : pc'[r] = "unpause" => debt' \/ crossed'
    BY <1>1, <1>3 DEF IInv, FlagIsOwed
  <2>4. \A r \in Queues : pc'[r] = "unpause" /\ wePaused' => crossed'
    BY <1>1, <1>2, <1>3 DEF IInv, FlagIsOwed
  <2>5. QED
    BY <2>1, <2>2, <2>3, <2>4 DEF FlagIsOwed
<1>8. CrossingNeedsTwo'
  BY <1>1 DEF IInv, CrossingNeedsTwo, PauseDelayed, UnpauseDelayed
<1>9. QED
  BY <1>5, <1>7, <1>8 DEF Parts

(* Unpausing settles what was owed, but for what has crossed it. *)
LEMMA PartsUnpause ==
  ASSUME IInv, NEW q \in Queues, Unpause(q)
  PROVE  Parts'
<1>1. /\ pc[q] = "unpause" /\ UNCHANGED <<delays, wePaused, waiting>>
      /\ pc' = [pc EXCEPT ![q] = "idle"]
  BY DEF Unpause, Goto, settings
<1>2. crossed' = (crossed /\ (wePaused \/ \E r \in Queues : pc[r] = "assignYES"))
  BY DEF Unpause
<1>3. pc'[q] = "idle" /\ \A r \in Queues : r # q => pc'[r] = pc[r]
  BY <1>1 DEF IInv, TypeOK
<1>4. Unpauses(q)
  BY <1>1 DEF IInv, QueuesKeepToTheirs
<1>5. QueuesKeepToTheirs'
  BY <1>1, <1>3
  DEF IInv, QueuesKeepToTheirs, Pauses, Unpauses, PauseDelayed, UnpauseDelayed
<1>6. \A r \in Queues : pc'[r] # "unpause"
  BY <1>3, <1>4 DEF IInv, QueuesKeepToTheirs, Unpauses
<1>7. FlagIsOwed'
  <2>1. wePaused' => crossed'
    BY <1>1, <1>2 DEF IInv, FlagIsOwed
  <2>2. \A r \in Queues : pc'[r] = "assignYES" => crossed'
    BY <1>1, <1>2, <1>3 DEF IInv, FlagIsOwed
  <2>3. \A r \in Queues : pc'[r] \in {"pause", "assignYES"} => ~wePaused'
    BY <1>1, <1>3 DEF IInv, FlagIsOwed
  <2>4. QED
    BY <1>6, <2>1, <2>2, <2>3 DEF FlagIsOwed
<1>8. CrossingNeedsTwo'
  BY <1>1, <1>2 DEF IInv, CrossingNeedsTwo, PauseDelayed, UnpauseDelayed
<1>9. QED
  BY <1>5, <1>7, <1>8 DEF Parts

(* Every step keeps the invariant: a queue clears the flag before it       *)
(* unpauses, and owes a pause before it sets it.                           *)
LEMMA InvKept == IInv /\ [Next]_vars => IInv'
<1> SUFFICES ASSUME IInv, [Next]_vars PROVE IInv'
  OBVIOUS
<1>1. TypeOK' /\ Parts
  BY TypeKept DEF IInv, Parts
<1>2. CASE OutsideStep
  <2>1. UNCHANGED <<delays, wePaused, waiting, pc, debt, crossed>>
    BY <1>2
    DEF OutsideStep, ClientIO, WriteMix, StartIO, StopIO, AppStartsOrStops,
        UserPlaysOrPauses, UserToggles, blocks, settings, ghosts
  <2>2. QED
    BY <1>1, <2>1, PartsOfTheSame DEF IInv, Parts
<1>3. CASE ListenerStep \/ BlockStep
  BY <1>1, <1>3, PartsQueueStep DEF IInv, Parts
<1>4. CASE PlayerStep
  <2>1. PICK q \in Queues : Pause(q) \/ Assign(q) \/ Unpause(q)
    BY <1>4 DEF PlayerStep
  <2>2. Parts'
    BY <2>1, PartsPause, PartsAssign, PartsUnpause
  <2>3. QED
    BY <1>1, <2>2 DEF IInv, Parts
<1>5. CASE UNCHANGED vars
  <2>1. UNCHANGED <<delays, wePaused, waiting, pc, debt, crossed>>
    BY <1>5 DEF vars, blocks, settings, ghosts
  <2>2. QED
    BY <1>1, <2>1, PartsOfTheSame DEF IInv, Parts
<1>6. QED
  BY <1>2, <1>3, <1>4, <1>5, Steps

(* Whichever delays are 0, the app never unpauses a player it did not pause *)
(* or has unpaused already (WCAutoPauseMusic.mm:184-185, 237-239), unless   *)
(* one queue has paused it while the other was about to unpause it: the     *)
(* flag is cleared first on the queue that unpauses.                        *)
THEOREM NeverUnpausesAnothersPause == Spec => []UnpausesOnlyWhatItPaused
<1>1. IInv => UnpausesOnlyWhatItPaused
  BY DEF IInv, FlagIsOwed, CrossingNeedsTwo, UnpausesOnlyWhatItPaused
<1>2. QED
  BY <1>1, InvInit, InvKept, PTL DEF Spec

-----------------------------------------------------------------------------
(* XPCHelper.  The invariant has the types of its variables in four groups,  *)
(* Backlog, which bounds what a connection carries, and Served, why a call   *)
(* gets through.                                                             *)

FlagTypes ==
  /\ alive \in BOOLEAN /\ ours \in BOOLEAN
  /\ main \in {"idle", "connecting"}
  /\ retryTimer \in BOOLEAN /\ timerBlock \in BOOLEAN
  /\ endpoint \in {"none", "current", "old"}
  /\ driver \in {"idle", "sent", "forwarded"}
  /\ unreachable \in BOOLEAN /\ directGoes \in BOOLEAN
  /\ {served, greeted, unattended, owed} \subseteq BOOLEAN
  /\ count \in 0 .. MaxEvents
ConnectionTypes ==
  /\ open \subseteq Conn /\ closing \subseteq Conn \ open /\ replies \subseteq open
  /\ helperConnection \in open \cup {None} /\ managerConnection \in open \cup {None}
  /\ retries \subseteq Conn
  /\ events \subseteq Conn \X {"interrupted", "invalidated"}
ChannelTypes ==
  channel \in [Conn -> Seq(Messages)] /\ \A c \in Conn : Len(channel[c]) <= 3
HelperTypes ==
  /\ registered \subseteq Conn /\ knows \subseteq Conn /\ cleanUps \subseteq Conn
  /\ connection \in registered \cup {None, Direct}
  /\ forwarded \in [try : 0 .. 2, to : Conn \cup {Direct, None}]

(* An interruption has BGMApp register again, on top of what is under way. *)
Backlog == \A c \in Conn : <<c, "interrupted">> \in events => Len(channel[c]) <= 2

(* As long as BGMApp stays registered, the second try is on a connection that *)
(* is made from its endpoint.                                                 *)
Served ==
  /\ endpoint = "current" => alive
  /\ served => /\ endpoint = "current" /\ ~unreachable
               /\ forwarded.try = 2 => forwarded.to = Direct

HelperInv ==
  FlagTypes /\ ConnectionTypes /\ ChannelTypes /\ HelperTypes /\ Backlog /\ Served

(* The steps of BGMApp, of the helper, and of the call from the driver. *)
AppStep ==
  \/ \E c \in Conn : Connect(c) \/ Registered(c)
                     \/ InterruptionHandler(c) \/ InvalidationHandler(c)
  \/ RetryAfterTimeout \/ TimerFires
  \/ Launch \/ UserReconnects \/ OutputDeviceChanges
HelperStep ==
  \/ \E c \in Conn : RegisterAsBGMApp(c) \/ SetOutputDevice(c)
                     \/ HelperLosesApp(c) \/ UnsetBGMDeviceAsDefault(c)
  \/ DirectConnectionGoes
CallStep ==
  HelperForwards \/ SendingFails \/ BGMAppReplies \/ DriverCalls \/ CallTimesOut
Stops ==
  \/ \E cleanly \in BOOLEAN : BGMAppGoes(cleanly)
  \/ \E event \in {"interrupted", "invalidated"} : HelperStops(event)

LEMMA HelperSteps == HelperNext => AppStep \/ HelperStep \/ CallStep \/ Stops
BY DEF HelperNext, BGMApp, BGMXPCHelper, AppStep, HelperStep, CallStep, Stops

(* What a step of the call does, however it ends: it changes nothing but the *)
(* call, and the helper's connection.                                        *)
LEMMA CallStepFrame ==
  ASSUME CallStep
  PROVE  UNCHANGED <<alive, listener, wire, endpoint, registered, knows, cleanUps, ours>>
BY DEF CallStep, HelperForwards, SendingFails, BGMAppReplies, DriverCalls, CallTimesOut,
       helper

(* The helper has a connection to call on whenever BGMApp is registered. *)
LEMMA ProxyTypes ==
  ASSUME HelperTypes, FlagTypes,
         NEW try \in 1 .. 2, NEW current \in registered \cup {None, Direct},
         WithBGMAppRemoteProxy(try, current)
  PROVE  /\ connection' \in registered \cup {None, Direct}
         /\ forwarded' \in [try : 0 .. 2, to : Conn \cup {Direct, None}]
         /\ driver' \in {"idle", "sent", "forwarded"}
         /\ unreachable' \in BOOLEAN /\ directGoes' \in BOOLEAN
         /\ endpoint = "current" =>
              /\ unreachable' = unreachable
              /\ current = None => forwarded'.to = Direct
              /\ forwarded'.try = try
<1> DEFINE to == IF current = None /\ endpoint # "none" THEN Direct ELSE current
<1>1. to \in registered \cup {None, Direct}
  OBVIOUS
<1>2. /\ connection' = to
      /\ directGoes' = (directGoes \/ (current = None /\ endpoint # "none" /\ endpoint = "old"))
  BY DEF WithBGMAppRemoteProxy
<1>3. CASE to = None
  <2>1. forwarded' = NoCall /\ Answer(TRUE)
    BY <1>3 DEF WithBGMAppRemoteProxy
  <2>2. NoCall \in [try : 0 .. 2, to : Conn \cup {Direct, None}]
    BY DEF NoCall
  <2>3. endpoint # "current"
    BY <1>3, XPCHelperAssumption
  <2> QED
    BY <1>1, <1>2, <2>1, <2>2, <2>3 DEF Answer, FlagTypes
<1>4. CASE to # None
  <2> DEFINE goes == IF current = None /\ endpoint # "none" /\ endpoint = "old" THEN None ELSE to
  <2>1. /\ forwarded' = [try |-> try, to |-> goes]
        /\ driver' = (IF driver = "idle" THEN "idle" ELSE "forwarded")
        /\ unreachable' = unreachable
    BY <1>4 DEF WithBGMAppRemoteProxy
  <2>2. goes \in Conn \cup {Direct, None}
    BY <1>1 DEF HelperTypes
  <2>3. forwarded' \in [try : 0 .. 2, to : Conn \cup {Direct, None}]
    BY <2>1, <2>2
  <2>4. endpoint = "current" /\ current = None => goes = Direct
    OBVIOUS
  <2> QED
    BY <1>1, <1>2, <2>1, <2>3, <2>4 DEF FlagTypes
<1> QED
  BY <1>3, <1>4

(* A call in progress. *)
LEMMA CallKeepsInv ==
  ASSUME HelperInv, CallStep
  PROVE  HelperInv'
<1> USE DEF HelperInv
<1>1. UNCHANGED <<alive, listener, wire, endpoint, registered, knows, cleanUps, ours>>
  BY CallStepFrame
<1>2. ConnectionTypes' /\ ChannelTypes' /\ Backlog'
  BY <1>1 DEF ConnectionTypes, ChannelTypes, Backlog, listener, wire
<1>3. ASSUME NEW try \in 1 .. 2, NEW current \in registered \cup {None, Direct},
             WithBGMAppRemoteProxy(try, current),
             try = 2 => current = None,
             UNCHANGED <<served, count, owed>>
      PROVE  FlagTypes' /\ HelperTypes' /\ Served'
  <2>1. /\ connection' \in registered \cup {None, Direct}
        /\ forwarded' \in [try : 0 .. 2, to : Conn \cup {Direct, None}]
        /\ driver' \in {"idle", "sent", "forwarded"}
        /\ unreachable' \in BOOLEAN /\ directGoes' \in BOOLEAN
        /\ endpoint = "current" =>
              /\ unreachable' = unreachable
              /\ current = None => forwarded'.to = Direct
              /\ forwarded'.try = try
    BY <1>3, ProxyTypes
  <2>2. FlagTypes'
    BY <1>1, <1>3, <2>1 DEF FlagTypes, listener
  <2>3. HelperTypes'
    BY <1>1, <2>1 DEF HelperTypes
  <2>4. Served'
    BY <1>1, <1>3, <2>1 DEF Served
  <2> QED
    BY <2>2, <2>3, <2>4
<1>4. NoCall \in [try : 0 .. 2, to : Conn \cup {Direct, None}] /\ NoCall.try = 0
  BY DEF NoCall
<1>5. CASE HelperForwards
  <2>1. WithBGMAppRemoteProxy(1, connection) /\ UNCHANGED <<served, count, owed>>
    BY <1>5 DEF HelperForwards
  <2>2. connection \in registered \cup {None, Direct}
    BY DEF HelperTypes
  <2> QED
    BY <1>2, <1>3, <2>1, <2>2
<1>6. CASE SendingFails
  <2>1. /\ ~Reaches(forwarded.to) /\ UNCHANGED <<served, count, owed>>
        /\ forwarded.try \in 1 .. 2
    BY <1>6 DEF SendingFails, HelperTypes
  <2>2. CASE forwarded.try = 1
    <3>1. WithBGMAppRemoteProxy(2, None)
      BY <1>6, <2>2 DEF SendingFails
    <3> QED
      BY <1>2, <1>3, <2>1, <3>1
  <2>3. CASE forwarded.try = 2
    <3>1. forwarded' = NoCall /\ Answer(TRUE) /\ UNCHANGED <<connection, directGoes>>
      BY <1>6, <2>3 DEF SendingFails, Answer
    <3>2. ~served
      BY <2>1, <2>3, XPCHelperAssumption DEF Served, Reaches
    <3>3. FlagTypes'
      BY <1>1, <2>1, <3>1 DEF FlagTypes, listener, Answer
    <3>4. HelperTypes'
      BY <1>1, <1>4, <3>1 DEF HelperTypes
    <3>5. Served'
      BY <1>1, <2>1, <3>2 DEF Served
    <3> QED
      BY <1>2, <3>3, <3>4, <3>5
  <2> QED
    BY <2>1, <2>2, <2>3
<1>7. CASE BGMAppReplies
  <2>1. /\ forwarded' = NoCall /\ Answer(FALSE)
        /\ UNCHANGED <<connection, directGoes, served, count, owed>>
    BY <1>7 DEF BGMAppReplies, helper
  <2>2. FlagTypes'
    BY <1>1, <2>1 DEF FlagTypes, listener, Answer
  <2>3. HelperTypes'
    BY <1>1, <1>4, <2>1 DEF HelperTypes
  <2>4. forwarded'.try = 0 /\ (served' => ~unreachable')
    BY <1>4, <2>1 DEF Served, Answer
  <2>5. Served'
    BY <1>1, <2>1, <2>4 DEF Served
  <2> QED
    BY <1>2, <2>2, <2>3, <2>5
<1>8. CASE DriverCalls
  <2>1. /\ forwarded = NoCall /\ driver' = "sent" /\ unreachable' = FALSE
        /\ served' = (endpoint = "current") /\ owed' = FALSE /\ Event
        /\ UNCHANGED <<connection, directGoes, forwarded>>
    BY <1>8 DEF DriverCalls, helper
  <2>2. count' \in 0 .. MaxEvents
    BY <2>1, XPCHelperAssumption DEF Event, FlagTypes
  <2>3. FlagTypes'
    BY <1>1, <2>1, <2>2 DEF FlagTypes, listener
  <2>4. HelperTypes'
    BY <1>1, <2>1 DEF HelperTypes
  <2>5. forwarded'.try = 0
    BY <1>4, <2>1
  <2>6. /\ endpoint' = "current" => alive'
        /\ served' => endpoint' = "current" /\ ~unreachable'
    BY <1>1, <2>1 DEF Served
  <2>7. Served'
    BY <2>5, <2>6 DEF Served
  <2> QED
    BY <1>2, <2>3, <2>4, <2>7
<1>9. CASE CallTimesOut
  <2>1. Answer(FALSE) /\ UNCHANGED <<connection, directGoes, forwarded, served, count, owed>>
    BY <1>9 DEF CallTimesOut, helper
  <2>2. FlagTypes'
    BY <1>1, <2>1 DEF FlagTypes, listener, Answer
  <2>3. HelperTypes'
    BY <1>1, <2>1 DEF HelperTypes
  <2>4. Served'
    BY <1>1, <2>1 DEF Served, Answer
  <2> QED
    BY <1>2, <2>2, <2>3, <2>4
<1> QED
  BY <1>5, <1>6, <1>7, <1>8, <1>9 DEF CallStep

(* A message more on a connection, and one less. *)
LEMMA Sent ==
  ASSUME ChannelTypes, NEW c \in Conn, NEW message \in Messages,
         Len(channel[c]) <= 2, channel' = [channel EXCEPT ![c] = Append(@, message)]
  PROVE  ChannelTypes' /\ Len(channel'[c]) = Len(channel[c]) + 1
<1>1. channel[c] \in Seq(Messages) /\ Len(channel[c]) \in Nat
  BY DEF ChannelTypes
<1>2. /\ Append(channel[c], message) \in Seq(Messages)
      /\ Len(Append(channel[c], message)) = Len(channel[c]) + 1
  BY <1>1
<1>3. /\ channel' = [channel EXCEPT ![c] = channel'[c]]
      /\ channel'[c] = Append(channel[c], message)
  BY DEF ChannelTypes
<1> QED
  BY <1>1, <1>2, <1>3 DEF ChannelTypes

LEMMA OneReceived ==
  ASSUME ChannelTypes, NEW c \in Conn, channel[c] # <<>>, Received(c)
  PROVE  /\ ChannelTypes'
         /\ \A d \in Conn : Len(channel'[d]) <= Len(channel[d])
<1>1. channel[c] \in Seq(Messages) /\ Len(channel[c]) \in Nat
  BY DEF ChannelTypes
<1>2. Tail(channel[c]) \in Seq(Messages) /\ Len(Tail(channel[c])) <= Len(channel[c])
  BY <1>1
<1>3. /\ channel' = [channel EXCEPT ![c] = channel'[c]]
      /\ channel'[c] = Tail(channel[c])
  BY DEF ChannelTypes, Received
<1>4. \A d \in Conn : Len(channel[d]) \in Nat
  BY DEF ChannelTypes
<1>5. channel' \in [Conn -> Seq(Messages)]
  BY <1>2, <1>3 DEF ChannelTypes
<1>6. \A d \in Conn : Len(channel'[d]) <= Len(channel[d])
  BY <1>2, <1>3, <1>4 DEF ChannelTypes
<1>7. \A d \in Conn : Len(channel'[d]) \in Nat
  BY <1>5
<1>8. \A d \in Conn : Len(channel'[d]) <= 3
  BY <1>4, <1>6, <1>7 DEF ChannelTypes
<1> QED
  BY <1>5, <1>6, <1>8 DEF ChannelTypes

(* What the helper does with a message, a lost connection or a block. *)
LEMMA HelperStepKeepsInv ==
  ASSUME HelperInv, HelperStep
  PROVE  HelperInv'
<1> USE DEF HelperInv
<1>1. UNCHANGED <<alive, main, helperConnection, managerConnection, retryTimer, timerBlock,
                  retries, events, greeted, unattended, open, driver, forwarded, unreachable, served,
                  count>>
  BY DEF HelperStep, RegisterAsBGMApp, SetOutputDevice, HelperLosesApp,
         UnsetBGMDeviceAsDefault, DirectConnectionGoes, listener, call, wire
<1>2. CASE \E c \in Conn : RegisterAsBGMApp(c)
  <2>1. PICK c \in Conn : RegisterAsBGMApp(c)
    BY <1>2
  <2>2. /\ channel[c] # <<>> /\ Received(c)
        /\ endpoint' = (IF alive THEN "current" ELSE "old")
        /\ connection' = c /\ registered' = registered \cup {c}
        /\ replies' = IF c \in open /\ Due(c, "register") THEN replies \cup {c} ELSE replies
        /\ UNCHANGED <<closing, directGoes, knows, cleanUps, ours, owed>>
    BY <2>1 DEF RegisterAsBGMApp, Due
  <2>3. FlagTypes'
    BY <1>1, <2>2 DEF FlagTypes
  <2>4. ConnectionTypes'
    <3>1. replies' \subseteq open
      BY <2>2 DEF ConnectionTypes
    <3> QED
      BY <1>1, <2>2, <3>1 DEF ConnectionTypes
  <2>5. ChannelTypes' /\ Backlog'
    BY <1>1, <2>2, OneReceived DEF Backlog, ChannelTypes
  <2>6. HelperTypes'
    BY <1>1, <2>2 DEF HelperTypes
  <2>7. Served'
    BY <1>1, <2>2 DEF Served
  <2> QED
    BY <2>3, <2>4, <2>5, <2>6, <2>7
<1>3. CASE \E c \in Conn : SetOutputDevice(c)
  <2>1. PICK c \in Conn : SetOutputDevice(c)
    BY <1>3
  <2>2. /\ channel[c] # <<>> /\ Received(c) /\ knows' = knows \cup {c}
        /\ UNCHANGED <<replies, closing, endpoint, connection, directGoes, registered,
                       cleanUps, ours, owed>>
    BY <2>1 DEF SetOutputDevice, Due
  <2>3. ChannelTypes' /\ Backlog'
    BY <1>1, <2>2, OneReceived DEF Backlog, ChannelTypes
  <2>4. FlagTypes' /\ Served'
    BY <1>1, <2>2 DEF FlagTypes, Served
  <2>5. ConnectionTypes' /\ HelperTypes'
    BY <1>1, <2>2 DEF ConnectionTypes, HelperTypes
  <2> QED
    BY <2>3, <2>4, <2>5
<1>4. CASE \E c \in Conn : HelperLosesApp(c)
  <2>1. PICK c \in Conn : HelperLosesApp(c)
    BY <1>4
  <2>2. /\ closing' = closing \ {c} /\ registered' = registered \ {c}
        /\ knows' \subseteq knows /\ cleanUps' \subseteq cleanUps \cup {c}
        /\ connection' = (IF c \in registered THEN None ELSE connection)
        /\ UNCHANGED <<channel, replies, endpoint, directGoes, ours, owed>>
    BY <2>1 DEF HelperLosesApp
  <2>3. HelperTypes'
    BY <1>1, <2>2 DEF HelperTypes
  <2>4. FlagTypes' /\ Served'
    BY <1>1, <2>2 DEF FlagTypes, Served
  <2>5. ConnectionTypes'
    BY <1>1, <2>2 DEF ConnectionTypes
  <2>6. ChannelTypes' /\ Backlog'
    BY <1>1, <2>2 DEF ChannelTypes, Backlog
  <2> QED
    BY <2>3, <2>4, <2>5, <2>6
<1>5. CASE \E c \in Conn : UnsetBGMDeviceAsDefault(c)
  <2>1. PICK c \in Conn : UnsetBGMDeviceAsDefault(c)
    BY <1>5
  <2>2. /\ cleanUps' = cleanUps \ {c} /\ knows' = knows \ {c}
        /\ ours' \in BOOLEAN /\ owed' \in BOOLEAN
        /\ UNCHANGED <<channel, replies, closing, endpoint, connection, directGoes, registered>>
    BY <2>1 DEF UnsetBGMDeviceAsDefault, wire
  <2>3. FlagTypes' /\ Served'
    BY <1>1, <2>2 DEF FlagTypes, Served
  <2>4. ConnectionTypes' /\ HelperTypes'
    BY <1>1, <2>2 DEF ConnectionTypes, HelperTypes
  <2>5. ChannelTypes' /\ Backlog'
    BY <1>1, <2>2 DEF ChannelTypes, Backlog
  <2> QED
    BY <2>3, <2>4, <2>5
<1>6. CASE DirectConnectionGoes
  <2>1. /\ directGoes' \in BOOLEAN /\ connection' = None
        /\ UNCHANGED <<channel, replies, closing, endpoint, registered, knows, cleanUps, ours, owed>>
    BY <1>6 DEF DirectConnectionGoes, wire
  <2>2. FlagTypes'
    BY <1>1, <2>1 DEF FlagTypes
  <2>5. Served'
    BY <1>1, <2>1 DEF Served
  <2>3. ConnectionTypes' /\ HelperTypes'
    BY <1>1, <2>1 DEF ConnectionTypes, HelperTypes
  <2>4. ChannelTypes' /\ Backlog'
    BY <1>1, <2>1 DEF ChannelTypes, Backlog
  <2> QED
    BY <2>2, <2>3, <2>4, <2>5
<1> QED
  BY <1>2, <1>3, <1>4, <1>5, <1>6 DEF HelperStep

(* BGMApp or the helper goes. *)
LEMMA StopKeepsInv ==
  ASSUME HelperInv, Stops
  PROVE  HelperInv'
<1> USE DEF HelperInv
<1>1. CASE \E cleanly \in BOOLEAN : BGMAppGoes(cleanly)
  <2>1. PICK cleanly \in BOOLEAN : BGMAppGoes(cleanly)
    BY <1>1
  <2>2. /\ alive' = FALSE /\ main' = "idle" /\ ours' = (ours /\ ~cleanly)
        /\ helperConnection' = None /\ managerConnection' = None
        /\ retryTimer' = FALSE /\ timerBlock' = FALSE /\ retries' = {} /\ events' = {}
        /\ greeted' = FALSE /\ unattended' = FALSE /\ served' = FALSE /\ owed' \in BOOLEAN
        /\ open' = {} /\ closing' = closing \cup open /\ replies' = {}
        /\ endpoint' = (IF endpoint = "current" THEN "old" ELSE endpoint)
        /\ directGoes' \in BOOLEAN
        /\ forwarded' = [forwarded EXCEPT !.to = None]
        /\ UNCHANGED <<channel, connection, registered, knows, cleanUps, driver, unreachable,
                       count>>
    BY <2>1 DEF BGMAppGoes, Close, ConnectionTypes
  <2>3. forwarded' \in [try : 0 .. 2, to : Conn \cup {Direct, None}]
    BY <2>2 DEF HelperTypes
  <2>4. HelperTypes'
    BY <2>2, <2>3 DEF HelperTypes
  <2>5. FlagTypes'
    BY <2>2 DEF FlagTypes
  <2>6. ConnectionTypes'
    BY <2>2 DEF ConnectionTypes
  <2>7. ChannelTypes' /\ Backlog' /\ Served'
    BY <2>2 DEF ChannelTypes, Backlog, Served
  <2> QED
    BY <2>4, <2>5, <2>6, <2>7
<1>2. CASE \E event \in {"interrupted", "invalidated"} : HelperStops(event)
  <2>1. PICK event \in {"interrupted", "invalidated"} : HelperStops(event)
    BY <1>2
  <2>2. /\ endpoint' = "none" /\ connection' = None /\ directGoes' = FALSE
        /\ registered' = {} /\ knows' = {} /\ cleanUps' = {}
        /\ closing' = {} /\ replies' = {} /\ channel' = [c \in Conn |-> <<>>]
        /\ events' = events \cup {<<c, event>> : c \in open}
        /\ timerBlock' \in BOOLEAN
        /\ driver' = "idle" /\ forwarded' = NoCall
        /\ served' = FALSE /\ owed' = FALSE /\ Event
        /\ UNCHANGED <<alive, main, retryTimer, retries, greeted, unattended, ours>>
    BY <2>1 DEF HelperStops
  <2>3. \/ open' = {} /\ managerConnection' = None /\ helperConnection' = None
        \/ UNCHANGED <<open, managerConnection, helperConnection>>
    BY <2>1 DEF HelperStops
  <2>4. unreachable' \in BOOLEAN
    BY <2>1 DEF HelperStops
  <2>5. count' \in 0 .. MaxEvents
    BY <2>2, XPCHelperAssumption DEF Event, FlagTypes
  <2>6. FlagTypes'
    BY <2>2, <2>4, <2>5 DEF FlagTypes
  <2>7. ConnectionTypes'
    <3>1. events' \subseteq Conn \X {"interrupted", "invalidated"}
      BY <2>2 DEF ConnectionTypes
    <3> QED
      BY <2>2, <2>3, <3>1 DEF ConnectionTypes
  <2>8. ChannelTypes' /\ Backlog'
    BY <2>2 DEF ChannelTypes, Backlog
  <2>9. HelperTypes'
    <3>1. NoCall \in [try : 0 .. 2, to : Conn \cup {Direct, None}]
      BY DEF NoCall
    <3> QED
      BY <2>2, <3>1 DEF HelperTypes
  <2> QED
    BY <2>2, <2>6, <2>7, <2>8, <2>9 DEF Served
<1> QED
  BY <1>1, <1>2 DEF Stops

(* A new connection takes the place of what BGMApp has. *)
LEMMA InitKeepsConnections ==
  ASSUME ConnectionTypes, ChannelTypes, Backlog, InitHelperConnection
  PROVE  ConnectionTypes' /\ Backlog' /\ ChannelTypes'
<1>1. /\ helperConnection' = None /\ retries' = retries /\ channel' = channel
      /\ managerConnection' = (IF managerConnection = helperConnection
                               THEN None ELSE managerConnection)
  BY DEF InitHelperConnection
<1>2. CASE helperConnection = None
  <2>1. UNCHANGED <<open, closing, replies, events>>
    BY <1>2 DEF InitHelperConnection
  <2> QED
    BY <1>1, <2>1 DEF ConnectionTypes, ChannelTypes, Backlog
<1>3. CASE helperConnection # None
  <2>1. /\ open' = open \ {helperConnection}
        /\ closing' = closing \cup {helperConnection}
        /\ replies' = replies \ {helperConnection}
        /\ events' = (events \ {<<helperConnection, "interrupted">>})
                       \cup {<<helperConnection, "invalidated">>}
    BY <1>3 DEF InitHelperConnection, Close
  <2>2. helperConnection \in open /\ helperConnection \in Conn
    BY <1>3 DEF ConnectionTypes
  <2>3. events' \subseteq Conn \X {"interrupted", "invalidated"}
    BY <2>1, <2>2 DEF ConnectionTypes
  <2>4. open' \subseteq Conn /\ closing' \subseteq Conn \ open' /\ replies' \subseteq open'
    BY <2>1, <2>2 DEF ConnectionTypes
  <2>5. managerConnection' \in open' \cup {None}
    BY <1>1, <2>1 DEF ConnectionTypes
  <2>6. ConnectionTypes'
    BY <1>1, <2>3, <2>4, <2>5 DEF ConnectionTypes
  <2>7. \A c \in Conn : <<c, "interrupted">> \in events' => <<c, "interrupted">> \in events
    BY <2>1
  <2> QED
    BY <1>1, <2>6, <2>7 DEF ChannelTypes, Backlog
<1> QED
  BY <1>2, <1>3

(* What BGMApp does about its connections. *)
LEMMA AppStepKeepsInv ==
  ASSUME HelperInv, AppStep
  PROVE  HelperInv'
<1> USE DEF HelperInv
<1>1. UNCHANGED <<endpoint, connection, directGoes, registered, knows, cleanUps,
                  driver, forwarded, unreachable, served>>
  BY DEF AppStep, Connect, Registered, InterruptionHandler, InvalidationHandler,
         RetryAfterTimeout, TimerFires, Launch, UserReconnects, OutputDeviceChanges,
         helper, call
<1>2. HelperTypes'
  BY <1>1 DEF HelperTypes
<1>3. alive => alive'
  BY DEF AppStep, Connect, Registered, InterruptionHandler, InvalidationHandler,
         RetryAfterTimeout, TimerFires, Launch, UserReconnects, OutputDeviceChanges
<1>4. Served'
  BY <1>1, <1>3 DEF Served
<1>5. ASSUME Event PROVE count' \in 0 .. MaxEvents
  BY <1>5, XPCHelperAssumption DEF Event, FlagTypes
<1>6. CASE \E c \in Conn : Connect(c)
  <2>1. PICK c \in Conn : Connect(c)
    BY <1>6
  <2>2. /\ main' = "idle" /\ Forgotten(c)
        /\ helperConnection' = c /\ managerConnection' = c
        /\ open' = {c} /\ closing' = closing \cup open /\ replies' = {}
        /\ channel' = [channel EXCEPT ![c] = <<"register", "device">>]
        /\ retries' = retries \ {c}
        /\ UNCHANGED <<alive, retryTimer, timerBlock, events, greeted, unattended, ours, count, owed>>
    BY <2>1 DEF Connect
  <2>3. FlagTypes'
    BY <1>1, <2>2 DEF FlagTypes
  <2>4. c \notin open \cup closing /\ <<c, "interrupted">> \notin events
    <3>1. \A e \in events : e[1] # c
      BY <2>2 DEF Forgotten
    <3> QED
      BY <2>2, <3>1 DEF Forgotten
  <2>5. ConnectionTypes'
    BY <2>2, <2>4 DEF ConnectionTypes
  <2>6. /\ <<"register", "device">> \in Seq(Messages)
        /\ Len(<<"register", "device">>) = 2
    BY DEF Messages
  <2>7. ChannelTypes'
    BY <2>2, <2>6 DEF ChannelTypes
  <2>8. Backlog'
    BY <2>2, <2>4 DEF Backlog, ChannelTypes
  <2> QED
    BY <1>2, <1>4, <2>3, <2>5, <2>7, <2>8
<1>7. CASE \E c \in Conn : Registered(c)
  <2>1. PICK c \in Conn : Registered(c)
    BY <1>7
  <2>2. /\ replies' = replies \ {c} /\ retryTimer' \in BOOLEAN /\ {greeted', unattended'} \subseteq BOOLEAN
        /\ retries' = retries \cup ({helperConnection} \ {None})
        /\ UNCHANGED <<alive, main, helperConnection, managerConnection, timerBlock, events,
                       open, channel, closing, ours, count, owed>>
    BY <2>1 DEF Registered
  <2>3. FlagTypes'
    BY <1>1, <2>2 DEF FlagTypes
  <2>4. ConnectionTypes'
    BY <2>2 DEF ConnectionTypes
  <2>5. ChannelTypes' /\ Backlog'
    BY <2>2 DEF ChannelTypes, Backlog
  <2> QED
    BY <1>2, <1>4, <2>3, <2>4, <2>5
<1>8. CASE \E c \in Conn : InterruptionHandler(c)
  <2>1. PICK c \in Conn : InterruptionHandler(c)
    BY <1>8
  <2>2. /\ <<c, "interrupted">> \in events /\ events' = events \ {<<c, "interrupted">>}
        /\ channel' = (IF c \in open THEN [channel EXCEPT ![c] = Append(@, "registerAgain")]
                       ELSE channel)
        /\ UNCHANGED <<alive, main, helperConnection, managerConnection, retryTimer,
                       timerBlock, retries, greeted, unattended, open, replies, closing, ours, count, owed>>
    BY <2>1 DEF InterruptionHandler
  <2>3. FlagTypes'
    BY <1>1, <2>2 DEF FlagTypes
  <2>4. ConnectionTypes'
    BY <2>2 DEF ConnectionTypes
  <2>5. ChannelTypes'
    <3>1. Len(channel[c]) <= 2 /\ "registerAgain" \in Messages
      BY <2>2 DEF Backlog, Messages
    <3>2. CASE c \in open
      BY <2>2, <3>1, <3>2, Sent
    <3>3. CASE c \notin open
      BY <2>2, <3>3 DEF ChannelTypes
    <3> QED
      BY <3>2, <3>3
  <2>6. Backlog'
    <3>1. \A d \in Conn : <<d, "interrupted">> \in events' =>
            d # c /\ <<d, "interrupted">> \in events
      BY <2>2
    <3>2. \A d \in Conn : d # c => channel'[d] = channel[d]
      BY <2>2 DEF ChannelTypes
    <3> QED
      BY <3>1, <3>2 DEF Backlog
  <2> QED
    BY <1>2, <1>4, <2>3, <2>4, <2>5, <2>6
<1>9. CASE \E c \in Conn : InvalidationHandler(c)
  <2>1. PICK c \in Conn : InvalidationHandler(c)
    BY <1>9
  <2>2. /\ events' = events \ {<<c, "invalidated">>}
        /\ UNCHANGED <<alive, main, managerConnection, retryTimer, retries, greeted, unattended,
                       channel, ours, count, owed>>
    BY <2>1 DEF InvalidationHandler
  <2>3. ChannelTypes' /\ Backlog'
    BY <2>2 DEF ChannelTypes, Backlog
  <2>4. CASE c \in retries
    <3>1. /\ helperConnection' = None /\ timerBlock' = TRUE
          /\ open' = {d \in open : d \in {managerConnection}}
          /\ closing' = closing \cup {d \in open : d \notin {managerConnection}}
          /\ replies' = {d \in replies : d \in {managerConnection}}
      BY <2>1, <2>4 DEF InvalidationHandler, Close, Releasing, ConnectionTypes
    <3>2. FlagTypes'
      BY <1>1, <2>2, <3>1 DEF FlagTypes
    <3>3. ConnectionTypes'
      BY <2>2, <3>1 DEF ConnectionTypes
    <3> QED
      BY <1>2, <1>4, <2>3, <3>2, <3>3
  <2>5. CASE c \notin retries
    <3>1. UNCHANGED <<helperConnection, timerBlock, open, closing, replies>>
      BY <2>1, <2>5 DEF InvalidationHandler
    <3>2. FlagTypes'
      BY <1>1, <2>2, <3>1 DEF FlagTypes
    <3>3. ConnectionTypes'
      BY <2>2, <3>1 DEF ConnectionTypes
    <3> QED
      BY <1>2, <1>4, <2>3, <3>2, <3>3
  <2> QED
    BY <2>4, <2>5
<1>10. CASE RetryAfterTimeout
  <2>1. /\ timerBlock' \in BOOLEAN /\ retryTimer' \in BOOLEAN
        /\ UNCHANGED <<alive, main, helperConnection, managerConnection, retries, events,
                       greeted, unattended, open, channel, replies, closing, ours, count, owed>>
    BY <1>10 DEF RetryAfterTimeout, wire
  <2>2. FlagTypes'
    BY <1>1, <2>1 DEF FlagTypes
  <2>3. ConnectionTypes'
    BY <2>1 DEF ConnectionTypes
  <2>4. ChannelTypes' /\ Backlog'
    BY <2>1 DEF ChannelTypes, Backlog
  <2> QED
    BY <1>2, <1>4, <2>2, <2>3, <2>4
<1>11. CASE TimerFires \/ UserReconnects
  <2>1. /\ InitHelperConnection /\ count' \in 0 .. MaxEvents
        /\ UNCHANGED <<alive, ours, owed>>
    BY <1>5, <1>11 DEF TimerFires, UserReconnects, FlagTypes
  <2>2. main' = "connecting" /\ UNCHANGED <<retryTimer, timerBlock, greeted, unattended>>
    BY <2>1 DEF InitHelperConnection
  <2>3. FlagTypes'
    BY <1>1, <2>1, <2>2 DEF FlagTypes
  <2> QED
    BY <1>2, <1>4, <2>1, <2>3, InitKeepsConnections
<1>12. CASE Launch
  <2>1. /\ Event /\ alive' = TRUE /\ ours' = TRUE /\ owed' = FALSE /\ main' = "connecting"
        /\ UNCHANGED <<helperConnection, managerConnection, retryTimer, timerBlock,
                       retries, events, greeted, unattended, open, channel, replies, closing>>
    BY <1>12 DEF Launch, wire
  <2>2. FlagTypes'
    BY <1>1, <1>5, <2>1 DEF FlagTypes
  <2>3. ConnectionTypes'
    BY <2>1 DEF ConnectionTypes
  <2>4. ChannelTypes' /\ Backlog'
    BY <2>1 DEF ChannelTypes, Backlog
  <2> QED
    BY <1>2, <1>4, <2>2, <2>3, <2>4
<1>13. CASE OutputDeviceChanges
  <2>2. managerConnection # None
    BY <1>13 DEF OutputDeviceChanges
  <2> PICK c \in Conn : c = managerConnection
    BY <2>2 DEF ConnectionTypes
  <2>1. /\ Event
        /\ channel' = [channel EXCEPT ![c] = IF Len(@) < 2 THEN Append(@, "device") ELSE @]
        /\ UNCHANGED <<alive, main, helperConnection, managerConnection, retryTimer,
                       timerBlock, retries, events, greeted, unattended, open, replies, closing, ours, owed>>
    BY <1>13 DEF OutputDeviceChanges, listener
  <2>3. FlagTypes'
    BY <1>1, <1>5, <2>1 DEF FlagTypes
  <2>4. ConnectionTypes'
    BY <2>1 DEF ConnectionTypes
  <2>5. CASE Len(channel[c]) < 2
    <3>1. channel' = [channel EXCEPT ![c] = Append(@, "device")]
      BY <2>1, <2>5
    <3>2. Len(channel[c]) \in Nat /\ "device" \in Messages
      BY DEF ChannelTypes, Messages
    <3>7. Len(channel[c]) <= 2
      BY <2>5, <3>2
    <3>3. ChannelTypes' /\ Len(channel'[c]) = Len(channel[c]) + 1
      BY <3>1, <3>2, <3>7, Sent
    <3>4. \A d \in Conn : d # c => channel'[d] = channel[d]
      BY <3>1 DEF ChannelTypes
    <3>5. Len(channel'[c]) <= 2
      BY <2>5, <3>2, <3>3
    <3>6. Backlog'
      BY <2>1, <3>4, <3>5 DEF Backlog
    <3> QED
      BY <1>2, <1>4, <2>3, <2>4, <3>3, <3>6
  <2>6. CASE ~(Len(channel[c]) < 2)
    <3>1. channel' = channel
      BY <2>1, <2>6 DEF ChannelTypes
    <3>2. ChannelTypes' /\ Backlog'
      BY <2>1, <3>1 DEF ChannelTypes, Backlog
    <3> QED
      BY <1>2, <1>4, <2>3, <2>4, <3>2
  <2> QED
    BY <2>5, <2>6
<1> QED
  BY <1>6, <1>7, <1>8, <1>9, <1>10, <1>11, <1>12, <1>13 DEF AppStep

-----------------------------------------------------------------------------
(* The invariant holds initially and is kept by every step. *)
LEMMA HelperInvInit ==
  ASSUME HelperInit
  PROVE  HelperInv
<1>1. NoCall \in [try : 0 .. 2, to : Conn \cup {Direct, None}] /\ NoCall.try = 0
  BY DEF NoCall
<1>2. FlagTypes
  <2>1. count \in 0 .. MaxEvents
    BY XPCHelperAssumption DEF HelperInit
  <2> QED
    BY <2>1 DEF HelperInit, FlagTypes
<1>3. ConnectionTypes
  BY DEF HelperInit, ConnectionTypes
<1>6. ChannelTypes
  BY DEF HelperInit, ChannelTypes
<1>4. HelperTypes
  BY <1>1 DEF HelperInit, HelperTypes
<1>5. Backlog /\ Served
  BY DEF HelperInit, Backlog, Served
<1> QED
  BY <1>2, <1>3, <1>4, <1>5, <1>6 DEF HelperInv

LEMMA HelperInvKept ==
  ASSUME HelperInv, [HelperNext]_helperVars
  PROVE  HelperInv'
<1>1. CASE HelperNext
  BY <1>1, HelperSteps, AppStepKeepsInv, HelperStepKeepsInv, CallKeepsInv, StopKeepsInv
<1>2. CASE UNCHANGED helperVars
  <2> USE <1>2 DEF HelperInv, helperVars, listener, wire, helper, call
  <2>1. FlagTypes'
    BY DEF FlagTypes
  <2>2. ConnectionTypes' /\ ChannelTypes'
    BY DEF ConnectionTypes, ChannelTypes
  <2>3. HelperTypes' /\ Backlog' /\ Served'
    BY DEF HelperTypes, Backlog, Served
  <2> QED
    BY <2>1, <2>2, <2>3
<1> QED
  BY <1>1, <1>2

(* The invariant of XPCHelper. *)
THEOREM HelperInvariance == HelperSpec => []HelperInv
<1>1. HelperInit => HelperInv
  BY HelperInvInit
<1>2. HelperInv /\ [HelperNext]_helperVars => HelperInv'
  BY HelperInvKept
<1> QED
  BY <1>1, <1>2, PTL DEF HelperSpec

(* Both processes keep the types of their variables, and no connection ever *)
(* has more than three messages under way, however often the helper is      *)
(* restarted.                                                               *)
THEOREM HelperTypeCorrect == HelperSpec => []HelperTypeOK
<1>1. HelperInv => HelperTypeOK
  BY DEF HelperInv, FlagTypes, ConnectionTypes, ChannelTypes, HelperTypes, HelperTypeOK
<1> QED
  BY <1>1, HelperInvariance, PTL

(* The driver's call is not answered that BGMApp cannot be reached while it *)
(* stays registered, whatever dead connection the helper comes upon         *)
(* (WCXPCHelperService.mm, withBGMAppRemoteProxy).                          *)
THEOREM CallsGetThrough == HelperSpec => []CallGetsThrough
<1>1. HelperInv => CallGetsThrough
  BY DEF HelperInv, Served, CallGetsThrough
<1> QED
  BY <1>1, HelperInvariance, PTL
=============================================================================
