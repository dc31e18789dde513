------------------------------ MODULE AutoPause ------------------------------
(***************************************************************************)
(* WCAutoPauseMusic (app) above WC_AudibleState (driver): pausing the      *)
(* music player while something else can be heard.                         *)
(*                                                                         *)
(* The driver's IO thread works out the audible state and has a            *)
(* notification sent when it changes.  The app's listener queue reads the  *)
(* state, which may have changed again, and dispatches a block to the      *)
(* pause/unpause queue after a delay, or acts at once when the delay in    *)
(* the user defaults is 0.  Both queues are serial, and share wePaused,    *)
(* wentAudible and wentSilent without a lock.  Pausing and unpausing are   *)
(* Apple events to another process.  Delays are arbitrary: a block runs at *)
(* any time after it is dispatched.                                        *)
(***************************************************************************)
EXTENDS AudibleState

CONSTANTS
  DelayPairs,        \* <<pauseDelayMS # 0, maxUnpauseDelayMS # 0>> allowed
  MaxNotifications,  \* notifications under way; further ones are merged
  MaxUser            \* bound on what the user does to player and setting

ASSUME AutoPauseAssumption ==
  /\ DelayPairs \subseteq BOOLEAN \X BOOLEAN
  /\ MaxNotifications \in Nat \ {0} /\ MaxUser \in Nat

VARIABLES
  app,       \* an ordinary app plays sound
  playing,   \* the music player plays
  running,   \* IO runs on the device
  turn,      \* the next IO operation of the cycle
  delays,    \* which of the two delays are not 0
  enabled,   \* WCAutoPauseMusic::enabled
  notified,  \* calls of the listener block that are under way
  wePaused,  \* WCAutoPauseMusic::wePaused
  waiting,   \* the latest pause and unpause blocks not yet started
  pc,        \* where each queue is; for the listener also the state it read
  latest,    \* the block being run is the most recent of its kind
  user,      \* what the user did to player and setting so far
  debt,      \* ghost: pause paused the player and unpause was not called since
  held,      \* ghost: who paused the player, and whether the app still knows
  crossed    \* ghost: one queue paused while the other was about to unpause

io == <<mState, since, turn>>
blocks == <<waiting, pc, latest>>
ghosts == <<debt, held, crossed>>
outside == <<app, running>>
settings == <<delays, enabled, user>>
vars == <<io, outside, playing, settings, notified, wePaused, blocks, ghosts>>

Listener == "listenerQueue"
Pauser == "pauseUnpauseMusicQueue"
Queues == {Listener, Pauser}
PauseDelayed == delays[1]
UnpauseDelayed == delays[2]

Points == DeviceStates \cup
          {"idle", "mayPause", "pause", "assignYES", "assignNO",
           "mayUnpause", "unpause"}

TypeOK ==
  /\ AudibleTypeOK
  /\ app \in BOOLEAN /\ playing \in BOOLEAN /\ running \in BOOLEAN
  /\ turn \in {"clients", "mix"}
  /\ delays \in DelayPairs /\ enabled \in BOOLEAN
  /\ notified \in 0 .. MaxNotifications
  /\ wePaused \in BOOLEAN
  /\ waiting \subseteq {"mayPause", "mayUnpause"}
  /\ pc \in [Queues -> Points]
  /\ latest \in BOOLEAN
  /\ user \in 0 .. MaxUser
  /\ debt \in BOOLEAN /\ held \in {"no", "held", "forgotten"} /\ crossed \in BOOLEAN

Init ==
  /\ mState = "silent" /\ since = AfterReset /\ turn = "clients"
  /\ app = FALSE /\ playing \in BOOLEAN /\ running = playing
  /\ delays \in DelayPairs /\ enabled = TRUE
  /\ notified = 0 /\ wePaused = FALSE
  /\ waiting = {} /\ pc = [q \in Queues |-> "idle"]
  /\ latest = TRUE
  /\ user = 0 /\ debt = FALSE /\ held = "no" /\ crossed = FALSE

-----------------------------------------------------------------------------
(* The driver.                                                             *)

Notifications == IF notified < MaxNotifications THEN notified + 1 ELSE notified

\* The ProcessOutput operations.  A paused player may still be a client that
\* sends silence, or none at all.
ClientIO ==
  /\ running /\ turn = "clients" /\ turn' = "mix"
  /\ \/ UpdateWithClientIO({KindHeard(FALSE, app), KindHeard(TRUE, playing)})
     \/ ~playing /\ UpdateWithClientIO({KindHeard(FALSE, app)})
  /\ UNCHANGED <<outside, playing, settings, notified, wePaused, blocks, ghosts>>

\* A mutant: a change to audible is not notified.
WriteMixWithoutAudible ==
  /\ running /\ turn = "mix" /\ turn' = "clients"
  /\ UpdateWithMixedIO(app \/ playing)
  /\ notified' = IF enabled /\ mState' # mState /\ mState' # "audible"
                 THEN Notifications ELSE notified
  /\ UNCHANGED <<outside, playing, settings, wePaused, blocks, ghosts>>

\* The WriteMix operation, which ends the cycle.
WriteMix ==
  /\ running /\ turn = "mix" /\ turn' = "clients"
  /\ UpdateWithMixedIO(app \/ playing)
  /\ notified' = IF enabled /\ mState' # mState THEN Notifications ELSE notified
  /\ UNCHANGED <<outside, playing, settings, wePaused, blocks, ghosts>>

\* The first client starts IO.
StartIO ==
  /\ ~running /\ (app \/ playing) /\ running' = TRUE
  /\ Reset /\ turn' = "clients"
  /\ UNCHANGED <<app, playing, settings, notified, wePaused, blocks, ghosts>>

\* BGMApp's own client keeps IO running until the device has been idle for
\* much longer than MinChanged buffers (WCPlayThrough::StopIfIdle).
StopIO ==
  /\ running /\ turn = "clients" /\ ~app /\ ~playing
  /\ since["nonMusic"] = MinChanged /\ since["music"] = MinChanged
  /\ running' = FALSE
  /\ UNCHANGED <<io, app, playing, settings, notified, wePaused, blocks, ghosts>>

-----------------------------------------------------------------------------
(* The other apps and the user.                                            *)

AppStartsOrStops ==
  /\ app' = ~app
  /\ UNCHANGED <<io, playing, running, settings, notified, wePaused, blocks, ghosts>>

UserPlaysOrPauses ==
  /\ user < MaxUser /\ user' = user + 1
  /\ playing' = ~playing /\ held' = "no"
  /\ UNCHANGED <<io, outside, delays, enabled, notified, wePaused, blocks, debt, crossed>>

\* enable and disable: the state is not read, blocks already dispatched stay.
UserToggles ==
  /\ user < MaxUser /\ user' = user + 1
  /\ enabled' = ~enabled
  /\ UNCHANGED <<io, outside, playing, delays, notified, wePaused, blocks, ghosts>>

-----------------------------------------------------------------------------
(* The blocks of the app.                                                  *)

Goto(q, p) == pc' = [pc EXCEPT ![q] = p]

\* The listener block reads the audible state, ...
ListenerReads ==
  /\ pc[Listener] = "idle" /\ notified > 0 /\ notified' = notified - 1
  /\ Goto(Listener, mState)
  /\ UNCHANGED <<io, outside, playing, settings, wePaused, waiting, latest, ghosts>>

\* ... and acts on what it read.  It sets wentAudible or wentSilent: a block of
\* that kind that is running is no longer the latest, and one that is waiting
\* would do nothing (it is dropped).
Newer(kind) == latest' = (latest /\ pc[Pauser] # kind)

QueuePauseBlock ==
  /\ pc[Listener] = "audible"
  /\ Newer("mayPause")
  /\ waiting' = IF PauseDelayed THEN waiting \cup {"mayPause"} ELSE waiting
  /\ Goto(Listener, IF ~PauseDelayed /\ ~wePaused /\ mState = "audible"
                    THEN "pause" ELSE "idle")
  /\ UNCHANGED <<io, outside, playing, settings, notified, wePaused, ghosts>>

\* A mutant: without a delay, wePaused is left set.
QueueUnpauseBlockKeepsFlag ==
  /\ pc[Listener] = "silent"
  /\ Newer("mayUnpause")
  /\ waiting' = IF UnpauseDelayed THEN waiting \cup {"mayUnpause"} ELSE waiting
  /\ Goto(Listener, IF ~UnpauseDelayed /\ wePaused /\ mState = "silent"
                    THEN "unpause" ELSE "idle")
  /\ UNCHANGED <<io, outside, playing, settings, notified, wePaused, ghosts>>

\* Without a delay: unpause at once if the device is still silent.
QueueUnpauseBlock ==
  /\ pc[Listener] = "silent"
  /\ Newer("mayUnpause")
  /\ waiting' = IF UnpauseDelayed THEN waiting \cup {"mayUnpause"} ELSE waiting
  /\ LET now == ~UnpauseDelayed /\ wePaused /\ mState = "silent" IN
     /\ wePaused' = (wePaused /\ ~now)
     /\ Goto(Listener, IF now THEN "unpause" ELSE "idle")
  /\ UNCHANGED <<io, outside, playing, settings, notified, ghosts>>

ResetWePaused ==
  /\ pc[Listener] = "exceptMusic"
  /\ wePaused' = FALSE
  /\ held' = IF held = "held" THEN "forgotten" ELSE held
  /\ Goto(Listener, "idle")
  /\ UNCHANGED <<io, outside, playing, settings, notified, waiting, latest, debt, crossed>>

\* The delay of a block has passed.  It reads the audible state first, and in
\* the wrong state it does nothing.
BlockStarts(kind) ==
  /\ pc[Pauser] = "idle" /\ kind \in waiting
  /\ waiting' = waiting \ {kind}
  /\ Goto(Pauser, IF mState = (IF kind = "mayPause" THEN "audible" ELSE "silent")
                  THEN kind ELSE "idle")
  /\ UNCHANGED <<io, outside, playing, settings, notified, wePaused, latest, ghosts>>

PauseBlock ==
  /\ pc[Pauser] = "mayPause"
  /\ latest' = TRUE
  /\ Goto(Pauser, IF ~wePaused /\ latest THEN "pause" ELSE "idle")
  /\ UNCHANGED <<io, outside, playing, settings, notified, wePaused, waiting, ghosts>>

UnpauseBlock ==
  /\ pc[Pauser] = "mayUnpause"
  /\ latest' = TRUE
  /\ wePaused' = (wePaused /\ ~latest)
  /\ Goto(Pauser, IF wePaused /\ latest THEN "unpause" ELSE "idle")
  /\ UNCHANGED <<io, outside, playing, settings, notified, waiting, ghosts>>

\* WCMusicPlayer::pause: YES if the player was playing.
Pause(q) ==
  /\ pc[q] = "pause"
  /\ playing' = FALSE
  /\ debt' = (debt \/ playing)
  /\ held' = IF playing THEN "held" ELSE held
  /\ crossed' = (crossed \/ \E r \in Queues : pc[r] = "unpause")
  /\ Goto(q, IF playing THEN "assignYES" ELSE "assignNO")
  /\ UNCHANGED <<io, outside, settings, notified, wePaused, waiting, latest>>

Assign(q) ==
  /\ pc[q] \in {"assignYES", "assignNO"}
  /\ wePaused' = (pc[q] = "assignYES" \/ wePaused)
  /\ Goto(q, "idle")
  /\ UNCHANGED <<io, outside, playing, settings, notified, waiting, latest, ghosts>>

\* WCMusicPlayer::unpause plays only if the player is paused.  Nothing is left of
\* a crossing when the flag is not set and about to be.
Unpause(q) ==
  /\ pc[q] = "unpause"
  /\ playing' = TRUE
  /\ debt' = FALSE /\ held' = "no"
  /\ crossed' = (crossed /\ (wePaused \/ \E r \in Queues : pc[r] = "assignYES"))
  /\ Goto(q, "idle")
  /\ UNCHANGED <<io, outside, settings, notified, wePaused, waiting, latest>>

-----------------------------------------------------------------------------
IOThread == ClientIO \/ WriteMix \/ StartIO
ListenerQueue ==
  \/ ListenerReads \/ QueuePauseBlock \/ QueueUnpauseBlock \/ ResetWePaused
  \/ Pause(Listener) \/ Assign(Listener) \/ Unpause(Listener)
PauseUnpauseMusicQueue ==
  \/ \E kind \in {"mayPause", "mayUnpause"} : BlockStarts(kind)
  \/ PauseBlock \/ UnpauseBlock
  \/ Pause(Pauser) \/ Assign(Pauser) \/ Unpause(Pauser)

Next ==
  \/ IOThread \/ StopIO \/ ListenerQueue \/ PauseUnpauseMusicQueue
  \/ AppStartsOrStops \/ UserPlaysOrPauses \/ UserToggles

Spec == Init /\ [][Next]_vars

\* The HAL calls the IO operations as long as a client does IO, and libdispatch
\* runs each queue's blocks once they are due.
FairSpec ==
  /\ Spec
  /\ WF_vars(IOThread) /\ WF_vars(ListenerQueue) /\ WF_vars(PauseUnpauseMusicQueue)

-----------------------------------------------------------------------------
(* Properties.                                                             *)

\* The app unpauses the player only when it paused it and has not unpaused
\* it since, with delays, without, or with one of them 0: wePaused is cleared
\* before every unpause, on whichever queue (WCAutoPauseMusic.mm:184-185,
\* 237-239).  The one exception needs two queues, so one delay of 0 and the
\* other not: one queue paused the player while the other, past its clearing
\* of the flag, was about to unpause it; the flag is then set for a player
\* that plays, and the next silence unpauses what the user may have paused.
UnpausesOnlyWhatItPaused ==
  \A q \in Queues :
    pc[q] = "unpause" => debt \/ (crossed /\ PauseDelayed # UnpauseDelayed)

\* The device comes to report what is played, and goes on reporting it, if
\* that stays the same (WC_AudibleState::RecalculateState): no history of
\* sounds leaves the state machine stuck in another state, or wavering.
Expected == IF app THEN "audible" ELSE IF playing THEN "exceptMusic" ELSE "silent"
StateFollowsSound ==
  \/ <>[](running => mState = Expected)
  \/ []<><<app' # app \/ playing' # playing \/ running' # running>>_vars

\* An app that goes on playing gets the music out of its way, unless the app
\* thinks that it paused the player already (the user has started it again):
\* no notification, delay or late block loses the pause
\* (WCAutoPauseMusic.h:22-23).  A listener that pauses without a delay can
\* find wePaused still set, by a delayed unpause block that is past its look
\* at the audible state, and the pause is lost.  (user only grows.)
PausesForAudio ==
  <>[](app /\ user = 0 /\ (UnpauseDelayed => PauseDelayed))
    => <>[](~playing \/ wePaused)

\* Music the app paused plays again once everything else is silent, unless
\* the listener has reset wePaused meanwhile.  A listener that unpauses
\* without a delay can come between a delayed block's pause and its setting of
\* wePaused, and the music stays paused.
ResumesUnlessReset ==
  <>[](~app /\ user = 0 /\ (PauseDelayed => UnpauseDelayed))
    => <>[](held # "held")

\* Both: the music yields to other audio and comes back after it.
MusicYields == PausesForAudio /\ ResumesUnlessReset
=============================================================================
