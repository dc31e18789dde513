---------------------------- MODULE AudibleState ----------------------------
(***************************************************************************)
(* WC_AudibleState (driver): whether BGMDevice is silent, plays only the   *)
(* music player, or is audible, worked out from the buffers of every IO    *)
(* cycle.  The class keeps the sample time of the latest silent mix, the   *)
(* latest audible buffer of an ordinary client and the latest silent and   *)
(* audible buffers of the music player.  Only the distances to the end of  *)
(* the current buffer are compared, so the model keeps those, in buffers,  *)
(* up to MinChanged (kDeviceAudibleStateMinChangedFramesForUpdate, 4096    *)
(* frames).                                                                *)
(***************************************************************************)
EXTENDS Naturals

CONSTANT MinChanged  \* buffers in kDeviceAudibleStateMinChangedFramesForUpdate

\* A buffer is shorter than 4096 frames, so one buffer is never enough.
ASSUME MinChangedAssumption == MinChanged \in Nat \ {0, 1}

VARIABLES
  mState,  \* WC_AudibleState::mState
  since    \* since[k]: buffers since the latest sample of kind k

Kinds == {"silent", "nonMusic", "silentMusic", "music"}
DeviceStates == {"silent", "exceptMusic", "audible"}

AudibleTypeOK ==
  /\ mState \in DeviceStates
  /\ since \in [Kinds -> 0 .. MinChanged]

\* Reset: every sample time is 0, where the first buffer starts.
AfterReset == [k \in Kinds |-> 0]

Reset ==
  /\ mState' = "silent"
  /\ since' = AfterReset

KindHeard(isMusicPlayer, audible) ==
  IF isMusicPlayer THEN (IF audible THEN "music" ELSE "silentMusic")
  ELSE (IF audible THEN "nonMusic" ELSE "none")

\* The distances to the end of the next buffer.
OneBufferOn == [k \in Kinds |-> IF since[k] < MinChanged THEN since[k] + 1 ELSE since[k]]

\* The ProcessOutput operations of a cycle, one for each client; heard: what
\* KindHeard says of their buffers.
UpdateWithClientIO(heard) ==
  /\ since' = [k \in Kinds |-> IF k \in heard THEN 0 ELSE OneBufferOn[k]]
  /\ UNCHANGED mState

StartsBeingAudible(s) ==
  mState # "audible" /\ s["silent"] >= MinChanged /\ s["nonMusic"] = 0

\* A mutant: the music is not told from the other sounds for long enough.
StartsBeingMusicOnlyAtOnce(s) == mState # "exceptMusic" /\ s["music"] = 0

StartsBeingMusicOnly(s) ==
  /\ \/ mState = "silent"
     \/ mState = "audible" /\ s["nonMusic"] >= MinChanged
  /\ s["silentMusic"] >= MinChanged
  /\ s["music"] = 0

StartsBeingSilent(s) ==
  mState # "silent" /\ s["nonMusic"] >= MinChanged /\ s["music"] >= MinChanged

\* RecalculateState: the new state, with the distances to the end of the
\* buffer just mixed.
RecalculateState(s) ==
  IF StartsBeingAudible(s) THEN "audible"
  ELSE IF StartsBeingMusicOnly(s) THEN "exceptMusic"
  ELSE IF StartsBeingSilent(s) THEN "silent"
  ELSE mState

\* The last operation of a cycle.
UpdateWithMixedIO(audible) ==
  /\ since' = [since EXCEPT !["silent"] = IF audible THEN @ ELSE 0]
  /\ mState' = RecalculateState(since')

=============================================================================
