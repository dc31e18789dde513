---------------------------- MODULE DoNotDisturb ----------------------------
(***************************************************************************)
(* WCDoNotDisturb (app): muting every app but one by setting its volume in *)
(* the driver to the minimum, and giving it its own volume back.           *)
(*                                                                         *)
(* Everything runs on the app's main thread.  A pass over the running apps *)
(* is a step for each app, as every one is a call to the driver, and ends  *)
(* by persisting the volumes saved.  The driver keeps a volume only for    *)
(* apps that are its clients: an app becomes one when it first uses audio, *)
(* at any time after its launch, and gets the volume the last client of    *)
(* the same bundle was added with.  NSWorkspace tells of apps that come    *)
(* and go some time after they did.  Any call to the driver may fail, and  *)
(* BGMApp may crash at any time.                                           *)
(***************************************************************************)
EXTENDS Naturals, FiniteSets

CONSTANTS
  App,         \* bundle IDs
  Volume,      \* classes of raw volumes, which the driver's conversions keep
  Min,         \* kAppRelativeVolumeMinRawValue: muted
  Default,     \* the middle of the range
  None,        \* no client, no entry, no app
  MaxEvents    \* bound on what happens outside WCDoNotDisturb

ASSUME DoNotDisturbAssumption ==
  /\ {Min, Default} \subseteq Volume /\ Min # Default
  /\ None \notin Volume \cup App /\ MaxEvents \in Nat

VARIABLES
  running,    \* apps that run
  listed,     \* NSWorkspace's runningApplications
  notices,    \* changes to it still to come, for each app
  client,     \* the volume of the app's client in the driver
  past,       \* the volume in mPastClientMap
  alive,      \* BGMApp runs
  enabled,    \* WCDoNotDisturb::enabled
  mutedApps,  \* the volume saved for each app that is muted
  defaults,   \* what WCUserDefaults keeps
  pc, todo,   \* what the main thread does, and the apps it has not come to
  events,
  own,        \* ghost: the volume the app had when it was last not muted
  strange,    \* ghost: why an app that DND wants muted may not be
  lost        \* ghost: apps whose volume has been lost, see below

apps == <<running, listed, notices>>
driver == <<client, past>>
dnd == <<alive, enabled, mutedApps, defaults, pc, todo>>
ghosts == <<own, strange, lost>>
dndVars == <<apps, driver, dnd, events, ghosts>>

Entry == Volume \cup {None}

DNDTypeOK ==
  /\ running \subseteq App /\ listed \subseteq App
  /\ notices \in [App -> 0 .. 2]
  /\ client \in [App -> Entry] /\ past \in [App -> Entry]
  /\ alive \in BOOLEAN /\ enabled \in BOOLEAN
  /\ mutedApps \in [App -> Entry]
  /\ defaults \in [enabled : BOOLEAN, priority : App \cup {None}, mutedApps : [App -> Entry]]
  /\ pc \in {"idle", "apply", "restore"} /\ todo \subseteq App
  /\ pc = "idle" => todo = {}
  /\ events \in 0 .. MaxEvents
  /\ own \in [App -> Entry] /\ lost \subseteq App
  /\ strange \in [App -> {"no", "late", "slid", "failed", "crashed"}]

Nothing == [a \in App |-> None]

DNDInit ==
  /\ running \in SUBSET App /\ listed = running /\ notices = [a \in App |-> 0]
  /\ client \in [App -> {None, Default}]
  /\ \A a \in App : client[a] # None => a \in running
  /\ past = client /\ own = client
  /\ alive = TRUE /\ enabled = FALSE /\ mutedApps = Nothing
  /\ defaults = [enabled |-> FALSE, priority |-> None, mutedApps |-> Nothing]
  /\ pc = "idle" /\ todo = {} /\ events = 0 /\ strange = [a \in App |-> "no"]
  /\ lost = {}

-----------------------------------------------------------------------------
(* The driver, as far as this class sees it.                               *)

\* SetClientsRelativeVolume: an app that is not a client is left alone.
SetAppVolume(a, v) ==
  client' = IF client[a] # None THEN [client EXCEPT ![a] = v] ELSE client

\* A mutant: the volume the app has is not looked up.
DefaultForEveryone(a) == Default

\* currentVolumeForBundleID: the list has the clients, then the past clients,
\* of both only those whose volume is not the default.
CurrentVolume(a) ==
  IF client[a] \notin {None, Default} THEN client[a]
  ELSE IF past[a] \notin {None, Default} THEN past[a] ELSE Default

\* Whether the app's entry, in memory or kept for the next launch, says that
\* it is muted.
HasEntry(a) == (IF alive THEN mutedApps ELSE defaults.mutedApps)[a] # None

Because(a, why) == [strange EXCEPT ![a] = why]

(***************************************************************************)
(* An app's volume is lost when BGMApp crashes in a pass that has changed  *)
(* the app's entry, which is persisted at the end, or that is to drop all  *)
(* entries; and when restoring it fails, since the entry is dropped.  It   *)
(* is not any more, with no entry left, when the user sets another volume  *)
(* or the app becomes a client anew, or when it is restored after all.     *)
(***************************************************************************)
Unsaved ==
  {a \in App : \/ mutedApps[a] # defaults.mutedApps[a]
               \/ pc = "restore" /\ defaults.mutedApps[a] # None}

Event == events < MaxEvents /\ events' = events + 1

\* AddClient: "if this client has been a client in the past".  Assumed: the
\* list of running apps has lost an app's old process before the new one uses
\* audio.
AddClient(a) ==
  /\ a \in running /\ client[a] = None /\ notices[a] < 2
  /\ LET v == IF past[a] # None THEN past[a] ELSE Default IN
     /\ client' = [client EXCEPT ![a] = v]
     /\ past' = [past EXCEPT ![a] = v]
     /\ own' = [own EXCEPT ![a] = v]
  /\ strange' = IF HasEntry(a) THEN Because(a, "late") ELSE strange
  /\ lost' = IF HasEntry(a) THEN lost ELSE lost \ {a}
  /\ UNCHANGED <<apps, dnd, events>>

RemoveClient(a) ==
  /\ a \notin running /\ client[a] # None
  /\ client' = [client EXCEPT ![a] = None]
  /\ own' = [own EXCEPT ![a] = None]
  /\ UNCHANGED <<apps, past, dnd, events, strange, lost>>

\* The driver starts with no clients; the apps that run are added again.
CoreaudiodRestarts ==
  /\ Event
  /\ client' = Nothing /\ past' = Nothing /\ own' = Nothing
  /\ UNCHANGED <<apps, dnd, strange, lost>>

-----------------------------------------------------------------------------
(* The other apps.  An app's new process is no client before the old one   *)
(* has been removed.                                                       *)

Launch(a) ==
  /\ Event /\ a \notin running /\ client[a] = None /\ notices[a] < 2
  /\ running' = running \cup {a}
  /\ notices' = [notices EXCEPT ![a] = @ + 1]
  /\ UNCHANGED <<listed, driver, dnd, ghosts>>

Quit(a) ==
  /\ Event /\ a \in running /\ notices[a] < 2
  /\ running' = running \ {a}
  /\ notices' = [notices EXCEPT ![a] = @ + 1]
  /\ UNCHANGED <<listed, driver, dnd, ghosts>>

\* The slider of the app in the menu.
UserSlides(a, v) ==
  /\ Event /\ alive /\ pc = "idle" /\ a \in listed /\ client[a] # None
  /\ SetAppVolume(a, v)
  /\ own' = IF mutedApps[a] = None \/ ~enabled THEN [own EXCEPT ![a] = v] ELSE own
  /\ strange' = IF mutedApps[a] = None THEN strange ELSE Because(a, "slid")
  /\ lost' = IF mutedApps[a] = None THEN lost \ {a} ELSE lost
  /\ UNCHANGED <<apps, past, dnd>>

-----------------------------------------------------------------------------
(* The pass over the running apps.                                         *)

\* The start of applyForRunningApps: apps that have quit are dropped.
ApplyForRunningApps(saved, list) ==
  /\ pc' = "apply" /\ todo' = list
  /\ mutedApps' = [a \in App |-> IF a \in list THEN saved[a] ELSE None]

\* muteApp: the entry is there before the driver is told.  Either call may fail.
MuteApp(a) ==
  \/ /\ mutedApps' = [mutedApps EXCEPT ![a] = CurrentVolume(a)]
     /\ \/ SetAppVolume(a, Min) /\ strange' = Because(a, "no")
        \/ strange' = Because(a, "failed") /\ UNCHANGED client
     /\ UNCHANGED <<own, lost>>
  \/ strange' = Because(a, "failed") /\ UNCHANGED <<mutedApps, client, own, lost>>

\* restoreAppIfMuted: the entry goes whether or not the driver obeyed.
RestoreAppIfMuted(a) ==
  IF mutedApps[a] = None THEN UNCHANGED <<client, mutedApps, ghosts>>
  ELSE /\ mutedApps' = [mutedApps EXCEPT ![a] = None]
       /\ \/ /\ SetAppVolume(a, mutedApps[a])
             /\ lost' = IF mutedApps[a] = own[a] THEN lost \ {a} ELSE lost
          \/ lost' = lost \cup {a} /\ UNCHANGED client
       /\ strange' = Because(a, "no")
       /\ own' = IF strange[a] # "no" /\ client[a] # None
                 THEN [own EXCEPT ![a] = mutedApps[a]] ELSE own

ApplyTo(a) ==
  /\ alive /\ pc = "apply" /\ a \in todo /\ todo' = todo \ {a}
  /\ IF a = defaults.priority THEN RestoreAppIfMuted(a)
     ELSE IF mutedApps[a] = None THEN MuteApp(a)
     ELSE UNCHANGED <<client, mutedApps, ghosts>>
  /\ UNCHANGED <<apps, past, alive, enabled, defaults, pc, events>>

\* restoreAllMutedApps.
RestoreOne(a) ==
  /\ alive /\ pc = "restore" /\ a \in todo /\ todo' = todo \ {a}
  /\ RestoreAppIfMuted(a)
  /\ UNCHANGED <<apps, past, alive, enabled, defaults, pc, events>>

PersistMutedApps ==
  /\ alive /\ pc # "idle" /\ todo = {} /\ pc' = "idle"
  /\ defaults' = [defaults EXCEPT !.mutedApps = mutedApps]
  /\ UNCHANGED <<apps, driver, alive, enabled, mutedApps, todo, events, ghosts>>

-----------------------------------------------------------------------------
(* What starts it.                                                         *)

SetEnabled(shouldBeEnabled) ==
  /\ Event /\ alive /\ pc = "idle" /\ enabled # shouldBeEnabled
  /\ enabled' = shouldBeEnabled
  /\ defaults' = [defaults EXCEPT !.enabled = shouldBeEnabled]
  /\ IF shouldBeEnabled THEN ApplyForRunningApps(mutedApps, listed)
     ELSE /\ pc' = "restore" /\ todo' = {a \in App : mutedApps[a] # None}
          /\ UNCHANGED mutedApps
  /\ UNCHANGED <<apps, driver, alive, ghosts>>

SetPriorityApp(a) ==
  /\ Event /\ alive /\ pc = "idle" /\ a # defaults.priority
  /\ defaults' = [defaults EXCEPT !.priority = a]
  /\ IF enabled THEN ApplyForRunningApps(mutedApps, listed)
     ELSE UNCHANGED <<mutedApps, pc, todo>>
  /\ UNCHANGED <<apps, driver, alive, enabled, ghosts>>

\* observeValueForKeyPath, once for every change of the list.
RunningApplicationsChanged(a) ==
  /\ alive /\ pc = "idle" /\ notices[a] > 0
  /\ notices' = [notices EXCEPT ![a] = @ - 1]
  /\ listed' = IF a \in listed THEN listed \ {a} ELSE listed \cup {a}
  /\ IF enabled THEN ApplyForRunningApps(mutedApps, listed')
     ELSE UNCHANGED <<mutedApps, pc, todo>>
  /\ UNCHANGED <<running, driver, alive, enabled, defaults, events, ghosts>>

BGMAppGoes ==
  /\ Event /\ alive /\ alive' = FALSE
  /\ pc' = "idle" /\ todo' = {} /\ enabled' = FALSE /\ mutedApps' = Nothing
  /\ lost' = lost \cup Unsaved
  /\ strange' = [a \in App |-> IF a \in Unsaved THEN "crashed" ELSE strange[a]]
  /\ UNCHANGED <<apps, driver, defaults, own>>

\* initWithAudioDevices.
BGMAppStarts ==
  /\ ~alive /\ alive' = TRUE
  /\ listed' = running /\ notices' = [a \in App |-> 0]
  /\ enabled' = defaults.enabled
  /\ IF defaults.enabled THEN ApplyForRunningApps(defaults.mutedApps, running)
     ELSE mutedApps' = defaults.mutedApps /\ UNCHANGED <<pc, todo>>
  /\ UNCHANGED <<running, driver, defaults, events, ghosts>>

DNDNext ==
  \/ \E a \in App : \/ AddClient(a) \/ RemoveClient(a) \/ Launch(a) \/ Quit(a)
                    \/ \E v \in Volume \ {Min} : UserSlides(a, v)
                    \/ ApplyTo(a) \/ RestoreOne(a) \/ RunningApplicationsChanged(a)
  \/ CoreaudiodRestarts \/ PersistMutedApps
  \/ \E e \in BOOLEAN : SetEnabled(e)
  \/ \E a \in App \cup {None} : SetPriorityApp(a)
  \/ BGMAppGoes \/ BGMAppStarts

DNDSpec == DNDInit /\ [][DNDNext]_dndVars

-----------------------------------------------------------------------------
(* Properties.                                                             *)

Settled == alive /\ pc = "idle"
Spared(a) == ~enabled \/ a = defaults.priority

\* While it is on, every app but the priority app is muted that was a client
\* when the pass came to it, whatever came and went and whichever app was
\* spared before, unless a call failed, the user moved its slider, or it was
\* among those that the pass in which BGMApp crashed had changed (Unsaved).
MutedWhileOn ==
  Settled /\ enabled =>
    \A a \in listed : ~Spared(a) /\ client[a] # None =>
      client[a] = Min \/ strange[a] # "no"

\* Any other app has the volume it had before, also after BGMApp was restarted,
\* wherever it stopped (WCDoNotDisturb.h:31-34, WCDoNotDisturb.mm:65-68), unless
\* that volume was lost: restoring it failed, or BGMApp crashed in the pass
\* that muted or restored it (`lost').
VolumesBack ==
  Settled => \A a \in (running \cap listed) \ lost :
               notices[a] = 0 /\ Spared(a) /\ client[a] # None => client[a] = own[a]

\* Whoever should be silent is, and nobody else stays so.
VolumesAsSwitched == MutedWhileOn /\ VolumesBack
=============================================================================
