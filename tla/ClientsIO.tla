------------------------------ MODULE ClientsIO ------------------------------
(* The driver's side of starting and stopping IO on Wavecraft's virtual       *)
(* devices: WC_Clients counts the clients, remembers when one other than the  *)
(* app did IO, and tells the app's listeners when "running somewhere other    *)
(* than in the app" has changed.  It has no behaviour of its own: the HAL and *)
(* DeviceManager call it.                                                     *)
EXTENDS Naturals, FiniteSets

CONSTANTS
    Client,          \* clients other than the app
    On,              \* the virtual device each of them does IO on
    App,             \* the app's own client, for its input IOProcs
    MaxNotices       \* bound on notifications not handled yet, per property

Instance == {"main", "UISounds"}

ASSUME ClientAssumption ==
    On \in [Client -> Instance] /\ App \notin Client /\ MaxNotices \in Nat

VARIABLES
    running,         \* per device: the clients counted by mStartCount
    age,             \* per device: seconds since mLastNonBGMAppIOTime, 2 at most
    cycled,          \* clients that did IO since the clock last ticked
    lastNotified,    \* per device: mLastNotifiedIsRunning
    idleNotices,     \* per device: notices of IsRunningSomewhereOtherThanBGMApp
    runNotices       \* per device: notices of IsRunningSomewhere, from the HAL

driver == <<running, age, cycled, lastNotified, idleNotices, runNotices>>

DriverTypeOK ==
    /\ running \in [Instance -> SUBSET (Client \cup {App})]
    /\ age \in [Instance -> 0..2]
    /\ cycled \subseteq Client
    /\ lastNotified \in [Instance -> BOOLEAN]
    /\ idleNotices \in [Instance -> 0..MaxNotices]
    /\ runNotices \in [Instance -> 0..MaxNotices]

DriverInit ==
    /\ running = [i \in Instance |-> {}]
    /\ age = [i \in Instance |-> 2]
    /\ cycled = {}
    /\ lastNotified = [i \in Instance |-> FALSE]
    /\ idleNotices = [i \in Instance |-> 0]
    /\ runNotices = [i \in Instance |-> 0]

(* mLastNonBGMAppIOTime is zero or two seconds old at age 2.                  *)
OtherThanAppRunning(i) == age[i] < 2

(* Beyond the bound, a notice is merged with those that wait to be handled.   *)
OneMore(notices, i) == [notices EXCEPT ![i] = IF @ < MaxNotices THEN @ + 1 ELSE @]

Notify(i, isRunning) ==
    /\ lastNotified' = [lastNotified EXCEPT ![i] = isRunning]
    /\ idleNotices' = IF isRunning # lastNotified[i]
                      THEN OneMore(idleNotices, i) ELSE idleNotices

(* WC_Clients::StartIO, for one of the app's clients and for another one.  The *)
(* HAL notifies of the first client of a device, and of the last one's end.   *)
NoticeIf(i, changed) ==
    runNotices' = IF changed THEN OneMore(runNotices, i) ELSE runNotices

AppStartsIO(i) ==
    /\ running' = [running EXCEPT ![i] = @ \cup {App}]
    /\ NoticeIf(i, running[i] = {})
    /\ UNCHANGED <<age, cycled, lastNotified, idleNotices>>

ClientStartsIO(c) ==
    /\ running' = [running EXCEPT ![On[c]] = @ \cup {c}]
    /\ age' = [age EXCEPT ![On[c]] = 0]
    /\ cycled' = cycled \cup {c}
    /\ Notify(On[c], TRUE)
    /\ NoticeIf(On[c], running[On[c]] = {})

(* WC_Clients::StopIO.  The last client's end clears the time of the last IO. *)
StopsIO(i, c) ==
    /\ running' = [running EXCEPT ![i] = @ \ {c}]
    /\ cycled' = cycled \ {c}
    /\ IF running[i] = {c} THEN age' = [age EXCEPT ![i] = 2] /\ Notify(i, FALSE)
       ELSE UNCHANGED <<age, lastNotified, idleNotices>>
    /\ NoticeIf(i, running[i] = {c})

(* RecordNonBGMAppIO, from the IO thread, with the client's output.           *)
RecordIO(c) ==
    /\ c \in running[On[c]]
    /\ age' = [age EXCEPT ![On[c]] = 0]
    /\ cycled' = cycled \cup {c}
    /\ UNCHANGED <<running, lastNotified, idleNotices, runNotices>>

(* The inactivity timer, which runs while there are clients.                  *)
TimerFires(i) ==
    /\ running[i] # {}
    /\ Notify(i, OtherThanAppRunning(i))
    /\ UNCHANGED <<running, age, cycled, runNotices>>

(* A second goes by: every client that does IO has done some.                 *)
Tick(i) ==
    /\ age[i] < 2
    /\ running[i] \cap Client \subseteq cycled
    /\ age' = [age EXCEPT ![i] = @ + 1]
    /\ cycled' = cycled \ running[i]
    /\ UNCHANGED <<running, lastNotified, idleNotices, runNotices>>
=============================================================================
