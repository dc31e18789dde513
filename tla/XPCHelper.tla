------------------------------ MODULE XPCHelper ------------------------------
(***************************************************************************)
(* BGMXPCHelper, between the driver and BGMApp: BGMApp registers with it   *)
(* (WCXPCListener, WCXPCHelperService), the driver's StartIO calls BGMApp  *)
(* through it (BGM_XPCHelper.m), and when it loses BGMApp it gives the     *)
(* user's output device back as the default device.                        *)
(*                                                                         *)
(* Both processes stop and start.  A connection carries messages in order; *)
(* a stop of the helper interrupts BGMApp's connections, or invalidates    *)
(* them when the service itself goes, and a stop of BGMApp invalidates     *)
(* them at the helper.  The handlers of different connections run in any   *)
(* order.  launchd starts the helper for the next message, so a stop only  *)
(* clears what it knows.  Assumed: BGMApp is launched again only after the *)
(* helper has seen its old process go, and messages and handlers take less *)
(* than the second before the helper's clean-up and the ten seconds of     *)
(* BGMApp's retry timer.                                                   *)
(***************************************************************************)
EXTENDS Naturals, Sequences, FiniteSets

CONSTANTS
  Conn,        \* BGMApp's connections to the helper: numbers, the least unused is next
  None,
  Direct,      \* the helper's own connection, made from BGMApp's endpoint
  MaxEvents    \* bound on launches of BGMApp, stops of the helper, changes of the
               \* output device and uses of "Reconnect to BGMXPCHelper"

ASSUME XPCHelperAssumption ==
  /\ Conn \subseteq Nat /\ None \notin Conn /\ Direct \notin Conn /\ None # Direct
  /\ MaxEvents \in Nat

VARIABLES
  alive,             \* BGMApp runs
  main,              \* its main thread: idle, or in initHelperConnection
  helperConnection,  \* WCXPCListener::helperConnection
  managerConnection, \* WCAudioDeviceManager::bgmXPCHelperConnection
  retryTimer,        \* WCXPCListener::retryTimer
  timerBlock,        \* the block that sets the timer is on the main queue
  retries,           \* connections whose invalidation handler retries
  events,            \* handlers of connections that are due
  open,              \* connections not invalidated or released by BGMApp
  channel,           \* messages to the helper
  replies,           \* replies to registrations
  endpoint,          \* sBGMAppEndpoint: none, of the running BGMApp, or old
  connection,        \* sBGMAppConnection
  directGoes,        \* the invalidation handler of the helper's own connection is due
  registered,        \* services a BGMApp has registered with
  knows,             \* services that were told the output device
  closing,           \* connections the helper is to see invalidated
  cleanUps,          \* services whose clean-up block is due
  driver,            \* the driver's call
  forwarded,         \* the call the helper makes for it
  unreachable,       \* the last call was answered with kBGMXPC_MessageFailure
  ours,              \* BGMDevice is the default device
  count,             \* such events so far
  served,            \* ghost: BGMApp was registered when the call began, and still is
  greeted,           \* ghost: the helper has replied to a registration of this BGMApp
  unattended,        \* ghost: when it last did, the new connection had been cleared
  owed               \* ghost: the helper is to give the default device back

listener == <<main, helperConnection, managerConnection, retryTimer, timerBlock, retries, events, greeted,
              unattended>>
wire == <<open, channel, replies, closing>>
helper == <<endpoint, connection, directGoes, registered, knows, cleanUps>>
call == <<driver, forwarded, unreachable, served>>
helperVars == <<alive, listener, wire, helper, call, ours, count, owed>>

Messages == {"register", "registerAgain", "device"}
NoCall == [try |-> 0, to |-> None]

HelperTypeOK ==
  /\ alive \in BOOLEAN /\ ours \in BOOLEAN
  /\ main \in {"idle", "connecting"}
  /\ helperConnection \in open \cup {None}
  /\ managerConnection \in open \cup {None}
  /\ retryTimer \in BOOLEAN /\ timerBlock \in BOOLEAN
  /\ retries \subseteq Conn
  /\ events \subseteq Conn \X {"interrupted", "invalidated"}
  /\ open \subseteq Conn
  /\ channel \in [Conn -> Seq(Messages)] /\ \A c \in Conn : Len(channel[c]) <= 3
  /\ replies \subseteq open /\ closing \subseteq Conn \ open
  /\ endpoint \in {"none", "current", "old"}
  /\ connection \in registered \cup {None, Direct}
  /\ registered \subseteq Conn /\ knows \subseteq Conn /\ cleanUps \subseteq Conn
  /\ driver \in {"idle", "sent", "forwarded"}
  /\ forwarded \in [try : 0 .. 2, to : Conn \cup {Direct, None}]
  /\ unreachable \in BOOLEAN
  /\ count \in 0 .. MaxEvents
  /\ directGoes \in BOOLEAN
  /\ {served, greeted, unattended, owed} \subseteq BOOLEAN

HelperInit ==
  /\ alive = FALSE /\ main = "idle"
  /\ helperConnection = None /\ managerConnection = None
  /\ retryTimer = FALSE /\ timerBlock = FALSE /\ retries = {} /\ events = {}
  /\ open = {} /\ channel = [c \in Conn |-> <<>>] /\ replies = {} /\ closing = {}
  /\ endpoint = "none" /\ connection = None /\ directGoes = FALSE
  /\ registered = {} /\ knows = {} /\ cleanUps = {}
  /\ driver = "idle" /\ forwarded = NoCall /\ unreachable = FALSE /\ served = FALSE
  /\ ours = FALSE /\ count = 0
  /\ greeted = FALSE /\ unattended = FALSE /\ owed = FALSE

Event == count < MaxEvents /\ count' = count + 1

\* Nothing anywhere refers to the connection.
Forgotten(c) ==
  /\ c \notin open \cup closing \cup cleanUps \cup registered \cup knows
  /\ c # forwarded.to
  /\ \A e \in events : e[1] # c

-----------------------------------------------------------------------------
(* BGMApp: WCXPCListener.                                                  *)

\* Connections BGMApp no longer refers to are released: the helper sees them go.
Releasing(kept) == {c \in open : c \notin kept}

Close(cs) ==
  /\ open' = open \ cs /\ closing' = closing \cup cs
  /\ replies' = replies \ cs

\* continueLaunchAfterInputDevicePermissionGranted, up to the listener.
Launch ==
  /\ ~alive /\ closing = {} /\ Event
  /\ alive' = TRUE /\ ours' = TRUE /\ owed' = FALSE
  /\ main' = "connecting"
  /\ UNCHANGED <<helperConnection, managerConnection, retryTimer, timerBlock,
                 retries, events, greeted, unattended, wire, helper, call>>

\* initHelperConnectionWithErrorHandler: the existing connection is
\* invalidated, ...
InitHelperConnection ==
  /\ main' = "connecting" /\ helperConnection' = None
  /\ IF helperConnection = None THEN UNCHANGED <<open, closing, replies, events>>
     ELSE /\ Close({helperConnection})
          /\ events' = (events \ {<<helperConnection, "interrupted">>})
                         \cup {<<helperConnection, "invalidated">>}
  /\ managerConnection' = IF managerConnection = helperConnection
                          THEN None ELSE managerConnection
  /\ UNCHANGED <<retryTimer, timerBlock, retries, greeted, unattended, channel>>

\* ... and a new one is made, registers, and is passed to the device manager,
\* which tells the helper the output device.
Connect(c) ==
  /\ alive /\ main = "connecting" /\ main' = "idle"
  /\ Forgotten(c) /\ \A d \in Conn : Forgotten(d) => c <= d
  /\ helperConnection' = c /\ managerConnection' = c
  /\ open' = {c} /\ closing' = closing \cup open /\ replies' = {}
  /\ channel' = [channel EXCEPT ![c] = <<"register", "device">>]
  /\ retries' = retries \ {c}
  /\ UNCHANGED <<alive, retryTimer, timerBlock, events, greeted, unattended, helper,
                 call, ours, count, owed>>

\* The reply to the first registration of a connection.  The handler is set
\* on whatever helperConnection is by then: on none, if the handler of the
\* connection before has cleared it.
Registered(c) ==
  /\ c \in replies /\ replies' = replies \ {c}
  /\ retryTimer' = FALSE
  /\ greeted' = TRUE /\ unattended' = (helperConnection = None)
  /\ retries' = retries \cup ({helperConnection} \ {None})
  /\ UNCHANGED <<alive, main, helperConnection, managerConnection, timerBlock, events,
                 open, channel, closing, helper, call, ours, count, owed>>

InterruptionHandler(c) ==
  /\ <<c, "interrupted">> \in events /\ events' = events \ {<<c, "interrupted">>}
  /\ channel' = IF c \in open THEN [channel EXCEPT ![c] = Append(@, "registerAgain")]
                ELSE channel
  /\ UNCHANGED <<alive, main, helperConnection, managerConnection, retryTimer, timerBlock,
                 retries, greeted, unattended, open, replies, closing, helper, call, ours,
                 count, owed>>

\* The handler of a connection that has registered clears helperConnection,
\* whichever connection that is, and has the timer set.
InvalidationHandler(c) ==
  /\ <<c, "invalidated">> \in events /\ events' = events \ {<<c, "invalidated">>}
  /\ IF c \in retries
     THEN /\ helperConnection' = None /\ timerBlock' = TRUE
          /\ Close(Releasing({managerConnection}))
     ELSE UNCHANGED <<helperConnection, timerBlock, open, closing, replies>>
  /\ UNCHANGED <<alive, main, managerConnection, retryTimer, retries, greeted, unattended,
                 channel, helper, call, ours, count, owed>>

\* A mutant: the timer fires only once.
RetryOnce ==
  /\ timerBlock /\ main = "idle" /\ timerBlock' = FALSE
  /\ UNCHANGED <<alive, main, helperConnection, managerConnection, retryTimer, retries,
                 events, greeted, unattended, wire, helper, call, ours, count, owed>>

RetryAfterTimeout ==
  /\ timerBlock /\ main = "idle"
  /\ timerBlock' = FALSE /\ retryTimer' = TRUE
  /\ UNCHANGED <<alive, main, helperConnection, managerConnection, retries, events,
                 greeted, unattended, wire, helper, call, ours, count, owed>>

TimerFires ==
  /\ alive /\ retryTimer /\ main = "idle"
  /\ replies = {} /\ \A c \in open : channel[c] = <<>>
  /\ InitHelperConnection
  /\ UNCHANGED <<alive, helper, call, ours, count, owed>>

\* WCTroubleshootMenu::reconnectXPCHelper.
UserReconnects ==
  /\ alive /\ main = "idle" /\ Event
  /\ InitHelperConnection
  /\ UNCHANGED <<alive, helper, call, ours, owed>>

\* sendOutputDeviceToBGMXPCHelper, after a change of the output device.
OutputDeviceChanges ==
  /\ alive /\ Event
  /\ managerConnection # None
  /\ channel' = [channel EXCEPT ![managerConnection] =
                   IF Len(@) < 2 THEN Append(@, "device") ELSE @]
  /\ UNCHANGED <<alive, listener, open, replies, closing, helper, call, ours, owed>>

\* BGMApp quits, which sets the default device back, or crashes.
BGMAppGoes(cleanly) ==
  /\ alive /\ alive' = FALSE /\ main' = "idle"
  /\ ours' = (ours /\ ~cleanly)
  /\ owed' = /\ ours' /\ open \cap registered \cap knows # {}
             /\ driver = "idle" /\ forwarded = NoCall /\ ~directGoes
  /\ helperConnection' = None /\ managerConnection' = None
  /\ retryTimer' = FALSE /\ timerBlock' = FALSE /\ retries' = {} /\ events' = {}
  /\ greeted' = FALSE /\ unattended' = FALSE /\ served' = FALSE
  /\ Close(open)
  /\ endpoint' = IF endpoint = "current" THEN "old" ELSE endpoint
  /\ directGoes' = (directGoes \/ connection = Direct)
  /\ forwarded' = [forwarded EXCEPT !.to = None]
  /\ UNCHANGED <<channel, connection, registered, knows, cleanUps, driver, unreachable, count>>

-----------------------------------------------------------------------------
(* The helper: WCXPCHelperService.                                         *)

Received(c) == channel' = [channel EXCEPT ![c] = Tail(@)]

Due(c, message) == channel[c] # <<>> /\ Head(channel[c]) = message

RegisterAsBGMApp(c) ==
  /\ Due(c, "register") \/ Due(c, "registerAgain")
  /\ Received(c)
  /\ endpoint' = IF alive THEN "current" ELSE "old"
  /\ connection' = c /\ registered' = registered \cup {c}
  /\ replies' = IF c \in open /\ Due(c, "register") THEN replies \cup {c} ELSE replies
  /\ UNCHANGED <<alive, listener, open, closing, directGoes, knows, cleanUps, call, ours,
                 count, owed>>

SetOutputDevice(c) ==
  /\ Due(c, "device") /\ Received(c)
  /\ knows' = knows \cup {c}
  /\ UNCHANGED <<alive, listener, open, replies, closing, endpoint, connection,
                 directGoes, registered, cleanUps, call, ours, count, owed>>

\* A mutant: losing BGMApp only clears the connection.
HelperLosesAppQuietly(c) ==
  /\ c \in closing /\ channel[c] = <<>> /\ closing' = closing \ {c}
  /\ registered' = registered \ {c} /\ knows' = knows \ {c}
  /\ connection' = IF c \in registered THEN None ELSE connection
  /\ UNCHANGED <<alive, listener, open, channel, replies, endpoint, directGoes, cleanUps, call, ours,
                 count, owed>>

\* A mutant: the connection is kept.
HelperKeepsConnection(c) ==
  /\ c \in closing /\ channel[c] = <<>> /\ closing' = closing \ {c}
  /\ registered' = registered \ {c}
  /\ IF c \in registered
     THEN cleanUps' = cleanUps \cup {c} /\ UNCHANGED knows
     ELSE knows' = knows \ {c} /\ UNCHANGED cleanUps
  /\ UNCHANGED <<alive, listener, open, channel, replies, endpoint, connection, directGoes,
                 call, ours, count, owed>>

\* The invalidation handler registerAsBGMApp has set: it clears the
\* connection, whichever it is, and a second later cleans up.
HelperLosesApp(c) ==
  /\ c \in closing /\ channel[c] = <<>> /\ closing' = closing \ {c}
  /\ registered' = registered \ {c}
  /\ IF c \in registered
     THEN connection' = None /\ cleanUps' = cleanUps \cup {c} /\ UNCHANGED knows
     ELSE knows' = knows \ {c} /\ UNCHANGED <<connection, cleanUps>>
  /\ UNCHANGED <<alive, listener, open, channel, replies, endpoint, directGoes, call, ours,
                 count, owed>>

\* A second later: the messages and handlers that were due have run.
UnsetBGMDeviceAsDefault(c) ==
  /\ c \in cleanUps /\ closing = {} /\ ~directGoes /\ \A d \in Conn : channel[d] = <<>>
  /\ cleanUps' = cleanUps \ {c} /\ knows' = knows \ {c}
  /\ ours' = (ours /\ ~(connection = None /\ c \in knows))
  /\ owed' = (owed /\ ours')
  /\ UNCHANGED <<alive, listener, wire, endpoint, connection, directGoes, registered, call,
                 count>>

\* The invalidation handler of the connection made from the endpoint.
DirectConnectionGoes ==
  /\ directGoes /\ directGoes' = FALSE /\ connection' = None
  /\ UNCHANGED <<alive, listener, wire, endpoint, registered, knows, cleanUps, call,
                 ours, count, owed>>

\* The helper stops.  A registration under way after an interruption fails,
\* which has the timer set.
HelperStops(event) ==
  /\ Event
  /\ endpoint' = "none" /\ connection' = None /\ directGoes' = FALSE
  /\ registered' = {} /\ knows' = {} /\ cleanUps' = {}
  /\ closing' = {} /\ replies' = {} /\ channel' = [c \in Conn |-> <<>>]
  /\ events' = events \cup {<<c, event>> : c \in open}
  /\ timerBlock' = (timerBlock \/
        \E c \in open : \E i \in DOMAIN channel[c] : channel[c][i] = "registerAgain")
  /\ IF event = "invalidated"
     THEN /\ open' = {} /\ managerConnection' = None
          /\ helperConnection' = None
     ELSE UNCHANGED <<open, managerConnection, helperConnection>>
  /\ driver' = "idle" /\ forwarded' = NoCall
  /\ unreachable' = (unreachable \/ driver # "idle")
  /\ served' = FALSE /\ owed' = FALSE
  /\ UNCHANGED <<alive, main, retryTimer, retries, greeted, unattended, ours>>

-----------------------------------------------------------------------------
(* The driver's call, StartBGMAppPlayThroughSync.                          *)

DriverCalls ==
  /\ driver = "idle" /\ forwarded = NoCall /\ Event
  /\ driver' = "sent" /\ unreachable' = FALSE
  /\ served' = (endpoint = "current") /\ owed' = FALSE
  /\ UNCHANGED <<alive, listener, wire, helper, forwarded, ours>>

\* The driver gets the reply, unless it has given up waiting.
Answer(failure) ==
  /\ driver' = "idle"
  /\ unreachable' = (unreachable \/ (failure /\ driver # "idle"))

\* withBGMAppRemoteProxy, with what sBGMAppConnection is by then.  A
\* connection made from the endpoint of a process that has gone is dead.
WithBGMAppRemoteProxy(try, current) ==
  LET new == current = None /\ endpoint # "none"
      to == IF new THEN Direct ELSE current IN
  /\ connection' = to
  /\ directGoes' = (directGoes \/ (new /\ endpoint = "old"))
  /\ IF to = None THEN forwarded' = NoCall /\ Answer(TRUE)
     ELSE /\ forwarded' = [try |-> try, to |-> IF new /\ endpoint = "old" THEN None ELSE to]
          /\ driver' = (IF driver = "idle" THEN "idle" ELSE "forwarded") /\ UNCHANGED unreachable

HelperForwards ==
  /\ driver = "sent" /\ forwarded = NoCall
  /\ WithBGMAppRemoteProxy(1, connection)
  /\ UNCHANGED <<alive, listener, wire, endpoint, registered, knows, cleanUps, served,
                 ours, count, owed>>

\* Whether a message on the connection reaches BGMApp.
Reaches(to) ==
  to # None /\ (to = Direct \/ to \in open)

\* startPlayThroughSyncWithReply.
BGMAppReplies ==
  /\ forwarded.try > 0 /\ Reaches(forwarded.to)
  /\ forwarded' = NoCall /\ Answer(FALSE)
  /\ UNCHANGED <<alive, listener, wire, helper, served, ours, count, owed>>

\* A mutant: the message is not sent again.
SendingFailsForGood ==
  /\ forwarded.try > 0 /\ ~Reaches(forwarded.to)
  /\ forwarded' = NoCall /\ connection' = None /\ Answer(TRUE) /\ UNCHANGED directGoes
  /\ UNCHANGED <<alive, listener, wire, endpoint, registered, knows, cleanUps, served,
                 ours, count, owed>>

\* The error handler: the first time it forgets the connection, whichever it
\* is, and tries again with a new one.
SendingFails ==
  /\ forwarded.try > 0 /\ ~Reaches(forwarded.to)
  /\ IF forwarded.try = 1 THEN WithBGMAppRemoteProxy(2, None)
     ELSE forwarded' = NoCall /\ Answer(TRUE) /\ UNCHANGED <<connection, directGoes>>
  /\ UNCHANGED <<alive, listener, wire, endpoint, registered, knows, cleanUps, served,
                 ours, count, owed>>

\* kStartIOTimeoutNsec in the helper, or thirty seconds in the driver.
CallTimesOut ==
  /\ driver # "idle" /\ Answer(FALSE)
  /\ UNCHANGED <<alive, listener, wire, helper, forwarded, served, ours, count, owed>>

-----------------------------------------------------------------------------
BGMApp ==
  \/ \E c \in Conn : Connect(c) \/ Registered(c)
                     \/ InterruptionHandler(c) \/ InvalidationHandler(c)
  \/ RetryAfterTimeout \/ TimerFires

BGMXPCHelper ==
  \/ \E c \in Conn : RegisterAsBGMApp(c) \/ SetOutputDevice(c)
                     \/ HelperLosesApp(c) \/ UnsetBGMDeviceAsDefault(c)
  \/ DirectConnectionGoes

HelperNext ==
  \/ BGMApp \/ BGMXPCHelper
  \/ HelperForwards \/ SendingFails
  \/ BGMAppReplies
  \/ DriverCalls \/ CallTimesOut
  \/ Launch \/ UserReconnects \/ OutputDeviceChanges
  \/ \E cleanly \in BOOLEAN : BGMAppGoes(cleanly)
  \/ \E event \in {"interrupted", "invalidated"} : HelperStops(event)

HelperSpec == HelperInit /\ [][HelperNext]_helperVars

\* Blocks and handlers run, messages arrive, timers fire; BGMApp may hang in
\* the driver's call.
FairHelperSpec == HelperSpec /\ WF_helperVars(BGMApp) /\ WF_helperVars(BGMXPCHelper)

-----------------------------------------------------------------------------
(* Properties.                                                             *)

\* While BGMApp stays registered, the driver's call is not answered by the
\* helper that it cannot be reached, whichever dead connection the helper
\* comes upon: it makes a new one from the endpoint and tries again
\* (WCXPCHelperService.mm, withBGMAppRemoteProxy).
CallGetsThrough == served => ~unreachable

\* If BGMApp crashes and stays away, the helper gives the default device back,
\* if it was told the output device since it started and is not called in
\* between (BGMXPCProtocols.h:51-57).
DefaultGivenBack == owed ~> ~owed \/ ~ours

\* Once a registration of this BGMApp has succeeded, it registers again
\* whenever the helper has been restarted (WCXPCListener.mm).  The exception
\* is for good, or until the user reconnects: the reply sets the handler that
\* retries on helperConnection, and after a manual reconnection the handler of
\* the old connection may have cleared that by then.  If such an unattended
\* connection is invalidated, with the helper's service, nothing retries.
Reconnects ==
  <>[](alive /\ greeted /\ ~(unattended /\ managerConnection = None)
       => endpoint = "current")

=============================================================================
