------------------------------- MODULE RTLogger -------------------------------
(***************************************************************************)
(* WCPlayThroughRTLogger: real-time threads leave messages, without a      *)
(* lock, for a thread that logs them.  A message is an error code in one   *)
(* atomic variable, or several plain variables guarded by an atomic flag:  *)
(* the caller sets the flag after storing them and leaves them alone while *)
(* it is set, the logging thread resets it after reading them.             *)
(*                                                                         *)
(* Messages are numbered in the order LogMessages looks at them.  A value  *)
(* is named after the call that stored it; there are two plain variables   *)
(* per message.  Assumed: calls have ended when the destructor begins      *)
(* (PlayThrough has NoUseAfterFree), and semaphore_signal does not fail.   *)
(***************************************************************************)
EXTENDS Naturals

CONSTANTS
  Caller,      \* real-time threads
  Plain,       \* messages stored in plain variables
  Last,        \* the number of messages
  CallersOf,   \* the threads that log a message
  MaxCalls     \* bound on the calls

Message == 1 .. Last

ASSUME RTLoggerAssumption ==
  /\ Last \in Nat \ {0} /\ MaxCalls \in Nat
  /\ Plain \subseteq Message
  /\ CallersOf \in [Message -> SUBSET Caller]

VARIABLES
  shouldLogMessage,  \* the flags of plain messages
  first, second,     \* their variables
  error,             \* the atomic variables of the others, 0: no error
  toLog,             \* what is left to be logged, see below
  step, message, id, \* of a caller: where it is, in which call
  calls,             \* calls so far
  logger, at,        \* the logging thread: where it is, at which message
  read,              \* what it has read of the message
  semaphore,         \* mWakeUpLoggingThreadSemaphore
  shouldExit,        \* mLoggingThreadShouldExit
  destructor         \* where the destructor is

callers == <<step, message, id, calls>>
messages == <<shouldLogMessage, first, second, error, toLog>>
thread == <<logger, at, read>>
vars == <<callers, messages, thread, semaphore, shouldExit, destructor>>

Call == 1 .. MaxCalls
Value == 0 .. MaxCalls

\* The last: the destructor goes on only when the thread has exited.
TypeOK ==
  /\ shouldLogMessage \in [Plain -> BOOLEAN]
  /\ first \in [Plain -> Value] /\ second \in [Plain -> Value]
  /\ error \in [Message \ Plain -> Value]
  /\ toLog \subseteq Value
  /\ step \in [Caller -> {"idle", "first", "second", "flag", "wake"}]
  /\ message \in [Caller -> Message] /\ id \in [Caller -> Value] /\ calls \in Value
  /\ logger \in {"loop", "check", "read", "reset", "wait", "exited"}
  /\ at \in Message /\ read \in Value \X Value
  /\ logger = "read" => at \in Plain
  /\ semaphore \in Nat
  /\ shouldExit \in BOOLEAN
  /\ destructor \in {"none", "signal", "join", "destroy", "done"}
  /\ destructor \in {"destroy", "done"} => logger = "exited"

Init ==
  /\ shouldLogMessage = [m \in Plain |-> FALSE]
  /\ first = [m \in Plain |-> 0] /\ second = [m \in Plain |-> 0]
  /\ error = [m \in Message \ Plain |-> 0] /\ toLog = {}
  /\ step = [c \in Caller |-> "idle"]
  /\ message = [c \in Caller |-> 1] /\ id = [c \in Caller |-> 0] /\ calls = 0
  /\ logger = "loop" /\ at = 1 /\ read = <<0, 0>>
  /\ semaphore = 0 /\ shouldExit = FALSE /\ destructor = "none"

-----------------------------------------------------------------------------
(* Logging, on a real-time thread.                                         *)

Begin(c, m) ==
  /\ step[c] = "idle" /\ c \in CallersOf[m] /\ destructor = "none"
  /\ calls < MaxCalls /\ calls' = calls + 1
  /\ message' = [message EXCEPT ![c] = m] /\ id' = [id EXCEPT ![c] = calls']

(***************************************************************************)
(* toLog, of which the code keeps nothing, has the calls whose message is  *)
(* set and has still to be read.  A call is not in it                      *)
(*   - any longer, when a later error has replaced its own, or another     *)
(*     thread overwrites plain variables that both have found free;        *)
(*   - at all, when it sets its message after the logging thread has       *)
(*     begun to read the one before, and has yet to reset it: the reset    *)
(*     may then erase both.  Of an error that is the time between reading  *)
(*     it and resetting it; only threads that share a message can set a    *)
(*     flag at such a time.                                                *)
(***************************************************************************)
BeingLogged(m) == logger \in {"read", "reset"} /\ at = m
Set(i, m) == IF BeingLogged(m) THEN {} ELSE {i}
Overwritten(c, m, stored) == IF CallersOf[m] = {c} THEN {} ELSE {stored}

Go(c, from, to) == step[c] = from /\ step' = [step EXCEPT ![c] = to]

\* LogIfRingBufferError and the like.
LogError(c, m) ==
  /\ m \notin Plain /\ Begin(c, m) /\ Go(c, "idle", "wake")
  /\ error' = [error EXCEPT ![m] = calls']
  /\ toLog' = (toLog \ {error[m]}) \cup Set(calls', m)
  /\ UNCHANGED <<shouldLogMessage, first, second, thread, semaphore, shouldExit, destructor>>

\* A mutant: the data may be overwritten at any time.
LogAsyncUnchecked(c, m) ==
  /\ m \in Plain /\ Begin(c, m) /\ Go(c, "idle", "first")
  /\ UNCHANGED <<messages, thread, semaphore, shouldExit, destructor>>

LogAsync(c, m) ==
  /\ m \in Plain /\ ~shouldLogMessage[m] /\ Begin(c, m) /\ Go(c, "idle", "first")
  /\ UNCHANGED <<messages, thread, semaphore, shouldExit, destructor>>

StoreFirst(c) ==
  /\ Go(c, "first", "second") /\ first' = [first EXCEPT ![message[c]] = id[c]]
  /\ toLog' = toLog \ Overwritten(c, message[c], first[message[c]])
  /\ UNCHANGED <<message, id, calls, shouldLogMessage, second, error, thread, semaphore,
                 shouldExit, destructor>>

StoreSecond(c) ==
  /\ Go(c, "second", "flag") /\ second' = [second EXCEPT ![message[c]] = id[c]]
  /\ toLog' = toLog \ Overwritten(c, message[c], second[message[c]])
  /\ UNCHANGED <<message, id, calls, shouldLogMessage, first, error, thread, semaphore,
                 shouldExit, destructor>>

SetFlag(c) ==
  /\ Go(c, "flag", "wake")
  /\ shouldLogMessage' = [shouldLogMessage EXCEPT ![message[c]] = TRUE]
  /\ toLog' = IF first[message[c]] = id[c] /\ second[message[c]] = id[c]
              THEN toLog \cup Set(id[c], message[c]) ELSE toLog
  /\ UNCHANGED <<message, id, calls, first, second, error, thread, semaphore, shouldExit,
                 destructor>>

\* A mutant: the thread is woken only if it is waiting, which is not remembered.
WakeIfWaiting(c) ==
  /\ Go(c, "wake", "idle")
  /\ semaphore' = IF logger = "wait" THEN semaphore + 1 ELSE semaphore
  /\ UNCHANGED <<message, id, calls, messages, thread, shouldExit, destructor>>

WakeLoggingThread(c) ==
  /\ Go(c, "wake", "idle") /\ semaphore' = semaphore + 1
  /\ UNCHANGED <<message, id, calls, messages, thread, shouldExit, destructor>>

-----------------------------------------------------------------------------
(* The logging thread.                                                     *)

Goes(to) == logger' = to /\ UNCHANGED <<callers, shouldExit, destructor>>

LoopTest ==
  /\ logger = "loop" /\ Goes(IF shouldExit THEN "exited" ELSE "check")
  /\ at' = 1 /\ UNCHANGED <<messages, read, semaphore>>

IsSet(m) == IF m \in Plain THEN shouldLogMessage[m] ELSE error[m] # 0

Advance ==
  /\ at' = IF at < Last THEN at + 1 ELSE at
  /\ Goes(IF at < Last THEN "check" ELSE "wait")

Skip ==
  /\ logger = "check" /\ ~IsSet(at)
  /\ Advance /\ UNCHANGED <<messages, read, semaphore>>

ReadFirst ==
  /\ logger = "check" /\ IsSet(at)
  /\ IF at \in Plain THEN Goes("read") /\ read' = <<first[at], 0>>
     ELSE Goes("reset") /\ read' = <<error[at], error[at]>>
  /\ toLog' = IF at \in Plain THEN toLog ELSE toLog \ {error[at]}
  /\ UNCHANGED <<shouldLogMessage, first, second, error, at, semaphore>>

ReadSecond ==
  /\ logger = "read" /\ Goes("reset") /\ read' = <<read[1], second[at]>>
  /\ toLog' = IF read[1] = second[at] THEN toLog \ {read[1]} ELSE toLog
  /\ UNCHANGED <<shouldLogMessage, first, second, error, at, semaphore>>

Reset ==
  /\ logger = "reset" /\ Advance
  /\ IF at \in Plain
     THEN shouldLogMessage' = [shouldLogMessage EXCEPT ![at] = FALSE] /\ UNCHANGED error
     ELSE error' = [error EXCEPT ![at] = 0] /\ UNCHANGED shouldLogMessage
  /\ read' = <<0, 0>> /\ UNCHANGED <<first, second, toLog, semaphore>>

\* Woken up, or the wait fails.
Wait ==
  /\ logger = "wait" /\ semaphore > 0 /\ semaphore' = semaphore - 1
  /\ Goes("loop") /\ UNCHANGED <<messages, at, read>>

WaitFails ==
  /\ logger = "wait" /\ destructor # "done"
  /\ Goes("loop") /\ UNCHANGED <<messages, at, read, semaphore>>

-----------------------------------------------------------------------------
(* The destructor.                                                         *)

Destructs(to) == destructor' = to /\ UNCHANGED <<callers, messages, thread>>

SetShouldExit ==
  /\ destructor = "none" /\ \A c \in Caller : step[c] = "idle"
  /\ shouldExit' = TRUE /\ Destructs("signal") /\ UNCHANGED semaphore

\* A mutant: the thread is not woken up.
SignalNothing ==
  /\ destructor = "signal" /\ Destructs("join") /\ UNCHANGED <<semaphore, shouldExit>>

SignalExit ==
  /\ destructor = "signal" /\ semaphore' = semaphore + 1
  /\ Destructs("join") /\ UNCHANGED shouldExit

Join ==
  /\ destructor = "join" /\ logger = "exited"
  /\ Destructs("destroy") /\ UNCHANGED <<semaphore, shouldExit>>

DestroySemaphore ==
  /\ destructor = "destroy" /\ Destructs("done") /\ semaphore' = 0 /\ UNCHANGED shouldExit

-----------------------------------------------------------------------------
CallerGoesOn(c) == StoreFirst(c) \/ StoreSecond(c) \/ SetFlag(c) \/ WakeLoggingThread(c)

LoggingThread == LoopTest \/ Skip \/ ReadFirst \/ ReadSecond \/ Reset \/ Wait

Destructor == SignalExit \/ Join \/ DestroySemaphore

Next ==
  \/ \E c \in Caller : CallerGoesOn(c) \/ \E m \in Message : LogAsync(c, m) \/ LogError(c, m)
  \/ LoggingThread \/ WaitFails
  \/ SetShouldExit \/ Destructor

\* Threads go on; nobody has to log or to destruct.
Spec ==
  /\ Init /\ [][Next]_vars
  /\ WF_vars(LoggingThread) /\ WF_vars(Destructor)
  /\ \A c \in Caller : WF_vars(CallerGoesOn(c))

-----------------------------------------------------------------------------
(* Properties.                                                             *)

\* When the logging thread goes to sleep without a signal waiting for it, and
\* no caller is about to wake it, there is nothing to log: a message set
\* behind its back is not left for the next one (LoggingThreadEntry).
NothingForgotten ==
  logger = "wait" /\ semaphore = 0 /\ (\A c \in Caller : step[c] # "wake")
    => \A m \in Message : ~IsSet(m)

\* What is logged of a message only one thread logs was stored by one call:
\* "the logging thread could be reading inMessageData" (LogAsync).
WholeMessages ==
  logger = "reset" /\ (\A c, d \in CallersOf[at] : c = d) => read[1] = read[2]

\* Unless the destructor begins first, what a call has set is read whole by the
\* logging thread, or a later error replaces it first, or another thread that
\* found the variables free too overwrites it (LogAsync, LogIfRingBufferError).
\* Not what is set while the message before it is being logged, which the reset
\* erases unread (LogSync_RingBufferError; see toLog).  Every message is reset in
\* the end, so that a thread can set it again.  And the destructor returns: the
\* thread it joins has been woken and sees that it should exit.
MessagesLogged ==
  /\ \A i \in Call : i \in toLog ~> i \notin toLog \/ shouldExit
  /\ \A m \in Message : IsSet(m) ~> ~IsSet(m) \/ shouldExit
  /\ destructor # "none" ~> destructor = "done"

=============================================================================
