----------------------------- MODULE PartsProofs -----------------------------
(***************************************************************************)
(* Theorems about the smaller parts.  What real-time threads share with    *)
(* others: the messages of RTLogger, the clock of LoopbackClock, the ring  *)
(* buffer and its users of AudioCopy, and the CAMutex of Mutex.  And who   *)
(* is silent under DoNotDisturb.                                           *)
(***************************************************************************)
EXTENDS RTLogger, AudioCopy, LoopbackClock, Mutex, DoNotDisturb, SequenceTheorems, TLAPS

-----------------------------------------------------------------------------
(* The logger, for any callers, messages and bound: types, that no message  *)
(* is forgotten, and that messages of one thread are logged whole.         *)

\* The logging thread has still to look at message m, or will be woken up.
Remembered(m) ==
  \/ \E c \in Caller : step[c] = "wake"
  \/ semaphore > 0
  \/ logger \in {"loop", "exited"}
  \/ logger \in {"check", "read", "reset"} /\ at <= m

NoneForgotten == \A m \in Message : IsSet(m) => Remembered(m)

\* One thread at most logs the message.
Single(m) == \A c, d \in CallersOf[m] : c = d

IsStoring(c) == step[c] \in {"first", "second", "flag"}

\* What a caller that is storing a message has stored of it.
Stored ==
  \A c \in Caller : IsStoring(c) =>
    /\ message[c] \in Plain /\ c \in CallersOf[message[c]]
    /\ Single(message[c]) =>
         /\ ~shouldLogMessage[message[c]]
         /\ step[c] \in {"second", "flag"} => first[message[c]] = id[c]
         /\ step[c] = "flag" => second[message[c]] = id[c]

Flagged == \A m \in Plain : Single(m) /\ shouldLogMessage[m] => first[m] = second[m]

Reads ==
  /\ logger = "read" /\ Single(at) => shouldLogMessage[at] /\ read[1] = first[at]
  /\ logger = "reset" /\ Single(at) => read[1] = read[2]

IInv == TypeOK /\ NoneForgotten /\ Stored /\ Flagged /\ Reads

-----------------------------------------------------------------------------
(* The steps, by who takes them. *)

Logs(c) == \E m \in Message : LogAsync(c, m) \/ LogError(c, m)

OthersStep == WaitFails \/ Wait \/ SetShouldExit \/ Destructor

(* Every step is a caller's, the logging thread's or the destructor's.     *)
LEMMA Steps ==
  Next => \/ \E c \in Caller : Logs(c) \/ CallerGoesOn(c)
          \/ LoopTest \/ Skip \/ ReadFirst \/ ReadSecond \/ Reset
          \/ OthersStep
BY DEF Next, Logs, LoggingThread, OthersStep

(* Initially every variable has its type. *)
LEMMA TypeInit == Init => TypeOK
<1> SUFFICES ASSUME Init PROVE TypeOK
  OBVIOUS
<1>1. 1 \in Message /\ 0 \in Value
  BY RTLoggerAssumption DEF Message, Value
<1>2. /\ shouldLogMessage \in [Plain -> BOOLEAN]
      /\ first \in [Plain -> Value] /\ second \in [Plain -> Value]
      /\ error \in [Message \ Plain -> Value]
  BY <1>1, Zenon DEF Init
<1>3. /\ step \in [Caller -> {"idle", "first", "second", "flag", "wake"}]
      /\ message \in [Caller -> Message] /\ id \in [Caller -> Value]
  BY <1>1 DEF Init
<1>4. QED
  BY <1>1, <1>2, <1>3 DEF Init, TypeOK

(* A caller's step keeps the types. *)
LEMMA CallersKeepTypes ==
  ASSUME TypeOK, NEW c \in Caller, Logs(c) \/ CallerGoesOn(c)
  PROVE  TypeOK'
<1> USE RTLoggerAssumption DEF TypeOK, Value, Go, thread
<1>1. CASE \E m \in Message : LogAsync(c, m)
  BY <1>1 DEF LogAsync, Begin, messages
<1>2. CASE \E m \in Message : LogError(c, m)
  <2>1. PICK m \in Message : LogError(c, m)
    BY <1>2
  <2>2. calls' \in Value
    BY <2>1 DEF LogError, Begin
  <2>3. toLog' \subseteq Value
    BY <2>1, <2>2 DEF LogError, Set
  <2>4. QED
    BY <2>1, <2>2, <2>3 DEF LogError, Begin
<1>3. CASE StoreFirst(c)
  <2>1. toLog' \subseteq Value
    BY <1>3 DEF StoreFirst
  <2>2. QED
    BY <1>3, <2>1 DEF StoreFirst
<1>4. CASE StoreSecond(c)
  <2>1. toLog' \subseteq Value
    BY <1>4 DEF StoreSecond
  <2>2. QED
    BY <1>4, <2>1 DEF StoreSecond
<1>5. CASE SetFlag(c)
  <2>1. shouldLogMessage' \in [Plain -> BOOLEAN]
    BY <1>5, Zenon DEF SetFlag
  <2>2. toLog' \subseteq Value
    BY <1>5 DEF SetFlag, Set
  <2>3. QED
    BY <1>5, <2>1, <2>2 DEF SetFlag
<1>6. CASE WakeLoggingThread(c)
  BY <1>6 DEF WakeLoggingThread, messages
<1>7. QED
  BY <1>1, <1>2, <1>3, <1>4, <1>5, <1>6 DEF Logs, CallerGoesOn

(* Every step keeps the types. *)
LEMMA TypeKept == TypeOK /\ [Next]_vars => TypeOK'
<1> SUFFICES ASSUME TypeOK, [Next]_vars PROVE TypeOK'
  OBVIOUS
<1> USE RTLoggerAssumption DEF TypeOK, Value
<1>1. CASE \E c \in Caller : Logs(c) \/ CallerGoesOn(c)
  BY <1>1, CallersKeepTypes
<1>2. CASE LoopTest
  BY <1>2 DEF LoopTest, Goes, callers, messages, Message
<1>3. CASE Skip
  BY <1>3 DEF Skip, Advance, Goes, callers, messages, Message
<1>4. CASE ReadFirst
  <2>1. read' \in Value \X Value
    BY <1>4 DEF ReadFirst, Message
  <2>2. toLog' \subseteq Value
    BY <1>4 DEF ReadFirst
  <2>3. QED
    BY <1>4, <2>1, <2>2 DEF ReadFirst, Goes, callers, Message
<1>5. CASE ReadSecond
  <2>1. read' \in Value \X Value
    <3>1. at \in Plain
      BY <1>5 DEF ReadSecond
    <3>2. QED
      BY <1>5, <3>1 DEF ReadSecond
  <2>2. toLog' \subseteq Value
    BY <1>5 DEF ReadSecond
  <2>3. QED
    BY <1>5, <2>1, <2>2 DEF ReadSecond, Goes, callers, Message
<1>6. CASE Reset
  <2>1. shouldLogMessage' \in [Plain -> BOOLEAN]
    BY <1>6, Zenon DEF Reset
  <2>2. error' \in [Message \ Plain -> Value]
    BY <1>6 DEF Reset
  <2>3. at' \in Message /\ logger' \in {"check", "wait"}
    BY <1>6 DEF Reset, Advance, Goes, Message
  <2>4. read' \in Value \X Value
    BY <1>6 DEF Reset
  <2>5. UNCHANGED <<callers, shouldExit, destructor, first, second, toLog, semaphore>>
    BY <1>6 DEF Reset, Advance, Goes
  <2>6. destructor \notin {"destroy", "done"}
    BY <1>6 DEF Reset
  <2>7. QED
    BY <2>1, <2>2, <2>3, <2>4, <2>5, <2>6 DEF callers
<1>7. CASE OthersStep
  <2>1. UNCHANGED <<callers, shouldLogMessage, first, second, error, toLog, at, read>>
    BY <1>7 DEF OthersStep, Wait, WaitFails, SetShouldExit, Destructor, SignalExit, Join,
                DestroySemaphore, Goes, Destructs, messages, thread
  <2>2. CASE Wait \/ WaitFails
    BY <2>1, <2>2 DEF Wait, WaitFails, Goes, callers
  <2>3. CASE SetShouldExit
    BY <2>1, <2>3 DEF SetShouldExit, Destructs, callers, thread
  <2>4. CASE Destructor
    BY <2>1, <2>4 DEF Destructor, SignalExit, Join, DestroySemaphore, Destructs, callers, thread
  <2>5. QED
    BY <1>7, <2>2, <2>3, <2>4 DEF OthersStep
<1>8. CASE UNCHANGED vars
  BY <1>8 DEF vars, callers, messages, thread
<1>9. QED
  BY <1>1, <1>2, <1>3, <1>4, <1>5, <1>6, <1>7, <1>8, Steps

(* Types hold in every reachable state. *)
THEOREM TypeCorrect == Spec => []TypeOK
<1>1. Init => TypeOK
  BY TypeInit
<1>2. TypeOK /\ [Next]_vars => TypeOK'
  BY TypeKept
<1>3. QED
  BY <1>1, <1>2, PTL DEF Spec

-----------------------------------------------------------------------------
(* No message is forgotten.                                                *)

(* A caller either leaves what is to be logged and who is to wake the       *)
(* thread alone, or is itself about to wake it, or does.                   *)
LEMMA CallersRemember ==
  ASSUME TypeOK, NoneForgotten, NEW c \in Caller, Logs(c) \/ CallerGoesOn(c)
  PROVE  NoneForgotten'
<1> USE DEF TypeOK, NoneForgotten, Remembered, Go, thread, messages
<1>1. CASE \E m \in Message : LogAsync(c, m)
  <2>1. step[c] = "idle" /\ step' = [step EXCEPT ![c] = "first"]
    BY <1>1 DEF LogAsync
  <2>2. UNCHANGED <<shouldLogMessage, error, logger, at, semaphore>>
    BY <1>1 DEF LogAsync
  <2>3. \A d \in Caller : step[d] = "wake" => step'[d] = "wake"
    BY <2>1
  <2>4. \A m \in Message : IsSet(m)' = IsSet(m)
    BY <2>2 DEF IsSet
  <2>5. QED
    BY <2>2, <2>3, <2>4
<1>2. CASE \E m \in Message : LogError(c, m)
  BY <1>2 DEF LogError
<1>3. CASE StoreFirst(c) \/ StoreSecond(c)
  <2>1. \A d \in Caller : step[d] = "wake" => step'[d] = "wake"
    BY <1>3 DEF StoreFirst, StoreSecond
  <2>2. UNCHANGED <<shouldLogMessage, error, logger, at, semaphore>>
    BY <1>3 DEF StoreFirst, StoreSecond
  <2>3. \A m \in Message : IsSet(m)' = IsSet(m)
    BY <2>2 DEF IsSet
  <2>4. QED
    BY <2>1, <2>2, <2>3
<1>4. CASE SetFlag(c)
  BY <1>4 DEF SetFlag
<1>5. CASE WakeLoggingThread(c)
  BY <1>5 DEF WakeLoggingThread
<1>6. QED
  BY <1>1, <1>2, <1>3, <1>4, <1>5 DEF Logs, CallerGoesOn

(* The logging thread passes a message only when it is not set.            *)
LEMMA PassedMessagesAreNotSet ==
  ASSUME TypeOK, NoneForgotten, Skip \/ Reset
  PROVE  NoneForgotten'
<1> USE RTLoggerAssumption DEF TypeOK
<1> SUFFICES ASSUME NEW m \in Message, IsSet(m)' PROVE Remembered(m)'
  BY DEF NoneForgotten
<1>1. m # at /\ IsSet(m)
  <2>1. CASE Skip
    BY <2>1 DEF Skip, IsSet, messages
  <2>2. CASE Reset
    <3>1. CASE at \in Plain
      BY <2>2, <3>1 DEF Reset, IsSet
    <3>2. CASE at \notin Plain
      BY <2>2, <3>2 DEF Reset, IsSet
    <3>3. QED
      BY <3>1, <3>2
  <2>3. QED
    BY <2>1, <2>2
<1>2. Remembered(m)
  BY <1>1 DEF NoneForgotten
<1>3. UNCHANGED <<step, semaphore>>
  BY DEF Skip, Reset, Advance, Goes, callers
<1>4. CASE \/ \E c \in Caller : step[c] = "wake"
           \/ semaphore > 0
  BY <1>3, <1>4 DEF Remembered
<1>5. CASE at <= m
  <2>1. at < Last /\ at + 1 <= m
    BY <1>1, <1>5 DEF Message
  <2>2. logger' = "check" /\ at' = at + 1
    BY <2>1 DEF Skip, Reset, Advance, Goes
  <2>3. QED
    BY <2>1, <2>2 DEF Remembered
<1>6. QED
  BY <1>2, <1>4, <1>5 DEF Remembered, Skip, Reset

(* Every step keeps NoneForgotten. *)
LEMMA NoneForgottenKept == TypeOK /\ NoneForgotten /\ [Next]_vars => NoneForgotten'
<1> SUFFICES ASSUME TypeOK, NoneForgotten, [Next]_vars PROVE NoneForgotten'
  OBVIOUS
<1>1. CASE \E c \in Caller : Logs(c) \/ CallerGoesOn(c)
  BY <1>1, CallersRemember
<1>2. CASE Skip \/ Reset
  BY <1>2, PassedMessagesAreNotSet
<1>3. CASE LoopTest
  <2>1. \A m \in Message : Remembered(m)'
    BY <1>3 DEF LoopTest, Goes, Remembered, Message
  <2>2. QED
    BY <2>1 DEF NoneForgotten
<1>4. ASSUME \/ ReadFirst \/ ReadSecond \/ OthersStep \/ UNCHANGED vars
      PROVE  NoneForgotten'
  <2>1. UNCHANGED <<shouldLogMessage, error, step>>
    BY <1>4
    DEF ReadFirst, ReadSecond, OthersStep, Wait, WaitFails, SetShouldExit, Destructor,
        SignalExit, Join, DestroySemaphore, Goes, Destructs, vars, callers, messages
  <2>2. \A m \in Message : IsSet(m)' = IsSet(m)
    BY <2>1 DEF IsSet
  <2>3. \A m \in Message : Remembered(m) => Remembered(m)'
    <3>1. CASE ReadFirst \/ ReadSecond
      BY <2>1, <3>1 DEF ReadFirst, ReadSecond, Goes, Remembered
    <3>2. CASE Wait \/ WaitFails
      BY <2>1, <3>2 DEF Wait, WaitFails, Goes, Remembered
    <3>3. CASE SetShouldExit \/ Destructor
      BY <2>1, <3>3 DEF SetShouldExit, Destructor, SignalExit, Join, DestroySemaphore,
                        Destructs, thread, Remembered, TypeOK
    <3>4. CASE UNCHANGED vars
      <4>1. UNCHANGED <<step, semaphore, logger, at>>
        BY <3>4 DEF vars, callers, thread
      <4>2. QED
        BY <4>1 DEF Remembered
    <3>5. QED
      BY <1>4, <3>1, <3>2, <3>3, <3>4 DEF OthersStep
  <2>4. QED
    BY <2>2, <2>3 DEF NoneForgotten
<1>5. QED
  BY <1>1, <1>2, <1>3, <1>4, Steps

(* The logging thread never sleeps with a message set and nobody to wake   *)
(* it: the semaphore remembers a signal sent while the thread was looking  *)
(* at other messages (LoggingThreadEntry).                                 *)
THEOREM NoMessageForgotten == Spec => []NothingForgotten
<1>1. Init => TypeOK /\ NoneForgotten
  <2>1. Init => NoneForgotten
    BY DEF Init, NoneForgotten, Remembered
  <2>2. QED
    BY <2>1, TypeInit
<1>2. TypeOK /\ NoneForgotten /\ [Next]_vars => (TypeOK /\ NoneForgotten)'
  BY TypeKept, NoneForgottenKept
<1>3. TypeOK /\ NoneForgotten => NothingForgotten
  BY DEF TypeOK, NoneForgotten, Remembered, NothingForgotten
<1>4. QED
  BY <1>1, <1>2, <1>3, PTL DEF Spec

-----------------------------------------------------------------------------
(* Messages of one thread are logged whole.                                *)

(* A caller that is storing is alone with its message, if one thread logs  *)
(* it.                                                                     *)
LEMMA AloneWithIt ==
  ASSUME Stored, NEW c \in Caller, NEW d \in Caller, IsStoring(c), IsStoring(d),
         message[c] = message[d], Single(message[c])
  PROVE  c = d
BY DEF Stored, Single

(* LogAsync begins with the flag reset. *)
LEMMA BeginningKeepsData ==
  ASSUME IInv, NEW c \in Caller, Logs(c)
  PROVE  (Stored /\ Flagged /\ Reads)'
<1> USE DEF IInv, TypeOK
<1>1. UNCHANGED <<shouldLogMessage, first, second, logger, at, read>>
  BY DEF Logs, LogAsync, LogError, messages, thread
<1>2. Flagged' /\ Reads'
  BY <1>1 DEF Flagged, Reads, Single
<1>3. Stored'
  <2> SUFFICES ASSUME NEW d \in Caller, IsStoring(d)'
               PROVE  /\ message'[d] \in Plain /\ d \in CallersOf[message'[d]]
                      /\ Single(message'[d]) =>
                           /\ ~shouldLogMessage[message'[d]]
                           /\ step'[d] \in {"second", "flag"} => first[message'[d]] = id'[d]
                           /\ step'[d] = "flag" => second[message'[d]] = id'[d]
    BY <1>1 DEF Stored, Single
  <2>1. CASE d = c
    BY <2>1 DEF Logs, LogAsync, LogError, Begin, Go, IsStoring
  <2>2. CASE d # c
    <3>1. step'[d] = step[d] /\ message'[d] = message[d] /\ id'[d] = id[d]
      BY <2>2 DEF Logs, LogAsync, LogError, Begin, Go
    <3>2. QED
      BY <3>1 DEF Stored, IsStoring
  <2>3. QED
    BY <2>1, <2>2
<1>4. QED
  BY <1>2, <1>3

(* A caller stores into a message nobody else is storing or reading, and   *)
(* sets the flag of one it has stored.                                     *)
LEMMA StoringKeepsData ==
  ASSUME IInv, NEW c \in Caller, CallerGoesOn(c)
  PROVE  (Stored /\ Flagged /\ Reads)'
<1> USE DEF IInv, TypeOK
<1> DEFINE m == message[c]
<1>1. UNCHANGED <<message, id, logger, at, read>>
  BY DEF CallerGoesOn, StoreFirst, StoreSecond, SetFlag, WakeLoggingThread, thread
<1>2. \A d \in Caller \ {c} : step'[d] = step[d]
  BY DEF CallerGoesOn, StoreFirst, StoreSecond, SetFlag, WakeLoggingThread, Go
<1>3. CASE WakeLoggingThread(c)
  <2>1. UNCHANGED <<shouldLogMessage, first, second>> /\ step'[c] = "idle"
    BY <1>3 DEF WakeLoggingThread, Go, messages
  <2>2. Flagged' /\ Reads'
    BY <1>1, <2>1 DEF Flagged, Reads, Single
  <2>3. \A d \in Caller : IsStoring(d)' => d # c /\ IsStoring(d)
    BY <1>2, <2>1 DEF IsStoring
  <2>4. Stored'
    BY <1>1, <1>2, <2>1, <2>3 DEF Stored, Single, IsStoring
  <2>5. QED
    BY <2>2, <2>4
<1>4. CASE StoreFirst(c) \/ StoreSecond(c) \/ SetFlag(c)
  <2>1. IsStoring(c) /\ m \in Plain /\ c \in CallersOf[m]
    BY <1>4 DEF StoreFirst, StoreSecond, SetFlag, Go, IsStoring, Stored
  <2>2. Single(m) => ~shouldLogMessage[m]
    BY <2>1 DEF Stored
  <2>3. \A n \in Plain \ {m} : /\ shouldLogMessage'[n] = shouldLogMessage[n]
                               /\ first'[n] = first[n] /\ second'[n] = second[n]
    BY <1>4 DEF StoreFirst, StoreSecond, SetFlag
  <2>4. \A d \in Caller \ {c} : IsStoring(d) /\ Single(message[d]) => message[d] # m
    BY <2>1, AloneWithIt
  <2>5. Single(m) /\ shouldLogMessage'[m] => /\ step[c] = "flag"
                                            /\ UNCHANGED <<first, second>>
    BY <1>4, <2>1, <2>2 DEF StoreFirst, StoreSecond, SetFlag, Go
  <2>6. Flagged'
    <3> SUFFICES ASSUME NEW n \in Plain, Single(n), shouldLogMessage'[n]
                 PROVE  first'[n] = second'[n]
      BY DEF Flagged, Single
    <3>1. CASE n = m
      BY <2>1, <2>5, <3>1 DEF Stored
    <3>2. CASE n # m
      BY <2>3, <3>2 DEF Flagged
    <3>3. QED
      BY <3>1, <3>2
  <2>7. Reads'
    <3>1. logger = "read" /\ Single(at) => at # m
      BY <2>2 DEF Reads
    <3>2. QED
      BY <1>1, <2>3, <3>1 DEF Reads, Single
  <2>8. Stored'
    <3> SUFFICES ASSUME NEW d \in Caller, IsStoring(d)'
                 PROVE  /\ message[d] \in Plain /\ d \in CallersOf[message[d]]
                        /\ Single(message[d]) =>
                             /\ ~shouldLogMessage'[message[d]]
                             /\ step'[d] \in {"second", "flag"} =>
                                  first'[message[d]] = id[d]
                             /\ step'[d] = "flag" => second'[message[d]] = id[d]
      BY <1>1 DEF Stored, Single
    <3>1. CASE d # c
      <4>1. IsStoring(d) /\ step'[d] = step[d]
        BY <1>2, <3>1 DEF IsStoring
      <4>2. QED
        BY <2>3, <2>4, <3>1, <4>1 DEF Stored
    <3>2. CASE d = c
      <4>1. StoreFirst(c) \/ StoreSecond(c)
        BY <1>4, <3>2 DEF SetFlag, Go, IsStoring
      <4>2. UNCHANGED shouldLogMessage
        BY <4>1 DEF StoreFirst, StoreSecond
      <4>3. CASE StoreFirst(c)
        BY <2>1, <2>2, <3>2, <4>2, <4>3 DEF StoreFirst, Go
      <4>4. CASE StoreSecond(c)
        <5>1. Single(m) => first[m] = id[c]
          BY <2>1, <4>4 DEF StoreSecond, Go, Stored
        <5>2. QED
          BY <2>1, <2>2, <3>2, <4>2, <4>4, <5>1 DEF StoreSecond, Go
      <4>5. QED
        BY <4>1, <4>3, <4>4
    <3>3. QED
      BY <3>1, <3>2
  <2>9. QED
    BY <2>6, <2>7, <2>8
<1>5. QED
  BY <1>3, <1>4 DEF CallerGoesOn

(* The logging thread only resets flags, after reading what was stored.    *)
LEMMA LoggingKeepsData ==
  ASSUME IInv, LoopTest \/ Skip \/ ReadFirst \/ ReadSecond \/ Reset \/ OthersStep
  PROVE  (Stored /\ Flagged /\ Reads)'
<1> USE DEF IInv, TypeOK
<1>1. UNCHANGED <<step, message, id, first, second>>
  BY DEF LoopTest, Skip, ReadFirst, ReadSecond, Reset, OthersStep, Advance, Wait, WaitFails,
         SetShouldExit, Destructor, SignalExit, Join, DestroySemaphore, Goes, Destructs,
         callers, messages
<1>2. \A n \in Plain : shouldLogMessage'[n] => shouldLogMessage[n]
  <2>1. CASE Reset
    BY <2>1 DEF Reset
  <2>2. CASE LoopTest \/ Skip \/ ReadFirst \/ ReadSecond \/ OthersStep
    BY <2>2 DEF LoopTest, Skip, ReadFirst, ReadSecond, OthersStep, Wait, WaitFails,
                SetShouldExit, Destructor, SignalExit, Join, DestroySemaphore, Destructs,
                messages
  <2>3. QED
    BY <2>1, <2>2
<1>3. Stored'
  BY <1>1, <1>2 DEF Stored, IsStoring, Single
<1>4. Flagged'
  BY <1>1, <1>2 DEF Flagged, Single
<1>5. Reads'
  <2>1. CASE LoopTest \/ Skip \/ Reset
    BY <2>1 DEF LoopTest, Skip, Reset, Advance, Goes, Reads
  <2>2. CASE ReadFirst
    <3>1. CASE at \in Plain
      BY <1>1, <2>2, <3>1 DEF ReadFirst, IsSet, Goes, Reads, messages
    <3>2. CASE at \notin Plain
      BY <2>2, <3>2 DEF ReadFirst, Goes, Reads
    <3>3. QED
      BY <3>1, <3>2
  <2>3. CASE ReadSecond
    BY <2>3 DEF ReadSecond, Goes, Reads, Flagged, Single
  <2>4. CASE OthersStep
    BY <2>4 DEF OthersStep, Wait, WaitFails, SetShouldExit, Destructor, SignalExit, Join,
                DestroySemaphore, Goes, Destructs, messages, thread, Reads, Single
  <2>5. QED
    BY <2>1, <2>2, <2>3, <2>4
<1>6. QED
  BY <1>3, <1>4, <1>5

(* IInv is inductive. *)
LEMMA Inductive == IInv /\ [Next]_vars => IInv'
<1> SUFFICES ASSUME IInv, [Next]_vars PROVE IInv'
  OBVIOUS
<1>1. TypeOK' /\ NoneForgotten'
  BY TypeKept, NoneForgottenKept DEF IInv
<1>2. CASE \E c \in Caller : Logs(c) \/ CallerGoesOn(c)
  BY <1>1, <1>2, BeginningKeepsData, StoringKeepsData DEF IInv
<1>3. CASE LoopTest \/ Skip \/ ReadFirst \/ ReadSecond \/ Reset \/ OthersStep
  BY <1>1, <1>3, LoggingKeepsData DEF IInv
<1>4. CASE UNCHANGED vars
  <2>1. (Stored /\ Flagged /\ Reads)'
    BY <1>4 DEF IInv, vars, callers, messages, thread, Stored, Flagged, Reads, IsStoring, Single
  <2>2. QED
    BY <1>1, <2>1 DEF IInv
<1>5. QED
  BY <1>2, <1>3, <1>4, Steps

(* What is logged of a message only one thread logs was stored by one call *)
(* (LogAsync and the LogSync_ functions).                                  *)
THEOREM LoggedWhole == Spec => []WholeMessages
<1>1. Init => IInv
  <2>1. Init => NoneForgotten /\ Stored /\ Flagged /\ Reads
    BY DEF Init, NoneForgotten, Remembered, Stored, IsStoring, Flagged, Reads
  <2>2. QED
    BY <2>1, TypeInit DEF IInv
<1>2. IInv => WholeMessages
  BY DEF IInv, Reads, Single, WholeMessages
<1>3. QED
  BY <1>1, <1>2, Inductive, PTL DEF Spec

-----------------------------------------------------------------------------
(* Division of natural numbers. *)

(* Multiplication preserves order. *)
LEMMA TimesMonotone ==
  \A a, b, m \in Nat : a <= b => a * m <= b * m
<1> SUFFICES ASSUME NEW a \in Nat, NEW b \in Nat, NEW m \in Nat, a <= b
             PROVE  a * m <= b * m
  OBVIOUS
<1>1. PICK d \in Nat : b = a + d
  <2>1. b - a \in Nat /\ b = a + (b - a)
    OBVIOUS
  <2>2. QED
    BY <2>1
<1>2. b * m = a * m + d * m
  BY <1>1
<1>3. d * m \in Nat /\ a * m \in Nat
  OBVIOUS
<1>4. QED
  BY <1>2, <1>3

(* What cutting off leaves is less than the divisor. *)
LEMMA DivBounds ==
  \A n \in Nat, m \in Nat \ {0} :
    n \div m \in Nat /\ (n \div m) * m <= n /\ n < (n \div m) * m + m
OBVIOUS

(* A quotient is the only number with these bounds. *)
LEMMA DivUnique ==
  \A n, q \in Nat, m \in Nat \ {0} : q * m <= n /\ n < q * m + m => n \div m = q
<1> SUFFICES ASSUME NEW n \in Nat, NEW q \in Nat, NEW m \in Nat \ {0},
                    q * m <= n, n < q * m + m
             PROVE  n \div m = q
  OBVIOUS
<1> DEFINE p == n \div m
<1>1. p \in Nat /\ p * m <= n /\ n < p * m + m
  BY DivBounds
<1> HIDE DEF p
<1>2. ~ (p < q)
  <2> SUFFICES ASSUME p < q PROVE FALSE
    OBVIOUS
  <2>1. (p + 1) * m <= q * m
    BY <1>1, TimesMonotone
  <2>2. (p + 1) * m = p * m + m
    BY <1>1
  <2>3. QED
    BY <1>1, <2>1, <2>2
<1>3. ~ (q < p)
  <2> SUFFICES ASSUME q < p PROVE FALSE
    OBVIOUS
  <2>1. (q + 1) * m <= p * m
    BY <1>1, TimesMonotone
  <2>2. (q + 1) * m = q * m + m
    OBVIOUS
  <2>3. QED
    BY <1>1, <2>1, <2>2
<1>4. p = q
  BY <1>1, <1>2, <1>3
<1>5. QED
  BY <1>4 DEF p

(* Two quotients are together at most the quotient of the sum. *)
LEMMA DivAdds ==
  \A a, b \in Nat, m \in Nat \ {0} : a \div m + b \div m <= (a + b) \div m
<1> SUFFICES ASSUME NEW a \in Nat, NEW b \in Nat, NEW m \in Nat \ {0}
             PROVE  a \div m + b \div m <= (a + b) \div m
  OBVIOUS
<1> DEFINE p == a \div m
           q == b \div m
           s == (a + b) \div m
<1>1. /\ p \in Nat /\ p * m <= a
      /\ q \in Nat /\ q * m <= b
      /\ s \in Nat /\ a + b < s * m + m
  BY DivBounds
<1> HIDE DEF p, q, s
<1>2. (p + q) * m <= a + b
  BY <1>1
<1>3. ~ (s < p + q)
  <2> SUFFICES ASSUME s < p + q PROVE FALSE
    OBVIOUS
  <2>1. (s + 1) * m <= (p + q) * m
    BY <1>1, TimesMonotone
  <2>2. (s + 1) * m = s * m + m
    BY <1>1
  <2>3. QED
    BY <1>1, <1>2, <2>1, <2>2
<1>4. p + q <= s
  BY <1>1, <1>3
<1>5. QED
  BY <1>4 DEF p, q, s

(* Numbers less than m apart have different remainders. *)
LEMMA ModApart ==
  \A p, q \in Nat, m \in Nat \ {0} : p < q /\ q < p + m => p % m # q % m
<1> SUFFICES ASSUME NEW p \in Nat, NEW q \in Nat, NEW m \in Nat \ {0},
                    p < q, q < p + m, p % m = q % m
             PROVE  FALSE
  OBVIOUS
<1>1. \A n \in Nat : n % m \in 0 .. m - 1 /\ n = (n \div m) * m + (n % m) /\ n \div m \in Nat
  OBVIOUS
<1> DEFINE a == p \div m
           b == q \div m
<1>2. a \in Nat /\ b \in Nat /\ p = a * m + (p % m) /\ q = b * m + (q % m) /\ p % m \in Nat
  BY <1>1
<1> HIDE DEF a, b
<1>3. a * m < b * m /\ b * m < a * m + m
  BY <1>2
<1>4. ~(b <= a)
  <2> SUFFICES ASSUME b <= a PROVE FALSE
    OBVIOUS
  <2>1. b * m <= a * m
    BY <1>2, TimesMonotone
  <2>2. QED
    BY <1>2, <1>3, <2>1
<1>5. (a + 1) * m <= b * m
  BY <1>2, <1>4, TimesMonotone
<1>6. (a + 1) * m = a * m + m /\ a * m \in Nat /\ b * m \in Nat
  BY <1>2
<1>7. QED
  BY <1>3, <1>5, <1>6

-----------------------------------------------------------------------------
(* The clock. *)

\* The start of a period, counted from the anchor, n periods after it.
Begins(n) == anchorHostTime + Ticks(n)

ClockTypeOK ==
  /\ device \in {"WC_Device", "WC_NullDevice"} /\ rate \in Rate /\ prompt \in BOOLEAN
  /\ now \in Nat /\ doingIO \in Nat /\ asked \in Nat
  /\ anchorHostTime \in Nat /\ numberTimeStamps \in Nat

\* While IO runs, the last answer was the start of a period that has begun;
\* and a host that has asked in time was told of the latest one.
Answered ==
  Running =>
    /\ answer = [sample |-> numberTimeStamps * PeriodFrames,
                 host |-> Begins(numberTimeStamps)]
    /\ Begins(numberTimeStamps) <= now /\ asked <= now
    /\ prompt => asked < Begins(numberTimeStamps + 1)

ClockInv == ClockTypeOK /\ Answered

(* Periods begin in whole numbers of ticks, a tick or more apart, and n of   *)
(* them are cut off by less than a tick.                                     *)
LEMMA TicksBounds ==
  ASSUME rate \in Rate, NEW n \in Nat
  PROVE  /\ Ticks(n) \in Nat
         /\ Ticks(n) * Parts <= n * PeriodTicks[rate]
         /\ n * PeriodTicks[rate] < Ticks(n) * Parts + Parts
<1> DEFINE t == PeriodTicks[rate]
<1>1. t \in Nat /\ Parts \in Nat \ {0}
  BY LoopbackClockAssumption
<1> HIDE DEF t
<1>2. n * t \in Nat
  BY <1>1
<1>3. QED
  BY <1>1, <1>2, DivBounds DEF Ticks, t

LEMMA TicksAdd ==
  ASSUME rate \in Rate, NEW n \in Nat
  PROVE  Ticks(n) + Ticks(1) <= Ticks(n + 1)
<1> DEFINE t == PeriodTicks[rate]
<1>1. t \in Nat /\ Parts \in Nat \ {0}
  BY LoopbackClockAssumption
<1> HIDE DEF t
<1>2. n * t \in Nat /\ 1 * t \in Nat /\ n * t + 1 * t = (n + 1) * t
  BY <1>1
<1>3. QED
  BY <1>1, <1>2, DivAdds DEF Ticks, t

(* The first period begins with IO, and the second at least a tick later.    *)
LEMMA TicksOfFew ==
  ASSUME rate \in Rate
  PROVE  Ticks(0) = 0 /\ Ticks(1) \in Nat /\ Ticks(1) >= 1
<1> DEFINE t == PeriodTicks[rate]
<1>1. t \in Nat /\ Parts \in Nat \ {0} /\ t >= Parts
  BY LoopbackClockAssumption
<1> HIDE DEF t
<1>2. 0 * t = 0 /\ 1 * t = t
  BY <1>1
<1>3. 0 \div Parts = 0
  BY <1>1, DivUnique
<1>4. t \div Parts \in Nat /\ t \div Parts >= 1
  <2>1. t \div Parts \in Nat /\ t < (t \div Parts) * Parts + Parts
    BY <1>1, DivBounds
  <2>2. t \div Parts # 0
    BY <1>1, <2>1
  <2>3. QED
    BY <2>1, <2>2
<1>5. QED
  BY <1>2, <1>3, <1>4 DEF Ticks, t

(* Initially IO does not run. *)
LEMMA ClockInitially == ClockInit => ClockInv
BY DEF ClockInit, ClockInv, ClockTypeOK, Answered, Running

(* Every step keeps the invariant. *)
LEMMA ClockStep == ClockInv /\ [ClockNext]_clockVars => ClockInv'
<1> SUFFICES ASSUME ClockInv, [ClockNext]_clockVars PROVE ClockTypeOK' /\ Answered'
  BY DEF ClockInv
<1>0. ClockTypeOK /\ Answered
  BY DEF ClockInv
<1>1. CASE UNCHANGED clockVars
  BY <1>0, <1>1 DEF clockVars, clock, ClockTypeOK, Answered, Running, Begins, Ticks
<1>2. CASE InitLoopback
  BY <1>0, <1>2 DEF InitLoopback, ClockTypeOK, Answered, Running
<1>3. CASE BGM_StartIO
  <2>1. UNCHANGED <<device, now, rate>> /\ doingIO' = doingIO + 1
    BY <1>3 DEF BGM_StartIO, StartIO
  <2>2. CASE Running
    <3>1. ClockGoesOn /\ UNCHANGED <<now, rate>>
      BY <1>3, <2>2 DEF BGM_StartIO, StartIO
    <3>2. ClockTypeOK'
      BY <1>0, <2>1, <3>1 DEF ClockGoesOn, ClockTypeOK
    <3>3. QED
      BY <1>0, <2>1, <2>2, <3>1, <3>2 DEF ClockGoesOn, Answered, Running, Begins, Ticks
  <2>3. CASE ~Running
    <3>1. /\ anchorHostTime' = now /\ numberTimeStamps' = 0 /\ now' = now
          /\ answer' = [sample |-> 0, host |-> now] /\ asked' = now /\ prompt' = TRUE
      BY <1>3, <2>3 DEF BGM_StartIO, StartIO
    <3>2. rate' = rate /\ Ticks(0)' = Ticks(0) /\ Ticks(1)' = Ticks(1)
      BY <2>1 DEF Ticks
    <3>3. Ticks(0)' = 0 /\ Ticks(1)' \in Nat /\ Ticks(1)' >= 1
      BY <1>0, <3>2, TicksOfFew DEF ClockTypeOK
    <3>4. now \in Nat /\ PeriodFrames \in Nat
      BY <1>0, LoopbackClockAssumption DEF ClockTypeOK
    <3>5. Begins(0)' = now /\ now < Begins(1)'
      BY <3>1, <3>3, <3>4 DEF Begins
    <3>6. 0 * PeriodFrames = 0 /\ 0 + 1 = 1
      BY <3>4
    <3>7. Begins(numberTimeStamps)' = Begins(0)' /\ Begins(numberTimeStamps + 1)' = Begins(1)'
      BY <3>1, <3>6 DEF Begins, Ticks
    <3>8. ClockTypeOK'
      BY <1>0, <2>1, <3>1 DEF ClockTypeOK
    <3>9. QED
      BY <2>1, <3>1, <3>4, <3>5, <3>6, <3>7, <3>8 DEF Answered
  <2>4. QED
    BY <2>1, <2>2, <2>3
<1>4. CASE BGM_StopIO
  <2>1. /\ Running /\ doingIO' = doingIO - 1 /\ UNCHANGED <<device, now, rate>>
        /\ ClockGoesOn
    BY <1>4 DEF BGM_StopIO, StopIO
  <2>2. ClockTypeOK'
    BY <1>0, <2>1 DEF ClockGoesOn, ClockTypeOK, Running
  <2>3. QED
    BY <1>0, <2>1, <2>2 DEF ClockGoesOn, Answered, Running, Begins, Ticks
<1>5. CASE TimePasses
  BY <1>0, <1>5, TicksBounds DEF TimePasses, clock, ClockTypeOK, Answered, Running, Begins, Ticks
<1>6. CASE BGM_GetZeroTimeStamp
  <2> DEFINE n == numberTimeStamps
  <2>0. GetZeroTimeStamp
    BY <1>6 DEF BGM_GetZeroTimeStamp, Null_GetZeroTimeStamp
  <2>1. /\ Running /\ UNCHANGED <<device, now, rate, doingIO, anchorHostTime>>
        /\ n' = IF Begins(n + 1) <= now THEN n + 1 ELSE n
        /\ answer' = [sample |-> n' * PeriodFrames, host |-> anchorHostTime + Ticks(n')]
        /\ asked' = now /\ prompt' = (prompt /\ now - asked <= Ticks(1))
    BY <2>0 DEF GetZeroTimeStamp, NextHostTime, Begins
  <2>2. /\ n \in Nat /\ n' \in Nat /\ now \in Nat /\ asked \in Nat
        /\ anchorHostTime \in Nat /\ rate \in Rate
    BY <1>0, <2>1 DEF ClockTypeOK
  <2>3. ClockTypeOK'
    BY <1>0, <2>1, <2>2 DEF ClockTypeOK
  <2>4. \A k \in Nat : Begins(k)' = Begins(k)
    BY <2>1 DEF Begins, Ticks
  <2>5. \A k \in Nat : Ticks(k) \in Nat /\ Begins(k) = anchorHostTime + Ticks(k)
    BY <1>0, <2>2, TicksBounds DEF Begins
  <2>6. answer' = [sample |-> n' * PeriodFrames, host |-> Begins(n)']
    BY <2>1, <2>2 DEF Begins, Ticks
  <2>7. Begins(n)' <= now
    <3>1. Begins(n) <= now
      BY <1>0, <2>1 DEF Answered
    <3>2. Begins(n)' = anchorHostTime + Ticks(n')
      BY <2>1 DEF Begins, Ticks
    <3>3. QED
      BY <2>1, <2>2, <2>5, <3>1, <3>2
  <2>8. ASSUME prompt' PROVE now < Begins(n + 1)'
    <3>1. asked < Begins(n + 1) /\ now - asked <= Ticks(1)
      BY <1>0, <2>1, <2>8 DEF Answered
    <3>2. Begins(n + 1)' = anchorHostTime + Ticks(n' + 1)
      BY <2>1 DEF Begins, Ticks
    <3>3. CASE Begins(n + 1) <= now
      <4>1. n' = n + 1 /\ n + 1 \in Nat
        BY <2>1, <2>2, <3>3
      <4>2. Ticks(n + 1) + Ticks(1) <= Ticks((n + 1) + 1)
        BY <1>0, <2>2, <4>1, TicksAdd
      <4>3. Ticks(n + 1) \in Nat /\ Ticks(1) \in Nat /\ Ticks((n + 1) + 1) \in Nat
        BY <2>5, <4>1
      <4>4. asked < anchorHostTime + Ticks(n + 1)
        BY <2>5, <3>1, <4>1
      <4>5. now < anchorHostTime + Ticks((n + 1) + 1)
        BY <2>2, <3>1, <4>2, <4>3, <4>4
      <4>6. QED
        BY <3>2, <4>1, <4>5
    <3>4. CASE ~(Begins(n + 1) <= now)
      <4>1. n' = n /\ n + 1 \in Nat
        BY <2>1, <2>2, <3>4
      <4>2. Ticks(n + 1) \in Nat /\ Begins(n + 1) = anchorHostTime + Ticks(n + 1)
        BY <2>5, <4>1
      <4>3. QED
        BY <2>2, <3>2, <3>4, <4>1, <4>2
    <3>5. QED
      BY <3>3, <3>4
  <2>9. QED
    BY <2>1, <2>2, <2>3, <2>6, <2>7, <2>8 DEF Answered
<1>7. QED
  BY <1>1, <1>2, <1>3, <1>4, <1>5, <1>6 DEF ClockNext

(* The strengthening: the last answer is the start of the period counted, and *)
(* whether the host asks in time decides whether that is the latest one.      *)
THEOREM ClockInvariance == ClockSpec => []ClockInv
<1>1. ClockInit => ClockInv
  BY ClockInitially
<1>2. ClockInv /\ [ClockNext]_clockVars => ClockInv'
  BY ClockStep
<1>3. QED
  BY <1>1, <1>2, PTL DEF ClockSpec

(* The clock is never early, is never a tick or more behind the rate at a     *)
(* period's start, and keeps up with a host that asks once a period           *)
(* (GetZeroTimeStamp of both devices).                                        *)
THEOREM KeepsTime == ClockSpec => []ClockKeepsTime
<1>1. ClockInv => ClockKeepsTime
  <2> SUFFICES ASSUME ClockInv, Running PROVE ClockKeepsTime
    BY DEF ClockKeepsTime
  <2> DEFINE n == numberTimeStamps
             t == PeriodTicks[rate]
             periods == answer.sample \div PeriodFrames
             exact == (answer.host - anchorHostTime) * Parts
  <2>1. /\ n \in Nat /\ now \in Nat /\ asked \in Nat /\ anchorHostTime \in Nat
        /\ rate \in Rate
    BY DEF ClockInv, ClockTypeOK
  <2>2. /\ PeriodFrames \in Nat \ {0} /\ Parts \in Nat \ {0} /\ t \in Nat
    BY <2>1, LoopbackClockAssumption
  <2>3. /\ answer.sample = n * PeriodFrames /\ answer.host = Begins(n)
        /\ Begins(n) <= now /\ asked <= now
        /\ prompt => asked < Begins(n + 1)
    BY DEF ClockInv, Answered
  <2>4. /\ Ticks(n) \in Nat /\ Ticks(n) * Parts <= n * t
        /\ n * t < Ticks(n) * Parts + Parts
    BY <2>1, TicksBounds
  <2>5. periods = n
    <3>1. n * PeriodFrames \in Nat /\ n * PeriodFrames < n * PeriodFrames + PeriodFrames
      BY <2>1, <2>2
    <3>2. (n * PeriodFrames) \div PeriodFrames = n
      BY <2>1, <2>2, <3>1, DivUnique
    <3>3. QED
      BY <2>3, <3>2
  <2>6. answer.host - anchorHostTime = Ticks(n)
    BY <2>1, <2>3, <2>4 DEF Begins
  <2>7. exact = Ticks(n) * Parts
    BY <2>6
  <2>8. /\ answer.host <= now
        /\ exact <= periods * t
        /\ periods * t < exact + Parts
        /\ prompt /\ asked = now => now < NextHostTime
    <3>1. prompt /\ asked = now => now < NextHostTime
      BY <2>3 DEF NextHostTime, Begins
    <3>2. QED
      BY <2>3, <2>4, <2>5, <2>7, <3>1
  <2>9. QED
    BY <2>8 DEF ClockKeepsTime
<1>2. QED
  BY <1>1, ClockInvariance, PTL

-----------------------------------------------------------------------------
(* The ring buffer and its users, for every capacity, length of call and   *)
(* two clocks.                                                             *)

Pairs == [start : Nat, end : Nat]
WriterStates ==
  [at : {"idle", "start", "end", "counter", "publish", "frames"},
   from : Nat, to : Nat, next : Nat, set : Pairs]
ReaderStates ==
  [at : {"idle", "ptr", "start", "end", "counter", "bounds", "overload", "copy", "done"},
   from : Nat, to : Nat, ptr : Nat, tries : Nat, got : Pairs]
OutputStates ==
  [at : {"idle", "head", "check", "fetch"}, head : Int, last : Int, seen : Nat,
   new : BOOLEAN]

StoreTypes ==
  /\ frames \in [0 .. Capacity - 1 -> Nat] /\ latest \in [Time -> Nat]
  /\ bounds \in [0 .. Slots - 1 -> [start : Nat, end : Nat, counter : Nat]]
  /\ ptr \in Nat /\ stores \in Nat /\ writer \in WriterStates
UserTypes ==
  /\ user \in {"WCPlayThrough", "WC_Device"}
  /\ inTime \in Nat /\ outTime \in Nat /\ jumps \in Nat
  /\ firstIn \in Nat \cup {NotSet} /\ lastIn \in Nat \cup {NotSet}
  /\ lastOut \in Nat \cup {NotSet} /\ offset \in Int
  /\ input \in {"idle", "storing"} /\ output \in OutputStates /\ torn \in BOOLEAN
CopyTypeOK == StoreTypes /\ reader \in ReaderStates /\ UserTypes

\* The buffer has, for each time from s to e, what was stored last.
Matches(s, e) ==
  \A t \in Time : s <= t /\ t < e => frames[FrameOffset(t)] = latest[t]

\* The bounds that readers see.
Published ==
  /\ StartTime <= EndTime /\ EndTime <= StartTime + Capacity /\ EndTime <= MaxTime
  /\ Matches(StartTime, EndTime)

\* A call of Store: what it is about to publish, at first without the frames
\* it will overwrite, then with those it wrote, it can vouch for already; and
\* it does not write frames that it has published.
Publishing ==
  writer.at \in {"start", "end", "counter", "publish"} =>
    /\ writer.set.start <= writer.from /\ writer.to <= writer.set.start + Capacity
    /\ IF writer.next = writer.to THEN writer.set.end = writer.to
       ELSE writer.set.start <= writer.set.end /\ writer.set.end <= writer.from
    /\ Matches(writer.set.start, writer.set.end)
Overwriting ==
  writer.at = "frames" =>
    /\ StartTime <= writer.from /\ writer.to <= StartTime + Capacity
    /\ EndTime <= writer.next /\ writer.next < writer.to
    /\ Matches(StartTime, writer.next)
Storing ==
  /\ writer.at # "idle" =>
       /\ writer.from < writer.to /\ writer.to <= MaxTime /\ stores > 0
  /\ writer.at = "idle" /\ stores > 0 =>
       StartTime <= writer.from /\ writer.from < EndTime

\* The pair after the current one, as far as it is prepared.
Prepared ==
  /\ writer.at \in {"end", "counter", "publish"}
       => bounds[Next1].start = writer.set.start
  /\ writer.at \in {"counter", "publish"} => bounds[Next1].end = writer.set.end

\* What a reader has of the pair it reads.
HasPtr == reader.at \in {"start", "end", "counter", "bounds"}
PairRead ==
  /\ HasPtr => reader.ptr <= ptr
  /\ reader.at \in {"end", "counter", "bounds"} /\ ~Lapped
       => reader.got.start = bounds[reader.ptr % Slots].start
  /\ reader.at \in {"counter", "bounds"} /\ ~Lapped
       => reader.got.end = bounds[reader.ptr % Slots].end

\* WC_Device reads and writes one at a time.
UnderMutex ==
  user = "WC_Device" =>
    /\ input = "idle" /\ output.at \in {"idle", "fetch"} /\ ~torn
    /\ reader.at # "idle" => writer.at = "idle"
    /\ HasPtr => reader.ptr = ptr
    /\ reader.at = "copy" =>
         /\ StartTime <= reader.from /\ reader.from < reader.to
         /\ reader.to <= EndTime

\* WCPlayThrough's IOProcs.
Playing ==
  /\ input = "storing" => writer.from = inTime /\ stores > 0
  /\ lastIn # NotSet => stores > 0
  /\ user = "WCPlayThrough" /\ output.at # "idle" =>
       /\ stores > 0 /\ output.seen <= ptr
       /\ output.at = "check" /\ HasPtr => output.seen <= reader.ptr
       /\ output.at = "fetch" /\ output.new /\ ptr = output.seen /\ writer.at = "idle"
            => output.head \in {output.last} \cup StartTime .. output.last

StoreInv == Published /\ Publishing /\ Overwriting /\ Storing /\ Prepared
CopyInv == CopyTypeOK /\ StoreInv /\ PairRead /\ UnderMutex /\ Playing

-----------------------------------------------------------------------------
(* Storing. *)

(* A slot of the queue and a frame of the memory for every counter and time;  *)
(* the pair being prepared is not the current one.                            *)
LEMMA Places ==
  ASSUME StoreTypes
  PROVE  /\ \A p \in Nat : p % Slots \in 0 .. Slots - 1 /\ p % Capacity \in 0 .. Capacity - 1
         /\ Next1 \in 0 .. Slots - 1 /\ Next1 # ptr % Slots
         /\ Current \in [start : Nat, end : Nat, counter : Nat]
         /\ StartTime \in Nat /\ EndTime \in Nat
<1>1. Slots \in Nat \ {0, 1} /\ Capacity \in Nat \ {0} /\ ptr \in Nat
  BY RingBufferAssumption DEF StoreTypes
<1>2. \A p \in Nat : p % Slots \in 0 .. Slots - 1 /\ p % Capacity \in 0 .. Capacity - 1
  BY <1>1
<1>3. ptr + 1 \in Nat /\ ptr < ptr + 1 /\ ptr + 1 < ptr + Slots
  BY <1>1
<1>4. Next1 \in 0 .. Slots - 1
  BY <1>2, <1>3 DEF Next1
<1>5. Next1 # ptr % Slots
  BY <1>1, <1>3, ModApart DEF Next1
<1>6. ptr % Slots \in 0 .. Slots - 1
  BY <1>1, <1>2
<1>7. Current \in [start : Nat, end : Nat, counter : Nat]
  BY <1>6 DEF StoreTypes, Current
<1>8. QED
  BY <1>2, <1>4, <1>5, <1>7 DEF StartTime, EndTime

(* A call of Store keeps what is said of the writer. *)
LEMMA StoreKeeps ==
  ASSUME StoreTypes, StoreInv, NEW from \in Nat, NEW n \in Nat, Store(from, n)
  PROVE  StoreTypes' /\ StoreInv'
<1> DEFINE to == from + n
<1>1. /\ writer.at = "idle" /\ n \in 1 .. Capacity /\ to <= MaxTime
      /\ stores' = stores + 1 /\ UNCHANGED <<frames, bounds, ptr, reader, latest>>
      /\ writer' = IF Fits(from, to) THEN BeginWriting(from, to, EndTime)
                   ELSE [at |-> "start", from |-> from, to |-> to, next |-> 0,
                         set |-> FirstBounds(from, to)]
  BY DEF Store
<1>2. to \in Nat /\ from < to /\ to <= from + Capacity /\ Capacity \in Nat
  BY <1>1, RingBufferAssumption
<1>3. StartTime \in Nat /\ EndTime \in Nat /\ stores \in Nat
  BY Places DEF StoreTypes
<1>4. StartTime' = StartTime /\ EndTime' = EndTime /\ Matches(StartTime, EndTime)
  BY <1>1 DEF StoreInv, Published, StartTime, EndTime, Current
<1>5. Published'
  BY <1>1, <1>4 DEF StoreInv, Published, Matches
<1>6. CASE Fits(from, to)
  <2>1. from >= EndTime /\ to <= StartTime + Capacity
    BY <1>6 DEF Fits
  <2>2. writer' = [at |-> "frames", from |-> from, to |-> to, next |-> EndTime,
                   set |-> Pair(0, 0)]
    BY <1>1, <1>3, <1>6, <2>1 DEF BeginWriting, Smaller
  <2>3. writer' \in WriterStates
    BY <1>2, <1>3, <2>2 DEF WriterStates, Pairs, Pair
  <2>4. Overwriting'
    BY <1>1, <1>2, <1>3, <1>4, <2>1, <2>2 DEF StoreInv, Published, Overwriting, Matches
  <2>5. QED
    BY <1>1, <1>2, <1>3, <1>5, <2>2, <2>3, <2>4
       DEF StoreTypes, StoreInv, Publishing, Storing, Prepared
<1>7. CASE ~Fits(from, to)
  <2> DEFINE set == FirstBounds(from, to)
  <2>1. writer' = [at |-> "start", from |-> from, to |-> to, next |-> 0, set |-> set]
    BY <1>1, <1>7
  <2>2. /\ set \in Pairs /\ set.start <= from /\ to <= set.start + Capacity
        /\ set.start <= set.end /\ set.end <= from
        /\ set.start = set.end \/ (StartTime <= set.start /\ set.end <= EndTime)
    <3>1. CASE from < EndTime
      BY <1>2, <1>3, <3>1 DEF FirstBounds, Pair, Pairs
    <3>2. CASE ~(from < EndTime)
      <4>1. to > StartTime + Capacity
        BY <1>2, <1>3, <1>7, <3>2 DEF Fits
      <4>2. set = [start |-> to - Capacity, end |-> Larger(to - Capacity, EndTime)]
        BY <3>2 DEF FirstBounds, Pair
      <4>3. QED
        BY <1>2, <1>3, <3>2, <4>1, <4>2 DEF Pairs, Larger
    <3>3. QED
      BY <3>1, <3>2
  <2> HIDE DEF set
  <2>3. Matches(set.start, set.end)
    BY <1>3, <1>4, <2>2 DEF Matches, Pairs, Time
  <2>4. writer' \in WriterStates
    BY <1>2, <2>1, <2>2 DEF WriterStates
  <2>5. Publishing'
    BY <1>1, <1>2, <2>1, <2>2, <2>3 DEF Publishing, Matches
  <2>6. QED
    BY <1>1, <1>2, <1>3, <1>5, <2>1, <2>4, <2>5
       DEF StoreTypes, StoreInv, Overwriting, Storing, Prepared
<1>8. QED
  BY <1>6, <1>7

(* Preparing a pair changes neither the current one nor the frames. *)
LEMMA PreparingKeeps ==
  ASSUME StoreTypes, StoreInv,
         NEW next \in {"end", "counter", "publish"},
         NEW pair \in [start : Nat, end : Nat, counter : Nat],
         writer.at \in {"start", "end", "counter"},
         writer' = [writer EXCEPT !.at = next],
         bounds' = [bounds EXCEPT ![Next1] = pair],
         UNCHANGED <<frames, ptr, stores, latest>>,
         pair.start = writer.set.start,
         next # "end" => pair.end = writer.set.end
  PROVE  StoreTypes' /\ StoreInv'
<1>1. /\ writer' \in WriterStates /\ writer'.at = next /\ writer'.from = writer.from
      /\ writer'.to = writer.to /\ writer'.next = writer.next /\ writer'.set = writer.set
  BY DEF StoreTypes, WriterStates
<1>2. /\ bounds' \in [0 .. Slots - 1 -> [start : Nat, end : Nat, counter : Nat]]
      /\ bounds'[Next1] = pair /\ bounds'[ptr % Slots] = Current
  BY Places DEF StoreTypes, Current
<1>3. /\ Current' = Current /\ StartTime' = StartTime /\ EndTime' = EndTime
      /\ Next1' = Next1
  BY <1>2 DEF Current, StartTime, EndTime, Next1
<1>4. StoreTypes'
  BY <1>1, <1>2 DEF StoreTypes
<1>5. Published'
  BY <1>3 DEF StoreInv, Published, Matches
<1>6. Publishing'
  BY <1>1 DEF StoreInv, Publishing, Matches
<1>7. Overwriting' /\ Storing'
  BY <1>1 DEF StoreInv, Overwriting, Storing
<1>8. Prepared'
  BY <1>1, <1>2, <1>3 DEF StoreInv, Prepared
<1>9. QED
  BY <1>4, <1>5, <1>6, <1>7, <1>8 DEF StoreInv

LEMMA PublishKeeps ==
  ASSUME StoreTypes, StoreInv, Publish
  PROVE  StoreTypes' /\ StoreInv'
<1> DEFINE set == writer.set
           from == writer.from
           to == writer.to
<1>1. /\ writer.at = "publish" /\ ptr' = ptr + 1 /\ ptr \in Nat
      /\ UNCHANGED <<frames, bounds, stores, latest>>
  BY DEF Publish, StoreTypes
<1>2. /\ set \in Pairs /\ from \in Nat /\ to \in Nat /\ writer.next \in Nat
      /\ from < to /\ to <= MaxTime /\ stores > 0
      /\ set.start <= from /\ to <= set.start + Capacity
      /\ IF writer.next = to THEN set.end = to
         ELSE set.start <= set.end /\ set.end <= from
      /\ Matches(set.start, set.end)
  BY <1>1 DEF StoreTypes, WriterStates, StoreInv, Publishing, Storing
<1>3. StartTime' = set.start /\ EndTime' = set.end
  BY <1>1 DEF StoreInv, Prepared, Next1, StartTime, EndTime, Current
<1>4. Published'
  BY <1>1, <1>2, <1>3, RingBufferAssumption DEF Published, Matches, Pairs
<1>5. CASE writer.next = to
  <2>1. writer' = [writer EXCEPT !.at = "idle"]
    BY <1>5 DEF Publish
  <2>2. /\ writer' \in WriterStates /\ writer'.at = "idle" /\ writer'.from = from
    BY <2>1 DEF StoreTypes, WriterStates
  <2>3. StoreTypes'
    BY <1>1, <2>2 DEF StoreTypes
  <2>4. Storing'
    BY <1>2, <1>3, <1>5, <2>2 DEF Storing
  <2>5. QED
    BY <1>4, <2>2, <2>3, <2>4 DEF StoreInv, Publishing, Overwriting, Prepared
<1>6. CASE writer.next # to
  <2>1. writer' = [at |-> "frames", from |-> from, to |-> to, next |-> set.end,
                   set |-> Pair(0, 0)]
    BY <1>2, <1>6 DEF Publish, BeginWriting, Smaller, Pairs
  <2>2. writer' \in WriterStates
    BY <1>2, <2>1 DEF WriterStates, Pairs, Pair
  <2>3. StoreTypes'
    BY <1>1, <2>2 DEF StoreTypes
  <2>4. Storing'
    BY <1>1, <1>2, <2>1 DEF Storing
  <2>5. Overwriting'
    BY <1>1, <1>2, <1>3, <1>6, <2>1 DEF Overwriting, Matches, Pairs
  <2>6. QED
    BY <1>4, <2>1, <2>3, <2>4, <2>5 DEF StoreInv, Publishing, Prepared
<1>7. QED
  BY <1>5, <1>6

(* A frame is written over one that is no longer held. *)
LEMMA WriteFrameKeeps ==
  ASSUME StoreTypes, StoreInv, WriteFrame
  PROVE  StoreTypes' /\ StoreInv'
<1> DEFINE t == writer.next
           value == ZeroOrStore(t)
           after == [writer EXCEPT !.next = t + 1]
<1>1. /\ writer.at = "frames" /\ UNCHANGED <<bounds, ptr, stores>>
      /\ frames' = [frames EXCEPT ![FrameOffset(t)] = value]
      /\ latest' = [latest EXCEPT ![t] = value]
      /\ writer' = IF t + 1 < writer.to THEN after
                   ELSE [after EXCEPT !.at = "start", !.set = Pair(StartTime, writer.to)]
  BY DEF WriteFrame
<1>2. /\ t \in Nat /\ writer.from \in Nat /\ writer.to \in Nat
      /\ StartTime <= writer.from /\ writer.to <= StartTime + Capacity
      /\ EndTime <= t /\ t < writer.to /\ Matches(StartTime, t)
      /\ writer.from < writer.to /\ writer.to <= MaxTime /\ stores > 0
  BY <1>1 DEF StoreTypes, WriterStates, StoreInv, Overwriting, Storing
<1>3. StartTime \in Nat /\ EndTime \in Nat /\ MaxTime \in Nat /\ Capacity \in Nat \ {0}
  BY Places, RingBufferAssumption
<1>4. value \in Nat
  BY DEF ZeroOrStore, StoreTypes
<1>5. t \in Time /\ FrameOffset(t) \in 0 .. Capacity - 1
  <2>1. \A n \in Nat, k \in Nat \ {0} : n % k \in 0 .. k - 1
    OBVIOUS
  <2>2. FrameOffset(t) \in 0 .. Capacity - 1
    BY <1>2, <1>3, <2>1 DEF FrameOffset
  <2>3. t \in Time
    BY <1>2, <1>3 DEF Time
  <2> QED
    BY <2>2, <2>3
<1>6. /\ frames' \in [0 .. Capacity - 1 -> Nat] /\ frames'[FrameOffset(t)] = value
      /\ latest' \in [Time -> Nat] /\ latest'[t] = value
  BY <1>1, <1>4, <1>5 DEF StoreTypes
<1>7. ASSUME NEW u \in Time, StartTime <= u, u < t
      PROVE  frames'[FrameOffset(u)] = latest'[u]
  <2>1. u \in Nat /\ u < t /\ t < u + Capacity
    BY <1>2, <1>3, <1>7 DEF Time
  <2>2. FrameOffset(u) # FrameOffset(t) /\ FrameOffset(u) \in 0 .. Capacity - 1
    BY <1>2, <1>3, <2>1, ModApart, Places DEF FrameOffset
  <2>3. frames[FrameOffset(u)] = latest[u]
    BY <1>2, <1>7 DEF Matches
  <2>4. frames'[FrameOffset(u)] = frames[FrameOffset(u)] /\ latest'[u] = latest[u]
    BY <1>1, <1>7, <2>1, <2>2 DEF StoreTypes
  <2>5. QED
    BY <2>3, <2>4
<1>8. ASSUME NEW u \in Time, StartTime <= u, u < t + 1
      PROVE  frames'[FrameOffset(u)] = latest'[u]
  <2>1. u = t \/ u < t
    BY <1>2, <1>8 DEF Time
  <2>2. QED
    BY <1>6, <1>7, <1>8, <2>1
<1>9. StartTime' = StartTime /\ EndTime' = EndTime
  BY <1>1 DEF StartTime, EndTime, Current
<1>10. Published'
  <2>1. \A u \in Time : StartTime <= u /\ u < EndTime => u < t
    BY <1>2, <1>3 DEF Time
  <2>2. QED
    BY <1>1, <1>7, <1>9, <2>1 DEF StoreInv, Published, Matches, FrameOffset
<1>11. CASE t + 1 < writer.to
  <2>1. /\ writer' \in WriterStates /\ writer'.at = "frames" /\ writer'.from = writer.from
        /\ writer'.to = writer.to /\ writer'.next = t + 1
    BY <1>1, <1>2, <1>11 DEF StoreTypes, WriterStates
  <2>2. StoreTypes'
    BY <1>1, <1>6, <2>1 DEF StoreTypes
  <2>3. Overwriting'
    BY <1>2, <1>3, <1>8, <1>9, <1>11, <2>1 DEF Overwriting, Matches, FrameOffset
  <2>4. Storing'
    BY <1>1, <1>2, <2>1 DEF Storing
  <2>5. QED
    BY <1>10, <2>1, <2>2, <2>3, <2>4 DEF StoreInv, Publishing, Prepared
<1>12. CASE ~(t + 1 < writer.to)
  <2>1. t + 1 = writer.to
    BY <1>2, <1>12
  <2>2. /\ writer'.at = "start" /\ writer'.from = writer.from /\ writer'.to = writer.to
        /\ writer'.next = writer.to /\ writer'.set = Pair(StartTime, writer.to)
        /\ writer' \in WriterStates
    BY <1>1, <1>2, <1>3, <1>12, <2>1 DEF StoreTypes, WriterStates, Pair, Pairs
  <2>3. StoreTypes'
    BY <1>1, <1>6, <2>2 DEF StoreTypes
  <2>4. Matches(StartTime, writer.to)'
    BY <1>2, <1>8, <1>9, <2>1, <2>2 DEF Matches, FrameOffset
  <2>5. Publishing'
    BY <1>2, <1>3, <1>9, <2>2, <2>4 DEF Publishing, Pair
  <2>6. Storing'
    BY <1>1, <1>2, <2>2 DEF Storing
  <2>7. QED
    BY <1>10, <2>2, <2>3, <2>5, <2>6 DEF StoreInv, Overwriting, Prepared
<1>13. QED
  BY <1>11, <1>12

(* Every step of a storing thread keeps what is said of it. *)
LEMMA StoresKeeps ==
  ASSUME StoreTypes, StoreInv, Stores
  PROVE  StoreTypes' /\ StoreInv'
<1>0. /\ Next1 \in 0 .. Slots - 1 /\ bounds[Next1] \in [start : Nat, end : Nat, counter : Nat]
      /\ writer.set \in Pairs /\ ptr \in Nat
  BY Places DEF StoreTypes, WriterStates
<1>1. CASE SetStartTime
  <2> DEFINE pair == [bounds[Next1] EXCEPT !.start = writer.set.start]
  <2>1. /\ pair \in [start : Nat, end : Nat, counter : Nat]
        /\ pair.start = writer.set.start
    BY <1>0 DEF Pairs
  <2>2. bounds' = [bounds EXCEPT ![Next1] = pair]
    BY <1>0, <1>1 DEF SetStartTime, StoreTypes
  <2> HIDE DEF pair
  <2>3. QED
    BY <1>1, <2>1, <2>2, PreparingKeeps DEF SetStartTime
<1>2. CASE SetEndTime
  <2> DEFINE pair == [bounds[Next1] EXCEPT !.end = writer.set.end]
  <2>1. /\ pair \in [start : Nat, end : Nat, counter : Nat]
        /\ pair.end = writer.set.end /\ pair.start = bounds[Next1].start
    BY <1>0 DEF Pairs
  <2>2. bounds' = [bounds EXCEPT ![Next1] = pair]
    BY <1>0, <1>2 DEF SetEndTime, StoreTypes
  <2>3. bounds[Next1].start = writer.set.start
    BY <1>2 DEF SetEndTime, StoreInv, Prepared
  <2> HIDE DEF pair
  <2>4. QED
    BY <1>2, <2>1, <2>2, <2>3, PreparingKeeps DEF SetEndTime
<1>3. CASE SetUpdateCounter
  <2> DEFINE pair == [bounds[Next1] EXCEPT !.counter = ptr + 1]
  <2>1. /\ pair \in [start : Nat, end : Nat, counter : Nat]
        /\ pair.end = bounds[Next1].end /\ pair.start = bounds[Next1].start
    BY <1>0
  <2>2. bounds' = [bounds EXCEPT ![Next1] = pair]
    BY <1>0, <1>3 DEF SetUpdateCounter, StoreTypes
  <2>3. /\ bounds[Next1].start = writer.set.start
        /\ bounds[Next1].end = writer.set.end
    BY <1>3 DEF SetUpdateCounter, StoreInv, Prepared
  <2> HIDE DEF pair
  <2>4. QED
    BY <1>3, <2>1, <2>2, <2>3, PreparingKeeps DEF SetUpdateCounter
<1>4. QED
  BY <1>1, <1>2, <1>3, PublishKeeps, WriteFrameKeeps DEF Stores

-----------------------------------------------------------------------------
(* Fetching. *)

(* A pair is not written while a reader has it, unless the writer has come    *)
(* round the queue: the writer's steps keep what is said of the reader.       *)
LEMMA WriterLeavesPair ==
  ASSUME StoreTypes, reader \in ReaderStates, PairRead, UNCHANGED reader,
         Stores \/ \E from, n \in Nat : Store(from, n)
  PROVE  PairRead'
<1> DEFINE Slot == reader.ptr % Slots
<1>1. /\ ptr \in Nat /\ reader.ptr \in Nat /\ Slots \in Nat \ {0, 1}
      /\ Slot \in 0 .. Slots - 1 /\ Next1 \in 0 .. Slots - 1
  BY Places, RingBufferAssumption DEF StoreTypes, ReaderStates
<1>2. ASSUME HasPtr PROVE reader.ptr <= ptr
  BY <1>2 DEF PairRead
<1>3. SUFFICES ASSUME HasPtr
               PROVE  /\ ptr' \in Nat /\ ptr <= ptr'
                      /\ ~Lapped' => ~Lapped /\ bounds'[Slot] = bounds[Slot]
  <2>1. HasPtr' <=> HasPtr
    BY DEF HasPtr
  <2>2. CASE ~HasPtr
    BY <2>1, <2>2 DEF PairRead, HasPtr
  <2>3. CASE HasPtr
    <3>1. /\ ptr' \in Nat /\ ptr <= ptr'
          /\ ~Lapped' => ~Lapped /\ bounds'[Slot] = bounds[Slot]
      BY <1>3, <2>3
    <3>2. (HasPtr => reader.ptr <= ptr)'
      BY <1>1, <1>2, <2>3, <3>1
    <3>3. ASSUME ~Lapped', reader.at \in {"end", "counter", "bounds"}
          PROVE  reader.got.start = bounds'[Slot].start
      BY <3>1, <3>3 DEF PairRead
    <3>4. ASSUME ~Lapped', reader.at \in {"counter", "bounds"}
          PROVE  reader.got.end = bounds'[Slot].end
      BY <3>1, <3>4 DEF PairRead
    <3>5. QED
      BY <3>2, <3>3, <3>4 DEF PairRead
  <2>4. QED
    BY <2>2, <2>3
<1>4. reader.ptr <= ptr
  BY <1>2, <1>3
<1>5. CASE \E from, n \in Nat : Store(from, n)
  <2>1. ~Preparing /\ ~Preparing' /\ UNCHANGED <<ptr, bounds>>
    BY <1>5 DEF Store, BeginWriting, Preparing
  <2>2. QED
    BY <1>1, <2>1 DEF Lapped
<1>6. CASE SetStartTime \/ SetEndTime \/ SetUpdateCounter
  <2>1. Preparing' /\ ptr' = ptr
    BY <1>6 DEF SetStartTime, SetEndTime, SetUpdateCounter, Preparing, StoreTypes,
                WriterStates
  <2>2. ASSUME ~Lapped' PROVE ~Lapped /\ Next1 # Slot
    <3>1. ptr + 1 < reader.ptr + Slots
      BY <1>1, <2>1, <2>2 DEF Lapped
    <3>2. Next1 # Slot
      BY <1>1, <1>4, <3>1, ModApart DEF Next1
    <3>3. ~Lapped
      BY <1>1, <3>1 DEF Lapped
    <3>4. QED
      BY <3>2, <3>3
  <2>3. Next1 # Slot => bounds'[Slot] = bounds[Slot]
    BY <1>1, <1>6 DEF SetStartTime, SetEndTime, SetUpdateCounter, StoreTypes
  <2>4. QED
    BY <1>1, <2>1, <2>2, <2>3
<1>7. CASE Publish
  <2>1. Preparing /\ ~Preparing' /\ ptr' = ptr + 1 /\ bounds' = bounds
    BY <1>7 DEF Publish, Preparing, BeginWriting, StoreTypes, WriterStates
  <2>2. QED
    BY <1>1, <2>1 DEF Lapped
<1>8. CASE WriteFrame
  <2>1. ~Preparing /\ ~Preparing' /\ UNCHANGED <<ptr, bounds>>
    BY <1>8 DEF WriteFrame, Preparing, StoreTypes, WriterStates
  <2>2. QED
    BY <1>1, <2>1 DEF Lapped
<1>9. QED
  BY <1>5, <1>6, <1>7, <1>8 DEF Stores

(* Looking for a pair: the reader keeps its type and has what it says it has. *)
LEMMA GetsBoundsKeeps ==
  ASSUME StoreTypes, reader \in ReaderStates, PairRead, GetsBounds
  PROVE  /\ reader' \in ReaderStates /\ PairRead'
         /\ reader'.at \in {"ptr", "start", "end", "counter", "bounds", "overload"}
         /\ reader.at \in {"ptr", "start", "end", "counter"}
         /\ HasPtr' => reader'.ptr = ptr \/ (HasPtr /\ reader'.ptr = reader.ptr)
<1> DEFINE Slot == reader.ptr % Slots
<1>1. /\ ptr \in Nat /\ reader.ptr \in Nat /\ Slots \in Nat \ {0, 1}
      /\ Slot \in 0 .. Slots - 1
      /\ bounds[Slot] \in [start : Nat, end : Nat, counter : Nat]
  BY Places, RingBufferAssumption DEF StoreTypes, ReaderStates
<1>2. UNCHANGED <<frames, bounds, ptr, writer, stores, latest>>
  BY DEF GetsBounds
<1>3. Preparing' <=> Preparing
  BY <1>2 DEF Preparing
<1>4. reader'.ptr = reader.ptr => (Lapped' <=> Lapped)
  BY <1>2, <1>3 DEF Lapped
<1>5. CASE ReadPtr
  <2>1. /\ reader.at = "ptr" /\ reader' \in ReaderStates /\ reader'.at = "start"
        /\ reader'.ptr = ptr
    BY <1>1, <1>5 DEF ReadPtr, ReaderStates
  <2>2. QED
    BY <1>1, <1>2, <2>1 DEF PairRead, HasPtr
<1>6. CASE ReadStartTime
  <2>1. /\ reader.at = "start" /\ reader' \in ReaderStates /\ reader'.at = "end"
        /\ reader'.ptr = reader.ptr /\ reader'.got.start = bounds[Slot].start
    BY <1>1, <1>6 DEF ReadStartTime, ReaderStates, Pairs
  <2>2. QED
    BY <1>1, <1>2, <2>1 DEF PairRead, HasPtr
<1>7. CASE ReadEndTime
  <2>1. /\ reader.at = "end" /\ reader' \in ReaderStates /\ reader'.at = "counter"
        /\ reader'.ptr = reader.ptr /\ reader'.got.end = bounds[Slot].end
        /\ reader'.got.start = reader.got.start
    BY <1>1, <1>7 DEF ReadEndTime, ReaderStates, Pairs
  <2>2. QED
    BY <1>1, <1>2, <1>4, <2>1 DEF PairRead, HasPtr
<1>8. CASE CompareCounter
  <2>1. /\ reader.at = "counter" /\ reader' \in ReaderStates
        /\ reader'.at \in {"bounds", "overload", "ptr"}
        /\ reader'.ptr = reader.ptr /\ reader'.got = reader.got
    <3>1. PICK n \in Nat, state \in {"bounds", "overload", "ptr"} :
            reader' = [reader EXCEPT !.tries = n, !.at = state]
      <4>1. reader.tries \in Nat /\ reader.tries + 1 \in Nat
        BY DEF ReaderStates
      <4>2. CASE bounds[Slot].counter = reader.ptr
        <5>1. reader' = [reader EXCEPT !.tries = reader.tries, !.at = "bounds"]
          BY <1>8, <4>2 DEF CompareCounter, ReaderStates
        <5>2. QED
          BY <4>1, <5>1
      <4>3. CASE bounds[Slot].counter # reader.ptr
        <5> DEFINE state == IF reader.tries + 1 = Tries THEN "overload" ELSE "ptr"
        <5>1. /\ reader' = [reader EXCEPT !.tries = reader.tries + 1, !.at = state]
              /\ state \in {"bounds", "overload", "ptr"}
          BY <1>8, <4>3 DEF CompareCounter
        <5>2. QED
          BY <4>1, <5>1
      <4>4. QED
        BY <4>2, <4>3
    <3>2. QED
      BY <1>8, <3>1 DEF CompareCounter, ReaderStates
  <2>2. QED
    BY <1>1, <1>2, <1>4, <2>1 DEF PairRead, HasPtr
<1>9. QED
  BY <1>5, <1>6, <1>7, <1>8 DEF GetsBounds

(* Of a pair within bounds, what is clipped is within bounds. *)
LEMMA Clips ==
  ASSUME NEW from \in Nat, NEW to \in Nat, NEW b \in Pairs
  PROVE  LET c == ClipTimeBounds(from, to, b)
         IN  /\ c \in Pairs /\ c.start <= c.end
             /\ c.start < c.end => b.start <= c.start /\ c.end <= b.end
BY DEF ClipTimeBounds, Pairs, Pair, Larger, Smaller

-----------------------------------------------------------------------------
(* The users' steps. *)

store == <<frames, bounds, ptr, writer, stores, latest>>

(* What nobody stores in stays as it is. *)
LEMMA StoreStays ==
  ASSUME StoreTypes, StoreInv, UNCHANGED store
  PROVE  /\ StoreTypes' /\ StoreInv'
         /\ StartTime' = StartTime /\ EndTime' = EndTime
<1>1. UNCHANGED <<frames, bounds, ptr, writer, stores, latest>>
  BY DEF store
<1>2. UNCHANGED <<Current, StartTime, EndTime, Next1>>
  BY <1>1 DEF Current, StartTime, EndTime, Next1
<1>3. \A s, e : Matches(s, e)' <=> Matches(s, e)
  BY <1>1 DEF Matches
<1>4. StoreTypes'
  BY <1>1 DEF StoreTypes
<1>5. Published' /\ Prepared'
  BY <1>1, <1>2, <1>3 DEF StoreInv, Published, Prepared
<1>6. Publishing' /\ Overwriting' /\ Storing'
  BY <1>1, <1>2, <1>3 DEF StoreInv, Publishing, Overwriting, Storing
<1>7. QED
  BY <1>2, <1>4, <1>5, <1>6 DEF StoreInv

(* Nor does what a reader has, if it has nothing or goes on having it. *)
LEMMA PairStays ==
  ASSUME PairRead, UNCHANGED store, ~HasPtr' \/ UNCHANGED reader
  PROVE  PairRead'
<1>1. UNCHANGED <<bounds, ptr, writer>>
  BY DEF store
<1>2. CASE ~HasPtr'
  BY <1>2 DEF PairRead, HasPtr
<1>3. CASE UNCHANGED reader
  <2>1. (Lapped' <=> Lapped) /\ (HasPtr' <=> HasPtr)
    BY <1>1, <1>3 DEF Lapped, Preparing, HasPtr
  <2>2. QED
    BY <1>1, <1>3, <2>1 DEF PairRead
<1>4. QED
  BY <1>2, <1>3

(* Beginning to look for a pair. *)
LEMMA GetTimeBoundsBegins ==
  ASSUME NEW from \in Nat, NEW to \in Nat, GetTimeBounds(from, to)
  PROVE  reader' \in ReaderStates /\ reader'.at = "ptr" /\ ~HasPtr'
BY DEF GetTimeBounds, ReaderStates, HasPtr, Pair, Pairs

LEMMA FetchBegins ==
  ASSUME NEW from \in Int, NEW n \in Nat, Fetch(from, n)
  PROVE  reader' \in ReaderStates /\ reader'.at = "ptr" /\ ~HasPtr'
<1>1. Larger(0, from) \in Nat /\ Larger(0, from) + n \in Nat
  BY DEF Larger
<1>2. QED
  BY <1>1, GetTimeBoundsBegins DEF Fetch

LEMMA CopyInitially == CopyInit => CopyInv
<1> SUFFICES ASSUME CopyInit PROVE CopyInv
  OBVIOUS
<1>1. Capacity \in Nat \ {0} /\ Slots \in Nat \ {0, 1} /\ MaxTime \in Nat
  BY RingBufferAssumption
<1>2. StoreTypes /\ reader \in ReaderStates
  <2>1. RingInit /\ Pair(0, 0) \in Pairs
    BY DEF CopyInit, Pair, Pairs
  <2>2. writer \in WriterStates /\ reader \in ReaderStates
    BY <2>1 DEF RingInit, WriterStates, ReaderStates
  <2>3. QED
    BY <2>1, <2>2 DEF RingInit, StoreTypes
<1>3. UserTypes
  <2>1. Idle \in OutputStates
    BY DEF Idle, OutputStates
  <2>2. output \in OutputStates /\ torn \in BOOLEAN
    BY <2>1 DEF CopyInit
  <2>3. QED
    BY <2>2 DEF CopyInit, UserTypes
<1>4. StartTime = 0 /\ EndTime = 0
  <2>1. ptr % Slots \in 0 .. Slots - 1
    BY <1>1, <1>2, Places DEF StoreTypes
  <2>2. QED
    BY <2>1 DEF CopyInit, RingInit, StartTime, EndTime, Current
<1>5. StoreInv
  BY <1>1, <1>4 DEF CopyInit, RingInit, StoreInv, Published, Publishing, Overwriting,
                    Storing, Prepared, Matches, Time
<1>6. PairRead /\ UnderMutex /\ Playing
  BY DEF CopyInit, RingInit, Idle, PairRead, UnderMutex, Playing, HasPtr
<1>7. QED
  BY <1>2, <1>3, <1>5, <1>6 DEF CopyInv, CopyTypeOK

(* WCPlayThrough's input IOProc. *)
LEMMA InputKeeps ==
  ASSUME CopyInv, InputDeviceIOProc \/ InputReturns \/ InputTimeJumps
  PROVE  CopyInv'
<1>1. /\ StoreTypes /\ StoreInv /\ reader \in ReaderStates /\ UserTypes /\ PairRead
      /\ UnderMutex /\ Playing /\ InFrames \in Nat
  BY AudioCopyAssumption DEF CopyInv, CopyTypeOK
<1>2. CASE InputDeviceIOProc
  <2>1. /\ user = "WCPlayThrough" /\ input' = "storing" /\ Store(inTime, InFrames)
        /\ firstIn' \in {firstIn, inTime}
        /\ UNCHANGED <<user, times, lastIn, lastOut, offset, output, torn>>
    BY <1>2 DEF InputDeviceIOProc
  <2>2. inTime \in Nat
    BY <1>1 DEF UserTypes
  <2>3. StoreTypes' /\ StoreInv'
    BY <1>1, <2>1, <2>2, StoreKeeps
  <2>4. /\ reader' = reader /\ ptr' = ptr /\ stores' = stores + 1 /\ stores \in Nat
        /\ writer'.at # "idle" /\ writer'.from = inTime
    BY <1>1, <2>1 DEF Store, BeginWriting, StoreTypes
  <2>5. PairRead'
    BY <1>1, <2>1, <2>2, <2>4, WriterLeavesPair
  <2>6. UserTypes'
    BY <1>1, <2>1 DEF UserTypes, times
  <2>7. UnderMutex'
    BY <2>1 DEF UnderMutex
  <2>8. Playing'
    BY <1>1, <2>1, <2>4 DEF Playing, times, HasPtr
  <2>9. QED
    BY <1>1, <2>3, <2>4, <2>5, <2>6, <2>7, <2>8 DEF CopyInv, CopyTypeOK
<1>3. CASE InputReturns
  <2>1. /\ input = "storing" /\ writer.at = "idle" /\ input' = "idle"
        /\ lastIn' = inTime /\ inTime' = inTime + InFrames
        /\ UNCHANGED <<ring, user, outTime, jumps, firstIn, lastOut, offset, output, torn>>
    BY <1>3 DEF InputReturns
  <2>2. UNCHANGED store /\ UNCHANGED reader
    BY <2>1 DEF ring, store
  <2>3. StoreTypes' /\ StoreInv' /\ PairRead' /\ StartTime' = StartTime
        /\ EndTime' = EndTime
    BY <1>1, <2>2, StoreStays, PairStays
  <2>4. UserTypes'
    BY <1>1, <2>1 DEF UserTypes
  <2>5. UnderMutex'
    BY <1>1, <2>1 DEF UnderMutex
  <2>6. Playing'
    BY <1>1, <2>1, <2>2, <2>3 DEF Playing, HasPtr, store
  <2>7. QED
    BY <1>1, <2>2, <2>3, <2>4, <2>5, <2>6 DEF CopyInv, CopyTypeOK
<1>4. CASE InputTimeJumps
  <2>1. /\ input = "idle" /\ jumps' = jumps + 1 /\ inTime' \in Jumped(inTime)
        /\ UNCHANGED <<ring, user, outTime, heads, input, output, torn>>
    BY <1>4 DEF InputTimeJumps
  <2>2. UNCHANGED store /\ UNCHANGED reader
    BY <2>1 DEF ring, store
  <2>3. /\ StoreTypes' /\ StoreInv' /\ PairRead' /\ StartTime' = StartTime
        /\ EndTime' = EndTime
    BY <1>1, <2>2, StoreStays, PairStays
  <2>4. inTime' \in Nat
    BY <2>1, RingBufferAssumption DEF Jumped, Time
  <2>5. UserTypes'
    BY <1>1, <2>1, <2>4 DEF UserTypes, heads
  <2>6. UnderMutex'
    BY <1>1, <2>1, <2>2, <2>3 DEF UnderMutex, HasPtr, store
  <2>7. Playing'
    BY <1>1, <2>1, <2>2, <2>3 DEF Playing, HasPtr, store, heads
  <2>8. QED
    BY <1>1, <2>2, <2>3, <2>5, <2>6, <2>7 DEF CopyInv, CopyTypeOK
<1>5. QED
  BY <1>2, <1>3, <1>4

(* WCPlayThrough's output IOProc, until it fetches. *)
LEMMA OutputKeeps ==
  ASSUME CopyInv, OutputDeviceIOProc \/ FindReadHead \/ CheckReadHead
  PROVE  CopyInv'
<1>1. /\ StoreTypes /\ StoreInv /\ reader \in ReaderStates /\ UserTypes /\ PairRead
      /\ UnderMutex /\ Playing /\ OutFrames \in Nat
  BY AudioCopyAssumption DEF CopyInv, CopyTypeOK
<1>2. /\ output \in OutputStates /\ outTime \in Nat /\ offset \in Int /\ ptr \in Nat
      /\ lastIn \in Nat \cup {NotSet} /\ NotSet = -1 /\ StartTime \in Nat
  BY <1>1, Places DEF UserTypes, StoreTypes, NotSet
<1>3. CASE OutputDeviceIOProc
  <2>1. /\ user = "WCPlayThrough" /\ output.at = "idle" /\ reader.at = "idle"
        /\ UNCHANGED <<ring, user, inTime, jumps, firstIn, lastIn, lastOut, input, torn>>
    BY <1>3 DEF OutputDeviceIOProc
  <2>2. UNCHANGED store /\ UNCHANGED reader
    BY <2>1 DEF ring, store
  <2>3. /\ StoreTypes' /\ StoreInv' /\ PairRead' /\ StartTime' = StartTime
    BY <1>1, <2>2, StoreStays, PairStays
  <2>4. outTime' \in Nat /\ offset' \in Int
    BY <1>1, <1>2, <1>3 DEF OutputDeviceIOProc
  <2>5. \/ UNCHANGED output
        \/ /\ output' = [at |-> "head", head |-> 0, last |-> 0, seen |-> ptr, new |-> FALSE]
           /\ lastIn # NotSet
    BY <1>3 DEF OutputDeviceIOProc, Idle
  <2>6. output' \in OutputStates
    <3>1. ptr \in Nat /\ output \in OutputStates
      BY <1>2
    <3>2. [at |-> "head", head |-> 0, last |-> 0, seen |-> ptr, new |-> FALSE] \in OutputStates
      BY <3>1 DEF OutputStates
    <3>3. QED
      BY <2>5, <3>1, <3>2
  <2>7. UserTypes'
    BY <1>1, <2>1, <2>4, <2>6 DEF UserTypes
  <2>8. UnderMutex'
    BY <2>1 DEF UnderMutex
  <2>9. Playing'
    BY <1>1, <1>2, <2>1, <2>2, <2>3, <2>5 DEF Playing, HasPtr, store
  <2>10. QED
    BY <1>1, <2>2, <2>3, <2>7, <2>8, <2>9 DEF CopyInv, CopyTypeOK
<1>4. CASE FindReadHead
  <2>1. /\ output.at = "head" /\ GetTimeBounds(0, 0)
        /\ output' = [output EXCEPT !.at = "check", !.head = outTime - offset, !.last = lastIn]
        /\ UNCHANGED store /\ UNCHANGED <<user, times, heads, input, torn>>
    BY <1>4 DEF FindReadHead, store
  <2>2. reader' \in ReaderStates /\ reader'.at = "ptr" /\ ~HasPtr'
    BY <2>1, GetTimeBoundsBegins
  <2>3. StoreTypes' /\ StoreInv' /\ PairRead'
    BY <1>1, <2>1, <2>2, StoreStays, PairStays
  <2>4. output' \in OutputStates /\ output'.at = "check" /\ output'.seen = output.seen
    <3>1. outTime - offset \in Int /\ lastIn \in Int /\ output \in OutputStates
      BY <1>2
    <3>2. output' = [output EXCEPT !.at = "check", !.head = outTime - offset, !.last = lastIn]
      BY <2>1
    <3>3. QED
      BY <3>1, <3>2 DEF OutputStates
  <2>5. UserTypes'
    BY <1>1, <2>1, <2>4 DEF UserTypes, times, heads
  <2>6. user = "WCPlayThrough"
    BY <1>1, <2>1 DEF UnderMutex, UserTypes
  <2>7. UnderMutex'
    BY <2>1, <2>6 DEF UnderMutex
  <2>8. Playing'
    BY <1>1, <2>1, <2>2, <2>4, <2>6 DEF Playing, store, times, heads
  <2>9. QED
    BY <2>2, <2>3, <2>5, <2>7, <2>8 DEF CopyInv, CopyTypeOK
<1>5. CASE CheckReadHead
  <2> DEFINE strayed == \/ output.last < output.head
                        \/ reader.at = "bounds" /\ OutOfBounds(reader.got)
             head == IF strayed THEN output.last ELSE output.head
  <2>1. /\ output.at = "check" /\ reader.at \in {"bounds", "overload"}
        /\ offset' = IF strayed THEN outTime - output.last ELSE offset
        /\ output' = [output EXCEPT !.at = "fetch", !.head = head,
                        !.new = reader.at = "bounds"]
        /\ Fetch(head, OutFrames)
        /\ UNCHANGED store
        /\ UNCHANGED <<user, times, firstIn, lastIn, lastOut, input, torn>>
    BY <1>5 DEF CheckReadHead, store
  <2>2. head \in Int /\ output.last \in Int /\ output.head \in Int /\ output.seen \in Nat
    BY <1>2 DEF OutputStates
  <2>3. offset' \in Int
    BY <1>2, <2>1, <2>2
  <2>4. head = output.last \/ (~strayed /\ head = output.head)
    OBVIOUS
  <2> HIDE DEF head
  <2>5. reader' \in ReaderStates /\ reader'.at = "ptr" /\ ~HasPtr'
    BY <1>1, <2>1, <2>2, FetchBegins
  <2>6. /\ StoreTypes' /\ StoreInv' /\ PairRead' /\ StartTime' = StartTime
    BY <1>1, <2>1, <2>5, StoreStays, PairStays
  <2>7. /\ output' \in OutputStates /\ output'.at = "fetch" /\ output'.head = head
        /\ output'.last = output.last /\ output'.seen = output.seen
        /\ output'.new <=> reader.at = "bounds"
    BY <1>2, <2>1, <2>2 DEF OutputStates
  <2>8. UserTypes'
    BY <1>1, <2>1, <2>3, <2>7 DEF UserTypes, times
  <2>9. user = "WCPlayThrough"
    BY <1>1, <2>1 DEF UnderMutex, UserTypes
  <2>10. UnderMutex'
    BY <2>1, <2>9 DEF UnderMutex
  <2>11. ASSUME reader.at = "bounds", ptr = output.seen, writer.at = "idle"
         PROVE  head \in {output.last} \cup StartTime .. output.last
    <3>1. reader.ptr \in Nat /\ Slots \in Nat \ {0, 1}
      BY <1>1, RingBufferAssumption DEF ReaderStates
    <3>2. reader.ptr = ptr
      BY <1>1, <1>2, <2>1, <2>2, <2>9, <2>11, <3>1 DEF PairRead, Playing, HasPtr
    <3>3. ~Lapped
      BY <1>2, <2>11, <3>1, <3>2 DEF Lapped, Preparing
    <3>4. reader.got.start = StartTime
      BY <1>1, <2>11, <3>2, <3>3 DEF PairRead, StartTime, Current
    <3>5. CASE strayed
      BY <2>4, <3>5
    <3>6. CASE ~strayed
      <4>1. ~(output.last < output.head) /\ ~(output.head < StartTime)
        BY <2>11, <3>4, <3>6 DEF OutOfBounds
      <4>2. QED
        BY <1>2, <2>2, <2>4, <4>1
    <3>7. QED
      BY <3>5, <3>6
  <2>12. Playing'
    <3>1. stores > 0 /\ output.seen <= ptr
      BY <1>1, <2>1, <2>9 DEF Playing
    <3>2. UNCHANGED <<ptr, writer, stores, user, inTime, lastIn, input>>
      BY <2>1 DEF store, times
    <3>3. QED
      BY <1>1, <2>6, <2>7, <2>11, <3>1, <3>2 DEF Playing
  <2>13. QED
    BY <2>5, <2>6, <2>8, <2>10, <2>12 DEF CopyInv, CopyTypeOK
<1>6. QED
  BY <1>3, <1>4, <1>5

(* The end of a call, the end of playthrough, and the output's clock. *)
LEMMA OutputEndKeeps ==
  ASSUME CopyInv, \/ OutputReturns /\ user = "WCPlayThrough"
                  \/ Stop \/ OutputTimeJumps
  PROVE  CopyInv'
<1>1. /\ StoreTypes /\ StoreInv /\ reader \in ReaderStates /\ UserTypes /\ PairRead
      /\ UnderMutex /\ Playing /\ OutFrames \in Nat
  BY AudioCopyAssumption DEF CopyInv, CopyTypeOK
<1>2. CASE OutputReturns /\ user = "WCPlayThrough"
  <2>1. /\ reader' = [reader EXCEPT !.at = "idle"] /\ output' = Idle
        /\ lastOut' = outTime /\ outTime' = outTime + OutFrames
        /\ UNCHANGED store
        /\ UNCHANGED <<user, inTime, jumps, firstIn, lastIn, offset, input, torn>>
    BY <1>2 DEF OutputReturns, store
  <2>2. reader' \in ReaderStates /\ reader'.at = "idle" /\ ~HasPtr'
    BY <1>1, <2>1 DEF ReaderStates, HasPtr
  <2>3. StoreTypes' /\ StoreInv' /\ PairRead'
    BY <1>1, <2>1, <2>2, StoreStays, PairStays
  <2>4. output' \in OutputStates /\ output'.at = "idle"
    BY <2>1 DEF Idle, OutputStates
  <2>5. UserTypes'
    BY <1>1, <2>1, <2>4 DEF UserTypes
  <2>6. UnderMutex'
    BY <1>2, <2>1 DEF UnderMutex
  <2>7. Playing'
    BY <1>1, <2>1, <2>4 DEF Playing, store
  <2>8. QED
    BY <2>2, <2>3, <2>5, <2>6, <2>7 DEF CopyInv, CopyTypeOK
<1>3. CASE Stop
  <2>1. /\ user = "WCPlayThrough" /\ input = "idle" /\ output.at = "idle"
        /\ firstIn' = NotSet /\ lastIn' = NotSet /\ lastOut' = NotSet
        /\ UNCHANGED <<ring, user, times, offset, input, output, torn>>
    BY <1>3 DEF Stop
  <2>2. UNCHANGED store /\ UNCHANGED reader
    BY <2>1 DEF ring, store
  <2>3. /\ StoreTypes' /\ StoreInv' /\ PairRead'
    BY <1>1, <2>2, StoreStays, PairStays
  <2>4. UserTypes'
    BY <1>1, <2>1 DEF UserTypes, times
  <2>5. UnderMutex'
    BY <2>1 DEF UnderMutex
  <2>6. Playing'
    BY <1>1, <2>1, <2>2 DEF Playing, store, times
  <2>7. QED
    BY <1>1, <2>2, <2>3, <2>4, <2>5, <2>6 DEF CopyInv, CopyTypeOK
<1>4. CASE OutputTimeJumps
  <2>1. /\ jumps' = jumps + 1 /\ outTime' \in Jumped(outTime)
        /\ UNCHANGED <<ring, user, inTime, heads, input, output, torn>>
    BY <1>4 DEF OutputTimeJumps
  <2>2. UNCHANGED store /\ UNCHANGED reader
    BY <2>1 DEF ring, store
  <2>3. /\ StoreTypes' /\ StoreInv' /\ PairRead' /\ StartTime' = StartTime
        /\ EndTime' = EndTime
    BY <1>1, <2>2, StoreStays, PairStays
  <2>4. outTime' \in Nat
    BY <2>1, RingBufferAssumption DEF Jumped, Time
  <2>5. UserTypes'
    BY <1>1, <2>1, <2>4 DEF UserTypes, heads
  <2>6. UnderMutex'
    BY <1>1, <2>1, <2>2, <2>3 DEF UnderMutex, HasPtr, store
  <2>7. Playing'
    BY <1>1, <2>1, <2>2, <2>3 DEF Playing, HasPtr, store, heads
  <2>8. QED
    BY <1>1, <2>2, <2>3, <2>5, <2>6, <2>7 DEF CopyInv, CopyTypeOK
<1>5. QED
  BY <1>2, <1>3, <1>4

(* WC_Device's reading and writing, under its IO mutex. *)
LEMMA DeviceKeeps ==
  ASSUME CopyInv, WriteOutputData \/ ReadInputData \/ InputRead
  PROVE  CopyInv'
<1>1. /\ StoreTypes /\ StoreInv /\ reader \in ReaderStates /\ UserTypes /\ PairRead
      /\ UnderMutex /\ Playing /\ OutFrames \in Nat /\ InFrames \in Nat
  BY AudioCopyAssumption DEF CopyInv, CopyTypeOK
<1>2. user = "WC_Device"
  BY DEF WriteOutputData, ReadInputData, InputRead
<1>3. input = "idle" /\ output.at \in {"idle", "fetch"} /\ ~torn
  BY <1>1, <1>2 DEF UnderMutex
<1>4. CASE WriteOutputData
  <2>1. /\ reader.at = "idle" /\ Store(outTime, OutFrames)
        /\ outTime' = outTime + OutFrames
        /\ UNCHANGED <<user, inTime, jumps, heads, input, output, torn>>
    BY <1>4 DEF WriteOutputData, IOMutexFree
  <2>2. outTime \in Nat /\ outTime' \in Nat
    BY <1>1, <2>1 DEF UserTypes
  <2>3. StoreTypes' /\ StoreInv'
    BY <1>1, <2>1, <2>2, StoreKeeps
  <2>4. reader' = reader /\ stores' = stores + 1 /\ stores \in Nat
    BY <1>1, <2>1 DEF Store, StoreTypes
  <2>5. PairRead'
    BY <1>1, <2>1, <2>2, <2>4, WriterLeavesPair
  <2>6. UserTypes'
    BY <1>1, <2>1, <2>2 DEF UserTypes, heads
  <2>7. UnderMutex'
    BY <1>3, <2>1, <2>4 DEF UnderMutex, HasPtr
  <2>8. Playing'
    BY <1>2, <1>3, <2>1, <2>4 DEF Playing, heads
  <2>9. QED
    BY <1>1, <2>3, <2>4, <2>5, <2>6, <2>7, <2>8 DEF CopyInv, CopyTypeOK
<1>5. CASE ReadInputData
  <2>1. /\ writer.at = "idle" /\ output' = [Idle EXCEPT !.at = "fetch"]
        /\ \E t \in Time : Fetch(t, InFrames)
        /\ UNCHANGED store
        /\ UNCHANGED <<user, times, heads, input, torn>>
    BY <1>5 DEF ReadInputData, IOMutexFree, store
  <2>2. reader' \in ReaderStates /\ reader'.at = "ptr" /\ ~HasPtr'
    BY <1>1, <2>1, FetchBegins DEF Time
  <2>3. StoreTypes' /\ StoreInv' /\ PairRead'
    BY <1>1, <2>1, <2>2, StoreStays, PairStays
  <2>4. output' \in OutputStates /\ output'.at = "fetch"
    <3>1. output' = [at |-> "fetch", head |-> 0, last |-> 0, seen |-> 0, new |-> FALSE]
      BY <2>1 DEF Idle
    <3>2. QED
      BY <3>1 DEF OutputStates
  <2>5. UserTypes'
    BY <1>1, <2>1, <2>4 DEF UserTypes, times, heads
  <2>6. UnderMutex'
    BY <1>3, <2>1, <2>2, <2>4 DEF UnderMutex, store
  <2>7. Playing'
    BY <1>1, <1>2, <1>3, <2>1 DEF Playing, store, times, heads
  <2>8. QED
    BY <2>2, <2>3, <2>5, <2>6, <2>7 DEF CopyInv, CopyTypeOK
<1>6. CASE InputRead
  <2>1. /\ reader' = [reader EXCEPT !.at = "idle"] /\ output' = Idle
        /\ UNCHANGED store
        /\ UNCHANGED <<user, times, heads, input, torn>>
    BY <1>6 DEF InputRead, store
  <2>2. reader' \in ReaderStates /\ reader'.at = "idle" /\ ~HasPtr'
    BY <1>1, <2>1 DEF ReaderStates, HasPtr
  <2>3. StoreTypes' /\ StoreInv' /\ PairRead'
    BY <1>1, <2>1, <2>2, StoreStays, PairStays
  <2>4. output' \in OutputStates /\ output'.at = "idle"
    BY <2>1 DEF Idle, OutputStates
  <2>5. UserTypes'
    BY <1>1, <2>1, <2>4 DEF UserTypes, times, heads
  <2>6. UnderMutex'
    BY <1>3, <2>1, <2>2, <2>4 DEF UnderMutex, store
  <2>7. Playing'
    BY <1>1, <1>2, <1>3, <2>1 DEF Playing, store, times, heads
  <2>8. QED
    BY <2>2, <2>3, <2>5, <2>6, <2>7 DEF CopyInv, CopyTypeOK
<1>7. QED
  BY <1>4, <1>5, <1>6

(* The steps within a call of Store or of Fetch. *)
LEMMA RingKeeps ==
  ASSUME CopyInv, RingSteps
  PROVE  CopyInv'
<1>1. /\ StoreTypes /\ StoreInv /\ reader \in ReaderStates /\ UserTypes /\ PairRead
      /\ UnderMutex /\ Playing /\ ptr \in Nat
  BY DEF CopyInv, CopyTypeOK, StoreTypes
<1>2. UNCHANGED <<user, inTime, outTime, jumps, firstIn, lastIn, lastOut, offset,
                  input, output, torn>>
  BY DEF RingSteps, times, heads
<1>3. UserTypes'
  BY <1>1, <1>2 DEF UserTypes
<1>4. CASE Stores
  <2>1. UNCHANGED reader /\ (HasPtr' <=> HasPtr)
    BY <1>4 DEF Stores, SetStartTime, SetEndTime, SetUpdateCounter, Publish, WriteFrame,
                HasPtr
  <2>2. StoreTypes' /\ StoreInv' /\ PairRead'
    BY <1>1, <1>4, <2>1, StoresKeeps, WriterLeavesPair
  <2>3. writer.at # "idle" /\ stores' = stores
    BY <1>4 DEF Stores, SetStartTime, SetEndTime, SetUpdateCounter, Publish, WriteFrame
  <2>4. UnderMutex'
    BY <1>1, <1>2, <2>1, <2>3 DEF UnderMutex, HasPtr
  <2>5. /\ writer'.from = writer.from
        /\ ptr' = ptr + 1 \/ (ptr' = ptr /\ writer'.at # "idle")
    <3>1. writer \in WriterStates
      BY <1>1 DEF StoreTypes
    <3>2. CASE SetStartTime \/ SetEndTime \/ SetUpdateCounter
      BY <3>1, <3>2 DEF SetStartTime, SetEndTime, SetUpdateCounter, WriterStates
    <3>3. CASE Publish
      BY <3>1, <3>3 DEF Publish, BeginWriting, WriterStates
    <3>4. CASE WriteFrame
      BY <3>1, <3>4 DEF WriteFrame, WriterStates
    <3>5. QED
      BY <1>4, <3>2, <3>3, <3>4 DEF Stores
  <2>6. Playing'
    <3>1. stores' = stores /\ (HasPtr' <=> HasPtr) /\ reader' = reader
      BY <2>1, <2>3
    <3>2. output.seen \in Nat
      BY <1>1 DEF UserTypes, OutputStates
    <3>3. ASSUME user = "WCPlayThrough", output.at # "idle"
          PROVE  /\ output.seen <= ptr' /\ ~(ptr' = output.seen /\ writer'.at = "idle")
      <4>1. output.seen <= ptr
        BY <1>1, <3>3 DEF Playing
      <4>2. QED
        BY <1>1, <2>5, <3>2, <4>1
    <3>4. QED
      BY <1>1, <1>2, <2>5, <3>1, <3>3 DEF Playing
  <2>7. QED
    BY <1>1, <1>3, <2>1, <2>2, <2>4, <2>6 DEF CopyInv, CopyTypeOK
<1>5. CASE GetsBounds
  <2>1. UNCHANGED store
    BY <1>5 DEF GetsBounds, store
  <2>2. /\ reader' \in ReaderStates /\ PairRead'
        /\ reader'.at \notin {"idle", "copy"} /\ reader.at # "idle"
        /\ HasPtr' => reader'.ptr = ptr \/ (HasPtr /\ reader'.ptr = reader.ptr)
    BY <1>1, <1>5, GetsBoundsKeeps
  <2>3. /\ StoreTypes' /\ StoreInv' /\ StartTime' = StartTime
    BY <1>1, <2>1, StoreStays
  <2>4. UnderMutex'
    BY <1>1, <1>2, <2>1, <2>2 DEF UnderMutex, store
  <2>5. Playing'
    BY <1>1, <1>2, <2>1, <2>2, <2>3 DEF Playing, store
  <2>6. QED
    BY <1>3, <2>2, <2>3, <2>4, <2>5 DEF CopyInv, CopyTypeOK
<1>6. CASE output.at = "fetch" /\ Clip
  <2> DEFINE c == ClipTimeBounds(reader.from, reader.to, reader.got)
  <2>1. /\ reader.at = "bounds" /\ UNCHANGED store
        /\ reader' = [reader EXCEPT !.from = c.start, !.to = c.end,
                        !.at = IF c.start = c.end THEN "done" ELSE "copy"]
    BY <1>6 DEF Clip, store
  <2>2. reader.from \in Nat /\ reader.to \in Nat /\ reader.got \in Pairs
    BY <1>1 DEF ReaderStates
  <2>3. /\ c \in Pairs /\ c.start <= c.end
        /\ c.start < c.end => reader.got.start <= c.start /\ c.end <= reader.got.end
    BY <2>2, Clips
  <2> HIDE DEF c
  <2>4. c.start \in Nat /\ c.end \in Nat
    BY <2>3 DEF Pairs
  <2>5. /\ reader' \in ReaderStates /\ reader'.from = c.start /\ reader'.to = c.end
        /\ reader'.at = IF c.start = c.end THEN "done" ELSE "copy"
    BY <1>1, <2>1, <2>4 DEF ReaderStates
  <2>6. ~HasPtr' /\ reader'.at # "idle"
    BY <2>5 DEF HasPtr
  <2>7. /\ StoreTypes' /\ StoreInv' /\ PairRead' /\ StartTime' = StartTime
        /\ EndTime' = EndTime
    BY <1>1, <2>1, <2>6, StoreStays, PairStays
  <2>8. UnderMutex'
    <3> SUFFICES ASSUME user = "WC_Device" PROVE UnderMutex'
      BY <1>2 DEF UnderMutex
    <3>1. writer.at = "idle" /\ reader.ptr = ptr /\ input = "idle" /\ ~torn
      BY <1>1, <2>1 DEF UnderMutex, HasPtr
    <3>2. ~Lapped
      BY <1>1, <3>1, RingBufferAssumption DEF Lapped, Preparing
    <3>3. reader.got.start = StartTime /\ reader.got.end = EndTime
      BY <1>1, <2>1, <3>1, <3>2 DEF PairRead, StartTime, EndTime, Current
    <3>4. reader'.at = "copy" => c.start < c.end
      BY <2>3, <2>4, <2>5
    <3>5. QED
      BY <1>2, <1>6, <2>1, <2>3, <2>5, <2>6, <2>7, <3>1, <3>3, <3>4 DEF UnderMutex, store
  <2>9. Playing'
    BY <1>1, <1>2, <2>1, <2>6, <2>7 DEF Playing, store
  <2>10. QED
    BY <1>3, <2>5, <2>7, <2>8, <2>9 DEF CopyInv, CopyTypeOK
<1>7. QED
  BY <1>4, <1>5, <1>6 DEF RingSteps

(* A frame that is fetched under the mutex is within the bounds. *)
LEMMA CopyFrameKeeps ==
  ASSUME CopyInv, CopyFrame
  PROVE  CopyInv'
<1> DEFINE t == reader.from
<1>1. /\ StoreTypes /\ StoreInv /\ reader \in ReaderStates /\ UserTypes /\ PairRead
      /\ UnderMutex /\ Playing
  BY DEF CopyInv, CopyTypeOK
<1>2. /\ reader.at = "copy" /\ torn' = (torn \/ FetchedFrame(t) # latest[t])
      /\ reader' = [reader EXCEPT !.from = t + 1,
                      !.at = IF t + 1 = reader.to THEN "done" ELSE "copy"]
      /\ UNCHANGED store /\ UNCHANGED <<user, times, heads, input, output>>
  BY DEF CopyFrame, store
<1>3. t \in Nat /\ reader.to \in Nat
  BY <1>1 DEF ReaderStates
<1>4. /\ reader' \in ReaderStates /\ reader'.from = t + 1 /\ reader'.to = reader.to
      /\ reader'.at = IF t + 1 = reader.to THEN "done" ELSE "copy"
  <2> DEFINE after == IF t + 1 = reader.to THEN "done" ELSE "copy"
  <2>1. after \in {"done", "copy"} /\ t + 1 \in Nat
    BY <1>3
  <2>2. reader' = [reader EXCEPT !.from = t + 1, !.at = after]
    BY <1>2
  <2> HIDE DEF after
  <2>3. /\ reader' \in ReaderStates /\ reader'.from = t + 1 /\ reader'.to = reader.to
        /\ reader'.at = after
    BY <1>1, <2>1, <2>2 DEF ReaderStates
  <2>4. QED
    BY <2>3 DEF after
<1>5. ~HasPtr' /\ reader'.at # "idle" /\ torn' \in BOOLEAN
  BY <1>1, <1>2, <1>4 DEF HasPtr, UserTypes
<1>6. /\ StoreTypes' /\ StoreInv' /\ PairRead' /\ StartTime' = StartTime
      /\ EndTime' = EndTime
  BY <1>1, <1>2, <1>5, StoreStays, PairStays
<1>7. UserTypes'
  BY <1>1, <1>2, <1>5 DEF UserTypes, times, heads
<1>8. UnderMutex'
  <2> SUFFICES ASSUME user = "WC_Device" PROVE UnderMutex'
    BY <1>2 DEF UnderMutex
  <2>1. /\ input = "idle" /\ output.at \in {"idle", "fetch"} /\ ~torn
        /\ writer.at = "idle" /\ StartTime <= t /\ t < reader.to /\ reader.to <= EndTime
    BY <1>1, <1>2 DEF UnderMutex
  <2>2. EndTime <= MaxTime /\ Matches(StartTime, EndTime)
    BY <1>1 DEF StoreInv, Published
  <2>3. StartTime \in Nat /\ EndTime \in Nat /\ MaxTime \in Nat
    BY <1>1, Places, RingBufferAssumption
  <2>4. t \in Time /\ t < EndTime
    BY <1>3, <2>1, <2>2, <2>3 DEF Time
  <2>5. ~torn'
    BY <1>2, <2>1, <2>2, <2>4 DEF Matches, FetchedFrame
  <2>6. reader'.at = "copy" => t + 1 < reader.to
    BY <1>3, <1>4, <2>1
  <2>7. reader'.at = "copy" => StartTime <= t + 1
    BY <1>3, <2>1, <2>3
  <2>8. QED
    BY <1>2, <1>4, <1>5, <1>6, <2>1, <2>5, <2>6, <2>7 DEF UnderMutex, store
<1>9. Playing'
  BY <1>1, <1>2, <1>5, <1>6 DEF Playing, store, times, heads
<1>10. QED
  BY <1>4, <1>6, <1>7, <1>8, <1>9 DEF CopyInv, CopyTypeOK

LEMMA CopyStep == CopyInv /\ [CopyNext]_copyVars => CopyInv'
<1> SUFFICES ASSUME CopyInv, [CopyNext]_copyVars PROVE CopyInv'
  OBVIOUS
<1>1. CASE UNCHANGED copyVars
  <2>1. UNCHANGED store /\ UNCHANGED reader
    BY <1>1 DEF copyVars, ring, store
  <2>2. /\ StoreTypes' /\ StoreInv' /\ PairRead' /\ StartTime' = StartTime
        /\ EndTime' = EndTime
    BY <2>1, StoreStays, PairStays DEF CopyInv, CopyTypeOK
  <2>3. reader' \in ReaderStates /\ UserTypes'
    BY <1>1, <2>1 DEF CopyInv, CopyTypeOK, UserTypes, copyVars, times, heads
  <2>4. UnderMutex' /\ Playing'
    BY <1>1, <2>1, <2>2 DEF CopyInv, UnderMutex, Playing, HasPtr, copyVars, times, heads,
                            store
  <2>5. QED
    BY <2>2, <2>3, <2>4 DEF CopyInv, CopyTypeOK
<1>2. CASE CopyNext
  BY <1>2, InputKeeps, OutputKeeps, OutputEndKeeps, DeviceKeeps, RingKeeps, CopyFrameKeeps
     DEF CopyNext
<1>3. QED
  BY <1>1, <1>2

(* The strengthening: what a call of Store is about to publish it can vouch   *)
(* for already, and a reader that the writer has not lapped has what is in    *)
(* the slot it read.                                                          *)
THEOREM CopyInvariance == CopySpec => []CopyInv
BY CopyInitially, CopyStep, PTL DEF CopySpec

(* For every capacity, queue of bounds and length of call: what the bounds    *)
(* cover is there, a reader that is not lapped has a pair as published, and   *)
(* nothing is torn under the IO mutex (CARingBuffer, DoIOOperation).          *)
THEOREM FramesStayHeld == CopySpec => []FramesHeld
<1>1. CopyInv => FramesHeld
  <2> SUFFICES ASSUME CopyInv PROVE FramesHeld
    OBVIOUS
  <2>1. /\ StoreTypes /\ StoreInv /\ reader \in ReaderStates /\ PairRead /\ UnderMutex
    BY DEF CopyInv, CopyTypeOK
  <2>2. \A t \in Held : frames[FrameOffset(t)] = latest[t]
    BY <2>1 DEF StoreInv, Published, Matches, Held
  <2>3. ASSUME reader.at = "bounds", ~Lapped
        PROVE  reader.got = Pair(bounds[reader.ptr % Slots].start,
                                 bounds[reader.ptr % Slots].end)
    <3>1. /\ reader.got.start = bounds[reader.ptr % Slots].start
          /\ reader.got.end = bounds[reader.ptr % Slots].end
      BY <2>1, <2>3 DEF PairRead
    <3>2. reader.got = Pair(reader.got.start, reader.got.end)
      BY <2>1 DEF ReaderStates, Pairs, Pair
    <3>3. QED
      BY <3>1, <3>2
  <2>4. user = "WC_Device" => ~torn
    BY <2>1 DEF UnderMutex
  <2>5. QED
    BY <2>2, <2>3, <2>4 DEF FramesHeld
<1>2. QED
  BY <1>1, CopyInvariance, PTL

(* For every two clocks, however they drift and jump, playthrough fetches     *)
(* from inside the buffer when it is not disturbed (OutputDeviceIOProc).      *)
THEOREM HeadStaysInBuffer == CopySpec => []HeadInBuffer
<1>1. CopyInv => HeadInBuffer
  <2> SUFFICES ASSUME CopyInv, user = "WCPlayThrough", output.at = "fetch", Undisturbed
               PROVE  Larger(0, output.head) \in Held
    BY DEF HeadInBuffer
  <2>1. /\ StoreTypes /\ StoreInv /\ Playing /\ UserTypes
    BY DEF CopyInv, CopyTypeOK
  <2>2. /\ StartTime \in Nat /\ EndTime \in Nat /\ MaxTime \in Nat
        /\ output.head \in Int /\ output.last \in Int
    BY <2>1, Places, RingBufferAssumption DEF UserTypes, OutputStates
  <2>3. /\ output.new /\ ptr = output.seen /\ writer.at = "idle"
        /\ output.last = writer.from
    BY DEF Undisturbed
  <2>4. stores > 0 /\ output.head \in {output.last} \cup StartTime .. output.last
    BY <2>1, <2>3 DEF Playing
  <2>5. StartTime <= output.last /\ output.last < EndTime /\ EndTime <= MaxTime
    BY <2>1, <2>3, <2>4 DEF StoreInv, Storing, Published
  <2>6. StartTime <= output.head /\ output.head < EndTime
    BY <2>2, <2>4, <2>5
  <2>7. QED
    BY <2>2, <2>5, <2>6 DEF Larger, Held, Time
<1>2. QED
  BY <1>1, CopyInvariance, PTL

-----------------------------------------------------------------------------
(* The mutex: that scopes of a CAMutex implement mutual exclusion, for every *)
(* set of threads and however deep they nest.                                *)

(* How scopes nest.  A Locker releases the mutex exactly if the scope around *)
(* it does not hold it.                                                      *)
HeldIn(s, i) == i \in DOMAIN s /\ s[i].kind = "locked"
NestedAt(s, i) ==
  /\ s[i].kind = "locked" => (s[i].mNeedsRelease <=> ~HeldIn(s, i + 1))
  /\ s[i].kind = "unlocked" => HeldIn(s, i + 1) /\ ~s[i].mNeedsRelease
  /\ s[i].kind = "failed" => ~HeldIn(s, i + 1) /\ ~s[i].mNeedsRelease
WellNested(s) == \A i \in DOMAIN s : NestedAt(s, i)
Top(s) == s # <<>> /\ Head(s).kind = "locked"

(* Where a thread stands in a call, what it holds, and who has the mutex. *)
Standing(t) ==
  /\ where[t] \in {"lock", "try", "own"} => ~Holds(t)
  /\ where[t] = "release" => Holds(t) /\ opens[t] \in {"Unlocker", "none"}
  /\ where[t] = "try" => opens[t] = "Tryer"
  /\ where[t] \in {"lock", "own"} => opens[t] \in {"Locker", "Tryer", "none"}
  /\ where[t] \in {"lock", "own"} /\ opens[t] = "none"
       => scopes[t] # <<>> /\ Head(scopes[t]).kind = "unlocked"
  /\ where[t] = "release" /\ opens[t] = "none" => Head(scopes[t]).mNeedsRelease
Nested == \A t \in Thread : WellNested(scopes[t])
Standings == \A t \in Thread : Standing(t)
Owner == \A t \in Thread : mOwner = t <=> Holds(t) /\ where[t] # "release"
Has == \A t \in Thread : mMutex = t <=> Holds(t) \/ where[t] = "own"
MutexInv == MutexAssumption /\ MutexTypeOK /\ Nested /\ Standings /\ Owner /\ Has

-----------------------------------------------------------------------------
(* What opening and closing a scope do to the sequence of them. *)
LEMMA Pushed ==
  ASSUME NEW S, NEW s \in Seq(S), NEW x \in S
  PROVE  LET r == <<x>> \o s
         IN  /\ r \in Seq(S) /\ r # <<>> /\ Head(r) = x /\ r[1] = x
             /\ Len(r) = Len(s) + 1
             /\ \A i \in 1 .. Len(s) : r[i + 1] = s[i]
<1>1. <<x>> \in Seq(S) /\ Len(<<x>>) = 1 OBVIOUS
<1>2. /\ <<x>> \o s \in Seq(S) /\ Len(<<x>> \o s) = 1 + Len(s)
      /\ \A i \in 1 .. Len(<<x>>) + Len(s) :
           (<<x>> \o s)[i] = IF i <= Len(<<x>>) THEN <<x>>[i] ELSE s[i - Len(<<x>>)]
  BY <1>1, ConcatProperties
<1>3. Len(s) \in Nat OBVIOUS
<1>4. (<<x>> \o s)[1] = x BY <1>1, <1>2, <1>3
<1>5. \A i \in 1 .. Len(s) : (<<x>> \o s)[i + 1] = s[i] BY <1>1, <1>2, <1>3
<1> QED BY <1>2, <1>3, <1>4, <1>5

LEMMA Popped ==
  ASSUME NEW S, NEW s \in Seq(S), s # <<>>
  PROVE  /\ Tail(s) \in Seq(S) /\ Head(s) = s[1] /\ Head(s) \in S
         /\ Len(Tail(s)) = Len(s) - 1 /\ Len(s) \in Nat \ {0}
         /\ \A i \in 1 .. Len(Tail(s)) : Tail(s)[i] = s[i + 1]
BY HeadTailProperties

(* The scope around the innermost one is that of which its kind tells. *)
LEMMA TopIsHeldIn ==
  ASSUME NEW s \in Seq(Scope)
  PROVE  Top(s) <=> HeldIn(s, 1)
BY DEF Top, HeldIn

LEMMA TailIsHeldIn ==
  ASSUME NEW s \in Seq(Scope), s # <<>>
  PROVE  Top(Tail(s)) <=> HeldIn(s, 2)
<1>1. Top(Tail(s)) <=> HeldIn(Tail(s), 1) BY Popped, TopIsHeldIn
<1> QED BY <1>1, Popped DEF HeldIn

LEMMA NestedPush ==
  ASSUME NEW s \in Seq(Scope), WellNested(s), NEW x \in Scope,
         x.kind = "locked" => (x.mNeedsRelease <=> ~Top(s)),
         x.kind = "unlocked" => Top(s) /\ ~x.mNeedsRelease,
         x.kind = "failed" => ~Top(s) /\ ~x.mNeedsRelease
  PROVE  WellNested(<<x>> \o s)
<1> DEFINE r == <<x>> \o s
<1>1. /\ r \in Seq(Scope) /\ r[1] = x /\ Len(r) = Len(s) + 1
      /\ \A i \in 1 .. Len(s) : r[i + 1] = s[i]
  BY Pushed
<1> HIDE DEF r
<1>2. \A i \in Nat \ {0} : HeldIn(r, i + 1) <=> HeldIn(s, i)
  BY <1>1 DEF HeldIn
<1>3. NestedAt(r, 1)
  <2>1. HeldIn(r, 1 + 1) <=> Top(s) BY <1>2, TopIsHeldIn
  <2>2. r[1] = x BY <1>1
  <2> QED BY <2>1, <2>2, Zenon DEF NestedAt
<1>4. ASSUME NEW i \in 1 .. Len(s) PROVE NestedAt(r, i + 1)
  <2>1. i \in DOMAIN s /\ i \in Nat \ {0} /\ i + 1 \in Nat \ {0} OBVIOUS
  <2>2. NestedAt(s, i) BY <2>1 DEF WellNested
  <2>3. r[i + 1] = s[i] BY <1>1
  <2>4. HeldIn(r, (i + 1) + 1) <=> HeldIn(s, i + 1) BY <1>2, <2>1
  <2> QED BY <2>2, <2>3, <2>4 DEF NestedAt
<1>5. \A j \in DOMAIN r : j = 1 \/ j - 1 \in 1 .. Len(s)
  <2>1. Len(s) \in Nat /\ DOMAIN r = 1 .. Len(s) + 1 BY <1>1
  <2> QED BY <2>1
<1>6. \A j \in DOMAIN r : NestedAt(r, j)
  <2> SUFFICES ASSUME NEW j \in DOMAIN r PROVE NestedAt(r, j) OBVIOUS
  <2>1. CASE j = 1 BY <1>3, <2>1
  <2>2. CASE j - 1 \in 1 .. Len(s)
    <3>1. NestedAt(r, (j - 1) + 1) BY <1>4, <2>2
    <3>2. j \in Int /\ (j - 1) + 1 = j BY <1>1
    <3> QED BY <3>1, <3>2
  <2> QED BY <1>5, <2>1, <2>2
<1> QED BY <1>6 DEF WellNested, r

LEMMA NestedPop ==
  ASSUME NEW s \in Seq(Scope), WellNested(s), s # <<>>
  PROVE  WellNested(Tail(s))
<1>1. \A i \in Nat \ {0} : HeldIn(Tail(s), i) <=> HeldIn(s, i + 1)
  BY Popped DEF HeldIn
<1>2. ASSUME NEW i \in 1 .. Len(Tail(s)) PROVE NestedAt(Tail(s), i)
  <2>1. /\ Len(s) \in Nat \ {0} /\ Len(Tail(s)) = Len(s) - 1
        /\ Tail(s)[i] = s[i + 1]
    BY Popped
  <2>2. i \in Nat \ {0} /\ i + 1 \in Nat \ {0} /\ i + 1 \in DOMAIN s BY <2>1
  <2>3. NestedAt(s, i + 1) BY <2>2 DEF WellNested
  <2>4. HeldIn(Tail(s), i + 1) <=> HeldIn(s, (i + 1) + 1) BY <1>1, <2>2
  <2> QED BY <2>1, <2>3, <2>4 DEF NestedAt
<1>3. DOMAIN Tail(s) = 1 .. Len(Tail(s)) BY Popped
<1> QED BY <1>2, <1>3 DEF WellNested

(* What the kind of the innermost scope says of the one around it. *)
LEMMA Around ==
  ASSUME NEW s \in Seq(Scope), WellNested(s), s # <<>>
  PROVE  /\ Head(s).kind = "locked" => (Head(s).mNeedsRelease <=> ~Top(Tail(s)))
         /\ Head(s).kind = "unlocked" => Top(Tail(s)) /\ ~Head(s).mNeedsRelease
         /\ Head(s).kind = "failed" => ~Top(Tail(s)) /\ ~Head(s).mNeedsRelease
<1>1. NestedAt(s, 1) /\ Head(s) = s[1] BY Popped DEF WellNested
<1> QED BY <1>1, TailIsHeldIn DEF NestedAt

-----------------------------------------------------------------------------
(* A step of one thread.  What it must leave alone of the others, and bring  *)
(* about for itself, to keep the invariant.                                  *)
LEMMA OneThread ==
  ASSUME MutexInv, NEW t \in Thread,
         MutexTypeOK', WellNested(scopes'[t]), Standing(t)',
         \A u \in Thread \ {t} :
           /\ scopes'[u] = scopes[u] /\ where'[u] = where[u] /\ opens'[u] = opens[u]
           /\ (mOwner' = u <=> mOwner = u) /\ (mMutex' = u <=> mMutex = u),
         mOwner' = t <=> Holds(t)' /\ where'[t] # "release",
         mMutex' = t <=> Holds(t)' \/ where'[t] = "own"
  PROVE  MutexInv'
<1> USE DEF MutexInv
<1>1. \A u \in Thread \ {t} : Holds(u)' <=> Holds(u) BY DEF Holds
<1>2. Nested' BY DEF Nested
<1>3. Standings'
  <2>1. \A u \in Thread \ {t} : Standing(u)' BY <1>1 DEF Standings, Standing
  <2> QED BY <2>1 DEF Standings
<1>4. Owner' BY <1>1 DEF Owner
<1>5. Has' BY <1>1 DEF Has
<1> QED BY <1>2, <1>3, <1>4, <1>5

(* What a thread's invariant says of it. *)
LEMMA OfThread ==
  ASSUME MutexInv, NEW t \in Thread
  PROVE  /\ scopes[t] \in Seq(Scope) /\ WellNested(scopes[t]) /\ Standing(t)
         /\ Holds(t) <=> Top(scopes[t])
         /\ mOwner = t <=> Holds(t) /\ where[t] # "release"
         /\ mMutex = t <=> Holds(t) \/ where[t] = "own"
<1>1. scopes[t] \in Seq(Scope) BY DEF MutexInv, MutexTypeOK
<1>2. WellNested(scopes[t]) /\ Standing(t) BY DEF MutexInv, Nested, Standings
<1>3. Holds(t) <=> Top(scopes[t]) BY DEF Holds, Top
<1>4. /\ mOwner = t <=> Holds(t) /\ where[t] # "release"
      /\ mMutex = t <=> Holds(t) \/ where[t] = "own"
  BY DEF MutexInv, Owner, Has
<1> QED BY <1>1, <1>2, <1>3, <1>4

LEMMA Opened ==
  ASSUME MutexInv, NEW t \in Thread, NEW kind \in Kinds, NEW needs \in BOOLEAN,
         Open(t, kind, needs),
         kind = "locked" => (needs <=> ~Holds(t)),
         kind = "unlocked" => Holds(t) /\ ~needs,
         kind = "failed" => ~Holds(t) /\ ~needs
  PROVE  /\ scopes' \in [Thread -> Seq(Scope)] /\ where' \in [Thread -> CallPlaces]
         /\ WellNested(scopes'[t]) /\ where'[t] = "run"
         /\ Holds(t)' <=> kind = "locked"
         /\ \A u \in Thread \ {t} : scopes'[u] = scopes[u] /\ where'[u] = where[u]
<1> DEFINE x == [kind |-> kind, mNeedsRelease |-> needs]
<1>1. x \in Scope /\ x.kind = kind /\ x.mNeedsRelease = needs BY DEF Scope
<1>2. scopes[t] \in Seq(Scope) /\ WellNested(scopes[t]) /\ (Holds(t) <=> Top(scopes[t]))
  BY OfThread
<1>3. /\ <<x>> \o scopes[t] \in Seq(Scope) /\ <<x>> \o scopes[t] # <<>>
      /\ Head(<<x>> \o scopes[t]) = x
  BY <1>1, <1>2, Pushed
<1>4. WellNested(<<x>> \o scopes[t])
  <2> HIDE DEF x
  <2>1. /\ x.kind = "locked" => (x.mNeedsRelease <=> ~Top(scopes[t]))
        /\ x.kind = "unlocked" => Top(scopes[t]) /\ ~x.mNeedsRelease
        /\ x.kind = "failed" => ~Top(scopes[t]) /\ ~x.mNeedsRelease
    BY <1>1, <1>2
  <2> QED BY <1>1, <1>2, <2>1, NestedPush
<1>5. /\ scopes \in [Thread -> Seq(Scope)] /\ where \in [Thread -> CallPlaces]
      /\ scopes' = [scopes EXCEPT ![t] = <<x>> \o scopes[t]]
      /\ where' = [where EXCEPT ![t] = "run"]
  BY DEF MutexInv, MutexTypeOK, Open, Goto
<1> HIDE DEF x
<1>6. scopes'[t] = <<x>> \o scopes[t] BY <1>5
<1>7. Holds(t)' <=> kind = "locked" BY <1>1, <1>3, <1>6 DEF Holds
<1>8. where' \in [Thread -> CallPlaces] BY <1>5 DEF CallPlaces
<1>9. scopes' \in [Thread -> Seq(Scope)] BY <1>3, <1>5
<1> QED BY <1>4, <1>5, <1>6, <1>7, <1>8, <1>9

LEMMA Left ==
  ASSUME MutexInv, NEW t \in Thread, scopes[t] # <<>>, Leave(t)
  PROVE  /\ scopes' \in [Thread -> Seq(Scope)] /\ where' \in [Thread -> CallPlaces]
         /\ WellNested(scopes'[t]) /\ where'[t] = "run"
         /\ Holds(t)' <=> Top(Tail(scopes[t]))
         /\ \A u \in Thread \ {t} : scopes'[u] = scopes[u] /\ where'[u] = where[u]
<1>1. scopes[t] \in Seq(Scope) /\ WellNested(scopes[t]) BY OfThread
<1>2. Tail(scopes[t]) \in Seq(Scope) BY <1>1, Popped
<1>3. WellNested(Tail(scopes[t])) BY <1>1, NestedPop
<1>4. /\ scopes \in [Thread -> Seq(Scope)] /\ where \in [Thread -> CallPlaces]
      /\ scopes' = [scopes EXCEPT ![t] = Tail(scopes[t])]
      /\ where' = [where EXCEPT ![t] = "run"]
  BY DEF MutexInv, MutexTypeOK, Leave, Goto
<1>5. scopes'[t] = Tail(scopes[t]) BY <1>4
<1>6. Holds(t)' <=> Top(Tail(scopes[t])) BY <1>5 DEF Holds, Top
<1>7. where' \in [Thread -> CallPlaces] BY <1>4 DEF CallPlaces
<1>8. scopes' \in [Thread -> Seq(Scope)] BY <1>2, <1>4
<1> QED BY <1>3, <1>4, <1>5, <1>6, <1>7, <1>8

-----------------------------------------------------------------------------
(* A step of one thread leaves the others where they are. *)
OfOne(t) == \A u \in Thread \ {t} : scopes'[u] = scopes[u] /\ where'[u] = where[u]

LEMMA CallBegins ==
  ASSUME MutexInv
  PROVE  /\ scopes \in [Thread -> Seq(Scope)] /\ where \in [Thread -> CallPlaces]
         /\ opens \in [Thread -> {"Locker", "Tryer", "Unlocker", "none"}]
         /\ mOwner \in Thread \cup {Nobody} /\ mMutex \in Thread \cup {Nobody}
         /\ Nobody \notin Thread
BY DEF MutexInv, MutexTypeOK, MutexAssumption

(* A Locker or a Tryer whose thread has the mutex. *)
LEMMA OwnedStep ==
  ASSUME MutexInv, NEW t \in Thread, NEW scope \in {"Locker", "Tryer"},
         Opening(t, scope), OwnedAlready(t)
  PROVE  MutexInv' /\ OfOne(t) /\ (Holds(t)' <=> Holds(t)) /\ (where'[t] = where[t])
<1>1. Holds(t) /\ Open(t, "locked", FALSE) /\ where[t] = "run"
  BY OfThread DEF OwnedAlready, Opening, InCode
<1>2. /\ scopes' \in [Thread -> Seq(Scope)] /\ where' \in [Thread -> CallPlaces]
      /\ WellNested(scopes'[t]) /\ where'[t] = "run" /\ Holds(t)'
      /\ \A u \in Thread \ {t} : scopes'[u] = scopes[u] /\ where'[u] = where[u]
  BY <1>1, Opened DEF Kinds
<1>3. UNCHANGED <<mOwner, mMutex>> /\ opens' = [opens EXCEPT ![t] = scope]
  BY DEF OwnedAlready, Opening
<1>4. MutexTypeOK' BY <1>2, <1>3, CallBegins DEF MutexTypeOK
<1>5. Standing(t)' BY <1>2 DEF Standing
<1>6. \A u \in Thread \ {t} : opens'[u] = opens[u] BY <1>3, CallBegins
<1>7. mOwner = t /\ mMutex = t BY <1>1, OfThread DEF OwnedAlready
<1>8. MutexInv' BY <1>2, <1>3, <1>4, <1>5, <1>6, <1>7, OneThread
<1> QED BY <1>1, <1>2, <1>8 DEF OfOne

(* One whose thread does not have it, or an Unlocker's end. *)
LEMMA LockStep ==
  ASSUME MutexInv, NEW t \in Thread, NEW place \in {"lock", "try"}, where[t] = "run",
         NEW scope \in {"Locker", "Tryer", "none"},
         opens' = [opens EXCEPT ![t] = scope], Lock(t, place),
         place = "try" => scope = "Tryer",
         scope = "none" => scopes[t] # <<>> /\ Head(scopes[t]).kind = "unlocked"
  PROVE  MutexInv' /\ OfOne(t) /\ ~Holds(t) /\ ~Holds(t)' /\ where'[t] = place
<1>1. ~Holds(t) /\ mOwner # t /\ mMutex # t BY OfThread DEF Lock
<1>2. where' = [where EXCEPT ![t] = place] /\ UNCHANGED <<mOwner, mMutex, scopes>>
  BY DEF Lock, Goto
<1>3. /\ where'[t] = place /\ opens'[t] = scope /\ scopes'[t] = scopes[t]
      /\ \A u \in Thread \ {t} : where'[u] = where[u] /\ opens'[u] = opens[u]
  BY <1>2, CallBegins
<1>4. ~Holds(t)' BY <1>1, <1>2 DEF Holds
<1>5. MutexTypeOK'
  <2>1. where' \in [Thread -> CallPlaces] BY <1>2, CallBegins DEF CallPlaces
  <2>2. opens' \in [Thread -> {"Locker", "Tryer", "Unlocker", "none"}] BY CallBegins
  <2> QED BY <1>2, <2>1, <2>2, CallBegins DEF MutexTypeOK
<1>6. Standing(t)' BY <1>3, <1>4 DEF Standing
<1>7. WellNested(scopes'[t]) BY <1>3, OfThread
<1>8. MutexInv' BY <1>1, <1>2, <1>3, <1>4, <1>5, <1>6, <1>7, OneThread
<1> QED BY <1>1, <1>2, <1>3, <1>4, <1>8 DEF OfOne

LEMMA TakeStep ==
  ASSUME MutexInv, NEW t \in Thread, where[t] \in {"lock", "try"}, TakeMutex(t)
  PROVE  MutexInv' /\ OfOne(t) /\ ~Holds(t) /\ ~Holds(t)' /\ where'[t] = "own"
<1>1. ~Holds(t) /\ mOwner # t /\ Standing(t) BY OfThread DEF Standing
<1>2. /\ mMutex = Nobody /\ mMutex' = t /\ where' = [where EXCEPT ![t] = "own"]
      /\ UNCHANGED <<mOwner, scopes, opens>>
  BY DEF TakeMutex, Goto
<1>3. where'[t] = "own" /\ \A u \in Thread \ {t} : where'[u] = where[u] BY <1>2, CallBegins
<1>4. ~Holds(t)' BY <1>1, <1>2 DEF Holds
<1>5. MutexTypeOK'
  <2>1. where' \in [Thread -> CallPlaces] BY <1>2, CallBegins DEF CallPlaces
  <2> QED BY <1>2, <2>1, CallBegins DEF MutexTypeOK
<1>6. Standing(t)' BY <1>1, <1>2, <1>3, <1>4 DEF Standing
<1>7. WellNested(scopes'[t]) BY <1>2, OfThread
<1>8. \A u \in Thread \ {t} : mMutex' = u <=> mMutex = u BY <1>2, CallBegins
<1>9. MutexInv' BY <1>1, <1>2, <1>3, <1>4, <1>5, <1>6, <1>7, <1>8, OneThread
<1> QED BY <1>1, <1>2, <1>3, <1>4, <1>9 DEF OfOne

LEMMA FailStep ==
  ASSUME MutexInv, NEW t \in Thread, where[t] = "try", mMutex # Nobody,
         Open(t, "failed", FALSE), UNCHANGED <<mOwner, mMutex, opens>>
  PROVE  MutexInv' /\ OfOne(t) /\ ~Holds(t) /\ ~Holds(t)' /\ where'[t] = "run"
<1>1. ~Holds(t) /\ mOwner # t /\ mMutex # t BY OfThread DEF Standing
<1>2. /\ scopes' \in [Thread -> Seq(Scope)] /\ where' \in [Thread -> CallPlaces]
      /\ WellNested(scopes'[t]) /\ where'[t] = "run" /\ ~Holds(t)'
      /\ \A u \in Thread \ {t} : scopes'[u] = scopes[u] /\ where'[u] = where[u]
  BY <1>1, Opened DEF Kinds
<1>3. MutexTypeOK' BY <1>2, CallBegins DEF MutexTypeOK
<1>4. Standing(t)' BY <1>2 DEF Standing
<1>5. MutexInv' BY <1>1, <1>2, <1>3, <1>4, OneThread
<1> QED BY <1>1, <1>2, <1>5 DEF OfOne

LEMMA OwnStep ==
  ASSUME MutexInv, NEW t \in Thread, SetOwner(t)
  PROVE  /\ MutexInv' /\ OfOne(t) /\ ~Holds(t) /\ Holds(t)'
         /\ mMutex = t /\ where[t] = "own" /\ where'[t] = "run"
<1>1. /\ where[t] = "own" /\ ~Holds(t) /\ mMutex = t /\ Standing(t)
      /\ mOwner' = t /\ UNCHANGED <<mMutex, opens>>
  BY OfThread DEF Standing, SetOwner
<1>2. /\ scopes' \in [Thread -> Seq(Scope)] /\ where' \in [Thread -> CallPlaces]
      /\ WellNested(scopes'[t]) /\ where'[t] = "run" /\ Holds(t)'
      /\ \A u \in Thread \ {t} : scopes'[u] = scopes[u] /\ where'[u] = where[u]
  <2>1. CASE opens[t] = "none"
    <3>1. Leave(t) BY <2>1 DEF SetOwner
    <3>2. scopes[t] # <<>> /\ Head(scopes[t]).kind = "unlocked"
      BY <1>1, <2>1 DEF Standing
    <3>3. scopes[t] \in Seq(Scope) /\ WellNested(scopes[t]) BY OfThread
    <3>4. Top(Tail(scopes[t])) BY <3>2, <3>3, Around
    <3> QED BY <3>1, <3>2, <3>4, Left
  <2>2. CASE opens[t] # "none"
    <3>1. Open(t, "locked", TRUE) BY <2>2 DEF SetOwner
    <3> QED BY <1>1, <3>1, Opened DEF Kinds
  <2> QED BY <2>1, <2>2
<1>3. MutexTypeOK' BY <1>1, <1>2, CallBegins DEF MutexTypeOK
<1>4. Standing(t)' BY <1>2 DEF Standing
<1>5. \A u \in Thread \ {t} : ~Holds(u) \/ where[u] = "release"
  BY <1>1, OfThread
<1>6. \A u \in Thread \ {t} : mOwner # u BY <1>5, OfThread
<1>7. MutexInv' BY <1>1, <1>2, <1>3, <1>4, <1>6, OneThread
<1> QED BY <1>1, <1>2, <1>7 DEF OfOne

LEMMA UnlockStep ==
  ASSUME MutexInv, NEW t \in Thread, where[t] = "run", Holds(t), Unlock(t),
         NEW scope \in {"Unlocker", "none"}, opens' = [opens EXCEPT ![t] = scope],
         scope = "none" => Head(scopes[t]).mNeedsRelease
  PROVE  MutexInv' /\ OfOne(t) /\ Holds(t)' /\ where'[t] = "release"
<1>1. /\ mOwner = t /\ mOwner' = Nobody /\ where' = [where EXCEPT ![t] = "release"]
      /\ UNCHANGED <<mMutex, scopes>>
  BY DEF Unlock, Goto
<1>2. /\ where'[t] = "release" /\ opens'[t] = scope /\ scopes'[t] = scopes[t]
      /\ \A u \in Thread \ {t} : where'[u] = where[u] /\ opens'[u] = opens[u]
  BY <1>1, CallBegins
<1>3. Holds(t)' BY <1>1 DEF Holds
<1>4. MutexTypeOK'
  <2>1. where' \in [Thread -> CallPlaces] BY <1>1, CallBegins DEF CallPlaces
  <2>2. opens' \in [Thread -> {"Locker", "Tryer", "Unlocker", "none"}] BY CallBegins
  <2> QED BY <1>1, <2>1, <2>2, CallBegins DEF MutexTypeOK
<1>5. Standing(t)' BY <1>2, <1>3 DEF Standing
<1>6. WellNested(scopes'[t]) /\ mMutex = t BY <1>2, OfThread
<1>7. \A u \in Thread \ {t} : mOwner' = u <=> mOwner = u BY <1>1, CallBegins
<1>8. MutexInv' BY <1>1, <1>2, <1>3, <1>4, <1>5, <1>6, <1>7, CallBegins, OneThread
<1> QED BY <1>1, <1>2, <1>3, <1>8 DEF OfOne

LEMMA ReleaseStep ==
  ASSUME MutexInv, NEW t \in Thread, ReleaseMutex(t)
  PROVE  /\ MutexInv' /\ OfOne(t) /\ Holds(t) /\ ~Holds(t)'
         /\ where[t] = "release" /\ where'[t] = "run"
<1>1. /\ where[t] = "release" /\ Holds(t) /\ mMutex = t /\ mOwner # t /\ Standing(t)
      /\ mMutex' = Nobody /\ UNCHANGED <<mOwner, opens>>
  BY OfThread DEF Standing, ReleaseMutex
<1>2. /\ scopes' \in [Thread -> Seq(Scope)] /\ where' \in [Thread -> CallPlaces]
      /\ WellNested(scopes'[t]) /\ where'[t] = "run" /\ ~Holds(t)'
      /\ \A u \in Thread \ {t} : scopes'[u] = scopes[u] /\ where'[u] = where[u]
  <2>1. CASE opens[t] = "none" /\ Leave(t)
    <3>1. scopes[t] # <<>> /\ Head(scopes[t]).kind = "locked" /\ Head(scopes[t]).mNeedsRelease
      BY <1>1, <2>1 DEF Standing, Holds
    <3>2. scopes[t] \in Seq(Scope) /\ WellNested(scopes[t]) BY OfThread
    <3>3. ~Top(Tail(scopes[t])) BY <3>1, <3>2, Around
    <3> QED BY <2>1, <3>1, <3>3, Left
  <2>2. CASE Open(t, "unlocked", FALSE)
    BY <1>1, <2>2, Opened DEF Kinds
  <2> QED BY <2>1, <2>2 DEF ReleaseMutex
<1>3. MutexTypeOK' BY <1>1, <1>2, CallBegins DEF MutexTypeOK
<1>4. Standing(t)' BY <1>2 DEF Standing
<1>5. \A u \in Thread \ {t} : mMutex' = u <=> mMutex = u BY <1>1, CallBegins
<1>6. MutexInv' BY <1>1, <1>2, <1>3, <1>4, <1>5, CallBegins, OneThread
<1> QED BY <1>1, <1>2, <1>6 DEF OfOne

(* The end of a block that does not have to unlock. *)
LEMMA LeaveStep ==
  ASSUME MutexInv, NEW t \in Thread, Closing(t), Head(scopes[t]).kind # "unlocked",
         ~Head(scopes[t]).mNeedsRelease, Leave(t), UNCHANGED <<mOwner, mMutex>>
  PROVE  MutexInv' /\ OfOne(t) /\ (Holds(t)' <=> Holds(t)) /\ where'[t] = where[t]
<1>1. /\ where[t] = "run" /\ scopes[t] # <<>> /\ opens' = [opens EXCEPT ![t] = "none"]
  BY DEF Closing, InCode
<1>2. /\ scopes[t] \in Seq(Scope) /\ WellNested(scopes[t]) BY OfThread
<1>3. Head(scopes[t]) \in Scope BY <1>1, <1>2, Popped
<1>4. Holds(t) <=> Top(Tail(scopes[t]))
  <2>1. Head(scopes[t]).kind \in {"locked", "failed"} BY <1>3 DEF Scope, Kinds
  <2>2. CASE Head(scopes[t]).kind = "locked"
    BY <1>1, <1>2, <2>2, Around DEF Holds
  <2>3. CASE Head(scopes[t]).kind = "failed"
    BY <1>1, <1>2, <2>3, Around DEF Holds
  <2> QED BY <2>1, <2>2, <2>3
<1>5. /\ scopes' \in [Thread -> Seq(Scope)] /\ where' \in [Thread -> CallPlaces]
      /\ WellNested(scopes'[t]) /\ where'[t] = "run"
      /\ Holds(t)' <=> Holds(t)
      /\ \A u \in Thread \ {t} : scopes'[u] = scopes[u] /\ where'[u] = where[u]
  BY <1>1, <1>4, Left
<1>6. \A u \in Thread \ {t} : opens'[u] = opens[u] BY <1>1, CallBegins
<1>7. MutexTypeOK'
  <2>1. opens' \in [Thread -> {"Locker", "Tryer", "Unlocker", "none"}]
    BY <1>1, CallBegins
  <2> QED BY <1>5, <2>1, CallBegins DEF MutexTypeOK
<1>8. Standing(t)' BY <1>5 DEF Standing
<1>9. /\ mOwner' = t <=> Holds(t)' /\ where'[t] # "release"
      /\ mMutex' = t <=> Holds(t)' \/ where'[t] = "own"
  BY <1>1, <1>5, OfThread
<1>10. MutexInv' BY <1>5, <1>6, <1>7, <1>8, <1>9, OneThread
<1> QED BY <1>1, <1>5, <1>10 DEF OfOne

-----------------------------------------------------------------------------
LEMMA InitInv == MutexInit /\ MutexAssumption => MutexInv
<1> SUFFICES ASSUME MutexInit, MutexAssumption PROVE MutexInv OBVIOUS
<1>1. <<>> \in Seq(Scope) OBVIOUS
<1>2. MutexTypeOK BY <1>1 DEF MutexInit, MutexTypeOK, CallPlaces
<1>3. \A t \in Thread : ~Holds(t) /\ where[t] = "run" /\ mOwner # t /\ mMutex # t
  BY DEF MutexInit, Holds, MutexAssumption
<1>4. Nested BY DEF MutexInit, Nested, WellNested
<1>5. Standings BY <1>3 DEF Standings, Standing
<1>6. Owner /\ Has BY <1>3 DEF Owner, Has
<1> QED BY <1>2, <1>4, <1>5, <1>6 DEF MutexInv

(* What a step of a thread is to the abstract mutex: nothing, the thread's   *)
(* beginning to wait, its getting the mutex or its giving it back.           *)
Waits(t) == where[t] \in {"lock", "own"}
Step(t) ==
  \/ (Holds(t)' <=> Holds(t)) /\ (Waits(t)' <=> Waits(t))
  \/ ~Holds(t) /\ ~Holds(t)' /\ ~Waits(t) /\ Waits(t)'
  \/ mMutex = t /\ ~Holds(t) /\ Holds(t)' /\ ~Waits(t)'
  \/ Holds(t) /\ ~Holds(t)' /\ ~Waits(t) /\ ~Waits(t)'

LEMMA ThreadStep ==
  ASSUME MutexInv, NEW t \in Thread,
         \/ Locker(t) \/ Tryer(t) \/ Unlocker(t) \/ EndScope(t) \/ LockMutex(t)
         \/ InCall(t)
  PROVE  MutexInv' /\ OfOne(t) /\ Step(t)
<1>1. CASE Locker(t)
  <2>1. Opening(t, "Locker") BY <1>1 DEF Locker
  <2>2. CASE Lock(t, "lock")
    <3>1. where[t] = "run" /\ opens' = [opens EXCEPT ![t] = "Locker"]
      BY <2>1 DEF Opening, InCode
    <3>2. MutexInv' /\ OfOne(t) /\ ~Holds(t) /\ ~Holds(t)' /\ where'[t] = "lock"
      BY <2>2, <3>1, LockStep
    <3> QED BY <3>1, <3>2 DEF Step, Waits
  <2>3. CASE OwnedAlready(t)
    <3>1. MutexInv' /\ OfOne(t) /\ (Holds(t)' <=> Holds(t)) /\ where'[t] = where[t]
      BY <2>1, <2>3, OwnedStep
    <3> QED BY <3>1 DEF Step, Waits
  <2> QED BY <1>1, <2>2, <2>3 DEF Locker
<1>2. CASE Tryer(t)
  <2>1. Opening(t, "Tryer") BY <1>2 DEF Tryer
  <2>2. CASE Lock(t, "try")
    <3>1. where[t] = "run" /\ opens' = [opens EXCEPT ![t] = "Tryer"]
      BY <2>1 DEF Opening, InCode
    <3>2. MutexInv' /\ OfOne(t) /\ ~Holds(t) /\ ~Holds(t)' /\ where'[t] = "try"
      BY <2>2, <3>1, LockStep
    <3> QED BY <3>1, <3>2 DEF Step, Waits
  <2>3. CASE OwnedAlready(t)
    <3>1. MutexInv' /\ OfOne(t) /\ (Holds(t)' <=> Holds(t)) /\ where'[t] = where[t]
      BY <2>1, <2>3, OwnedStep
    <3> QED BY <3>1 DEF Step, Waits
  <2> QED BY <1>2, <2>2, <2>3 DEF Tryer
<1>3. CASE Unlocker(t)
  <2>1. /\ where[t] = "run" /\ Holds(t) /\ Unlock(t)
        /\ opens' = [opens EXCEPT ![t] = "Unlocker"]
    BY <1>3 DEF Unlocker, Opening, InCode
  <2>2. MutexInv' /\ OfOne(t) /\ Holds(t)' /\ where'[t] = "release"
    BY <2>1, UnlockStep
  <2> QED BY <2>1, <2>2 DEF Step, Waits
<1>4. CASE EndScope(t)
  <2>1. /\ Closing(t) /\ where[t] = "run" /\ scopes[t] # <<>>
        /\ opens' = [opens EXCEPT ![t] = "none"]
    BY <1>4 DEF EndScope, Closing, InCode
  <2>2. CASE Head(scopes[t]).mNeedsRelease /\ Unlock(t)
    <3>1. Holds(t) BY <2>2, OfThread DEF Unlock
    <3>2. MutexInv' /\ OfOne(t) /\ Holds(t)' /\ where'[t] = "release"
      BY <2>1, <2>2, <3>1, UnlockStep
    <3> QED BY <2>1, <3>1, <3>2 DEF Step, Waits
  <2>3. CASE /\ Head(scopes[t]).kind # "unlocked" /\ ~Head(scopes[t]).mNeedsRelease
             /\ Leave(t) /\ UNCHANGED <<mOwner, mMutex>>
    <3>1. MutexInv' /\ OfOne(t) /\ (Holds(t)' <=> Holds(t)) /\ where'[t] = where[t]
      BY <2>1, <2>3, LeaveStep
    <3> QED BY <3>1 DEF Step, Waits
  <2>4. CASE Head(scopes[t]).kind = "unlocked" /\ Lock(t, "lock")
    <3>1. MutexInv' /\ OfOne(t) /\ ~Holds(t) /\ ~Holds(t)' /\ where'[t] = "lock"
      BY <2>1, <2>4, LockStep
    <3> QED BY <2>1, <3>1 DEF Step, Waits
  <2> QED BY <1>4, <2>2, <2>3, <2>4 DEF EndScope
<1>5. CASE LockMutex(t)
  <2>1. where[t] = "lock" /\ TakeMutex(t) BY <1>5 DEF LockMutex
  <2>2. MutexInv' /\ OfOne(t) /\ ~Holds(t) /\ ~Holds(t)' /\ where'[t] = "own"
    BY <2>1, TakeStep
  <2> QED BY <2>1, <2>2 DEF Step, Waits
<1>6. CASE TryMutex(t)
  <2>1. where[t] = "try" BY <1>6 DEF TryMutex
  <2>2. CASE TakeMutex(t)
    <3>1. MutexInv' /\ OfOne(t) /\ ~Holds(t) /\ ~Holds(t)' /\ where'[t] = "own"
      BY <2>1, <2>2, TakeStep
    <3> QED BY <2>1, <3>1 DEF Step, Waits
  <2>3. CASE /\ mMutex # Nobody /\ Open(t, "failed", FALSE)
             /\ UNCHANGED <<mOwner, mMutex, opens>>
    <3>1. MutexInv' /\ OfOne(t) /\ ~Holds(t) /\ ~Holds(t)' /\ where'[t] = "run"
      BY <2>1, <2>3, FailStep
    <3> QED BY <2>1, <3>1 DEF Step, Waits
  <2> QED BY <1>6, <2>2, <2>3 DEF TryMutex
<1>7. CASE SetOwner(t)
  <2>1. /\ MutexInv' /\ OfOne(t) /\ ~Holds(t) /\ Holds(t)'
        /\ mMutex = t /\ where[t] = "own" /\ where'[t] = "run"
    BY <1>7, OwnStep
  <2> QED BY <2>1 DEF Step, Waits
<1>8. CASE ReleaseMutex(t)
  <2>1. /\ MutexInv' /\ OfOne(t) /\ Holds(t) /\ ~Holds(t)'
        /\ where[t] = "release" /\ where'[t] = "run"
    BY <1>8, ReleaseStep
  <2> QED BY <2>1 DEF Step, Waits
<1> QED BY <1>1, <1>2, <1>3, <1>4, <1>5, <1>6, <1>7, <1>8 DEF InCall

LEMMA StepInv == MutexInv /\ [MutexNext]_mutexVars => MutexInv'
<1> SUFFICES ASSUME MutexInv, [MutexNext]_mutexVars PROVE MutexInv' OBVIOUS
<1>1. CASE MutexNext BY <1>1, ThreadStep DEF MutexNext
<1>2. CASE UNCHANGED mutexVars
  <2>1. UNCHANGED <<mOwner, mMutex, scopes, where, opens>> BY <1>2 DEF mutexVars
  <2> QED BY <2>1 DEF MutexInv, MutexTypeOK, Nested, Standings, Standing, Owner, Has, Holds
<1> QED BY <1>1, <1>2

(* The invariant: scopes nest so that a Locker releases the mutex exactly if *)
(* the scope around it does not hold it, a thread's name is in mOwner while  *)
(* it holds the mutex and is not unlocking it, and the pthread mutex is that *)
(* of the thread that holds it or is about to.                               *)
THEOREM MutexInvariance == MutexAssumption /\ MutexSpec => []MutexInv
<1>1. MutexInit /\ MutexAssumption => MutexInv BY InitInv
<1>2. MutexInv /\ [MutexNext]_mutexVars => MutexInv' BY StepInv
<1> QED BY <1>1, <1>2, PTL DEF MutexSpec

(* Type correctness of the mutex and its scopes. *)
THEOREM MutexTypeCorrect == MutexAssumption /\ MutexSpec => []MutexTypeOK
<1>1. MutexInv => MutexTypeOK BY DEF MutexInv
<1> QED BY <1>1, MutexInvariance, PTL

OneHolder == \A t, u \in Holders : t = u

(* Two threads are never in code that has locked the same CAMutex, although  *)
(* mOwner, by which a thread finds out that it need not lock, is read        *)
(* without the mutex.                                                        *)
THEOREM OneHolds == MutexAssumption /\ MutexSpec => []OneHolder
<1>1. MutexInv => OneHolder BY DEF MutexInv, Has, OneHolder, Holders
<1> QED BY <1>1, MutexInvariance, PTL

-----------------------------------------------------------------------------
LEMMA MapsStep ==
  ASSUME MutexInv, NEW t \in Thread, OfOne(t), Step(t)
  PROVE  Exclusion!Next \/ UNCHANGED <<Holders, Waiting>>
<1>1. \A u \in Thread \ {t} : (Holds(u)' <=> Holds(u)) /\ (Waits(u)' <=> Waits(u))
  BY DEF OfOne, Holds, Waits
<1>2. /\ \A u \in Thread : (u \in Holders <=> Holds(u)) /\ (u \in Waiting <=> Waits(u))
      /\ \A u \in Thread : (u \in Holders' <=> Holds(u)') /\ (u \in Waiting' <=> Waits(u)')
      /\ Holders \subseteq Thread /\ Holders' \subseteq Thread
      /\ Waiting \subseteq Thread /\ Waiting' \subseteq Thread
  BY DEF Holders, Waiting, Waits
<1>3. CASE (Holds(t)' <=> Holds(t)) /\ (Waits(t)' <=> Waits(t))
  <2>1. Holders' = Holders BY <1>1, <1>2, <1>3
  <2>2. Waiting' = Waiting BY <1>1, <1>2, <1>3
  <2> QED BY <2>1, <2>2
<1>4. CASE ~Holds(t) /\ ~Holds(t)' /\ ~Waits(t) /\ Waits(t)'
  <2>1. Holders' = Holders BY <1>1, <1>2, <1>4
  <2>2. Waiting' = Waiting \cup {t} BY <1>1, <1>2, <1>4
  <2>3. t \notin Holders \cup Waiting BY <1>2, <1>4
  <2>4. Exclusion!Wait(t) BY <2>1, <2>2, <2>3 DEF Exclusion!Wait
  <2> QED BY <2>4 DEF Exclusion!Next
<1>5. CASE mMutex = t /\ ~Holds(t) /\ Holds(t)' /\ ~Waits(t)'
  <2>1. \A u \in Thread : ~Holds(u) BY <1>5 DEF MutexInv, Has
  <2>2. Holders = {} BY <1>2, <2>1
  <2>3. Holders' = {t} BY <1>1, <1>2, <1>5, <2>1
  <2>4. Waiting' = Waiting \ {t} BY <1>1, <1>2, <1>5
  <2>5. Exclusion!Acquire(t) BY <2>2, <2>3, <2>4 DEF Exclusion!Acquire
  <2> QED BY <2>5 DEF Exclusion!Next
<1>6. CASE Holds(t) /\ ~Holds(t)' /\ ~Waits(t) /\ ~Waits(t)'
  <2>1. \A u \in Thread : Holds(u) => u = t BY <1>6 DEF MutexInv, Has
  <2>2. Holders = {t} BY <1>2, <1>6, <2>1
  <2>3. Holders' = {} BY <1>1, <1>2, <1>6, <2>1
  <2>4. Waiting' = Waiting BY <1>1, <1>2, <1>6
  <2>5. Exclusion!Release(t) BY <2>2, <2>3, <2>4 DEF Exclusion!Release
  <2> QED BY <2>5 DEF Exclusion!Next
<1> QED BY <1>3, <1>4, <1>5, <1>6 DEF Step

(* The scopes of a CAMutex implement mutual exclusion, whatever threads there *)
(* are and however deep Locker, Tryer and Unlocker nest: each step is nothing, *)
(* or one of the abstract mutex.                                              *)
THEOREM ImplementsExclusion == MutexAssumption /\ MutexSpec => Exclusion!Spec
<1>1. MutexInit => Exclusion!Init
  BY DEF MutexInit, Exclusion!Init, Holders, Waiting, Holds
<1>2. MutexInv /\ [MutexNext]_mutexVars => [Exclusion!Next]_<<Holders, Waiting>>
  <2> SUFFICES ASSUME MutexInv, [MutexNext]_mutexVars
               PROVE  Exclusion!Next \/ UNCHANGED <<Holders, Waiting>>
    OBVIOUS
  <2>1. CASE MutexNext
    <3>1. PICK t \in Thread :
            \/ Locker(t) \/ Tryer(t) \/ Unlocker(t) \/ EndScope(t) \/ LockMutex(t)
            \/ InCall(t)
      BY <2>1 DEF MutexNext
    <3>2. OfOne(t) /\ Step(t) BY <3>1, ThreadStep
    <3> QED BY <3>2, MapsStep
  <2>2. CASE UNCHANGED mutexVars
    BY <2>2 DEF mutexVars, Holders, Waiting, Holds
  <2> QED BY <2>1, <2>2
<1> QED BY <1>1, <1>2, MutexInvariance, PTL DEF MutexSpec, Exclusion!Spec

-----------------------------------------------------------------------------
(* Do Not Disturb: who should be silent is, and nobody else stays so,       *)
(* whatever apps and volumes there are.                                     *)

\* The entry of an app, in memory or kept for the next launch.
Saved == IF alive THEN mutedApps ELSE defaults.mutedApps

\* The list of running apps is behind by the notices still to come.  A new
\* process is no client while its list entry is the old one's.
Behind == \A a \in App :
  /\ notices[a] = 1 <=> (a \in listed <=> a \notin running)
  /\ notices[a] = 2 /\ a \in running => client[a] = None

Persisted ==
  /\ alive => enabled = defaults.enabled
  /\ ~alive => pc = "idle"
  /\ alive /\ pc = "idle" => mutedApps = defaults.mutedApps

\* A pass has still to come to whoever has an entry and is not to have one, but
\* for those of a pass that was cut short.
Passes ==
  /\ pc = "apply" => enabled /\ todo \subseteq listed
  /\ pc = "restore" => ~enabled
  /\ \A a \in App \ lost : Saved[a] # None => /\ ~defaults.enabled => a \in todo
                                              /\ alive => a \in listed

\* What it came to is muted, but for the app that is spared.
Came == alive /\ enabled =>
  \A a \in listed \ todo :
    IF a = defaults.priority THEN mutedApps[a] = None
    ELSE mutedApps[a] # None \/ strange[a] # "no"

\* Entries are the volumes the apps had, and without an entry they have it, if
\* it is not lost.
Kept == \A a \in App : client[a] # None =>
  /\ Saved[a] # None /\ strange[a] = "no" => client[a] = Min
  /\ a \in running \ lost =>
       /\ Saved[a] = None => client[a] = own[a]
       /\ Saved[a] # None /\ strange[a] = "no" => own[a] = Saved[a]

DNDInv ==
  /\ DNDTypeOK /\ (\A a \in App : past[a] \in {None, Default})
  /\ Behind /\ Persisted /\ Passes /\ Came /\ Kept

Settings == [enabled : BOOLEAN, priority : App \cup {None}, mutedApps : [App -> Entry]]

LEMMA DNDStarts == DNDInit => DNDInv
<1> SUFFICES ASSUME DNDInit PROVE DNDInv
  OBVIOUS
<1> USE DoNotDisturbAssumption DEF DNDInit
<1>1. Nothing \in [App -> Entry] /\ \A a \in App : Nothing[a] = None
  BY DEF Nothing, Entry
<1>2. defaults \in Settings
  BY <1>1 DEF Settings
<1>3. client \in [App -> Entry]
  BY DEF Entry
<1>4. /\ strange \in [App -> {"no", "late", "slid", "failed", "crashed"}]
      /\ notices \in [App -> 0 .. 2] /\ lost = {}
      /\ \A a \in App : notices[a] = 0 /\ strange[a] = "no"
  OBVIOUS
<1>5. 0 \in 0 .. MaxEvents
  OBVIOUS
<1>6. DNDTypeOK
  BY <1>1, <1>2, <1>3, <1>4, <1>5 DEF DNDTypeOK, Settings
<1>7. Saved = Nothing
  BY DEF Saved
<1>8. Behind
  BY <1>4 DEF Behind
<1>10. Persisted /\ Passes
  BY <1>1, <1>7 DEF Persisted, Passes
<1>9. Came /\ Kept
  BY <1>1, <1>4, <1>7 DEF Came, Kept
<1> QED
  BY <1>3, <1>6, <1>8, <1>9, <1>10 DEF DNDInv

(* What others do leaves the switches and the pass as they are.              *)
LEMMA SwitchesKept ==
  ASSUME DNDInv, UNCHANGED <<listed, dnd>>,
         \A a \in lost \ lost' : Saved[a] = None
  PROVE  /\ Persisted' /\ Passes' /\ Saved' = Saved
         /\ (\A a \in App : strange'[a] = strange[a] \/ strange'[a] # "no") => Came'
<1>1. Saved' = Saved
  BY DEF dnd, Saved
<1>2. Persisted' /\ Passes'
  BY <1>1 DEF DNDInv, dnd, Persisted, Passes
<1>3. ASSUME \A a \in App : strange'[a] = strange[a] \/ strange'[a] # "no"
      PROVE  Came'
  <2>1. listed \subseteq App
    BY DEF DNDInv, DNDTypeOK
  <2> QED
    BY <1>3, <2>1 DEF DNDInv, dnd, Came
<1> QED
  BY <1>1, <1>2, <1>3

LEMMA BecauseType ==
  ASSUME DNDInv, NEW a \in App, NEW why \in {"no", "late", "slid", "failed", "crashed"}
  PROVE  /\ Because(a, why) \in [App -> {"no", "late", "slid", "failed", "crashed"}]
         /\ \A b \in App : Because(a, why)[b] = IF b = a THEN why ELSE strange[b]
  BY DEF DNDInv, DNDTypeOK, Because

LEMMA AddClientKeeps ==
  ASSUME DNDInv, NEW a \in App, AddClient(a)
  PROVE  DNDInv'
<1> USE DoNotDisturbAssumption
<1> DEFINE v == IF past[a] # None THEN past[a] ELSE Default
<1>1. v = Default /\ v \in Entry
  BY DEF DNDInv, Entry
<1>2. /\ a \in running /\ client[a] = None /\ notices[a] < 2
      /\ client' = [client EXCEPT ![a] = v] /\ past' = [past EXCEPT ![a] = v]
      /\ own' = [own EXCEPT ![a] = v]
      /\ strange' = IF HasEntry(a) THEN Because(a, "late") ELSE strange
      /\ UNCHANGED <<apps, dnd, events>>
  BY DEF AddClient
<1> HIDE DEF v
<1>3. UNCHANGED <<running, listed, notices, alive, enabled, mutedApps, defaults, pc, todo, events>>
  BY <1>2 DEF apps, dnd
<1>4. /\ strange' \in [App -> {"no", "late", "slid", "failed", "crashed"}]
      /\ \A b \in App : strange'[b] = IF b = a /\ HasEntry(a) THEN "late" ELSE strange[b]
  BY <1>2, BecauseType DEF DNDInv, DNDTypeOK
<1>10. lost' = IF HasEntry(a) THEN lost ELSE lost \ {a}
  BY DEF AddClient
<1>8. HasEntry(a) <=> Saved[a] # None
  BY DEF HasEntry, Saved
<1>5. DNDTypeOK'
  BY <1>1, <1>2, <1>3, <1>4, <1>10 DEF DNDInv, DNDTypeOK
<1>6. Persisted' /\ Passes' /\ Saved' = Saved /\ Came'
  BY <1>2, <1>4, <1>8, <1>10, SwitchesKept DEF apps
<1>7. Behind' /\ \A b \in App : past'[b] \in {None, Default}
  BY <1>1, <1>2, <1>3 DEF DNDInv, DNDTypeOK, Behind
<1>9. Kept'
  BY <1>1, <1>2, <1>3, <1>4, <1>6, <1>8, <1>10 DEF DNDInv, DNDTypeOK, Kept
<1> QED
  BY <1>5, <1>6, <1>7, <1>9 DEF DNDInv

(* A client goes, or all do.                                                 *)
LEMMA ClientsGo ==
  ASSUME DNDInv, UNCHANGED <<apps, dnd, strange, lost>>, events' \in 0 .. MaxEvents,
         client' \in [App -> Entry], own' \in [App -> Entry],
         past' \in [App -> Entry], \A a \in App : past'[a] \in {None, Default},
         \A a \in App : client'[a] # None => client'[a] = client[a] /\ own'[a] = own[a]
  PROVE  DNDInv'
<1>1. UNCHANGED <<running, listed, notices, alive, enabled, mutedApps, defaults, pc, todo, strange, lost>>
  BY DEF apps, dnd
<1>2. DNDTypeOK'
  BY <1>1 DEF DNDInv, DNDTypeOK
<1>3. Persisted' /\ Passes' /\ Saved' = Saved /\ Came'
  BY <1>1, SwitchesKept
<1>4. Behind' /\ Kept'
  BY <1>1, <1>3 DEF DNDInv, Behind, Kept
<1> QED
  BY <1>2, <1>3, <1>4 DEF DNDInv

LEMMA RemoveClientKeeps ==
  ASSUME DNDInv, NEW a \in App, RemoveClient(a)
  PROVE  DNDInv'
<1>1. None \in Entry
  BY DEF Entry
<1>2. /\ client' = [client EXCEPT ![a] = None] /\ own' = [own EXCEPT ![a] = None]
      /\ UNCHANGED <<apps, past, dnd, events, strange, lost>>
  BY DEF RemoveClient
<1> QED
  BY <1>1, <1>2, ClientsGo DEF DNDInv, DNDTypeOK

LEMMA CoreaudiodRestartsKeeps ==
  ASSUME DNDInv, CoreaudiodRestarts
  PROVE  DNDInv'
<1> USE DoNotDisturbAssumption
<1>1. Nothing \in [App -> Entry] /\ \A a \in App : Nothing[a] = None
  BY DEF Nothing, Entry
<1>2. /\ client' = Nothing /\ past' = Nothing /\ own' = Nothing
      /\ UNCHANGED <<apps, dnd, strange, lost>> /\ events' \in 0 .. MaxEvents
  BY DEF CoreaudiodRestarts, Event, DNDInv, DNDTypeOK
<1> QED
  BY <1>1, <1>2, ClientsGo

(* An app comes or goes.                                                     *)
LEMMA AppsChange ==
  ASSUME DNDInv, NEW a \in App, Launch(a) \/ Quit(a)
  PROVE  DNDInv'
<1> USE DoNotDisturbAssumption
<1>1. /\ notices[a] < 2 /\ notices' = [notices EXCEPT ![a] = @ + 1]
      /\ UNCHANGED <<listed, driver, dnd, ghosts>> /\ events' \in 0 .. MaxEvents
      /\ running' \subseteq App /\ (a \in running' <=> a \notin running)
      /\ a \in running' => client[a] = None
      /\ \A b \in App \ {a} : b \in running' <=> b \in running
  BY DEF Launch, Quit, Event, DNDInv, DNDTypeOK
<1>2. UNCHANGED <<client, past, alive, enabled, mutedApps, defaults, pc, todo, own, strange, lost>>
  BY <1>1 DEF driver, dnd, ghosts
<1>3. notices' \in [App -> 0 .. 2]
  BY <1>1 DEF DNDInv, DNDTypeOK
<1>4. DNDTypeOK'
  BY <1>1, <1>2, <1>3 DEF DNDInv, DNDTypeOK
<1>5. Persisted' /\ Passes' /\ Saved' = Saved /\ Came'
  BY <1>1, <1>2, SwitchesKept
<1>6. Behind'
  BY <1>1, <1>2 DEF DNDInv, DNDTypeOK, Behind
<1>7. Kept'
  BY <1>1, <1>2, <1>5 DEF DNDInv, Kept
<1> QED
  BY <1>2, <1>4, <1>5, <1>6, <1>7 DEF DNDInv

LEMMA UserSlidesKeeps ==
  ASSUME DNDInv, NEW a \in App, NEW v \in Volume \ {Min}, UserSlides(a, v)
  PROVE  DNDInv'
<1> USE DoNotDisturbAssumption
<1>1. /\ alive /\ client[a] # None /\ client' = [client EXCEPT ![a] = v]
      /\ UNCHANGED <<apps, past, dnd>> /\ events' \in 0 .. MaxEvents /\ v \in Entry /\ v # None
  BY DEF UserSlides, Event, SetAppVolume, DNDInv, DNDTypeOK, Entry
<1>2. UNCHANGED <<running, listed, notices, alive, enabled, mutedApps, defaults, pc, todo>>
  BY <1>1 DEF apps, dnd
<1>3. Saved' = Saved /\ Saved = mutedApps
  BY <1>1, <1>2 DEF Saved
<1>4. /\ strange' \in [App -> {"no", "late", "slid", "failed", "crashed"}] /\ own' \in [App -> Entry]
      /\ \A b \in App : own'[b] = IF b = a /\ (Saved[a] = None \/ ~enabled) THEN v ELSE own[b]
      /\ lost' = IF Saved[a] = None THEN lost \ {a} ELSE lost
      /\ \A b \in App : strange'[b] = IF b = a /\ Saved[a] # None THEN "slid" ELSE strange[b]
  BY <1>1, <1>3, BecauseType DEF UserSlides, DNDInv, DNDTypeOK
<1>5. DNDTypeOK'
  BY <1>1, <1>2, <1>4 DEF DNDInv, DNDTypeOK
<1>6. Persisted' /\ Passes' /\ Came'
  BY <1>1, <1>2, <1>4, SwitchesKept
<1>7. Behind'
  BY <1>1, <1>2 DEF DNDInv, DNDTypeOK, Behind
<1>8. Kept'
  BY <1>1, <1>2, <1>3, <1>4 DEF DNDInv, DNDTypeOK, Kept
<1> QED
  BY <1>1, <1>5, <1>6, <1>7, <1>8 DEF DNDInv

-----------------------------------------------------------------------------
(* A pass deals with one app: the others stay as they are, and the app has   *)
(* an entry and is silent, or has none and its volume, if that is not lost.  *)
Handled(a) ==
  /\ client' \in [App -> Entry] /\ mutedApps' \in [App -> Entry] /\ own' \in [App -> Entry]
  /\ strange' \in [App -> {"no", "late", "slid", "failed", "crashed"}]
  /\ \A b \in App \ {a} : /\ client'[b] = client[b] /\ mutedApps'[b] = mutedApps[b]
                          /\ own'[b] = own[b] /\ strange'[b] = strange[b]
                          /\ b \in lost' <=> b \in lost
  /\ lost' \subseteq App /\ (a \in lost \ lost' => mutedApps'[a] = None)
  /\ client'[a] # None =>
       /\ client[a] # None
       /\ mutedApps'[a] # None /\ strange'[a] = "no" => client'[a] = Min
       /\ a \in running \ lost' =>
            /\ mutedApps'[a] = None => client'[a] = own'[a]
            /\ mutedApps'[a] # None /\ strange'[a] = "no" => own'[a] = mutedApps'[a]

LEMMA NothingToDo ==
  ASSUME DNDInv, alive, NEW a \in App, UNCHANGED <<client, mutedApps, ghosts>>
  PROVE  Handled(a) /\ mutedApps'[a] = mutedApps[a]
<1>1. UNCHANGED <<own, strange, lost>> /\ Saved = mutedApps
  BY DEF ghosts, Saved
<1> QED
  BY <1>1 DEF DNDInv, DNDTypeOK, Kept, Handled

LEMMA MuteAppMutes ==
  ASSUME DNDInv, alive, NEW a \in App, mutedApps[a] = None, MuteApp(a)
  PROVE  Handled(a) /\ (mutedApps'[a] # None \/ strange'[a] # "no")
<1> USE DoNotDisturbAssumption
<1>1. /\ CurrentVolume(a) \in Volume
      /\ client[a] # None => CurrentVolume(a) = client[a]
      /\ Volume \subseteq Entry /\ None \notin Volume
  BY DEF DNDInv, DNDTypeOK, CurrentVolume, Entry
<1>2. /\ client \in [App -> Entry] /\ mutedApps \in [App -> Entry] /\ own \in [App -> Entry]
      /\ strange \in [App -> {"no", "late", "slid", "failed", "crashed"}]
  BY DEF DNDInv, DNDTypeOK
<1>3. client[a] # None /\ a \in running \ lost => client[a] = own[a]
  BY DEF DNDInv, Kept, Saved
<1>4. CASE /\ mutedApps' = [mutedApps EXCEPT ![a] = CurrentVolume(a)]
           /\ SetAppVolume(a, Min) /\ strange' = Because(a, "no") /\ UNCHANGED <<own, lost>>
  <2>1. /\ client' \in [App -> Entry]
        /\ client'[a] # None => client[a] # None /\ client'[a] = Min
        /\ \A b \in App \ {a} : client'[b] = client[b]
    BY <1>1, <1>2, <1>4 DEF SetAppVolume
  <2>2. /\ strange' \in [App -> {"no", "late", "slid", "failed", "crashed"}]
        /\ \A b \in App \ {a} : strange'[b] = strange[b]
    BY <1>4, BecauseType
  <2>3. /\ mutedApps' \in [App -> Entry] /\ mutedApps'[a] = CurrentVolume(a)
        /\ \A b \in App \ {a} : mutedApps'[b] = mutedApps[b]
    BY <1>1, <1>2, <1>4
  <2>4. /\ own' \in [App -> Entry] /\ \A b \in App : own'[b] = own[b]
        /\ mutedApps'[a] # None /\ lost' = lost /\ lost \subseteq App
    BY <1>1, <1>2, <1>4, <2>3 DEF DNDInv, DNDTypeOK
  <2>5. client'[a] # None /\ a \in running \ lost' => own'[a] = mutedApps'[a]
    BY <1>1, <1>3, <2>1, <2>3, <2>4
  <2> QED
    BY <2>1, <2>2, <2>3, <2>4, <2>5 DEF Handled
<1>5. CASE /\ mutedApps' = [mutedApps EXCEPT ![a] = CurrentVolume(a)] \/ UNCHANGED mutedApps
           /\ strange' = Because(a, "failed") /\ UNCHANGED <<client, own, lost>>
  <2>1. /\ strange' \in [App -> {"no", "late", "slid", "failed", "crashed"}] /\ strange'[a] = "failed"
        /\ \A b \in App \ {a} : strange'[b] = strange[b]
    BY <1>5, BecauseType
  <2>2. /\ mutedApps' \in [App -> Entry]
        /\ \A b \in App \ {a} : mutedApps'[b] = mutedApps[b]
        /\ lost' = lost /\ lost \subseteq App
    BY <1>1, <1>2, <1>5 DEF DNDInv, DNDTypeOK
  <2> QED
    BY <1>1, <1>2, <1>3, <1>5, <2>1, <2>2 DEF Handled
<1> QED
  BY <1>4, <1>5 DEF MuteApp

LEMMA RestoreAppRestores ==
  ASSUME DNDInv, alive, NEW a \in App, RestoreAppIfMuted(a)
  PROVE  Handled(a) /\ mutedApps'[a] = None
<1>1. CASE mutedApps[a] = None
  BY <1>1, NothingToDo DEF RestoreAppIfMuted
<1>2. CASE mutedApps[a] # None
  <2>1. /\ client \in [App -> Entry] /\ mutedApps \in [App -> Entry] /\ own \in [App -> Entry]
        /\ strange \in [App -> {"no", "late", "slid", "failed", "crashed"}] /\ None \in Entry
    BY DEF DNDInv, DNDTypeOK, Entry
  <2>2. /\ mutedApps' = [mutedApps EXCEPT ![a] = None]
        /\ \/ /\ SetAppVolume(a, mutedApps[a])
              /\ lost' = IF mutedApps[a] = own[a] THEN lost \ {a} ELSE lost
           \/ lost' = lost \cup {a} /\ UNCHANGED client
        /\ strange' = Because(a, "no")
        /\ own' = IF strange[a] # "no" /\ client[a] # None
                  THEN [own EXCEPT ![a] = mutedApps[a]] ELSE own
    BY <1>2 DEF RestoreAppIfMuted
  <2>3. /\ client' \in [App -> Entry]
        /\ client'[a] # None => client[a] # None
        /\ client'[a] # None /\ a \notin lost' => client'[a] = mutedApps[a]
        /\ \A b \in App \ {a} : client'[b] = client[b]
        /\ \A b \in App \ {a} : b \in lost' <=> b \in lost
        /\ lost' \subseteq App /\ (a \in lost \ lost' => mutedApps[a] = own[a])
    BY <2>1, <2>2 DEF SetAppVolume, DNDInv, DNDTypeOK
  <2>4. /\ strange' \in [App -> {"no", "late", "slid", "failed", "crashed"}]
        /\ \A b \in App \ {a} : strange'[b] = strange[b]
    BY <2>2, BecauseType
  <2>5. /\ mutedApps' \in [App -> Entry] /\ mutedApps'[a] = None
        /\ \A b \in App \ {a} : mutedApps'[b] = mutedApps[b]
    BY <2>1, <2>2
  <2>6. /\ own' \in [App -> Entry] /\ \A b \in App \ {a} : own'[b] = own[b]
        /\ strange[a] # "no" /\ client[a] # None => own'[a] = mutedApps[a]
        /\ strange[a] = "no" => own'[a] = own[a]
    BY <2>1, <2>2
  <2>7. client[a] # None /\ strange[a] = "no" /\ a \in running \ lost' => own[a] = mutedApps[a]
    BY <1>2, <2>3 DEF DNDInv, Kept, Saved
  <2>8. client'[a] # None /\ a \in running \ lost' => client'[a] = own'[a]
    BY <2>3, <2>4, <2>6, <2>7
  <2> QED
    BY <2>3, <2>4, <2>5, <2>6, <2>8 DEF Handled
<1> QED
  BY <1>1, <1>2

LEMMA PassGoesOn ==
  ASSUME DNDInv, NEW a \in todo, alive, pc # "idle", Handled(a), todo' = todo \ {a},
         UNCHANGED <<apps, past, alive, enabled, defaults, pc, events>>,
         enabled => IF a = defaults.priority THEN mutedApps'[a] = None
                    ELSE mutedApps'[a] # None \/ strange'[a] # "no",
         ~enabled => mutedApps'[a] = None
  PROVE  DNDInv'
<1>1. UNCHANGED <<running, listed, notices>> /\ a \in App
  BY DEF apps, DNDInv, DNDTypeOK
<1>2. DNDTypeOK'
  BY <1>1 DEF DNDInv, DNDTypeOK, Handled
<1>3. Behind'
  BY <1>1 DEF DNDInv, Behind, Handled
<1>4. Persisted'
  BY DEF DNDInv, Persisted
<1>5. Saved = mutedApps /\ Saved' = mutedApps'
  BY DEF Saved
<1>6. Passes'
  BY <1>1, <1>5 DEF DNDInv, DNDTypeOK, Persisted, Passes, Handled
<1>7. Came'
  BY <1>1 DEF DNDInv, DNDTypeOK, Came, Handled
<1>8. Kept'
  BY <1>1, <1>5 DEF DNDInv, Kept, Handled
<1> QED
  BY <1>1, <1>2, <1>3, <1>4, <1>6, <1>7, <1>8 DEF DNDInv

LEMMA ApplyToKeeps ==
  ASSUME DNDInv, NEW a \in App, ApplyTo(a)
  PROVE  DNDInv'
<1>1. /\ alive /\ pc = "apply" /\ enabled /\ a \in todo /\ todo' = todo \ {a}
      /\ UNCHANGED <<apps, past, alive, enabled, defaults, pc, events>>
  BY DEF ApplyTo, DNDInv, Passes
<1>2. /\ Handled(a)
      /\ IF a = defaults.priority THEN mutedApps'[a] = None
         ELSE mutedApps'[a] # None \/ strange'[a] # "no"
  <2>1. CASE a = defaults.priority
    BY <1>1, <2>1, RestoreAppRestores DEF ApplyTo
  <2>2. CASE a # defaults.priority /\ mutedApps[a] = None
    BY <1>1, <2>2, MuteAppMutes DEF ApplyTo
  <2>3. CASE a # defaults.priority /\ mutedApps[a] # None
    BY <1>1, <2>3, NothingToDo DEF ApplyTo
  <2> QED
    BY <2>1, <2>2, <2>3
<1> QED
  BY <1>1, <1>2, PassGoesOn

LEMMA RestoreOneKeeps ==
  ASSUME DNDInv, NEW a \in App, RestoreOne(a)
  PROVE  DNDInv'
<1>1. /\ alive /\ pc = "restore" /\ ~enabled /\ a \in todo /\ todo' = todo \ {a}
      /\ UNCHANGED <<apps, past, alive, enabled, defaults, pc, events>>
      /\ RestoreAppIfMuted(a)
  BY DEF RestoreOne, DNDInv, Passes
<1> QED
  BY <1>1, RestoreAppRestores, PassGoesOn

-----------------------------------------------------------------------------
(* A pass begins: entries of apps that are not on the list are dropped, and  *)
(* none of those apps runs as a client.                                      *)
LEMMA PassBegins ==
  ASSUME DNDInv, pc = "idle", ApplyForRunningApps(Saved, listed'), listed' \subseteq App,
         UNCHANGED <<running, driver, ghosts>>, alive' = TRUE, enabled' = TRUE,
         defaults' \in Settings, defaults'.enabled = TRUE, events' \in 0 .. MaxEvents,
         notices' \in [App -> 0 .. 2], Behind',
         \A a \in App \ listed' :
           Saved[a] # None /\ client[a] # None => a \notin running \/ a \in lost
  PROVE  DNDInv'
<1>1. UNCHANGED <<client, past, own, strange, lost>> /\ None \in Entry
  BY DEF driver, ghosts, Entry
<1>2. Saved \in [App -> Entry]
  BY DEF DNDInv, DNDTypeOK, Saved
<1>3. /\ pc' = "apply" /\ todo' = listed' /\ Saved' = mutedApps'
      /\ mutedApps' = [a \in App |-> IF a \in listed' THEN Saved[a] ELSE None]
  BY DEF ApplyForRunningApps, Saved
<1>4. mutedApps' \in [App -> Entry]
  BY <1>1, <1>2, <1>3
<1>5. DNDTypeOK'
  BY <1>1, <1>3, <1>4 DEF DNDInv, DNDTypeOK, Settings
<1>6. Persisted' /\ Passes' /\ Came'
  BY <1>3 DEF Persisted, Passes, Came
<1>7. ASSUME NEW a \in App, client'[a] # None
      PROVE  /\ Saved'[a] # None => Saved[a] = Saved'[a]
             /\ Saved'[a] = None => Saved[a] = None \/ a \notin running' \ lost'
  BY <1>1, <1>3, <1>7
<1>8. Kept'
  BY <1>1, <1>7 DEF DNDInv, Kept
<1> QED
  BY <1>1, <1>5, <1>6, <1>8 DEF DNDInv

LEMMA DefaultsType ==
  ASSUME DNDInv
  PROVE  /\ defaults \in Settings
         /\ \A e \in BOOLEAN : /\ [defaults EXCEPT !.enabled = e] \in Settings
                               /\ [defaults EXCEPT !.enabled = e].enabled = e
                               /\ [defaults EXCEPT !.enabled = e].mutedApps = defaults.mutedApps
         /\ \A a \in App \cup {None} :
              /\ [defaults EXCEPT !.priority = a] \in Settings
              /\ [defaults EXCEPT !.priority = a].enabled = defaults.enabled
              /\ [defaults EXCEPT !.priority = a].mutedApps = defaults.mutedApps
         /\ \A saved \in [App -> Entry] :
              /\ [defaults EXCEPT !.mutedApps = saved] \in Settings
              /\ [defaults EXCEPT !.mutedApps = saved].enabled = defaults.enabled
              /\ [defaults EXCEPT !.mutedApps = saved].priority = defaults.priority
              /\ [defaults EXCEPT !.mutedApps = saved].mutedApps = saved
  BY DEF DNDInv, DNDTypeOK, Settings

\* Between two passes nobody has an entry when it is off, but for leftovers.
LEMMA OffIsEmpty ==
  ASSUME DNDInv, pc = "idle", ~defaults.enabled, NEW a \in App \ lost
  PROVE  Saved[a] = None
  BY DEF DNDInv, DNDTypeOK, Passes

(* Without a pass: the switches change, and no volume or entry does.         *)
LEMMA NoPass ==
  ASSUME DNDInv, UNCHANGED <<running, driver, ghosts>>, Saved' = Saved,
         listed' \subseteq App, notices' \in [App -> 0 .. 2], Behind',
         alive' \in BOOLEAN, enabled' \in BOOLEAN, mutedApps' \in [App -> Entry],
         defaults' \in Settings, pc' \in {"idle", "apply", "restore"}, todo' \subseteq App,
         pc' = "idle" => todo' = {}, events' \in 0 .. MaxEvents,
         Persisted', Passes', Came'
  PROVE  DNDInv'
<1>1. UNCHANGED <<client, past, own, strange, lost>>
  BY DEF driver, ghosts
<1>2. DNDTypeOK'
  BY <1>1 DEF DNDInv, DNDTypeOK, Settings
<1>3. Kept'
  BY <1>1 DEF DNDInv, Kept
<1> QED
  BY <1>1, <1>2, <1>3 DEF DNDInv

LEMMA PersistMutedAppsKeeps ==
  ASSUME DNDInv, PersistMutedApps
  PROVE  DNDInv'
<1>1. /\ alive /\ pc # "idle" /\ todo = {} /\ pc' = "idle"
      /\ defaults' = [defaults EXCEPT !.mutedApps = mutedApps]
      /\ UNCHANGED <<running, listed, notices, driver, alive, enabled, mutedApps, todo, events, ghosts>>
      /\ mutedApps \in [App -> Entry]
  BY DEF PersistMutedApps, apps, DNDInv, DNDTypeOK
<1>2. /\ defaults' \in Settings /\ defaults'.enabled = defaults.enabled
      /\ defaults'.priority = defaults.priority /\ defaults'.mutedApps = mutedApps
  BY <1>1, DefaultsType
<1>3. Saved' = Saved /\ UNCHANGED <<client, strange, lost>>
  BY <1>1 DEF Saved, driver, ghosts
<1>4. Persisted' /\ Passes'
  BY <1>1, <1>2, <1>3 DEF DNDInv, Persisted, Passes
<1>5. Came' /\ Behind'
  BY <1>1, <1>2, <1>3 DEF DNDInv, Came, Behind
<1> QED
  BY <1>1, <1>2, <1>3, <1>4, <1>5, NoPass DEF DNDInv, DNDTypeOK

LEMMA SetEnabledKeeps ==
  ASSUME DNDInv, NEW e \in BOOLEAN, SetEnabled(e)
  PROVE  DNDInv'
<1> USE DoNotDisturbAssumption
<1>1. /\ alive /\ pc = "idle" /\ enabled' = e /\ events' \in 0 .. MaxEvents
      /\ defaults' = [defaults EXCEPT !.enabled = e]
      /\ UNCHANGED <<running, listed, notices, driver, alive, ghosts>>
  BY DEF SetEnabled, Event, apps, DNDInv, DNDTypeOK
<1>2. /\ defaults' \in Settings /\ defaults'.enabled = e
      /\ defaults'.mutedApps = defaults.mutedApps /\ Saved = mutedApps
  BY <1>1, DefaultsType DEF Saved
<1>3. Behind' /\ listed \subseteq App /\ notices \in [App -> 0 .. 2]
  BY <1>1 DEF driver, DNDInv, DNDTypeOK, Behind
<1>4. CASE e
  <2>1. ApplyForRunningApps(Saved, listed')
    BY <1>1, <1>2, <1>4 DEF SetEnabled
  <2>2. \A a \in App \ listed' : Saved[a] = None \/ a \in lost
    BY <1>1 DEF DNDInv, Passes
  <2> QED
    BY <1>1, <1>2, <1>3, <1>4, <2>1, <2>2, PassBegins
<1>5. CASE ~e
  <2>1. /\ pc' = "restore" /\ todo' = {a \in App : mutedApps[a] # None}
        /\ UNCHANGED mutedApps
    BY <1>5 DEF SetEnabled
  <2>2. Saved' = Saved /\ lost' = lost
    BY <1>1, <1>2, <2>1 DEF Saved, ghosts
  <2>3. Persisted' /\ Passes' /\ Came'
    BY <1>1, <1>2, <1>5, <2>1, <2>2 DEF DNDInv, Persisted, Passes, Came
  <2> QED
    BY <1>1, <1>2, <1>3, <2>1, <2>2, <2>3, NoPass DEF DNDInv, DNDTypeOK
<1> QED
  BY <1>4, <1>5

LEMMA SetPriorityAppKeeps ==
  ASSUME DNDInv, NEW a \in App \cup {None}, SetPriorityApp(a)
  PROVE  DNDInv'
<1> USE DoNotDisturbAssumption
<1>1. /\ alive /\ pc = "idle" /\ events' \in 0 .. MaxEvents
      /\ defaults' = [defaults EXCEPT !.priority = a]
      /\ UNCHANGED <<running, listed, notices, driver, alive, enabled, ghosts>>
  BY DEF SetPriorityApp, Event, apps, DNDInv, DNDTypeOK
<1>2. /\ defaults' \in Settings /\ defaults'.enabled = defaults.enabled
      /\ defaults'.mutedApps = defaults.mutedApps /\ Saved = mutedApps
  BY <1>1, DefaultsType DEF Saved
<1>3. Behind' /\ listed \subseteq App /\ notices \in [App -> 0 .. 2]
  BY <1>1 DEF driver, DNDInv, DNDTypeOK, Behind
<1>4. enabled = defaults.enabled /\ enabled \in BOOLEAN
  BY <1>1 DEF DNDInv, DNDTypeOK, Persisted
<1>5. CASE enabled
  <2>1. ApplyForRunningApps(Saved, listed')
    BY <1>1, <1>2, <1>5 DEF SetPriorityApp
  <2>2. \A b \in App \ listed' : Saved[b] = None \/ b \in lost
    BY <1>1 DEF DNDInv, Passes
  <2>3. enabled' = TRUE /\ defaults'.enabled = TRUE /\ alive' = TRUE
    BY <1>1, <1>2, <1>4, <1>5
  <2> QED
    BY <1>1, <1>2, <1>3, <2>1, <2>2, <2>3, PassBegins
<1>6. CASE ~enabled
  <2>1. UNCHANGED <<mutedApps, pc, todo>>
    BY <1>6 DEF SetPriorityApp
  <2>2. Saved' = Saved /\ lost' = lost
    BY <1>1, <1>2, <2>1 DEF Saved, ghosts
  <2>3. Persisted' /\ Passes' /\ Came'
    BY <1>1, <1>2, <1>6, <2>1, <2>2 DEF DNDInv, Persisted, Passes, Came
  <2> QED
    BY <1>1, <1>2, <1>3, <2>1, <2>2, <2>3, NoPass DEF DNDInv, DNDTypeOK
<1> QED
  BY <1>5, <1>6

LEMMA RunningApplicationsChangedKeeps ==
  ASSUME DNDInv, NEW a \in App, RunningApplicationsChanged(a)
  PROVE  DNDInv'
<1> USE DoNotDisturbAssumption
<1>1. /\ alive /\ pc = "idle" /\ notices[a] > 0
      /\ notices' = [notices EXCEPT ![a] = @ - 1]
      /\ listed' = IF a \in listed THEN listed \ {a} ELSE listed \cup {a}
      /\ UNCHANGED <<running, driver, alive, enabled, defaults, events, ghosts>>
  BY DEF RunningApplicationsChanged
<1>2. /\ listed \subseteq App /\ listed' \subseteq App /\ notices \in [App -> 0 .. 2]
      /\ notices' \in [App -> 0 .. 2] /\ defaults \in Settings
  BY <1>1, DefaultsType DEF DNDInv, DNDTypeOK
<1>3. Behind' /\ (a \in listed /\ client[a] # None => a \notin running)
  BY <1>1, <1>2 DEF driver, DNDInv, Behind
<1>4. enabled = defaults.enabled /\ enabled \in BOOLEAN /\ Saved = mutedApps
  BY <1>1 DEF DNDInv, DNDTypeOK, Persisted, Saved
<1>5. CASE enabled
  <2>1. ApplyForRunningApps(Saved, listed')
    BY <1>4, <1>5 DEF RunningApplicationsChanged
  <2>2. \A b \in App \ listed' :
          Saved[b] # None => (b = a /\ a \in listed) \/ b \in lost
    BY <1>1 DEF DNDInv, Passes
  <2>3. enabled' = TRUE /\ defaults'.enabled = TRUE /\ alive' = TRUE
    BY <1>1, <1>4, <1>5
  <2>4. defaults' \in Settings /\ events' \in 0 .. MaxEvents
    BY <1>1, <1>2 DEF DNDInv, DNDTypeOK
  <2> QED
    BY <1>1, <1>2, <1>3, <2>1, <2>2, <2>3, <2>4, PassBegins
<1>6. CASE ~enabled
  <2>1. UNCHANGED <<mutedApps, pc, todo>>
    BY <1>6 DEF RunningApplicationsChanged
  <2>2. Saved' = Saved /\ lost' = lost /\ \A b \in App \ lost : Saved[b] = None
    BY <1>1, <1>4, <1>6, <2>1, OffIsEmpty DEF Saved, ghosts
  <2>3. Persisted' /\ Passes' /\ Came'
    BY <1>1, <1>6, <2>1, <2>2 DEF DNDInv, Persisted, Passes, Came
  <2> QED
    BY <1>1, <1>2, <1>3, <2>1, <2>2, <2>3, NoPass DEF DNDInv, DNDTypeOK
<1> QED
  BY <1>5, <1>6

(* Between two passes nothing is lost, within one the volumes it has dealt   *)
(* with.                                                                     *)
LEMMA BGMAppGoesKeeps ==
  ASSUME DNDInv, BGMAppGoes
  PROVE  DNDInv'
<1> USE DoNotDisturbAssumption
<1>1. /\ alive /\ alive' = FALSE /\ pc' = "idle" /\ todo' = {}
      /\ enabled' = FALSE /\ mutedApps' = Nothing /\ events' \in 0 .. MaxEvents
      /\ UNCHANGED <<running, listed, notices, client, past, defaults, own>>
      /\ lost' = lost \cup Unsaved
      /\ strange' = [a \in App |-> IF a \in Unsaved THEN "crashed" ELSE strange[a]]
  BY DEF BGMAppGoes, Event, apps, driver, DNDInv, DNDTypeOK
<1>2. /\ strange' \in [App -> {"no", "late", "slid", "failed", "crashed"}]
      /\ \A a \in App : strange'[a] = IF a \in Unsaved THEN "crashed" ELSE strange[a]
      /\ lost' \subseteq App
  BY <1>1 DEF DNDInv, DNDTypeOK, Unsaved
<1>3. Nothing \in [App -> Entry] /\ defaults \in Settings
  BY DefaultsType DEF Nothing, Entry
<1>4. DNDTypeOK'
  BY <1>1, <1>2, <1>3 DEF DNDInv, DNDTypeOK
<1>5. \A a \in App \ lost' : a \notin lost /\ Saved'[a] = Saved[a]
  BY <1>1 DEF Unsaved, Saved
<1>6. ASSUME NEW a \in App \ lost', ~defaults.enabled PROVE Saved'[a] = None
  <2>1. a \notin lost /\ a \notin Unsaved
    BY <1>1, <1>6
  <2>2. CASE pc = "idle"
    BY <1>5, <1>6, <2>1, <2>2, OffIsEmpty
  <2>3. CASE pc = "restore"
    BY <1>1, <2>1, <2>3 DEF Unsaved, Saved
  <2>4. CASE pc = "apply"
    BY <1>1, <1>6, <2>4 DEF DNDInv, Passes, Persisted
  <2> QED
    BY <2>2, <2>3, <2>4 DEF DNDInv, DNDTypeOK
<1>7. Persisted' /\ Passes' /\ Came' /\ Behind'
  BY <1>1, <1>6 DEF DNDInv, Persisted, Passes, Came, Behind
<1>8. Kept'
  <2> SUFFICES ASSUME NEW a \in App, client'[a] # None
               PROVE  /\ Saved'[a] # None /\ strange'[a] = "no" => client'[a] = Min
                      /\ a \in running' \ lost' =>
                           /\ Saved'[a] = None => client'[a] = own'[a]
                           /\ Saved'[a] # None /\ strange'[a] = "no" => own'[a] = Saved'[a]
    BY DEF Kept
  <2>1. CASE a \in Unsaved
    BY <1>1, <1>2, <2>1
  <2>2. CASE a \notin Unsaved
    <3>1. strange'[a] = strange[a] /\ Saved'[a] = Saved[a]
      BY <1>1, <1>2, <2>2 DEF Unsaved, Saved
    <3> QED
      BY <1>1, <3>1 DEF DNDInv, Kept
  <2> QED
    BY <2>1, <2>2
<1> QED
  BY <1>1, <1>4, <1>7, <1>8 DEF DNDInv

LEMMA BGMAppStartsKeeps ==
  ASSUME DNDInv, BGMAppStarts
  PROVE  DNDInv'
<1> USE DoNotDisturbAssumption
<1>1. /\ ~alive /\ pc = "idle" /\ alive' = TRUE /\ enabled' = defaults.enabled
      /\ listed' = running /\ notices' = [b \in App |-> 0]
      /\ UNCHANGED <<running, driver, defaults, events, ghosts>>
  BY DEF BGMAppStarts, DNDInv, Persisted
<1>2. /\ listed' \subseteq App /\ notices' \in [App -> 0 .. 2] /\ Behind'
      /\ defaults \in Settings /\ Saved = defaults.mutedApps
      /\ defaults.enabled \in BOOLEAN /\ defaults.mutedApps \in [App -> Entry]
      /\ events \in 0 .. MaxEvents
  BY <1>1, DefaultsType DEF DNDInv, DNDTypeOK, Behind, Saved, Settings
<1>3. CASE defaults.enabled
  <2>1. ApplyForRunningApps(Saved, listed')
    BY <1>1, <1>2, <1>3 DEF BGMAppStarts
  <2>2. enabled' = TRUE /\ defaults'.enabled = TRUE
    BY <1>1, <1>2, <1>3
  <2> QED
    BY <1>1, <1>2, <2>1, <2>2, PassBegins
<1>4. CASE ~defaults.enabled
  <2>1. mutedApps' = defaults.mutedApps /\ UNCHANGED <<pc, todo>>
    BY <1>4 DEF BGMAppStarts
  <2>2. Saved' = Saved /\ lost' = lost /\ \A b \in App \ lost : Saved[b] = None
    BY <1>1, <1>2, <1>4, <2>1, OffIsEmpty DEF Saved, ghosts
  <2>3. Persisted' /\ Passes' /\ Came'
    BY <1>1, <1>4, <2>1, <2>2 DEF Persisted, Passes, Came
  <2> QED
    BY <1>1, <1>2, <2>1, <2>2, <2>3, NoPass DEF DNDInv, DNDTypeOK
<1> QED
  BY <1>3, <1>4

-----------------------------------------------------------------------------
(* What holds at every step, wherever BGMApp stops and whatever fails.       *)
THEOREM DNDInvariance == DNDSpec => []DNDInv
<1>1. DNDInv /\ [DNDNext]_dndVars => DNDInv'
  <2> SUFFICES ASSUME DNDInv, [DNDNext]_dndVars PROVE DNDInv'
    OBVIOUS
  <2>1. CASE UNCHANGED dndVars
    <3>1. UNCHANGED <<apps, dnd, strange, lost, events, client, past, own>>
      BY <2>1 DEF dndVars, driver, ghosts
    <3> QED
      BY <3>1, ClientsGo DEF DNDInv, DNDTypeOK
  <2>2. CASE \E a \in App : AddClient(a) \/ RemoveClient(a) \/ Launch(a) \/ Quit(a)
    BY <2>2, AddClientKeeps, RemoveClientKeeps, AppsChange
  <2>3. CASE \E a \in App, v \in Volume \ {Min} : UserSlides(a, v)
    BY <2>3, UserSlidesKeeps
  <2>4. CASE \E a \in App : ApplyTo(a) \/ RestoreOne(a) \/ RunningApplicationsChanged(a)
    BY <2>4, ApplyToKeeps, RestoreOneKeeps, RunningApplicationsChangedKeeps
  <2>5. CASE CoreaudiodRestarts \/ PersistMutedApps \/ BGMAppGoes \/ BGMAppStarts
    BY <2>5, CoreaudiodRestartsKeeps, PersistMutedAppsKeeps, BGMAppGoesKeeps,
       BGMAppStartsKeeps
  <2>6. CASE \E e \in BOOLEAN : SetEnabled(e)
    BY <2>6, SetEnabledKeeps
  <2>7. CASE \E a \in App \cup {None} : SetPriorityApp(a)
    BY <2>7, SetPriorityAppKeeps
  <2> QED
    BY <2>1, <2>2, <2>3, <2>4, <2>5, <2>6, <2>7 DEF DNDNext
<1> QED
  BY <1>1, DNDStarts, PTL DEF DNDSpec

\* Every variable keeps its type; in particular a pass has no more apps to
\* come to once it has ended.
THEOREM DNDTypeCorrect == DNDSpec => []DNDTypeOK
<1>1. DNDInv => DNDTypeOK
  BY DEF DNDInv
<1> QED
  BY <1>1, DNDInvariance, PTL

\* Between two passes whoever is to be silent is, but for the apps that a call
\* failed for, that came late or were slid, or that a crashed pass had changed.
THEOREM MutesWhileOn == DNDSpec => []MutedWhileOn
<1>1. DNDInv => MutedWhileOn
  <2> SUFFICES ASSUME DNDInv, Settled, enabled, NEW a \in listed, ~Spared(a), client[a] # None
               PROVE  client[a] = Min \/ strange[a] # "no"
    BY DEF MutedWhileOn
  <2>1. a \in App /\ alive /\ todo = {} /\ a # defaults.priority /\ Saved = mutedApps
    BY DEF DNDInv, DNDTypeOK, Settled, Spared, Saved
  <2> QED
    BY <2>1 DEF DNDInv, Came, Kept
<1> QED
  BY <1>1, DNDInvariance, PTL

\* And nobody else stays so: an app that is not to be muted has the volume it
\* had, wherever BGMApp has crashed and whatever the driver refused, unless it
\* is among those whose volume the crash or the refusal lost.
THEOREM VolumesComeBack == DNDSpec => []VolumesAsSwitched
<1>1. DNDInv => VolumesBack
  <2> SUFFICES ASSUME DNDInv, Settled, NEW a \in (running \cap listed) \ lost,
                      Spared(a), client[a] # None
               PROVE  client[a] = own[a]
    BY DEF VolumesBack
  <2>1. a \in App /\ alive /\ pc = "idle" /\ todo = {} /\ Saved = mutedApps
    BY DEF DNDInv, DNDTypeOK, Settled, Saved
  <2>2. CASE enabled
    BY <2>1, <2>2 DEF DNDInv, Came, Kept, Spared
  <2>3. CASE ~enabled
    BY <2>1, <2>3, OffIsEmpty DEF DNDInv, Persisted, Kept
  <2> QED
    BY <2>2, <2>3
<1> QED
  BY <1>1, DNDInvariance, MutesWhileOn, PTL DEF VolumesAsSwitched
=============================================================================
