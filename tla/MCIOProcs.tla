------------------------------ MODULE MCIOProcs ------------------------------
(* What real-time threads share with others: what WCPlayThrough's IOProcs log *)
(* (RTLogger), the audio they and WC_Device copy (AudioCopy, on RingBuffer)   *)
(* and the clock WC_Device and WC_NullDevice give the host (LoopbackClock).   *)
(* An execution is one of the logger, of a buffer or of a clock.              *)
(*                                                                            *)
(* Both IOProcs log, and there are three messages: dropped frames, which the  *)
(* output's logs, the ring buffer being unavailable, which both log, and the  *)
(* error storing to it, which the input's logs.                               *)
EXTENDS RTLogger, AudioCopy, LoopbackClock

CONSTANTS inputIOProc, outputIOProc

Threads == [m \in Message |-> IF m = 1 THEN {outputIOProc}
                              ELSE IF m = 2 THEN {inputIOProc, outputIOProc}
                              ELSE {inputIOProc}]
\* The rates' names are the ticks three periods take.
RateTicks == [r \in Rate |-> r]

VARIABLE part

MCInit ==
  /\ Init /\ CopyInit /\ ClockInit /\ part \in {"logger", "buffer", "clock"}
  /\ part # "buffer" => user = "WC_Device"
  /\ part # "clock" => device = "WC_Device" /\ \A r \in Rate : rate >= r
Of(p) == part = p /\ UNCHANGED part
LoggerSteps == Of("logger") /\ Next /\ UNCHANGED <<copyVars, clockVars>>
BufferSteps == Of("buffer") /\ CopyNext /\ UNCHANGED <<vars, clockVars>>
ClockSteps == Of("clock") /\ ClockNext /\ UNCHANGED <<vars, copyVars>>
MCSpec ==
  /\ MCInit
  /\ [][LoggerSteps \/ BufferSteps \/ ClockSteps]_<<part, vars, copyVars, clockVars>>
  /\ WF_vars(Of("logger") /\ LoggingThread) /\ WF_vars(Of("logger") /\ Destructor)
  /\ \A c \in Caller : WF_vars(Of("logger") /\ CallerGoesOn(c))
=============================================================================
