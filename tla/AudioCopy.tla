------------------------------ MODULE AudioCopy ------------------------------
(***************************************************************************)
(* The two users of the ring buffer.  WCPlayThrough's input IOProc stores  *)
(* what the input device hands it and its output IOProc fetches it, on two *)
(* threads: the devices' clocks differ, so it keeps the distance between   *)
(* their sample times, and sets it anew when it finds the read head ahead  *)
(* of the input or outside the buffer.  WC_Device writes the mix that      *)
(* clients play to its buffer and hands it to clients that record, and     *)
(* holds its IO mutex meanwhile.                                           *)
(*                                                                         *)
(* Sample times are whole frames.  They go on from call to call; a device  *)
(* may skip some (a dropped cycle) or start again from 0.                  *)
(***************************************************************************)
EXTENDS RingBuffer, Integers

CONSTANTS
  InFrames, OutFrames,   \* frames of a call of either IOProc
  MaxJumps               \* bound on the times skipped or started again

ASSUME AudioCopyAssumption ==
  /\ InFrames \in 1 .. Capacity /\ OutFrames \in 1 .. Capacity
  /\ MaxJumps \in Nat

VARIABLES
  user,       \* whose ring buffer it is
  inTime,     \* the next input sample time
  outTime,    \* the next output sample time
  jumps,      \* how often one of them was not the next
  firstIn,    \* mFirstInputSampleTime, of WCPlayThrough as the next four
  lastIn,     \* mLastInputSampleTime
  lastOut,    \* mLastOutputSampleTime
  offset,     \* mInToOutSampleOffset
  input,      \* the input IOProc: idle or storing
  output,     \* the output IOProc: where it is, its read head
  torn        \* ghost: a frame was read that was not the latest of its time

times == <<inTime, outTime, jumps>>
heads == <<firstIn, lastIn, lastOut, offset>>
copyVars == <<ring, user, times, heads, input, output, torn>>

NotSet == -1
Idle == [at |-> "idle", head |-> 0, last |-> 0, seen |-> 0, new |-> FALSE]

CopyInit ==
  /\ RingInit /\ user \in {"WCPlayThrough", "WC_Device"}
  /\ inTime = 0 /\ outTime = 0 /\ jumps = 0
  /\ firstIn = NotSet /\ lastIn = NotSet /\ lastOut = NotSet /\ offset = 0
  /\ input = "idle" /\ output = Idle /\ torn = FALSE

\* The devices' clocks.
Jumped(t) == {0} \cup ({t + InFrames} \cap Time)
InputTimeJumps ==
  /\ input = "idle" /\ jumps < MaxJumps /\ jumps' = jumps + 1
  /\ inTime' \in Jumped(inTime) \ {inTime}
  /\ UNCHANGED <<ring, user, outTime, heads, input, output, torn>>
OutputTimeJumps ==
  /\ output.at = "idle" /\ jumps < MaxJumps /\ jumps' = jumps + 1
  /\ outTime' \in Jumped(outTime) \ {outTime}
  /\ UNCHANGED <<ring, user, inTime, heads, input, output, torn>>

-----------------------------------------------------------------------------
(* WCPlayThrough                                                           *)

InputDeviceIOProc ==
  /\ user = "WCPlayThrough" /\ input = "idle" /\ input' = "storing"
  /\ Store(inTime, InFrames)
  /\ firstIn' = IF firstIn = NotSet THEN inTime ELSE firstIn
  /\ UNCHANGED <<user, times, lastIn, lastOut, offset, output, torn>>
InputReturns ==
  /\ input = "storing" /\ writer.at = "idle" /\ input' = "idle"
  /\ lastIn' = inTime /\ inTime' = inTime + InFrames
  /\ UNCHANGED <<ring, user, outTime, jumps, firstIn, lastOut, offset, output,
                 torn>>

\* Nothing to play before the input has started.
OutputDeviceIOProc ==
  /\ user = "WCPlayThrough" /\ output.at = "idle" /\ reader.at = "idle"
  /\ outTime + OutFrames <= MaxTime
  /\ IF lastIn = NotSet
     THEN /\ outTime' = outTime + OutFrames
          /\ UNCHANGED <<offset, output>>
     ELSE /\ offset' = IF lastOut = NotSet THEN outTime - lastIn ELSE offset
          /\ output' = [Idle EXCEPT !.at = "head", !.seen = ptr]
          /\ UNCHANGED outTime
  /\ UNCHANGED <<ring, user, inTime, jumps, firstIn, lastIn, lastOut, input, torn>>
FindReadHead ==
  /\ output.at = "head"
  /\ output' = [output EXCEPT !.at = "check", !.head = outTime - offset,
                  !.last = lastIn]
  /\ GetTimeBounds(0, 0)
  /\ UNCHANGED <<frames, bounds, ptr, writer, stores, latest, user, times, heads,
                 input, torn>>

\* A mutant: the read head is compared with the input only.
NeverOutOfBounds(b) == FALSE
OutOfBounds(b) == output.head < b.start \/ output.head - OutFrames > b.end
Fetch(from, n) ==
  LET start == Larger(0, from) IN GetTimeBounds(start, start + n)
CheckReadHead ==
  LET lost == \/ output.last < output.head
              \/ reader.at = "bounds" /\ OutOfBounds(reader.got)
      head == IF lost THEN output.last ELSE output.head
  IN  /\ output.at = "check" /\ reader.at \in {"bounds", "overload"}
      /\ offset' = IF lost THEN outTime - output.last ELSE offset
      /\ output' = [output EXCEPT !.at = "fetch", !.head = head,
                      !.new = reader.at = "bounds"]
      /\ Fetch(head, OutFrames)
      /\ UNCHANGED <<frames, bounds, ptr, writer, stores, latest, user, times,
                     firstIn, lastIn, lastOut, input, torn>>
OutputReturns ==
  /\ output.at = "fetch" /\ reader.at \in {"done", "overload"}
  /\ reader' = [reader EXCEPT !.at = "idle"] /\ output' = Idle
  /\ lastOut' = outTime /\ outTime' = outTime + OutFrames
  /\ UNCHANGED <<frames, bounds, ptr, writer, stores, latest, user, inTime, jumps,
                 firstIn, lastIn, offset, input, torn>>

\* Stop, when both IOProcs have stopped.
Stop ==
  /\ user = "WCPlayThrough" /\ input = "idle" /\ output.at = "idle"
  /\ lastIn # NotSet
  /\ firstIn' = NotSet /\ lastIn' = NotSet /\ lastOut' = NotSet
  /\ UNCHANGED <<ring, user, times, offset, input, output, torn>>

-----------------------------------------------------------------------------
(* WC_Device, with mIOMutex held                                           *)

IOMutexFree == writer.at = "idle" /\ reader.at = "idle"
WriteOutputData ==
  /\ user = "WC_Device" /\ IOMutexFree
  /\ Store(outTime, OutFrames) /\ outTime' = outTime + OutFrames
  /\ UNCHANGED <<user, inTime, jumps, heads, input, output, torn>>
ReadInputData ==
  /\ user = "WC_Device" /\ IOMutexFree
  /\ \E t \in Time : t + InFrames <= MaxTime /\ Fetch(t, InFrames)
  /\ output' = [Idle EXCEPT !.at = "fetch"]
  /\ UNCHANGED <<frames, bounds, ptr, writer, stores, latest, user, times, heads,
                 input, torn>>
InputRead ==
  /\ user = "WC_Device" /\ reader.at \in {"done", "overload"}
  /\ reader' = [reader EXCEPT !.at = "idle"] /\ output' = Idle
  /\ UNCHANGED <<frames, bounds, ptr, writer, stores, latest, user, times, heads,
                 input, torn>>

-----------------------------------------------------------------------------
RingSteps ==
  /\ Stores \/ GetsBounds \/ (output.at = "fetch" /\ Clip)
  /\ UNCHANGED <<user, times, heads, input, output, torn>>
FetchedFrame(t) == frames[FrameOffset(t)]
CopyFrame ==
  LET t == reader.from
  IN  /\ reader.at = "copy"
      /\ torn' = (torn \/ FetchedFrame(t) # latest[t])
      /\ reader' = [reader EXCEPT !.from = t + 1,
                      !.at = IF t + 1 = reader.to THEN "done" ELSE "copy"]
      /\ UNCHANGED <<frames, bounds, ptr, writer, stores, latest, user, times,
                     heads, input, output>>

CopyNext ==
  \/ InputDeviceIOProc \/ InputReturns
  \/ OutputDeviceIOProc \/ FindReadHead \/ CheckReadHead
  \/ OutputReturns /\ user = "WCPlayThrough"
  \/ Stop \/ WriteOutputData \/ ReadInputData \/ InputRead
  \/ InputTimeJumps \/ OutputTimeJumps \/ RingSteps \/ CopyFrame
CopySpec == CopyInit /\ [][CopyNext]_copyVars

-----------------------------------------------------------------------------
Held == {t \in Time : StartTime <= t /\ t < EndTime}

(* What the buffer is said to hold is what was last stored for its times:  *)
(* frames being overwritten have been taken out of the bounds before.  The *)
(* reader gets a start and an end that were published together, although   *)
(* it may be reading them while they change, unless the writer comes round *)
(* the whole queue meanwhile (SetTimeBounds, GetTimeBounds).  Under the IO *)
(* mutex it copies what was last written for each time.                    *)
Preparing == writer.at \in {"end", "counter", "publish"}
Lapped == ptr + (IF Preparing THEN 1 ELSE 0) >= reader.ptr + Slots
FramesHeld ==
  /\ \A t \in Held : frames[FrameOffset(t)] = latest[t]
  /\ reader.at = "bounds" /\ ~Lapped
       => LET pair == bounds[reader.ptr % Slots]
          IN  reader.got = Pair(pair.start, pair.end)
  /\ user = "WC_Device" => ~torn

(* However the two clocks have drifted or jumped, playthrough fetches from *)
(* a time that the buffer holds if nothing has been stored since the call  *)
(* began and the input's last call was the buffer's: OutputDeviceIOProc    *)
(* has brought a read head that had left the buffer back.                  *)
Undisturbed ==
  /\ output.new /\ ptr = output.seen /\ writer.at = "idle"
  /\ output.last = writer.from
HeadInBuffer ==
  user = "WCPlayThrough" /\ output.at = "fetch" /\ reader.at = "ptr" /\ Undisturbed
    => Larger(0, output.head) \in Held
=============================================================================
