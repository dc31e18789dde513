------------------------------ MODULE RingBuffer ------------------------------
(***************************************************************************)
(* CARingBuffer: one thread stores frames of audio, each with its sample   *)
(* time, while another fetches them, without a lock.  The writer publishes *)
(* which times the buffer holds in a queue of pairs, of which a counter    *)
(* says which is the current one; before it overwrites frames it publishes *)
(* bounds without them.  The reader copies a pair, and takes it if the     *)
(* pair's own counter is still the one it started from.                    *)
(*                                                                         *)
(* The memory accesses of the bounds and the frames are steps of their     *)
(* own.  A frame is named after the call that stored it, 0 for silence.    *)
(***************************************************************************)
EXTENDS Naturals, FiniteSets

CONSTANTS
  Capacity,   \* mCapacityFrames
  Slots,      \* kGeneralRingTimeBoundsQueueSize
  Tries,      \* how often GetTimeBounds looks
  MaxTime,    \* bound on sample times
  MaxStores   \* bound on the calls of Store

ASSUME RingBufferAssumption ==
  /\ Capacity \in Nat \ {0} /\ Slots \in Nat \ {0, 1} /\ Tries \in Nat \ {0}
  /\ MaxTime \in Nat /\ MaxStores \in Nat

VARIABLES
  frames,   \* the memory of one channel
  bounds,   \* mTimeBoundsQueue
  ptr,      \* mTimeBoundsQueuePtr
  writer,   \* what the storing thread is doing
  reader,   \* what the fetching thread is doing
  stores,   \* the number of calls of Store
  latest    \* ghost: what was last stored, or skipped, for each time

ring == <<frames, bounds, ptr, writer, reader, stores, latest>>

Time == 0 .. MaxTime
Larger(a, b) == IF a < b THEN b ELSE a
Smaller(a, b) == IF a < b THEN a ELSE b

FrameOffset(t) == t % Capacity
Current == bounds[ptr % Slots]
StartTime == Current.start
EndTime == Current.end
Pair(s, e) == [start |-> s, end |-> e]

\* Allocate.
RingInit ==
  /\ frames = [i \in 0 .. Capacity - 1 |-> 0]
  /\ bounds = [i \in 0 .. Slots - 1 |-> [start |-> 0, end |-> 0, counter |-> 0]]
  /\ ptr = 0 /\ stores = 0
  /\ writer = [at |-> "idle", from |-> 0, to |-> 0, next |-> 0, set |-> Pair(0, 0)]
  /\ reader = [at |-> "idle", from |-> 0, to |-> 0, ptr |-> 0, tries |-> 0,
               got |-> Pair(0, 0)]
  /\ latest = [t \in Time |-> 0]

-----------------------------------------------------------------------------
(* Storing                                                                 *)

\* A mutant: the old frames stay in the bounds while they are overwritten.
FirstBoundsKept(from, to) ==
  IF from < EndTime THEN Pair(from, from) ELSE Pair(StartTime, EndTime)
\* The bounds to publish first.  Going backwards throws everything out;
\* frames that the new ones will overwrite are no longer held.
FirstBounds(from, to) ==
  IF from < EndTime THEN Pair(from, from)
  ELSE Pair(to - Capacity, Larger(to - Capacity, EndTime))
Fits(from, to) == from >= EndTime /\ to <= StartTime + Capacity
BeginWriting(from, to, end) ==
  [at |-> "frames", from |-> from, to |-> to, next |-> Smaller(end, from),
   set |-> Pair(0, 0)]
Store(from, n) ==
  LET to == from + n
  IN  /\ writer.at = "idle" /\ n \in 1 .. Capacity /\ to <= MaxTime
      /\ stores < MaxStores /\ stores' = stores + 1
      /\ writer' = IF Fits(from, to) THEN BeginWriting(from, to, EndTime)
                   ELSE [at |-> "start", from |-> from, to |-> to, next |-> 0,
                         set |-> FirstBounds(from, to)]
      /\ UNCHANGED <<frames, bounds, ptr, reader, latest>>

Next1 == (ptr + 1) % Slots
SetStartTime ==
  /\ writer.at = "start" /\ writer' = [writer EXCEPT !.at = "end"]
  /\ bounds' = [bounds EXCEPT ![Next1].start = writer.set.start]
  /\ UNCHANGED <<frames, ptr, reader, stores, latest>>
SetEndTime ==
  /\ writer.at = "end" /\ writer' = [writer EXCEPT !.at = "counter"]
  /\ bounds' = [bounds EXCEPT ![Next1].end = writer.set.end]
  /\ UNCHANGED <<frames, ptr, reader, stores, latest>>
SetUpdateCounter ==
  /\ writer.at = "counter" /\ writer' = [writer EXCEPT !.at = "publish"]
  /\ bounds' = [bounds EXCEPT ![Next1].counter = ptr + 1]
  /\ UNCHANGED <<frames, ptr, reader, stores, latest>>
\* The second time, when the frames are written, ends the call.
Publish ==
  /\ writer.at = "publish" /\ ptr' = ptr + 1
  /\ writer' = IF writer.next = writer.to THEN [writer EXCEPT !.at = "idle"]
               ELSE BeginWriting(writer.from, writer.to, writer.set.end)
  /\ UNCHANGED <<frames, bounds, reader, stores, latest>>

\* The times skipped since the last call are silent.
ZeroOrStore(t) == IF t < writer.from THEN 0 ELSE stores
WriteFrame ==
  LET t == writer.next
      value == ZeroOrStore(t)
      after == [writer EXCEPT !.next = t + 1]
  IN  /\ writer.at = "frames"
      /\ frames' = [frames EXCEPT ![FrameOffset(t)] = value]
      /\ latest' = [latest EXCEPT ![t] = value]
      /\ writer' = IF t + 1 < writer.to THEN after
                   ELSE [after EXCEPT !.at = "start",
                           !.set = Pair(StartTime, writer.to)]
      /\ UNCHANGED <<bounds, ptr, reader, stores>>
Stores ==
  SetStartTime \/ SetEndTime \/ SetUpdateCounter \/ Publish \/ WriteFrame

-----------------------------------------------------------------------------
(* Fetching.  GetTimeBounds is called for its own sake and by Fetch: where *)
(* it goes when it has a pair, or none, is up to its caller.               *)

GetTimeBounds(from, to) ==
  reader' = [at |-> "ptr", from |-> from, to |-> to, ptr |-> 0, tries |-> 0,
             got |-> Pair(0, 0)]
ReadPtr ==
  /\ reader.at = "ptr" /\ reader' = [reader EXCEPT !.at = "start", !.ptr = ptr]
ReadStartTime ==
  /\ reader.at = "start"
  /\ reader' = [reader EXCEPT !.at = "end",
                  !.got.start = bounds[reader.ptr % Slots].start]
ReadEndTime ==
  /\ reader.at = "end"
  /\ reader' = [reader EXCEPT !.at = "counter",
                  !.got.end = bounds[reader.ptr % Slots].end]
CompareCounter ==
  /\ reader.at = "counter"
  /\ reader' =
       IF bounds[reader.ptr % Slots].counter = reader.ptr
       THEN [reader EXCEPT !.at = "bounds"]
       ELSE [reader EXCEPT !.tries = @ + 1,
               !.at = IF reader.tries + 1 = Tries THEN "overload" ELSE "ptr"]
GetsBounds ==
  /\ ReadPtr \/ ReadStartTime \/ ReadEndTime \/ CompareCounter
  /\ UNCHANGED <<frames, bounds, ptr, writer, stores, latest>>

\* What is fetched outside the bounds is silent.
ClipTimeBounds(from, to, b) ==
  IF from > b.end \/ to < b.start THEN Pair(from, from)
  ELSE LET first == Larger(from, b.start)
       IN  Pair(first, Larger(first, Smaller(to, b.end)))
Clip ==
  LET clipped == ClipTimeBounds(reader.from, reader.to, reader.got)
  IN  /\ reader.at = "bounds"
      /\ reader' = [reader EXCEPT !.from = clipped.start, !.to = clipped.end,
                      !.at = IF clipped.start = clipped.end THEN "done" ELSE "copy"]
      /\ UNCHANGED <<frames, bounds, ptr, writer, stores, latest>>
=============================================================================
