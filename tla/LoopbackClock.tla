---------------------------- MODULE LoopbackClock ----------------------------
(***************************************************************************)
(* The clock that WC_Device and WC_NullDevice give the host: they have no  *)
(* hardware, so they count periods of the host's time since IO started.    *)
(* A period is a number of frames, and frames do not take a whole number   *)
(* of host ticks: PeriodTicks / Parts of the sample rate, cut off to whole *)
(* ticks each time it is used.                                             *)
(*                                                                         *)
(* The plug-in's interface passes each of the host's calls on to the device *)
(* it is about, and answers with an error code what the device throws.     *)
(*                                                                         *)
(* The host asks for the latest period's start.  An answer is one step, as *)
(* is starting IO: the two hold different mutexes, but the host asks only  *)
(* between the two calls.                                                  *)
(***************************************************************************)
EXTENDS Naturals

CONSTANTS
  Rate,          \* sample rates
  PeriodTicks,   \* for each, the ticks of Parts periods
  Parts,
  PeriodFrames,  \* kLoopbackRingBufferFrameSize, kZeroTimeStampPeriod
  MaxNow,        \* bound on the host's time
  MaxClients     \* bound on the clients doing IO

\* A period takes a tick or more: one of WC_Device's takes 0.37 s.
ASSUME LoopbackClockAssumption ==
  /\ PeriodTicks \in [Rate -> Nat] /\ Parts \in Nat \ {0}
  /\ \A r \in Rate : PeriodTicks[r] >= Parts
  /\ PeriodFrames \in Nat \ {0} /\ MaxNow \in Nat /\ MaxClients \in Nat

VARIABLES
  device,            \* "WC_Device" or "WC_NullDevice"
  now,               \* CAHostTimeBase::GetTheCurrentTime
  rate,              \* what hostTicksPerFrame was computed from
  doingIO,           \* the clients doing IO
  anchorHostTime,
  numberTimeStamps,
  answer,            \* the last answer: sample time and host time
  asked,             \* ghost: when IO started or the host last asked
  prompt             \* ghost: no gap since IO started was over a period

clock == <<rate, doingIO, anchorHostTime, numberTimeStamps>>
clockVars == <<device, now, clock, answer, asked, prompt>>

\* A period's length for anything that is n periods long.
Ticks(n) == (n * PeriodTicks[rate]) \div Parts
Running == doingIO > 0

ClockInit ==
  /\ device \in {"WC_Device", "WC_NullDevice"} /\ rate \in Rate
  /\ now = 0 /\ doingIO = 0 /\ anchorHostTime = 0 /\ numberTimeStamps = 0
  /\ answer = [sample |-> 0, host |-> 0] /\ asked = 0 /\ prompt = TRUE

\* InitLoopback, when the sample rate changes, which the host stops IO for.
InitLoopback ==
  /\ device = "WC_Device" /\ ~Running /\ rate' \in Rate \ {rate}
  /\ UNCHANGED <<device, now, doingIO, anchorHostTime, numberTimeStamps, answer,
                 asked, prompt>>

\* Only the first client's resets the clock.
ClockGoesOn == UNCHANGED <<anchorHostTime, numberTimeStamps, answer, asked, prompt>>
StartIO ==
  /\ doingIO < MaxClients /\ doingIO' = doingIO + 1
  /\ IF Running THEN ClockGoesOn
     ELSE /\ anchorHostTime' = now /\ numberTimeStamps' = 0
          /\ answer' = [sample |-> 0, host |-> now] /\ asked' = now /\ prompt' = TRUE
  /\ UNCHANGED <<device, now, rate>>
StopIO ==
  /\ Running /\ doingIO' = doingIO - 1 /\ ClockGoesOn
  /\ UNCHANGED <<device, now, rate>>
BGM_StartIO == StartIO
BGM_StopIO == StopIO

\* A mutant: the next period is a whole number of ticks after this one.
NextFromLastHostTime == answer.host + Ticks(1)
NextHostTime == anchorHostTime + Ticks(numberTimeStamps + 1)
\* One period further at most, however long ago the host asked.
GetZeroTimeStamp ==
  /\ Running
  /\ numberTimeStamps' =
       IF NextHostTime <= now THEN numberTimeStamps + 1 ELSE numberTimeStamps
  /\ answer' = [sample |-> numberTimeStamps' * PeriodFrames,
                host |-> anchorHostTime + Ticks(numberTimeStamps')]
  /\ asked' = now /\ prompt' = (prompt /\ now - asked <= Ticks(1))
  /\ UNCHANGED <<device, now, rate, doingIO, anchorHostTime>>
Null_GetZeroTimeStamp == device = "WC_NullDevice" /\ GetZeroTimeStamp
BGM_GetZeroTimeStamp ==
  Null_GetZeroTimeStamp \/ (device = "WC_Device" /\ GetZeroTimeStamp)

TimePasses ==
  now < MaxNow /\ now' = now + 1
  /\ UNCHANGED <<device, clock, answer, asked, prompt>>

ClockNext ==
  \/ InitLoopback \/ BGM_StartIO \/ BGM_StopIO \/ TimePasses \/ BGM_GetZeroTimeStamp
ClockSpec == ClockInit /\ [][ClockNext]_clockVars

-----------------------------------------------------------------------------
(* The clock never tells the host of a period that has not begun, does not *)
(* drift from the rate by as much as a tick although periods are cut to    *)
(* whole ticks, and, of a host that asks once a period, is at the current  *)
(* period whenever it has been asked (GetZeroTimeStamp of both devices).   *)
ClockKeepsTime ==
  Running =>
    LET periods == answer.sample \div PeriodFrames
        exact == (answer.host - anchorHostTime) * Parts
    IN  /\ answer.host <= now
        /\ exact <= periods * PeriodTicks[rate]
        /\ periods * PeriodTicks[rate] < exact + Parts
        /\ prompt /\ asked = now => now < NextHostTime
=============================================================================
