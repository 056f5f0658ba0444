---------------------------- MODULE BridgePower ----------------------------
(***************************************************************************)
(* The power of the bus at the bridge: the controller's schedule           *)
(* (src/src/apps/bridge/bridgePowerController.cpp) and the two tasks that  *)
(* depend on it, the one that updates a node for the host of the bridge    *)
(* and holds the power on meanwhile (src/src/lib/bm_ncp/ncp_dfu.cpp), and  *)
(* the one that samples the topology while the bus is on                   *)
(* (src/src/lib/common/topology_sampler.cpp).                              *)
(*                                                                         *)
(* Time is in whole seconds.  It passes while the controller sleeps; the   *)
(* other tasks may take any time over their steps.  A round of the         *)
(* controller is two steps, because it logs between the decision and the   *)
(* switch and the tasks of the serial link have a higher priority.         *)
(***************************************************************************)
EXTENDS Integers, FiniteSets

CONSTANTS
  Settings,  \* configurations as they are stored
  Limits,    \* the values the constructor accepts, for each field
  Defaults,  \* those it takes instead
  InitDelay, \* INIT_POWER_ON_TIMEOUT_MS
  WaitLimit, \* POWER_CONTROLLER_TIMEOUT_MS of ncp_dfu.cpp
  ClockTimes, \* the times to which the clock is set
  MaxTime,   \* bound on the time
  MaxStarts, \* bound on the updates the host starts
  MaxMoves   \* bound on the operator's commands and the clock's corrections

Field == {"interval", "duration", "subInterval", "subDuration", "alignment"}

ASSUME LimitsAssumption ==
  \A f \in Field :
    /\ Limits[f] \subseteq (IF f = "alignment" THEN Nat ELSE Nat \ {0})
    /\ Defaults[f] \in Limits[f]

ASSUME SettingsAssumption ==
  \A raw \in Settings : {raw.ticks, raw.enabled, raw.subsampling} \subseteq BOOLEAN

ASSUME TimesAssumption ==
  /\ {InitDelay, WaitLimit, MaxTime, MaxStarts, MaxMoves} \subseteq Nat
  /\ ClockTimes \subseteq 0..MaxTime

VARIABLES
  config,      \* _sampleIntervalS, _sampleDurationS ... after the constructor
  ticks,       \* _ticksSamplingEnabled
  clockSet,    \* isRTCSet() or ticks
  now,         \* the time of that clock
  enabled,     \* _powerControlEnabled
  subsampling, \* _subsamplingEnabled
  schedule,    \* _timebaseSet and the starts of sample and subsample
  initDone,    \* _initDone
  bus,         \* the power pin, and the event group that follows it
  pc, plan,    \* the controller: where it is, what it has decided
  sleep,       \* seconds until its sleep ends
  notified,    \* a notification that cuts the sleep short is pending
  ncp, wait,   \* the task of the serial link, and its patience
  wasEnabled,  \* power_controller_was_enabled
  updating,    \* a node is being updated for the host
  sampler,     \* the topology sampler: where it is
  sampling,    \* _sampling_enabled
  timer,       \* topology_timer is running
  starts, moves, \* bound what the environment does
  chosen,      \* history: power control as configured or last commanded
  disturbed    \* history: what has interfered with the schedule

clock == <<ticks, clockSet, now>>
settings == <<config, subsampling>>
controller == <<schedule, initDone, bus, pc, plan, sleep>>
link == <<ncp, wait, wasEnabled, updating, starts>>
topology == <<sampler, sampling, timer>>
env == <<moves, chosen, disturbed>>
vars == <<clock, settings, enabled, notified, controller, link, topology, env>>

(***************************************************************************)
(* The schedule                                                            *)
(***************************************************************************)
\* getCurrentTimeS: an RTC that is not set reads as zero
CurrentTime == IF clockSet THEN now ELSE 0

Larger(a, b) == IF a > b THEN a ELSE b
Smaller(a, b) == IF a < b THEN a ELSE b
RoundUp(t, step) == ((t + step - 1) \div step) * step

\* _alignNextInterval, with the time as an argument
AlignNextInterval(t, last) ==
  LET base == IF last = 0 THEN t - (t % config.interval) ELSE last
      next == base + Larger(config.interval, RoundUp(t - base, config.interval))
  IN  IF config.alignment = 0 THEN next ELSE RoundUp(next, config.alignment)

StartingAt(t) == [schedule EXCEPT !.start = t, !.substart = t]

\* timeRemainingGeneric at the current time
Remaining(start, length) == Larger(0, start + length - CurrentTime)

\* checkAndUpdateTimebase
Timebased ==
  IF clockSet /\ ~schedule.set
  THEN [StartingAt(AlignNextInterval(CurrentTime, schedule.start))
          EXCEPT !.set = TRUE]
  ELSE schedule

\* Mutant: any value is accepted.
ConfiguredUnchecked(raw) == [f \in Field |-> raw[f]]

\* The constructor replaces a value out of range by its default
Configured(raw) ==
  [f \in Field |-> IF raw[f] \in Limits[f] THEN raw[f] ELSE Defaults[f]]

Init ==
  /\ \E raw \in Settings :
       /\ config = Configured(raw)
       /\ ticks = raw.ticks
       /\ enabled = (raw.enabled /\ config.duration # config.interval)
       /\ subsampling = (raw.subsampling /\ config.subDuration # config.subInterval)
  /\ clockSet = ticks
  /\ now = 0
  /\ schedule = [set |-> FALSE, start |-> 0, substart |-> 0]
  /\ initDone = FALSE /\ bus = FALSE
  /\ pc = "start" /\ plan = [bus |-> FALSE, sleep |-> 1] /\ sleep = 0
  /\ notified = FALSE
  /\ ncp = "idle" /\ wait = 0 /\ wasEnabled = FALSE /\ updating = FALSE
  /\ sampler = "boot" /\ sampling = FALSE /\ timer = FALSE
  /\ starts = 0 /\ moves = 0
  /\ chosen = enabled /\ disturbed = {}

(***************************************************************************)
(* The controller's task                                                   *)
(***************************************************************************)
\* powerBusAndSetSignal: a task that waits for this signal has it, even if
\* the bus is switched back before the task runs.
SwitchBus(on) ==
  /\ bus' = on
  /\ ncp' = IF ncp = "waiting" /\ on THEN "powered" ELSE ncp
  /\ sampler' = CASE sampler = "waitOn" /\ on -> "settle"
                  [] sampler = "waitHeld" /\ on -> "settleHeld"
                  [] sampler = "waitOff" /\ ~on -> "stop"
                  [] OTHER -> sampler

PowerUp ==
  /\ pc = "start"
  /\ SwitchBus(TRUE)
  /\ pc' = "warming"
  /\ sleep' = InitDelay
  /\ UNCHANGED <<clock, settings, enabled, notified, schedule, initDone, plan, wait,
                 wasEnabled, updating, starts, sampling, timer, env>>

Decide(power, seconds) ==
  /\ plan' = [bus |-> power, sleep |-> Larger(seconds, 1)]
  /\ pc' = "switching"
  /\ UNCHANGED <<clock, settings, enabled, initDone, bus, sleep, link, topology, env>>

\* The end of the two minutes with the bus on
Warmed ==
  /\ pc = "warming" /\ sleep = 0
  /\ schedule' = Timebased
  /\ IF Timebased.set /\ Timebased.start > CurrentTime
     THEN Decide(~enabled, Timebased.start - CurrentTime)
     ELSE Decide(bus, 1)
  /\ UNCHANGED notified

Awake == pc = "asleep" /\ (sleep = 0 \/ notified)

\* A round with power control and a timebase
Round ==
  /\ Awake /\ enabled /\ schedule.set
  /\ notified' = FALSE

WokenEarly ==
  /\ Round
  /\ CurrentTime < schedule.start
  /\ Decide(bus, schedule.start - CurrentTime)
  /\ UNCHANGED schedule

SampleLeft == Remaining(schedule.start, config.duration)

InSample ==
  /\ Round
  /\ CurrentTime >= schedule.start
  /\ SampleLeft > 0

Sample ==
  /\ InSample
  /\ ~subsampling
  /\ Decide(TRUE, SampleLeft)
  /\ UNCHANGED schedule

SubsampleWokenEarly ==
  /\ InSample
  /\ subsampling /\ CurrentTime < schedule.substart
  /\ Decide(bus, Smaller(SampleLeft, schedule.substart - CurrentTime))
  /\ UNCHANGED schedule

SubsampleLeft == Remaining(schedule.substart, config.subDuration)

Subsample ==
  /\ InSample
  /\ subsampling /\ CurrentTime >= schedule.substart
  /\ SubsampleLeft > 0
  /\ Decide(TRUE, SubsampleLeft)
  /\ UNCHANGED schedule

\* Mutant: the bus is switched off although the next subsample is due.
SubsampleOffAlways ==
  /\ InSample
  /\ subsampling /\ CurrentTime >= schedule.substart
  /\ SubsampleLeft = 0
  /\ LET next == schedule.substart + config.subInterval
     IN  /\ schedule' = [schedule EXCEPT !.substart = next]
         /\ Decide(FALSE, Smaller(SampleLeft, Larger(0, next - CurrentTime)))

\* "Prevent bus thrash": not switched off for less than a second
SubsampleOff ==
  /\ InSample
  /\ subsampling /\ CurrentTime >= schedule.substart
  /\ SubsampleLeft = 0
  /\ LET next == schedule.substart + config.subInterval
     IN  /\ schedule' = [schedule EXCEPT !.substart = next]
         /\ Decide(bus /\ next <= CurrentTime,
                   Smaller(SampleLeft, Larger(0, next - CurrentTime)))

SampleOff ==
  /\ Round
  /\ CurrentTime >= schedule.start
  /\ SampleLeft = 0
  /\ LET next == AlignNextInterval(CurrentTime, schedule.start)
     IN  /\ schedule' = StartingAt(next)
         /\ Decide(bus /\ next <= CurrentTime, next - CurrentTime)

\* xTaskNotifyWait comes next; a notification is remembered until then
Switch ==
  /\ pc = "switching"
  /\ SwitchBus(plan.bus)
  /\ sleep' = plan.sleep
  /\ pc' = "asleep"
  /\ initDone' = TRUE
  /\ UNCHANGED <<clock, settings, enabled, notified, schedule, plan, wait, wasEnabled,
                 updating, starts, sampling, timer, env>>

\* A round without power control or without a timebase
RoundWithout ==
  /\ Awake /\ ~(enabled /\ schedule.set)
  /\ notified' = FALSE
  /\ plan' = [bus |-> ~enabled, sleep |-> 1]
  /\ pc' = IF enabled THEN "noTimebase" ELSE "disabled"
  /\ UNCHANGED <<clock, settings, enabled, schedule, initDone, bus, sleep, link,
                 topology, env>>

SwitchWithout ==
  /\ pc \in {"noTimebase", "disabled"}
  /\ SwitchBus(plan.bus)
  /\ schedule' = Timebased
  /\ sleep' = IF pc = "noTimebase" /\ Timebased.set /\ Timebased.start > CurrentTime
              THEN Timebased.start - CurrentTime ELSE plan.sleep
  /\ pc' = "asleep"
  /\ UNCHANGED <<clock, settings, enabled, notified, initDone, plan, wait, wasEnabled,
                 updating, starts, sampling, timer, env>>

Controller ==
  \/ PowerUp \/ Warmed \/ WokenEarly \/ Sample \/ SubsampleWokenEarly \/ Subsample
  \/ SubsampleOff \/ SampleOff \/ Switch \/ RoundWithout \/ SwitchWithout

(***************************************************************************)
(* The task of the serial link, and the end of an update                   *)
(***************************************************************************)
\* Mutant: the task is not told.
PowerControlEnableUntold(on) ==
  /\ enabled' = on
  /\ schedule' = IF on /\ schedule.start < CurrentTime
                 THEN StartingAt(AlignNextInterval(CurrentTime, schedule.start))
                 ELSE schedule
  /\ UNCHANGED notified

\* powerControlEnable
PowerControlEnable(on) ==
  /\ enabled' = on
  /\ notified' = TRUE
  /\ schedule' = IF on /\ schedule.start < CurrentTime
                 THEN StartingAt(AlignNextInterval(CurrentTime, schedule.start))
                 ELSE schedule

NoPowerControl == UNCHANGED <<enabled, notified, schedule>>

\* _ncp_dfu_finish
Finish == IF wasEnabled THEN PowerControlEnable(TRUE) ELSE NoPowerControl

\* What ncp_dfu.cpp leaves alone
Elsewhere == UNCHANGED <<clock, settings, initDone, bus, pc, plan, sleep, topology,
                         moves, chosen>>

Interferes(what) == disturbed' = disturbed \cup what

\* ncp_dfu_start_cb for an image with a wrong CRC
StartBad ==
  /\ ncp = "idle" /\ starts < MaxStarts
  /\ starts' = starts + 1
  /\ Finish
  /\ Interferes(IF updating THEN {"overlap"} ELSE {})
  /\ Elsewhere
  /\ UNCHANGED <<ncp, wait, wasEnabled, updating>>

\* ncp_dfu_start_cb for a node of the bus, up to waitForSignal
Start ==
  /\ ncp = "idle" /\ starts < MaxStarts
  /\ starts' = starts + 1
  /\ wasEnabled' = enabled
  /\ IF enabled THEN PowerControlEnable(FALSE) ELSE NoPowerControl
  /\ ncp' = IF bus THEN "powered" ELSE "waiting"
  /\ wait' = IF bus THEN 0 ELSE WaitLimit
  /\ Interferes(IF updating THEN {"held", "overlap"} ELSE {"held"})
  /\ Elsewhere
  /\ UNCHANGED updating

\* The bus did not come on in time
GiveUp ==
  /\ ncp = "waiting" /\ wait = 0
  /\ Finish
  /\ ncp' = "idle"
  /\ Elsewhere
  /\ UNCHANGED <<wait, wasEnabled, updating, starts, disturbed>>

\* _do_bcmp_update, accepted by bm_dfu_initiate_update
Queue ==
  /\ ncp = "powered" /\ ~updating
  /\ updating' = TRUE
  /\ ncp' = "idle"
  /\ wait' = 0
  /\ NoPowerControl
  /\ Elsewhere
  /\ UNCHANGED <<wasEnabled, starts, disturbed>>

\* Mutant: the host is told, and power control forgotten.
RefusedUnfinished ==
  /\ ncp = "powered"
  /\ NoPowerControl
  /\ ncp' = "idle"
  /\ wait' = 0
  /\ Elsewhere
  /\ UNCHANGED <<wasEnabled, updating, starts, disturbed>>

\* The node is not in the list, or another update is under way
Refused ==
  /\ ncp = "powered"
  /\ Finish
  /\ ncp' = "idle"
  /\ wait' = 0
  /\ Elsewhere
  /\ UNCHANGED <<wasEnabled, updating, starts, disturbed>>

\* _update_success_cb, on the event thread of the firmware update
UpdateEnds ==
  /\ updating
  /\ updating' = FALSE
  /\ Finish
  /\ Elsewhere
  /\ UNCHANGED <<ncp, wait, wasEnabled, starts, disturbed>>

Link == StartBad \/ Start \/ GiveUp \/ Queue \/ Refused \/ UpdateEnds

(***************************************************************************)
(* The topology sampler                                                    *)
(***************************************************************************)
Others == UNCHANGED <<clock, settings, enabled, notified, controller, link, env>>

\* The first sample, in the two minutes with the bus on
FirstSample ==
  /\ sampler = "boot" /\ bus
  /\ sampler' = "check"
  /\ Others /\ UNCHANGED <<sampling, timer>>

\* The top of the loop, up to waitForSignal; the init period has elapsed
Check ==
  /\ sampler = "check" /\ initDone
  /\ sampler' = IF enabled /\ sampling THEN IF bus THEN "waitOff" ELSE "stop"
                ELSE IF enabled        THEN IF bus THEN "settle" ELSE "waitOn"
                ELSE                        IF bus THEN "settleHeld" ELSE "waitHeld"
  /\ Others /\ UNCHANGED <<sampling, timer>>

\* The five seconds in which the nodes start have passed
BeginSampling ==
  /\ sampler = "settle"
  /\ timer' = TRUE /\ sampling' = TRUE
  /\ sampler' = "check"
  /\ Others

\* Mutant: the timer goes on.
EndSamplingRunning ==
  /\ sampler = "stop"
  /\ sampling' = FALSE
  /\ sampler' = "check"
  /\ Others
  /\ UNCHANGED timer

EndSampling ==
  /\ sampler = "stop"
  /\ timer' = FALSE /\ sampling' = FALSE
  /\ sampler' = "check"
  /\ Others

\* The same without power control, until there is power control
BeginHeld ==
  /\ sampler = "settleHeld"
  /\ timer' = TRUE
  /\ sampler' = "held"
  /\ Others /\ UNCHANGED sampling

EndHeld ==
  /\ sampler = "held" /\ enabled
  /\ timer' = FALSE
  /\ sampler' = "check"
  /\ Others /\ UNCHANGED sampling

Sampler ==
  FirstSample \/ Check \/ BeginSampling \/ EndSampling \/ BeginHeld \/ EndHeld

(***************************************************************************)
(* Time, the clock and the operator                                        *)
(***************************************************************************)
Resting ==
  /\ pc \in {"warming", "asleep"} /\ sleep > 0
  /\ pc = "asleep" => ~notified

\* A second passes
Tick ==
  /\ Resting /\ now < MaxTime
  /\ ncp = "waiting" => wait > 0
  /\ now' = now + 1
  /\ sleep' = sleep - 1
  /\ wait' = Larger(0, wait - 1)
  /\ UNCHANGED <<ticks, clockSet, settings, enabled, notified, schedule, initDone, bus,
                 pc, plan, ncp, wasEnabled, updating, starts, topology, env>>

\* rtcSet, the first time or again
SetClock ==
  /\ ~ticks
  /\ clockSet => moves < MaxMoves
  /\ moves' = IF clockSet THEN moves + 1 ELSE moves
  /\ Interferes(IF clockSet THEN {"clock"} ELSE {})
  /\ clockSet' = TRUE
  /\ now' \in ClockTimes
  /\ UNCHANGED <<ticks, settings, enabled, notified, controller, link, topology, chosen>>

\* The commands of debug_bridge_power_controller.cpp
SetPower(on) ==
  /\ moves < MaxMoves
  /\ moves' = moves + 1
  /\ PowerControlEnable(on)
  /\ chosen' = on
  /\ Interferes({"power"})
  /\ UNCHANGED <<clock, settings, initDone, bus, pc, plan, sleep, link, topology>>

SetSubsampling(on) ==
  /\ moves < MaxMoves
  /\ moves' = moves + 1
  /\ subsampling' = on
  /\ Interferes({"subsampling"})
  /\ UNCHANGED <<clock, config, enabled, notified, controller, link, topology, chosen>>

Environment ==
  Tick \/ SetClock \/ \E on \in BOOLEAN : SetPower(on) \/ SetSubsampling(on)

Next == Controller \/ Link \/ Sampler \/ Environment

Spec == Init /\ [][Next]_vars

FairSpec == Spec /\ WF_vars(Controller) /\ WF_vars(Sampler)

(***************************************************************************)
(* Properties                                                              *)
(***************************************************************************)
TypeOK ==
  /\ config \in [Field -> Nat] /\ \A f \in Field : config[f] \in Limits[f]
  /\ ticks \in BOOLEAN /\ clockSet \in BOOLEAN /\ now \in 0..MaxTime
  /\ {enabled, subsampling, initDone, bus, notified, wasEnabled, updating, sampling,
      timer, chosen} \subseteq BOOLEAN
  /\ schedule \in [set : BOOLEAN, start : Nat, substart : Nat]
  /\ pc \in {"start", "warming", "asleep", "switching", "noTimebase", "disabled"}
  /\ plan \in [bus : BOOLEAN, sleep : Nat \ {0}] /\ sleep \in Nat
  /\ ncp \in {"idle", "waiting", "powered"} /\ wait \in 0..WaitLimit
  /\ sampler \in {"boot", "check", "waitOn", "settle", "waitOff", "stop", "waitHeld",
                  "settleHeld", "held"}
  /\ starts \in 0..MaxStarts /\ moves \in 0..MaxMoves
  /\ disturbed \subseteq {"held", "overlap", "clock", "power", "subsampling"}

InWindow(start, length) == CurrentTime >= start /\ CurrentTime < start + length

\* A subsample that begins within the sample is not cut short by its end
Scheduled ==
  IF subsampling
  THEN /\ schedule.substart < schedule.start + config.duration
       /\ InWindow(schedule.substart, config.subDuration)
  ELSE InWindow(schedule.start, config.duration)

\* While the controller sleeps, the bus is on in every sample, or subsample,
\* unless the clock was corrected or subsampling was switched since the start;
\* and it is off outside them unless something has interfered: an update that
\* held it on leaves it on until the next sample.
BusFollowsSchedule ==
  (Resting /\ pc = "asleep" /\ enabled /\ schedule.set) =>
    /\ Scheduled => bus \/ disturbed \cap {"clock", "subsampling"} # {}
    /\ bus => Scheduled \/ disturbed # {}

\* No second passes with a node being updated and its power off: if the switch
\* that the controller had decided on comes after the update has begun, the
\* notification of powerControlEnable undoes it at once (ncp_dfu.cpp:155).
PoweredWhileHeld ==
  (updating /\ Resting /\ disturbed \subseteq {"held"}) => bus

\* When no update is under way, power control is what it was configured to be,
\* however the last ones ended, if none was started during another and the
\* operator gave no command (ncp_dfu.cpp:46-48, 156-162).
PowerRestored ==
  (ncp = "idle" /\ ~updating /\ disturbed \cap {"overlap", "power"} = {}) =>
    enabled = chosen

\* "We want to disable power control here (which will leave the bus ON, allowing
\* a node to be updated)" (ncp_dfu.cpp:155): power control is off during an
\* update.  A second start with a bad image turns it on.
HeldForUpdate == updating => ~enabled

\* "when the power is turned off we will turn off the timer"
\* (topology_sampler.cpp:599), if no update and no operator takes power control
\* away just when the bus goes off.
TimerStopsWithPower == (timer /\ ~bus) ~> (~timer \/ bus \/ disturbed # {})
=============================================================================
