-------------------------- MODULE BridgePowerProofs --------------------------
(***************************************************************************)
(* Proofs about BridgePower: types, that power control comes back after an *)
(* update, that a node is not updated without power, and that the bus      *)
(* follows its schedule.                                                   *)
(***************************************************************************)
EXTENDS BridgePower, TLAPS

(***************************************************************************)
(* Times                                                                   *)
(***************************************************************************)
\* Products and multiples of times are times.
LEMMA Products == \A a, b \in Nat : a * b \in Nat
OBVIOUS

\* A time is rounded up to a time.
LEMMA RoundUpType ==
  ASSUME NEW t \in Int, NEW step \in Nat \ {0}
  PROVE  RoundUp(t, step) \in Int /\ (t \in Nat => RoundUp(t, step) \in Nat)
<1>1. (t + step - 1) \div step \in Int
  OBVIOUS
<1>2. t \in Nat => (t + step - 1) \div step \in Nat
  OBVIOUS
<1> QED
  BY <1>1, <1>2, Products DEF RoundUp

\* The configuration's values.
LEMMA ConfigTypes ==
  ASSUME TypeOK
  PROVE  /\ config.interval \in Nat \ {0} /\ config.alignment \in Nat
         /\ config.duration \in Nat /\ config.subInterval \in Nat
         /\ config.subDuration \in Nat
<1>1. \A f \in Field : config[f] \in Limits[f] /\ Limits[f] \subseteq Nat
  BY LimitsAssumption DEF TypeOK
<1>2. Limits["interval"] \subseteq Nat \ {0}
  BY LimitsAssumption DEF Field
<1> QED
  BY <1>1, <1>2 DEF Field

\* The next start is a time.
LEMMA AlignType ==
  ASSUME TypeOK, NEW t \in Nat, NEW last \in Nat
  PROVE  AlignNextInterval(t, last) \in Nat
<1> DEFINE base == IF last = 0 THEN t - (t % config.interval) ELSE last
           next == base + Larger(config.interval, RoundUp(t - base, config.interval))
<1>1. config.interval \in Nat \ {0} /\ config.alignment \in Nat
  BY ConfigTypes
<1>2. base \in Nat
  BY <1>1
<1>3. RoundUp(t - base, config.interval) \in Int
  BY <1>1, <1>2, RoundUpType
<1>4. Larger(config.interval, RoundUp(t - base, config.interval)) \in Nat
  BY <1>1, <1>3 DEF Larger
<1>5. next \in Nat
  BY <1>2, <1>4
<1>6. config.alignment # 0 => RoundUp(next, config.alignment) \in Nat
  BY <1>1, <1>5, RoundUpType
<1> QED
  BY <1>5, <1>6 DEF AlignNextInterval

\* The values of the schedule.
Schedules == [set : BOOLEAN, start : Nat, substart : Nat]

\* What the controller computes of its schedule.
LEMMA ScheduleTypes ==
  ASSUME TypeOK
  PROVE  /\ CurrentTime \in Nat
         /\ schedule.start \in Nat /\ schedule.substart \in Nat
         /\ schedule.set \in BOOLEAN
         /\ Timebased \in Schedules
         /\ \A t \in Nat : StartingAt(t) \in Schedules
<1>1. CurrentTime \in Nat /\ schedule \in Schedules
  BY TimesAssumption DEF TypeOK, CurrentTime, Schedules
<1>2. schedule.start \in Nat /\ schedule.substart \in Nat /\ schedule.set \in BOOLEAN
  BY <1>1 DEF Schedules
<1>3. \A t \in Nat : StartingAt(t) \in Schedules
  BY <1>1 DEF StartingAt, Schedules
<1>4. AlignNextInterval(CurrentTime, schedule.start) \in Nat
  BY <1>1, <1>2, AlignType
<1>5. Timebased \in Schedules
  BY <1>1, <1>3, <1>4 DEF Timebased, Schedules
<1> QED
  BY <1>1, <1>2, <1>3, <1>5

(***************************************************************************)
(* Types                                                                   *)
(***************************************************************************)
\* Where the tasks of the serial link and of the sampler can be.
NcpStates == {"idle", "waiting", "powered"}
SamplerStates == {"boot", "check", "waitOn", "settle", "waitOff", "stop", "waitHeld",
                  "settleHeld", "held"}

\* Switching the bus keeps the types of what it changes.
LEMMA SwitchTypes ==
  ASSUME TypeOK, NEW on \in BOOLEAN, SwitchBus(on)
  PROVE  bus' \in BOOLEAN /\ ncp' \in NcpStates /\ sampler' \in SamplerStates
<1>1. ncp \in NcpStates /\ sampler \in SamplerStates
  BY DEF TypeOK, NcpStates, SamplerStates
<1>2. bus' \in BOOLEAN
  BY DEF SwitchBus
<1>3. ncp' \in NcpStates
  BY <1>1 DEF SwitchBus, NcpStates
<1>4. sampler' \in SamplerStates
  BY <1>1 DEF SwitchBus, SamplerStates
<1> QED
  BY <1>2, <1>3, <1>4

\* Turning power control on or off keeps the types of what it changes.
LEMMA EnableTypes ==
  ASSUME TypeOK, NEW on \in BOOLEAN, PowerControlEnable(on)
  PROVE  enabled' \in BOOLEAN /\ notified' \in BOOLEAN /\ schedule' \in Schedules
<1>1. AlignNextInterval(CurrentTime, schedule.start) \in Nat
  BY ScheduleTypes, AlignType
<1>2. StartingAt(AlignNextInterval(CurrentTime, schedule.start)) \in Schedules
  BY <1>1, ScheduleTypes
<1>3. schedule \in Schedules
  BY DEF TypeOK, Schedules
<1>4. schedule' \in Schedules
  BY <1>2, <1>3 DEF PowerControlEnable
<1> QED
  BY <1>4 DEF PowerControlEnable

\* So does the end of an update.
LEMMA FinishTypes ==
  ASSUME TypeOK, Finish \/ NoPowerControl
  PROVE  enabled' \in BOOLEAN /\ notified' \in BOOLEAN /\ schedule' \in Schedules
<1>1. CASE NoPowerControl
  BY <1>1 DEF NoPowerControl, TypeOK, Schedules
<1>2. CASE PowerControlEnable(TRUE)
  BY <1>2, EnableTypes
<1> QED
  BY <1>1, <1>2 DEF Finish

\* A decision of the controller keeps the types, if it is one.
LEMMA DecideTypes ==
  ASSUME TypeOK, NEW power \in BOOLEAN, NEW seconds \in Int, Decide(power, seconds),
         notified' \in BOOLEAN, schedule' \in Schedules
  PROVE  TypeOK'
<1>1. Larger(seconds, 1) \in Nat \ {0}
  BY DEF Larger
<1>2. plan' \in [bus : BOOLEAN, sleep : Nat \ {0}]
  BY <1>1 DEF Decide
<1> QED
  BY <1>2 DEF Decide, TypeOK, Schedules, clock, settings, link, topology, env

\* What is left of a sample or a subsample is a time.
LEMMA RemainingType ==
  ASSUME TypeOK, NEW start \in Nat, NEW length \in Nat
  PROVE  Remaining(start, length) \in Nat
<1>1. CurrentTime \in Nat
  BY ScheduleTypes
<1> QED
  BY <1>1 DEF Remaining, Larger

\* The steps of the controller.
LEMMA ControllerTypes ==
  ASSUME TypeOK, Controller
  PROVE  TypeOK'
<1> USE DEF Schedules
<1>t. /\ CurrentTime \in Nat /\ Timebased \in Schedules /\ schedule \in Schedules
      /\ Timebased.start \in Nat /\ schedule.start \in Nat /\ schedule.substart \in Nat
      /\ enabled \in BOOLEAN /\ bus \in BOOLEAN /\ notified \in BOOLEAN
  BY ScheduleTypes DEF TypeOK
<1>l. SampleLeft \in Int /\ SubsampleLeft \in Int
  <2>1. SampleLeft \in Nat /\ SubsampleLeft \in Nat
    BY <1>t, ConfigTypes, RemainingType DEF SampleLeft, SubsampleLeft
  <2> QED
    BY <2>1
<1>w. TRUE \in BOOLEAN /\ (notified' = FALSE => notified' \in BOOLEAN)
  OBVIOUS
<1>1. CASE PowerUp
  <2>1. SwitchBus(TRUE)
    BY <1>1 DEF PowerUp
  <2>2. bus' \in BOOLEAN /\ ncp' \in NcpStates /\ sampler' \in SamplerStates
    BY <2>1, SwitchTypes
  <2> QED
    BY <1>1, <2>2, TimesAssumption
    DEF PowerUp, TypeOK, NcpStates, SamplerStates, clock, settings, env
<1>2. CASE Warmed
  <2>1. schedule' \in Schedules /\ notified' \in BOOLEAN
    BY <1>2, <1>t DEF Warmed
  <2>2. CASE Decide(~enabled, Timebased.start - CurrentTime)
    <3>1. (~enabled) \in BOOLEAN
      OBVIOUS
    <3>2. Timebased.start - CurrentTime \in Int
      BY <1>t
    <3> QED
      BY <2>1, <2>2, <3>1, <3>2, DecideTypes
  <2>3. CASE Decide(bus, 1)
    BY <1>t, <2>1, <2>3, DecideTypes
  <2> QED
    BY <1>2, <2>2, <2>3 DEF Warmed
<1>3. CASE WokenEarly
  <2>1. /\ Decide(bus, schedule.start - CurrentTime)
        /\ notified' \in BOOLEAN /\ schedule' \in Schedules
    BY <1>3, <1>t DEF WokenEarly, Round
  <2>2. schedule.start - CurrentTime \in Int
    BY <1>t
  <2> QED
    BY <1>t, <2>1, <2>2, DecideTypes
<1>4. CASE Sample
  <2>1. Decide(TRUE, SampleLeft) /\ notified' \in BOOLEAN /\ schedule' \in Schedules
    BY <1>4, <1>t DEF Sample, InSample, Round
  <2> QED
    BY <1>l, <1>w, <2>1, DecideTypes
<1>5. CASE SubsampleWokenEarly
  <2>1. /\ Decide(bus, Smaller(SampleLeft, schedule.substart - CurrentTime))
        /\ notified' \in BOOLEAN /\ schedule' \in Schedules
    BY <1>5, <1>t DEF SubsampleWokenEarly, InSample, Round
  <2>2. Smaller(SampleLeft, schedule.substart - CurrentTime) \in Int
    BY <1>t, <1>l DEF Smaller
  <2> QED
    BY <1>t, <2>1, <2>2, DecideTypes
<1>6. CASE Subsample
  <2>1. /\ Decide(TRUE, SubsampleLeft)
        /\ notified' \in BOOLEAN /\ schedule' \in Schedules
    BY <1>6, <1>t DEF Subsample, InSample, Round
  <2> QED
    BY <1>l, <1>w, <2>1, DecideTypes
<1>7. CASE SubsampleOff
  <2> DEFINE next == schedule.substart + config.subInterval
  <2>1. next \in Nat
    BY <1>t, ConfigTypes
  <2>2. /\ Decide(bus /\ next <= CurrentTime,
                  Smaller(SampleLeft, Larger(0, next - CurrentTime)))
        /\ notified' \in BOOLEAN
        /\ schedule' = [schedule EXCEPT !.substart = next]
    BY <1>7 DEF SubsampleOff, InSample, Round
  <2>3. schedule' \in Schedules
    BY <1>t, <2>1, <2>2
  <2>4. Smaller(SampleLeft, Larger(0, next - CurrentTime)) \in Int
    BY <1>t, <1>l, <2>1 DEF Smaller, Larger
  <2>5. (bus /\ next <= CurrentTime) \in BOOLEAN
    OBVIOUS
  <2> HIDE DEF next
  <2> QED
    BY <2>2, <2>3, <2>4, <2>5, DecideTypes
<1>8. CASE SampleOff
  <2> DEFINE next == AlignNextInterval(CurrentTime, schedule.start)
  <2>1. next \in Nat
    BY <1>t, AlignType
  <2>2. /\ Decide(bus /\ next <= CurrentTime, next - CurrentTime)
        /\ notified' \in BOOLEAN
        /\ schedule' = StartingAt(next)
    BY <1>8 DEF SampleOff, Round
  <2> HIDE DEF next
  <2>3. schedule' \in Schedules
    BY <2>1, <2>2, ScheduleTypes
  <2>4. next - CurrentTime \in Int /\ (bus /\ next <= CurrentTime) \in BOOLEAN
    BY <1>t, <2>1
  <2> QED
    BY <2>2, <2>3, <2>4, DecideTypes
<1>9. CASE Switch
  <2>1. SwitchBus(plan.bus) /\ plan.bus \in BOOLEAN /\ plan.sleep \in Nat
    BY <1>9 DEF Switch, TypeOK
  <2>2. bus' \in BOOLEAN /\ ncp' \in NcpStates /\ sampler' \in SamplerStates
    BY <2>1, SwitchTypes
  <2> QED
    BY <1>9, <2>1, <2>2
    DEF Switch, TypeOK, NcpStates, SamplerStates, clock, settings, env
<1>10. CASE RoundWithout
  <2>1. plan' \in [bus : BOOLEAN, sleep : Nat \ {0}]
    BY <1>10 DEF RoundWithout
  <2> QED
    BY <1>10, <2>1 DEF RoundWithout, TypeOK, clock, settings, link, topology, env
<1>11. CASE SwitchWithout
  <2>1. SwitchBus(plan.bus) /\ plan.bus \in BOOLEAN /\ plan.sleep \in Nat
    BY <1>11 DEF SwitchWithout, TypeOK
  <2>2. bus' \in BOOLEAN /\ ncp' \in NcpStates /\ sampler' \in SamplerStates
    BY <2>1, SwitchTypes
  <2>3. sleep' \in Nat /\ schedule' \in Schedules
    BY <1>11, <2>1, <1>t DEF SwitchWithout
  <2> QED
    BY <1>11, <2>2, <2>3
    DEF SwitchWithout, TypeOK, NcpStates, SamplerStates, clock, settings, env
<1> QED
  BY <1>1, <1>2, <1>3, <1>4, <1>5, <1>6, <1>7, <1>8, <1>9, <1>10, <1>11 DEF Controller

\* The steps of the serial link's task.
LEMMA LinkTypes ==
  ASSUME TypeOK, Link
  PROVE  TypeOK'
<1> USE TimesAssumption DEF Schedules, TypeOK, Elsewhere, Interferes, clock, settings, topology
<1>1. CASE StartBad
  <2>1. enabled' \in BOOLEAN /\ notified' \in BOOLEAN /\ schedule' \in Schedules
    BY <1>1, FinishTypes DEF StartBad
  <2> QED
    BY <1>1, <2>1 DEF StartBad
<1>2. CASE Start
  <2>1. enabled' \in BOOLEAN /\ notified' \in BOOLEAN /\ schedule' \in Schedules
    BY <1>2, FinishTypes, EnableTypes DEF Start
  <2> QED
    BY <1>2, <2>1 DEF Start
<1>3. CASE GiveUp
  <2>1. enabled' \in BOOLEAN /\ notified' \in BOOLEAN /\ schedule' \in Schedules
    BY <1>3, FinishTypes DEF GiveUp
  <2> QED
    BY <1>3, <2>1 DEF GiveUp
<1>4. CASE Queue
  <2>1. enabled' \in BOOLEAN /\ notified' \in BOOLEAN /\ schedule' \in Schedules
    BY <1>4, FinishTypes DEF Queue
  <2> QED
    BY <1>4, <2>1 DEF Queue
<1>5. CASE Refused
  <2>1. enabled' \in BOOLEAN /\ notified' \in BOOLEAN /\ schedule' \in Schedules
    BY <1>5, FinishTypes DEF Refused
  <2> QED
    BY <1>5, <2>1 DEF Refused
<1>6. CASE UpdateEnds
  <2>1. enabled' \in BOOLEAN /\ notified' \in BOOLEAN /\ schedule' \in Schedules
    BY <1>6, FinishTypes DEF UpdateEnds
  <2> QED
    BY <1>6, <2>1, ZenonT(60) DEF UpdateEnds
<1> QED
  BY <1>1, <1>2, <1>3, <1>4, <1>5, <1>6 DEF Link

\* The steps of the sampler.
LEMMA SamplerTypes ==
  ASSUME TypeOK, Sampler
  PROVE  TypeOK'
<1>1. sampler' \in SamplerStates /\ sampling' \in BOOLEAN /\ timer' \in BOOLEAN
  <2> USE DEF TypeOK, SamplerStates
  <2>1. CASE FirstSample
    BY <2>1 DEF FirstSample
  <2>2. CASE Check
    BY <2>2 DEF Check
  <2>3. CASE BeginSampling
    BY <2>3 DEF BeginSampling
  <2>4. CASE EndSampling
    BY <2>4 DEF EndSampling
  <2>5. CASE BeginHeld
    BY <2>5 DEF BeginHeld
  <2>6. CASE EndHeld
    BY <2>6 DEF EndHeld
  <2> QED
    BY <2>1, <2>2, <2>3, <2>4, <2>5, <2>6 DEF Sampler
<1>2. Others
  BY DEF Sampler, FirstSample, Check, BeginSampling, EndSampling, BeginHeld, EndHeld
<1> QED
  BY <1>1, <1>2
  DEF TypeOK, SamplerStates, Others, clock, settings, controller, link, env

\* Time, the clock and the operator.
LEMMA EnvironmentTypes ==
  ASSUME TypeOK, Environment
  PROVE  TypeOK'
<1> USE TimesAssumption
<1>1. CASE Tick
  <2>1. now' \in 0..MaxTime /\ sleep' \in Nat /\ wait' \in 0..WaitLimit
    BY <1>1 DEF Tick, Resting, TypeOK, Larger
  <2> QED
    BY <1>1, <2>1 DEF Tick, TypeOK, settings, topology, env
<1>2. CASE SetClock
  BY <1>2 DEF SetClock, TypeOK, Interferes, settings, controller, link, topology
<1>3. ASSUME NEW on \in BOOLEAN, SetPower(on)
      PROVE  TypeOK'
  <2>1. enabled' \in BOOLEAN /\ notified' \in BOOLEAN /\ schedule' \in Schedules
    BY <1>3, EnableTypes DEF SetPower
  <2> QED
    BY <1>3, <2>1
    DEF SetPower, TypeOK, Schedules, Interferes, clock, settings, link, topology
<1>4. ASSUME NEW on \in BOOLEAN, SetSubsampling(on)
      PROVE  TypeOK'
  BY <1>4
  DEF SetSubsampling, TypeOK, Interferes, clock, controller, link, topology
<1> QED
  BY <1>1, <1>2, <1>3, <1>4 DEF Environment

\* The types in the initial states: the constructor's values are in range.
LEMMA InitTypes == Init => TypeOK
<1> SUFFICES ASSUME Init PROVE TypeOK
  OBVIOUS
<1>1. PICK raw \in Settings :
        /\ config = Configured(raw)
        /\ ticks = raw.ticks
        /\ enabled = (raw.enabled /\ config.duration # config.interval)
        /\ subsampling = (raw.subsampling /\ config.subDuration # config.subInterval)
  BY DEF Init
<1>2. \A f \in Field : config[f] \in Limits[f] /\ config[f] \in Nat
  BY <1>1, LimitsAssumption DEF Configured
<1>3. config \in [Field -> Nat]
  BY <1>1, <1>2 DEF Configured
<1>4. {raw.ticks, raw.enabled, raw.subsampling} \subseteq BOOLEAN
  BY SettingsAssumption
<1>5. ticks \in BOOLEAN /\ enabled \in BOOLEAN /\ subsampling \in BOOLEAN
  BY <1>1, <1>4
<1>6. clockSet \in BOOLEAN /\ now \in 0..MaxTime /\ chosen \in BOOLEAN
  BY <1>5, TimesAssumption DEF Init
<1>7. /\ schedule \in [set : BOOLEAN, start : Nat, substart : Nat]
      /\ plan \in [bus : BOOLEAN, sleep : Nat \ {0}] /\ sleep \in Nat
  BY DEF Init
<1>8. wait \in 0..WaitLimit /\ starts \in 0..MaxStarts /\ moves \in 0..MaxMoves
  BY TimesAssumption DEF Init
<1>9. {initDone, bus, notified, wasEnabled, updating, sampling, timer} \subseteq BOOLEAN
  BY DEF Init
<1>10. {enabled, subsampling, initDone, bus, notified, wasEnabled, updating, sampling,
        timer, chosen} \subseteq BOOLEAN
  BY <1>5, <1>6, <1>9
<1> QED
  BY <1>2, <1>3, <1>5, <1>6, <1>7, <1>8, <1>10 DEF Init, TypeOK

\* TypeOK is kept by every step.
LEMMA NextTypes == TypeOK /\ [Next]_vars => TypeOK'
<1> SUFFICES ASSUME TypeOK, [Next]_vars PROVE TypeOK'
  OBVIOUS
<1>1. CASE UNCHANGED vars
  BY <1>1
  DEF TypeOK, vars, clock, settings, controller, link, topology, env
<1> QED
  BY <1>1, ControllerTypes, LinkTypes, SamplerTypes, EnvironmentTypes DEF Next

\* Every variable keeps its type, whatever the stored configuration: the
\* constructor takes only values in range (bridgePowerController.cpp).
THEOREM TypeCorrect == Spec => []TypeOK
<1> QED
  BY InitTypes, NextTypes, PTL DEF Spec

(***************************************************************************)
(* Power control comes back                                                *)
(*                                                                         *)
(* What power_controller_was_enabled remembers is good only if no second   *)
(* start came during an update and no command during the first; under that *)
(* condition an update is either still with the task of the serial link or *)
(* already under way, and meanwhile power control is off and remembered.   *)
(***************************************************************************)
\* Nothing has come between an update and its end.
Undisturbed == disturbed \cap {"overlap", "power"} = {}
\* A node is being updated, or about to be.
Busy == updating \/ ncp # "idle"

\* While that is so, the setting to return to is remembered.
Remembered ==
  Undisturbed =>
    /\ ~(updating /\ ncp # "idle")
    /\ Busy => ~enabled /\ wasEnabled = chosen
    /\ ~Busy => enabled = chosen
    /\ wasEnabled => chosen

\* It holds at the start, when nothing is busy.
LEMMA RememberedInit == Init => Remembered
<1> SUFFICES ASSUME Init PROVE Remembered
  OBVIOUS
<1>1. ~Busy /\ enabled = chosen /\ wasEnabled = FALSE /\ updating = FALSE
  BY DEF Init, Busy
<1> QED
  BY <1>1 DEF Remembered

\* Steps that leave the link's task where it is.
LEMMA RememberedAside ==
  ASSUME Remembered,
         UNCHANGED <<enabled, wasEnabled, updating, chosen>>,
         ncp' = ncp \/ (ncp = "waiting" /\ ncp' = "powered"),
         disturbed \subseteq disturbed'
  PROVE  Remembered'
<1>1. (ncp' = "idle") <=> (ncp = "idle")
  OBVIOUS
<1>2. Undisturbed' => Undisturbed
  BY DEF Undisturbed
<1> QED
  BY <1>1, <1>2 DEF Remembered, Busy

\* The end of an update gives back what was remembered.
LEMMA FinishEnables ==
  ASSUME TypeOK, Finish
  PROVE  enabled' = (enabled \/ wasEnabled)
<1>1. enabled \in BOOLEAN /\ wasEnabled \in BOOLEAN
  BY DEF TypeOK
<1> QED
  BY <1>1 DEF Finish, PowerControlEnable, NoPowerControl

\* The steps of the serial link's task.
LEMMA RememberedLink ==
  ASSUME TypeOK, Remembered, Link
  PROVE  Remembered'
<1>t. /\ enabled \in BOOLEAN /\ wasEnabled \in BOOLEAN /\ chosen \in BOOLEAN
      /\ updating \in BOOLEAN
  BY DEF TypeOK
<1>c. chosen' = chosen
  BY DEF Link, StartBad, Start, GiveUp, Queue, Refused, UpdateEnds, Elsewhere
<1>d. disturbed \subseteq disturbed'
  BY DEF Link, StartBad, Start, GiveUp, Queue, Refused, UpdateEnds, Interferes
<1>u. Undisturbed' => Undisturbed
  BY <1>d DEF Undisturbed
<1> SUFFICES ASSUME Undisturbed'
             PROVE  Remembered'
  BY DEF Remembered
<1>r. /\ ~(updating /\ ncp # "idle")
      /\ Busy => ~enabled /\ wasEnabled = chosen
      /\ ~Busy => enabled = chosen
      /\ wasEnabled => chosen
  BY <1>u DEF Remembered
<1>1. CASE StartBad
  <2>1. ncp = "idle" /\ UNCHANGED <<ncp, wasEnabled, updating>> /\ Finish
    BY <1>1 DEF StartBad
  <2>2. ~updating
    BY <1>1 DEF StartBad, Interferes, Undisturbed
  <2>3. enabled' = chosen
    BY <1>t, <1>r, <2>1, <2>2, FinishEnables DEF Busy
  <2> QED
    BY <1>c, <1>r, <2>1, <2>2, <2>3 DEF Remembered, Busy
<1>2. CASE Start
  <2>1. ncp = "idle" /\ ncp' # "idle" /\ updating' = updating /\ wasEnabled' = enabled
    BY <1>2 DEF Start
  <2>2. ~updating
    BY <1>2 DEF Start, Interferes, Undisturbed
  <2>3. enabled = chosen
    BY <1>r, <2>1, <2>2 DEF Busy
  <2>4. ~enabled'
    BY <1>2 DEF Start, PowerControlEnable, NoPowerControl
  <2> QED
    BY <1>c, <2>1, <2>2, <2>3, <2>4 DEF Remembered, Busy
<1>3. CASE GiveUp \/ Refused
  <2>1. /\ ncp # "idle" /\ ncp' = "idle" /\ UNCHANGED <<wasEnabled, updating>>
        /\ Finish
    BY <1>3 DEF GiveUp, Refused
  <2>2. ~updating /\ ~enabled /\ wasEnabled = chosen
    BY <1>r, <2>1 DEF Busy
  <2>3. enabled' = chosen
    BY <1>t, <2>1, <2>2, FinishEnables
  <2> QED
    BY <1>c, <1>r, <2>1, <2>2, <2>3 DEF Remembered, Busy
<1>4. CASE Queue
  <2>1. ncp = "powered" /\ ncp' = "idle" /\ updating' /\ UNCHANGED <<wasEnabled, enabled>>
    BY <1>4 DEF Queue, NoPowerControl
  <2> QED
    BY <1>c, <1>r, <2>1 DEF Remembered, Busy
<1>5. CASE UpdateEnds
  <2>1. /\ updating /\ ~updating' /\ UNCHANGED <<ncp, wasEnabled>> /\ Finish
    BY <1>5 DEF UpdateEnds
  <2>2. ncp = "idle" /\ ~enabled /\ wasEnabled = chosen
    BY <1>r, <2>1 DEF Busy
  <2>3. enabled' = chosen
    BY <1>t, <2>1, <2>2, FinishEnables
  <2> QED
    BY <1>c, <1>r, <2>1, <2>2, <2>3 DEF Remembered, Busy
<1> QED
  BY <1>1, <1>2, <1>3, <1>4, <1>5 DEF Link

\* What the controller leaves alone.
LEMMA ControllerLeaves ==
  ASSUME Controller
  PROVE  /\ UNCHANGED <<enabled, wasEnabled, updating, chosen, disturbed>>
         /\ ncp' = ncp \/ (ncp = "waiting" /\ ncp' = "powered")
<1> USE DEF SwitchBus, Decide, link, env
<1>1. CASE PowerUp
  BY <1>1 DEF PowerUp
<1>2. CASE Warmed
  BY <1>2 DEF Warmed
<1>3. CASE WokenEarly \/ SubsampleWokenEarly
  BY <1>3 DEF WokenEarly, SubsampleWokenEarly
<1>4. CASE Sample \/ Subsample
  BY <1>4 DEF Sample, Subsample
<1>5. CASE SubsampleOff
  BY <1>5 DEF SubsampleOff
<1>6. CASE SampleOff
  BY <1>6 DEF SampleOff
<1>7. CASE Switch
  BY <1>7 DEF Switch
<1>8. CASE RoundWithout
  BY <1>8 DEF RoundWithout
<1>9. CASE SwitchWithout
  BY <1>9 DEF SwitchWithout
<1> QED
  BY <1>1, <1>2, <1>3, <1>4, <1>5, <1>6, <1>7, <1>8, <1>9 DEF Controller

\* What the sampler leaves alone.
LEMMA SamplerLeaves ==
  ASSUME Sampler
  PROVE  Others
BY DEF Sampler, FirstSample, Check, BeginSampling, EndSampling, BeginHeld, EndHeld

\* It is kept by every step.
LEMMA RememberedNext == TypeOK /\ Remembered /\ [Next]_vars => Remembered'
<1> SUFFICES ASSUME TypeOK, Remembered, [Next]_vars PROVE Remembered'
  OBVIOUS
<1>1. CASE Controller
  BY <1>1, ControllerLeaves, RememberedAside
<1>2. CASE Link
  BY <1>2, RememberedLink
<1>3. CASE Sampler
  BY <1>3, SamplerLeaves, RememberedAside DEF Others, link, env
<1>4. CASE Tick
  BY <1>4, RememberedAside DEF Tick, env
<1>5. CASE SetClock
  BY <1>5, RememberedAside DEF SetClock, link, Interferes
<1>6. ASSUME NEW on \in BOOLEAN, SetPower(on) \/ SetSubsampling(on)
      PROVE  Remembered'
  <2>1. CASE SetPower(on)
    <3>1. ~Undisturbed'
      BY <2>1 DEF SetPower, Interferes, Undisturbed
    <3> QED
      BY <3>1 DEF Remembered
  <2>2. CASE SetSubsampling(on)
    BY <2>2, RememberedAside DEF SetSubsampling, link, Interferes
  <2> QED
    BY <1>6, <2>1, <2>2
<1>7. CASE UNCHANGED vars
  BY <1>7, RememberedAside DEF vars, link, env
<1> QED
  BY <1>1, <1>2, <1>3, <1>4, <1>5, <1>6, <1>7 DEF Next, Environment

\* When no update is under way, power control is what it was configured to be,
\* whatever ended the last one: a bad image, no power in time, a refusal or the
\* verdict of the node (ncp_dfu.cpp, _ncp_dfu_finish).
THEOREM PowerComesBack == Spec => []PowerRestored
<1>1. Remembered => PowerRestored
  BY DEF Remembered, PowerRestored, Undisturbed, Busy
<1> QED
  BY <1>1, InitTypes, NextTypes, RememberedInit, RememberedNext, PTL DEF Spec

(***************************************************************************)
(* The power stays on                                                      *)
(*                                                                         *)
(* While power control is off, the controller either still has to take the *)
(* notification, or what it has decided, or done, is to power the bus.     *)
(***************************************************************************)
\* Without power control the bus is on, or is about to be switched on.
OnUnlessNotified ==
  /\ pc = "warming" => bus
  /\ ~enabled /\ ~notified =>
       /\ pc \in {"switching", "noTimebase", "disabled"} => plan.bus
       /\ pc = "asleep" => bus

\* It is kept by the controller's steps.
LEMMA OnController ==
  ASSUME TypeOK, OnUnlessNotified, Controller
  PROVE  OnUnlessNotified'
<1>t. enabled \in BOOLEAN /\ bus \in BOOLEAN /\ plan.bus \in BOOLEAN
  BY DEF TypeOK
<1>e. enabled' = enabled
  BY ControllerLeaves
<1>1. CASE PowerUp
  <2>1. bus' /\ pc' = "warming"
    BY <1>1 DEF PowerUp, SwitchBus
  <2> QED
    BY <2>1 DEF OnUnlessNotified
<1>2. CASE Warmed
  <2>1. /\ pc = "warming" /\ pc' = "switching" /\ notified' = notified
        /\ plan'.bus = ~enabled \/ plan'.bus = bus
    BY <1>2 DEF Warmed, Decide
  <2>2. bus
    BY <2>1 DEF OnUnlessNotified
  <2>3. ~enabled => plan'.bus
    BY <2>1, <2>2
  <2> QED
    BY <1>e, <2>1, <2>3 DEF OnUnlessNotified
<1>3. CASE Round
  <2>1. enabled /\ pc' # "warming"
    BY <1>3 DEF Controller, Round, Awake, PowerUp, Warmed, WokenEarly, Sample,
       SubsampleWokenEarly, Subsample, SubsampleOff, SampleOff, Switch, RoundWithout,
       SwitchWithout, Decide
  <2> QED
    BY <1>e, <2>1 DEF OnUnlessNotified
<1>4. CASE RoundWithout
  <2>1. pc' \in {"noTimebase", "disabled"} /\ plan'.bus = ~enabled
    BY <1>4 DEF RoundWithout
  <2> QED
    BY <1>e, <2>1 DEF OnUnlessNotified
<1>5. CASE Switch \/ SwitchWithout
  <2>1. /\ pc \in {"switching", "noTimebase", "disabled"} /\ pc' = "asleep"
        /\ bus' = plan.bus /\ notified' = notified
    BY <1>5 DEF Switch, SwitchWithout, SwitchBus
  <2> QED
    BY <1>e, <2>1 DEF OnUnlessNotified
<1> QED
  BY <1>1, <1>2, <1>3, <1>4, <1>5
  DEF Controller, WokenEarly, Sample, SubsampleWokenEarly, Subsample, SubsampleOff,
      SampleOff, InSample

\* Steps that leave the controller where it is.
LEMMA OnAside ==
  ASSUME TypeOK, OnUnlessNotified, UNCHANGED <<pc, bus, plan>>,
         \/ NoPowerControl
         \/ \E on \in BOOLEAN : PowerControlEnable(on)
         \/ UNCHANGED <<enabled, notified>>
  PROVE  OnUnlessNotified'
BY DEF OnUnlessNotified, NoPowerControl, PowerControlEnable

\* It is kept by every step.
LEMMA OnNext == TypeOK /\ OnUnlessNotified /\ [Next]_vars => OnUnlessNotified'
<1> SUFFICES ASSUME TypeOK, OnUnlessNotified, [Next]_vars PROVE OnUnlessNotified'
  OBVIOUS
<1>1. CASE Controller
  BY <1>1, OnController
<1>2. CASE Link
  <2>1. UNCHANGED <<pc, bus, plan>>
    BY <1>2 DEF Link, StartBad, Start, GiveUp, Queue, Refused, UpdateEnds, Elsewhere
  <2>2. NoPowerControl \/ \E on \in BOOLEAN : PowerControlEnable(on)
    BY <1>2 DEF Link, StartBad, Start, GiveUp, Queue, Refused, UpdateEnds, Finish
  <2> QED
    BY <2>1, <2>2, OnAside
<1>3. CASE Sampler
  BY <1>3, SamplerLeaves, OnAside DEF Others, controller
<1>4. CASE Tick
  BY <1>4, OnAside DEF Tick
<1>5. CASE SetClock
  BY <1>5, OnAside DEF SetClock, controller
<1>6. ASSUME NEW on \in BOOLEAN, SetPower(on) \/ SetSubsampling(on)
      PROVE  OnUnlessNotified'
  <2>1. CASE SetPower(on)
    BY <2>1, OnAside DEF SetPower
  <2>2. CASE SetSubsampling(on)
    BY <2>2, OnAside DEF SetSubsampling, controller
  <2> QED
    BY <1>6, <2>1, <2>2
<1>7. CASE UNCHANGED vars
  BY <1>7, OnAside DEF vars, controller
<1> QED
  BY <1>1, <1>2, <1>3, <1>4, <1>5, <1>6, <1>7 DEF Next, Environment

\* No second passes with a node being updated and its power off, if nothing but
\* updates, one at a time, interferes with the schedule (ncp_dfu.cpp:155).
THEOREM PowerIsHeld == Spec => []PoweredWhileHeld
<1>1. Init => OnUnlessNotified
  BY DEF Init, OnUnlessNotified
<1>2. TypeOK /\ Remembered /\ OnUnlessNotified => PoweredWhileHeld
  <2> SUFFICES ASSUME TypeOK, Remembered, OnUnlessNotified, updating, Resting,
                      disturbed \subseteq {"held"}
               PROVE  bus
    BY DEF PoweredWhileHeld
  <2>1. Undisturbed
    BY DEF Undisturbed
  <2>2. ~enabled
    BY <2>1 DEF Remembered, Busy
  <2> QED
    BY <2>2 DEF OnUnlessNotified, Resting
<1> QED
  BY <1>1, <1>2, InitTypes, NextTypes, RememberedInit, RememberedNext, OnNext, PTL
  DEF Spec

(***************************************************************************)
(* The bus follows its schedule                                            *)
(***************************************************************************)
\* What rounding up, to a multiple of step, does to a time.
LEMMA RoundUpBounds ==
  ASSUME NEW t \in Int, NEW step \in Nat \ {0}
  PROVE  RoundUp(t, step) >= t
BY SMTT(30) DEF RoundUp

\* No length of the configuration is zero.
LEMMA ConfigPositive ==
  ASSUME TypeOK
  PROVE  /\ config.interval \in Nat \ {0} /\ config.alignment \in Nat
         /\ config.duration \in Nat \ {0} /\ config.subInterval \in Nat \ {0}
         /\ config.subDuration \in Nat \ {0}
<1>1. \A f \in Field : config[f] \in Limits[f]
  BY DEF TypeOK
<1>2. \A f \in Field \ {"alignment"} : Limits[f] \subseteq Nat \ {0}
  BY LimitsAssumption
<1>3. \A f \in {"interval", "duration", "subInterval", "subDuration"} :
        config[f] \in Nat \ {0}
  BY <1>1, <1>2 DEF Field
<1> QED
  BY <1>3, ConfigTypes

\* The next start is not before the time, and after it if the last one is not
\* before it or there was none; and it is an interval after the last one.
LEMMA AlignBounds ==
  ASSUME TypeOK, NEW t \in Nat, NEW last \in Nat
  PROVE  /\ AlignNextInterval(t, last) >= t
         /\ last = 0 \/ last >= t => AlignNextInterval(t, last) > t
         /\ last # 0 => AlignNextInterval(t, last) >= last + config.interval
<1> DEFINE base == IF last = 0 THEN t - (t % config.interval) ELSE last
           round == RoundUp(t - base, config.interval)
           next == base + Larger(config.interval, round)
<1>1. config.interval \in Nat \ {0} /\ config.alignment \in Nat
  BY ConfigTypes
<1>2. t % config.interval \in 0..(config.interval - 1)
  BY <1>1
<1>3. base \in Nat /\ (last = 0 => base <= t /\ t < base + config.interval)
  BY <1>1, <1>2
<1>4. last # 0 => base = last
  OBVIOUS
<1> HIDE DEF base
<1>5. round \in Int /\ round >= t - base
  BY <1>1, <1>3, RoundUpType, RoundUpBounds, SMTT(30)
<1> HIDE DEF round
<1>6. next \in Nat /\ next >= t /\ next >= base + config.interval
  BY <1>1, <1>3, <1>5 DEF Larger
<1> HIDE DEF next
<1>7. config.alignment # 0 =>
        /\ RoundUp(next, config.alignment) \in Nat
        /\ RoundUp(next, config.alignment) >= next
  BY <1>1, <1>6, RoundUpType, RoundUpBounds, SMTT(30)
<1> DEFINE result == AlignNextInterval(t, last)
<1>8. result \in Nat /\ result >= next
  <2>1. result = IF config.alignment = 0 THEN next
                 ELSE RoundUp(next, config.alignment)
    BY DEF AlignNextInterval, next, round, base
  <2> QED
    BY <1>6, <1>7, <2>1
<1> HIDE DEF result
<1>9. result >= t /\ result >= base + config.interval
  BY <1>1, <1>3, <1>6, <1>8
<1>10. (last = 0 \/ last >= t) => result > t
  <2>1. base \in Nat /\ result \in Nat /\ config.interval \in Nat \ {0}
    BY <1>1, <1>3, <1>8
  <2>2. CASE last = 0
    BY <1>3, <1>9, <2>1, <2>2
  <2>3. CASE last # 0 /\ last >= t
    BY <1>4, <1>9, <2>1, <2>3
  <2> QED
    BY <2>2, <2>3
<1>11. last # 0 => result >= last + config.interval
  BY <1>4, <1>9
<1> QED
  BY <1>9, <1>10, <1>11 DEF result

\* Subsamples have gaps between them; nothing has disturbed the schedule that
\* could leave the bus off; the controller's first round is still to come.
Gap == subsampling /\ config.subDuration < config.subInterval
Clean == disturbed \cap {"clock", "subsampling"} = {}
Young == pc \in {"start", "warming"}

\* Until n the schedule asks for no power: the next sample starts then or later,
\* or the next subsample of one that goes on at least until then.
NotDue(n) ==
  \/ n <= schedule.start
  \/ Gap /\ n <= schedule.substart /\ n <= schedule.start + config.duration

\* Until n the schedule asks for power.
Covered(n) ==
  /\ schedule.start <= now
  /\ IF subsampling
     THEN /\ schedule.substart <= now
          /\ schedule.substart < schedule.start + config.duration
          /\ n <= schedule.substart + config.subDuration
     ELSE n <= schedule.start + config.duration

\* The starts of sample and subsample, and the time.
Ordered ==
  /\ schedule.start <= schedule.substart
  /\ schedule.set => clockSet /\ ~Young
  /\ ~clockSet => schedule.start = 0
  /\ pc = "noTimebase" => ~schedule.set /\ ~plan.bus
  /\ pc = "disabled" => plan.bus
  /\ Clean =>
       /\ Gap => config.duration < config.interval
       /\ schedule.set /\ schedule.start # schedule.substart => schedule.start < now
       /\ ~schedule.set /\ ~Young /\ schedule.start # 0 =>
            schedule.start >= now /\ (notified \/ pc \in {"noTimebase", "disabled"})

\* The bus is off, or about to be switched off, only while no power is due.
OffUntilDue ==
  Clean /\ schedule.set =>
    /\ ~bus => NotDue(now)
    /\ pc = "switching" /\ ~plan.bus => NotDue(now)
    /\ pc = "switching" /\ ~plan.bus /\ ~notified => NotDue(now + plan.sleep)
    /\ pc = "asleep" /\ ~bus /\ ~notified => NotDue(now + sleep)

\* If nothing has interfered, it is on only while power is asked for.
OnWhileAsked ==
  disturbed = {} =>
    /\ ~notified /\ ~wasEnabled
    /\ pc = "disabled" => ~enabled
    /\ ~schedule.set => schedule.start = 0
    /\ enabled /\ schedule.set =>
         /\ pc = "asleep" /\ bus => Covered(now + sleep)
         /\ pc = "switching" /\ plan.bus => Covered(now + plan.sleep)

\* The three together, which every step keeps.
Kept == Ordered /\ OffUntilDue /\ OnWhileAsked

\* The times of a state.
LEMMA Times ==
  ASSUME TypeOK
  PROVE  /\ now \in Nat /\ schedule.start \in Nat /\ schedule.substart \in Nat
         /\ sleep \in Nat /\ plan.sleep \in Nat \ {0} /\ schedule.set \in BOOLEAN
         /\ bus \in BOOLEAN /\ plan.bus \in BOOLEAN /\ enabled \in BOOLEAN
         /\ notified \in BOOLEAN /\ subsampling \in BOOLEAN /\ clockSet \in BOOLEAN
         /\ CurrentTime = IF clockSet THEN now ELSE 0
BY TimesAssumption DEF TypeOK, CurrentTime

\* If subsamples have gaps, samples have them too.
SamplesApart ==
  \A raw \in Settings :
    LET c == Configured(raw)
    IN  raw.subsampling /\ c.subDuration < c.subInterval => c.duration < c.interval

\* At the start nothing is scheduled.
LEMMA KeptInit == ASSUME SamplesApart PROVE Init => Kept
<1> SUFFICES ASSUME Init PROVE Kept
  OBVIOUS
<1>1. PICK raw \in Settings :
        /\ config = Configured(raw)
        /\ subsampling = (raw.subsampling /\ config.subDuration # config.subInterval)
  BY DEF Init
<1>2. Gap => config.duration < config.interval
  BY <1>1 DEF SamplesApart, Gap
<1>3. /\ pc = "start" /\ ~notified /\ ~wasEnabled
      /\ schedule = [set |-> FALSE, start |-> 0, substart |-> 0]
  BY DEF Init
<1>4. schedule.start = 0 /\ schedule.substart = 0 /\ schedule.set = FALSE
  BY <1>3
<1> QED
  BY <1>2, <1>3, <1>4 DEF Kept, Ordered, OffUntilDue, OnWhileAsked, Young

\* Steps that leave the schedule and the controller where they are.
LEMMA KeptAside ==
  ASSUME Kept, disturbed \subseteq disturbed', disturbed' = {} => ~wasEnabled',
         UNCHANGED <<config, clockSet, now, subsampling, schedule, bus, pc, plan, sleep,
                     notified, enabled>>
  PROVE  Kept'
<1>1. (Clean' => Clean) /\ (disturbed' = {} => disturbed = {})
  BY DEF Clean
<1>2. (Gap' <=> Gap) /\ (Young' <=> Young)
  BY DEF Gap, Young
<1>3. Ordered'
  BY <1>1, <1>2 DEF Kept, Ordered
<1>4. OffUntilDue'
  BY <1>1, <1>2 DEF Kept, OffUntilDue, NotDue
<1>5. OnWhileAsked'
  BY <1>1 DEF Kept, OnWhileAsked, Covered
<1> QED
  BY <1>3, <1>4, <1>5 DEF Kept

\* Power control turned on or off, by an update or by a command.
LEMMA KeptEnable ==
  ASSUME TypeOK, Kept, NEW on \in BOOLEAN, PowerControlEnable(on),
         disturbed \subseteq disturbed', disturbed' # {},
         UNCHANGED <<config, clockSet, now, subsampling, bus, pc, plan, sleep>>
  PROVE  Kept'
<1>t. /\ now \in Nat /\ schedule.start \in Nat /\ schedule.substart \in Nat
      /\ CurrentTime = IF clockSet THEN now ELSE 0
  BY Times
<1>c. CurrentTime \in Nat
  BY <1>t
<1>1. Clean' => Clean
  BY DEF Clean
<1>2. (Gap' <=> Gap) /\ (Young' <=> Young)
  BY DEF Gap, Young
<1>3. OnWhileAsked'
  BY DEF OnWhileAsked
<1>4. CASE schedule' = schedule
  <2>1. notified'
    BY DEF PowerControlEnable
  <2>2. Ordered'
    BY <1>1, <1>2, <1>4, <2>1 DEF Kept, Ordered
  <2>3. OffUntilDue'
    BY <1>1, <1>2, <1>4, <2>1 DEF Kept, OffUntilDue, NotDue
  <2> QED
    BY <1>3, <2>2, <2>3 DEF Kept
<1>5. CASE schedule' # schedule
  <2> DEFINE next == AlignNextInterval(CurrentTime, schedule.start)
  <2>1. schedule.start < CurrentTime /\ schedule' = StartingAt(next) /\ notified'
    BY <1>5 DEF PowerControlEnable
  <2>2. next \in Nat /\ next >= CurrentTime
    BY <1>c, <1>t, AlignType, AlignBounds
  <2> HIDE DEF next
  <2>3. clockSet /\ CurrentTime = now
    BY <1>t, <2>1
  <2>4. schedule'.start = next /\ schedule'.substart = next /\ schedule'.set = schedule.set
    BY <2>1 DEF StartingAt, TypeOK
  <2>5. Ordered'
    BY <1>1, <1>2, <2>1, <2>2, <2>3, <2>4 DEF Kept, Ordered
  <2>6. now <= schedule'.start
    BY <2>2, <2>3, <2>4
  <2>7. OffUntilDue'
    BY <1>1, <1>2, <2>1, <2>6 DEF OffUntilDue, NotDue
  <2> QED
    BY <1>3, <2>5, <2>7 DEF Kept
<1> QED
  BY <1>4, <1>5

\* The steps of the serial link's task.
LEMMA KeptLink ==
  ASSUME TypeOK, Kept, Link
  PROVE  Kept'
<1>1. UNCHANGED <<config, clockSet, now, subsampling, bus, pc, plan, sleep>>
  BY DEF Link, StartBad, Start, GiveUp, Queue, Refused, UpdateEnds, Elsewhere, clock,
     settings
<1>2. disturbed \subseteq disturbed'
  BY DEF Link, StartBad, Start, GiveUp, Queue, Refused, UpdateEnds, Interferes
<1>3. disturbed = {} => ~wasEnabled
  BY DEF Kept, OnWhileAsked
<1>4. CASE Start
  <2>1. disturbed' # {}
    BY <1>4 DEF Start, Interferes
  <2>2. PowerControlEnable(FALSE) \/ NoPowerControl
    BY <1>4 DEF Start
  <2>3. CASE PowerControlEnable(FALSE)
    BY <1>1, <1>2, <2>1, <2>3, KeptEnable
  <2>4. CASE NoPowerControl
    BY <1>1, <1>2, <2>1, <2>4, KeptAside DEF NoPowerControl
  <2> QED
    BY <2>2, <2>3, <2>4
<1>5. CASE StartBad \/ GiveUp \/ Queue \/ Refused \/ UpdateEnds
  <2>1. wasEnabled' = wasEnabled /\ (Finish \/ NoPowerControl)
    BY <1>5 DEF StartBad, GiveUp, Queue, Refused, UpdateEnds
  <2>2. CASE wasEnabled /\ PowerControlEnable(TRUE)
    <3>1. disturbed' # {}
      BY <1>2, <1>3, <2>2
    <3> QED
      BY <1>1, <1>2, <2>2, <3>1, KeptEnable
  <2>3. CASE NoPowerControl
    <3>1. disturbed' = {} => ~wasEnabled'
      BY <1>2, <1>3, <2>1
    <3> QED
      BY <1>1, <1>2, <2>3, <3>1, KeptAside DEF NoPowerControl
  <2> QED
    BY <2>1, <2>2, <2>3 DEF Finish
<1> QED
  BY <1>4, <1>5 DEF Link

\* Time, the clock and the operator.
LEMMA KeptEnvironment ==
  ASSUME TypeOK, Kept, Environment
  PROVE  Kept'
<1>t. /\ now \in Nat /\ schedule.start \in Nat /\ schedule.substart \in Nat
      /\ sleep \in Nat
  BY Times
<1>1. CASE Tick
  <2>1. /\ now' = now + 1 /\ sleep' = sleep - 1 /\ sleep > 0
        /\ pc \in {"warming", "asleep"} /\ (pc = "asleep" => ~notified)
        /\ UNCHANGED <<config, clockSet, subsampling, schedule, bus, pc, plan, notified,
                       enabled, wasEnabled, disturbed>>
    BY <1>1 DEF Tick, Resting, settings, env
  <2>2. (Clean' <=> Clean) /\ (Gap' <=> Gap) /\ (Young' <=> Young)
    BY <2>1 DEF Clean, Gap, Young
  <2>3. Ordered'
    BY <1>t, <2>1, <2>2 DEF Kept, Ordered, Young
  <2>4. now' + sleep' = now + sleep /\ now' <= now + sleep
    BY <1>t, <2>1
  <2>5. OffUntilDue'
    <3> SUFFICES ASSUME Clean', schedule.set, ~bus
                 PROVE  NotDue(now)' /\ NotDue(now + sleep)'
      BY <2>1 DEF OffUntilDue
    <3>1. pc = "asleep"
      BY <2>1 DEF Kept, Ordered, Young
    <3>2. NotDue(now + sleep)
      BY <2>1, <2>2, <3>1 DEF Kept, OffUntilDue
    <3>3. NotDue(now + sleep)'
      BY <2>1, <2>2, <2>4, <3>2 DEF NotDue
    <3>4. config.duration \in Nat
      BY ConfigTypes
    <3>5. NotDue(now)'
      BY <1>t, <2>1, <2>2, <2>4, <3>2, <3>4 DEF NotDue
    <3> QED
      BY <3>3, <3>5
  <2>6. OnWhileAsked'
    BY <1>t, <2>1, <2>4 DEF Kept, OnWhileAsked, Covered
  <2> QED
    BY <2>3, <2>5, <2>6 DEF Kept
<1>2. CASE SetClock
  <2>1. /\ UNCHANGED <<config, subsampling, schedule, bus, pc, plan, notified, enabled,
                       sleep, wasEnabled>>
        /\ clockSet'
        /\ IF clockSet THEN "clock" \in disturbed' ELSE disturbed' = disturbed
    BY <1>2 DEF SetClock, Interferes, settings, controller, link
  <2>2. (Gap' <=> Gap) /\ (Young' <=> Young)
    BY <2>1 DEF Gap, Young
  <2>3. CASE clockSet
    <3>1. ~Clean' /\ disturbed' # {}
      BY <2>1, <2>3 DEF Clean
    <3> QED
      BY <2>1, <2>2, <2>3, <3>1 DEF Kept, Ordered, OffUntilDue, OnWhileAsked
  <2>4. CASE ~clockSet
    <3>1. ~schedule.set /\ schedule.start = 0 /\ Clean' = Clean
      BY <2>1, <2>4 DEF Kept, Ordered, Clean
    <3> QED
      BY <2>1, <2>2, <2>4, <3>1 DEF Kept, Ordered, OffUntilDue, OnWhileAsked
  <2> QED
    BY <2>3, <2>4
<1>3. ASSUME NEW on \in BOOLEAN, SetPower(on)
      PROVE  Kept'
  <2>1. /\ UNCHANGED <<config, clockSet, now, subsampling, bus, pc, plan, sleep>>
        /\ PowerControlEnable(on)
        /\ disturbed \subseteq disturbed' /\ disturbed' # {}
    BY <1>3 DEF SetPower, Interferes, clock, settings
  <2> QED
    BY <2>1, KeptEnable
<1>4. ASSUME NEW on \in BOOLEAN, SetSubsampling(on)
      PROVE  Kept'
  <2>1. /\ UNCHANGED <<config, clockSet, schedule, pc, plan>>
        /\ "subsampling" \in disturbed'
    BY <1>4 DEF SetSubsampling, Interferes, clock, controller
  <2>2. ~Clean' /\ disturbed' # {} /\ (Young' <=> Young)
    BY <2>1 DEF Clean, Young
  <2> QED
    BY <2>1, <2>2 DEF Kept, Ordered, OffUntilDue, OnWhileAsked
<1> QED
  BY <1>1, <1>2, <1>3, <1>4 DEF Environment

\* What a decision leaves, and what it decides.
LEMMA Decided ==
  ASSUME NEW power \in BOOLEAN, NEW seconds \in Int, Decide(power, seconds)
  PROVE  /\ pc' = "switching" /\ plan'.bus = power
         /\ plan'.sleep = Larger(seconds, 1)
         /\ UNCHANGED <<config, clockSet, now, subsampling, bus, sleep, enabled,
                        wasEnabled, disturbed>>
BY DEF Decide, clock, settings, link, env

\* A round begins with the controller awake, and everything known.
LEMMA RoundFacts ==
  ASSUME TypeOK, Kept, Round
  PROVE  /\ pc = "asleep" /\ enabled /\ schedule.set /\ clockSet /\ CurrentTime = now
         /\ ~notified' /\ (sleep = 0 \/ notified)
BY Times DEF Round, Awake, Kept, Ordered

\* What is left of a sample and of a subsample.
LEMMA Lefts ==
  ASSUME TypeOK, CurrentTime = now
  PROVE  /\ SampleLeft \in Nat /\ SubsampleLeft \in Nat
         /\ SampleLeft > 0 => now + SampleLeft = schedule.start + config.duration
         /\ SampleLeft = 0 => now >= schedule.start + config.duration
         /\ SubsampleLeft > 0 =>
              now + SubsampleLeft = schedule.substart + config.subDuration
         /\ SubsampleLeft = 0 => now >= schedule.substart + config.subDuration
BY Times, ConfigTypes DEF SampleLeft, SubsampleLeft, Remaining, Larger

\* A round that changes no start keeps the order.
LEMMA OrderedRound ==
  ASSUME TypeOK, Kept, Round, pc' = "switching", UNCHANGED schedule,
         UNCHANGED <<config, clockSet, now, subsampling, disturbed>>
  PROVE  Ordered'
<1>1. schedule.set
  BY RoundFacts
<1>2. (Gap' <=> Gap) /\ (Clean' <=> Clean) /\ ~Young'
  BY DEF Gap, Clean, Young
<1> QED
  BY <1>1, <1>2 DEF Kept, Ordered

\* The rounds that end with the bus as it is: the controller was woken early.
LEMMA KeptWokenEarly ==
  ASSUME TypeOK, Kept, WokenEarly
  PROVE  Kept'
<1>r. /\ Round /\ now < schedule.start /\ schedule' = schedule
      /\ Decide(bus, schedule.start - now)
      /\ pc = "asleep" /\ enabled /\ schedule.set /\ ~notified'
  BY RoundFacts DEF WokenEarly
<1>t. now \in Nat /\ schedule.start \in Nat /\ bus \in BOOLEAN
  BY Times
<1>d. /\ pc' = "switching" /\ plan'.bus = bus
      /\ plan'.sleep = Larger(schedule.start - now, 1)
      /\ UNCHANGED <<config, clockSet, now, subsampling, bus, sleep, enabled, wasEnabled,
                     disturbed>>
  <2>1. schedule.start - now \in Int
    BY <1>t
  <2> QED
    BY <1>r, <1>t, <2>1, Decided
<1>p. now + plan'.sleep = schedule.start
  BY <1>r, <1>t, <1>d DEF Larger
<1>1. Ordered'
  BY <1>r, <1>d, OrderedRound
<1>2. OffUntilDue'
  BY <1>r, <1>t, <1>d, <1>p DEF OffUntilDue, NotDue
<1>3. OnWhileAsked'
  <2> SUFFICES ASSUME disturbed = {}
               PROVE  ~notified' /\ ~wasEnabled' /\ ~bus
    BY <1>r, <1>d DEF OnWhileAsked
  <2>1. bus => schedule.start <= now
    BY <1>r DEF Kept, OnWhileAsked, Covered
  <2> QED
    BY <1>r, <1>t, <1>d, <2>1 DEF Kept, OnWhileAsked
<1> QED
  BY <1>1, <1>2, <1>3 DEF Kept

\* The rounds that turn the bus on.
LEMMA KeptSample ==
  ASSUME TypeOK, Kept, Sample \/ Subsample
  PROVE  Kept'
<1>r. /\ Round /\ now >= schedule.start /\ schedule' = schedule
      /\ pc = "asleep" /\ enabled /\ schedule.set /\ ~notified' /\ CurrentTime = now
  BY RoundFacts DEF Sample, Subsample, InSample
<1>t. /\ now \in Nat /\ schedule.start \in Nat /\ schedule.substart \in Nat
      /\ subsampling \in BOOLEAN /\ config.duration \in Nat /\ config.subDuration \in Nat
  BY Times, ConfigTypes
<1>l. /\ SampleLeft \in Nat /\ SubsampleLeft \in Nat
      /\ SampleLeft > 0 => now + SampleLeft = schedule.start + config.duration
      /\ SubsampleLeft > 0 => now + SubsampleLeft = schedule.substart + config.subDuration
  BY <1>r, Lefts
<1>g. SampleLeft > 0 /\ (subsampling => schedule.substart <= now /\ SubsampleLeft > 0)
  BY <1>r DEF Sample, Subsample, InSample
<1>s. PICK left \in Nat \ {0} :
        left = IF subsampling THEN SubsampleLeft ELSE SampleLeft
  BY <1>g, <1>l
<1>e. Decide(TRUE, left)
  BY <1>s DEF Sample, Subsample, InSample
<1>f. plan' = [bus |-> TRUE, sleep |-> Larger(left, 1)]
  BY <1>e DEF Decide
<1>b. plan'.bus
  BY <1>f
<1>d. /\ pc' = "switching"
      /\ UNCHANGED <<config, clockSet, now, subsampling, bus, sleep, enabled, wasEnabled,
                     disturbed>>
  <2>1. CASE Sample
    <3>1. \E seconds : Decide(TRUE, seconds)
      BY <2>1 DEF Sample
    <3> QED
      BY <3>1 DEF Decide, clock, settings, link, env
  <2>2. CASE Subsample
    <3>1. \E seconds : Decide(TRUE, seconds)
      BY <2>2 DEF Subsample
    <3> QED
      BY <3>1 DEF Decide, clock, settings, link, env
  <2> QED
    BY <2>1, <2>2
<1>p. plan'.sleep = left
  <2>1. left \in Nat /\ Larger(left, 1) = left
    BY DEF Larger
  <2> QED
    BY <1>f, <2>1
<1>c. Covered(now + plan.sleep)'
  BY <1>r, <1>t, <1>l, <1>g, <1>s, <1>d, <1>p DEF Covered
<1>1. Ordered'
  BY <1>r, <1>d, OrderedRound
<1>2. OffUntilDue'
  BY <1>r, <1>b, <1>d DEF Kept, OffUntilDue, NotDue, Clean, Gap
<1>3. OnWhileAsked'
  BY <1>r, <1>b, <1>d, <1>c DEF Kept, OnWhileAsked
<1> QED
  BY <1>1, <1>2, <1>3 DEF Kept

\* Woken early between two subsamples: if the bus is off, they have a gap.
LEMMA KeptSubsampleWokenEarly ==
  ASSUME TypeOK, Kept, SubsampleWokenEarly
  PROVE  Kept'
<1>r. /\ Round /\ now >= schedule.start /\ schedule' = schedule
      /\ pc = "asleep" /\ enabled /\ schedule.set /\ ~notified' /\ CurrentTime = now
      /\ SampleLeft > 0 /\ subsampling /\ now < schedule.substart
      /\ Decide(bus, Smaller(SampleLeft, schedule.substart - now))
  BY RoundFacts DEF SubsampleWokenEarly, InSample
<1>t. /\ now \in Nat /\ schedule.start \in Nat /\ schedule.substart \in Nat
      /\ bus \in BOOLEAN /\ config.duration \in Nat
  BY Times, ConfigTypes
<1>l. SampleLeft \in Nat /\ now + SampleLeft = schedule.start + config.duration
  BY <1>r, Lefts
<1> DEFINE left == Smaller(SampleLeft, schedule.substart - now)
<1>2. left \in Nat \ {0} /\ left <= SampleLeft /\ left <= schedule.substart - now
  BY <1>r, <1>t, <1>l DEF Smaller
<1>d. /\ pc' = "switching" /\ plan'.bus = bus
      /\ plan'.sleep = Larger(left, 1)
      /\ UNCHANGED <<config, clockSet, now, subsampling, bus, sleep, enabled, wasEnabled,
                     disturbed>>
  <2>1. left \in Int /\ Decide(bus, left)
    BY <1>r, <1>2
  <2> HIDE DEF left
  <2> QED
    BY <1>t, <2>1, Decided
<1> HIDE DEF left
<1>p. plan'.sleep = left
  BY <1>2, <1>d DEF Larger
<1>3. Ordered'
  BY <1>r, <1>d, OrderedRound
<1>4. OffUntilDue'
  <2> SUFFICES ASSUME Clean, ~bus
               PROVE  NotDue(now)' /\ NotDue(now + plan.sleep)'
    BY <1>r, <1>d DEF OffUntilDue, Clean
  <2>1. schedule.start < now
    BY <1>r, <1>t DEF Kept, Ordered
  <2>2. NotDue(now)
    BY <1>r DEF Kept, OffUntilDue
  <2>3. Gap
    BY <1>t, <2>1, <2>2 DEF NotDue
  <2>4. now + left <= schedule.substart /\ now + left <= schedule.start + config.duration
    BY <1>t, <1>l, <1>2
  <2>5. NotDue(now + plan.sleep)'
    BY <1>r, <1>d, <1>p, <2>3, <2>4 DEF NotDue, Gap
  <2>6. NotDue(now)'
    BY <1>r, <1>d, <2>2 DEF NotDue, Gap
  <2> QED
    BY <2>5, <2>6
<1>5. OnWhileAsked'
  <2> SUFFICES ASSUME disturbed = {}
               PROVE  ~notified' /\ ~wasEnabled' /\ ~bus
    BY <1>r, <1>d DEF OnWhileAsked
  <2>1. bus => schedule.substart <= now
    BY <1>r DEF Kept, OnWhileAsked, Covered
  <2> QED
    BY <1>r, <1>t, <1>d, <2>1 DEF Kept, OnWhileAsked
<1> QED
  BY <1>3, <1>4, <1>5 DEF Kept

\* The end of a subsample.  The bus goes off if the next is still to come; if it
\* is due, the bus stays on, and the next is not over yet.
LEMMA KeptSubsampleOff ==
  ASSUME TypeOK, Kept, SubsampleOff
  PROVE  Kept'
<1>r. /\ Round /\ pc = "asleep" /\ enabled /\ schedule.set /\ clockSet
      /\ ~notified' /\ (sleep = 0 \/ notified) /\ CurrentTime = now
      /\ SampleLeft > 0 /\ SubsampleLeft = 0 /\ subsampling
      /\ now >= schedule.start /\ now >= schedule.substart
  BY RoundFacts DEF SubsampleOff, InSample
<1>t. /\ now \in Nat /\ schedule.start \in Nat /\ schedule.substart \in Nat
      /\ bus \in BOOLEAN /\ config.duration \in Nat /\ sleep \in Nat
      /\ config.subDuration \in Nat \ {0} /\ config.subInterval \in Nat \ {0}
  BY Times, ConfigPositive
<1>l. /\ SampleLeft \in Nat /\ now + SampleLeft = schedule.start + config.duration
      /\ now >= schedule.substart + config.subDuration
  BY <1>r, Lefts
<1>s. PICK next \in Nat : next = schedule.substart + config.subInterval
  BY <1>t
<1>q. PICK left \in Int : left = Smaller(SampleLeft, Larger(0, next - now))
  BY <1>l, <1>s, <1>t DEF Smaller, Larger
<1>e. /\ schedule' = [schedule EXCEPT !.substart = next]
      /\ Decide(bus /\ next <= now, left)
  BY <1>r, <1>s, <1>q DEF SubsampleOff
<1>f. /\ schedule'.start = schedule.start /\ schedule'.substart = next
      /\ schedule'.set = schedule.set
  BY <1>e DEF TypeOK
<1>d. /\ pc' = "switching" /\ plan'.bus = (bus /\ next <= now)
      /\ plan'.sleep = Larger(left, 1)
      /\ UNCHANGED <<config, clockSet, now, subsampling, bus, sleep, enabled, wasEnabled,
                     disturbed>>
  BY <1>e DEF Decide, clock, settings, link, env
<1>1. (Gap' <=> Gap) /\ (Clean' <=> Clean) /\ ~Young'
  BY <1>d DEF Gap, Clean, Young
<1>2. schedule.start < now /\ schedule.substart < now
  BY <1>r, <1>t, <1>l DEF Kept, Ordered
<1>3. Ordered'
  BY <1>r, <1>t, <1>s, <1>f, <1>d, <1>1, <1>2 DEF Kept, Ordered
<1>4. OffUntilDue'
  <2> SUFFICES ASSUME Clean
               PROVE  bus /\ (now < next => NotDue(now)' /\ NotDue(now + plan.sleep)')
    <3>1. plan'.bus <=> (bus /\ next <= now)
      BY <1>d, Zenon
    <3>2. next <= now <=> ~(now < next)
      BY <1>t, <1>s
    <3> QED
      BY <1>d, <1>1, <3>1, <3>2 DEF OffUntilDue
  <2>1. bus
    BY <1>r, <1>t, <1>2 DEF Kept, OffUntilDue, NotDue
  <2>2. ASSUME now < next
        PROVE  NotDue(now)' /\ NotDue(now + plan.sleep)'
    <3>1. Gap
      BY <1>r, <1>t, <1>l, <1>s, <2>2 DEF Gap
    <3>2. left \in Nat \ {0} /\ left <= SampleLeft /\ left <= next - now
      BY <1>r, <1>t, <1>l, <1>s, <1>q, <2>2 DEF Smaller, Larger
    <3>3. plan'.sleep = left
      BY <1>d, <3>2 DEF Larger
    <3>4. now + left <= next /\ now + left <= schedule.start + config.duration
      BY <1>t, <1>l, <3>2
    <3>5. NotDue(now + plan.sleep)'
      BY <1>d, <1>f, <1>1, <3>1, <3>3, <3>4 DEF NotDue
    <3>6. now <= next /\ now <= schedule.start + config.duration
      BY <1>t, <1>l, <2>2
    <3>7. NotDue(now)'
      BY <1>d, <1>f, <1>1, <3>1, <3>6 DEF NotDue
    <3> QED
      BY <3>5, <3>7
  <2> QED
    BY <2>1, <2>2
<1>5. OnWhileAsked'
  <2> SUFFICES ASSUME disturbed = {}
               PROVE  /\ ~notified' /\ ~wasEnabled'
                      /\ bus /\ next <= now => Covered(now + plan.sleep)'
    BY <1>r, <1>f, <1>d DEF OnWhileAsked
  <2>1. ~notified /\ ~wasEnabled /\ sleep = 0
    BY <1>r DEF Kept, OnWhileAsked
  <2>2. ASSUME bus, next <= now
        PROVE  Covered(now + plan.sleep)'
    <3>1. Covered(now + sleep)
      BY <1>r, <2>2 DEF Kept, OnWhileAsked
    <3>2. now <= schedule.substart + config.subDuration
      BY <1>r, <1>t, <2>1, <3>1 DEF Covered
    <3>3. now + 1 <= next + config.subDuration
      BY <1>t, <1>s, <3>2
    <3>4. left = 0
      BY <1>t, <1>l, <1>s, <1>q, <2>2 DEF Smaller, Larger
    <3>5. plan'.sleep = 1
      BY <1>d, <3>4 DEF Larger
    <3>6. next < schedule.start + config.duration
      BY <1>r, <1>t, <1>l, <1>s, <2>2
    <3> QED
      BY <1>r, <1>d, <1>f, <2>2, <3>3, <3>5, <3>6 DEF Covered
  <2> QED
    BY <1>r, <1>d, <2>1, <2>2
<1> QED
  BY <1>3, <1>4, <1>5 DEF Kept

\* The end of a sample, whose successor is an interval away at least.
LEMMA KeptSampleOff ==
  ASSUME TypeOK, Kept, SampleOff
  PROVE  Kept'
<1>r. /\ Round /\ pc = "asleep" /\ enabled /\ schedule.set /\ clockSet
      /\ ~notified' /\ (sleep = 0 \/ notified) /\ CurrentTime = now
      /\ SampleLeft = 0 /\ now >= schedule.start
  BY RoundFacts DEF SampleOff
<1>t. /\ now \in Nat /\ schedule.start \in Nat /\ schedule.substart \in Nat
      /\ bus \in BOOLEAN /\ sleep \in Nat /\ subsampling \in BOOLEAN
      /\ config.duration \in Nat \ {0} /\ config.subDuration \in Nat \ {0}
      /\ config.interval \in Nat \ {0}
  BY Times, ConfigPositive
<1>l. now >= schedule.start + config.duration
  BY <1>r, Lefts
<1>s. PICK next \in Nat : next = AlignNextInterval(now, schedule.start)
  BY <1>t, AlignType
<1>n. /\ next >= now
      /\ schedule.start = 0 => next > now
      /\ schedule.start # 0 => next >= schedule.start + config.interval
  BY <1>t, <1>s, AlignBounds
<1>e. schedule' = StartingAt(next) /\ Decide(bus /\ next <= now, next - now)
  BY <1>r, <1>s DEF SampleOff
<1>f. /\ schedule'.start = next /\ schedule'.substart = next
      /\ schedule'.set = schedule.set
  BY <1>e DEF TypeOK, StartingAt
<1>d. /\ pc' = "switching" /\ plan'.bus = (bus /\ next <= now)
      /\ plan'.sleep = Larger(next - now, 1)
      /\ UNCHANGED <<config, clockSet, now, subsampling, bus, sleep, enabled, wasEnabled,
                     disturbed>>
  BY <1>e DEF Decide, clock, settings, link, env
<1>1. (Gap' <=> Gap) /\ (Clean' <=> Clean) /\ ~Young'
  BY <1>d DEF Gap, Clean, Young
<1>3. Ordered'
  BY <1>r, <1>t, <1>f, <1>d, <1>1 DEF Kept, Ordered
<1>4. OffUntilDue'
  <2> SUFFICES ASSUME Clean, ~(bus /\ next <= now)
               PROVE  NotDue(now + plan.sleep)'
    <3>1. NotDue(now)'
      BY <1>n, <1>f, <1>d DEF NotDue
    <3> QED
      BY <1>t, <1>s, <1>d, <1>1, <3>1 DEF OffUntilDue
  <2>1. next > now
    <3> SUFFICES ASSUME ~bus, next = now
                 PROVE  FALSE
      BY <1>t, <1>n
    <3>1. NotDue(now)
      BY <1>r DEF Kept, OffUntilDue
    <3>2. Gap /\ now <= schedule.start + config.duration
      BY <1>t, <1>l, <3>1 DEF NotDue
    <3>3. config.duration < config.interval
      BY <3>2 DEF Kept, Ordered
    <3> QED
      BY <1>t, <1>n, <3>2, <3>3
  <2>2. now + plan'.sleep = next
    BY <1>t, <1>s, <1>d, <2>1 DEF Larger
  <2> QED
    BY <1>f, <1>d, <2>2 DEF NotDue
<1>5. OnWhileAsked'
  <2> SUFFICES ASSUME disturbed = {}
               PROVE  /\ ~notified' /\ ~wasEnabled'
                      /\ bus /\ next <= now => Covered(now + plan.sleep)'
    BY <1>r, <1>f, <1>d DEF OnWhileAsked
  <2>1. ASSUME next <= now
        PROVE  Covered(now + plan.sleep)'
    <3>1. next = now
      BY <1>t, <1>n, <2>1
    <3>2. plan'.sleep = 1
      BY <1>t, <1>d, <3>1 DEF Larger
    <3> QED
      BY <1>t, <1>d, <1>f, <3>1, <3>2 DEF Covered
  <2> QED
    BY <1>r, <1>d, <2>1 DEF Kept, OnWhileAsked
<1> QED
  BY <1>3, <1>4, <1>5 DEF Kept

\* The end of the two minutes with the bus on: the first sample is still to come,
\* or begins now.
LEMMA KeptWarmed ==
  ASSUME TypeOK, Kept, OnUnlessNotified, Warmed
  PROVE  Kept'
<1>r. /\ pc = "warming" /\ ~schedule.set /\ bus /\ notified' = notified
      /\ (~clockSet => schedule.start = 0) /\ schedule.start <= schedule.substart
  BY DEF Warmed, Kept, Ordered, Young, OnUnlessNotified
<1>t. /\ now \in Nat /\ schedule.start \in Nat /\ schedule.substart \in Nat
      /\ bus \in BOOLEAN /\ enabled \in BOOLEAN /\ subsampling \in BOOLEAN
      /\ config.duration \in Nat \ {0} /\ config.subDuration \in Nat \ {0}
      /\ CurrentTime = IF clockSet THEN now ELSE 0
  BY Times, ConfigPositive
<1>d. /\ pc' = "switching"
      /\ UNCHANGED <<config, clockSet, now, subsampling, bus, sleep, enabled, wasEnabled,
                     disturbed>>
  BY DEF Warmed, Decide, clock, settings, link, env
<1>1. (Gap' <=> Gap) /\ (Clean' <=> Clean) /\ ~Young'
  BY <1>d DEF Gap, Clean, Young
<1>2. CASE ~clockSet
  <2>1. Timebased = schedule /\ schedule.start = 0
    BY <1>r, <1>2 DEF Timebased
  <2>2. schedule' = schedule
    BY <2>1 DEF Warmed
  <2>3. Ordered'
    BY <1>r, <1>d, <1>1, <1>2, <2>1, <2>2 DEF Kept, Ordered
  <2>4. OffUntilDue'
    BY <1>r, <2>2 DEF OffUntilDue
  <2>5. OnWhileAsked'
    BY <1>r, <1>d, <2>1, <2>2 DEF Kept, OnWhileAsked
  <2> QED
    BY <2>3, <2>4, <2>5 DEF Kept
<1>3. CASE clockSet
  <2>1. PICK next \in Nat : next = AlignNextInterval(now, schedule.start)
    BY <1>t, AlignType
  <2>2. next >= now /\ CurrentTime = now
    BY <1>t, <1>3, <2>1, AlignBounds
  <2>3. Timebased = [StartingAt(next) EXCEPT !.set = TRUE]
    BY <1>r, <1>3, <2>1, <2>2 DEF Timebased
  <2>4. schedule' = Timebased
    BY DEF Warmed
  <2>5. schedule'.start = next /\ schedule'.substart = next /\ schedule'.set
    BY <2>3, <2>4 DEF TypeOK, StartingAt
  <2>6. Ordered'
    BY <1>d, <1>1, <1>3, <1>t, <2>5 DEF Kept, Ordered
  <2>7. CASE next > now
    <3>1. Decide(~enabled, next - now)
      BY <2>2, <2>4, <2>5, <2>7 DEF Warmed
    <3>2. plan'.sleep = Larger(next - now, 1) /\ plan'.bus = ~enabled
      BY <3>1 DEF Decide
    <3>3. now + plan'.sleep = next
      BY <1>t, <2>1, <2>7, <3>2 DEF Larger
    <3>4. OffUntilDue'
      BY <1>d, <1>1, <2>2, <2>5, <3>3 DEF OffUntilDue, NotDue
    <3>5. OnWhileAsked'
      BY <1>r, <1>d, <2>5, <3>2 DEF Kept, OnWhileAsked
    <3> QED
      BY <2>6, <3>4, <3>5 DEF Kept
  <2>8. CASE ~(next > now)
    <3>1. Decide(bus, 1) /\ next = now
      BY <1>t, <2>1, <2>2, <2>4, <2>5, <2>8 DEF Warmed
    <3>2. plan'.sleep = 1 /\ plan'.bus = bus
      BY <3>1 DEF Decide, Larger
    <3>3. OffUntilDue'
      BY <1>r, <1>d, <3>2 DEF OffUntilDue
    <3>4. Covered(now + plan.sleep)'
      BY <1>t, <1>d, <2>1, <2>5, <3>1, <3>2 DEF Covered
    <3>5. OnWhileAsked'
      BY <1>r, <1>d, <2>5, <3>4 DEF Kept, OnWhileAsked
    <3> QED
      BY <2>6, <3>3, <3>5 DEF Kept
  <2> QED
    BY <2>7, <2>8
<1> QED
  BY <1>2, <1>3

\* The steps of the controller that end in its sleep, or begin in its start.
LEMMA KeptSwitch ==
  ASSUME TypeOK, Kept, PowerUp \/ Switch \/ RoundWithout
  PROVE  Kept'
<1>1. CASE PowerUp
  <2>1. /\ pc = "start" /\ pc' = "warming"
        /\ UNCHANGED <<config, clockSet, now, subsampling, schedule, notified, enabled,
                       wasEnabled, disturbed>>
    BY <1>1 DEF PowerUp, clock, settings, env
  <2>2. (Gap' <=> Gap) /\ (Clean' <=> Clean) /\ Young /\ Young'
    BY <2>1 DEF Gap, Clean, Young
  <2>3. ~schedule.set
    BY <2>2 DEF Kept, Ordered
  <2> QED
    BY <2>1, <2>2, <2>3 DEF Kept, Ordered, OffUntilDue, OnWhileAsked
<1>2. CASE Switch
  <2>1. /\ pc = "switching" /\ pc' = "asleep" /\ bus' = plan.bus /\ sleep' = plan.sleep
        /\ UNCHANGED <<config, clockSet, now, subsampling, schedule, notified, enabled,
                       wasEnabled, disturbed>>
    BY <1>2 DEF Switch, SwitchBus, clock, settings, env
  <2>2. (Gap' <=> Gap) /\ (Clean' <=> Clean) /\ ~Young /\ ~Young'
    BY <2>1 DEF Gap, Clean, Young
  <2>3. Ordered'
    BY <2>1, <2>2 DEF Kept, Ordered
  <2>4. OffUntilDue'
    BY <2>1, <2>2 DEF Kept, OffUntilDue, NotDue
  <2>5. OnWhileAsked'
    BY <2>1 DEF Kept, OnWhileAsked, Covered
  <2> QED
    BY <2>3, <2>4, <2>5 DEF Kept
<1>3. CASE RoundWithout
  <2>1. /\ pc = "asleep" /\ ~notified'
        /\ IF enabled THEN pc' = "noTimebase" /\ ~schedule.set /\ ~plan'.bus
                      ELSE pc' = "disabled" /\ plan'.bus
        /\ UNCHANGED <<config, clockSet, now, subsampling, schedule, bus, sleep, enabled,
                       wasEnabled, disturbed>>
    BY <1>3 DEF RoundWithout, Awake, clock, settings, link, env
  <2>2. (Gap' <=> Gap) /\ (Clean' <=> Clean) /\ ~Young /\ ~Young'
    BY <2>1 DEF Gap, Clean, Young
  <2>3. Ordered'
    BY <2>1, <2>2 DEF Kept, Ordered
  <2>4. OffUntilDue'
    BY <2>1, <2>2 DEF Kept, OffUntilDue, NotDue
  <2>5. OnWhileAsked'
    BY <2>1 DEF Kept, OnWhileAsked, Covered
  <2> QED
    BY <2>3, <2>4, <2>5 DEF Kept
<1> QED
  BY <1>1, <1>2, <1>3

\* The switch of a round without power control, or without a timebase; there may be
\* one now, and the first sample is after it.
LEMMA KeptSwitchWithout ==
  ASSUME TypeOK, Kept, SwitchWithout
  PROVE  Kept'
<1>r. /\ pc \in {"noTimebase", "disabled"} /\ pc' = "asleep" /\ bus' = plan.bus
      /\ schedule' = Timebased
      /\ sleep' = IF pc = "noTimebase" /\ Timebased.set /\ Timebased.start > CurrentTime
                  THEN Timebased.start - CurrentTime ELSE plan.sleep
      /\ UNCHANGED <<config, clockSet, now, subsampling, notified, enabled, wasEnabled,
                     disturbed>>
  BY DEF SwitchWithout, SwitchBus, clock, settings, env
<1>t. /\ now \in Nat /\ schedule.start \in Nat /\ schedule.substart \in Nat
      /\ plan.bus \in BOOLEAN /\ schedule.set \in BOOLEAN
      /\ config.interval \in Nat \ {0}
      /\ CurrentTime = IF clockSet THEN now ELSE 0
  BY Times, ConfigPositive
<1>1. (Gap' <=> Gap) /\ (Clean' <=> Clean) /\ ~Young /\ ~Young'
  BY <1>r DEF Gap, Clean, Young
<1>p. (pc = "noTimebase" => ~schedule.set /\ ~plan.bus) /\ (pc = "disabled" => plan.bus)
  BY DEF Kept, Ordered
<1>o. OnWhileAsked'
  <2> SUFFICES ASSUME disturbed = {}, ~schedule'.set
               PROVE  schedule'.start = 0
    <3>1. disturbed = {} => ~notified /\ ~wasEnabled /\ (pc = "disabled" => ~enabled)
      BY DEF Kept, OnWhileAsked
    <3> QED
      BY <1>r, <1>p, <3>1 DEF OnWhileAsked
  <2>1. schedule' = schedule
    BY <1>r DEF Timebased, StartingAt, TypeOK
  <2> QED
    BY <2>1 DEF Kept, OnWhileAsked
<1>2. CASE schedule.set \/ ~clockSet
  <2>1. schedule' = schedule
    BY <1>r, <1>2 DEF Timebased
  <2>2. Ordered'
    BY <1>r, <1>1, <1>2, <2>1 DEF Kept, Ordered
  <2>3. schedule.set => bus'
    BY <1>r, <1>p
  <2>4. OffUntilDue'
    BY <1>r, <2>1, <2>3 DEF OffUntilDue
  <2> QED
    BY <1>o, <2>2, <2>4 DEF Kept
<1>3. CASE ~schedule.set /\ clockSet
  <2>1. PICK next \in Nat : next = AlignNextInterval(now, schedule.start)
    BY <1>t, AlignType
  <2>2. CurrentTime = now
    BY <1>t, <1>3
  <2>3. Clean => next > now
    <3>1. Clean => schedule.start = 0 \/ schedule.start >= now
      BY <1>3, <1>1 DEF Kept, Ordered
    <3> QED
      BY <1>t, <2>1, <3>1, AlignBounds
  <2>4. Timebased = [StartingAt(next) EXCEPT !.set = TRUE]
    BY <1>3, <2>1, <2>2 DEF Timebased
  <2>5. /\ Timebased.start = next /\ Timebased.substart = next /\ Timebased.set
    BY <2>4 DEF TypeOK, StartingAt
  <2>6. Ordered'
    BY <1>r, <1>t, <1>1, <1>3, <2>1, <2>5 DEF Kept, Ordered
  <2>7. OffUntilDue'
    <3> SUFFICES ASSUME Clean, ~plan.bus
                 PROVE  NotDue(now)' /\ NotDue(now + sleep)'
      BY <1>r, <1>1 DEF OffUntilDue
    <3>1. pc = "noTimebase" /\ next > now
      BY <1>r, <1>p, <2>3
    <3>2. now + sleep' = next
      BY <1>r, <1>t, <2>1, <2>2, <2>5, <3>1
    <3>3. now <= next
      BY <1>t, <2>1, <3>1
    <3>4. now <= schedule'.start /\ now + sleep' <= schedule'.start
      BY <1>r, <1>t, <2>1, <2>5, <3>2, <3>3
    <3> QED
      BY <1>r, <3>4 DEF NotDue
  <2> QED
    BY <1>o, <2>6, <2>7 DEF Kept
<1> QED
  BY <1>2, <1>3, <1>t

\* They are kept by every step.
LEMMA KeptNext == TypeOK /\ OnUnlessNotified /\ Kept /\ [Next]_vars => Kept'
<1> SUFFICES ASSUME TypeOK, OnUnlessNotified, Kept, [Next]_vars PROVE Kept'
  OBVIOUS
<1>1. CASE Controller
  BY <1>1, KeptWarmed, KeptWokenEarly, KeptSample, KeptSubsampleWokenEarly,
     KeptSubsampleOff, KeptSampleOff, KeptSwitch, KeptSwitchWithout DEF Controller
<1>2. CASE Link
  BY <1>2, KeptLink
<1>w. disturbed = {} => ~wasEnabled
  BY DEF Kept, OnWhileAsked
<1>3. CASE Sampler
  <2>1. UNCHANGED <<config, clockSet, now, subsampling, schedule, bus, pc, plan, sleep,
                    notified, enabled, wasEnabled, disturbed>>
    BY <1>3, SamplerLeaves DEF Others, clock, settings, controller, link, env
  <2> QED
    BY <1>w, <2>1, KeptAside
<1>4. CASE Environment
  BY <1>4, KeptEnvironment
<1>5. CASE UNCHANGED vars
  <2>1. UNCHANGED <<config, clockSet, now, subsampling, schedule, bus, pc, plan, sleep,
                    notified, enabled, wasEnabled, disturbed>>
    BY <1>5 DEF vars, clock, settings, controller, link, env
  <2> QED
    BY <1>w, <2>1, KeptAside
<1> QED
  BY <1>1, <1>2, <1>3, <1>4, <1>5 DEF Next

\* While the controller sleeps the bus follows its schedule: on in every sample or
\* subsample, whatever else an update has done to it; and, if nothing at all has
\* interfered, off outside them (bridgePowerController.cpp, _update).
THEOREM ScheduleIsKept == ASSUME SamplesApart PROVE Spec => []BusFollowsSchedule
<1>1. Init => OnUnlessNotified
  BY DEF Init, OnUnlessNotified
<1>2. Init => Kept
  BY KeptInit
<1>3. TypeOK /\ Kept => BusFollowsSchedule
  <2> SUFFICES ASSUME TypeOK, Kept, Resting, pc = "asleep", enabled, schedule.set
               PROVE  /\ Scheduled => bus \/ ~Clean
                      /\ bus => Scheduled \/ disturbed # {}
    BY DEF BusFollowsSchedule, Clean
  <2>t. /\ now \in Nat /\ schedule.start \in Nat /\ schedule.substart \in Nat
        /\ sleep \in Nat /\ config.duration \in Nat /\ config.subDuration \in Nat
        /\ CurrentTime = IF clockSet THEN now ELSE 0
    BY Times, ConfigTypes
  <2>1. sleep > 0 /\ ~notified /\ clockSet /\ schedule.start <= schedule.substart
    BY DEF Resting, Kept, Ordered
  <2>2. CurrentTime = now
    BY <2>t, <2>1
  <2>3. ASSUME Scheduled, ~bus, Clean
        PROVE  FALSE
    <3>1. NotDue(now + sleep)
      BY <2>1, <2>3 DEF Kept, OffUntilDue
    <3>2. now < schedule.start \/ (subsampling /\ now < schedule.substart)
      BY <2>t, <2>1, <3>1 DEF NotDue, Gap
    <3>3. /\ subsampling => now >= schedule.substart
          /\ ~subsampling => now >= schedule.start
      BY <2>2, <2>3 DEF Scheduled, InWindow
    <3> QED
      BY <2>t, <2>1, <3>2, <3>3
  <2>4. ASSUME bus, disturbed = {}
        PROVE  Scheduled
    <3>1. Covered(now + sleep)
      BY <2>4 DEF Kept, OnWhileAsked
    <3> QED
      BY <2>t, <2>1, <2>2, <3>1 DEF Covered, Scheduled, InWindow
  <2> QED
    BY <2>3, <2>4
<1> QED
  BY <1>1, <1>2, <1>3, InitTypes, NextTypes, OnNext, KeptNext, PTL DEF Spec
=============================================================================
