---------------------------- MODULE SystemProofs ----------------------------
(***************************************************************************)
(* Theorems about System, for every set of devices and applications.       *)
(***************************************************************************)
EXTENDS System, TLAPS

StartSteps == {"watchdog", "clock_on", "clock_select", "clock_wait", "clock_off",
               "devices", "ea", "loop"}
PmSteps == {"pm_on", "pm_select", "pm_wait", "pm_off", "pm_flags", "pm_enable", "pm_edge",
            "pm_ea", "pm_mode", "pm_test", "pm_enter", "asleep"}
BootSteps == {"boot_ea", "boot_flags", "boot_ien", "boot_f1"}

(* Whose steps they are. *)
Programs ==
    /\ prog = "pinkos" => pc \in StartSteps \cup BootSteps \cup {"radio", "f1", "spin"}
    /\ prog = "app" => pc \in StartSteps \cup PmSteps
    /\ pc \in PmSteps => Speccan
    /\ pc = "ea" => ~Speccan

(* PinkOS enables what it has stubs for, and never all interrupts before F1;
   an application enables what it has vectors for, and leaves F1 at 0. *)
Dispatch ==
    /\ prog = "pinkos" => /\ ien \subseteq Stubs
                          /\ EA => F1
                          /\ pc = "ea" => F1
    /\ prog = "app" => ~F1 /\ ien \subseteq AppVectors
    /\ pc = "boot_f1" => ien = {}

(* On the way to sleep the button is the only source. *)
Button ==
    /\ pc \in {"pm_edge", "pm_ea", "pm_mode", "pm_test", "pm_enter", "asleep"}
           => ien = {"P1INT"}
    /\ pc \in {"pm_mode", "pm_test", "pm_enter", "asleep"} => EA

(* What runs was turned on, and both oscillators while one takes over from
   the other; the crystal is in use from the end of clock_init on, the RC
   oscillator while the analyser sleeps; the analyser's radio is idle once
   it is in its main loop. *)
ClockInv ==
    /\ stable \subseteq powered
    /\ pc # "asleep" => clock \in stable
    /\ pc \in {"clock_select", "clock_wait", "pm_select", "pm_wait"}
           => powered = Oscillators
    /\ pc = "clock_wait" => selected = "XOSC"
    /\ pc = "pm_wait" => selected = "HFRC"
    /\ pc \notin {"clock_wait", "pm_wait"} => selected = clock
    /\ radio = "rx" => clock = "XOSC" /\ selected = "XOSC"
    /\ pc \in {"clock_off", "devices", "radio"} => clock = "XOSC"
    /\ pc \in {"pm_off", "pm_flags", "pm_enable", "pm_edge", "pm_ea", "pm_mode", "pm_test",
               "pm_enter", "asleep"}
           => clock = "HFRC"
    /\ Speccan /\ pc \in PmSteps \cup {"loop"} => radio = "idle"

SystemInv == TypeOK /\ Programs /\ Dispatch /\ NoWildJump /\ Button /\ ClockInv

---------------------------------------------------------------------------
(* Power on. *)
LEMMA SystemInit == Init => SystemInv
<1> SUFFICES ASSUME Init PROVE SystemInv
  OBVIOUS
<1>1. TypeOK
  BY DEF Init, TypeOK, Steps, Sleeping, Oscillators, Sources
<1>2. Programs
  BY DEF Init, Programs, StartSteps, PmSteps
<1>3. Dispatch
  BY DEF Init, Dispatch
<1>4. NoWildJump /\ Button
  BY DEF Init, NoWildJump, Button
<1>5. ClockInv
  BY DEF Init, ClockInv, PmSteps
<1> QED BY <1>1, <1>2, <1>3, <1>4, <1>5 DEF SystemInv

(* Nobody flashes a device, or turns it into another. *)
LEMMA SetupFixed == ASSUME [Next]_vars PROVE setup' = setup
<1>1. CASE Main
  BY <1>1 DEF Main, Start, WatchdogInit, ClockInit, On, Select, Off, Devices, RadioInit,
              Enable, Loop, Watchdog, Boot, BootIen, BootJump, Sleep, SleepClock,
              SetupPmInterrupt, PmEdge, PmEa, Doze, Wake, At
<1>2. CASE ~Main
  BY <1>2 DEF Next, CmdReset, CmdBoot, KeyPower, Command, At, Interrupt, Request, Press,
              Settle, vars
<1> QED BY <1>1, <1>2

(* Every register keeps its type. *)
LEMMA TypeOKStep ==
    ASSUME TypeOK, [Next]_vars
    PROVE  TypeOK'
<1>1. CASE Interrupt
  <2>1. PICK s \in flags \cap ien :
            /\ served' = [by |-> Serves(s), over |-> prog]
            /\ flags' = IF Serves(s) = "none" THEN flags ELSE flags \ {s}
            /\ pm3' = (pm3 /\ ~(s = "P1INT" /\ Serves(s) = "app"))
    BY <1>1 DEF Interrupt
  <2>2. Serves(s) \in {"pinkos", "app", "none", "wild"}
    BY DEF Serves
  <2>3. served' \in [by : {"pinkos", "app", "none", "wild"}, over : {"pinkos", "app"}]
    BY <2>1, <2>2 DEF TypeOK
  <2>4. flags' \in SUBSET Sources
    BY <2>1 DEF TypeOK
  <2>5. pm3' \in BOOLEAN
    BY <2>1, Zenon
  <2> QED BY <1>1, <2>3, <2>4, <2>5 DEF Interrupt, irq, osc, TypeOK
<1>2. CASE Request \/ Press \/ Settle
  <2>1. CASE Press
    <3>1. pressed' \in BOOLEAN
      BY <2>1, Zenon DEF Press
    <3>2. flags' \in SUBSET Sources
      BY <2>1 DEF Press, TypeOK, Sources
    <3> QED BY <2>1, <3>1, <3>2 DEF Press, irq, osc, hw, TypeOK
  <2> QED BY <1>2, <2>1 DEF Request, Settle, irq, osc, hw, TypeOK
<1>3. CASE CmdReset \/ CmdBoot \/ KeyPower
  BY <1>3 DEF CmdReset, CmdBoot, KeyPower, Command, At, irq, osc, hw, TypeOK, Steps, Sleeping,
         Oscillators, Sources
<1>4. CASE WatchdogInit \/ ClockInit
  <2>1. clock' \in Oscillators /\ powered' \in SUBSET Oscillators /\ stable' \in SUBSET Oscillators
    BY <1>4 DEF WatchdogInit, ClockInit, On, Select, Off, hw, osc, TypeOK, Oscillators
  <2>2. ien' \in SUBSET Sources
    BY <1>4 DEF WatchdogInit, ClockInit, On, Select, Off, irq, TypeOK
  <2> QED BY <1>4, <2>1, <2>2 DEF WatchdogInit, ClockInit, On, Select, Off, At, irq, osc, hw,
                                  TypeOK, Steps, Sleeping
<1>5. CASE Devices \/ RadioInit
  <2>1. ien' \in SUBSET Sources /\ flags' \in SUBSET Sources
    BY <1>5 DEF Devices, Uart0Init, RadioInit, irq, TypeOK, Sources
  <2>2. radio' \in {"rx", "idle"}
    BY <1>5 DEF Devices, RadioInit, TypeOK
  <2>3. pc' \in Steps
    BY <1>5 DEF Devices, RadioInit, AfterDevices, At, TypeOK, Steps, Sleeping
  <2> QED BY <1>5, <2>1, <2>2, <2>3 DEF Devices, RadioInit, At, irq, osc, hw, TypeOK
<1>6. CASE Enable \/ Loop
  BY <1>6 DEF Enable, Loop, At, irq, osc, hw, TypeOK, Steps, Sleeping, Oscillators, Sources
<1>7. CASE Watchdog
  BY <1>7 DEF Watchdog, TypeOK, Steps, Sleeping, Oscillators, Sources
<1>8. CASE Boot
  BY <1>8 DEF Boot, BootIen, BootJump, At, irq, osc, hw, TypeOK, Steps, Sleeping, Oscillators,
         Sources
<1>9. CASE Sleep
  BY <1>9 DEF Sleep, SleepClock, SetupPmInterrupt, PmEdge, PmEa, Doze, Forget, On, Select, Off, At,
         irq, osc, hw, TypeOK, Steps, Sleeping, Oscillators, Sources
<1>10. CASE Wake
  BY <1>10 DEF Wake, irq, osc, hw, TypeOK, Steps, Sleeping, Oscillators, Sources
<1>11. CASE UNCHANGED vars
  BY <1>11 DEF vars, irq, osc, hw, TypeOK, Steps, Sleeping, Oscillators, Sources
<1> QED
  BY <1>1, <1>2, <1>3, <1>4, <1>5, <1>6, <1>7, <1>8, <1>9, <1>10, <1>11 DEF Next, Main,
         Start

(* The commands, the sleep and the wake-up lead from one program's steps to its own. *)
LEMMA ProgramsStep ==
    ASSUME TypeOK, Programs, [Next]_vars
    PROVE  Programs'
<1>1. CASE Interrupt
  BY <1>1 DEF Interrupt, Pending, Serves, irq, osc, TypeOK, Programs, Speccan,
         StartSteps, PmSteps, BootSteps
<1>2. CASE Request \/ Press \/ Settle
  BY <1>2 DEF Request, Press, Settle, irq, osc, hw, TypeOK, Programs, Speccan, StartSteps,
         PmSteps, BootSteps
<1>3. CASE CmdReset \/ CmdBoot \/ KeyPower
  BY <1>3 DEF CmdReset, CmdBoot, KeyPower, Command, At, irq, osc, hw, TypeOK, Programs,
         Speccan, StartSteps, PmSteps, BootSteps
<1>4. CASE WatchdogInit \/ ClockInit
  BY <1>4 DEF WatchdogInit, ClockInit, On, Select, Off, At, irq, osc, hw, TypeOK,
         Programs, Speccan, StartSteps, PmSteps, BootSteps
<1>5. CASE Devices \/ RadioInit
  BY <1>5 DEF Devices, AfterDevices, Uart0Init, RadioInit, At, irq, osc, hw, TypeOK,
         Programs, Speccan, StartSteps, PmSteps, BootSteps
<1>6. CASE Enable \/ Loop
  BY <1>6 DEF Enable, Loop, At, irq, osc, hw, TypeOK, Programs, Speccan, StartSteps,
         PmSteps, BootSteps
<1>7. CASE Watchdog
  BY <1>7 DEF Watchdog, TypeOK, Programs, Speccan, StartSteps, PmSteps, BootSteps
<1>8. CASE Boot
  BY <1>8 DEF Boot, BootIen, BootJump, At, irq, osc, hw, TypeOK, Programs, Speccan,
         StartSteps, PmSteps, BootSteps
<1>9. CASE Sleep
  BY <1>9 DEF Sleep, SleepClock, SetupPmInterrupt, PmEdge, PmEa, Doze, Forget, On, Select, Off, At,
         irq, osc, hw, TypeOK, Programs, Speccan, StartSteps, PmSteps, BootSteps
<1>10. CASE Wake
  BY <1>10 DEF Wake, irq, osc, hw, TypeOK, Programs, Speccan, StartSteps, PmSteps,
         BootSteps
<1>11. CASE UNCHANGED vars
  BY <1>11 DEF vars, irq, osc, hw, TypeOK, Programs, Speccan, StartSteps, PmSteps,
         BootSteps
<1> QED
  BY <1>1, <1>2, <1>3, <1>4, <1>5, <1>6, <1>7, <1>8, <1>9, <1>10, <1>11 DEF Next, Main,
         Start

(* What boot clears and what the application leaves alone keep enables and F1 together. *)
LEMMA DispatchStep ==
    ASSUME TypeOK, Programs, Dispatch, [Next]_vars
    PROVE  Dispatch'
<1>s. Stubs' = Stubs /\ AppVectors' = AppVectors
  BY SetupFixed DEF Stubs, AppVectors, Dongle
<1>1. CASE Interrupt
  BY <1>1 DEF Interrupt, Pending, Serves, irq, osc, TypeOK, Programs, Dispatch, Speccan,
         Stubs, AppVectors, Dongle, StartSteps, PmSteps, BootSteps
<1>2. CASE Request \/ Press \/ Settle
  BY <1>2, <1>s DEF Request, Press, Settle, irq, osc, hw, TypeOK, Programs, Dispatch,
         StartSteps, BootSteps
<1>3. CASE CmdReset \/ CmdBoot \/ KeyPower
  BY <1>3 DEF CmdReset, CmdBoot, KeyPower, Command, At, irq, osc, hw, TypeOK, Programs,
         Dispatch, Speccan, Stubs, AppVectors, Dongle, StartSteps, PmSteps, BootSteps
<1>4. CASE WatchdogInit \/ ClockInit
  BY <1>4, <1>s DEF WatchdogInit, ClockInit, On, Select, Off, At, irq, osc, hw, TypeOK,
         Programs, Dispatch, StartSteps, BootSteps
<1>5. CASE Devices \/ RadioInit
  BY <1>5, SetupsAssumption DEF Devices, AfterDevices, Uart0Init, RadioInit, At, irq,
         osc, hw, TypeOK, Programs, Dispatch, Speccan, Stubs, AppVectors, Dongle,
         StartSteps, PmSteps, BootSteps
<1>6. CASE Enable \/ Loop
  <2>1. ien' = ien /\ prog' = prog
    BY <1>6 DEF Enable, Loop, irq
  <2>2. CASE pc = "f1"
    <3>1. prog = "pinkos" /\ F1' = TRUE /\ pc' = "ea"
      BY <1>6, <2>2 DEF Enable, Loop, At, Programs, TypeOK, StartSteps, PmSteps
    <3> QED BY <2>1, <3>1, <1>s DEF Dispatch
  <2>3. CASE pc \in {"ea", "loop"}
    <3>1. F1' = F1 /\ pc' = "loop" /\ (EA' = EA \/ pc = "ea")
      BY <1>6, <2>3 DEF Enable, Loop, At, irq
    <3> QED BY <2>1, <2>3, <3>1, <1>s DEF Dispatch
  <2> QED BY <1>6, <2>2, <2>3 DEF Enable, Loop, At
<1>7. CASE Watchdog
  BY <1>7 DEF Watchdog, TypeOK, Programs, Dispatch, Speccan, Stubs, AppVectors, Dongle,
         StartSteps, PmSteps, BootSteps
<1>8. CASE Boot
  BY <1>8 DEF Boot, BootIen, BootJump, At, irq, osc, hw, TypeOK, Programs, Dispatch,
         Speccan, Stubs, AppVectors, Dongle, StartSteps, PmSteps, BootSteps
<1>9. CASE Sleep
  BY <1>9 DEF Sleep, SleepClock, SetupPmInterrupt, PmEdge, PmEa, Doze, Forget, On, Select, Off, At,
         irq, osc, hw, TypeOK, Programs, Dispatch, Speccan, Stubs, AppVectors, Dongle,
         StartSteps, PmSteps, BootSteps
<1>10. CASE Wake
  BY <1>10 DEF Wake, irq, osc, hw, TypeOK, Programs, Dispatch, Speccan, Stubs,
         AppVectors, Dongle, StartSteps, PmSteps, BootSteps
<1>11. CASE UNCHANGED vars
  BY <1>11 DEF vars, irq, osc, hw, TypeOK, Programs, Dispatch, Speccan, Stubs,
         AppVectors, Dongle, StartSteps, PmSteps, BootSteps
<1> QED
  BY <1>1, <1>2, <1>3, <1>4, <1>5, <1>6, <1>7, <1>8, <1>9, <1>10, <1>11 DEF Next, Main,
         Start

(* A handler runs over its own program: Dispatch says so of whatever is enabled. *)
LEMMA NoWildJumpStep ==
    ASSUME TypeOK, Programs, Dispatch, NoWildJump, [Next]_vars
    PROVE  NoWildJump'
<1>1. CASE Interrupt
  BY <1>1, SetupsAssumption DEF Interrupt, Pending, Serves, irq, osc, TypeOK, Dispatch,
         NoWildJump, Stubs, AppVectors, Dongle
<1>2. CASE Request \/ Press \/ Settle
  BY <1>2 DEF Request, Press, Settle, irq, osc, hw, TypeOK, Dispatch, NoWildJump, Stubs,
         AppVectors, Dongle
<1>3. CASE CmdReset \/ CmdBoot \/ KeyPower
  BY <1>3 DEF CmdReset, CmdBoot, KeyPower, Command, At, irq, osc, hw, TypeOK, Dispatch,
         NoWildJump, Stubs, AppVectors, Dongle
<1>4. CASE WatchdogInit \/ ClockInit
  BY <1>4 DEF WatchdogInit, ClockInit, On, Select, Off, At, irq, osc, hw, TypeOK,
         Dispatch, NoWildJump, Stubs, AppVectors, Dongle
<1>5. CASE Devices \/ RadioInit
  BY <1>5 DEF Devices, AfterDevices, Uart0Init, RadioInit, At, irq, osc, hw, TypeOK,
         Dispatch, NoWildJump, Stubs, AppVectors, Dongle
<1>6. CASE Enable \/ Loop
  BY <1>6 DEF Enable, Loop, At, irq, osc, hw, TypeOK, Dispatch, NoWildJump, Stubs,
         AppVectors, Dongle
<1>7. CASE Watchdog
  BY <1>7 DEF Watchdog, TypeOK, Dispatch, NoWildJump, Stubs, AppVectors, Dongle
<1>8. CASE Boot
  BY <1>8 DEF Boot, BootIen, BootJump, At, irq, osc, hw, TypeOK, Dispatch, NoWildJump,
         Stubs, AppVectors, Dongle
<1>9. CASE Sleep
  BY <1>9 DEF Sleep, SleepClock, SetupPmInterrupt, PmEdge, PmEa, Doze, Forget, On, Select, Off, At,
         irq, osc, hw, TypeOK, Dispatch, NoWildJump, Stubs, AppVectors, Dongle
<1>10. CASE Wake
  BY <1>10 DEF Wake, irq, osc, hw, TypeOK, Dispatch, NoWildJump, Stubs, AppVectors,
         Dongle
<1>11. CASE UNCHANGED vars
  BY <1>11 DEF vars, irq, osc, hw, TypeOK, Dispatch, NoWildJump, Stubs, AppVectors,
         Dongle
<1> QED
  BY <1>1, <1>2, <1>3, <1>4, <1>5, <1>6, <1>7, <1>8, <1>9, <1>10, <1>11 DEF Next, Main,
         Start

(* setup_pm_interrupt finds no other source enabled: the analyser enables none. *)
LEMMA ButtonStep ==
    ASSUME TypeOK, Programs, Dispatch, Button, [Next]_vars
    PROVE  Button'
<1>1. CASE Interrupt
  BY <1>1 DEF Interrupt, Pending, Serves, irq, osc, TypeOK, Programs, Dispatch, Button,
         Speccan, AppVectors, StartSteps, PmSteps, BootSteps
<1>2. CASE Request \/ Press \/ Settle
  BY <1>2 DEF Request, Press, Settle, irq, osc, hw, TypeOK, Programs, Dispatch, Button,
         Speccan, AppVectors, StartSteps, PmSteps, BootSteps
<1>3. CASE CmdReset \/ CmdBoot \/ KeyPower
  BY <1>3 DEF CmdReset, CmdBoot, KeyPower, Command, At, irq, osc, hw, TypeOK, Programs,
         Dispatch, Button, Speccan, AppVectors, StartSteps, PmSteps, BootSteps
<1>4. CASE WatchdogInit \/ ClockInit
  BY <1>4 DEF WatchdogInit, ClockInit, On, Select, Off, At, irq, osc, hw, TypeOK,
         Programs, Dispatch, Button, Speccan, AppVectors, StartSteps, PmSteps, BootSteps
<1>5. CASE Devices \/ RadioInit
  BY <1>5 DEF Devices, AfterDevices, Uart0Init, RadioInit, At, irq, osc, hw, TypeOK,
         Programs, Dispatch, Button, Speccan, AppVectors, StartSteps, PmSteps, BootSteps
<1>6. CASE Enable \/ Loop
  BY <1>6 DEF Enable, Loop, At, irq, osc, hw, TypeOK, Programs, Dispatch, Button,
         Speccan, AppVectors, StartSteps, PmSteps, BootSteps
<1>7. CASE Watchdog
  BY <1>7 DEF Watchdog, TypeOK, Programs, Dispatch, Button, Speccan, AppVectors,
         StartSteps, PmSteps, BootSteps
<1>8. CASE Boot
  BY <1>8 DEF Boot, BootIen, BootJump, At, irq, osc, hw, TypeOK, Programs, Dispatch,
         Button, Speccan, AppVectors, StartSteps, PmSteps, BootSteps
<1>9. CASE Sleep
  BY <1>9 DEF Sleep, SleepClock, SetupPmInterrupt, PmEdge, PmEa, Doze, Forget, On, Select, Off, At,
         irq, osc, hw, TypeOK, Programs, Dispatch, Button, Speccan, AppVectors,
         StartSteps, PmSteps, BootSteps
<1>10. CASE Wake
  BY <1>10 DEF Wake, irq, osc, hw, TypeOK, Programs, Dispatch, Button, Speccan,
         AppVectors, StartSteps, PmSteps, BootSteps
<1>11. CASE UNCHANGED vars
  BY <1>11 DEF vars, irq, osc, hw, TypeOK, Programs, Dispatch, Button, Speccan,
         AppVectors, StartSteps, PmSteps, BootSteps
<1> QED
  BY <1>1, <1>2, <1>3, <1>4, <1>5, <1>6, <1>7, <1>8, <1>9, <1>10, <1>11 DEF Next, Main,
         Start

(* An oscillator is turned off only when the other one is selected and stable. *)
LEMMA ClockInvStep ==
    ASSUME TypeOK, Programs, ClockInv, [Next]_vars
    PROVE  ClockInv'
<1>1. CASE Interrupt
  BY <1>1 DEF Interrupt, Pending, Serves, irq, osc, TypeOK, Programs, ClockInv, Speccan,
         StartSteps, PmSteps, BootSteps, Oscillators
<1>2. CASE Request \/ Press \/ Settle
  BY <1>2 DEF Request, Press, Settle, irq, osc, hw, TypeOK, Programs, ClockInv, Speccan,
         StartSteps, PmSteps, BootSteps, Oscillators
<1>3. CASE CmdReset \/ CmdBoot \/ KeyPower
  BY <1>3 DEF CmdReset, CmdBoot, KeyPower, Command, At, irq, osc, hw, TypeOK, Programs,
         ClockInv, Speccan, StartSteps, PmSteps, BootSteps, Oscillators
<1>4. CASE WatchdogInit \/ ClockInit
  BY <1>4 DEF WatchdogInit, ClockInit, On, Select, Off, At, irq, osc, hw, TypeOK,
         Programs, ClockInv, Speccan, StartSteps, PmSteps, BootSteps, Oscillators
<1>5. CASE Devices \/ RadioInit
  BY <1>5 DEF Devices, AfterDevices, Uart0Init, RadioInit, At, irq, osc, hw, TypeOK,
         Programs, ClockInv, Speccan, StartSteps, PmSteps, BootSteps, Oscillators
<1>6. CASE Enable \/ Loop
  BY <1>6 DEF Enable, Loop, At, irq, osc, hw, TypeOK, Programs, ClockInv, Speccan,
         StartSteps, PmSteps, BootSteps, Oscillators
<1>7. CASE Watchdog
  BY <1>7 DEF Watchdog, TypeOK, Programs, ClockInv, Speccan, StartSteps, PmSteps,
         BootSteps, Oscillators
<1>8. CASE Boot
  BY <1>8 DEF Boot, BootIen, BootJump, At, irq, osc, hw, TypeOK, Programs, ClockInv,
         Speccan, StartSteps, PmSteps, BootSteps, Oscillators
<1>9. CASE Sleep
  BY <1>9 DEF Sleep, SleepClock, SetupPmInterrupt, PmEdge, PmEa, Doze, Forget, On, Select, Off, At,
         irq, osc, hw, TypeOK, Programs, ClockInv, Speccan, StartSteps, PmSteps,
         BootSteps, Oscillators
<1>10. CASE Wake
  BY <1>10 DEF Wake, irq, osc, hw, TypeOK, Programs, ClockInv, Speccan, StartSteps,
         PmSteps, BootSteps, Oscillators
<1>11. CASE UNCHANGED vars
  BY <1>11 DEF vars, irq, osc, hw, TypeOK, Programs, ClockInv, Speccan, StartSteps,
         PmSteps, BootSteps, Oscillators
<1> QED
  BY <1>1, <1>2, <1>3, <1>4, <1>5, <1>6, <1>7, <1>8, <1>9, <1>10, <1>11 DEF Next, Main,
         Start

LEMMA SystemStep == SystemInv /\ [Next]_vars => SystemInv'
BY TypeOKStep, ProgramsStep, DispatchStep, NoWildJumpStep, ButtonStep, ClockInvStep DEF SystemInv

LEMMA SystemAlways == Spec => []SystemInv
BY SystemInit, SystemStep, PTL DEF Spec

(* Registers and steps are ever what they can be, through every boot,      *)
(* reset, interrupt and sleep.                                             *)
THEOREM SystemTyped == Spec => []TypeOK
<1>1. SystemInv => TypeOK
  BY DEF SystemInv
<1> QED BY <1>1, SystemAlways, PTL

(* No interrupt of pinkos.c's handlers runs over an application, no        *)
(* application's over PinkOS, and nobody jumps to a vector that is not     *)
(* there, whatever devices there are.                                      *)
THEOREM DispatchIsSafe == Spec => []NoWildJump
<1>1. SystemInv => NoWildJump
  BY DEF SystemInv
<1> QED BY <1>1, SystemAlways, PTL

(* Asleep, the analyser can be woken, and by its button only.              *)
THEOREM ButtonAlone == Spec => []OnlyButtonWakes
<1>1. SystemInv => OnlyButtonWakes
  BY DEF SystemInv, Button, OnlyButtonWakes
<1> QED BY <1>1, SystemAlways, PTL

(* No order of the oscillator switches in clock.c, display.c and pm.c      *)
(* stops the clock, and the radio receives on the crystal.                 *)
THEOREM ClockNeverStops == Spec => []ClockRuns
<1>1. SystemInv => ClockRuns
  BY DEF SystemInv, ClockInv, ClockRuns
<1> QED BY <1>1, SystemAlways, PTL
=============================================================================
