------------------------------- MODULE System -------------------------------
(***************************************************************************)
(* From reset to the main loop, from PinkOS to an application and, on the  *)
(* handset, to sleep and back: main of pinkos.c, boot and reset of         *)
(* shell.c, main of shellapp.c, sleep of speccan's pm.c.  In between the   *)
(* interrupts, which isr.c hands to PinkOS or to the application.          *)
(***************************************************************************)
EXTENDS Integers

CONSTANT Setups     \* records [board, app]: what the device is and has flashed

Sources == {"URX0", "RFTXRX", "RF", "P1INT"}

(* The analyser is for the handset. *)
ASSUME SetupsAssumption ==
    /\ Setups \subseteq [board : {"dongle", "handset"}, app : {"shellapp", "speccan"}]
    /\ \A s \in Setups : s.app = "speccan" => s.board = "handset"

VARIABLES
    setup,
    prog,           \* whose code runs
    pc,             \* the next step of its main
    EA, F1, ien,    \* interrupts: at all, PinkOS's, the sources enabled
    flags,          \* the sources that request one
    served,         \* history: who served the last, and whose code it interrupted
    late,           \* an instruction was executed since the last reti
    radio,          \* receiving, or idle
    clock, selected,    \* the oscillator in use; the one CLKCON selects
    powered, stable,    \* the oscillators turned on; those of them that run
    pm3,            \* SLEEP selects power mode 3
    edge,           \* of the button's line, that raises its request: PICTL
    pressed         \* history: the button was pressed on the way to sleep

irq == <<EA, F1, ien>>
osc == <<clock, selected, powered, stable>>
hw == <<radio, osc, pm3, edge>>
vars == <<setup, prog, pc, irq, flags, served, late, hw, pressed>>

(* The button's interrupt is set up, and nobody has woken yet. *)
Sleeping == {"pm_ea", "pm_mode", "pm_test", "pm_enter", "asleep"}

Steps == {"watchdog", "clock_on", "clock_select", "clock_wait", "clock_off",
          "devices", "radio", "f1", "ea", "loop",
          "spin", "boot_ea", "boot_flags", "boot_ien", "boot_f1",
          "pm_on", "pm_select", "pm_wait", "pm_off", "pm_flags", "pm_enable",
          "pm_edge"} \cup Sleeping

Oscillators == {"XOSC", "HFRC"}

TypeOK ==
    /\ setup \in Setups
    /\ prog \in {"pinkos", "app"}
    /\ pc \in Steps
    /\ {EA, F1, late, pm3, pressed} \subseteq BOOLEAN
    /\ {ien, flags} \subseteq SUBSET Sources
    /\ served \in [by : {"pinkos", "app", "none", "wild"}, over : {"pinkos", "app"}]
    /\ radio \in {"rx", "idle"}
    /\ edge \in {"rising", "falling"}
    /\ {clock, selected} \subseteq Oscillators
    /\ {powered, stable} \subseteq SUBSET Oscillators

(* Power on. *)
Init ==
    /\ setup \in Setups
    /\ prog = "pinkos" /\ pc = "watchdog"
    /\ EA = FALSE /\ F1 = FALSE /\ ien = {} /\ flags = {}
    /\ served = [by |-> "none", over |-> "pinkos"]
    /\ late = TRUE
    /\ radio = "idle"
    /\ clock = "HFRC" /\ selected = "HFRC"
    /\ powered = {"HFRC"} /\ stable = {"HFRC"}
    /\ pm3 = FALSE
    /\ edge = "rising"
    /\ pressed = FALSE

Dongle == setup.board = "dongle"
Speccan == prog = "app" /\ setup.app = "speccan"

---------------------------------------------------------------------------
(* Interrupts *)

(* The vectors isr.c has a stub for; SDCC fills the others with reti. *)
Stubs == {"RFTXRX", "RF"} \cup (IF Dongle THEN {"URX0"} ELSE {})

(* The vectors the application defines. *)
AppVectors ==
    CASE setup.app = "shellapp" -> IF Dongle THEN {"URX0"} ELSE {}
      [] setup.app = "speccan"  -> {"P1INT"}

(* ISR_BODY: who serves s.  Without a vector of its own the application is
   entered somewhere. *)
Serves(s) ==
    CASE s \notin Stubs                          -> "none"
      [] s \in Stubs /\ F1                       -> "pinkos"
      [] s \in Stubs /\ ~F1 /\ s \in AppVectors    -> "app"
      [] s \in Stubs /\ ~F1 /\ s \notin AppVectors -> "wild"

(* The 8051 executes an instruction between two interrupts. *)
Pending == EA /\ late /\ flags \cap ien # {}

(* A handler, whole: it takes its request back, and port1_isr the power
   mode too.  A reti takes nothing back. *)
Interrupt ==
    /\ Pending /\ pc # "asleep"
    /\ \E s \in flags \cap ien :
        /\ served' = [by |-> Serves(s), over |-> prog]
        /\ flags' = IF Serves(s) = "none" THEN flags ELSE flags \ {s}
        /\ pm3' = (pm3 /\ ~(s = "P1INT" /\ Serves(s) = "app"))
    /\ late' = FALSE
    /\ UNCHANGED <<setup, prog, pc, irq, radio, osc, edge, pressed>>

(* A character, a byte of a frame or the end of one, an edge of the power
   button's line that is no press: it is released, it bounces, and it falls
   and rises in every scan of the keyboard. *)
Request ==
    /\ \E s \in Sources \ flags :
        /\ s = "URX0" => Dongle /\ pc # "watchdog"
        /\ s \in {"RFTXRX", "RF"} => radio = "rx"
        /\ s = "P1INT" => ~Dongle
        /\ flags' = flags \cup {s}
    /\ UNCHANGED <<setup, prog, pc, irq, served, late, hw, pressed>>

(* The power button: its line falls. *)
Press ==
    /\ ~Dongle
    /\ flags' = IF edge = "falling" THEN flags \cup {"P1INT"} ELSE flags
    /\ pressed' = (pressed \/ pc \in Sleeping)
    /\ UNCHANGED <<setup, prog, pc, irq, served, late, hw>>

---------------------------------------------------------------------------
(* The main program: a step when no interrupt is due *)

At(from, to) ==
    /\ pc = from /\ pc' = to
    /\ ~Pending /\ late' = TRUE
    /\ pressed' = (pressed /\ to # "clock_on")
    /\ UNCHANGED <<setup, served>>

(* watchdog_init clears IEN0 & ~EA: bit 0, RFTXRXIE, if EA is 1. *)
WatchdogInit ==
    /\ At("watchdog", "clock_on")
    /\ ien' = IF EA THEN ien \ {"RFTXRX"} ELSE ien
    /\ UNCHANGED <<prog, EA, F1, flags, hw>>

(* clock_init, xtalClock, and with the other oscillator the first half of
   sleep: both oscillators on, the new one selected when it is stable, the
   one not selected off when CLKCON shows the selection. *)

On(from, to) ==
    /\ At(from, to)
    /\ powered' = Oscillators
    /\ UNCHANGED <<prog, irq, flags, radio, clock, selected, stable, pm3, edge>>

(* An oscillator starts, or the one selected takes over. *)
Settle ==
    /\ \/ /\ stable # powered
          /\ stable' = powered
          /\ UNCHANGED clock
       \/ /\ clock # selected /\ selected \in stable
          /\ clock' = selected
          /\ UNCHANGED stable
    /\ UNCHANGED <<setup, prog, pc, irq, flags, served, late, radio, selected, powered,
                   pm3, edge, pressed>>

(* Mutant of Select: CLKCON is not read back. *)
SelectUnread(from, wait, to, new) ==
    \/ /\ At(from, wait)
       /\ new \in stable
       /\ selected' = new
       /\ UNCHANGED <<prog, irq, flags, radio, clock, powered, stable, pm3, edge>>
    \/ /\ At(wait, to)
       /\ UNCHANGED <<prog, irq, flags, hw>>

Select(from, wait, to, new) ==
    \/ /\ At(from, wait)
       /\ new \in stable
       /\ selected' = new
       /\ UNCHANGED <<prog, irq, flags, radio, clock, powered, stable, pm3, edge>>
    \/ /\ At(wait, to)
       /\ clock = selected
       /\ UNCHANGED <<prog, irq, flags, hw>>

Off(from, to) ==
    /\ At(from, to)
    /\ powered' = {selected} /\ stable' = stable \cap {selected}
    /\ UNCHANGED <<prog, irq, flags, radio, clock, selected, pm3, edge>>

ClockInit ==
    \/ On("clock_on", "clock_select")
    \/ Select("clock_select", "clock_wait", "clock_off", "XOSC")
    \/ Off("clock_off", "devices")

AfterDevices ==
    CASE prog = "pinkos" -> "radio"
      [] prog = "app"    -> IF setup.app = "speccan" THEN "loop" ELSE "ea"

(* uart0_init raises its own request. *)
Uart0Init ==
    IF Dongle THEN ien' = ien \cup {"URX0"} /\ flags' = flags \cup {"URX0"}
              ELSE UNCHANGED <<ien, flags>>

(* led_init, uart0_init or spi_init, key_init, lcdterm_init; the analyser's
   setIOPorts to radio_setup and its first sweep, which idles the radio. *)
Devices ==
    /\ At("devices", AfterDevices)
    /\ Uart0Init
    /\ radio' = IF Speccan THEN "idle" ELSE radio
    /\ UNCHANGED <<prog, EA, F1, osc, pm3, edge>>

RadioInit ==
    /\ At("radio", "f1")
    /\ ien' = ien \cup {"RFTXRX", "RF"}
    /\ radio' = "rx"
    /\ UNCHANGED <<prog, EA, F1, flags, osc, pm3, edge>>

(* Mutant of Enable: EA first. *)
EnableSwapped ==
    \/ /\ At("f1", "ea")
       /\ EA' = TRUE /\ UNCHANGED F1
       /\ UNCHANGED <<prog, ien, flags, hw>>
    \/ /\ At("ea", "loop")
       /\ EA' = TRUE /\ F1' = (prog = "pinkos")
       /\ UNCHANGED <<prog, ien, flags, hw>>

(* F1 = 1; EA = 1.  An application leaves F1 alone. *)
Enable ==
    \/ /\ At("f1", "ea")
       /\ F1' = TRUE
       /\ UNCHANGED <<prog, EA, ien, flags, hw>>
    \/ /\ At("ea", "loop")
       /\ EA' = TRUE
       /\ UNCHANGED <<prog, F1, ien, flags, hw>>

Loop ==
    /\ At("loop", "loop")
    /\ UNCHANGED <<prog, irq, flags, hw>>

Start == WatchdogInit \/ ClockInit \/ Devices \/ RadioInit \/ Enable \/ Loop

---------------------------------------------------------------------------
(* The commands reset and boot *)

Command(to) ==
    /\ prog = "pinkos"
    /\ At("loop", to)
    /\ UNCHANGED <<prog, irq, flags, hw>>

CmdReset == Command("spin")

(* Interrupts are still served; the main program spins. *)
Watchdog ==
    /\ pc = "spin"
    /\ prog' = "pinkos" /\ pc' = "watchdog"
    /\ EA' = FALSE /\ F1' = FALSE /\ ien' = {} /\ flags' = {}
    /\ served' = [by |-> "none", over |-> "pinkos"]
    /\ late' = TRUE
    /\ radio' = "idle"
    /\ clock' = "HFRC" /\ selected' = "HFRC"
    /\ powered' = {"HFRC"} /\ stable' = {"HFRC"}
    /\ pm3' = FALSE
    /\ edge' = "rising"
    /\ pressed' = FALSE
    /\ UNCHANGED setup

(* Mutant of BootIen: EA = 0 seems enough. *)
BootIenKept ==
    /\ At("boot_ien", "boot_f1")
    /\ UNCHANGED <<prog, irq, flags, hw>>

BootIen ==
    /\ At("boot_ien", "boot_f1")
    /\ ien' = {}
    /\ UNCHANGED <<prog, EA, F1, flags, hw>>

BootJump ==
    /\ At("boot_f1", IF setup.app = "speccan" THEN "clock_on" ELSE "watchdog")
    /\ F1' = FALSE
    /\ prog' = "app"
    /\ UNCHANGED <<EA, ien, flags, hw>>

(* The rest of cmd_boot.  The receiver is left on. *)
Boot ==
    \/ /\ At("boot_ea", "boot_flags")
       /\ EA' = FALSE
       /\ UNCHANGED <<prog, F1, ien, flags, hw>>
    \/ /\ At("boot_flags", "boot_ien")
       /\ flags' = {}
       /\ UNCHANGED <<prog, irq, hw>>
    \/ BootIen
    \/ BootJump

CmdBoot == Command("boot_ea")

---------------------------------------------------------------------------
(* Sleep: pm.c *)

KeyPower ==
    /\ Speccan
    /\ At("loop", "pm_on")
    /\ UNCHANGED <<prog, irq, flags, hw>>

SleepClock ==
    \/ On("pm_on", "pm_select")
    \/ Select("pm_select", "pm_wait", "pm_off", "HFRC")
    \/ Off("pm_off", "pm_flags")

Forget(s) == flags' = flags \ {s}

PmEdge ==
    /\ At("pm_edge", "pm_ea")
    /\ edge' = "falling"
    /\ UNCHANGED <<prog, irq, flags, radio, osc, pm3>>

PmEa ==
    /\ At("pm_ea", "pm_mode")
    /\ EA' = TRUE
    /\ UNCHANGED <<prog, F1, ien, flags, hw>>

(* Mutant of SetupPmInterrupt: the request is taken back last. *)
SetupPmInterruptLate ==
    \/ /\ At("pm_flags", "pm_enable")
       /\ ien' = ien \cup {"P1INT"}
       /\ UNCHANGED <<prog, EA, F1, flags, hw>>
    \/ /\ At("pm_enable", "pm_edge")
       /\ EA' = TRUE
       /\ UNCHANGED <<prog, F1, ien, flags, hw>>
    \/ PmEdge
    \/ /\ At("pm_ea", "pm_mode")
       /\ Forget("P1INT")
       /\ UNCHANGED <<prog, irq, hw>>

(* setup_pm_interrupt: request taken back, sources and edge selected, EA.  A
   press between the first and the third is not seen, the first time. *)
SetupPmInterrupt ==
    \/ /\ At("pm_flags", "pm_enable")
       /\ Forget("P1INT")
       /\ UNCHANGED <<prog, irq, hw>>
    \/ /\ At("pm_enable", "pm_edge")
       /\ ien' = ien \cup {"P1INT"}
       /\ UNCHANGED <<prog, EA, F1, flags, hw>>
    \/ PmEdge
    \/ PmEa

(* Power mode 3; the test that port1_isr has not taken it back; the sleep
   instruction, of whatever mode SLEEP selects by then.  In power mode 3 no
   oscillator runs until an enabled interrupt is requested. *)
Doze ==
    \/ /\ At("pm_mode", "pm_test")
       /\ pm3' = TRUE
       /\ UNCHANGED <<prog, irq, flags, radio, osc, edge>>
    \/ /\ At("pm_test", IF pm3 THEN "pm_enter" ELSE "clock_on")
       /\ UNCHANGED <<prog, irq, flags, hw>>
    \/ /\ At("pm_enter", "asleep")
       /\ powered' = IF pm3 THEN {} ELSE powered
       /\ stable' = IF pm3 THEN {} ELSE stable
       /\ UNCHANGED <<prog, irq, flags, radio, clock, selected, pm3, edge>>

Sleep == SleepClock \/ SetupPmInterrupt \/ Doze

(* sleep returns, and main goes back to its label reset. *)
Wake ==
    /\ pc = "asleep" /\ EA /\ flags \cap ien # {}
    /\ pc' = "clock_on"
    /\ powered' = {"HFRC"} /\ stable' = {"HFRC"}
    /\ late' = TRUE
    /\ pressed' = FALSE
    /\ UNCHANGED <<setup, prog, irq, flags, served, radio, clock, selected, pm3, edge>>

Main == Start \/ Watchdog \/ Boot \/ Sleep \/ Wake
Next == Main \/ CmdReset \/ CmdBoot \/ KeyPower \/ Interrupt \/ Request \/ Press \/ Settle

(* Main program and interrupts go on, oscillators start; nobody need enter
   a command, press the button or send. *)
Spec == Init /\ [][Next]_vars
FairSpec == Spec /\ WF_vars(Main) /\ WF_vars(Interrupt) /\ WF_vars(Settle)

---------------------------------------------------------------------------
(* Properties *)

(* No interrupt leaves the running program: PinkOS's handlers run over     *)
(* PinkOS, the application's over the application, and nobody enters an    *)
(* application through a vector it does not have.  F1 and EA of            *)
(* pinkos.c:78, the stubs of isr.c and what cmd_boot clears must agree     *)
(* from power on through every boot and reset.                             *)
NoWildJump == served.by \in {served.over, "none"}

(* "Any interrupts not intended to wake from sleep should be disabled by   *)
(* this point" (pm.c:87), and the button is enabled.  PinkOS enabled       *)
(* others, and its receiver may still be on.                               *)
OnlyButtonWakes == pc \in {"pm_test", "pm_enter", "asleep"} => EA /\ ien = {"P1INT"}

(* The oscillator in use runs, whatever is turned off and in which order   *)
(* (clock.c:32, display.c:39, pm.c:67): CLKCON is read back before the     *)
(* other one goes off (clock.c:42).  The radio receives on the crystal     *)
(* only: it is idle before the analyser goes over to the RC oscillator,    *)
(* and after a reset nobody starts it before the crystal.                  *)
ClockRuns ==
    /\ pc # "asleep" => clock \in stable
    /\ radio = "rx" => clock = "XOSC"

(* A press of the button from the moment its edge is selected (pm.c:38) is *)
(* not lost: the analyser starts again, whether the processor sleeps       *)
(* already, is about to, or is between the test of SLEEP (pm.c:104) and    *)
(* the instruction that sleeps (pm.c:108).                                 *)
PressWakes == pressed ~> pc = "clock_on"

=============================================================================
