----------------------------- MODULE Interrupts ----------------------------
(***************************************************************************)
(* Interrupts in Fridkin OS: what the timer, the keyboard and the disk     *)
(* raise, what the two interrupt controllers pass on, and what the         *)
(* handlers do with it (irq.cpp, isr.cpp, pic.cpp).                        *)
(*                                                                         *)
(* Every gate is an interrupt gate, so a handler runs with interrupts off  *)
(* and the processor is either in the idle loop or in one handler.  The    *)
(* keyboard's handler runs the shell's commands; during "write" it stays   *)
(* and reads the keyboard by polling, and each key it reads that way ends  *)
(* with an end-of-interrupt of its own (PIC_sendEOI).                      *)
(*                                                                         *)
(* External, modelled from how the code uses them: the 8259 controllers    *)
(* (edge triggered, fully nested, every line unmasked), the keyboard       *)
(* controller and the interrupt of the disk, which ata::Identify enables   *)
(* by writing 0 to the control port.  As in QEMU, which scripts/run.sh     *)
(* starts, a request that was latched stays although its cause is gone,    *)
(* and setting a controller up clears what it has latched: a scan code     *)
(* that was ready before is not asked for again until the next one comes.  *)
(***************************************************************************)
EXTENDS Integers, FiniteSets

CONSTANT
  MaxKeys      (* scan codes the keyboard holds back, at most *)

ASSUME KeysAssumption == MaxKeys \in Nat \ {0}

TimerIRQ    == 0
KeyboardIRQ == 1
CascadeIRQ  == 2       (* where PIC2 is connected to PIC1 *)
DiskIRQ     == 14      (* the primary channel, ata0m's *)

(* What runs when no handler does: initializers(), the idle loop.          *)
Boot == -2
Main == -1

OnMaster == 0 .. 7
OnSlave  == 8 .. 15

(* Populate_Irq_Entries: PIC2_BASE_IRQ + 7 is the vector of IRQ 15, so the *)
(* primary channel has no entry in ISRHandlers.                            *)
WithoutKeyboard == {TimerIRQ, 15}
Populated == {TimerIRQ, KeyboardIRQ, 15}

VARIABLES
  irr,         (* interrupts requested: raised and not yet accepted *)
  isr,         (* interrupts in service: accepted and not yet ended *)
  running,     (* Boot, Main, or the interrupt whose handler runs *)
  write_state, (* the keyboard handler is in Write()'s loop *)
  keys,        (* scan codes ready to be read; the first is in port 0x60 *)
  missed       (* 1: Init_pic cleared their request *)

vars == <<irr, isr, running, write_state, keys, missed>>

TypeOK ==
  /\ irr \subseteq {TimerIRQ, KeyboardIRQ, DiskIRQ}
  /\ isr \subseteq {TimerIRQ, KeyboardIRQ, CascadeIRQ, DiskIRQ}
  /\ running \in {Boot, Main, TimerIRQ, KeyboardIRQ, DiskIRQ}
  /\ write_state \in {0, 1}
  /\ keys \in 0 .. MaxKeys
  /\ missed \in {0, 1}

(* Init_pic has just set the controllers up. *)
Init ==
  /\ irr = {}
  /\ isr = {}
  /\ running = Boot
  /\ write_state = 0
  /\ keys \in 0 .. MaxKeys
  /\ missed = IF keys > 0 THEN 1 ELSE 0

(***************************************************************************)
(* The controllers.                                                        *)
(***************************************************************************)
Least(S) == CHOOSE i \in S : \A j \in S : i <= j

(* PIC2 asks for service on IRQ 2 when a request of its own outranks what  *)
(* it has in service; PIC1 asks the processor by the same rule.            *)
FromPIC2 == {i \in irr \cap OnSlave : \A j \in isr \cap OnSlave : i < j}
AtPIC1   == (irr \cap OnMaster) \cup {c \in {CascadeIRQ} : FromPIC2 # {}}
Asking   == {i \in AtPIC1 : \A j \in isr \cap OnMaster : i < j}

(* Non-specific end of interrupt: the highest priority in service ends.    *)
Ended(S, pic) == S \ {i \in S \cap pic : \A j \in S \cap pic : i <= j}

(* PIC_sendEOI. *)
EOIToTheOther(S, irq) == Ended(S, IF irq >= 8 THEN OnMaster ELSE OnSlave)
PIC_sendEOI(S, irq) == Ended(IF irq >= 8 THEN Ended(S, OnSlave) ELSE S, OnMaster)

(* The argument is state->interrupt - 0x20 in a uint8_t; Write() calls     *)
(* Keyboard with a zero state->interrupt.                                  *)
NestedIRQ == (0 - 32) % 256

(***************************************************************************)
(* The devices, which take no notice of the processor.                     *)
(***************************************************************************)
(* The timer's period, 55 ms, is longer by far than its handler.           *)
Tick ==
  /\ running # TimerIRQ
  /\ irr' = irr \cup {TimerIRQ}
  /\ UNCHANGED <<isr, running, write_state, keys, missed>>

(* A code that arrives raises IRQ 1 once the port is free for it.          *)
KeyArrives ==
  /\ keys < MaxKeys
  /\ keys' = keys + 1
  /\ irr' = IF keys = 0 \/ missed = 1 THEN irr \cup {KeyboardIRQ} ELSE irr
  /\ missed' = 0
  /\ UNCHANGED <<isr, running, write_state>>

(* Reading port 0x60 with nothing there gives the last code again; when    *)
(* another code is waiting it moves up and raises IRQ 1.                   *)
PortDrained == keys' = keys - 1
PortRead ==
  keys' = IF keys > 0 THEN keys - 1 ELSE 0

Raised(disk) ==
  irr \cup {i \in {KeyboardIRQ} : keys > 1} \cup {i \in {DiskIRQ} : disk}

(***************************************************************************)
(* The processor.                                                          *)
(***************************************************************************)
(* initializers(): the controllers are set up before the disk is read, and *)
(* interrupts are enabled last.                                            *)
BootDone ==
  /\ running = Boot
  /\ running' = Main
  /\ irr' = irr \cup {DiskIRQ}
  /\ UNCHANGED <<isr, write_state, keys, missed>>

(* All 256 gates are interrupt gates, so a handler runs with interrupts    *)
(* off to its end, and boot has not turned them on yet.                    *)
InterruptsOn == running = Main

(* The processor takes what the controllers ask for. *)
Accept(i) ==
  /\ InterruptsOn
  /\ Asking # {}
  /\ LET top == Least(Asking)
     IN  /\ i = IF top = CascadeIRQ THEN Least(FromPIC2) ELSE top
         /\ isr' = isr \cup {top, i}
         /\ irr' = irr \ {i}
  /\ running' = i
  /\ UNCHANGED <<write_state, keys, missed>>

Timer ==
  /\ running = TimerIRQ
  /\ isr' = PIC_sendEOI(isr, TimerIRQ)
  /\ running' = Main
  /\ UNCHANGED <<irr, write_state, keys, missed>>

(* A key at the prompt.  Enter may run a command that uses the disk; Enter *)
(* after "write" leaves the handler waiting for data.  With nothing to     *)
(* read the port gives the Enter that ended the data again, and the line   *)
(* that it ends is empty.                                                  *)
Keyboard ==
  /\ running = KeyboardIRQ
  /\ write_state = 0
  /\ PortRead
  /\ UNCHANGED missed
  /\ \/ /\ \E disk \in {FALSE, keys > 0} : irr' = Raised(disk)
        /\ isr' = PIC_sendEOI(isr, KeyboardIRQ)
        /\ running' = Main
        /\ UNCHANGED write_state
     \/ /\ keys > 0
        /\ irr' = Raised(FALSE)
        /\ write_state' = 1
        /\ UNCHANGED <<isr, running>>

(* A key in Write()'s loop: Shift and Backspace end the handler with the   *)
(* zero state, a character or a release with IRQ 1.                        *)
NestedKey ==
  /\ write_state = 1
  /\ keys > 0
  /\ PortRead
  /\ irr' = Raised(FALSE)
  /\ \E irq \in {KeyboardIRQ, NestedIRQ} : isr' = PIC_sendEOI(isr, irq)
  /\ UNCHANGED <<running, write_state, missed>>

(* The Enter that ends the data: its own end of interrupt, Write_File with *)
(* the disk, and then the end of the Enter that started it all.            *)
NestedEnter ==
  /\ write_state = 1
  /\ keys > 0
  /\ PortRead
  /\ irr' = Raised(TRUE)
  /\ isr' = PIC_sendEOI(PIC_sendEOI(isr, KeyboardIRQ), KeyboardIRQ)
  /\ running' = Main
  /\ write_state' = 0
  /\ UNCHANGED missed

(* ISR_Handler finds no handler and returns. *)
Unhandled ==
  /\ running \in OnMaster \cup OnSlave
  /\ running \notin Populated
  /\ running' = Main
  /\ UNCHANGED <<irr, isr, write_state, keys, missed>>

Handler == Timer \/ Keyboard \/ NestedKey \/ NestedEnter \/ Unhandled

Next ==
  \/ Tick
  \/ KeyArrives
  \/ BootDone
  \/ \E i \in {TimerIRQ, KeyboardIRQ, DiskIRQ} : Accept(i)
  \/ Handler

Spec == Init /\ [][Next]_vars

(* The processor does not stop.  The timer outranks the keyboard, but its  *)
(* period leaves the idle loop time between two ticks: a request of the    *)
(* keyboard that could be accepted again and again is accepted some time.  *)
(* Nothing is asked of the devices; a user who has entered "write" may     *)
(* never come to Enter.                                                    *)
FairSpec ==
  /\ Spec
  /\ WF_vars(BootDone)
  /\ WF_vars(Timer \/ Keyboard \/ Unhandled)
  /\ WF_vars(\E i \in {TimerIRQ, DiskIRQ} : Accept(i))
  /\ SF_vars(Accept(KeyboardIRQ))

(***************************************************************************)
(* Properties.                                                             *)
(***************************************************************************)
(* Outside their handlers the timer and the keyboard are never in service, *)
(* so neither can be shut out, whatever extra ends of interrupt the loop   *)
(* of Write() has sent and whatever the disk has left in service.          *)
NeverShutOut ==
  /\ running \in {Boot, Main} => isr \cap {TimerIRQ, KeyboardIRQ} = {}
  /\ running = KeyboardIRQ => TimerIRQ \notin isr

(* A scan code that is ready is never left without anyone to fetch it: its *)
(* request waits at the controller or the keyboard's handler is running,   *)
(* however many keys Write()'s loop has polled.  A code that was ready     *)
(* before Init_pic waits for the next key to be pressed.                   *)
NoKeyStranded ==
  keys > 0 => KeyboardIRQ \in irr \/ running = KeyboardIRQ \/ missed = 1

(* The keyboard's handler comes to every scan code, with the disk's        *)
(* interrupt in service for good.                                          *)
KeysAreRead == (keys > 0 /\ missed = 0) ~> (running = KeyboardIRQ)

(* execute_command is "called by putchar in case of \n from user": the     *)
(* keyboard's handler reads a scan code only when there is one.  It does   *)
(* not hold: the request of a key that Write()'s loop has polled is still  *)
(* latched when the loop ends, and the handler reads the Enter again.      *)
ReadsOnlyWhatWasTyped ==
  [][running = KeyboardIRQ /\ (write_state' # write_state \/ running' # running)
       => keys > 0]_vars
=============================================================================
