-------------------------- MODULE InterruptsProofs -------------------------
(***************************************************************************)
(* For any number of scan codes waiting: the timer and the keyboard are    *)
(* never shut out, and no scan code is stranded.                           *)
(***************************************************************************)
EXTENDS Interrupts, TLAPS

(* Which of the two may be in service depends on what runs; only the       *)
(* keyboard's handler is ever in the loop of Write().                      *)
InService ==
  /\ running \in {Boot, Main, DiskIRQ} => isr \cap {TimerIRQ, KeyboardIRQ} = {}
  /\ running = TimerIRQ => KeyboardIRQ \notin isr
  /\ running = KeyboardIRQ => TimerIRQ \notin isr
  /\ write_state = 1 => running = KeyboardIRQ

IInv == TypeOK /\ InService /\ NoKeyStranded

USE DEF TimerIRQ, KeyboardIRQ, CascadeIRQ, DiskIRQ, Boot, Main, OnMaster, OnSlave

(* An end of interrupt takes away at most one of a controller's lines, the *)
(* first that is in service.                                               *)
LEMMA EndedOne ==
  ASSUME NEW S \in SUBSET {0, 1, 2, 14}, NEW pic \in {OnMaster, OnSlave}
  PROVE  /\ Ended(S, pic) \subseteq S
         /\ pic = OnMaster /\ 0 \in S => 0 \notin Ended(S, pic)
         /\ pic = OnMaster /\ 0 \notin S => 1 \notin Ended(S, pic)
BY DEF Ended

(* The same of PIC_sendEOI, whose second end of interrupt is the master's. *)
LEMMA SendEOI ==
  ASSUME NEW S \in SUBSET {0, 1, 2, 14}, NEW irq
  PROVE  /\ PIC_sendEOI(S, irq) \subseteq S
         /\ 0 \notin S => 1 \notin PIC_sendEOI(S, irq)
         /\ irq = 0 /\ 0 \in S => 0 \notin PIC_sendEOI(S, irq)
<1>1. CASE irq >= 8
  <2>1. Ended(S, OnSlave) \subseteq S
    BY EndedOne
  <2>. QED
    BY <1>1, <2>1, EndedOne DEF PIC_sendEOI
<1>2. CASE ~(irq >= 8)
  BY <1>2, EndedOne DEF PIC_sendEOI
<1>. QED
  BY <1>1, <1>2

(* The line accepted is asking: the timer's or the keyboard's request is   *)
(* accepted on its own line, the disk's on the cascade.                    *)
LEMMA Accepted ==
  ASSUME TypeOK, NEW i, Accept(i)
  PROVE  \/ i \in {0, 1} /\ isr' = isr \cup {i}
         \/ i = 14 /\ isr' = isr \cup {2, 14}
<1>. DEFINE top == Least(Asking)
<1>1. FromPIC2 \subseteq {14} /\ Asking \subseteq {0, 1, 2}
  BY DEF TypeOK, FromPIC2, AtPIC1, Asking
<1>2. top \in Asking
  <2>1. \E j \in Asking : \A l \in Asking : j <= l
    <3>. PICK a \in Asking : TRUE
      BY DEF Accept
    <3>. a \in {0, 1, 2}
      BY <1>1
    <3>1. CASE 0 \in Asking
      BY <1>1, <3>1
    <3>2. CASE 0 \notin Asking /\ 1 \in Asking
      BY <1>1, <3>2
    <3>3. CASE 0 \notin Asking /\ 1 \notin Asking
      BY <1>1, <3>3
    <3>. QED
      BY <3>1, <3>2, <3>3
  <2>. QED
    BY <2>1 DEF Least
<1>3. i = (IF top = 2 THEN Least(FromPIC2) ELSE top) /\ isr' = isr \cup {top, i}
  BY DEF Accept
<1>4. CASE top = 2
  <2>1. FromPIC2 = {14}
    <3>1. 2 \in AtPIC1 /\ 2 \notin irr
      BY <1>2, <1>4 DEF Asking, TypeOK
    <3>2. FromPIC2 # {}
      BY <3>1 DEF AtPIC1
    <3>. QED
      BY <1>1, <3>2
  <2>2. Least(FromPIC2) = 14
    BY <2>1 DEF Least
  <2>. QED
    BY <1>3, <1>4, <2>2
<1>5. CASE top # 2
  BY <1>1, <1>2, <1>3, <1>5
<1>. QED
  BY <1>4, <1>5

LEMMA InitInvariant == Init => IInv
<1>. SUFFICES ASSUME Init PROVE IInv
  OBVIOUS
<1>1. TypeOK
  BY KeysAssumption DEF Init, TypeOK
<1>2. InService
  BY DEF Init, InService
<1>3. NoKeyStranded
  BY DEF Init, NoKeyStranded
<1>. QED
  BY <1>1, <1>2, <1>3 DEF IInv

LEMMA NextInvariant == IInv /\ [Next]_vars => IInv'
<1>. SUFFICES ASSUME IInv, [Next]_vars PROVE IInv'
  OBVIOUS
<1>. USE KeysAssumption DEF IInv
<1>. isr \in SUBSET {0, 1, 2, 14}
  BY DEF TypeOK
<1>1. CASE Tick
  BY <1>1 DEF Tick, TypeOK, InService, NoKeyStranded
<1>2. CASE KeyArrives
  BY <1>2 DEF KeyArrives, TypeOK, InService, NoKeyStranded
<1>3. CASE BootDone
  BY <1>3 DEF BootDone, TypeOK, InService, NoKeyStranded
<1>4. ASSUME NEW i \in {TimerIRQ, KeyboardIRQ, DiskIRQ}, Accept(i) PROVE IInv'
  <2>1. \/ i \in {0, 1} /\ isr' = isr \cup {i}
        \/ i = 14 /\ isr' = isr \cup {2, 14}
    BY <1>4, Accepted
  <2>2. /\ running = Main /\ running' = i /\ irr' = irr \ {i}
        /\ UNCHANGED <<write_state, keys, missed>>
    BY <1>4 DEF Accept, InterruptsOn
  <2>10. TypeOK'
    BY <2>1, <2>2 DEF TypeOK
  <2>11. InService'
    BY <2>1, <2>2 DEF InService, TypeOK
  <2>12. NoKeyStranded'
    BY <2>1, <2>2 DEF NoKeyStranded, TypeOK
  <2>. QED
    BY <2>10, <2>11, <2>12
<1>5. CASE Timer
  <2>1. /\ isr' \subseteq isr /\ 1 \notin isr'
        /\ 0 \notin isr'
    BY <1>5, SendEOI DEF Timer, InService
  <2>10. TypeOK'
    BY <1>5, <2>1 DEF Timer, TypeOK
  <2>11. InService'
    BY <1>5, <2>1 DEF Timer, InService, TypeOK
  <2>12. NoKeyStranded'
    BY <1>5, <2>1 DEF Timer, NoKeyStranded, TypeOK
  <2>. QED
    BY <2>10, <2>11, <2>12
<1>6. CASE Keyboard
  <2>1. keys' \in 0 .. MaxKeys /\ (keys' > 0 => keys > 1) /\ missed' = missed
    BY <1>6 DEF Keyboard, PortRead, TypeOK
  <2>2. CASE running' = Main
    <3>1. isr' \subseteq isr /\ 0 \notin isr' /\ 1 \notin isr' /\ write_state' = 0
      BY <1>6, <2>2, SendEOI DEF Keyboard, InService
    <3>2. \E disk \in {FALSE, keys > 0} : irr' = Raised(disk)
      BY <1>6, <2>2 DEF Keyboard
    <3>10. TypeOK'
      BY <1>6, <2>1, <2>2, <3>1, <3>2 DEF Raised, TypeOK
    <3>11. InService'
      BY <1>6, <2>1, <2>2, <3>1, <3>2 DEF Raised, InService, TypeOK
    <3>12. NoKeyStranded'
      BY <1>6, <2>1, <2>2, <3>1, <3>2 DEF Raised, NoKeyStranded, TypeOK
    <3>. QED
      BY <3>10, <3>11, <3>12
  <2>3. CASE running' # Main
    BY <1>6, <2>1, <2>3 DEF Keyboard, Raised, TypeOK, InService, NoKeyStranded
  <2>. QED
    BY <2>2, <2>3
<1>7. CASE NestedKey
  <2>1. keys' \in 0 .. MaxKeys /\ missed' = missed
    BY <1>7 DEF NestedKey, PortRead, TypeOK
  <2>2. isr' \subseteq isr
    <3>1. PICK irq \in {KeyboardIRQ, NestedIRQ} : isr' = PIC_sendEOI(isr, irq)
      BY <1>7 DEF NestedKey
    <3>. QED
      BY <3>1, SendEOI
  <2>3. running = KeyboardIRQ /\ running' = running /\ write_state' = 1 /\ irr' = Raised(FALSE)
    BY <1>7 DEF NestedKey, InService
  <2>. QED
    BY <2>1, <2>2, <2>3 DEF Raised, TypeOK, InService, NoKeyStranded
<1>8. CASE NestedEnter
  <2>1. keys' \in 0 .. MaxKeys /\ (keys' > 0 => keys > 1) /\ missed' = missed
    BY <1>8 DEF NestedEnter, PortRead, TypeOK
  <2>2. running = KeyboardIRQ /\ 0 \notin isr
    BY <1>8 DEF NestedEnter, InService
  <2>3. isr' \subseteq isr /\ 1 \notin isr'
    <3>. DEFINE S == PIC_sendEOI(isr, KeyboardIRQ)
    <3>1. S \subseteq isr /\ 1 \notin S
      BY <2>2, SendEOI
    <3>2. PIC_sendEOI(S, KeyboardIRQ) \subseteq S
      <4>. HIDE DEF S
      <4>. QED
        BY <3>1, SendEOI
    <3>. QED
      BY <1>8, <3>1, <3>2 DEF NestedEnter
  <2>4. running' = Main /\ write_state' = 0 /\ irr' = Raised(TRUE)
    BY <1>8 DEF NestedEnter
  <2>10. TypeOK'
    BY <2>1, <2>2, <2>3, <2>4 DEF Raised, TypeOK
  <2>11. InService'
    BY <2>1, <2>2, <2>3, <2>4 DEF Raised, InService, TypeOK
  <2>12. NoKeyStranded'
    BY <2>1, <2>2, <2>3, <2>4 DEF Raised, NoKeyStranded, TypeOK
  <2>. QED
    BY <2>10, <2>11, <2>12
<1>9. CASE Unhandled
  <2>1. running = DiskIRQ
    BY <1>9 DEF Unhandled, Populated, TypeOK
  <2>. QED
    BY <1>9, <2>1 DEF Unhandled, TypeOK, InService, NoKeyStranded
<1>10. CASE UNCHANGED vars
  BY <1>10 DEF vars, TypeOK, InService, NoKeyStranded
<1>. QED
  BY <1>1, <1>2, <1>3, <1>4, <1>5, <1>6, <1>7, <1>8, <1>9, <1>10 DEF Next, Handler

THEOREM Invariance == Spec => []IInv
<1>. QED
  BY InitInvariant, NextInvariant, PTL DEF Spec

(* The types of the controllers' registers and of the handlers' state.     *)
THEOREM TypeCorrect == Spec => []TypeOK
<1>1. IInv => TypeOK
  BY DEF IInv
<1>. QED
  BY <1>1, Invariance, PTL

(* Neither the timer nor the keyboard is in service outside its handler,   *)
(* whatever number of extra ends of interrupt Write()'s loop has sent.     *)
THEOREM NobodyShutOut == Spec => []NeverShutOut
<1>1. IInv => NeverShutOut
  BY DEF IInv, InService, NeverShutOut
<1>. QED
  BY <1>1, Invariance, PTL

(* A scan code that is ready has its request latched or its handler        *)
(* running, unless Init_pic has cleared its request and no key followed.   *)
THEOREM NobodyStranded == Spec => []NoKeyStranded
<1>1. IInv => NoKeyStranded
  BY DEF IInv
<1>. QED
  BY <1>1, Invariance, PTL
=============================================================================
