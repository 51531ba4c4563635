----------------------------- MODULE PortTools -----------------------------
(***************************************************************************)
(* The programs that drive PC hardware through I/O ports, from user space  *)
(* or from early kernel code: push-key-scancodes, led-flash-user-space,    *)
(* led-flash-assembler, cmos-reset, cmos_dump, vga-palette and its         *)
(* assembler, beep-user-space, beep-assembler, halt, reboot-from-user-     *)
(* space.  A program is the sequence of its port accesses, jumps and       *)
(* interrupt flags; delays, prints and ioperm() are left out.  Programs    *)
(* run together, on one processor or on several, next to the kernel's      *)
(* keyboard and RTC drivers.  A device is what the programs rely on.       *)
(***************************************************************************)
EXTENDS Integers, Sequences, SequencesExt, FiniteSets

CONSTANTS
  Companies,  \* bound: the sets of programs that are run together
  CELLS,      \* bound: how many of the 128 cells cmos-dump reads
  PAINTED,    \* bound: how many of its 128 DAC cells vga paints
  FLASHED,    \* bound: how many of its 64 DAC cells flash paints
  TONES,      \* bound: how many of its 44 tones beep plays
  KEYS,       \* bound: how many codes of hello[] keycode pushes
  CALLS       \* bound: how often a kernel driver uses its device

ASSUME BoundsAssumption ==
  /\ KEYS \in 1 .. 10 /\ CELLS \in 1 .. 128 /\ CALLS \in Nat
  /\ PAINTED \in 1 .. 128 /\ FLASHED \in 1 .. 64 /\ TONES \in 1 .. 44

Empty == <<>>
Byte  == 0 .. 255
Cell  == 0 .. 127           \* of CMOS RAM, and of the DAC

(***************************************************************************)
(* Instructions.                                                           *)
(***************************************************************************)
Op(o, p, v) == [op |-> o, port |-> p, val |-> v]
Wait        == Op("wait", "0x64", 0)      \* while (inb(0x64) & 0x2)
IfBusy(i)   == Op("ifbusy", "0x64", i)    \* testb $0x02; jne i
Out(p, v)   == Op("out", p, v)
OutNot(p)   == Op("outnot", p, 255)       \* out 255 ^ (the byte read last)
In(p)       == Op("in", p, 0)
JumpTo(i)   == Op("goto", "none", i)
Cli         == Op("cli", "none", 0)
Sti         == Op("sti", "none", 0)
Syncs       == Op("sync", "none", 0)
Falls       == Op("falls", "none", 0)     \* runs into what is linked next

(* A loop: Body(1) to Body(n), of w instructions each.                     *)
Times(n, w, Body(_)) ==
  [k \in 1 .. n * w |-> Body((k - 1) \div w + 1)[((k - 1) % w) + 1]]

(***************************************************************************)
(* Keyboard controller: push-key-scancodes, led-flash-*, the kernel.  The  *)
(* controller's command 210 (0xd2) makes the next data byte a key, 254     *)
(* (0xfe) resets; the keyboard's command 237 (0xed) sets the LEDs.         *)
(***************************************************************************)
\* Mutants: the second poll comes after the write; command and code swapped.
PushKeycode_lateWait(code) == <<Wait, Out("0x64", 210), Out("0x60", code), Wait>>
PushKeycode_swapped(code) == <<Wait, Out("0x60", code), Wait, Out("0x64", 210)>>
PushKeycode(code) == <<Wait, Out("0x64", 210), Wait, Out("0x60", code)>>

hello == <<35, 18, 38, 38, 24, 57, 17, 24, 19, 32>>

Codes == [i \in 1 .. 2 * KEYS |->         \* down, then up: code | 0x80
            hello[(i + 1) \div 2] + IF i % 2 = 1 THEN 0 ELSE 128]

Keycode == Times(2 * KEYS, 4, LAMBDA i : PushKeycode(Codes[i]))

SetLeds(mask) == <<Wait, Out("0x60", 237), Wait, Out("0x60", mask)>>

Led_once == SetLeds(5) \o <<JumpTo(1)>>     \* mutant: val = 5
Led == SetLeds(5) \o SetLeds(0) \o <<JumpTo(1)>>       \* val ^= 5

(* The test before the second 0xed jumps back to flash_led.                *)
FlashLed ==
  SetLeds(5) \o
  <<IfBusy(1), Out("0x60", 237), Wait, Out("0x60", 0), JumpTo(1)>>

(* The kernel writes a byte with interrupts off and its own lock held.     *)
AtKbd ==
  Times(CALLS, 8, LAMBDA i : <<Cli, Wait, Out("0x60", 237), Sti,
                               Cli, Wait, Out("0x60", 2), Sti>>)

(***************************************************************************)
(* CMOS RAM: an index port and a data port; the checksum is in cells 46    *)
(* and 47 (0x2e, 0x2f).                                                    *)
(***************************************************************************)
CmosRead(a)   == <<Out("0x70", a), In("0x71")>>
CmosInvert(a) == CmosRead(a) \o <<Out("0x70", a), OutNot("0x71")>>

CmosReset_open == CmosInvert(46) \o CmosInvert(47)      \* mutant: no cli
CmosReset == <<Cli>> \o CmosInvert(46) \o CmosInvert(47) \o <<Sti>>
CmosDump == Times(CELLS, 2, LAMBDA i : CmosRead(i - 1))
RtcRead == <<Cli>> \o CmosRead(0) \o <<Sti>>
RtcDriver == Times(CALLS, 4, LAMBDA i : RtcRead)

(***************************************************************************)
(* VGA palette and speaker.                                                *)
(***************************************************************************)
SetVga(i, r, g, b) ==
  <<Out("0x3c8", i), Out("0x3c9", r), Out("0x3c9", g), Out("0x3c9", b)>>

Paint(n, r, g, b) == Times(n, 4, LAMBDA i : SetVga(i - 1, r, g, b))
Vga == Paint(PAINTED, 128, 64, 32)

Fill(r, g, b) == Paint(FLASHED, r, g, b)
Flash == Fill(0, 0, 0) \o Fill(63, 0, 0) \o Fill(0, 63, 0) \o Fill(0, 0, 63)
         \o Fill(63, 63, 63) \o <<Falls>>             \* no ret

Divisor_deci(hz) == 1193181 \div (hz \div 100)   \* mutant: too low for 16 bits
Divisor(hz) == 1193181 \div hz
BeepOn(hz) == <<Out("0x43", 182), Out("0x42", Divisor(hz) % 256),
                  Out("0x42", Divisor(hz) \div 256), In("0x61"), Out("0x61", 3)>>
BeepOff == <<In("0x61"), Out("0x61", 0)>>
Beep == Times(TONES, 5, LAMBDA i : BeepOn(430 + 10 * i)) \o BeepOff
Beep440Hz == BeepOn(440) \o <<Falls>>              \* no ret
BeepAsm == Beep440Hz \o BeepOff

(***************************************************************************)
(* Power: a PM1 register is the set of its bits.  "val &= keep; val |= add"*)
(* is done with the first write that follows it.                           *)
(***************************************************************************)
SleepType == {"typ0", "typ1", "typ2"}
S5        == SleepType                    \* S5_STATE is 7
Load(r)   == Op("load", r, {})            \* val = inl(r)
Join(r)   == Op("join", r, {})            \* val |= inl(r), if there is an r
Store(r, keep, add)   == Op("store", r, [keep |-> keep, add |-> add])
StoreIf(r, keep, add) == Op("storeif", r, [keep |-> keep, add |-> add])

Others == {"sci_en"}
Halt_once ==               \* mutant: type and enable in one go
  <<Load("cnta"), Join("cntb"), Store("cnta", Others, S5 \cup {"slp_en"}),
    Store("cntb", Others, S5 \cup {"slp_en"})>>

Halt ==
  <<Load("evta"), Join("evtb"),                             \* step 1
    StoreIf("evta", {"wak_sts"}, {}), StoreIf("evtb", {"wak_sts"}, {}),
    Load("cnta"), Join("cntb"),                             \* step 2
    Store("cnta", Others, S5), Store("cntb", Others, S5),
    Store("cnta", Others \cup S5, {"slp_en"}),              \* step 3
    Store("cntb", Others \cup S5, {"slp_en"})>>

Reboot     == <<Syncs, Syncs, Out("0xcf9", 2), Out("0xcf9", 4)>>
RebootKeyb == <<Syncs, Syncs, Out("0x64", 254)>>

Tools  == {"keycode", "led", "flash_led", "cmos-reset", "cmos-dump", "vga",
           "flash", "beep", "beep_asm", "halt", "reboot", "reboot_keyb"}
Kernel == {"atkbd", "rtc"}

ASSUME CompaniesAssumption == Companies \subseteq SUBSET (Tools \cup Kernel)

Prog == [t \in Tools \cup Kernel |->
  CASE t = "keycode"     -> Keycode
    [] t = "led"         -> Led
    [] t = "flash_led"   -> FlashLed
    [] t = "atkbd"       -> AtKbd
    [] t = "cmos-reset"  -> CmosReset
    [] t = "cmos-dump"   -> CmosDump
    [] t = "rtc"         -> RtcDriver
    [] t = "vga"         -> Vga
    [] t = "flash"       -> Flash
    [] t = "beep"        -> Beep
    [] t = "beep_asm"    -> BeepAsm
    [] t = "halt"        -> Halt
    [] t = "reboot"      -> Reboot
    [] t = "reboot_keyb" -> RebootKeyb]

-----------------------------------------------------------------------------
VARIABLES
  users, apart,     \* who runs; on one processor, or each on its own
  ip, got,          \* next instruction; bytes read so far
  killed,           \* ended by a signal, or fallen off the end of the text
  cli,              \* those that hold interrupts off on their processor
  kbc,              \* i8042: input buffer, meaning of the next data byte,
                    \*   codes given to the kernel, keyboard's LED state
  cmos, pit, dac,
  pm, val,          \* PM1 registers; val of halt
  disk,             \* "dirty" until the first sync()
  power             \* "on", "s5", "pulse" (bit 1 of 0xcf9 was set), "reset"

procs    == <<users, apart, ip, got, killed, cli>>
devs     == <<kbc, cmos, pit, dac, pm, val, disk, power>>
portVars == <<users, apart, ip, got, killed, cli,
              kbc, cmos, pit, dac, pm, val, disk, power>>

On       == power \in {"on", "pulse"}
Ended(t) == t \in users /\ ip[t] > Len(Prog[t])
Instr(t) == Prog[t][ip[t]]
Busy     == kbc.ibf # Empty

(* Interrupts off on a processor keep everybody else away from it.         *)
Running(t) ==
  /\ On /\ t \in users \ killed /\ ~Ended(t)
  /\ apart \/ cli \subseteq {t}

NextInstr(t) == ip' = [ip EXCEPT ![t] = @ + 1]

(***************************************************************************)
(* What a device makes of a byte written to one of its ports.              *)
(***************************************************************************)
ToKbc(p, v) ==             \* a byte written to a full buffer replaces the old
  /\ kbc' = [kbc EXCEPT !.ibf = <<p, v>>, !.lost = @ \/ Busy]
  /\ UNCHANGED <<cmos, pit, dac, power>>

ToCmos(p, v) ==
  /\ cmos' = IF p = "0x70" THEN [cmos EXCEPT !.index = v]
                         ELSE [cmos EXCEPT !.ram[cmos.index] = v]
  /\ UNCHANGED <<kbc, pit, dac, power>>

ToPit(p, v) ==             \* 0x43 selects low byte, then high byte
  /\ \/ p = "0x61" /\ pit' = [pit EXCEPT !.port61 = v]
     \/ p = "0x43" /\ pit' = [pit EXCEPT !.low = Empty]
     \/ p = "0x42" /\ pit.low = Empty /\ pit' = [pit EXCEPT !.low = <<v>>]
     \/ /\ p = "0x42" /\ pit.low # Empty
        /\ pit' = [pit EXCEPT !.low = Empty, !.div = pit.low[1] + 256 * v]
  /\ UNCHANGED <<kbc, cmos, dac, power>>

ToDac(p, v) ==             \* six bits of each colour; the index moves on
  LET rgb == Append(dac.rgb, v % 64)
  IN  /\ \/ p = "0x3c8" /\ dac' = [dac EXCEPT !.index = v, !.rgb = Empty]
         \/ p = "0x3c9" /\ Len(rgb) < 3 /\ dac' = [dac EXCEPT !.rgb = rgb]
         \/ /\ p = "0x3c9" /\ Len(rgb) = 3
            /\ dac' = [index   |-> (dac.index + 1) % 256,
                       rgb     |-> Empty,
                       palette |-> [dac.palette EXCEPT ![dac.index] = rgb]]
      /\ UNCHANGED <<kbc, cmos, pit, power>>

ToReset(v) ==              \* bit 2 going up resets; bit 1 chooses how
  /\ power' = IF (v \div 4) % 2 = 1 THEN "reset" ELSE "pulse"
  /\ UNCHANGED <<kbc, cmos, pit, dac>>

Write(p, v) ==
  \/ p \in {"0x60", "0x64"} /\ ToKbc(p, v)
  \/ p \in {"0x70", "0x71"} /\ ToCmos(p, v)
  \/ p \in {"0x42", "0x43", "0x61"} /\ ToPit(p, v)
  \/ p \in {"0x3c8", "0x3c9"} /\ ToDac(p, v)
  \/ p = "0xcf9" /\ ToReset(v)

(* The controller takes a byte: after 0xd2 it is handed to the kernel as a *)
(* key; another goes to the keyboard, where 0xed announces the LED mask.   *)
Controller ==
  /\ On /\ Busy
  /\ LET p == kbc.ibf[1]
         v == kbc.ibf[2]
     IN  /\ kbc' = CASE p = "0x64" ->
                          [kbc EXCEPT !.ibf = Empty, !.asKey = (v = 210)]
                     [] p = "0x60" /\ kbc.asKey ->
                          [kbc EXCEPT !.ibf = Empty, !.asKey = FALSE,
                                      !.keys = Append(@, v)]
                     [] OTHER ->
                          [kbc EXCEPT !.ibf = Empty, !.mask = (v = 237),
                                      !.leds = IF kbc.mask /\ v < 8 THEN v ELSE @]
         /\ power' = IF p = "0x64" /\ v = 254 THEN "reset" ELSE power
  /\ UNCHANGED <<procs, cmos, pit, dac, pm, val, disk>>

(***************************************************************************)
(* Instructions at work.                                                   *)
(***************************************************************************)
Jump(t) ==
  /\ Running(t)
  /\ \/ Instr(t).op = "wait" /\ ~Busy /\ NextInstr(t)
     \/ /\ \/ Instr(t).op = "goto"
           \/ Instr(t).op = "ifbusy" /\ Busy
        /\ ip' = [ip EXCEPT ![t] = Instr(t).val]
     \/ Instr(t).op = "ifbusy" /\ ~Busy /\ NextInstr(t)
  /\ UNCHANGED <<users, apart, got, killed, cli, devs>>

Output(t) ==
  /\ Running(t)
  /\ \/ Instr(t).op = "out" /\ Write(Instr(t).port, Instr(t).val)
     \/ Instr(t).op = "outnot" /\ Write(Instr(t).port, Instr(t).val - Last(got[t]))
  /\ NextInstr(t)
  /\ UNCHANGED <<users, apart, got, killed, cli, pm, val, disk>>

Input(t) ==                \* the byte from 0x61 is not used
  /\ Running(t) /\ Instr(t).op = "in"
  /\ got' = IF Instr(t).port = "0x71"
              THEN [got EXCEPT ![t] = Append(@, cmos.ram[cmos.index])] ELSE got
  /\ NextInstr(t)
  /\ UNCHANGED <<users, apart, killed, cli, devs>>

Flags(t) ==
  /\ Running(t)
  /\ \/ Instr(t).op = "cli" /\ cli' = cli \cup {t}
     \/ Instr(t).op = "sti" /\ cli' = cli \ {t}
  /\ NextInstr(t)
  /\ UNCHANGED <<users, apart, got, killed, devs>>

(* What follows in the text may return to the caller, or crash.            *)
FallThrough(t) ==
  /\ Running(t) /\ Instr(t).op = "falls"
  /\ \/ killed' = killed \cup {t} /\ UNCHANGED ip
     \/ NextInstr(t) /\ UNCHANGED killed
  /\ UNCHANGED <<users, apart, got, cli, devs>>

(* port_read(), one register: a second register that is 0 is left out.     *)
PortRead(t) ==
  /\ Running(t) /\ Instr(t).op \in {"load", "join"}
  /\ LET r == Instr(t).port
     IN  val' = (IF Instr(t).op = "join" THEN val ELSE {})
                \cup (IF r \in DOMAIN pm THEN pm[r] ELSE {})
  /\ NextInstr(t)
  /\ UNCHANGED <<users, apart, got, killed, cli, kbc, cmos, pit, dac, pm, disk, power>>

(* A status bit is cleared by writing 1; the same 32 bits hold the event   *)
(* enables.  A machine sleeps when all control registers have slp_en.      *)
Event == {"evta", "evtb"}

PmWrite(r, v) ==
  IF r \in Event THEN (pm[r] \ (v \cup {"btn_en"})) \cup (v \cap {"btn_en"}) ELSE v

Asleep(p) == \A r \in DOMAIN p \ Event : S5 \cup {"slp_en"} \subseteq p[r]

PortWrite(t) ==
  /\ Running(t) /\ Instr(t).op \in {"store", "storeif"}
  /\ LET r == Instr(t).port
         v == (val \cap Instr(t).val.keep) \cup Instr(t).val.add
     IN  /\ val' = v
         /\ IF r \notin DOMAIN pm \/ (Instr(t).op = "storeif" /\ v = {})
              THEN UNCHANGED <<pm, power>>
              ELSE /\ pm' = [pm EXCEPT ![r] = PmWrite(r, v)]
                   /\ power' = IF Asleep(pm') THEN "s5" ELSE power
  /\ NextInstr(t)
  /\ UNCHANGED <<users, apart, got, killed, cli, kbc, cmos, pit, dac, disk>>

Sync(t) ==
  /\ Running(t) /\ Instr(t).op = "sync"
  /\ disk' = "clean"
  /\ NextInstr(t)
  /\ UNCHANGED <<users, apart, got, killed, cli, kbc, cmos, pit, dac, pm, val, power>>

Execute(t) ==
  \/ Jump(t) \/ Output(t) \/ Input(t) \/ Flags(t) \/ FallThrough(t)
  \/ PortRead(t) \/ PortWrite(t) \/ Sync(t)

(***************************************************************************)
(* The environment: a signal ends a program between two instructions,      *)
(* unless it holds interrupts off; seconds go by; the power button.        *)
(***************************************************************************)
Signal(t) ==
  /\ Running(t) /\ t \notin cli \cup Kernel
  /\ killed' = killed \cup {t}
  /\ UNCHANGED <<users, apart, ip, got, cli, devs>>

Tick ==
  /\ On /\ users \cap {"cmos-dump", "rtc"} # {}
  /\ cmos' = [cmos EXCEPT !.ram[0] = (@ + 1) % 2]
  /\ UNCHANGED <<procs, kbc, pit, dac, pm, val, disk, power>>

Button ==
  /\ On /\ "halt" \in users
  /\ \E r \in DOMAIN pm \cap Event : pm' = [pm EXCEPT ![r] = @ \cup {"btn_sts"}]
  /\ UNCHANGED <<procs, kbc, cmos, pit, dac, val, disk, power>>

Machines ==                \* with and without PM1b
  LET evt == SUBSET {"wak_sts", "btn_en"}
      cnt == {{}, {"sci_en"}, {"sci_en", "typ1"}}
  IN  [evta : evt, cnta : cnt] \cup [evta : evt, evtb : evt, cnta : cnt, cntb : cnt]

PortInit ==
  /\ users \in Companies
  /\ apart \in IF Cardinality(users) = 1 THEN {FALSE} ELSE BOOLEAN
  /\ ip = [t \in users |-> 1] /\ got = [t \in users |-> Empty]
  /\ killed = {} /\ cli = {}
  /\ kbc = [ibf |-> Empty, lost |-> FALSE, asKey |-> FALSE, keys |-> Empty,
            mask |-> FALSE, leds |-> 0]
  /\ cmos = [index |-> 0, ram |-> [a \in Cell |-> a]]
  /\ pit = [port61 |-> 0, low |-> Empty, div |-> 0]
  /\ dac = [index |-> 0, rgb |-> Empty, palette |-> [i \in Cell |-> <<7, 7, 7>>]]
  /\ IF "halt" \in users THEN pm \in Machines ELSE pm = [evta |-> {}, cnta |-> {}]
  /\ val = {} /\ disk = "dirty" /\ power = "on"

Done == ~On \/ \A t \in users : t \in killed \/ Ended(t)

PortsIdle == Done /\ (On => ~Busy) /\ UNCHANGED portVars

PortNext ==
  \/ \E t \in users : Execute(t) \/ Signal(t)
  \/ Controller \/ Tick \/ Button
  \/ PortsIdle

(* Every processor runs what is ready on it, the controller takes what it  *)
(* is given; nobody need press a key or send a signal.                     *)
Fairness == WF_portVars(Controller) /\ \A t \in Tools \cup Kernel : WF_portVars(Execute(t))

PortSpec == PortInit /\ [][PortNext]_portVars /\ Fairness

-----------------------------------------------------------------------------
(* Type invariant: the programs' counters and every device's registers.    *)
PortTypeOK ==
  /\ users \subseteq Tools \cup Kernel /\ apart \in BOOLEAN
  /\ \A t \in users : ip[t] \in 1 .. Len(Prog[t]) + 1 /\ got[t] \in Seq(Byte)
  /\ killed \subseteq users /\ cli \subseteq users
  /\ kbc \in [ibf : {Empty} \cup ({"0x60", "0x64"} \X Byte), lost : BOOLEAN,
              asKey : BOOLEAN, keys : Seq(Byte), mask : BOOLEAN, leds : 0 .. 7]
  /\ cmos.index \in Cell /\ cmos.ram \in [Cell -> Byte]
  /\ pit.port61 \in Byte /\ pit.low \in {Empty} \cup {<<b>> : b \in Byte}
  /\ pit.div \in Nat /\ pit.div < 256 * 256
  /\ dac.index \in Byte /\ Len(dac.rgb) < 3
  /\ \A i \in Cell : dac.palette[i] \in (0 .. 63) \X (0 .. 63) \X (0 .. 63)
  /\ disk \in {"dirty", "clean"} /\ power \in {"on", "s5", "pulse", "reset"}

KbcUsers  == {"keycode", "led", "flash_led", "reboot_keyb", "atkbd"}
CmosUsers == {"cmos-reset", "cmos-dump", "rtc"}
Beepers   == {"beep", "beep_asm"}
DacUsers  == {"vga", "flash"}

Worked(t)     == Ended(t) /\ t \notin killed /\ ~Busy
Only(t, them) == Worked(t) /\ users \cap them = {t}

(* A program that had its device for itself leaves exactly what it is for: *)
(* no byte overruns the controller, every key goes down and up in order,   *)
(* the dump is the RAM but for the clock, the palette is set, the machine  *)
(* is off or reset after its disks were synced; the speaker is off even    *)
(* after two beepers mixed up (keycode.c:33-61, cmos-dump.c:26-41,         *)
(* vga.c:28-46, vga-palette.S:25-128, beep.c:38, beep_main.c:33-35,        *)
(* halt.c:93-106, reboot.c:43-66).                                         *)
SoleUserExact ==
  /\ (\E t \in users : users \cap KbcUsers = {t}) => ~kbc.lost
  /\ Only("keycode", KbcUsers) => kbc.keys = Codes
  /\ Only("cmos-dump", CmosUsers) =>
       \A a \in 1 .. CELLS - 1 : got["cmos-dump"][a + 1] = cmos.ram[a]
  /\ Only("vga", DacUsers) => \A i \in 0 .. PAINTED - 1 : dac.palette[i] = <<0, 0, 32>>
  /\ Only("flash", DacUsers) =>
       \A i \in Cell :
         dac.palette[i] = IF i < FLASHED THEN <<63, 63, 63>> ELSE <<7, 7, 7>>
  /\ (\A t \in users : t \in Beepers /\ Worked(t)) => pit.port61 = 0
  /\ Worked("halt") => power = "s5"
  /\ \A t \in {"reboot", "reboot_keyb"} :
       Only(t, KbcUsers \cup {"reboot"}) => power = "reset" /\ disk = "clean"

(* cmos-reset inverts both checksum bytes or, if a signal ends it early,   *)
(* neither, and nothing else, provided every other user of the index port  *)
(* is on its processor: cli holds them off, until sti (cmos-reset.c:62-66).*)
CmosExact ==
  LET t        == "cmos-reset"
      inverted == {a \in Cell \ {0} : cmos.ram[a] # a}
  IN  t \in users /\ ~apart =>
        /\ t \in killed => inverted = {}
        /\ Ended(t) => /\ t \notin cli /\ inverted = {46, 47}
                       /\ \A a \in inverted : cmos.ram[a] = 255 - a

(* Codes of hello[] that the kernel was given as keys, by place.           *)
Through == {i \in 1 .. Len(kbc.keys) : kbc.keys[i] \in ToSet(Codes)}

(* When the keyboard driver changes the LEDs while keycode runs, each byte *)
(* of the driver costs at most one code, and the controller is not left    *)
(* waiting for a code (keycode.c:35-40).                                   *)
KeysSurvive ==
  Worked("keycode") /\ users = {"keycode", "atkbd"} /\ Ended("atkbd") =>
    /\ Cardinality(Through) + 2 * CALLS >= 2 * KEYS
    /\ ~kbc.asKey

(* halt sets slp_en in a register only when all registers have the type S5,*)
(* and never acknowledges a press of the power button (halt.c:93-106).     *)
HaltDiscipline ==
  [][\A r \in DOMAIN pm :
       /\ "slp_en" \in pm'[r] => \A q \in DOMAIN pm \ Event : S5 \subseteq pm[q]
       /\ "btn_sts" \in pm[r] => "btn_sts" \in pm'[r]]_portVars

(* The LEDs go on and off for ever, as the README of led-flash-user-space  *)
(* says, even if the keyboard driver gets between 0xed and its mask for a  *)
(* while; of led_flash.S only the on phase is certain, since it skips the  *)
(* off phase when the controller is busy (led_flash.S:58-60).              *)
LedsFlash ==
  /\ []<>(kbc.leds = 5 \/ users \cap {"led", "flash_led"} \subseteq killed)
  /\ []<>(kbc.leds = 0 \/ users \cap {"led"} \subseteq killed)

=============================================================================
