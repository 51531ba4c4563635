------------------------------- MODULE Kmesg -------------------------------
(***************************************************************************)
(* kmesg/kmesg.c: reads the kernel log with klogctl(4), which also clears  *)
(* it, and appends what it got to a file, for ever.  Several instances may *)
(* append to one file; each may be killed and started again.  A unit is    *)
(* what one write() can split off: a byte of a message.                    *)
(***************************************************************************)
EXTENDS Integers, Sequences, FiniteSets

CONSTANTS
  Reader,     \* instances of kmesg
  RING,       \* units the kernel keeps, measured as the text klogctl returns
  BUF,        \* the answer of klogctl(10), the size of the buffer
  MaxUnits,   \* bound: units the kernel emits
  MaxKills    \* bound: kills of instances

ASSUME SizesAssumption == RING \in Nat \ {0} /\ BUF \in Nat \ {0}
ASSUME BoundsAssumption == MaxUnits \in Nat /\ MaxKills \in Nat

VARIABLES
  produced,   \* units emitted so far
  ring,       \* units emitted since the last clear that the kernel still has
  log,        \* the log file
  pc,         \* "off" (not running), "poll" or "write"
  sz,         \* BUF, or -1 when klogctl(10) failed
  denied,     \* instances that may not read and clear the log: klogctl(4) is -1
  buf,        \* what is left between ptr and ptr + n
  kills,
  lost        \* history: units that can no longer reach the file

vars == <<produced, ring, log, pc, sz, denied, buf, kills, lost>>

Elems(s) == {s[k] : k \in DOMAIN s}
Newest(s, n) == IF Len(s) > n THEN SubSeq(s, Len(s) - n + 1, Len(s)) ELSE s
Stamped(p, s) == [k \in DOMAIN s |-> [by |-> p, unit |-> s[k]]]

(* The kernel emits a unit; a full ring drops its oldest.                  *)
Emit ==
  /\ produced < MaxUnits
  /\ produced' = produced + 1
  /\ ring' = Newest(Append(ring, produced + 1), RING)
  /\ lost' = lost \cup (Elems(ring) \ Elems(ring'))
  /\ UNCHANGED <<log, pc, sz, denied, buf, kills>>

(* open(O_APPEND), klogctl(10), malloc(sz + 1).  A failed open or malloc   *)
(* ends the program; a failed klogctl(10) goes unnoticed with sz = -1.     *)
(* Without CAP_SYSLOG the size may be known and klogctl(4) be refused.     *)
Start(p) ==
  /\ pc[p] = "off"
  /\ \E s \in {BUF, -1} : sz' = [sz EXCEPT ![p] = s]
  /\ denied' \in {denied \cup {p}, denied \ {p}}
  /\ pc' = [pc EXCEPT ![p] = "poll"]
  /\ UNCHANGED <<produced, ring, log, buf, kills, lost>>

(* klogctl(4) is answered at all: a negative size is refused for ever, and *)
(* so is a caller without the privilege.                                   *)
Serving(p) == pc[p] # "off" /\ sz[p] > 0 /\ p \notin denied

(* klogctl(4, buffer, sz) > 0: the newest sz units, and the log is clear.  *)
Poll_whole(p) ==           \* mutant: the size is not respected
  /\ pc[p] = "poll" /\ Serving(p) /\ ring # <<>>
  /\ buf' = [buf EXCEPT ![p] = ring]
  /\ ring' = <<>>
  /\ pc' = [pc EXCEPT ![p] = "write"]
  /\ UNCHANGED <<produced, log, sz, denied, kills, lost>>

Poll_noClear(p) ==         \* mutant: klogctl(3), the log is not cleared
  /\ pc[p] = "poll" /\ Serving(p) /\ ring # <<>>
  /\ buf' = [buf EXCEPT ![p] = Newest(ring, sz[p])]
  /\ pc' = [pc EXCEPT ![p] = "write"]
  /\ UNCHANGED <<produced, ring, log, sz, denied, kills, lost>>

Poll(p) ==
  /\ pc[p] = "poll" /\ Serving(p) /\ ring # <<>>
  /\ buf' = [buf EXCEPT ![p] = Newest(ring, sz[p])]
  /\ ring' = <<>>
  /\ lost' = lost \cup (Elems(ring) \ Elems(buf'[p]))
  /\ pc' = [pc EXCEPT ![p] = "write"]
  /\ UNCHANGED <<produced, log, sz, denied, kills>>

(* klogctl(4) returns 0 (an empty log) or -1 (refused, or it failed this   *)
(* time): usleep and poll again.                                           *)
Idle(p) == pc[p] = "poll" /\ UNCHANGED vars

(* write() takes some of the rest; O_APPEND puts it at the end of file.    *)
Write_noAdvance(p) ==      \* mutant: n -= written without ptr += written
  /\ pc[p] = "write"
  /\ \E w \in 1 .. Len(buf[p]) :
       /\ log' = log \o Stamped(p, SubSeq(buf[p], 1, w))
       /\ buf' = [buf EXCEPT ![p] = SubSeq(@, 1, Len(@) - w)]
  /\ pc' = IF buf'[p] = <<>> THEN [pc EXCEPT ![p] = "poll"] ELSE pc
  /\ UNCHANGED <<produced, ring, sz, denied, kills, lost>>

Write(p) ==
  /\ pc[p] = "write"
  /\ \E w \in 1 .. Len(buf[p]) :
       /\ log' = log \o Stamped(p, SubSeq(buf[p], 1, w))
       /\ buf' = [buf EXCEPT ![p] = SubSeq(@, w + 1, Len(@))]
  /\ pc' = IF buf'[p] = <<>> THEN [pc EXCEPT ![p] = "poll"] ELSE pc
  /\ UNCHANGED <<produced, ring, sz, denied, kills, lost>>

(* write() returns 0 or -1: the rest of the buffer is given up.            *)
WriteFails(p) ==
  /\ pc[p] = "write"
  /\ lost' = lost \cup Elems(buf[p])
  /\ buf' = [buf EXCEPT ![p] = <<>>]
  /\ pc' = [pc EXCEPT ![p] = "poll"]
  /\ UNCHANGED <<produced, ring, log, sz, denied, kills>>

(* A signal ends the instance; what it held is gone.                       *)
Kill(p) ==
  /\ pc[p] # "off" /\ kills < MaxKills
  /\ kills' = kills + 1
  /\ lost' = lost \cup Elems(buf[p])
  /\ buf' = [buf EXCEPT ![p] = <<>>]
  /\ pc' = [pc EXCEPT ![p] = "off"]
  /\ UNCHANGED <<produced, ring, log, sz, denied>>

Init ==
  /\ produced = 0 /\ ring = <<>> /\ log = <<>>
  /\ pc = [p \in Reader |-> "off"]
  /\ sz = [p \in Reader |-> BUF] /\ denied = {}
  /\ buf = [p \in Reader |-> <<>>]
  /\ kills = 0 /\ lost = {}

Loop(p) == Poll(p) \/ Write(p) \/ WriteFails(p)

Next == Emit \/ \E p \in Reader : Start(p) \/ Loop(p) \/ Idle(p) \/ Kill(p)

(* A running instance is scheduled again after each usleep(), and a read   *)
(* that it is allowed does not fail for ever.                              *)
Fairness == \A p \in Reader : WF_vars(Loop(p))

Spec     == Init /\ [][Next]_vars
FairSpec == Spec /\ Fairness

-----------------------------------------------------------------------------
(* Type invariant; in particular the kernel never overfills the buffer.    *)
TypeOK ==
  /\ produced \in 0 .. MaxUnits /\ kills \in 0 .. MaxKills
  /\ Elems(ring) \subseteq 1 .. produced /\ Len(ring) <= RING
  /\ \A k \in DOMAIN log : log[k] \in [by : Reader, unit : 1 .. produced]
  /\ pc \in [Reader -> {"off", "poll", "write"}]
  /\ sz \in [Reader -> {BUF, -1}] /\ denied \subseteq Reader
  /\ \A p \in Reader : /\ Elems(buf[p]) \subseteq 1 .. produced
                       /\ Len(buf[p]) <= BUF
                       /\ buf[p] # <<>> <=> pc[p] = "write"
  /\ lost \subseteq 1 .. produced

(* A unit is in exactly one place: the kernel, one instance's buffer, the  *)
(* file, or lost.  No instance gets what another one got (kmesg.c:59).     *)
Conserved ==
  LET Logged == {log[k].unit : k \in DOMAIN log}
      Held(p) == Elems(buf[p])
      Places == {Elems(ring), Logged, lost}
  IN /\ (UNION Places) \cup (UNION {Held(p) : p \in Reader}) = 1 .. produced
     /\ \A p \in Reader : \A s \in Places : Held(p) \cap s = {}
     /\ \A p, q \in Reader : p # q => Held(p) \cap Held(q) = {}
     /\ Elems(ring) \cap (Logged \cup lost) = {} /\ Logged \cap lost = {}
     /\ Cardinality(Logged) = Len(log)

(* The file is the log of LossyLog: partial writes (kmesg.c:61-70), kills  *)
(* and restarts never repeat, reorder or rewrite what an instance logged.  *)
LL == INSTANCE LossyLog WITH Reader <- Reader, produced <- produced, log <- log
IsLossyLog == LL!Spec

(* While an instance that may read the log keeps running, no unit stays in *)
(* the kernel's log or in the instance's buffer, even if writes fail, some *)
(* reads fail and the kernel goes on emitting for ever (kmesg.c:58-76).    *)
Drains ==
  \A p \in Reader :
    <>[]Serving(p) =>
      \A u \in 1 .. MaxUnits : []<>(u \notin Elems(ring) \cup Elems(buf[p]))

=============================================================================
