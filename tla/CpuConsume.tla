----------------------------- MODULE CpuConsume -----------------------------
(***************************************************************************)
(* The pool of CPU-consuming children of latency-test/latency-test.c and   *)
(* hz-test/hz-test.c: cpu_consume_start() forks TASKS of them, main() runs *)
(* its load tests, cpu_consume_complete() kills and collects them, and the *)
(* clock test follows.  A SIGINT handler kills and collects them too, at   *)
(* any moment.  hz-test's kill loop tests if (!cpu_pids[i]): the children  *)
(* that were recorded are skipped, and an empty slot makes the call        *)
(* kill(0, SIGUSR1), which goes to the whole process group: the children   *)
(* die of it, and so does the parent, which has no SIGUSR1 handler.        *)
(*                                                                         *)
(* test_cpu_usage() spins until the time stamp counter has advanced by     *)
(* WINDOW.  hz-test puts the halves of the counter together.  On x86-64    *)
(* latency-test's rd_clock() asks for it with "=A", which is one register  *)
(* there: the low half or the high half, whichever the compiler takes at   *)
(* that place.                                                             *)
(*                                                                         *)
(* The child of slot s is called s.  Children inherit the SIGINT handler   *)
(* and a copy of cpu_pids that holds the children forked before them.      *)
(***************************************************************************)
EXTENDS Integers

CONSTANTS
  TASKS,      \* MAX_TASKS
  MayFail,    \* may calloc() and fork() fail?
  MaxInts,    \* bound: SIGINTs sent in a behaviour
  SAMPLES,    \* CPU_SAMPLES
  WINDOW,     \* ticks of a sample, 1000000000
  Width,      \* number of values of half a counter, 2^32
  Uptime      \* bound: readings of the whole counter at the start of a sample

ASSUME TasksAssumption == TASKS \in Nat \ {0}
ASSUME EnvAssumption   == MayFail \in BOOLEAN /\ MaxInts \in Nat
ASSUME ClockAssumption == /\ {SAMPLES, WINDOW, Width} \subseteq Nat \ {0}
                          /\ Uptime \in Nat

Slot == 1 .. TASKS

VARIABLES
  tool,     \* the program: "latency-test" or "hz-test"
  mpc,      \* control point of the parent; "handler": in cpu_sigint_handler()
  from,     \* the point the handler interrupted, "none" before
  k,        \* loop counter, from 1
  part, t2, \* what the loop of a sample reads, and the reading that ends it;
            \* "none" and 0 between samples
  waiting,  \* the kill loop has signalled slot k and is in waitid()
  heap,     \* the array behind cpu_pids: "null", "live" or "freed"
  pids,     \* cpu_pids[]
  kid,      \* life of each child
  kidk,     \* loop counter of a child in the inherited handler
  pending, sent    \* SIGINT pending for the parent; SIGINTs sent so far

vars  == <<tool, mpc, from, k, part, t2, waiting, heap, pids, kid, kidk,
           pending, sent>>
kids  == <<kid, kidk>>
ints  == <<pending, sent>>
clock == <<part, t2>>

Over   == mpc \in {"gone", "crash"}
Hz     == tool = "hz-test"
Living == {"hog", "handling"}

(***************************************************************************)
(* Children and signals.                                                   *)
(***************************************************************************)

(* SIGUSR1 to child s: cpu_consume_sighandler(), or the default action     *)
(* before it is installed; both end the child.                             *)
Signalled(s) == kid' = [kid EXCEPT ![s] = IF @ \in Living THEN "doomed" ELSE @]

Die(s) ==
  /\ kid[s] = "doomed"
  /\ kid' = [kid EXCEPT ![s] = IF Over THEN "reaped" ELSE "zombie"]
  /\ UNCHANGED <<tool, mpc, from, k, waiting, heap, pids, kidk, ints, clock>>

(* kill(0, SIGUSR1), whoever in the group calls it.                        *)
GroupSignalled ==
  /\ kid' = [s \in Slot |-> IF kid[s] \in Living THEN "doomed" ELSE kid[s]]
  /\ mpc' = IF Over THEN mpc ELSE "gone"

(* A child's cpu_consume_kill() signals the siblings of its copy; waitid() *)
(* fails with ECHILD.  Then exit(0).                                       *)
KidHandler(s) ==
  /\ ~Hz /\ kid[s] = "handling"
  /\ IF kidk[s] < s
       THEN Signalled(kidk[s]) /\ kidk' = [kidk EXCEPT ![s] = @ + 1]
       ELSE kid' = [kid EXCEPT ![s] = "doomed"] /\ UNCHANGED kidk
  /\ UNCHANGED <<tool, mpc, from, k, waiting, heap, pids, ints, clock>>

(* In hz-test its own slot is the first empty one of its copy.             *)
HzKidHandler_ignored(s) == \* mutant: children ignore SIGINT, as in cpu-hog
  /\ Hz /\ kid[s] = "handling"
  /\ kid' = [kid EXCEPT ![s] = "hog"]
  /\ UNCHANGED <<tool, mpc, from, k, waiting, heap, pids, kidk, ints, clock>>

HzKidHandler(s) ==
  /\ Hz /\ kid[s] = "handling"
  /\ GroupSignalled
  /\ UNCHANGED <<tool, from, k, waiting, heap, pids, kidk, ints, clock>>

(* kill -INT of the parent, or Ctrl-C, which goes to the process group.    *)
Interrupt ==
  /\ sent < MaxInts /\ ~Over
  /\ sent' = sent + 1
  /\ pending' = TRUE
  /\ \/ UNCHANGED kid
     \/ kid' = [s \in Slot |-> IF kid[s] = "hog" THEN "handling" ELSE kid[s]]
  /\ UNCHANGED <<tool, mpc, from, k, waiting, heap, pids, kidk, clock>>

(***************************************************************************)
(* The parent.  A SIGINT that is not blocked is delivered before the       *)
(* parent's next step.                                                     *)
(***************************************************************************)

(* calloc(), then signal(SIGINT, cpu_sigint_handler); main() ignores -1.   *)
Start ==
  /\ mpc = "start" /\ ~pending
  /\ \/ heap' = "live" /\ mpc' = "fork"
     \/ MayFail /\ mpc' = "loads" /\ UNCHANGED heap     \* return -1
  /\ UNCHANGED <<tool, from, k, waiting, pids, kids, ints, clock>>

(* Until the handler is installed SIGINT ends the parent. *)
DiesYoung ==
  /\ heap = "null" /\ ~Over /\ pending
  /\ mpc' = "gone"
  /\ UNCHANGED <<tool, from, k, waiting, heap, pids, kids, ints, clock>>

Fork ==
  /\ mpc = "fork" /\ ~pending
  /\ \/ /\ kid' = [kid EXCEPT ![k] = "hog"]
        /\ mpc' = "record"
        /\ UNCHANGED k
     \/ /\ MayFail
        /\ mpc' = "abort" /\ k' = 1          \* "Went wrong"
        /\ UNCHANGED kid
  /\ UNCHANGED <<tool, from, waiting, heap, pids, kidk, ints, clock>>

(* cpu_pids[i] = pid, a step after the fork. *)
Record_oneMore ==          \* mutant: i <= MAX_TASKS
  /\ mpc = "record" /\ ~pending
  /\ pids' = [pids EXCEPT ![k] = k]
  /\ IF k <= TASKS THEN mpc' = "fork" /\ k' = k + 1
                   ELSE mpc' = "loads" /\ UNCHANGED k
  /\ UNCHANGED <<tool, from, waiting, heap, kids, ints, clock>>

Record ==
  /\ mpc = "record" /\ ~pending
  /\ pids' = [pids EXCEPT ![k] = k]
  /\ IF k < TASKS THEN mpc' = "fork" /\ k' = k + 1
                  ELSE mpc' = "loads" /\ UNCHANGED k
  /\ UNCHANGED <<tool, from, waiting, heap, kids, ints, clock>>

(* test_cpu_loads(): statistics, nothing that anything else depends on.    *)
Loads ==
  /\ mpc = "loads" /\ ~pending
  /\ mpc' = "usage" /\ k' = 1
  /\ UNCHANGED <<tool, from, waiting, heap, pids, kids, ints, clock>>

(* rd_clock() or rdtsc() when the whole counter stands at tsc.             *)
Parts == IF Hz THEN {"whole"} ELSE {"low", "high"}

Reading(p, tsc) ==
  CASE p = "low" -> tsc % Width [] p = "high" -> tsc \div Width [] OTHER -> tsc

(* t2 = t1 + WINDOW; the readings before and in the loop are compiled      *)
(* apart and need not be of the same half.                                 *)
Sample ==
  /\ mpc = "usage" /\ ~pending
  /\ part = "none" /\ k <= SAMPLES
  /\ part' \in Parts
  /\ \E p \in Parts, tsc \in 0 .. Uptime : t2' = Reading(p, tsc) + WINDOW
  /\ UNCHANGED <<tool, mpc, from, k, waiting, heap, pids, kids, ints>>

(* No later value of the counter ends the loop.  The low half goes round,  *)
(* the high half does not get to t2 in the time that is looked at.         *)
Stuck ==
  part # "none" /\ \A tsc \in 0 .. Uptime + WINDOW : Reading(part, tsc) < t2

(* while (rd_clock() < t2) ends.                                           *)
SampleEnd ==
  /\ mpc = "usage" /\ ~pending
  /\ part # "none" /\ ~Stuck
  /\ part' = "none" /\ t2' = 0
  /\ k' = k + 1
  /\ UNCHANGED <<tool, mpc, from, waiting, heap, pids, kids, ints>>

UsageEnd ==
  /\ mpc = "usage" /\ ~pending /\ k > SAMPLES
  /\ mpc' = "complete" /\ k' = 1
  /\ UNCHANGED <<tool, from, waiting, heap, pids, kids, ints, clock>>

InKill == mpc = "handler" \/ (mpc \in {"abort", "complete"} /\ ~pending)

(* Without an array cpu_pids[0] faults. *)
NullFault ==
  /\ InKill /\ heap = "null"
  /\ mpc' = "crash"
  /\ UNCHANGED <<tool, from, k, waiting, heap, pids, kids, ints, clock>>

InLoop == InKill /\ heap # "null" /\ k <= TASKS

(* if (cpu_pids[i]) kill(cpu_pids[i], SIGUSR1).  A freed array still holds *)
(* the old pids, or whatever the allocator has put there.                  *)
Kill ==
  /\ ~Hz /\ InLoop /\ ~waiting
  /\ pids[k] # 0 /\ Signalled(k)
  /\ waiting' = TRUE
  /\ UNCHANGED <<tool, mpc, from, k, heap, pids, kidk, ints, clock>>

Skip ==
  /\ ~Hz /\ InLoop /\ ~waiting
  /\ pids[k] = 0 \/ heap = "freed"            \* a junk zero, or a stranger's pid
  /\ k' = k + 1
  /\ UNCHANGED <<tool, mpc, from, waiting, heap, pids, kids, ints, clock>>

(* waitid(P_PID, cpu_pids[i], &info, WEXITED): ECHILD when the child was   *)
(* collected before, else until it is dead.  The entry keeps its pid.      *)
Wait_noHang ==             \* mutant: WNOHANG, and the loop gives up at the first
  /\ InKill /\ waiting
  /\ waiting' = FALSE /\ k' = IF kid[k] = "doomed" THEN TASKS + 1 ELSE k + 1
  /\ kid' = [kid EXCEPT ![k] = IF @ = "zombie" THEN "reaped" ELSE @]
  /\ UNCHANGED <<tool, mpc, from, heap, pids, kidk, ints, clock>>

Wait ==
  /\ InKill /\ waiting
  /\ kid[k] \in {"zombie", "reaped"}
  /\ kid' = [kid EXCEPT ![k] = "reaped"]
  /\ waiting' = FALSE /\ k' = k + 1
  /\ UNCHANGED <<tool, mpc, from, heap, pids, kidk, ints, clock>>

(* if (!cpu_pids[i]) kill(0, SIGUSR1): a freed array may hold a zero, or   *)
(* an old pid, in any slot.                                                *)
HzKill_nullSignal ==       \* mutant: kill(0, 0), which only asks for existence
  /\ Hz /\ InLoop /\ (pids[k] = 0 \/ heap = "freed")
  /\ k' = k + 1
  /\ UNCHANGED <<tool, mpc, from, waiting, heap, pids, kids, ints, clock>>

HzKill ==
  /\ Hz /\ InLoop /\ (pids[k] = 0 \/ heap = "freed")
  /\ GroupSignalled
  /\ UNCHANGED <<tool, from, k, waiting, heap, pids, kidk, ints, clock>>

HzSkip ==
  /\ Hz /\ InLoop /\ (pids[k] # 0 \/ heap = "freed")
  /\ k' = k + 1
  /\ UNCHANGED <<tool, mpc, from, waiting, heap, pids, kids, ints, clock>>

(* The end of the kill loop in cpu_consume_complete(): free(cpu_pids).     *)
(* After a failed fork main() gets here twice; the second free() is        *)
(* detected, or corrupts the heap silently.                                *)
Free ==
  /\ mpc \in {"abort", "complete"} /\ ~pending /\ k > TASKS
  /\ heap' = "freed"
  /\ \/ mpc' = IF mpc = "abort" THEN "loads" ELSE "jitter"
     \/ heap = "freed" /\ mpc' = "crash"
  /\ UNCHANGED <<tool, from, k, waiting, pids, kids, ints, clock>>

(* test_clock_jitter() and exit(). *)
Jitter ==
  /\ mpc = "jitter" /\ ~pending
  /\ mpc' = "gone"
  /\ UNCHANGED <<tool, from, k, waiting, heap, pids, kids, ints, clock>>

(* cpu_sigint_handler() starts; it never returns to main().                *)
Handler ==
  /\ pending /\ heap # "null"
  /\ mpc \notin {"handler", "gone", "crash"}
  /\ pending' = FALSE
  /\ from' = mpc /\ mpc' = "handler"
  /\ k' = 1 /\ waiting' = FALSE
  /\ UNCHANGED <<tool, heap, pids, kids, sent, clock>>

HandlerExit_returns ==     \* mutant: exit(0) is forgotten
  /\ mpc = "handler" /\ k > TASKS
  /\ mpc' = from
  /\ k' = 1
  /\ UNCHANGED <<tool, from, waiting, heap, pids, kids, ints, clock>>

HandlerExit ==
  /\ mpc = "handler" /\ k > TASKS
  /\ mpc' = "gone"
  /\ UNCHANGED <<tool, from, k, waiting, heap, pids, kids, ints, clock>>

(***************************************************************************)

Init ==
  /\ tool \in {"latency-test", "hz-test"}
  /\ mpc = "start" /\ from = "none"
  /\ k = 1 /\ waiting = FALSE
  /\ part = "none" /\ t2 = 0
  /\ heap = "null" /\ pids = [s \in Slot |-> 0]
  /\ kid = [s \in Slot |-> "unborn"] /\ kidk = [s \in Slot |-> 1]
  /\ pending = FALSE /\ sent = 0

Measure  == Sample \/ SampleEnd \/ UsageEnd
KillLoop == NullFault \/ Kill \/ Skip \/ Wait \/ HzKill \/ HzSkip
Kid(s)   == Die(s) \/ KidHandler(s) \/ HzKidHandler(s)

Parent ==
  \/ Start \/ DiesYoung \/ Fork \/ Record
  \/ Loads \/ Measure
  \/ KillLoop \/ Free \/ Jitter \/ Handler \/ HandlerExit

Finished ==
  /\ Over /\ \A s \in Slot : kid[s] \notin {"handling", "doomed"}
  /\ UNCHANGED vars

Next ==
  \/ Parent
  \/ Interrupt
  \/ \E s \in Slot : Kid(s)
  \/ Finished

(* Linux schedules every process; the user need not press Ctrl-C.          *)
Fairness ==
  /\ WF_vars(Parent)
  /\ \A s \in Slot : WF_vars(Kid(s))

Spec     == Init /\ [][Next]_vars
FairSpec == Spec /\ Fairness

-----------------------------------------------------------------------------
(* Type invariant: control points, the pool array, the children.           *)
TypeOK ==
  /\ tool \in {"latency-test", "hz-test"}
  /\ mpc \in {"start", "fork", "record", "abort", "loads", "usage", "complete",
              "jitter", "handler", "gone", "crash"}
  /\ from \in {"none", "fork", "record", "abort", "loads", "usage", "complete",
               "jitter"}
  /\ k \in CASE mpc \in {"fork", "record"} -> Slot
            [] mpc = "usage"               -> 1 .. SAMPLES + 1
            [] Over                        -> Nat
            [] OTHER                       -> 1 .. TASKS + 1
  /\ part \in Parts \cup {"none"} /\ t2 \in Nat
  /\ waiting \in BOOLEAN
  /\ heap \in {"null", "live", "freed"}
  /\ pids \in [Slot -> {0} \cup Slot]
  /\ kid \in [Slot -> {"unborn", "hog", "handling", "doomed", "zombie", "reaped"}]
  /\ kidk \in [Slot -> Slot]
  /\ pending \in BOOLEAN /\ sent \in Nat

(* When latency-test's parent has ended, in whatever way, at most one child*)
(* is still burning CPU: one the handler could not know, because SIGINT    *)
(* came between fork() and cpu_pids[i] = pid (latency-test.c:134-144).  A  *)
(* parent of hz-test that ends while its pool has an empty slot, because   *)
(* fork() failed or SIGINT came early, leaves not even that one            *)
(* (hz-test.c:62-67, 113-124).                                             *)
OneOrphanAtMost ==
  Over => \A s \in Slot : kid[s] \in Living =>
            IF Hz THEN \A r \in Slot : pids[r] # 0
                  ELSE /\ from = "record" /\ pids[s] = 0
                       /\ \A r \in Slot : kid[r] \in Living => r = s

(* Ctrl-C, unlike a SIGINT to the parent alone, ends hz-test's parent and  *)
(* every hog although the parent's own kill loop skips a full pool: the    *)
(* children have inherited the handler, and in their copies of cpu_pids    *)
(* their own slot is still empty (hz-test.c:62-67, 75-79, 108-116).        *)
CtrlCClears ==
  Hz /\ (\E s \in Slot : kid[s] = "handling")
    ~> Over /\ \A s \in Slot : kid[s] \notin Living

(* The programs end, by themselves or by SIGINT, and no signalled child    *)
(* stays, unless latency-test spins for a reading that rd_clock() can      *)
(* never give (latency-test.c:163-170, 354-358; hz-test.c:130-142).  Even  *)
(* then, as in a fork or in the clean-up, a SIGINT ends the parent         *)
(* (latency-test.c:74-100, 129).                                           *)
Ends ==
  /\ \/ <>(Over /\ \A s \in Slot : kid[s] \notin {"handling", "doomed"})
     \/ <>[](~Hz /\ mpc = "usage" /\ Stuck)
  /\ pending ~> Over

=============================================================================
