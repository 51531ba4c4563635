---------------------------- MODULE RdrandBench ----------------------------
(***************************************************************************)
(* rdrand-benchmark/rdrand.c: main() runs test(n) for n = 1 .. cpus.  Each *)
(* test creates n threads, opens a start gate, lets thread 0 execute a     *)
(* fixed number of rdrands while the others run until thread 0 raises      *)
(* end_test, joins all of them and sums what they measured.                *)
(*                                                                         *)
(* The two flags start_test and end_test are plain volatile ints, written  *)
(* by the main thread and by every worker, so every access is a step of    *)
(* its own here.                                                           *)
(***************************************************************************)
EXTENDS Integers, FiniteSets

CONSTANTS
  CPUS,           \* sysconf(_SC_NPROCESSORS_ONLN)
  Quota,          \* ITERATIONS, in batches of 32 rdrands
  MaxBatch,       \* bound: batches a helper counts before its counter saturates
  CreateMayFail   \* may pthread_create return an error (EAGAIN)?

ASSUME CpusAssumption   == CPUS \in Nat \ {0}
ASSUME QuotaAssumption  == Quota \in Nat \ {0} /\ MaxBatch \in Nat
ASSUME CreateAssumption == CreateMayFail \in BOOLEAN

Thread == 0 .. CPUS - 1

VARIABLES
  threads,     \* the argument of the current call of test()
  mpc,         \* control point of the main thread
  i,           \* loop counter of test()
  start_test,
  end_test,
  pc,          \* control point of each worker; "absent": no such thread
  count,       \* register i of test64(), in batches
  info         \* info[t].iter in batches; info[t].measured: usec was stored

vars == <<threads, mpc, i, start_test, end_test, pc, count, info>>

MainPoints   == {"enter", "create", "join", "exit", "crash"}
WorkerPoints == {"absent", "entry", "gate", "run", "store", "done"}

(***************************************************************************)
(* Worker threads: test64().                                               *)
(***************************************************************************)

(* end_test = false, executed by every worker as its first statement. *)
ResetEnd(t) ==
  /\ pc[t] = "entry"
  /\ end_test' = FALSE
  /\ pc' = [pc EXCEPT ![t] = "gate"]
  /\ UNCHANGED <<threads, mpc, i, start_test, count, info>>

(* while (!start_test) ; then the worker takes its first time stamp. *)
PassGate_noWait(t) ==      \* mutant: the gate is not waited for
  /\ pc[t] = "gate"
  /\ pc' = [pc EXCEPT ![t] = "run"]
  /\ count' = [count EXCEPT ![t] = 0]
  /\ UNCHANGED <<threads, mpc, i, start_test, end_test, info>>

PassGate(t) ==
  /\ pc[t] = "gate"
  /\ start_test
  /\ pc' = [pc EXCEPT ![t] = "run"]
  /\ count' = [count EXCEPT ![t] = 0]
  /\ UNCHANGED <<threads, mpc, i, start_test, end_test, info>>

(* Thread 0 counts up to info->iter, which test() set to ITERATIONS. *)
LeaderBatch ==
  /\ pc[0] = "run"
  /\ count[0] < info[0].iter
  /\ count' = [count EXCEPT ![0] = @ + 1]
  /\ UNCHANGED <<threads, mpc, i, start_test, end_test, pc, info>>

LeaderStop_silent ==       \* mutant: the leader forgets to raise end_test
  /\ pc[0] = "run"
  /\ count[0] >= info[0].iter
  /\ pc' = [pc EXCEPT ![0] = "store"]
  /\ UNCHANGED <<threads, mpc, i, start_test, end_test, count, info>>

LeaderStop ==
  /\ pc[0] = "run"
  /\ count[0] >= info[0].iter
  /\ end_test' = TRUE
  /\ pc' = [pc EXCEPT ![0] = "store"]
  /\ UNCHANGED <<threads, mpc, i, start_test, count, info>>

(* for (i = 0; !end_test; i += 32) -- the flag is tested before a batch. *)
HelperBatch(t) ==
  /\ t # 0 /\ pc[t] = "run"
  /\ ~end_test
  /\ count' = [count EXCEPT ![t] = IF @ < MaxBatch THEN @ + 1 ELSE @]
  /\ UNCHANGED <<threads, mpc, i, start_test, end_test, pc, info>>

HelperStop(t) ==
  /\ t # 0 /\ pc[t] = "run"
  /\ end_test
  /\ pc' = [pc EXCEPT ![t] = "store"]
  /\ UNCHANGED <<threads, mpc, i, start_test, end_test, count, info>>

(* info->iter = i; info->usec = usec2 - usec1; the thread returns. *)
Store(t) ==
  /\ pc[t] = "store"
  /\ pc' = [pc EXCEPT ![t] = "done"]
  /\ info' = [info EXCEPT ![t] = [iter |-> count[t], measured |-> TRUE]]
  /\ UNCHANGED <<threads, mpc, i, start_test, end_test, count>>

(***************************************************************************)
(* The main thread: test(threads) for threads = 1 .. CPUS.                 *)
(***************************************************************************)

TestEnter_gateLeftOpen ==  \* mutant: start_test is not cleared
  /\ mpc = "enter"
  /\ i' = 0
  /\ mpc' = "create"
  /\ UNCHANGED <<threads, start_test, end_test, pc, count, info>>

TestEnter ==
  /\ mpc = "enter"
  /\ start_test' = FALSE
  /\ i' = 0
  /\ mpc' = "create"
  /\ UNCHANGED <<threads, end_test, pc, count, info>>

(* The result of pthread_create is ignored: on failure info[i] keeps what  *)
(* test() put there and no thread runs.                                    *)
Create ==
  /\ mpc = "create" /\ i < threads
  /\ info' = [info EXCEPT ![i] = [iter |-> Quota, measured |-> FALSE]]
  /\ \/ pc' = [pc EXCEPT ![i] = "entry"]
     \/ CreateMayFail /\ pc' = [pc EXCEPT ![i] = "absent"]
  /\ i' = i + 1
  /\ UNCHANGED <<threads, mpc, start_test, end_test, count>>

OpenGate ==
  /\ mpc = "create" /\ i >= threads
  /\ start_test' = TRUE
  /\ mpc' = "join"
  /\ i' = 0
  /\ UNCHANGED <<threads, end_test, pc, count, info>>

(* pthread_join blocks until the thread is done.  For a thread that was    *)
(* never created the handle is an uninitialised stack value: the call      *)
(* returns at once or faults.                                              *)
Join_noWait ==             \* mutant: a worker is not waited for
  /\ mpc = "join" /\ i < threads
  /\ i' = i + 1
  /\ UNCHANGED <<threads, mpc, start_test, end_test, pc, count, info>>

Join ==
  /\ mpc = "join" /\ i < threads
  /\ pc[i] \in {"done", "absent"}
  /\ i' = i + 1
  /\ UNCHANGED <<threads, mpc, start_test, end_test, pc, count, info>>

Fault ==
  /\ mpc = "join" /\ i < threads
  /\ pc[i] = "absent"
  /\ mpc' = "crash"
  /\ pc' = [t \in Thread |-> "absent"]             \* SIGSEGV ends every thread
  /\ UNCHANGED <<threads, i, start_test, end_test, count, info>>

(* Sum the infos, print a row and go on with the next thread count. *)
Report_oneMore ==          \* mutant: the loop bound is off by one
  /\ mpc = "join" /\ i >= threads
  /\ IF threads <= CPUS
       THEN threads' = threads + 1 /\ mpc' = "enter"
       ELSE mpc' = "exit" /\ UNCHANGED threads
  /\ UNCHANGED <<i, start_test, end_test, pc, count, info>>

Report ==
  /\ mpc = "join" /\ i >= threads
  /\ IF threads < CPUS
       THEN threads' = threads + 1 /\ mpc' = "enter"
       ELSE mpc' = "exit" /\ UNCHANGED threads
  /\ UNCHANGED <<i, start_test, end_test, pc, count, info>>

(***************************************************************************)

Init ==
  /\ threads = 1
  /\ mpc = "enter"
  /\ i = 0
  /\ start_test = FALSE /\ end_test = FALSE      \* zero-initialised globals
  /\ pc = [t \in Thread |-> "absent"]
  /\ count = [t \in Thread |-> 0]
  /\ info = [t \in Thread |-> [iter |-> 0, measured |-> FALSE]]

Main == TestEnter \/ Create \/ OpenGate \/ Join \/ Fault \/ Report

Worker(t) == ResetEnd(t) \/ PassGate(t) \/ HelperBatch(t) \/ HelperStop(t) \/ Store(t)

Leader == LeaderBatch \/ LeaderStop

(* The process has ended, or it has faulted. *)
Over == mpc \in {"exit", "crash"}

Finished == Over /\ UNCHANGED vars

Next ==
  \/ Main
  \/ Leader
  \/ \E t \in Thread : Worker(t)
  \/ Finished

(* Every runnable thread is scheduled again: Linux preempts the spinners.  *)
Fairness ==
  /\ WF_vars(Main)
  /\ WF_vars(Leader)
  /\ \A t \in Thread : WF_vars(Worker(t))

Spec     == Init /\ [][Next]_vars
FairSpec == Spec /\ Fairness

-----------------------------------------------------------------------------
(* Type invariant: the ranges of the flags, counters and control points.   *)
TypeOK ==
  /\ threads \in 1 .. CPUS
  /\ mpc \in MainPoints
  /\ i \in 0 .. CPUS
  /\ start_test \in BOOLEAN /\ end_test \in BOOLEAN
  /\ pc \in [Thread -> WorkerPoints]
  /\ count \in [Thread -> Nat]
  /\ info \in [Thread -> [iter : Nat, measured : BOOLEAN]]

(* No worker takes its first time stamp before test() has tried to create  *)
(* every thread of the round: the measurement really is parallel.          *)
StartTogether ==
  \A t \in Thread : pc[t] = "run" => mpc \notin {"enter", "create"}

(* When the threads of a round are being created no thread of an earlier   *)
(* round is left that could still touch the flags or the infos.            *)
NoStragglers ==
  /\ mpc = "enter"  => \A t \in Thread : pc[t] \in {"absent", "done"}
  /\ mpc = "create" => \A t \in Thread : t >= i => pc[t] \in {"absent", "done"}

(* When a row is summed, every thread of the round that could be created   *)
(* has stored what it measured in this round (rdrand.c:144-145, 172-178).  *)
RowsMeasured ==
  mpc = "join" /\ i >= threads =>
    \A t \in Thread : t < threads => pc[t] = "absent" \/ info[t].measured

(* A round is on time when thread 0 exists and does not stop before every  *)
(* other thread has executed its end_test = false.                         *)
OnTime ==
  /\ mpc = "join" => pc[0] # "absent"
  /\ mpc = "join" /\ pc[0] \in {"store", "done"} => \A t \in Thread : pc[t] # "entry"

(* If every round is on time the benchmark ends: a late end_test = false,   *)
(* or a missing thread 0, is the only way to lose the stop signal.          *)
EndsIfOnTime == []OnTime => <>Over

=============================================================================
