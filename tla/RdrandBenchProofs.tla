------------------------- MODULE RdrandBenchProofs -------------------------
(***************************************************************************)
(* For every number of processors, every amount of work and with or        *)
(* without failing thread creation, the rounds of rdrand-benchmark do not  *)
(* overlap: proofs of the safety invariants of RdrandBench.                *)
(***************************************************************************)
EXTENDS RdrandBench, TLAPS

Idle(t) == pc[t] \in {"absent", "done"}

(* What each control point of the main thread implies for the workers.     *)
EnterInv == mpc = "enter" => \A t \in Thread : Idle(t)

CreateInv ==
  mpc = "create" =>
    /\ ~start_test /\ i <= threads
    /\ \A t \in Thread : IF t < i THEN pc[t] \in {"absent", "entry", "gate"}
                                  ELSE Idle(t)

JoinInv ==
  mpc = "join" =>
    /\ i <= threads
    /\ \A t \in Thread : t < i \/ t >= threads => Idle(t)

EndInv == Over => \A t \in Thread : Idle(t)

(* The inductive invariant.  StartTogether and NoStragglers are not        *)
(* inductive alone: that no worker runs while threads are created needs    *)
(* start_test to be false there and the joins of the round before to have  *)
(* reached every thread of it.                                             *)
RoundInv == TypeOK /\ EnterInv /\ CreateInv /\ JoinInv /\ EndInv

USE DEF Thread, MainPoints, WorkerPoints

(* RoundInv holds when main() enters its first round.                      *)
LEMMA InitRound == Init => RoundInv
<1> SUFFICES ASSUME Init PROVE RoundInv
  OBVIOUS
<1>1. /\ info \in [Thread -> [iter : Nat, measured : BOOLEAN]]
      /\ start_test \in BOOLEAN /\ end_test \in BOOLEAN
  BY DEF Init
<1>2. TypeOK
  BY <1>1, CpusAssumption DEF Init, TypeOK
<1>3. EnterInv
  BY DEF Init, EnterInv, Idle
<1>4. mpc = "enter"
  BY DEF Init
<1> QED
  BY <1>2, <1>3, <1>4 DEF RoundInv, CreateInv, JoinInv, EndInv, Over

(* A step of thread t moves only pc[t], and never starts a thread that is  *)
(* absent or done; in the creation phase it cannot pass the gate.          *)
LEMMA WorkerStep ==
  ASSUME RoundInv, NEW t \in Thread, Worker(t) \/ (t = 0 /\ Leader)
  PROVE  RoundInv'
<1> USE CpusAssumption DEF RoundInv, EnterInv, CreateInv, JoinInv, EndInv, Over, Idle
<1>1. CASE ResetEnd(t)
  BY <1>1 DEF ResetEnd, TypeOK
<1>2. CASE PassGate(t)
  BY <1>2 DEF PassGate, TypeOK
<1>3. CASE HelperBatch(t)
  <2>1. count' \in [Thread -> Nat]
    BY <1>3, QuotaAssumption DEF HelperBatch, TypeOK
  <2> QED BY <1>3, <2>1 DEF HelperBatch, TypeOK
<1>4. CASE HelperStop(t)
  BY <1>4 DEF HelperStop, TypeOK
<1>5. CASE Store(t)
  <2>1. info' \in [Thread -> [iter : Nat, measured : BOOLEAN]]
    BY <1>5 DEF Store, TypeOK
  <2> QED BY <1>5, <2>1 DEF Store, TypeOK
<1>6. CASE t = 0 /\ LeaderBatch
  <2>1. count' \in [Thread -> Nat]
    BY <1>6 DEF LeaderBatch, TypeOK
  <2> QED BY <1>6, <2>1 DEF LeaderBatch, TypeOK
<1>7. CASE t = 0 /\ LeaderStop
  BY <1>7 DEF LeaderStop, TypeOK
<1> QED
  BY <1>1, <1>2, <1>3, <1>4, <1>5, <1>6, <1>7 DEF Worker, Leader

(* Every step of test() and main() keeps RoundInv.                         *)
LEMMA MainStep ==
  ASSUME RoundInv, Main
  PROVE  RoundInv'
<1> USE CpusAssumption DEF RoundInv, EnterInv, CreateInv, JoinInv, EndInv, Over, Idle
<1>1. CASE TestEnter
  <2>1. start_test' \in BOOLEAN
    BY <1>1 DEF TestEnter
  <2>2. TypeOK'
    BY <1>1, <2>1 DEF TestEnter, TypeOK
  <2>3. CreateInv'
    BY <1>1 DEF TestEnter, TypeOK
  <2> QED BY <1>1, <2>2, <2>3 DEF TestEnter
<1>2. CASE Create
  <2>1. /\ i \in Thread
        /\ i + 1 \in 0 .. CPUS
    BY <1>2 DEF Create, TypeOK
  <2>2. info' \in [Thread -> [iter : Nat, measured : BOOLEAN]]
    BY <1>2, <2>1, QuotaAssumption DEF Create, TypeOK
  <2>3. /\ pc' \in [Thread -> WorkerPoints]
        /\ pc'[i] \in {"absent", "entry"}
        /\ \A t \in Thread : t # i => pc'[t] = pc[t]
    BY <1>2, <2>1 DEF Create, TypeOK
  <2>4. TypeOK'
    BY <1>2, <2>1, <2>2, <2>3 DEF Create, TypeOK
  <2>5. CreateInv'
    BY <1>2, <2>1, <2>3 DEF Create, TypeOK
  <2> QED BY <1>2, <2>4, <2>5 DEF Create
<1>3. CASE OpenGate
  BY <1>3 DEF OpenGate, TypeOK
<1>4. CASE Join
  BY <1>4 DEF Join, TypeOK
<1>5. CASE Fault
  BY <1>5 DEF Fault, TypeOK
<1>6. CASE Report
  BY <1>6 DEF Report, TypeOK
<1> QED
  BY <1>1, <1>2, <1>3, <1>4, <1>5, <1>6 DEF Main

(* RoundInv is inductive.                                                  *)
LEMMA NextRound == RoundInv /\ [Next]_vars => RoundInv'
<1> SUFFICES ASSUME RoundInv, [Next]_vars PROVE RoundInv'
  OBVIOUS
<1>1. CASE Main
  BY <1>1, MainStep
<1>2. CASE Leader
  <2>1. 0 \in Thread
    BY CpusAssumption
  <2> QED BY <1>2, <2>1, WorkerStep
<1>3. CASE \E t \in Thread : Worker(t)
  BY <1>3, WorkerStep
<1>4. CASE UNCHANGED vars
  BY <1>4 DEF RoundInv, TypeOK, EnterInv, CreateInv, JoinInv, EndInv, Over, Idle, vars
<1> QED
  BY <1>1, <1>2, <1>3, <1>4 DEF Next, Finished

(* Every state of every run of the benchmark satisfies RoundInv.           *)
THEOREM RoundsInvariant == Spec => []RoundInv
BY InitRound, NextRound, PTL DEF Spec

(* Type correctness: threads never exceeds the processor count, counters   *)
(* and infos stay in range.                                                *)
THEOREM TypeCorrect == Spec => []TypeOK
<1>1. RoundInv => TypeOK
  BY DEF RoundInv
<1> QED BY <1>1, RoundsInvariant, PTL

(* No worker measures before the creation loop of its round is over        *)
(* (rdrand.c:91, 162-170), for any number of processors.                   *)
THEOREM StartsTogether == Spec => []StartTogether
<1>1. RoundInv => StartTogether
  BY DEF RoundInv, EnterInv, CreateInv, Idle, StartTogether
<1> QED BY <1>1, RoundsInvariant, PTL

(* The joins of a round (rdrand.c:172-173) reach every thread of it: none  *)
(* is left to touch the flags of the next round.                           *)
THEOREM RoundsDoNotOverlap == Spec => []NoStragglers
<1>1. RoundInv => NoStragglers
  BY DEF RoundInv, TypeOK, EnterInv, CreateInv, Idle, NoStragglers
<1> QED BY <1>1, RoundsInvariant, PTL

(* A thread that is done has stored its measurement: a round that begins   *)
(* anew for it also moves it away from "done".                             *)
DoneInv == \A t \in Thread : pc[t] = "done" => info[t].measured

LEMMA DoneStep ==
  ASSUME TypeOK, DoneInv, [Next]_vars
  PROVE  DoneInv'
<1>1. ASSUME NEW t \in Thread, Store(t) PROVE DoneInv'
  <2>1. info' = [info EXCEPT ![t] = [iter |-> count[t], measured |-> TRUE]]
    BY <1>1 DEF Store
  <2>2. /\ info'[t].measured
        /\ \A u \in Thread : u # t => info'[u] = info[u]
    BY <1>1, <2>1 DEF TypeOK
  <2>3. \A u \in Thread : u # t => pc'[u] = pc[u]
    BY <1>1 DEF Store, TypeOK
  <2> QED BY <2>2, <2>3 DEF DoneInv
<1>2. CASE Create
  <2>1. i \in Thread
    BY <1>2, CpusAssumption DEF Create, TypeOK
  <2>2. /\ pc'[i] # "done"
        /\ \A t \in Thread : t # i => pc'[t] = pc[t] /\ info'[t] = info[t]
    BY <1>2, <2>1 DEF Create, TypeOK
  <2> QED BY <2>2 DEF DoneInv
<1>3. CASE TestEnter \/ OpenGate \/ Join \/ Fault \/ Report
  BY <1>3 DEF TestEnter, OpenGate, Join, Fault, Report, TypeOK, DoneInv
<1>4. CASE Leader
  BY <1>4, CpusAssumption DEF Leader, LeaderBatch, LeaderStop, TypeOK, DoneInv
<1>5. ASSUME NEW t \in Thread, ResetEnd(t) \/ PassGate(t) \/ HelperBatch(t) \/ HelperStop(t)
      PROVE  DoneInv'
  BY <1>5 DEF ResetEnd, PassGate, HelperBatch, HelperStop, TypeOK, DoneInv
<1>6. CASE UNCHANGED vars
  BY <1>6 DEF vars, DoneInv
<1>7. CASE \E t \in Thread : Worker(t)
  BY <1>1, <1>5, <1>7 DEF Worker
<1>8. CASE Main
  BY <1>2, <1>3, <1>8 DEF Main
<1> QED
  BY <1>4, <1>6, <1>7, <1>8 DEF Next, Finished

LEMMA DoneInvariant == Spec => []DoneInv
<1>1. Init => DoneInv
  BY DEF Init, DoneInv
<1> QED BY <1>1, DoneStep, TypeCorrect, PTL DEF Spec

(* The sums of rdrand.c:175-178 read only infos that a worker has stored   *)
(* in this round, but for threads that could not be created.               *)
THEOREM RowsAreMeasured == Spec => []RowsMeasured
<1>1. RoundInv /\ DoneInv => RowsMeasured
  <2> SUFFICES ASSUME RoundInv, DoneInv, mpc = "join", i >= threads,
                      NEW t \in Thread, t < threads
               PROVE  pc[t] = "absent" \/ info[t].measured
    BY DEF RowsMeasured
  <2>1. t < i
    BY DEF RoundInv, TypeOK
  <2> QED
    BY <2>1 DEF RoundInv, JoinInv, DoneInv, Idle
<1> QED BY <1>1, RoundsInvariant, DoneInvariant, PTL
=============================================================================
