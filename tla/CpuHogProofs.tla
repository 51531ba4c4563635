---------------------------- MODULE CpuHogProofs ----------------------------
(***************************************************************************)
(* For every number of slots, with or without failing forks and for any    *)
(* number of SIGINTs: reap() waits only for children it has killed, never  *)
(* keeps a collected pid, and leaves nothing behind.                       *)
(***************************************************************************)
EXTENDS CpuHog, TLAPS

(* Slot s holds an uncollected child, or the -1 of a fork that failed.     *)
Recorded(s) ==
  \/ pids[s] = s  /\ kid[s] \in {"young", "hog", "doomed", "zombie"}
  \/ pids[s] = -1 /\ kid[s] = "unborn"

(* Slot s has been emptied by reap(). *)
Collected(s) == pids[s] = 0 /\ kid[s] \in {"unborn", "reaped"}

ForkInv ==
  ppc = "fork" =>
    /\ reaped = 0
    /\ \A s \in Slot : IF s < k THEN Recorded(s)
                                ELSE pids[s] = 0 /\ kid[s] = "unborn"

(* main() after the fork loop: all slots are full, or all are empty.       *)
MainInv ==
  /\ ppc = "sleep" => reaped = 0
  /\ ppc \in {"sleep", "resume"} /\ reaped = 0 => \A s \in Slot : Recorded(s)
  /\ ppc \in {"resume", "gone"} /\ reaped = 1 => \A s \in Slot : Collected(s)
  /\ ppc = "gone" /\ reaped = 0 => \A s \in Slot : kid[s] # "reaped"

(* reap() at slot k: the slots before are empty, those after are full.     *)
ReapInv ==
  /\ ppc \in {"kill", "wait", "clear"} =>
       /\ reaped = 1
       /\ \A s \in Slot : (s < k => Collected(s)) /\ (s > k => Recorded(s))
  /\ ppc \in {"kill", "wait"} => Recorded(k)
  /\ ppc = "wait" => kid[k] \notin Living
  /\ ppc = "clear" => kid[k] \in {"unborn", "reaped"}

HogInv == TypeOK /\ ForkInv /\ MainInv /\ ReapInv

USE DEF Slot, ParentPoints, KidStates, Living

(* HogInv holds before the first fork. *)
LEMMA InitHog == Init => HogInv
<1> SUFFICES ASSUME Init PROVE HogInv
  OBVIOUS
<1>1. pending \in BOOLEAN
  BY DEF Init
<1>2. TypeOK
  BY <1>1, KidsAssumption DEF Init, TypeOK
<1>3. ForkInv
  BY DEF Init, ForkInv
<1> QED
  BY <1>2, <1>3 DEF Init, HogInv, MainInv, ReapInv

(* A child's step, or a signal to it, keeps it uncollected.                *)
LEMMA KidStep ==
  ASSUME HogInv, Interrupt \/ \E s \in Slot : Burn(s) \/ Die(s)
  PROVE  HogInv'
<1> USE KidsAssumption DEF HogInv
<1>1. CASE Interrupt
  <2>1. TypeOK'
    BY <1>1 DEF Interrupt, TypeOK
  <2>2. \A s \in Slot : /\ Recorded(s) => Recorded(s)'
                        /\ Collected(s) => Collected(s)'
    BY <1>1 DEF Interrupt, TypeOK, Recorded, Collected
  <2>3. /\ k' = k /\ k \in Slot /\ ppc' = ppc /\ reaped' = reaped /\ pids' = pids
        /\ \A s \in Slot : /\ kid[s] = "unborn" => kid'[s] = "unborn"
                           /\ kid[s] # "reaped" => kid'[s] # "reaped"
                           /\ kid[s] \notin Living => kid'[s] = kid[s]
    BY <1>1 DEF Interrupt, TypeOK
  <2>4. ForkInv'
    BY <2>2, <2>3 DEF ForkInv
  <2>5. MainInv'
    BY <2>2, <2>3 DEF MainInv
  <2> QED BY <2>1, <2>2, <2>3, <2>4, <2>5 DEF ReapInv
<1>2. ASSUME NEW s \in Slot, Burn(s) \/ Die(s) PROVE HogInv'
  <2>1. TypeOK'
    BY <1>2 DEF Burn, Die, TypeOK
  <2>2. \A x \in Slot : /\ Recorded(x) => Recorded(x)'
                        /\ Collected(x) => Collected(x)'
    BY <1>2 DEF Burn, Die, TypeOK, Recorded, Collected
  <2>3. /\ k' = k /\ k \in Slot /\ ppc' = ppc /\ reaped' = reaped /\ pids' = pids
        /\ \A x \in Slot : /\ kid[x] = "unborn" => kid'[x] = "unborn"
                           /\ kid[x] \notin Living => kid'[x] \notin Living
                           /\ kid[x] = "reaped" <=> kid'[x] = "reaped"
    BY <1>2 DEF Burn, Die, TypeOK
  <2>4. ForkInv'
    BY <2>2, <2>3 DEF ForkInv
  <2>5. MainInv'
    BY <2>2, <2>3 DEF MainInv
  <2> QED BY <2>1, <2>2, <2>3, <2>4, <2>5 DEF ReapInv
<1> QED BY <1>1, <1>2

(* The steps of main() and of the handler keep HogInv.                     *)
LEMMA ParentStep ==
  ASSUME HogInv, Parent \/ SleepOver
  PROVE  HogInv'
<1> USE KidsAssumption DEF HogInv, ForkInv, MainInv, ReapInv
<1>1. CASE Fork
  <2>1. TypeOK'
    BY <1>1 DEF Fork, TypeOK
  <2>2. \A s \in Slot : s # k => pids'[s] = pids[s] /\ kid'[s] = kid[s]
    BY <1>1 DEF Fork, TypeOK
  <2>3. \/ pids'[k] = k /\ kid'[k] = "young"
        \/ pids'[k] = -1 /\ kid'[k] = "unborn"
    BY <1>1 DEF Fork, TypeOK
  <2>4. \A s \in Slot : s <= k => Recorded(s)'
    BY <1>1, <2>2, <2>3 DEF Fork, TypeOK, Recorded
  <2>5. CASE k < KIDS
    BY <1>1, <2>1, <2>2, <2>4, <2>5 DEF Fork, TypeOK
  <2>6. CASE k = KIDS
    BY <1>1, <2>1, <2>4, <2>6 DEF Fork, TypeOK
  <2> QED BY <2>5, <2>6 DEF TypeOK
<1>2. CASE DiesYoung \/ SleepOver \/ Exit
  BY <1>2 DEF DiesYoung, SleepOver, Exit, TypeOK, Recorded, Collected
<1>3. CASE Handler
  <2>0. pending' \in BOOLEAN
    BY <1>3 DEF Handler
  <2>1. TypeOK'
    BY <1>3, <2>0 DEF Handler, TypeOK
  <2>2. \A s \in Slot : /\ Recorded(s) => Recorded(s)'
                        /\ Collected(s) => Collected(s)'
    BY <1>3 DEF Handler, Recorded, Collected
  <2>3. CASE reaped = 0
    BY <1>3, <2>1, <2>2, <2>3 DEF Handler, TypeOK, Recorded
  <2>4. CASE reaped = 1
    BY <1>3, <2>1, <2>2, <2>4 DEF Handler, TypeOK
  <2> QED BY <2>3, <2>4 DEF TypeOK
<1>4. CASE Kill
  <2>1. TypeOK'
    BY <1>4 DEF Kill, TypeOK
  <2>2. \A s \in Slot : /\ Recorded(s) => Recorded(s)'
                        /\ Collected(s) => Collected(s)'
    BY <1>4 DEF Kill, TypeOK, Recorded, Collected
  <2>3. kid'[k] \notin Living
    BY <1>4 DEF Kill, TypeOK, Recorded
  <2> QED BY <1>4, <2>1, <2>2, <2>3 DEF Kill, TypeOK
<1>5. CASE Wait
  <2>1. TypeOK'
    BY <1>5 DEF Wait, TypeOK
  <2>2. \A s \in Slot : s # k => /\ Recorded(s) => Recorded(s)'
                                 /\ Collected(s) => Collected(s)'
    BY <1>5 DEF Wait, TypeOK, Recorded, Collected
  <2>3. kid'[k] \in {"unborn", "reaped"}
    BY <1>5 DEF Wait, TypeOK, Recorded
  <2> QED BY <1>5, <2>1, <2>2, <2>3 DEF Wait, TypeOK
<1>6. CASE Clear
  <2>1. TypeOK'
    BY <1>6 DEF Clear, NextSlot, TypeOK
  <2>2. \A s \in Slot : s # k => pids'[s] = pids[s] /\ kid'[s] = kid[s]
    BY <1>6 DEF Clear, TypeOK
  <2>3. pids'[k] = 0 /\ kid'[k] = kid[k]
    BY <1>6 DEF Clear, TypeOK
  <2>4. \A s \in Slot : s <= k => Collected(s)'
    BY <1>6, <2>2, <2>3 DEF Clear, TypeOK, Collected
  <2>5. \A s \in Slot : s > k => Recorded(s)'
    BY <1>6, <2>2 DEF Clear, TypeOK, Recorded
  <2>6. CASE k < KIDS
    <3>1. ppc' = "kill" /\ k' = k + 1 /\ k' \in Slot /\ reaped' = reaped
      BY <1>6, <2>6 DEF Clear, NextSlot, TypeOK
    <3> QED BY <1>6, <2>1, <2>4, <2>5, <3>1 DEF Clear, TypeOK
  <2>7. CASE k = KIDS
    BY <1>6, <2>1, <2>4, <2>7 DEF Clear, NextSlot, TypeOK
  <2> QED BY <2>6, <2>7 DEF TypeOK
<1> QED
  BY <1>1, <1>2, <1>3, <1>4, <1>5, <1>6 DEF Parent, Reap

(* HogInv is inductive, so it holds in every reachable state.              *)
THEOREM HogInvariant == Spec => []HogInv
<1>1. HogInv /\ UNCHANGED vars => HogInv'
  BY DEF vars, HogInv, TypeOK, ForkInv, MainInv, ReapInv, Recorded, Collected
<1>2. HogInv /\ [Next]_vars => HogInv'
  BY <1>1, KidStep, ParentStep DEF Next, Finished
<1> QED BY <1>2, InitHog, PTL DEF Spec

(* Type correctness of the parent and of its children.                     *)
THEOREM TypeCorrect == Spec => []TypeOK
<1>1. HogInv => TypeOK
  BY DEF HogInv
<1> QED BY <1>1, HogInvariant, PTL

(* The waitid() of cpu-hog.c:46 never blocks on a child that still spins:  *)
(* it has been killed, and no earlier turn of the loop has collected it.   *)
THEOREM WaitsOnlyForDoomed == Spec => []WaitOnlyOnDoomed
<1>1. HogInv => WaitOnlyOnDoomed
  BY DEF HogInv, TypeOK, ReapInv, Recorded, WaitOnlyOnDoomed
<1> QED BY <1>1, HogInvariant, PTL

(* After a handled SIGINT the parent exits leaving no hog and no zombie,   *)
(* for every number of slots and every pattern of failed forks.            *)
THEOREM LeavesNothingBehind == Spec => []NothingLeftBehind
<1>1. HogInv => NothingLeftBehind
  BY DEF HogInv, MainInv, Collected, NothingLeftBehind
<1> QED BY <1>1, HogInvariant, PTL
=============================================================================
