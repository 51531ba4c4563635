------------------------------- MODULE CpuHog -------------------------------
(***************************************************************************)
(* cpu-hog/cpu-hog.c: main() forks KIDS children that ignore SIGINT and    *)
(* spin; a SIGINT in the parent kills and collects them (reap), and the    *)
(* interrupted sleep() then lets main() exit.                              *)
(*                                                                         *)
(* The child forked for slot s is called s; pids[s] holds what fork()      *)
(* returned.  glibc's signal() keeps the handler installed and blocks      *)
(* SIGINT while it runs; SIGINT does not queue, so one pending bit is all. *)
(***************************************************************************)
EXTENDS Integers

CONSTANTS
  KIDS,          \* MAX_KIDS
  ForkMayFail,   \* may fork() return -1?
  MaxInts        \* bound: SIGINTs sent in a behaviour

ASSUME KidsAssumption == KIDS \in Nat \ {0}
ASSUME EnvAssumption  == ForkMayFail \in BOOLEAN /\ MaxInts \in Nat

Slot == 1 .. KIDS

VARIABLES
  ppc,       \* control point of the parent
  k,         \* loop counter of main() or of reap(), from 1
  pids, reaped,
  kid,       \* life of each child
  pending,   \* SIGINT is pending for the parent
  sent       \* SIGINTs sent so far

vars == <<ppc, k, pids, reaped, kid, pending, sent>>

ParentPoints == {"fork", "sleep", "resume", "kill", "wait", "clear", "gone"}
KidStates    == {"unborn", "young", "hog", "doomed", "zombie", "reaped"}

Living == {"young", "hog"}      \* what a signal can still terminate

(***************************************************************************)
(* The children, and the terminal.                                         *)
(***************************************************************************)

(* burncycles1..4: signal(SIGINT, SIG_IGN), then spin for ever.            *)
Burn(s) ==
  /\ kid[s] = "young"
  /\ kid' = [kid EXCEPT ![s] = "hog"]
  /\ UNCHANGED <<ppc, k, pids, reaped, pending, sent>>

(* A signalled child dies and waits to be collected. *)
Die(s) ==
  /\ kid[s] = "doomed"
  /\ kid' = [kid EXCEPT ![s] = "zombie"]
  /\ UNCHANGED <<ppc, k, pids, reaped, pending, sent>>

(* kill -INT of the parent, or Ctrl-C, which goes to the whole process     *)
(* group: a child that has not yet executed its signal() call dies of it.  *)
Interrupt ==
  /\ sent < MaxInts /\ ppc # "gone"
  /\ sent' = sent + 1
  /\ pending' = TRUE
  /\ \/ UNCHANGED kid
     \/ kid' = [s \in Slot |-> IF kid[s] = "young" THEN "doomed" ELSE kid[s]]
  /\ UNCHANGED <<ppc, k, pids, reaped>>

(***************************************************************************)
(* main() and the handler.  A pending SIGINT that is not blocked is        *)
(* delivered before the next step of main().                               *)
(***************************************************************************)

(* One turn of the fork loop; the last one is followed by signal(), from   *)
(* where on SIGINT no longer terminates the parent.                        *)
Fork ==
  /\ ppc = "fork" /\ ~pending
  /\ \/ /\ kid'  = [kid EXCEPT ![k] = "young"]
        /\ pids' = [pids EXCEPT ![k] = k]
     \/ /\ ForkMayFail
        /\ pids' = [pids EXCEPT ![k] = -1]
        /\ UNCHANGED kid
  /\ IF k < KIDS THEN k' = k + 1 /\ UNCHANGED ppc
                 ELSE ppc' = "sleep" /\ UNCHANGED k
  /\ UNCHANGED <<reaped, pending, sent>>

(* Before signal(SIGINT, handler) the default action ends the parent alone. *)
DiesYoung ==
  /\ ppc = "fork" /\ pending
  /\ ppc' = "gone"
  /\ UNCHANGED <<k, pids, reaped, kid, pending, sent>>

(* SIGINT is delivered in, or after, sleep(); reap() works only once.      *)
Handler ==
  /\ ppc \in {"sleep", "resume"} /\ pending
  /\ pending' = FALSE
  /\ IF reaped = 0
       THEN /\ reaped' = 1
            /\ k' = 1
            /\ ppc' = "kill"
       ELSE /\ ppc' = "resume"
            /\ UNCHANGED <<reaped, k>>
  /\ UNCHANGED <<pids, kid, sent>>

(* if (pids[i]) kill(pids[i], SIGKILL).  No slot is 0 when reap() gets to  *)
(* it (Recorded in CpuHogProofs), so the test has no other branch.  After  *)
(* a failed fork this is kill(-1, SIGKILL), which kills every process of   *)
(* the machine but the caller and init.                                    *)
Kill_sigint ==             \* mutant: the signal the hogs ignore is sent
  /\ ppc = "kill" /\ pids[k] # 0
  /\ kid' = [kid EXCEPT ![k] = IF @ = "young" THEN "doomed" ELSE @]
  /\ ppc' = "wait"
  /\ UNCHANGED <<k, pids, reaped, pending, sent>>

Kill ==
  /\ ppc = "kill" /\ pids[k] # 0
  /\ LET target == IF pids[k] = -1 THEN Slot ELSE {k}
     IN kid' = [s \in Slot |-> IF s \in target /\ kid[s] \in Living
                                 THEN "doomed" ELSE kid[s]]
  /\ ppc' = "wait"
  /\ UNCHANGED <<k, pids, reaped, pending, sent>>

(* waitid(P_PID, pids[i], &info, WEXITED): EINVAL for -1, else it blocks   *)
(* until the child is dead.                                                *)
Wait_noHang ==             \* mutant: WEXITED | WNOHANG
  /\ ppc = "wait"
  /\ kid' = [kid EXCEPT ![k] = IF @ = "zombie" THEN "reaped" ELSE @]
  /\ ppc' = "clear"
  /\ UNCHANGED <<k, pids, reaped, pending, sent>>

Wait ==
  /\ ppc = "wait"
  /\ \/ pids[k] = -1 /\ UNCHANGED kid
     \/ pids[k] = k /\ kid[k] = "zombie" /\ kid' = [kid EXCEPT ![k] = "reaped"]
  /\ ppc' = "clear"
  /\ UNCHANGED <<k, pids, reaped, pending, sent>>

(* To the next slot; after the last the handler returns to main(), where   *)
(* an interrupted sleep() returns at once.                                 *)
NextSlot_oneMore ==        \* mutant: i <= MAX_KIDS
  IF k <= KIDS THEN k' = k + 1 /\ ppc' = "kill"
               ELSE ppc' = "resume" /\ UNCHANGED k

NextSlot ==
  IF k < KIDS THEN k' = k + 1 /\ ppc' = "kill"
              ELSE ppc' = "resume" /\ UNCHANGED k

Clear ==
  /\ ppc = "clear"
  /\ pids' = [pids EXCEPT ![k] = 0]
  /\ NextSlot
  /\ UNCHANGED <<reaped, kid, pending, sent>>

(* The 100000 seconds are over. *)
SleepOver ==
  /\ ppc = "sleep" /\ ~pending
  /\ ppc' = "resume"
  /\ UNCHANGED <<k, pids, reaped, kid, pending, sent>>

Exit ==
  /\ ppc = "resume" /\ ~pending
  /\ ppc' = "gone"
  /\ UNCHANGED <<k, pids, reaped, kid, pending, sent>>

(***************************************************************************)

Init ==
  /\ ppc = "fork" /\ k = 1
  /\ pids = [s \in Slot |-> 0] /\ reaped = 0
  /\ kid = [s \in Slot |-> "unborn"]
  /\ pending = FALSE /\ sent = 0

Reap == Kill \/ Wait \/ Clear

Parent == Fork \/ DiesYoung \/ Handler \/ Reap \/ Exit

Finished ==
  /\ ppc = "gone" /\ \A s \in Slot : kid[s] \notin {"young", "doomed"}
  /\ UNCHANGED vars

Next ==
  \/ Parent
  \/ SleepOver
  \/ Interrupt
  \/ \E s \in Slot : Burn(s) \/ Die(s)
  \/ Finished

(* Linux schedules every process and delivers every signal.  SleepOver and *)
(* Interrupt are the clock's and the user's and need never happen.         *)
Fairness ==
  /\ WF_vars(Parent)
  /\ \A s \in Slot : WF_vars(Burn(s)) /\ WF_vars(Die(s))

Spec     == Init /\ [][Next]_vars
FairSpec == Spec /\ Fairness

-----------------------------------------------------------------------------
(* Type invariant: control points, recorded pids and children's states.    *)
TypeOK ==
  /\ ppc \in ParentPoints /\ k \in Slot
  /\ pids \in [Slot -> {-1, 0} \cup Slot]
  /\ reaped \in {0, 1}
  /\ kid \in [Slot -> KidStates]
  /\ pending \in BOOLEAN /\ sent \in Nat

(* waitid() in the handler (cpu-hog.c:46) runs with SIGINT blocked.  The   *)
(* child it waits for has been killed and not been collected: a hog that   *)
(* spins on, or a child that does not exist, would hold the parent there   *)
(* for ever or end the wait too early, whichever forks failed before.      *)
WaitOnlyOnDoomed ==
  ppc = "wait" /\ pids[k] # -1 => kid[k] \in {"doomed", "zombie"}

(* Once SIGINT has been handled the parent leaves no process behind,       *)
(* neither a hog nor a zombie, however many more SIGINTs arrive.           *)
NothingLeftBehind ==
  ppc = "gone" /\ reaped = 1 => \A s \in Slot : kid[s] \in {"unborn", "reaped"}

(* SIGINT in the sleeping parent leads to its exit with every hog dead.    *)
InterruptEnds ==
  ppc = "sleep" /\ pending
    ~> ppc = "gone" /\ \A s \in Slot : kid[s] \notin Living

=============================================================================
