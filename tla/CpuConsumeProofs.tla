-------------------------- MODULE CpuConsumeProofs --------------------------
(***************************************************************************)
(* When latency-test or hz-test is gone, at most one child is left burning *)
(* CPU: for every size of the pool, every number of SIGINTs, every failure *)
(* of calloc() and fork(), and every reading of the time stamp counter.    *)
(***************************************************************************)
EXTENDS CpuConsume, TLAPS

(* Where the parent is, and what it has then. *)
PlaceInv ==
  /\ mpc = "start" => heap = "null" /\ k = 1
  /\ mpc \in {"fork", "record", "abort"} => heap = "live"
  /\ mpc = "handler" => heap # "null"
  /\ mpc = "complete" /\ heap = "null" => k = 1
  /\ mpc = "jitter" => heap = "freed"
  /\ part # "none" => mpc \in {"usage", "handler", "gone", "crash"}
  /\ mpc = "usage" /\ part # "none" => k <= SAMPLES
  /\ waiting => /\ ~Hz /\ mpc \in {"abort", "complete", "handler"} /\ heap # "null"
                /\ k <= TASKS /\ kid[k] \notin Living

(* A child that runs and is not in cpu_pids[]. *)
Lost(s) == kid[s] \in Living /\ pids[s] = 0

LostInv ==
  /\ \A s \in Slot : Lost(s) => \/ mpc = "record" /\ s = k
                                \/ (mpc = "handler" \/ Over) /\ from = "record"
  /\ \A r, s \in Slot : Lost(r) /\ Lost(s) => r = s

(* What the kill loop has done for the slots before k. *)
LoopInv ==
  mpc \in {"abort", "complete", "handler"} /\ heap # "null" =>
    \A s \in Slot : s < k =>
      IF Hz THEN pids[s] # 0 ELSE pids[s] # 0 => kid[s] \notin Living

(* No array, no children yet; after free() a pool that is full or dead.    *)
HeapInv ==
  /\ heap = "null"  => \A s \in Slot : kid[s] \notin Living
  /\ heap = "freed" => \A s \in Slot : IF Hz THEN pids[s] # 0 ELSE kid[s] \notin Living

ConsumeInv == TypeOK /\ PlaceInv /\ LostInv /\ LoopInv /\ HeapInv /\ OneOrphanAtMost

-----------------------------------------------------------------------------
LEMMA Consts ==
  /\ TASKS \in Nat /\ TASKS >= 1 /\ SAMPLES \in Nat /\ WINDOW \in Nat
  /\ Width \in Nat \ {0} /\ Uptime \in Nat /\ MaxInts \in Nat
BY TasksAssumption, EnvAssumption, ClockAssumption

LEMMA ReadingType ==
  \A p \in {"low", "high", "whole"}, tsc \in 0 .. Uptime : Reading(p, tsc) + WINDOW \in Nat
<1> SUFFICES ASSUME NEW p \in {"low", "high", "whole"}, NEW tsc \in 0 .. Uptime
             PROVE  Reading(p, tsc) + WINDOW \in Nat
  OBVIOUS
<1>1. tsc % Width \in Nat /\ tsc \div Width \in Nat
  BY Consts
<1>2. Reading(p, tsc) \in Nat
  <2>1. CASE p = "low"
    BY <1>1, <2>1 DEF Reading
  <2>2. CASE p = "high"
    BY <1>1, <2>2 DEF Reading
  <2>3. CASE p = "whole"
    BY <2>3, Consts DEF Reading
  <2> QED BY <2>1, <2>2, <2>3
<1> DEFINE r == Reading(p, tsc)
<1>3. r \in Nat
  BY <1>2
<1> HIDE DEF r
<1>4. r + WINDOW \in Nat
  BY <1>3, Consts
<1> QED BY <1>4 DEF r

LEMMA InitConsume == Init => ConsumeInv
<1> SUFFICES ASSUME Init PROVE ConsumeInv
  OBVIOUS
<1>1. TypeOK
  <2>1. /\ pids \in [Slot -> {0} \cup Slot] /\ kidk \in [Slot -> Slot]
        /\ kid \in [Slot -> {"unborn", "hog", "handling", "doomed", "zombie", "reaped"}]
    BY Consts DEF Init, Slot
  <2>2. k \in 1 .. TASKS + 1 /\ mpc = "start"
    BY Consts DEF Init
  <2>3. pending \in BOOLEAN /\ waiting \in BOOLEAN
    BY Zenon DEF Init
  <2> QED BY <2>1, <2>2, <2>3 DEF Init, TypeOK, Over
<1>2. PlaceInv /\ LoopInv
  BY DEF Init, PlaceInv, LoopInv
<1>3. LostInv /\ HeapInv /\ OneOrphanAtMost
  BY DEF Init, LostInv, Lost, HeapInv, OneOrphanAtMost, Living
<1> QED BY <1>1, <1>2, <1>3 DEF ConsumeInv

(* The pool is made; or the parent dies before it has a handler.           *)
LEMMA StepPool ==
  ConsumeInv /\ (Start \/ DiesYoung \/ Fork \/ Record) => ConsumeInv'
<1> USE Consts DEF ConsumeInv, Over, ints, kids, clock
<1>1. ASSUME ConsumeInv, Start PROVE ConsumeInv'
  <2>1. TypeOK'
    BY <1>1 DEF Start, TypeOK, Slot, PlaceInv
  <2>2. PlaceInv'
    BY <1>1 DEF Start, PlaceInv
  <2>3. LostInv'
    BY <1>1 DEF Start, LostInv, Lost
  <2>4. LoopInv'
    BY <1>1 DEF Start, LoopInv
  <2>5. HeapInv'
    BY <1>1 DEF Start, HeapInv, PlaceInv
  <2>6. OneOrphanAtMost'
    BY <1>1 DEF Start, OneOrphanAtMost
  <2> QED BY <2>1, <2>2, <2>3, <2>4, <2>5, <2>6
<1>2. ASSUME ConsumeInv, DiesYoung PROVE ConsumeInv'
  <2>1. TypeOK'
    BY <1>2 DEF DiesYoung, TypeOK, Parts, Hz, PlaceInv
  <2>2. PlaceInv'
    BY <1>2 DEF DiesYoung, PlaceInv
  <2>3. LostInv'
    BY <1>2 DEF DiesYoung, LostInv, Lost, PlaceInv
  <2>4. LoopInv'
    BY <1>2 DEF DiesYoung, LoopInv
  <2>5. HeapInv'
    BY <1>2 DEF DiesYoung, HeapInv
  <2>6. OneOrphanAtMost'
    BY <1>2 DEF DiesYoung, OneOrphanAtMost, HeapInv
  <2> QED BY <2>1, <2>2, <2>3, <2>4, <2>5, <2>6
<1>3. ASSUME ConsumeInv, Fork PROVE ConsumeInv'
  <2>1. TypeOK'
    <3>1. k \in Slot /\ kid' \in [Slot -> {"unborn", "hog", "handling", "doomed", "zombie", "reaped"}]
      BY <1>3 DEF Fork, TypeOK
    <3>2. mpc' \in {"record", "abort"} /\ (mpc' = "record" => k' = k) /\ (mpc' = "abort" => k' = 1)
      BY <1>3 DEF Fork
    <3> QED BY <1>3, <3>1, <3>2 DEF Fork, TypeOK, Parts, Hz
  <2>2. PlaceInv'
    BY <1>3 DEF Fork, PlaceInv
  <2>3. LostInv'
    BY <1>3 DEF Fork, LostInv, Lost, TypeOK
  <2>4. LoopInv'
    BY <1>3 DEF Fork, LoopInv, Slot
  <2>5. HeapInv'
    BY <1>3 DEF Fork, HeapInv, PlaceInv
  <2>6. OneOrphanAtMost'
    BY <1>3 DEF Fork, OneOrphanAtMost
  <2> QED BY <2>1, <2>2, <2>3, <2>4, <2>5, <2>6
<1>4. ASSUME ConsumeInv, Record PROVE ConsumeInv'
  <2>1. TypeOK'
    BY <1>4 DEF Record, TypeOK, Slot, PlaceInv
  <2>2. PlaceInv'
    BY <1>4 DEF Record, PlaceInv
  <2>3. LostInv'
    BY <1>4 DEF Record, LostInv, Lost, Slot, TypeOK
  <2>4. LoopInv'
    BY <1>4 DEF Record, LoopInv
  <2>5. HeapInv'
    BY <1>4 DEF Record, HeapInv, PlaceInv
  <2>6. OneOrphanAtMost'
    BY <1>4 DEF Record, OneOrphanAtMost
  <2> QED BY <2>1, <2>2, <2>3, <2>4, <2>5, <2>6
<1> QED BY <1>1, <1>2, <1>3, <1>4

(* The load tests, the samples and the clock test change no child.         *)
LEMMA StepMeasure ==
  ConsumeInv /\ (Loads \/ Sample \/ SampleEnd \/ UsageEnd \/ Jitter) => ConsumeInv'
<1> USE Consts DEF ConsumeInv, Over, ints, kids, clock
<1>1. ASSUME ConsumeInv, Loads PROVE ConsumeInv'
  <2>1. TypeOK'
    BY <1>1 DEF Loads, TypeOK, PlaceInv
  <2>2. PlaceInv'
    BY <1>1 DEF Loads, PlaceInv
  <2>3. LostInv'
    BY <1>1 DEF Loads, LostInv, Lost
  <2>4. LoopInv'
    BY <1>1 DEF Loads, LoopInv
  <2>5. HeapInv'
    BY <1>1 DEF Loads, HeapInv, Hz
  <2>6. OneOrphanAtMost'
    BY <1>1 DEF Loads, OneOrphanAtMost
  <2> QED BY <2>1, <2>2, <2>3, <2>4, <2>5, <2>6
<1>2. ASSUME ConsumeInv, Sample PROVE ConsumeInv'
  <2>1. TypeOK'
    <3>1. PICK p \in Parts, tsc \in 0 .. Uptime : t2' = Reading(p, tsc) + WINDOW
      BY <1>2 DEF Sample
    <3>2. t2' \in Nat
      BY <3>1, ReadingType DEF Parts
    <3> QED BY <1>2, <3>2 DEF Sample, TypeOK, Parts, Hz
  <2>2. PlaceInv'
    BY <1>2 DEF Sample, PlaceInv
  <2>3. LostInv'
    BY <1>2 DEF Sample, LostInv, Lost
  <2>4. LoopInv'
    BY <1>2 DEF Sample, LoopInv
  <2>5. HeapInv'
    BY <1>2 DEF Sample, HeapInv, Hz
  <2>6. OneOrphanAtMost'
    BY <1>2 DEF Sample, OneOrphanAtMost
  <2> QED BY <2>1, <2>2, <2>3, <2>4, <2>5, <2>6
<1>3. ASSUME ConsumeInv, SampleEnd PROVE ConsumeInv'
  <2>1. TypeOK'
    BY <1>3 DEF SampleEnd, TypeOK, PlaceInv
  <2>2. PlaceInv'
    BY <1>3 DEF SampleEnd, PlaceInv
  <2>3. LostInv'
    BY <1>3 DEF SampleEnd, LostInv, Lost
  <2>4. LoopInv'
    BY <1>3 DEF SampleEnd, LoopInv
  <2>5. HeapInv'
    BY <1>3 DEF SampleEnd, HeapInv, Hz
  <2>6. OneOrphanAtMost'
    BY <1>3 DEF SampleEnd, OneOrphanAtMost
  <2> QED BY <2>1, <2>2, <2>3, <2>4, <2>5, <2>6
<1>4. ASSUME ConsumeInv, UsageEnd PROVE ConsumeInv'
  <2>1. TypeOK'
    BY <1>4 DEF UsageEnd, TypeOK, PlaceInv
  <2>2. PlaceInv'
    BY <1>4 DEF UsageEnd, PlaceInv, TypeOK
  <2>3. LostInv'
    BY <1>4 DEF UsageEnd, LostInv, Lost
  <2>4. LoopInv'
    BY <1>4 DEF UsageEnd, LoopInv, Slot
  <2>5. HeapInv'
    BY <1>4 DEF UsageEnd, HeapInv, Hz
  <2>6. OneOrphanAtMost'
    BY <1>4 DEF UsageEnd, OneOrphanAtMost
  <2> QED BY <2>1, <2>2, <2>3, <2>4, <2>5, <2>6
<1>5. ASSUME ConsumeInv, Jitter PROVE ConsumeInv'
  <2>1. TypeOK'
    BY <1>5 DEF Jitter, TypeOK, PlaceInv
  <2>2. PlaceInv'
    BY <1>5 DEF Jitter, PlaceInv
  <2>3. LostInv'
    BY <1>5 DEF Jitter, LostInv, Lost
  <2>4. LoopInv'
    BY <1>5 DEF Jitter, LoopInv
  <2>5. HeapInv'
    BY <1>5 DEF Jitter, HeapInv, Hz
  <2>6. OneOrphanAtMost'
    BY <1>5 DEF Jitter, OneOrphanAtMost, Hz, HeapInv, PlaceInv
  <2> QED BY <2>1, <2>2, <2>3, <2>4, <2>5, <2>6
<1> QED BY <1>1, <1>2, <1>3, <1>4, <1>5

(* latency-test's kill loop.                                               *)
LEMMA StepKill ==
  ConsumeInv /\ (NullFault \/ Kill \/ Skip \/ Wait) => ConsumeInv'
<1> USE Consts DEF ConsumeInv, Over, ints, kids, clock
<1>1. ASSUME ConsumeInv, NullFault PROVE ConsumeInv'
  <2>1. TypeOK'
    BY <1>1 DEF NullFault, TypeOK, Parts, Hz, PlaceInv
  <2>2. PlaceInv'
    BY <1>1 DEF NullFault, PlaceInv
  <2>3. LostInv'
    BY <1>1 DEF NullFault, LostInv, Lost, PlaceInv
  <2>4. LoopInv'
    BY <1>1 DEF NullFault, LoopInv
  <2>5. HeapInv'
    BY <1>1 DEF NullFault, HeapInv
  <2>6. OneOrphanAtMost'
    BY <1>1 DEF NullFault, OneOrphanAtMost, HeapInv
  <2> QED BY <2>1, <2>2, <2>3, <2>4, <2>5, <2>6
<1>2. ASSUME ConsumeInv, Kill PROVE ConsumeInv'
  <2>1. TypeOK'
    BY <1>2 DEF Kill, Signalled, TypeOK, Parts, Hz
  <2>2. PlaceInv'
    BY <1>2 DEF Kill, InKill, InLoop, Signalled, PlaceInv, Living, Hz, Slot, TypeOK
  <2>3. LostInv'
    BY <1>2 DEF Kill, Signalled, LostInv, Lost
  <2>4. LoopInv'
    BY <1>2 DEF Kill, Signalled, LoopInv, Hz
  <2>5. HeapInv'
    BY <1>2 DEF Kill, Signalled, HeapInv, Hz
  <2>6. OneOrphanAtMost'
    BY <1>2 DEF Kill, Signalled, OneOrphanAtMost, Hz
  <2> QED BY <2>1, <2>2, <2>3, <2>4, <2>5, <2>6
<1>3. ASSUME ConsumeInv, Skip PROVE ConsumeInv'
  <2>1. TypeOK'
    BY <1>3 DEF Skip, InKill, InLoop, TypeOK, Parts, Hz
  <2>2. PlaceInv'
    BY <1>3 DEF Skip, InKill, InLoop, PlaceInv
  <2>3. LostInv'
    BY <1>3 DEF Skip, InKill, InLoop, LostInv, Lost
  <2>4. LoopInv'
    BY <1>3 DEF Skip, LoopInv, Hz, Slot, HeapInv, TypeOK
  <2>5. HeapInv'
    BY <1>3 DEF Skip, HeapInv, Hz
  <2>6. OneOrphanAtMost'
    BY <1>3 DEF Skip, OneOrphanAtMost, Hz
  <2> QED BY <2>1, <2>2, <2>3, <2>4, <2>5, <2>6
<1>4. ASSUME ConsumeInv, Wait PROVE ConsumeInv'
  <2>1. TypeOK'
    <3>1. kid' \in [Slot -> {"unborn", "hog", "handling", "doomed", "zombie", "reaped"}]
      BY <1>4 DEF Wait, TypeOK
    <3>2. mpc \in {"abort", "complete", "handler"} /\ k' \in 1 .. TASKS + 1 /\ waiting' = FALSE
      BY <1>4 DEF Wait, TypeOK, PlaceInv
    <3> QED BY <1>4, <3>1, <3>2 DEF Wait, TypeOK, Slot, Parts, Hz
  <2>2. PlaceInv'
    BY <1>4 DEF Wait, PlaceInv
  <2>3. LostInv'
    BY <1>4 DEF Wait, LostInv, Lost, Living
  <2>4. LoopInv'
    BY <1>4 DEF Wait, LoopInv, Living, Hz, Slot, TypeOK, PlaceInv
  <2>5. HeapInv'
    BY <1>4 DEF Wait, HeapInv, Living, Hz
  <2>6. OneOrphanAtMost'
    BY <1>4 DEF Wait, OneOrphanAtMost, PlaceInv
  <2> QED BY <2>1, <2>2, <2>3, <2>4, <2>5, <2>6
<1> QED BY <1>1, <1>2, <1>3, <1>4

(* hz-test's kill loop.                                                    *)
LEMMA StepHzKill ==
  ConsumeInv /\ (HzKill \/ HzSkip) => ConsumeInv'
<1> USE Consts DEF ConsumeInv, Over, ints, kids, clock
<1>1. ASSUME ConsumeInv, HzKill PROVE ConsumeInv'
  <2>1. TypeOK'
    BY <1>1 DEF HzKill, GroupSignalled, TypeOK, Slot, Parts, Hz
  <2>2. PlaceInv'
    BY <1>1 DEF HzKill, GroupSignalled, PlaceInv
  <2>3. LostInv'
    BY <1>1 DEF HzKill, GroupSignalled, LostInv, Lost, Living
  <2>4. LoopInv'
    BY <1>1 DEF HzKill, GroupSignalled, LoopInv
  <2>5. HeapInv'
    BY <1>1 DEF HzKill, GroupSignalled, HeapInv, Hz
  <2>6. OneOrphanAtMost'
    BY <1>1 DEF HzKill, GroupSignalled, OneOrphanAtMost, Living
  <2> QED BY <2>1, <2>2, <2>3, <2>4, <2>5, <2>6
<1>2. ASSUME ConsumeInv, HzSkip PROVE ConsumeInv'
  <2>1. TypeOK'
    BY <1>2 DEF HzSkip, InKill, InLoop, TypeOK, Parts, Hz
  <2>2. PlaceInv'
    BY <1>2 DEF HzSkip, InKill, InLoop, PlaceInv
  <2>3. LostInv'
    BY <1>2 DEF HzSkip, LostInv, Lost, PlaceInv
  <2>4. LoopInv'
    BY <1>2 DEF HzSkip, LoopInv, Hz, Slot, HeapInv, TypeOK
  <2>5. HeapInv'
    BY <1>2 DEF HzSkip, HeapInv, Hz
  <2>6. OneOrphanAtMost'
    BY <1>2 DEF HzSkip, OneOrphanAtMost, Hz
  <2> QED BY <2>1, <2>2, <2>3, <2>4, <2>5, <2>6
<1> QED BY <1>1, <1>2

(* free(), and the handler's beginning and end.                            *)
LEMMA StepEnd ==
  ConsumeInv /\ (Free \/ Handler \/ HandlerExit) => ConsumeInv'
<1> USE Consts DEF ConsumeInv, Over, ints, kids, clock
<1>1. ASSUME ConsumeInv, Free PROVE ConsumeInv'
  <2>1. TypeOK'
    BY <1>1 DEF Free, TypeOK, PlaceInv
  <2>2. PlaceInv'
    BY <1>1 DEF Free, PlaceInv, TypeOK
  <2>3. LostInv'
    BY <1>1 DEF Free, LostInv, Lost
  <2>4. LoopInv'
    BY <1>1 DEF Free, LoopInv
  <2>5. HeapInv'
    <3>1. \A s \in Slot : s < k
      BY <1>1 DEF Free, TypeOK, Slot
    <3>2. \A s \in Slot : ~Hz => ~Lost(s)
      BY <1>1 DEF Free, LostInv
    <3>3. \A s \in Slot : IF Hz THEN pids[s] # 0 ELSE kid[s] \notin Living
      BY <1>1, <3>1, <3>2 DEF Free, LoopInv, Lost, PlaceInv
    <3> QED BY <1>1, <3>3 DEF Free, HeapInv, Hz, Living
  <2>6. OneOrphanAtMost'
    BY <1>1 DEF Free, OneOrphanAtMost, Hz, HeapInv
  <2> QED BY <2>1, <2>2, <2>3, <2>4, <2>5, <2>6
<1>2. ASSUME ConsumeInv, Handler PROVE ConsumeInv'
  <2>1. TypeOK'
    <3>1. from' \in {"none", "fork", "record", "abort", "loads", "usage", "complete", "jitter"}
      BY <1>2 DEF Handler, TypeOK, PlaceInv
    <3>2. pending' = FALSE /\ waiting' = FALSE /\ mpc' = "handler" /\ k' = 1
      BY <1>2 DEF Handler
    <3>3. UNCHANGED <<tool, part, t2, heap, pids, kid, kidk, sent>>
      BY <1>2 DEF Handler
    <3>4. (k \in CASE mpc \in {"fork", "record"} -> Slot
                 [] mpc = "usage"               -> 1 .. SAMPLES + 1
                 [] Over                        -> Nat
                 [] OTHER                       -> 1 .. TASKS + 1)'
      BY <3>2
    <3> QED BY <1>2, <3>1, <3>2, <3>3, <3>4 DEF TypeOK, Parts, Hz
  <2>2. PlaceInv'
    BY <1>2 DEF Handler, PlaceInv
  <2>3. LostInv'
    BY <1>2 DEF Handler, LostInv, Lost
  <2>4. LoopInv'
    BY <1>2 DEF Handler, LoopInv, Slot
  <2>5. HeapInv'
    BY <1>2 DEF Handler, HeapInv, Hz
  <2>6. OneOrphanAtMost'
    BY <1>2 DEF Handler, OneOrphanAtMost
  <2> QED BY <2>1, <2>2, <2>3, <2>4, <2>5, <2>6
<1>3. ASSUME ConsumeInv, HandlerExit PROVE ConsumeInv'
  <2>1. TypeOK'
    BY <1>3 DEF HandlerExit, TypeOK, Parts, Hz
  <2>2. PlaceInv'
    BY <1>3 DEF HandlerExit, PlaceInv, TypeOK
  <2>3. LostInv'
    BY <1>3 DEF HandlerExit, LostInv, Lost
  <2>4. LoopInv'
    BY <1>3 DEF HandlerExit, LoopInv
  <2>5. HeapInv'
    BY <1>3 DEF HandlerExit, HeapInv, Hz
  <2>6. OneOrphanAtMost'
    BY <1>3 DEF HandlerExit, OneOrphanAtMost, Hz, Slot, LostInv, Lost, LoopInv, TypeOK, PlaceInv
  <2> QED BY <2>1, <2>2, <2>3, <2>4, <2>5, <2>6
<1> QED BY <1>1, <1>2, <1>3

(* SIGINT, and what the children do.                                       *)
LEMMA StepKids ==
  ConsumeInv /\ (Interrupt \/ \E s \in Slot : Kid(s)) => ConsumeInv'
<1> USE Consts DEF ConsumeInv, Over, ints, kids, clock
<1>1. ASSUME ConsumeInv, Interrupt PROVE ConsumeInv'
  <2>1. TypeOK'
    BY <1>1 DEF Interrupt, TypeOK, Parts, Hz
  <2>2. PlaceInv'
    BY <1>1 DEF Interrupt, PlaceInv, Living, Hz, Slot, TypeOK
  <2>3. LostInv'
    BY <1>1 DEF Interrupt, LostInv, Lost, Living
  <2>4. LoopInv'
    BY <1>1 DEF Interrupt, LoopInv, Living, Hz
  <2>5. HeapInv'
    BY <1>1 DEF Interrupt, HeapInv, Living, Hz
  <2>6. OneOrphanAtMost'
    BY <1>1 DEF Interrupt, OneOrphanAtMost
  <2> QED BY <2>1, <2>2, <2>3, <2>4, <2>5, <2>6
<1>2. ASSUME ConsumeInv, NEW s \in Slot, Die(s) PROVE ConsumeInv'
  <2>1. TypeOK'
    BY <1>2 DEF Die, TypeOK, Parts, Hz
  <2>2. PlaceInv'
    BY <1>2 DEF Die, PlaceInv, Living, Hz
  <2>3. LostInv'
    BY <1>2 DEF Die, LostInv, Lost, Living
  <2>4. LoopInv'
    BY <1>2 DEF Die, LoopInv, Living, Hz
  <2>5. HeapInv'
    BY <1>2 DEF Die, HeapInv, Living, Hz
  <2>6. OneOrphanAtMost'
    BY <1>2 DEF Die, OneOrphanAtMost, Living, Hz
  <2> QED BY <2>1, <2>2, <2>3, <2>4, <2>5, <2>6
<1>3. ASSUME ConsumeInv, NEW s \in Slot, KidHandler(s) PROVE ConsumeInv'
  <2>1. TypeOK'
    <3>1. kid' \in [Slot -> {"unborn", "hog", "handling", "doomed", "zombie", "reaped"}]
      BY <1>3 DEF KidHandler, Signalled, TypeOK
    <3>2. kidk' \in [Slot -> Slot]
      <4>1. CASE kidk' = [kidk EXCEPT ![s] = @ + 1] /\ kidk[s] < s
        BY <1>3, <4>1 DEF TypeOK, Slot
      <4>2. CASE UNCHANGED kidk
        BY <1>3, <4>2 DEF TypeOK
      <4> QED BY <1>3, <4>1, <4>2 DEF KidHandler
    <3> QED BY <1>3, <3>1, <3>2 DEF KidHandler, TypeOK, Parts, Hz
  <2>2. PlaceInv'
    BY <1>3 DEF KidHandler, Signalled, PlaceInv, Living, Hz, Slot, TypeOK
  <2>3. LostInv'
    BY <1>3 DEF KidHandler, Signalled, LostInv, Lost, Living, TypeOK
  <2>4. LoopInv'
    BY <1>3 DEF KidHandler, Signalled, LoopInv, Living, Hz, TypeOK
  <2>5. HeapInv'
    BY <1>3 DEF KidHandler, HeapInv, Living
  <2>6. OneOrphanAtMost'
    BY <1>3 DEF KidHandler, Signalled, OneOrphanAtMost, Living, Hz, TypeOK
  <2> QED BY <2>1, <2>2, <2>3, <2>4, <2>5, <2>6
<1>4. ASSUME ConsumeInv, NEW s \in Slot, HzKidHandler(s) PROVE ConsumeInv'
  <2>1. TypeOK'
    BY <1>4 DEF HzKidHandler, GroupSignalled, TypeOK, Slot, Parts, Hz
  <2>2. PlaceInv'
    BY <1>4 DEF HzKidHandler, GroupSignalled, PlaceInv
  <2>3. LostInv'
    BY <1>4 DEF HzKidHandler, GroupSignalled, LostInv, Lost, Living
  <2>4. LoopInv'
    BY <1>4 DEF HzKidHandler, GroupSignalled, LoopInv
  <2>5. HeapInv'
    BY <1>4 DEF HzKidHandler, HeapInv, Living, Hz
  <2>6. OneOrphanAtMost'
    BY <1>4 DEF HzKidHandler, GroupSignalled, OneOrphanAtMost, Living
  <2> QED BY <2>1, <2>2, <2>3, <2>4, <2>5, <2>6
<1> QED BY <1>1, <1>2, <1>3, <1>4 DEF Kid

LEMMA StepConsume == ConsumeInv /\ [Next]_vars => ConsumeInv'
<1>1. ConsumeInv /\ UNCHANGED vars => ConsumeInv'
  BY DEF vars, ConsumeInv, TypeOK, PlaceInv, LostInv, LoopInv, HeapInv,
         OneOrphanAtMost, Over, Lost, Living, Slot, Parts, Hz
<1> QED BY <1>1, StepPool, StepMeasure, StepKill, StepHzKill, StepEnd, StepKids
        DEF Next, Parent, Measure, KillLoop, Finished

(* What holds of the array and of the children at each point of the        *)
(* parent: the conjuncts of ConsumeInv, in every behaviour.                *)
THEOREM Invariant == Spec => []ConsumeInv
BY InitConsume, StepConsume, PTL DEF Spec

(* The loop counters stay inside cpu_pids[] and the samples, for the       *)
(* parent and in the children's copies (latency-test.c:83-88, 131-149,     *)
(* 163-170).                                                               *)
THEOREM TypeCorrect == Spec => []TypeOK
<1>1. ConsumeInv => TypeOK
  BY DEF ConsumeInv
<1> QED BY <1>1, Invariant, PTL

(* A parent that is gone leaves at most one child burning CPU, the one     *)
(* forked but not yet recorded when SIGINT came (latency-test.c:134-144);  *)
(* one of hz-test whose pool has an empty slot leaves none                 *)
(* (hz-test.c:62-67, 113-124).                                             *)
THEOREM LeavesOneAtMost == Spec => []OneOrphanAtMost
<1>1. ConsumeInv => OneOrphanAtMost
  BY DEF ConsumeInv
<1> QED BY <1>1, Invariant, PTL

=============================================================================
