---------------------------- MODULE DiskProofs -----------------------------
(***************************************************************************)
(* The programs that fill a disk.  First IO-flash-benchmark: the scratch   *)
(* file is gone when the program has come to its end or was interrupted,   *)
(* and its resources are returned, for all sizes, block counts and         *)
(* options.  Then iotest, fibmap and fiemap: what iotest reads back and    *)
(* what the other two print, for every device, every old file and any      *)
(* number of changes by others.  Boolean variables go to Zenon in steps of *)
(* their own.                                                              *)
(***************************************************************************)
EXTENDS Benchmark, FileTools, SequenceTheorems, FiniteSetTheorems, TLAPS

Options == [size : Int, max : Int, repeats : Int, device : BOOLEAN,
            do_read : BOOLEAN, do_write : BOOLEAN, C : BOOLEAN, intact : BOOLEAN]

Inside == {"repeat", "fill", "reopen", "transfer"}     \* within a row

(* What main() has checked of the options is still true in a row, and a    *)
(* row is only entered for a maximum of a megabyte or more.                *)
OptInv ==
  /\ opt \in Options
  /\ pc \notin {"start", "exit"} => opt.repeats <= MAX_REPEATS /\ opt.size >= opt.max
  /\ pc \in Inside => opt.max >= 1

(* Nothing is held at the start; within a repeat the descriptor is open    *)
(* where it is used and the scratch file exists.                           *)
RepeatInv ==
  /\ pc = "start" => fds = 0 /\ buffer = FALSE
  /\ pc \in {"fill", "transfer"} => fds = 1
  /\ pc \in {"fill", "reopen", "transfer"} => j < opt.repeats /\ stored \in Nat

(* A row leaves no scratch file, and the last row, without which a phase   *)
(* does not end, is a row (bs > 1 then).                                   *)
ScratchInv ==
  /\ why \in {"sigint", "success"} => pc = "exit"
  /\ pc = "row" /\ bs > 1 /\ ~opt.device => stored = -1
  /\ ScratchGone

BenchInv == TypeOK /\ OptInv /\ RepeatInv /\ ScratchInv

-----------------------------------------------------------------------------
(* A positive number of megabytes is at least one unit.                    *)
LEMMA AtLeastOne ==
  ASSUME NEW m \in Int
  PROVE  /\ m * MEG \in Int
         /\ m >= 1 => m * MEG >= 1
         /\ m <= 0 => m * MEG <= 0
BY UnitAssumption

(* What is left of a number in an int is a number.                         *)
LEMMA IntIsInt == ASSUME NEW n \in Int PROVE ToInt(n) \in Int
<1>1. INT \div 2 \in Int
  BY UnitAssumption
<1> DEFINE h == INT \div 2
<1>2. (n + h) % INT \in Int
  <2>1. n + h \in Int /\ INT \in Int /\ INT > 0
    BY <1>1, UnitAssumption
  <2> HIDE DEF h
  <2> QED BY <2>1
<1> QED BY <1>1, <1>2 DEF ToInt

LEMMA BlockCount == ASSUME OptInv, bs \in Nat \ {0} PROVE ToInt(size \div bs) \in Int
<1>1. size \in Int
  BY AtLeastOne DEF size, OptInv, Options
<1>2. size \div bs \in Int
  BY <1>1
<1> QED BY <1>2, IntIsInt

LEMMA InitBench == Init => BenchInv
<1> SUFFICES ASSUME Init PROVE BenchInv
  OBVIOUS
<1>1. opt \in Options
  BY OptionAssumption, UnitAssumption DEF Init, Options
<1>2. stored \in {-1, 0} /\ (opt.device => stored = 0)
  BY DEF Init
<1>3. TypeOK
  <2>1. buffer \in BOOLEAN /\ (pc = "row" => ~buffer)
    BY Zenon DEF Init
  <2> QED BY <1>2, <2>1 DEF Init, TypeOK, MAX_REPEATS
<1>4. OptInv /\ RepeatInv
  BY <1>1 DEF Init, OptInv, RepeatInv, Inside
<1>5. ScratchInv
  BY <1>2 DEF Init, ScratchInv, ScratchGone
<1> QED BY <1>3, <1>4, <1>5 DEF BenchInv

LEMMA StartBench == BenchInv /\ Start => BenchInv'
<1> SUFFICES ASSUME BenchInv, Start PROVE BenchInv'
  OBVIOUS
<1> USE DEF BenchInv
<1>1. /\ pc = "start" /\ bs' = 1
      /\ UNCHANGED <<j, i, stored, fds, buffer, moved>>
  BY DEF Start
<1>2. CASE Ends("syntax") /\ UNCHANGED <<opt, phase>>
  BY <1>1, <1>2 DEF Ends, TypeOK, OptInv, Options, Inside, RepeatInv, ScratchInv, ScratchGone
<1>3. CASE ~(Ends("syntax") /\ UNCHANGED <<opt, phase>>)
  <2>1. /\ opt.repeats <= MAX_REPEATS
        /\ opt' = [opt EXCEPT !.size = IF opt.size < opt.max THEN opt.max ELSE opt.size]
        /\ phase' \in {"read", "write"} /\ pc' = "row" /\ why' = why
    <3>1. opt.repeats \in Int
      BY DEF OptInv, Options
    <3>2. /\ ~(opt.C \/ opt.repeats < 0 \/ opt.repeats > MAX_REPEATS)
          /\ opt' = [opt EXCEPT !.size = IF opt.size < opt.max THEN opt.max ELSE opt.size]
          /\ phase' = IF opt.do_write THEN "write" ELSE "read"
          /\ pc' = "row" /\ why' = why
      BY <1>3, Zenon DEF Start
    <3>3. opt.repeats <= MAX_REPEATS
      BY <3>1, <3>2 DEF MAX_REPEATS
    <3>4. phase' \in {"read", "write"}
      BY <3>2, Zenon
    <3> QED BY <3>2, <3>3, <3>4
  <2>2. opt \in Options
    BY DEF OptInv
  <2>3. PICK raised \in Int : /\ raised = IF opt.size < opt.max THEN opt.max ELSE opt.size
                              /\ raised >= opt.max
    BY <2>2 DEF Options
  <2>4. opt' = [opt EXCEPT !.size = raised]
    BY <2>1, <2>3
  <2>5. /\ opt' \in Options /\ opt'.size >= opt'.max
        /\ opt'.repeats = opt.repeats /\ opt'.device = opt.device /\ opt'.max = opt.max
    BY <2>2, <2>3, <2>4 DEF Options
  <2>6. TypeOK'
    <3>1. fds' = 0
      BY <1>1 DEF RepeatInv
    <3>2. buffer' \in BOOLEAN /\ (pc' = "row" => ~buffer')
      BY <1>1, Zenon DEF RepeatInv
    <3> QED BY <1>1, <2>1, <3>1, <3>2 DEF TypeOK
  <2>7. OptInv' /\ RepeatInv'
    BY <2>1, <2>5 DEF OptInv, RepeatInv, Inside
  <2>8. ScratchInv'
    BY <1>1, <2>1, <2>5 DEF ScratchInv, ScratchGone
  <2> QED BY <2>6, <2>7, <2>8
<1> QED BY <1>2, <1>3

LEMMA BeginRowBench == BenchInv /\ BeginRow => BenchInv'
<1> SUFFICES ASSUME BenchInv, BeginRow PROVE BenchInv'
  OBVIOUS
<1> USE DEF BenchInv
<1>1. /\ pc = "row" /\ j' = 0
      /\ opt' = opt /\ phase' = phase /\ bs' = bs /\ i' = i
      /\ stored' = stored /\ fds' = fds /\ moved' = moved
      /\ \/ buffer' = TRUE /\ pc' = "repeat" /\ why' = why
         \/ pc' = "exit" /\ why' = "error" /\ buffer' = buffer
  BY DEF BeginRow, here, Ends
<1>2. opt.max >= 1
  <2>1. opt.max \in Int /\ bs >= 1 /\ bs <= opt.max * MEG
    BY DEF BeginRow, TypeOK, OptInv, Options
  <2>2. /\ opt.max * MEG \in Int
        /\ opt.max <= 0 => opt.max * MEG <= 0
    BY <2>1, AtLeastOne
  <2>3. bs \in Int
    BY DEF TypeOK
  <2> QED BY <2>1, <2>2, <2>3
<1>3. TypeOK'
  <2>1. buffer' \in BOOLEAN /\ pc' # "row"
    BY <1>1, Zenon DEF TypeOK
  <2> QED BY <1>1, <2>1 DEF TypeOK, MAX_REPEATS
<1>4. OptInv' /\ RepeatInv'
  BY <1>1, <1>2 DEF OptInv, RepeatInv, Inside
<1>5. ScratchInv'
  BY <1>1 DEF ScratchInv, ScratchGone
<1> QED BY <1>3, <1>4, <1>5

LEMMA EndRowBench == BenchInv /\ EndRow => BenchInv'
<1> SUFFICES ASSUME BenchInv, EndRow PROVE BenchInv'
  OBVIOUS
<1> USE DEF BenchInv
<1>1. /\ pc = "repeat" /\ pc' = "row" /\ bs' = 2 * bs /\ buffer' = FALSE
      /\ stored' = IF opt.device THEN stored ELSE -1
      /\ opt' = opt /\ phase' = phase /\ j' = j /\ i' = i /\ why' = why
      /\ fds' = fds /\ moved' = moved
  BY DEF EndRow, Unlinked
<1>2. TypeOK'
  <2>1. buffer' \in BOOLEAN /\ (pc' = "row" => ~buffer')
    BY <1>1, Zenon
  <2> QED BY <1>1, <2>1 DEF TypeOK
<1>3. OptInv' /\ RepeatInv'
  BY <1>1 DEF OptInv, RepeatInv, Inside
<1>4. ScratchInv'
  BY <1>1 DEF ScratchInv, ScratchGone
<1> QED BY <1>2, <1>3, <1>4

LEMMA EndPhaseBench == BenchInv /\ EndPhase => BenchInv'
<1> SUFFICES ASSUME BenchInv, EndPhase PROVE BenchInv'
  OBVIOUS
<1>1. opt.max >= 1 => bs > 1
  BY AtLeastOne DEF EndPhase, BenchInv, TypeOK, OptInv, Options
<1> QED
  BY <1>1 DEF EndPhase, Ends, BenchInv, TypeOK, OptInv, Options, Inside,
              RepeatInv, ScratchInv, ScratchGone, MAX_REPEATS

(* What a failing call inside a row leaves.                                *)
LEMMA FailBench ==
  ASSUME BenchInv, pc \in Inside, NEW closed \in 0 .. fds, Fails(closed),
         UNCHANGED <<opt, phase, bs, j, moved>>, i' \in Int,
         stored' = stored \/ stored' = Unlinked
  PROVE  BenchInv'
<1> USE DEF BenchInv
<1>1. /\ pc' = "exit" /\ why' = "error" /\ buffer' = FALSE /\ fds' = fds - closed
      /\ opt' = opt /\ phase' = phase /\ bs' = bs /\ j' = j /\ moved' = moved
  BY DEF Fails, Ends
<1>2. stored' \in Nat \cup {-1} /\ (opt.device => stored' = stored)
  BY DEF Unlinked, TypeOK
<1>3. fds' \in 0 .. 1
  BY <1>1 DEF TypeOK
<1>4. TypeOK'
  BY <1>1, <1>2, <1>3 DEF TypeOK
<1>5. OptInv' /\ RepeatInv'
  BY <1>1 DEF OptInv, RepeatInv, Inside
<1>6. ScratchInv'
  BY <1>1, <1>2 DEF ScratchInv, ScratchGone
<1> QED BY <1>4, <1>5, <1>6

LEMMA OpenBench == BenchInv /\ OpenNew => BenchInv'
<1> SUFFICES ASSUME BenchInv, OpenNew PROVE BenchInv'
  OBVIOUS
<1> USE DEF BenchInv
<1>1. /\ pc = "repeat" /\ j < opt.repeats /\ moved' = 0
      /\ opt' = opt /\ phase' = phase /\ bs' = bs /\ j' = j
  BY DEF OpenNew, here
<1>2. i' \in Int
  BY BlockCount DEF OpenNew, TypeOK
<1>3. CASE stored' = Unlinked /\ Fails(0)
  <2>1. pc' = "exit" /\ why' = "error" /\ buffer' = FALSE /\ fds' = fds
    BY <1>3 DEF Fails, Ends, TypeOK
  <2>2. stored' \in Nat \cup {-1} /\ (opt.device => stored' = stored)
    BY <1>3 DEF Unlinked, TypeOK
  <2>3. TypeOK'
    <3>1. buffer' \in BOOLEAN /\ pc' # "row"
      BY <2>1, Zenon
    <3> QED BY <1>1, <1>2, <2>1, <2>2, <3>1 DEF TypeOK
  <2>4. OptInv' /\ RepeatInv'
    BY <1>1, <2>1 DEF OptInv, RepeatInv, Inside
  <2>5. ScratchInv'
    BY <1>1, <2>1, <2>2 DEF ScratchInv, ScratchGone
  <2> QED BY <2>3, <2>4, <2>5
<1>4. CASE ~(stored' = Unlinked /\ Fails(0))
  <2>1. /\ stored' = IF opt.device THEN stored ELSE 0
        /\ fds' = fds + 1 /\ pc' \in {"transfer", "fill"}
        /\ why' = why /\ buffer' = buffer
    BY <1>4 DEF OpenNew
  <2>2. stored' \in Nat /\ (opt.device => stored' = stored)
    BY <2>1 DEF TypeOK, ScratchInv, ScratchGone, OptInv, Options
  <2>3. fds' = 1
    BY <1>1, <2>1 DEF TypeOK
  <2>4. TypeOK'
    BY <1>1, <1>2, <2>1, <2>2, <2>3 DEF TypeOK
  <2>5. OptInv' /\ RepeatInv'
    BY <1>1, <2>1, <2>2, <2>3 DEF OptInv, RepeatInv, Inside
  <2>6. ScratchInv'
    BY <1>1, <2>1, <2>2 DEF ScratchInv, ScratchGone
  <2> QED BY <2>4, <2>5, <2>6
<1> QED BY <1>3, <1>4

LEMMA FillBench == BenchInv /\ Fill => BenchInv'
<1> SUFFICES ASSUME BenchInv, Fill PROVE BenchInv'
  OBVIOUS
<1> USE DEF BenchInv
<1>1. /\ pc = "fill" /\ fds = 1 /\ j < opt.repeats /\ stored \in Nat
      /\ opt' = opt /\ phase' = phase /\ bs' = bs /\ j' = j /\ i' = i /\ moved' = moved
  BY DEF Fill, here, RepeatInv
<1>2. size \in Nat
  <2>1. opt.size \in Int /\ opt.size >= 1
    BY <1>1 DEF OptInv, Options, Inside
  <2> QED BY <2>1, AtLeastOne DEF size
<1>3. CASE Fails(0) /\ UNCHANGED stored
  BY <1>1, <1>3, FailBench DEF Inside, TypeOK
<1>4. CASE ~(Fails(0) /\ UNCHANGED stored)
  <2>1. /\ fds' = fds - 1 /\ pc' = "reopen" /\ why' = why /\ buffer' = buffer
        /\ \E got \in (IF opt.intact THEN {size} ELSE 0 .. size) :
             stored' = IF opt.device THEN stored ELSE got
    BY <1>4 DEF Fill
  <2>2. stored' \in Nat /\ (opt.device => stored' = stored)
    BY <1>1, <1>2, <2>1
  <2>3. TypeOK'
    BY <1>1, <2>1, <2>2 DEF TypeOK
  <2>4. OptInv' /\ RepeatInv'
    BY <1>1, <2>1, <2>2 DEF OptInv, RepeatInv, Inside
  <2>5. ScratchInv'
    BY <1>1, <2>1, <2>2 DEF ScratchInv, ScratchGone
  <2> QED BY <2>3, <2>4, <2>5
<1> QED BY <1>3, <1>4

LEMMA ReopenBench == BenchInv /\ Reopen => BenchInv'
<1> SUFFICES ASSUME BenchInv, Reopen PROVE BenchInv'
  OBVIOUS
<1> USE DEF BenchInv
<1>1. /\ pc = "reopen" /\ fds = 0 /\ j < opt.repeats /\ stored \in Nat
      /\ opt' = opt /\ phase' = phase /\ bs' = bs /\ j' = j /\ i' = i
      /\ stored' = stored /\ moved' = moved
  BY DEF Reopen, here, RepeatInv, TypeOK
<1>2. CASE Fails(0)
  BY <1>1, <1>2, FailBench DEF Inside, TypeOK
<1>3. CASE ~Fails(0)
  <2>1. fds' = 1 /\ pc' = "transfer" /\ why' = why /\ buffer' = buffer
    BY <1>1, <1>3 DEF Reopen
  <2>2. TypeOK'
    BY <1>1, <2>1 DEF TypeOK
  <2>3. OptInv' /\ RepeatInv'
    BY <1>1, <2>1 DEF OptInv, RepeatInv, Inside
  <2>4. ScratchInv'
    BY <1>1, <2>1 DEF ScratchInv, ScratchGone
  <2> QED BY <2>2, <2>3, <2>4
<1> QED BY <1>2, <1>3

LEMMA EndRepeatBench == BenchInv /\ EndRepeat => BenchInv'
<1> SUFFICES ASSUME BenchInv, EndRepeat PROVE BenchInv'
  OBVIOUS
<1> USE DEF BenchInv
<1>1. /\ pc = "transfer" /\ pc' = "repeat" /\ fds = 1 /\ fds' = 0
      /\ j < opt.repeats /\ j' = j + 1
      /\ opt' = opt /\ phase' = phase /\ bs' = bs /\ i' = i /\ why' = why
      /\ stored' = stored /\ buffer' = buffer /\ moved' = moved
  BY DEF EndRepeat, here, RepeatInv
<1>2. j' \in 0 .. MAX_REPEATS
  <2>1. opt.repeats \in Int /\ opt.repeats <= MAX_REPEATS /\ j \in 0 .. MAX_REPEATS
    BY <1>1 DEF OptInv, Options, TypeOK
  <2> QED BY <1>1, <2>1 DEF MAX_REPEATS
<1>3. TypeOK'
  BY <1>1, <1>2 DEF TypeOK
<1>4. OptInv' /\ RepeatInv'
  BY <1>1 DEF OptInv, RepeatInv, Inside
<1>5. ScratchInv'
  BY <1>1 DEF ScratchInv, ScratchGone
<1> QED BY <1>3, <1>4, <1>5

LEMMA TransferBench == BenchInv /\ Transfer => BenchInv'
<1> SUFFICES ASSUME BenchInv, Transfer PROVE BenchInv'
  OBVIOUS
<1> USE DEF BenchInv
<1>1. /\ pc = "transfer" /\ fds = 1 /\ j < opt.repeats /\ stored \in Nat
      /\ opt' = opt /\ phase' = phase /\ bs' = bs /\ j' = j /\ i' \in Int
  BY DEF Transfer, here, RepeatInv, TypeOK
<1>2. CASE Fails(1) /\ UNCHANGED <<stored, moved>>
  BY <1>1, <1>2, FailBench DEF Inside
<1>3. CASE ~(Fails(1) /\ UNCHANGED <<stored, moved>>)
  <2>1. /\ pc' = pc /\ why' = why /\ fds' = fds /\ buffer' = buffer
        /\ \E got \in (IF opt.intact THEN {bs} ELSE {0, bs - 1, bs}) :
             /\ moved' = moved + got
             /\ stored' = IF phase = "write" /\ ~opt.device THEN stored + got ELSE stored
    BY <1>3 DEF Transfer
  <2>2. /\ stored' \in Nat /\ moved' \in Nat
        /\ opt.device => stored' = stored
    BY <1>1, <2>1 DEF TypeOK
  <2>3. TypeOK'
    BY <1>1, <2>1, <2>2 DEF TypeOK
  <2>4. OptInv' /\ RepeatInv'
    BY <1>1, <2>1, <2>2 DEF OptInv, RepeatInv, Inside
  <2>5. ScratchInv'
    BY <1>1, <2>1, <2>2 DEF ScratchInv, ScratchGone
  <2> QED BY <2>3, <2>4, <2>5
<1> QED BY <1>2, <1>3

LEMMA HandlerBench == BenchInv /\ Handler => BenchInv'
BY DEF Handler, Ends, Unlinked, here, BenchInv, TypeOK, OptInv, Options, Inside,
       RepeatInv, ScratchInv, ScratchGone, MAX_REPEATS

LEMMA StepBench == BenchInv /\ [Next]_vars => BenchInv'
<1> SUFFICES ASSUME BenchInv, [Next]_vars PROVE BenchInv'
  OBVIOUS
<1>1. CASE Run
  BY <1>1, StartBench, BeginRowBench, EndPhaseBench, OpenBench, FillBench,
     ReopenBench, TransferBench, EndRepeatBench, EndRowBench DEF Run
<1>2. CASE Handler
  BY <1>2, HandlerBench
<1>3. CASE UNCHANGED vars
  BY <1>3 DEF vars, size, BenchInv, TypeOK, OptInv, Inside, RepeatInv,
              ScratchInv, ScratchGone
<1> QED BY <1>1, <1>2, <1>3 DEF Next

(* The inductive invariant holds in every behaviour of benchmark.c.        *)
THEOREM Invariant == Spec => []BenchInv
<1> QED BY InitBench, StepBench, PTL DEF Spec

(* Loop variables are in range (rates[j] in particular), no descriptor is  *)
(* open between repeats and no buffer allocated between rows.              *)
THEOREM TypeCorrect == Spec => []TypeOK
<1>1. BenchInv => TypeOK
  BY DEF BenchInv
<1> QED BY <1>1, Invariant, PTL

(* The scratch file is gone after a complete run and after a SIGINT at any *)
(* moment; a device is never unlinked (benchmark.c:223, 329, 343).         *)
THEOREM LeavesNoScratch == Spec => []ScratchGone
<1>1. BenchInv => ScratchGone
  BY DEF BenchInv, ScratchInv
<1> QED BY <1>1, Invariant, PTL

-----------------------------------------------------------------------------
(* The blocks to go: in a run in which nothing fails and the block count   *)
(* fits an int, what is moved and what i still announces make up the size  *)
(* but for a tail shorter than a block.                                    *)
Announced == opt.intact /\ size \div bs < INT \div 2

TailInv ==
  pc \in {"fill", "reopen", "transfer"} /\ Announced =>
    /\ i >= 0
    /\ moved + bs * i <= size
    /\ size < moved + bs * i + bs

(* A number that an int can hold is stored unchanged.                      *)
LEMMA IntHolds ==
  ASSUME NEW n \in Nat, n < INT \div 2 PROVE ToInt(n) = n
<1> DEFINE h == INT \div 2
<1>1. h \in Nat /\ INT \in Nat /\ 2 * h <= INT
  BY UnitAssumption
<1>2. n + h \in 0 .. INT - 1
  <2>1. n < h
    OBVIOUS
  <2> HIDE DEF h
  <2> QED BY <1>1, <2>1
<1>3. (n + h) % INT = n + h
  <2> HIDE DEF h
  <2> QED BY <1>1, <1>2
<1>4. ((n + h) % INT) - h = n
  <2> HIDE DEF h
  <2> QED BY <1>1, <1>3
<1> QED BY <1>4 DEF ToInt

LEMMA Blocks ==
  ASSUME NEW a \in Nat, NEW b \in Nat \ {0}
  PROVE  a \div b \in Nat /\ b * (a \div b) <= a /\ a < b * (a \div b) + b
<1>1. a \div b \in Int /\ a % b \in 0 .. b - 1 /\ a = b * (a \div b) + (a % b)
  OBVIOUS
<1>2. b * (a \div b) \in Int
  BY <1>1
<1>3. a \div b >= 0
  OBVIOUS
<1> DEFINE p == b * (a \div b)
           r == a % b
<1>4. p \in Int /\ r \in 0 .. b - 1 /\ a = p + r
  BY <1>1, <1>2
<1> HIDE DEF p, r
<1>5. p <= a /\ a < p + b
  BY <1>4
<1> QED BY <1>1, <1>3, <1>5 DEF p

LEMMA SizeType == BenchInv /\ pc \in Inside => size \in Nat
<1> SUFFICES ASSUME BenchInv, pc \in Inside PROVE size \in Nat
  OBVIOUS
<1>1. opt.size \in Int /\ opt.size >= 1
  BY DEF BenchInv, OptInv, Options, Inside
<1> QED BY <1>1, AtLeastOne DEF size

LEMMA OpenTail == BenchInv /\ OpenNew => TailInv'
<1> SUFFICES ASSUME BenchInv, OpenNew, Announced PROVE TailInv'
  <2>1. BenchInv /\ OpenNew => size' = size /\ bs' = bs /\ opt' = opt
    BY DEF OpenNew, here, size
  <2> QED BY <2>1 DEF TailInv, Announced
<1>1. size \in Nat /\ bs \in Nat \ {0}
  BY SizeType DEF OpenNew, Inside, BenchInv, TypeOK
<1> DEFINE q == size \div bs
<1>2. q \in Nat /\ bs * q <= size /\ size < bs * q + bs
  BY <1>1, Blocks
<1>3. i' = q /\ moved' = 0 /\ size' = size /\ bs' = bs
  <2>1. i' = ToInt(q) /\ moved' = 0 /\ UNCHANGED <<opt, bs>> /\ q < INT \div 2
    BY DEF OpenNew, here, Announced
  <2>2. ToInt(q) = q
    BY <1>2, <2>1, IntHolds
  <2> QED BY <2>1, <2>2 DEF size
<1> HIDE DEF q
<1>4. bs * q \in Int
  BY <1>1, <1>2
<1> QED BY <1>1, <1>2, <1>3, <1>4 DEF TailInv

LEMMA TransferTail == BenchInv /\ TailInv /\ Transfer => TailInv'
<1> SUFFICES ASSUME BenchInv, TailInv, Transfer, Announced PROVE TailInv'
  <2>1. Transfer => size' = size /\ bs' = bs /\ opt' = opt
    BY DEF Transfer, here, size
  <2> QED BY <2>1 DEF TailInv, Announced
<1>1. /\ size \in Nat /\ bs \in Nat \ {0} /\ i \in Int /\ i > 0 /\ moved \in Nat
      /\ moved + bs * i <= size /\ size < moved + bs * i + bs
  BY SizeType DEF Transfer, Inside, BenchInv, TypeOK, TailInv
<1>2. moved' = moved + bs
  BY DEF Transfer, Fails, May_fail, Announced
<1>3. i' = i - 1 /\ size' = size /\ bs' = bs
  BY DEF Transfer, here, size
<1>4. bs * (i - 1) = bs * i - bs /\ bs * i \in Int
  BY <1>1
<1> DEFINE p == bs * i
<1>5. moved + bs + bs * (i - 1) = moved + p
  BY <1>1, <1>4
<1>6. i' >= 0 /\ moved' + bs' * i' = moved + p
  BY <1>1, <1>2, <1>3, <1>5
<1> QED BY <1>1, <1>3, <1>6 DEF TailInv

LEMMA StepTail == BenchInv /\ TailInv /\ [Next]_vars => TailInv'
<1>1. ASSUME TailInv, UNCHANGED <<opt, bs, i, moved>>,
             pc' \in {"fill", "reopen", "transfer"} => pc \in {"fill", "reopen", "transfer"}
      PROVE  TailInv'
  BY <1>1 DEF TailInv, Announced, size
<1>2. ASSUME pc' \notin {"fill", "reopen", "transfer"} PROVE TailInv'
  BY <1>2 DEF TailInv
<1>3. Fill \/ Reopen => UNCHANGED <<opt, bs, i, moved>> /\ pc \in {"fill", "reopen"}
  BY DEF Fill, Reopen, here
<1>4. Start \/ BeginRow \/ EndPhase \/ EndRepeat \/ EndRow \/ Handler =>
        pc' \notin {"fill", "reopen", "transfer"}
  <2>1. BeginRow \/ EndRepeat \/ EndRow => pc' \in {"repeat", "row", "exit"}
    BY DEF BeginRow, EndRepeat, EndRow, Ends
  <2>2. Start \/ EndPhase \/ Handler => pc' \in {"row", "exit"}
    BY DEF Start, EndPhase, Handler, Ends
  <2> QED BY <2>1, <2>2
<1> QED BY <1>1, <1>2, <1>3, <1>4, OpenTail, TransferTail DEF Next, Run, vars

(* A run in which nothing fails transfers the whole size but for a tail    *)
(* shorter than a block, for every size and block size whose block count   *)
(* fits an int (benchmark.c:198-207, 300-309).                             *)
THEOREM MovesTheSize == Spec => []AllButATail
<1>1. Init => TailInv
  BY DEF Init, TailInv
<1>2. BenchInv /\ TailInv => AllButATail
  <2> SUFFICES ASSUME BenchInv, TailInv, pc = "transfer", i <= 0, Announced
               PROVE  moved <= size /\ size - moved < bs
    BY DEF AllButATail, Announced
  <2>1. i = 0 /\ size \in Nat /\ bs \in Nat /\ moved \in Nat
    BY SizeType DEF BenchInv, TypeOK, TailInv, Inside
  <2>2. bs * i = 0
    BY <2>1
  <2> QED BY <2>1, <2>2 DEF TailInv
<1> QED BY <1>1, <1>2, StepTail, Invariant, PTL DEF Spec

-----------------------------------------------------------------------------
(* Where a block of a file can be, and a page of the cache.                *)
Places == Phys \cup {Hole}
PageType == [v : Content, dirty : BOOLEAN]

(* The file's map is injective but for its holes; its pages and its cells. *)
MapInv ==
  /\ file \in Seq(Places) /\ Len(file) <= LIMIT
  /\ \A x, y \in DOMAIN file : file[x] = file[y] /\ file[x] # Hole => x = y
  /\ DOMAIN cache \subseteq 0 .. Len(file) - 1
  /\ \A b \in DOMAIN cache : /\ cache[b] \in PageType
                             /\ cache[b].dirty => file[b + 1] # Hole
  /\ disk \in [Phys -> Content]
  /\ device \in Devices
  /\ version \in Nat /\ changes \in 0 .. MaxChanges

(* iotest: what was written is in the file until it is read back, unless   *)
(* the file was cut below the place of the next write.                     *)
IoType == [pc : {"write", "read", "good", "bad", "failed"}, b : 0 .. LIMIT,
           count : 0 .. LIMIT, cold : BOOLEAN, cut : BOOLEAN]

IoInv ==
  /\ io \in IoType
  /\ io.pc = "write" => io.b = io.count
  /\ io.pc # "write" => io.b <= io.count
  /\ io.pc = "good" => io.b = io.count

CutInv ==
  /\ changes = 0 => ~io.cut
  /\ ~io.cut =>
       /\ io.pc = "write" => io.count <= Len(file)
       /\ \A b \in 0 .. Len(file) - 1 : b < io.count => file[b + 1] # Hole

(* fibmap: while the file holds still the output so far is its map, cut    *)
(* down to ints, and so is the length.                                     *)
FibType == [pc : {"idle", "stat", "map", "end"}, n : -MAXINT - 1 .. MAXINT,
            out : Seq(Int), failed : BOOLEAN, seen : Nat]

FibInv ==
  /\ fib \in FibType
  /\ fib.seen <= version
  /\ Len(fib.out) <= fib.n \/ Len(fib.out) = 0
  /\ fib.pc \in {"idle", "stat"} => fib.out = <<>>
  /\ ~fib.failed /\ fib.pc = "end" => Len(fib.out) >= fib.n
  /\ ~fib.failed /\ fib.pc \in {"map", "end"} /\ fib.seen = version =>
       /\ fib.n = Wrap(Len(file))
       /\ \A k \in 1 .. Len(fib.out) : fib.out[k] = Wrap(file[k])

(* fiemap: while the file holds still there is room for its extents, if    *)
(* their size is an int.                                                   *)
FieFields == {"pc", "room", "size", "extents", "mapped", "seen"}

FieInv ==
  /\ DOMAIN fie = FieFields
  /\ fie.pc \in {"idle", "count", "read", "dump", "end"}
  /\ fie.room \in 0 .. LIMIT /\ fie.mapped \in 0 .. LIMIT /\ fie.seen \in Nat
  /\ fie.size \in -MAXINT - 1 .. MAXINT
  /\ IsFiniteSet(fie.extents) /\ Cardinality(fie.extents) <= fie.room
  /\ fie.seen <= version
  /\ fie.pc = "count" => fie.extents = {}
  /\ fie.pc \in {"read", "dump"} => fie.size = Wrap(EXTENT * fie.room)
  /\ fie.pc = "read" /\ fie.seen = version => fie.room = Cardinality(Extents(file))
  /\ fie.pc = "dump" =>
       /\ fie.mapped <= fie.room \/ fie.room = 0
       /\ EXTENT * fie.room <= MAXINT /\ fie.seen = version =>
            fie.extents = Extents(file) /\ fie.mapped = Cardinality(fie.extents)

(* A good device: clean pages of a block are those of the device, and what *)
(* iotest has written is what a read returns.                              *)
GoodInv ==
  device = "good" =>
    /\ \A b \in DOMAIN cache :
         ~cache[b].dirty /\ file[b + 1] # Hole => cache[b].v = disk[file[b + 1]]
    /\ \A b \in 0 .. Len(file) - 1 :
         b < io.count /\ file[b + 1] # Hole => Stored(b) = b
    /\ io.pc = "bad" => io.cut /\ (io.b < Len(file) => file[io.b + 1] = Hole)

(* A fake one: nothing is stored past its end, and while the read test is  *)
(* cold the blocks read are in its cells.                                  *)
FakeInv ==
  /\ device = "drops" => \A p \in Phys : p > REAL => disk[p] \in {0, Junk}
  /\ io.cold /\ changes = 0 /\ io.pc \in {"read", "good"} =>
       /\ io.count <= Len(file)
       /\ \A b \in DOMAIN cache : ~cache[b].dirty
       /\ \A b \in 0 .. io.b - 1 :
            file[b + 1] \in Phys /\ disk[Cell(file[b + 1])] = b

DataInv == MapInv /\ IoInv /\ CutInv /\ GoodInv /\ FakeInv
FileInv == DataInv /\ FibInv /\ FieInv

-----------------------------------------------------------------------------
(* Of a division with remainder.                                           *)
LEMMA Remainder ==
  ASSUME NEW a \in Int, NEW m \in Nat \ {0}
  PROVE  /\ (a % m) \in 0 .. m - 1
         /\ a \in 0 .. m - 1 => (a % m) = a
         /\ a >= 0 => (a % m) <= a
<1>1. (a % m) \in 0 .. m - 1
  OBVIOUS
<1>2. a \in 0 .. m - 1 => (a % m) = a
  OBVIOUS
<1>3. a >= 0 => (a % m) <= a
  <2> SUFFICES ASSUME a >= 0 PROVE (a % m) <= a
    OBVIOUS
  <2>1. CASE a < m
    BY <1>2, <2>1
  <2>2. CASE a >= m
    BY <1>1, <2>2
  <2> QED BY <2>1, <2>2
<1> QED BY <1>1, <1>2, <1>3

(* What an int makes of a number.                                          *)
LEMMA WrapOf ==
  ASSUME NEW a \in Nat
  PROVE  /\ Wrap(a) \in -MAXINT - 1 .. MAXINT /\ Wrap(a) \in Int /\ Wrap(a) <= a
         /\ a <= MAXINT => Wrap(a) = a
<1>1. MAXINT \in Nat
  BY IntAssumption
<1> DEFINE m == 2 * MAXINT + 2
           x == a + MAXINT + 1
<1>2. m \in Nat \ {0} /\ x \in Int /\ x >= 0 /\ (a <= MAXINT => x \in 0 .. m - 1)
  BY <1>1
<1>3. Wrap(a) = (x % m) - MAXINT - 1
  BY DEF Wrap
<1> HIDE DEF m, x
<1>4. (x % m) \in 0 .. m - 1 /\ (x % m) <= x /\ (x \in 0 .. m - 1 => (x % m) = x)
  BY <1>2, Remainder
<1> QED BY <1>1, <1>2, <1>3, <1>4 DEF m, x

(* Of a product.                                                           *)
LEMMA ProductGrows ==
  ASSUME NEW e \in Nat, NEW x \in Nat, NEW y \in Nat, x <= y
  PROVE  e * x \in Nat /\ e * y \in Nat /\ e * x <= e * y
<1>1. PICK d \in Nat : y = x + d
  <2>1. y - x \in Nat /\ y = x + (y - x)
    OBVIOUS
  <2> QED BY <2>1
<1>2. e * x \in Nat /\ e * d \in Nat
  OBVIOUS
<1>3. e * (x + d) = e * x + e * d
  OBVIOUS
<1> QED BY <1>1, <1>2, <1>3

(* A block of the device is in one of its cells.                           *)
LEMMA CellType == ASSUME NEW p \in Phys PROVE Cell(p) \in Phys
<1>1. SIZE \in Nat /\ REAL \in Nat \ {0} /\ REAL <= SIZE /\ p - 1 \in Int
  BY SizeAssumption DEF Phys
<1>2. ((p - 1) % REAL) \in 0 .. REAL - 1
  BY <1>1, Remainder
<1> QED BY <1>1, <1>2 DEF Cell, Phys

(* What a file is after a write to a block that was not there.             *)
LEMMA PlacedOf ==
  ASSUME NEW f \in Seq(Places), NEW b \in Nat, NEW p \in Places
  PROVE  /\ Placed(f, b, p) \in Seq(Places)
         /\ Len(Placed(f, b, p)) = IF b < Len(f) THEN Len(f) ELSE b + 1
         /\ Placed(f, b, p)[b + 1] = p
         /\ \A x \in 1 .. Len(f) : x # b + 1 => Placed(f, b, p)[x] = f[x]
         /\ \A x \in 1 .. Len(Placed(f, b, p)) :
              x > Len(f) /\ x # b + 1 => Placed(f, b, p)[x] = Hole
<1> DEFINE n == IF b < Len(f) THEN Len(f) ELSE b + 1
           g == Placed(f, b, p)
<1>1. Len(f) \in Nat /\ \A x \in 1 .. Len(f) : f[x] \in Places
  BY LenProperties, ElementOfSeq
<1>2. n \in Nat /\ b + 1 \in 1 .. n /\ 1 .. Len(f) \subseteq 1 .. n
  BY <1>1
<1>3. g = [x \in 1 .. n |-> IF x = b + 1 THEN p ELSE IF x <= Len(f) THEN f[x] ELSE Hole]
  BY DEF Placed
<1> HIDE DEF n, g
<1>4. \A x \in 1 .. n : g[x] \in Places
  BY <1>1, <1>2, <1>3 DEF Places
<1>5. g \in [1 .. n -> Places]
  BY <1>3, <1>4
<1>6. g \in Seq(Places) /\ Len(g) = n
  BY <1>2, <1>5
<1> QED BY <1>1, <1>2, <1>3, <1>6 DEF n, g

(* A file has no more extents than blocks.                                 *)
LEMMA ExtentsOf ==
  ASSUME NEW f \in Seq(Places)
  PROVE  IsFiniteSet(Extents(f)) /\ Cardinality(Extents(f)) \in 0 .. Len(f)
<1> DEFINE follows(k) == k > 1 /\ f[k - 1] # Hole /\ f[k] = f[k - 1] + 1
           first == {k \in DOMAIN f : f[k] # Hole /\ ~follows(k)}
           run(k) == CHOOSE l \in k .. Len(f) :
                       /\ l = Len(f) \/ ~follows(l + 1)
                       /\ \A h \in k + 1 .. l : follows(h)
           g == [k \in first |-> <<k - 1, f[k], run(k) - k + 1>>]
<1>1. Extents(f) = {<<k - 1, f[k], run(k) - k + 1>> : k \in first}
  BY DEF Extents
<1>2. g \in Surjection(first, Extents(f))
  <2> HIDE DEF run, first
  <2> QED BY <1>1 DEF Surjection
<1>3. IsFiniteSet(first) /\ Cardinality(first) \in 0 .. Len(f)
  <2>1. Len(f) \in Nat /\ first \subseteq 1 .. Len(f)
    BY LenProperties
  <2> HIDE DEF first
  <2>2. IsFiniteSet(1 .. Len(f)) /\ Cardinality(1 .. Len(f)) = Len(f)
    BY <2>1, FS_Interval
  <2>3. IsFiniteSet(first) /\ Cardinality(first) <= Len(f)
    BY <2>1, <2>2, FS_Subset
  <2> QED BY <2>1, <2>3, FS_CardinalityType
<1>4. IsFiniteSet(Extents(f)) /\ Cardinality(Extents(f)) <= Cardinality(first)
  <2> HIDE DEF g, first
  <2> QED BY <1>2, <1>3, FS_Surjection
<1>5. Len(f) \in Nat
  BY LenProperties
<1> HIDE DEF first
<1> QED BY <1>3, <1>4, <1>5, FS_CardinalityType

(* Among finitely many extents one is the last.                            *)
LEMMA LastExtent ==
  ASSUME NEW es, IsFiniteSet(es), es # {}, \A d \in es : d[1] \in Int
  PROVE  \E e \in es : \A d \in es : d[1] <= e[1]
<1> DEFINE After(e) == {d \in es : d[1] > e[1]}
           Afters == {After(e) : e \in es}
<1>1. Afters \subseteq FiniteSubsetsOf(es) /\ Afters # {}
  <2> SUFFICES ASSUME NEW e \in es PROVE IsFiniteSet(After(e))
    BY DEF FiniteSubsetsOf
  <2> QED BY FS_Subset
<1>2. PICK T \in Afters : \A U \in Afters : <<U, T>> \notin StrictSubsetOrdering(es)
  <2> HIDE DEF Afters
  <2> QED BY <1>1, FS_StrictSubsetOrderingWellFounded, WFMin
<1>3. PICK e \in es : T = After(e)
  BY <1>2
<1>4. \A d \in es : d[1] <= e[1]
  <2> SUFFICES ASSUME NEW d \in es, d[1] > e[1] PROVE FALSE
    OBVIOUS
  <2>1. d \in T /\ d \notin After(d) /\ After(d) \subseteq T /\ T \subseteq es
    BY <1>3
  <2>2. <<After(d), T>> \in StrictSubsetOrdering(es)
    BY <2>1 DEF StrictSubsetOrdering
  <2> QED BY <1>2, <2>2
<1> QED BY <1>4

(* What FIEMAP returns of the list: no more than there is room for, all of *)
(* it if the room was counted on the same list.                            *)
LEMMA PrefixOf ==
  ASSUME NEW es, IsFiniteSet(es), \A d \in es : d[1] \in Int, NEW n \in Nat
  PROVE  /\ IsFiniteSet(Prefix(n, es)) /\ Cardinality(Prefix(n, es)) \in 0 .. n
         /\ n = Cardinality(es) => Prefix(n, es) = es
<1> DEFINE Upto(e) == {d \in es : d[1] <= e[1]}
           P == Prefix(n, es)
<1>1. P = {e \in es : Cardinality(Upto(e)) <= n}
  BY DEF Prefix
<1>2. \A e : IsFiniteSet(Upto(e)) /\ Cardinality(Upto(e)) <= Cardinality(es)
  <2> TAKE e
  <2>1. Upto(e) \in SUBSET es
    OBVIOUS
  <2> HIDE DEF Upto
  <2> QED BY <2>1, FS_Subset
<1>3. IsFiniteSet(P)
  BY <1>1, FS_Subset
<1>4. Cardinality(P) \in Nat
  BY <1>3, FS_CardinalityType
<1>5. n = Cardinality(es) => P = es
  BY <1>1, <1>2
<1>6. CASE P = {}
  <2>1. Cardinality(P) = 0
    BY <1>6, FS_EmptySet
  <2> HIDE DEF P
  <2> QED BY <1>3, <1>5, <2>1 DEF P
<1>7. CASE P # {}
  <2>1. \A d \in P : d[1] \in Int
    BY <1>1
  <2>2. PICK e \in P : \A d \in P : d[1] <= e[1]
    <3> HIDE DEF P
    <3> QED BY <1>3, <1>7, <2>1, LastExtent
  <2>3. P \in SUBSET Upto(e) /\ Cardinality(Upto(e)) <= n
    BY <1>1, <2>2
  <2>4. Cardinality(P) <= Cardinality(Upto(e))
    <3> HIDE DEF P, Upto
    <3> QED BY <1>2, <2>3, FS_Subset
  <2>5. Cardinality(Upto(e)) \in Nat
    <3> HIDE DEF Upto
    <3> QED BY <1>2, FS_CardinalityType
  <2>6. Cardinality(P) <= n
    <3> HIDE DEF P, Upto
    <3> QED BY <1>4, <2>3, <2>4, <2>5
  <2> HIDE DEF P
  <2> QED BY <1>3, <1>4, <1>5, <2>6 DEF P
<1> QED BY <1>6, <1>7

(* Extents are listed by their place in the file.                          *)
LEMMA ExtentStarts ==
  ASSUME NEW f \in Seq(Places), NEW d \in Extents(f)
  PROVE  d[1] \in Int
<1>1. DOMAIN f = 1 .. Len(f) /\ Len(f) \in Nat
  BY LenProperties
<1> QED BY <1>1 DEF Extents

-----------------------------------------------------------------------------
(* What is needed of the file again and again.                             *)
LEMMA FileType ==
  ASSUME MapInv
  PROVE  /\ Len(file) \in Nat /\ Len(file) \in 0 .. LIMIT /\ DOMAIN file = 1 .. Len(file)
         /\ \A x \in 1 .. Len(file) : file[x] \in Places
         /\ DOMAIN cache \subseteq 0 .. Len(file) - 1 /\ version \in Nat /\ changes \in Nat
<1>1. Len(file) \in Nat /\ DOMAIN file = 1 .. Len(file)
  BY LenProperties DEF MapInv
<1>2. \A x \in 1 .. Len(file) : file[x] \in Places
  BY ElementOfSeq DEF MapInv
<1> QED BY <1>1, <1>2, BoundAssumption, LimitAssumption DEF MapInv

(* A read of a block of the file returns something that was written, zeros *)
(* or what was there.                                                      *)
LEMMA StoredType ==
  ASSUME MapInv, NEW b \in 0 .. Len(file) - 1
  PROVE  /\ Stored(b) \in Content
         /\ b + 1 \in DOMAIN file /\ b + 1 \in 1 .. Len(file) /\ file[b + 1] \in Places
         /\ file[b + 1] # Hole => file[b + 1] \in Phys /\ Cell(file[b + 1]) \in Phys
<1>1. Len(file) \in Nat /\ DOMAIN file = 1 .. Len(file)
  BY LenProperties DEF MapInv
<1>2. b + 1 \in 1 .. Len(file)
  BY <1>1
<1>3. file[b + 1] \in Places
  BY <1>2, ElementOfSeq DEF MapInv
<1>4. file[b + 1] # Hole => file[b + 1] \in Phys /\ Cell(file[b + 1]) \in Phys
  BY <1>3, CellType DEF Places
<1>5. 0 \in Content
  BY LimitAssumption DEF Content
<1>6. b \in DOMAIN cache => cache[b].v \in Content
  <2>1. b \in DOMAIN cache => cache[b] \in PageType
    BY Zenon DEF MapInv
  <2> QED BY <2>1 DEF PageType
<1>7. file[b + 1] # Hole => disk[Cell(file[b + 1])] \in Content
  BY <1>4 DEF MapInv
<1> QED BY <1>1, <1>2, <1>3, <1>4, <1>5, <1>6, <1>7 DEF Stored

LEMMA InitFile == FileInit => FileInv
<1> SUFFICES ASSUME FileInit PROVE FileInv
  OBVIOUS
<1>1. /\ SIZE \in Nat \ {0} /\ LIMIT \in Nat /\ SIZE <= LIMIT /\ 2 <= LIMIT
      /\ MAXINT \in Nat /\ MaxChanges \in Nat /\ 0 \in Content /\ Junk \in Content
      /\ Hole \in Places /\ Phys \subseteq Places /\ Hole \notin Phys
  BY SizeAssumption, LimitAssumption, IntAssumption, BoundAssumption
     DEF Content, Places, Hole, Phys
<1>2. /\ file \in Seq(Places) /\ Len(file) <= LIMIT
      /\ \A x, y \in DOMAIN file : file[x] = file[y] /\ file[x] # Hole => x = y
  <2>1. CASE file = <<>>
    BY <1>1, <2>1, EmptySeq
  <2>2. CASE file = [k \in 1 .. SIZE |-> k]
    <3>1. file \in [1 .. SIZE -> Places]
      BY <1>1, <2>2 DEF Places, Phys
    <3>2. file \in Seq(Places) /\ Len(file) = SIZE
      BY <1>1, <3>1
    <3> QED BY <1>1, <2>2, <3>2
  <2>3. CASE \E p \in Phys : \E q \in (Phys \cup {Hole}) \ {p} : file = <<q, p>>
    <3>1. PICK p \in Phys, q \in Places : q # p /\ file = <<q, p>>
      BY <2>3 DEF Places
    <3> QED BY <1>1, <3>1
  <2> QED BY <2>1, <2>2, <2>3, Zenon DEF FileInit
<1>3. Len(file) \in Nat /\ DOMAIN cache = {}
  BY <1>2, LenProperties DEF FileInit
<1>4. MapInv
  <2>1. disk \in [Phys -> Content]
    BY <1>1 DEF FileInit
  <2> QED BY <1>1, <1>2, <1>3, <2>1 DEF FileInit, MapInv
<1>5. io.count = 0 /\ io.b = 0 /\ io.pc = "write" /\ ~io.cut /\ device \in Devices
  BY DEF FileInit
<1>6. IoInv
  <2>1. 0 \in 0 .. LIMIT
    BY <1>1
  <2>2. io \in IoType
    BY <2>1 DEF FileInit, IoType
  <2> QED BY <1>5, <2>2 DEF IoInv
<1>7. CutInv
  BY <1>3, <1>5 DEF CutInv
<1>8. PICK p \in {<<"stat", "idle">>, <<"idle", "count">>, <<"idle", "idle">>} :
        /\ fib = [pc |-> p[1], n |-> 0, out |-> <<>>, failed |-> FALSE, seen |-> 0]
        /\ fie = [pc |-> p[2], room |-> 0, size |-> 0, extents |-> {}, mapped |-> 0,
                  seen |-> 0]
  <2>1. CASE device \in Watched
    BY <2>1, Zenon DEF FileInit
  <2>2. CASE device \notin Watched
    BY <2>2, Zenon DEF FileInit
  <2> QED BY <2>1, <2>2
<1>9. version = 0 /\ p[1] \in {"idle", "stat"} /\ p[2] \in {"idle", "count"}
  BY DEF FileInit
<1>10. FibInv
  <2>1. <<>> \in Seq(Int) /\ Len(<<>>) = 0
    BY EmptySeq
  <2>2. fib \in FibType
    BY <1>1, <1>8, <1>9, <2>1 DEF FibType
  <2>3. /\ fib.n = 0 /\ fib.out = <<>> /\ fib.seen = 0
        /\ fib.pc \in {"idle", "stat"}
    BY <1>8, <1>9
  <2> QED BY <1>1, <1>9, <2>1, <2>2, <2>3 DEF FibInv
<1>11. FieInv
  <2>1. IsFiniteSet({}) /\ Cardinality({}) = 0
    BY FS_EmptySet
  <2>2. /\ fie.pc \in {"idle", "count"} /\ fie.room = 0 /\ fie.size = 0
        /\ fie.extents = {} /\ fie.mapped = 0 /\ fie.seen = 0 /\ DOMAIN fie = FieFields
    BY <1>8, <1>9 DEF FieFields
  <2> QED BY <1>1, <1>9, <2>1, <2>2 DEF FieInv
<1>12. GoodInv
  BY <1>3, <1>5 DEF GoodInv
<1>13. FakeInv
  <2>1. \A q \in Phys : disk[q] \in {0, Junk}
    BY DEF FileInit
  <2> QED BY <1>5, <2>1 DEF FakeInv
<1> QED BY <1>4, <1>6, <1>7, <1>10, <1>11, <1>12, <1>13 DEF FileInv, DataInv

(* The file changes only with its version: who has not asked since need    *)
(* not be right.                                                           *)
FileSame == file' = file /\ version' = version
FileMoves == version' = version + 1

(* fibmap and fiemap while another one takes a step.                       *)
LEMMA FibFrame ==
  ASSUME FibInv, version \in Nat, fib' = fib, FileSame \/ FileMoves
  PROVE  FibInv'
<1>1. CASE FileSame
  BY <1>1 DEF FibInv, FileSame
<1>2. CASE FileMoves
  <2>1. fib'.seen < version'
    BY <1>2 DEF FibInv, FibType, FileMoves
  <2> QED BY <1>2, <2>1 DEF FibInv, FibType, FileMoves
<1> QED BY <1>1, <1>2

LEMMA FieFrame ==
  ASSUME FieInv, version \in Nat, fie' = fie, FileSame \/ FileMoves
  PROVE  FieInv'
<1>1. CASE FileSame
  BY <1>1 DEF FieInv, FileSame
<1>2. CASE FileMoves
  <2>1. fie'.seen < version'
    BY <1>2 DEF FieInv, FileMoves
  <2> QED BY <1>2, <2>1 DEF FieInv, FileMoves
<1> QED BY <1>1, <1>2

-----------------------------------------------------------------------------
-----------------------------------------------------------------------------
(* A step of fibmap.                                                       *)
LEMMA FibmapStep == ASSUME MapInv, FibInv, Fibmap PROVE FibInv'
<1>0. /\ Len(file) \in Nat /\ version \in Nat /\ DOMAIN file = 1 .. Len(file)
      /\ \A x \in 1 .. Len(file) : file[x] \in Nat
      /\ Wrap(Len(file)) \in -MAXINT - 1 .. MAXINT
      /\ MAXINT \in Nat
  <2>1. Places \subseteq Nat
    BY SizeAssumption DEF Places, Phys, Hole
  <2> QED BY <2>1, FileType, WrapOf, IntAssumption
<1>f. FileSame
  BY DEF Fibmap, FibStat, FibFails, FibMap, FibEnd, FileSame
<1>1. CASE FibStat
  <2>1. /\ fib.pc = "stat" /\ fib.out = <<>> /\ Len(fib.out) = 0
        /\ fib' = [fib EXCEPT !.pc = "map", !.n = Wrap(Len(file)), !.seen = version]
    BY <1>1, EmptySeq DEF FibStat, FibInv
  <2>2. fib' \in FibType
    BY <1>0, <2>1 DEF FibInv, FibType
  <2>3. /\ fib'.pc = "map" /\ fib'.n = Wrap(Len(file)) /\ fib'.seen = version
        /\ fib'.out = fib.out
    BY <2>1 DEF FibInv, FibType
  <2> QED BY <1>0, <1>f, <2>1, <2>2, <2>3 DEF FibInv, FileSame
<1>2. CASE FibFails
  <2>1. /\ fib.pc = "stat" /\ fib.out = <<>> /\ Len(fib.out) = 0
        /\ fib' = [fib EXCEPT !.pc = "end", !.failed = TRUE]
    BY <1>2, EmptySeq DEF FibFails, FibInv
  <2>2. fib' \in FibType
    BY <2>1 DEF FibInv, FibType
  <2>3. /\ fib'.pc = "end" /\ fib'.seen = fib.seen /\ fib'.out = fib.out
    BY <2>1 DEF FibInv, FibType
  <2>4. fib'.failed
    BY <2>1, Zenon DEF FibInv, FibType
  <2> QED BY <1>f, <2>1, <2>2, <2>3, <2>4 DEF FibInv, FileSame
<1>3. CASE FibMap
  <2> DEFINE b == Len(fib.out)
  <2>1. b \in Nat /\ fib.pc = "map" /\ b < fib.n /\ fib.n \in Int /\ fib.seen \in Nat
    BY <1>0, <1>3, LenProperties DEF FibMap, FibInv, FibType
  <2>2. PICK x \in Int, failed \in BOOLEAN :
          /\ fib' = [fib EXCEPT !.out = Append(fib.out, x), !.failed = failed]
          /\ ~failed => ~fib.failed /\ x = Wrap(Place(b))
    <3>1. Place(b) \in Nat
      BY <1>0, <2>1 DEF Place
    <3>2. Wrap(Place(b)) \in Int
      BY <3>1, WrapOf
    <3>3. fib.failed \in BOOLEAN
      BY Zenon DEF FibInv, FibType
    <3>4. CASE fib' = [fib EXCEPT !.out = Append(@, Wrap(Place(b)))]
      <4>1. fib' = [fib EXCEPT !.out = Append(fib.out, Wrap(Place(b))), !.failed = fib.failed]
        BY <3>4 DEF FibInv, FibType
      <4> QED BY <3>2, <3>3, <4>1, Zenon
    <3>5. CASE \E left \in {b, 0} :
                 fib' = [fib EXCEPT !.out = Append(@, left), !.failed = TRUE]
      <4>1. {b, 0} \subseteq Int
        BY <2>1
      <4> QED BY <3>5, <4>1, Zenon
    <3> QED BY <1>3, <3>4, <3>5, Zenon DEF FibMap
  <2> DEFINE t == Append(fib.out, x)
  <2>3. /\ t \in Seq(Int) /\ Len(t) = b + 1 /\ t[b + 1] = x
        /\ \A k \in 1 .. b : t[k] = fib.out[k]
    BY AppendProperties DEF FibInv, FibType
  <2> HIDE DEF t, b
  <2>4. fib' = [fib EXCEPT !.out = t, !.failed = failed]
    BY <2>2 DEF t
  <2>5. fib' \in FibType
    BY <2>3, <2>4 DEF FibInv, FibType
  <2>6. fib'.pc = "map" /\ fib'.n = fib.n /\ fib'.seen = fib.seen /\ fib'.out = t
    BY <2>1, <2>4 DEF FibInv, FibType
  <2>7. fib'.failed = failed
    BY <2>4, Zenon DEF FibInv, FibType
  <2>8. ASSUME ~failed, fib.seen = version
        PROVE  fib.n = Wrap(Len(file)) /\ \A k \in 1 .. b + 1 : t[k] = Wrap(file[k])
    <3>1. ~fib.failed /\ x = Wrap(Place(b))
      BY <2>2, <2>8, Zenon
    <3>2. fib.n = Wrap(Len(file)) /\ \A k \in 1 .. b : fib.out[k] = Wrap(file[k])
      BY <2>1, <2>8, <3>1 DEF FibInv, b
    <3>3. b < Len(file)
      BY <1>0, <2>1, <3>2, WrapOf
    <3>4. x = Wrap(file[b + 1])
      BY <3>1, <3>3 DEF Place
    <3> QED BY <2>1, <2>3, <3>2, <3>4
  <2>9. fib'.seen <= version
    BY <2>6 DEF FibInv
  <2> QED BY <1>f, <2>1, <2>3, <2>5, <2>6, <2>7, <2>8, <2>9 DEF FibInv, FileSame
<1>4. CASE FibEnd
  <2>1. /\ fib.pc = "map" /\ Len(fib.out) >= fib.n
        /\ fib' = [fib EXCEPT !.pc = "end"]
    BY <1>4 DEF FibEnd
  <2>2. fib' \in FibType
    BY <2>1 DEF FibInv, FibType
  <2>3. /\ fib'.pc = "end" /\ fib'.n = fib.n /\ fib'.seen = fib.seen /\ fib'.out = fib.out
    BY <2>1 DEF FibInv, FibType
  <2>4. fib'.failed = fib.failed
    BY <2>1, Zenon DEF FibInv, FibType
  <2> QED BY <1>f, <2>1, <2>2, <2>3, <2>4 DEF FibInv, FileSame
<1> QED BY <1>1, <1>2, <1>3, <1>4 DEF Fibmap

(* A step of fiemap.                                                       *)
LEMMA FiemapStep == ASSUME MapInv, FieInv, Fiemap PROVE FieInv'
<1> DEFINE es == Extents(file)
<1>0. /\ IsFiniteSet(es) /\ Cardinality(es) \in 0 .. LIMIT /\ version \in Nat
      /\ \A d \in es : d[1] \in Int
      /\ LIMIT \in Nat /\ MAXINT \in Nat /\ EXTENT \in Nat
  <2>1. file \in Seq(Places) /\ Len(file) \in 0 .. LIMIT /\ version \in Nat
    BY FileType DEF MapInv
  <2>2. IsFiniteSet(es) /\ Cardinality(es) \in 0 .. Len(file) /\ \A d \in es : d[1] \in Int
    BY <2>1, ExtentsOf, ExtentStarts
  <2> HIDE DEF es
  <2> QED BY <2>1, <2>2, LimitAssumption, IntAssumption
<1>f. FileSame
  BY DEF Fiemap, FieCount, FieRead, FieFails, FileSame
<1>1. CASE FieCount
  <2> DEFINE n == Cardinality(es)
             wrapped == Wrap(EXTENT * n)
  <2>1. /\ fie.pc = "count" /\ fie.extents = {}
        /\ fie' = [fie EXCEPT !.pc = "read", !.room = n, !.size = wrapped,
                              !.seen = version]
    BY <1>1 DEF FieCount, FieInv
  <2> HIDE DEF es
  <2>2. n \in Nat
    BY <1>0
  <2>3. EXTENT * n \in Nat
    <3> HIDE DEF n
    <3> QED BY <1>0, <2>2
  <2>4. wrapped \in -MAXINT - 1 .. MAXINT
    BY <2>3, WrapOf
  <2> HIDE DEF wrapped, n
  <2>5. /\ fie'.pc = "read" /\ fie'.room = n /\ fie'.size = wrapped /\ fie'.seen = version
        /\ fie'.extents = {} /\ fie'.mapped = fie.mapped /\ DOMAIN fie' = FieFields
    BY <2>1 DEF FieInv, FieFields
  <2>6. IsFiniteSet({}) /\ Cardinality({}) = 0
    BY FS_EmptySet
  <2>7. fie'.size = Wrap(EXTENT * fie'.room)
    BY <2>5 DEF wrapped
  <2>8. n \in 0 .. LIMIT /\ n = Cardinality(Extents(file'))
    BY <1>0, <1>f DEF n, es, FileSame
  <2> QED BY <1>0, <1>f, <2>2, <2>4, <2>5, <2>6, <2>7, <2>8 DEF FieInv, FileSame
<1>2. CASE FieRead
  <2> DEFINE ps == Prefix(fie.room, es)
             m == Cardinality(IF fie.room = 0 THEN es ELSE ps)
  <2>1. fie.room \in Nat /\ fie.room <= LIMIT /\ fie.pc = "read" /\ fie.size >= 0
    BY <1>0, <1>2 DEF FieInv, FieRead
  <2>2. /\ IsFiniteSet(ps) /\ Cardinality(ps) \in 0 .. fie.room
        /\ fie.room = Cardinality(es) => ps = es
    <3> HIDE DEF es
    <3> QED BY <1>0, <2>1, PrefixOf
  <2>3. PICK got \in {ps, {}} :
          /\ fie' = [fie EXCEPT !.pc = "dump", !.extents = got, !.mapped = m]
          /\ EXTENT * Cardinality(ps) <= fie.size => got = ps
    <3>1. PICK got \in {ps} \cup (IF EXTENT * Cardinality(ps) <= fie.size THEN {} ELSE {{}}) :
            fie' = [fie EXCEPT !.pc = "dump", !.extents = got, !.mapped = m]
      <4> HIDE DEF es
      <4> QED BY <1>2, Zenon DEF FieRead, es
    <3>2. got \in {ps, {}} /\ (EXTENT * Cardinality(ps) <= fie.size => got = ps)
      <4> HIDE DEF ps, m
      <4> QED BY <3>1
    <3> QED BY <3>1, <3>2
  <2>4. m \in 0 .. LIMIT /\ (m <= fie.room \/ fie.room = 0)
    <3>1. CASE fie.room = 0
      BY <1>0, <3>1
    <3>2. CASE fie.room # 0
      <4>1. m = Cardinality(ps)
        BY <3>2
      <4> HIDE DEF m, ps
      <4> QED BY <1>0, <2>1, <2>2, <4>1
    <3> QED BY <3>1, <3>2
  <2>5. IsFiniteSet(got) /\ Cardinality(got) \in 0 .. fie.room
    <3>1. IsFiniteSet({}) /\ Cardinality({}) = 0
      BY FS_EmptySet
    <3> HIDE DEF ps, m
    <3> QED BY <2>1, <2>2, <2>3, <3>1
  <2>6. ASSUME EXTENT * fie.room <= MAXINT, fie.seen = version
        PROVE  got = es /\ m = Cardinality(got)
    <3>1. fie.room = Cardinality(es) /\ ps = es /\ fie.size = Wrap(EXTENT * fie.room)
      BY <2>1, <2>2, <2>6 DEF FieInv
    <3>2. fie.size = EXTENT * fie.room
      BY <1>0, <2>1, <2>6, <3>1, ProductGrows, WrapOf
    <3>3. EXTENT * Cardinality(ps) <= fie.size
      <4> HIDE DEF ps, es
      <4> QED BY <1>0, <2>1, <3>1, <3>2, ProductGrows
    <3>4. m = Cardinality(ps)
      BY <3>1
    <3> HIDE DEF ps, m, es
    <3> QED BY <2>3, <3>1, <3>3, <3>4
  <2> HIDE DEF ps, m, es
  <2>7. /\ fie'.pc = "dump" /\ fie'.room = fie.room /\ fie'.seen = fie.seen
        /\ fie'.size = fie.size /\ fie'.extents = got /\ fie'.mapped = m
        /\ DOMAIN fie' = FieFields
    BY <2>3 DEF FieInv, FieFields
  <2>8. Extents(file)' = es
    BY <1>f DEF es, FileSame
  <2>9. fie.size = Wrap(EXTENT * fie.room)
    BY <2>1 DEF FieInv
  <2> QED BY <1>f, <2>1, <2>4, <2>5, <2>6, <2>7, <2>8, <2>9 DEF FieInv, FileSame
<1>3. CASE FieFails
  <2>1. /\ fie'.pc = "end" /\ fie'.room = fie.room /\ fie'.seen = fie.seen
        /\ fie'.size = fie.size /\ fie'.extents = fie.extents /\ fie'.mapped = fie.mapped
        /\ DOMAIN fie' = FieFields
    BY <1>3 DEF FieFails, FieInv, FieFields
  <2> QED BY <1>f, <2>1 DEF FieInv, FileSame
<1> QED BY <1>1, <1>2, <1>3 DEF Fiemap

-----------------------------------------------------------------------------
(* A page is filled: with what a read returned, or by a write.             *)
LEMMA FilledPages ==
  ASSUME MapInv, NEW b \in 0 .. Len(file) - 1, NEW v \in Content,
         NEW dirty \in BOOLEAN
  PROVE  /\ DOMAIN Page(cache, b, v, dirty) \subseteq 0 .. Len(file) - 1
         /\ \A x \in DOMAIN Page(cache, b, v, dirty) : Page(cache, b, v, dirty)[x] \in PageType
<1>1. [v |-> v, dirty |-> dirty] \in PageType
  BY Zenon DEF PageType
<1>2. /\ DOMAIN Page(cache, b, v, dirty) = DOMAIN cache \cup {b}
      /\ Page(cache, b, v, dirty)[b] = [v |-> v, dirty |-> dirty]
      /\ \A x \in DOMAIN cache \ {b} : Page(cache, b, v, dirty)[x] = cache[x]
  BY DEF Page
<1> QED BY <1>1, <1>2 DEF MapInv

(* A page that is written back is clean, and in its cell if the device is  *)
(* good.                                                                   *)
LEMMA WritebackData ==
  ASSUME DataInv, NEW b \in Nat, Writeback(b)
  PROVE  DataInv'
<1>1. /\ MapInv /\ IoInv /\ CutInv /\ GoodInv /\ FakeInv
      /\ b \in DOMAIN cache /\ cache[b].dirty
      /\ cache' = Page(cache, b, cache[b].v, FALSE)
      /\ disk' = IF device = "drops" /\ file[b + 1] > REAL THEN disk
                 ELSE [disk EXCEPT ![Cell(file[b + 1])] = cache[b].v]
      /\ file' = file /\ device' = device /\ io' = io
      /\ version' = version /\ changes' = changes
  BY DEF DataInv, Writeback
<1>2. b \in 0 .. Len(file) - 1 /\ cache[b].v \in Content /\ file[b + 1] # Hole
  <2>1. cache[b] \in PageType /\ b \in 0 .. Len(file) - 1 /\ file[b + 1] # Hole
    BY <1>1 DEF MapInv
  <2> QED BY <2>1 DEF PageType
<1>3. file[b + 1] \in Phys /\ Cell(file[b + 1]) \in Phys
  BY <1>1, <1>2, StoredType
<1>4. /\ DOMAIN cache' = DOMAIN cache
      /\ cache'[b].v = cache[b].v /\ cache'[b].dirty = FALSE
      /\ \A x \in DOMAIN cache \ {b} : cache'[x] = cache[x]
  BY <1>1 DEF Page
<1>5. MapInv'
  <2>2. /\ DOMAIN cache' \subseteq 0 .. Len(file) - 1
        /\ \A x \in DOMAIN cache' : cache'[x] \in PageType
    BY <1>1, <1>2, FilledPages
  <2>3. \A x \in DOMAIN cache' : cache'[x].dirty => file[x + 1] # Hole
    BY <1>1, <1>2, <1>4 DEF MapInv
  <2>1. disk' \in [Phys -> Content]
    BY <1>1, <1>2, <1>3 DEF MapInv
  <2> QED BY <1>1, <2>1, <2>2, <2>3 DEF MapInv
<1>6. IoInv' /\ CutInv'
  BY <1>1 DEF IoInv, CutInv
<1>7. GoodInv'
  <2> SUFFICES ASSUME device = "good" PROVE GoodInv'
    BY <1>1 DEF GoodInv
  <2>1. disk' = [disk EXCEPT ![file[b + 1]] = cache[b].v]
    BY <1>1 DEF Cell
  <2>2. disk \in [Phys -> Content] /\ disk'[file[b + 1]] = cache[b].v
    BY <1>1, <1>3, <2>1 DEF MapInv
  <2>3. \A x \in 0 .. Len(file) - 1 :
          x # b /\ file[x + 1] # Hole => disk'[file[x + 1]] = disk[file[x + 1]]
    <3> SUFFICES ASSUME NEW x \in 0 .. Len(file) - 1, x # b, file[x + 1] # Hole
                 PROVE  disk'[file[x + 1]] = disk[file[x + 1]]
      OBVIOUS
    <3>1. x + 1 \in DOMAIN file /\ b + 1 \in DOMAIN file /\ file[x + 1] \in Phys
      BY <1>1, <1>2, StoredType
    <3>2. file[x + 1] # file[b + 1]
      BY <1>2, <3>1, <1>1 DEF MapInv
    <3> QED BY <2>1, <2>2, <3>1, <3>2
  <2>4. \A x \in DOMAIN cache : ~cache'[x].dirty /\ file[x + 1] # Hole =>
          cache'[x].v = disk'[file[x + 1]]
    <3> TAKE x \in DOMAIN cache
    <3>1. CASE x = b
      BY <1>4, <2>2, <3>1
    <3>2. CASE x # b
      <4>1. cache'[x] = cache[x]
        BY <1>4, <3>2
      <4>2. ~cache[x].dirty /\ file[x + 1] # Hole => cache[x].v = disk[file[x + 1]]
        BY <1>1 DEF GoodInv
      <4>3. file[x + 1] # Hole => disk'[file[x + 1]] = disk[file[x + 1]]
        BY <1>1, <2>3, <3>2 DEF MapInv
      <4> QED BY <4>1, <4>2, <4>3
    <3> QED BY <3>1, <3>2
  <2>5. \A x \in 0 .. Len(file) - 1 : Stored(x)' = Stored(x)
    BY <1>1, <1>4, <2>2, <2>3 DEF Stored, Cell
  <2> QED BY <1>1, <1>4, <2>4, <2>5 DEF GoodInv
<1>8. FakeInv'
  <2>1. device = "drops" => \A p \in Phys : p > REAL => disk'[p] = disk[p]
    BY <1>1, <1>3, SizeAssumption DEF Cell, MapInv, Phys
  <2>2. ~(io.cold /\ changes = 0 /\ io.pc \in {"read", "good"})
    BY <1>1 DEF FakeInv
  <2> QED BY <1>1, <2>1, <2>2 DEF FakeInv
<1> QED BY <1>5, <1>6, <1>7, <1>8 DEF DataInv

(* A clean page can be dropped: the device has it, or it is of a hole.     *)
LEMMA EvictData ==
  ASSUME DataInv, NEW b \in Nat, Evict(b)
  PROVE  DataInv'
<1>1. /\ MapInv /\ IoInv /\ CutInv /\ GoodInv /\ FakeInv
      /\ b \in DOMAIN cache /\ ~cache[b].dirty
      /\ cache' = [x \in DOMAIN cache \ {b} |-> cache[x]]
      /\ file' = file /\ disk' = disk /\ device' = device /\ io' = io
      /\ version' = version /\ changes' = changes
  BY DEF DataInv, Evict
<1>2. /\ DOMAIN cache' = DOMAIN cache \ {b}
      /\ \A x \in DOMAIN cache' : cache'[x] = cache[x]
  BY <1>1
<1>3. MapInv'
  BY <1>1, <1>2 DEF MapInv
<1>4. IoInv' /\ CutInv'
  BY <1>1 DEF IoInv, CutInv
<1>5. GoodInv'
  <2> SUFFICES ASSUME device = "good" PROVE GoodInv'
    BY <1>1 DEF GoodInv
  <2>1. \A x \in 0 .. Len(file) - 1 : file[x + 1] # Hole => Stored(x)' = Stored(x)
    BY <1>1, <1>2 DEF Stored, Cell, GoodInv
  <2> QED BY <1>1, <1>2, <2>1 DEF GoodInv
<1>6. FakeInv'
  BY <1>1, <1>2 DEF FakeInv, Cell
<1> QED BY <1>3, <1>4, <1>5, <1>6 DEF DataInv

(* A block that moves takes its contents along.                            *)
LEMMA MoveData ==
  ASSUME DataInv, NEW b \in Nat, Move(b)
  PROVE  DataInv'
<1>1. /\ MapInv /\ IoInv /\ CutInv /\ GoodInv /\ FakeInv
      /\ changes < MaxChanges /\ b < Len(file) /\ file[b + 1] # Hole
      /\ cache' = Page(cache, b, Stored(b), TRUE)
      /\ disk' = disk /\ device' = device /\ io' = io
      /\ version' = version + 1 /\ changes' = changes + 1
  BY DEF DataInv, Move, Allocated
<1>2. PICK p \in Free : file' = [file EXCEPT ![b + 1] = p]
  BY DEF Move
<1>3. Len(file) \in Nat /\ DOMAIN file = 1 .. Len(file) /\ b \in 0 .. Len(file) - 1
  BY <1>1, FileType
<1>4. /\ p \in Phys /\ p \in Places /\ p # Hole
      /\ \A x \in 1 .. Len(file) : file[x] # p
  BY <1>3 DEF Free, Places, Phys, Hole
<1>5. /\ file' \in Seq(Places) /\ Len(file') = Len(file) /\ DOMAIN file' = 1 .. Len(file)
      /\ file'[b + 1] = p
      /\ \A x \in 1 .. Len(file) : x # b + 1 => file'[x] = file[x]
  <2>1. b + 1 \in 1 .. Len(file) /\ file \in Seq(Places)
    BY <1>1, <1>3 DEF MapInv
  <2>2. /\ file' \in Seq(Places) /\ Len(file') = Len(file)
        /\ \A x \in 1 .. Len(file) : file'[x] = IF x = b + 1 THEN p ELSE file[x]
    BY <1>2, <1>4, <2>1, ExceptSeq
  <2>3. DOMAIN file' = 1 .. Len(file')
    BY <2>2, LenProperties
  <2> QED BY <2>1, <2>2, <2>3
<1>6. Stored(b) \in Content
  BY <1>1, <1>3, StoredType
<1>7. /\ DOMAIN cache' = DOMAIN cache \cup {b}
      /\ cache'[b].v = Stored(b) /\ cache'[b].dirty = TRUE
      /\ \A x \in DOMAIN cache \ {b} : cache'[x] = cache[x]
  BY <1>1 DEF Page
<1>8. \A x \in 0 .. Len(file) - 1 : file'[x + 1] # Hole <=> file[x + 1] # Hole
  <2> TAKE x \in 0 .. Len(file) - 1
  <2>1. x + 1 \in 1 .. Len(file) /\ (x # b => x + 1 # b + 1)
    BY <1>3
  <2> QED BY <1>1, <1>4, <1>5, <2>1
<1>9. MapInv'
  <2>1. \A x, y \in DOMAIN file' : file'[x] = file'[y] /\ file'[x] # Hole => x = y
    BY <1>1, <1>3, <1>4, <1>5 DEF MapInv
  <2>2. version' \in Nat /\ changes' \in 0 .. MaxChanges
    BY <1>1, BoundAssumption DEF MapInv
  <2>3. /\ DOMAIN cache' \subseteq 0 .. Len(file) - 1
        /\ \A x \in DOMAIN cache' : cache'[x] \in PageType
    BY <1>1, <1>3, <1>6, FilledPages
  <2>4. \A x \in DOMAIN cache' : cache'[x].dirty => file'[x + 1] # Hole
    <3> TAKE x \in DOMAIN cache'
    <3>1. CASE x = b
      BY <1>4, <1>5, <3>1
    <3>2. CASE x # b
      BY <1>1, <1>7, <1>8, <2>3, <3>2 DEF MapInv
    <3> QED BY <3>1, <3>2
  <2> QED BY <1>1, <1>5, <2>1, <2>2, <2>3, <2>4 DEF MapInv
<1>10. IoInv' /\ CutInv'
  <2>1. changes' # 0
    BY <1>1 DEF MapInv
  <2>2. IoInv'
    BY <1>1 DEF IoInv
  <2> QED BY <1>1, <1>5, <1>8, <2>1, <2>2 DEF CutInv
<1>11. GoodInv'
  <2> SUFFICES ASSUME device = "good" PROVE GoodInv'
    BY <1>1 DEF GoodInv
  <2>1. \A x \in DOMAIN cache \ {b} : x + 1 \in 1 .. Len(file) /\ x + 1 # b + 1
    BY <1>1, <1>3 DEF MapInv
  <2>2. \A x \in DOMAIN cache' : ~cache'[x].dirty /\ file'[x + 1] # Hole =>
          cache'[x].v = disk'[file'[x + 1]]
    <3> TAKE x \in DOMAIN cache'
    <3>1. CASE x = b
      BY <1>7, <3>1
    <3>2. CASE x # b
      <4>1. x \in DOMAIN cache \ {b}
        BY <1>7, <3>2
      <4>2. ~cache[x].dirty /\ file[x + 1] # Hole => cache[x].v = disk[file[x + 1]]
        BY <1>1, <4>1 DEF GoodInv
      <4>3. cache'[x] = cache[x] /\ file'[x + 1] = file[x + 1] /\ disk' = disk
        BY <1>1, <1>5, <1>7, <2>1, <4>1
      <4> QED BY <4>2, <4>3
    <3> QED BY <3>1, <3>2
  <2>3. \A x \in 0 .. Len(file) - 1 : Stored(x)' = Stored(x)
    <3> TAKE x \in 0 .. Len(file) - 1
    <3>1. CASE x = b
      BY <1>7, <3>1 DEF Stored
    <3>2. CASE x # b
      <4>1. x + 1 \in 1 .. Len(file) /\ x + 1 # b + 1
        BY <1>3, <3>2
      <4> QED BY <1>1, <1>5, <1>7, <3>2, <4>1 DEF Stored, Cell
    <3> QED BY <3>1, <3>2
  <2>4. \A x \in 0 .. Len(file') - 1 :
          x < io'.count /\ file'[x + 1] # Hole => Stored(x)' = x
    BY <1>1, <1>5, <1>8, <2>3 DEF GoodInv
  <2>5. io'.pc = "bad" => io'.cut /\ (io'.b < Len(file') => file'[io'.b + 1] = Hole)
    <3> SUFFICES ASSUME io.pc = "bad"
                 PROVE  io.cut /\ (io.b < Len(file) => file'[io.b + 1] = Hole)
      BY <1>1, <1>5
    <3>1. io.cut /\ (io.b < Len(file) => file[io.b + 1] = Hole)
      BY <1>1 DEF GoodInv
    <3>2. io.b \in Nat
      BY <1>1, LimitAssumption DEF IoInv, IoType
    <3> QED BY <1>3, <1>8, <3>1, <3>2
  <2> QED BY <2>2, <2>4, <2>5 DEF GoodInv
<1>12. FakeInv'
  <2>1. changes' # 0
    BY <1>1 DEF MapInv
  <2> QED BY <1>1, <2>1 DEF FakeInv
<1> QED BY <1>9, <1>10, <1>11, <1>12 DEF DataInv

(* What is left of a truncated file is as it was; what iotest does not     *)
(* find any more it was cut off from.                                      *)
LEMMA TruncateData ==
  ASSUME DataInv, Truncate
  PROVE  DataInv'
<1>1. /\ MapInv /\ IoInv /\ CutInv /\ GoodInv /\ FakeInv
      /\ changes < MaxChanges /\ file # <<>>
      /\ disk' = disk /\ device' = device
      /\ version' = version + 1 /\ changes' = changes + 1
  BY DEF DataInv, Truncate
<1>2. PICK n \in 0 .. Len(file) - 1 :
        /\ file' = SubSeq(file, 1, n)
        /\ cache' = [b \in DOMAIN cache \cap (0 .. n - 1) |-> cache[b]]
        /\ io' = [io EXCEPT !.cut = io.cut \/ (io.pc = "write" /\ n < io.b)]
  BY DEF Truncate
<1>3. /\ Len(file) \in Nat /\ DOMAIN file = 1 .. Len(file) /\ n \in Nat /\ n < Len(file)
      /\ Len(file) <= LIMIT /\ LIMIT \in Nat
      /\ \A x \in 1 .. Len(file) : file[x] \in Places
  BY <1>1, FileType, LimitAssumption
<1>4. /\ file' \in Seq(Places) /\ Len(file') = n /\ DOMAIN file' = 1 .. n
      /\ \A x \in 1 .. n : file'[x] = file[x]
  <2>1. \A x \in 1 .. n : file[x] \in Places
    BY <1>3
  <2>2. /\ file' \in Seq(Places) /\ Len(file') = (IF 1 <= n THEN n - 1 + 1 ELSE 0)
        /\ \A x \in 1 .. n - 1 + 1 : file'[x] = file[1 + x - 1]
    <3>1. file' = SubSeq(file, 1, n) /\ 1 \in Int /\ n \in Int
      BY <1>2, <1>3
    <3> QED BY <2>1, <3>1, SubSeqProperties
  <2>3. DOMAIN file' = 1 .. Len(file')
    BY <2>2, LenProperties
  <2> QED BY <1>3, <2>2, <2>3
<1>5. /\ DOMAIN cache' = DOMAIN cache \cap (0 .. n - 1)
      /\ \A x \in DOMAIN cache' : cache'[x] = cache[x]
  BY <1>2
<1>6. \A x \in 0 .. n - 1 : /\ x + 1 \in 1 .. n /\ x \in 0 .. Len(file) - 1
                            /\ file'[x + 1] = file[x + 1]
  BY <1>3, <1>4
<1>7. MapInv'
  <2>1. \A x, y \in DOMAIN file' : file'[x] = file'[y] /\ file'[x] # Hole => x = y
    BY <1>1, <1>3, <1>4 DEF MapInv
  <2>2. \A x \in DOMAIN cache' : cache'[x] \in PageType /\ (cache'[x].dirty => file'[x + 1] # Hole)
    BY <1>1, <1>5, <1>6 DEF MapInv
  <2>3. version' \in Nat /\ changes' \in 0 .. MaxChanges
    BY <1>1, BoundAssumption DEF MapInv
  <2>4. Len(file') <= LIMIT
    BY <1>3, <1>4
  <2> QED BY <1>1, <1>4, <1>5, <2>1, <2>2, <2>3, <2>4 DEF MapInv
<1>8. PICK cut \in BOOLEAN :
        /\ io' = [io EXCEPT !.cut = cut]
        /\ cut <=> io.cut \/ (io.pc = "write" /\ n < io.b)
  BY <1>2, Zenon
<1>9. io \in IoType /\ io.b \in Nat /\ io.count \in Nat
  BY <1>1, LimitAssumption DEF IoInv, IoType
<1>10. io'.pc = io.pc /\ io'.b = io.b /\ io'.count = io.count /\ io'.cold = io.cold
  BY <1>8, <1>9 DEF IoType
<1>11. io'.cut = cut
  BY <1>8, <1>9, Zenon DEF IoType
<1>12. IoInv'
  <2>1. io' \in IoType
    BY <1>8, <1>9 DEF IoType
  <2> QED BY <1>1, <1>10, <2>1 DEF IoInv
<1>13. changes' # 0
  BY <1>1 DEF MapInv
<1>14. CutInv'
  <2> SUFFICES ASSUME ~cut
               PROVE  /\ io.pc = "write" => io.count <= n
                      /\ \A x \in 0 .. n - 1 : x < io.count => file'[x + 1] # Hole
    BY <1>4, <1>10, <1>11, <1>13 DEF CutInv
  <2>1. ~io.cut /\ (io.pc = "write" => ~(n < io.b))
    BY <1>8, Zenon
  <2>2. io.pc = "write" => io.count <= n
    BY <1>1, <1>3, <1>9, <2>1 DEF IoInv
  <2>3. \A x \in 0 .. n - 1 : x < io.count => file'[x + 1] # Hole
    BY <1>1, <1>6, <2>1 DEF CutInv
  <2> QED BY <2>2, <2>3
<1>15. GoodInv'
  <2> SUFFICES ASSUME device = "good" PROVE GoodInv'
    BY <1>1 DEF GoodInv
  <2>1. \A x \in DOMAIN cache' : ~cache'[x].dirty /\ file'[x + 1] # Hole =>
          cache'[x].v = disk'[file'[x + 1]]
    BY <1>1, <1>5, <1>6 DEF GoodInv
  <2>2. \A x \in 0 .. n - 1 : Stored(x)' = Stored(x)
    BY <1>1, <1>4, <1>5, <1>6 DEF Stored, Cell
  <2>3. \A x \in 0 .. n - 1 : x < io.count /\ file'[x + 1] # Hole => Stored(x)' = x
    BY <1>1, <1>6, <2>2 DEF GoodInv
  <2>4. io.pc = "bad" => io.cut /\ (io.b < n => file'[io.b + 1] = Hole)
    <3> SUFFICES ASSUME io.pc = "bad"
                 PROVE  io.cut /\ (io.b < n => file'[io.b + 1] = Hole)
      OBVIOUS
    <3>1. io.cut /\ (io.b < Len(file) => file[io.b + 1] = Hole)
      BY <1>1 DEF GoodInv
    <3> QED BY <1>3, <1>6, <1>9, <3>1
  <2>5. io'.pc = "bad" => io'.cut
    BY <1>8, <1>10, <1>11, <2>4, Zenon
  <2> QED BY <1>4, <1>10, <2>1, <2>3, <2>4, <2>5 DEF GoodInv
<1>16. FakeInv'
  BY <1>1, <1>13 DEF FakeInv
<1> QED BY <1>7, <1>12, <1>14, <1>15, <1>16 DEF DataInv

(* A write rewrites a block or gets a new one, with a page that holds its  *)
(* number; the blocks it skips are holes.                                  *)
LEMMA IoWriteData ==
  ASSUME DataInv, IoWrite
  PROVE  DataInv'
<1> DEFINE b == io.b
<1>1. /\ MapInv /\ IoInv /\ CutInv /\ GoodInv /\ FakeInv
      /\ io.pc = "write" /\ b < LIMIT
      /\ cache' = Page(cache, b, b, TRUE)
      /\ io' = [io EXCEPT !.b = b + 1, !.count = io.count + 1]
      /\ disk' = disk /\ device' = device /\ changes' = changes
  BY DEF DataInv, IoWrite, Pattern
<1>2. /\ Len(file) \in Nat /\ Len(file) \in 0 .. LIMIT /\ DOMAIN file = 1 .. Len(file)
      /\ \A x \in 1 .. Len(file) : file[x] \in Places
      /\ DOMAIN cache \subseteq 0 .. Len(file) - 1 /\ version \in Nat
  BY <1>1, FileType
<1>3. b \in Nat /\ b = io.count /\ LIMIT \in Nat /\ io \in IoType /\ b \in Content
  <2>1. io \in IoType /\ b = io.count /\ LIMIT \in Nat
    BY <1>1, LimitAssumption DEF IoInv
  <2>2. b \in Nat
    BY <2>1 DEF IoType
  <2> QED BY <1>1, <2>1, <2>2 DEF Content
<1>4. /\ file' \in Seq(Places) /\ Len(file') \in 0 .. LIMIT /\ DOMAIN file' = 1 .. Len(file')
      /\ \A x, y \in DOMAIN file' : file'[x] = file'[y] /\ file'[x] # Hole => x = y
      /\ b < Len(file') /\ Len(file) <= Len(file') /\ file'[b + 1] # Hole
      /\ \A x \in 1 .. Len(file) : x # b + 1 \/ file[x] # Hole => file'[x] = file[x]
      /\ \A x \in 1 .. Len(file') : x > Len(file) /\ x # b + 1 => file'[x] = Hole
      /\ b <= Len(file) => Len(file') = Len(file) \/ Len(file') = b + 1
      /\ version' \in Nat
  <2>1. CASE Allocated(b) /\ UNCHANGED <<file, version>>
    BY <1>1, <1>2, <2>1 DEF MapInv, Allocated
  <2>2. CASE /\ ~Allocated(b)
             /\ \E p \in Free : file' = Placed(file, b, p)
             /\ version' = version + 1
    <3>1. PICK p \in Free : file' = Placed(file, b, p)
      BY <2>2
    <3>2. p \in Places /\ p # Hole /\ (\A x \in 1 .. Len(file) : file[x] # p)
      BY <1>2 DEF Free, Places, Phys, Hole
    <3>3. /\ file' \in Seq(Places)
          /\ Len(file') = IF b < Len(file) THEN Len(file) ELSE b + 1
          /\ file'[b + 1] = p
          /\ \A x \in 1 .. Len(file) : x # b + 1 => file'[x] = file[x]
          /\ \A x \in 1 .. Len(file') : x > Len(file) /\ x # b + 1 => file'[x] = Hole
      <4>1. file \in Seq(Places)
        BY <1>1 DEF MapInv
      <4>2. b \in Nat /\ p \in Places
        BY <1>3, <3>2
      <4> DEFINE g == file'
      <4>3. g = Placed(file, b, p)
        BY <3>1
      <4> HIDE DEF b, g
      <4>4. /\ g \in Seq(Places)
            /\ Len(g) = IF b < Len(file) THEN Len(file) ELSE b + 1
            /\ g[b + 1] = p
            /\ \A x \in 1 .. Len(file) : x # b + 1 => g[x] = file[x]
            /\ \A x \in 1 .. Len(g) : x > Len(file) /\ x # b + 1 => g[x] = Hole
        BY <4>1, <4>2, <4>3, PlacedOf
      <4> QED BY <4>4 DEF g
    <3>4. DOMAIN file' = 1 .. Len(file')
      BY <3>3, LenProperties
    <3>5. ASSUME NEW x \in DOMAIN file', NEW y \in DOMAIN file',
                 file'[x] = file'[y], file'[x] # Hole
          PROVE  x = y
      <4>1. x \in 1 .. Len(file) \/ x = b + 1
        BY <1>2, <1>3, <3>3, <3>4, <3>5
      <4>2. y \in 1 .. Len(file) \/ y = b + 1
        BY <1>2, <1>3, <3>3, <3>4, <3>5
      <4>3. CASE x = b + 1
        BY <3>2, <3>3, <3>5, <4>2, <4>3
      <4>4. CASE y = b + 1
        BY <3>2, <3>3, <3>5, <4>1, <4>4
      <4>5. CASE x # b + 1 /\ y # b + 1
        BY <1>1, <1>2, <3>3, <3>5, <4>1, <4>2, <4>5 DEF MapInv
      <4> QED BY <4>3, <4>4, <4>5
    <3>6. Len(file') \in 0 .. LIMIT /\ b < Len(file') /\ Len(file) <= Len(file')
      BY <1>1, <1>2, <1>3, <3>3
    <3>7. version' \in Nat
      BY <1>2, <2>2
    <3>8. ~(b + 1 \in 1 .. Len(file) /\ file[b + 1] # Hole)
      BY <1>2, <1>3, <2>2 DEF Allocated
    <3>9. b <= Len(file) => Len(file') = Len(file) \/ Len(file') = b + 1
      BY <3>3
    <3> QED BY <3>2, <3>3, <3>4, <3>5, <3>6, <3>7, <3>8, <3>9
  <2> QED BY <2>1, <2>2 DEF IoWrite
<1>5. /\ DOMAIN cache' = DOMAIN cache \cup {b}
      /\ cache'[b].v = b /\ cache'[b].dirty = TRUE
      /\ cache'[b] = [v |-> b, dirty |-> TRUE]
      /\ \A x \in DOMAIN cache \ {b} : cache'[x] = cache[x]
  BY <1>1 DEF Page
<1>6. \A x \in DOMAIN cache \ {b} :
        x + 1 \in 1 .. Len(file) /\ file'[x + 1] = file[x + 1]
  <2> TAKE x \in DOMAIN cache \ {b}
  <2>1. x \in 0 .. Len(file) - 1 /\ x # b
    BY <1>2
  <2>2. x + 1 \in 1 .. Len(file) /\ x + 1 # b + 1
    BY <1>2, <1>3, <2>1
  <2> QED BY <1>4, <2>2
<1>7. MapInv'
  <2>1. DOMAIN cache' \subseteq 0 .. Len(file') - 1
    <3>1. DOMAIN cache' = DOMAIN cache \cup {b} /\ Len(file') \in Nat
      BY <1>4, <1>5
    <3>2. b < Len(file') /\ Len(file) <= Len(file')
      BY <1>4
    <3> HIDE DEF b
    <3> QED BY <1>2, <1>3, <3>1, <3>2
  <2>2. cache'[b] \in PageType
    BY <1>3, <1>5, Zenon DEF PageType
  <2>3. \A x \in DOMAIN cache' : cache'[x] \in PageType
    BY <1>1, <1>5, <2>2 DEF MapInv
  <2>4. \A x \in DOMAIN cache' : cache'[x].dirty => file'[x + 1] # Hole
    <3> TAKE x \in DOMAIN cache'
    <3>1. CASE x = b
      BY <1>4, <3>1
    <3>2. CASE x # b
      BY <1>1, <1>5, <1>6, <3>2 DEF MapInv
    <3> QED BY <3>1, <3>2
  <2>5. Len(file') <= LIMIT
    BY <1>3, <1>4
  <2> QED BY <1>1, <1>4, <2>1, <2>3, <2>4, <2>5 DEF MapInv
<1>8. io'.pc = "write" /\ io'.b = b + 1 /\ io'.count = b + 1
  BY <1>1, <1>3 DEF IoType
<1>9. io'.cut = io.cut
  BY <1>1, <1>3, Zenon DEF IoType
<1>10. IoInv'
  <2>1. b + 1 \in 0 .. LIMIT
    BY <1>1, <1>3
  <2>2. io' \in IoType
    BY <1>1, <1>3, <2>1 DEF IoType
  <2> QED BY <1>3, <1>8, <2>2 DEF IoInv
<1>11. CutInv'
  <2>1. changes' = 0 => ~io'.cut
    BY <1>1, <1>9 DEF CutInv
  <2> SUFFICES ASSUME ~io.cut
               PROVE  \A x \in 0 .. Len(file') - 1 : x < b + 1 => file'[x + 1] # Hole
    <3>1. b + 1 <= Len(file')
      BY <1>3, <1>4
    <3>2. io'.count = b + 1 /\ (~io'.cut => ~io.cut)
      BY <1>8, <1>9, Zenon
    <3> HIDE DEF b
    <3> QED BY <2>1, <3>1, <3>2 DEF CutInv
  <2>2. /\ b <= Len(file)
        /\ \A x \in 0 .. Len(file) - 1 : x < b => file[x + 1] # Hole
    BY <1>1, <1>3 DEF CutInv
  <2> TAKE x \in 0 .. Len(file') - 1
  <2>3. CASE x = b
    BY <1>4, <2>3
  <2>4. CASE x < b
    <3>1. x \in 0 .. Len(file) - 1 /\ x + 1 \in 1 .. Len(file) /\ x + 1 # b + 1
      BY <1>2, <1>3, <2>2, <2>4
    <3> QED BY <1>4, <2>2, <2>4, <3>1
  <2> QED BY <1>3, <1>4, <2>3, <2>4
<1>12. GoodInv'
  <2> SUFFICES ASSUME device = "good" PROVE GoodInv'
    BY <1>1 DEF GoodInv
  <2>1. ASSUME NEW x \in DOMAIN cache', ~cache'[x].dirty, file'[x + 1] # Hole
        PROVE  cache'[x].v = disk'[file'[x + 1]]
    <3>1. x # b
      BY <1>5, <2>1
    <3>2. x \in DOMAIN cache \ {b} /\ cache'[x] = cache[x]
      BY <1>5, <2>1, <3>1
    <3>3. file'[x + 1] = file[x + 1]
      BY <1>6, <3>2
    <3>4. cache[x].v = disk[file[x + 1]]
      BY <1>1, <2>1, <3>2, <3>3 DEF GoodInv
    <3> QED BY <1>1, <3>2, <3>3, <3>4
  <2>2. ASSUME NEW x \in 0 .. Len(file') - 1, x < b + 1, file'[x + 1] # Hole
        PROVE  Stored(x)' = x
    <3>1. CASE x = b
      BY <1>5, <3>1 DEF Stored
    <3>2. CASE x # b
      <4>1. x < b /\ x \in Nat /\ x + 1 # b + 1 /\ x + 1 \in 1 .. Len(file')
        BY <1>3, <1>4, <2>2, <3>2
      <4>2. ~(x + 1 > Len(file))
        BY <1>4, <2>2, <4>1
      <4>3. x \in 0 .. Len(file) - 1 /\ x + 1 \in 1 .. Len(file)
        BY <1>2, <4>1, <4>2
      <4>4. file'[x + 1] = file[x + 1]
        BY <1>4, <4>1, <4>3
      <4>5. Stored(x) = x
        BY <1>1, <1>3, <2>2, <4>1, <4>3, <4>4 DEF GoodInv
      <4>6. Stored(x)' = Stored(x)
        BY <1>1, <1>5, <3>2, <4>4 DEF Stored, Cell
      <4> QED BY <4>5, <4>6
    <3> QED BY <3>1, <3>2
  <2> QED BY <1>8, <2>1, <2>2 DEF GoodInv
<1>13. FakeInv'
  BY <1>1, <1>8 DEF FakeInv
<1> QED BY <1>7, <1>10, <1>11, <1>12, <1>13 DEF DataInv

(* The read test starts: unless the file was cut, of what was written all  *)
(* is in it.                                                               *)
LEMMA IoWriteFailsData ==
  ASSUME DataInv, IoWriteFails
  PROVE  DataInv'
<1> DEFINE clean == \A b \in DOMAIN cache : ~cache[b].dirty
<1>1. /\ MapInv /\ IoInv /\ CutInv /\ GoodInv /\ FakeInv
      /\ io.pc = "write"
      /\ io' = [io EXCEPT !.pc = "read", !.b = 0, !.cold = clean]
      /\ file' = file /\ cache' = cache /\ disk' = disk /\ device' = device
      /\ version' = version /\ changes' = changes
  BY DEF DataInv, IoWriteFails, data
<1>2. io \in IoType /\ clean \in BOOLEAN
  BY <1>1 DEF IoInv
<1>3. io'.pc = "read" /\ io'.b = 0 /\ io'.count = io.count /\ (io'.cold => clean)
  <2> HIDE DEF clean
  <2> QED BY <1>1, <1>2 DEF IoType
<1>4. io'.cut = io.cut
  <2> HIDE DEF clean
  <2> QED BY <1>1, <1>2, Zenon DEF IoType
<1>5. io' \in IoType
  <2>1. 0 \in 0 .. LIMIT
    BY LimitAssumption
  <2> HIDE DEF clean
  <2> QED BY <1>1, <1>2, <2>1 DEF IoType
<1>6. MapInv'
  BY <1>1 DEF MapInv
<1>7. IoInv'
  <2>1. io.count \in Nat
    BY <1>2, LimitAssumption DEF IoType
  <2> QED BY <1>3, <1>5, <2>1 DEF IoInv
<1>8. CutInv'
  BY <1>1, <1>3, <1>4 DEF CutInv
<1>9. GoodInv'
  BY <1>1, <1>3 DEF GoodInv, Stored, Cell
<1>10. FakeInv'
  BY <1>1, <1>3 DEF FakeInv, CutInv
<1> QED BY <1>6, <1>7, <1>8, <1>9, <1>10 DEF DataInv

(* A read fills a clean page; on a good device it returns the number of    *)
(* the block, and zeros only of a hole.                                    *)
LEMMA IoReadData ==
  ASSUME DataInv, IoRead
  PROVE  DataInv'
<1> DEFINE b == io.b
           cold == io.cold /\ b \notin DOMAIN cache
<1>1. /\ MapInv /\ IoInv /\ CutInv /\ GoodInv /\ FakeInv
      /\ io.pc = "read" /\ b < io.count /\ b < Len(file)
      /\ cache' = IF b \in DOMAIN cache THEN cache ELSE Page(cache, b, Stored(b), FALSE)
      /\ io' = IF Stored(b) = b THEN [io EXCEPT !.b = b + 1, !.cold = cold]
               ELSE [io EXCEPT !.pc = "bad"]
      /\ file' = file /\ disk' = disk /\ device' = device
      /\ version' = version /\ changes' = changes
  BY DEF DataInv, IoRead, Pattern
<1>2. /\ Len(file) \in Nat /\ DOMAIN file = 1 .. Len(file)
      /\ DOMAIN cache \subseteq 0 .. Len(file) - 1
  BY <1>1, FileType
<1>3. /\ io \in IoType /\ b \in Nat /\ io.count \in Nat /\ io.count <= LIMIT /\ LIMIT \in Nat
      /\ cold \in BOOLEAN
  BY <1>1, LimitAssumption DEF IoInv, IoType
<1>4. /\ b \in 0 .. Len(file) - 1 /\ Stored(b) \in Content
      /\ file[b + 1] # Hole => file[b + 1] \in Phys
  BY <1>1, <1>2, <1>3, StoredType
<1>5. /\ DOMAIN cache' = DOMAIN cache \cup {b}
      /\ \A x \in DOMAIN cache : cache'[x] = cache[x]
      /\ b \notin DOMAIN cache => cache'[b].v = Stored(b) /\ cache'[b].dirty = FALSE
  BY <1>1 DEF Page
<1>6. MapInv'
  <2>1. /\ DOMAIN cache' \subseteq 0 .. Len(file) - 1
        /\ \A x \in DOMAIN cache' : cache'[x] \in PageType
    BY <1>1, <1>4, FilledPages DEF MapInv
  <2>2. \A x \in DOMAIN cache' : cache'[x].dirty => file[x + 1] # Hole
    BY <1>1, <1>5 DEF MapInv
  <2> QED BY <1>1, <2>1, <2>2 DEF MapInv
<1>7. \A x \in 0 .. Len(file) - 1 : Stored(x)' = Stored(x)
  <2> TAKE x \in 0 .. Len(file) - 1
  <2>1. Cell(file[x + 1])' = Cell(file[x + 1])
    BY <1>1 DEF Cell
  <2>2. CASE x \in DOMAIN cache
    BY <1>5, <2>2 DEF Stored
  <2>3. CASE x \notin DOMAIN cache /\ x = b
    BY <1>5, <2>3 DEF Stored
  <2>4. CASE x \notin DOMAIN cache /\ x # b
    BY <1>1, <1>5, <2>1, <2>4 DEF Stored
  <2> QED BY <2>2, <2>3, <2>4
<1>8. /\ io'.count = io.count
      /\ Stored(b) = b => io'.pc = "read" /\ io'.b = b + 1 /\ (io'.cold => cold)
      /\ Stored(b) # b => io'.pc = "bad" /\ io'.b = b
  <2> HIDE DEF cold, b
  <2> QED BY <1>1, <1>3 DEF IoType, b
<1>9. io'.cut = io.cut
  <2>1. CASE Stored(b) = b
    <3>1. io' = [io EXCEPT !.b = b + 1, !.cold = cold]
      BY <1>1, <2>1
    <3> HIDE DEF cold, b
    <3> QED BY <1>3, <3>1, Zenon DEF IoType
  <2>2. CASE Stored(b) # b
    <3>1. io' = [io EXCEPT !.pc = "bad"]
      BY <1>1, <2>2
    <3> QED BY <1>3, <3>1, Zenon DEF IoType
  <2> QED BY <2>1, <2>2
<1>10. IoInv'
  <2>1. b + 1 \in 0 .. LIMIT
    BY <1>1, <1>3
  <2>2. io' \in IoType
    <3> HIDE DEF cold, b
    <3> QED BY <1>1, <1>3, <2>1 DEF IoType
  <2> QED BY <1>1, <1>3, <1>8, <2>2 DEF IoInv
<1>11. CutInv'
  BY <1>1, <1>8, <1>9 DEF CutInv
<1>12. GoodInv'
  <2> SUFFICES ASSUME device = "good" PROVE GoodInv'
    BY <1>1 DEF GoodInv
  <2>1. ASSUME NEW x \in DOMAIN cache', ~cache'[x].dirty, file[x + 1] # Hole
        PROVE  cache'[x].v = disk'[file'[x + 1]]
    <3>1. CASE x \in DOMAIN cache
      BY <1>1, <1>5, <2>1, <3>1 DEF GoodInv
    <3>2. CASE x \notin DOMAIN cache
      <4>1. x = b /\ cache'[x].v = Stored(x)
        BY <1>5, <3>2
      <4> QED BY <1>1, <2>1, <3>2, <4>1 DEF Stored, Cell
    <3> QED BY <3>1, <3>2
  <2>2. Stored(b) # b => file[b + 1] = Hole
    BY <1>1, <1>4 DEF GoodInv
  <2>3. file[b + 1] = Hole => io.cut
    BY <1>1, <1>4 DEF CutInv
  <2>4. io'.pc = "bad" => io'.cut /\ file'[io'.b + 1] = Hole
    <3>1. io'.pc = "bad" => Stored(b) # b
      BY <1>8
    <3>2. io'.pc = "bad" => file'[io'.b + 1] = Hole
      BY <1>1, <1>8, <2>2, <3>1
    <3>3. io'.pc = "bad" => io'.cut
      BY <1>9, <2>2, <2>3, <3>1, Zenon
    <3> QED BY <3>2, <3>3
  <2>5. \A x \in 0 .. Len(file') - 1 :
          x < io'.count /\ file'[x + 1] # Hole => Stored(x)' = x
    BY <1>1, <1>7, <1>8 DEF GoodInv
  <2> QED BY <1>1, <2>1, <2>4, <2>5 DEF GoodInv
<1>13. FakeInv'
  <2> SUFFICES ASSUME io'.cold, changes' = 0, io'.pc \in {"read", "good"}
               PROVE  /\ io'.count <= Len(file')
                      /\ \A x \in DOMAIN cache' : ~cache'[x].dirty
                      /\ \A x \in 0 .. io'.b - 1 :
                           file'[x + 1] \in Phys /\ (disk[Cell(file[x + 1])])' = x
    BY <1>1 DEF FakeInv
  <2>1. Stored(b) = b /\ io'.b = b + 1 /\ cold
    BY <1>8
  <2>2. io.cold /\ b \notin DOMAIN cache /\ ~io.cut
    BY <1>1, <2>1 DEF CutInv
  <2>3. /\ io.count <= Len(file)
        /\ \A x \in DOMAIN cache : ~cache[x].dirty
        /\ \A x \in 0 .. b - 1 : file[x + 1] \in Phys /\ disk[Cell(file[x + 1])] = x
    BY <1>1, <2>2 DEF FakeInv
  <2>4. file[b + 1] \in Phys /\ disk[Cell(file[b + 1])] = b
    <3>1. file[b + 1] # Hole
      BY <1>1, <1>4, <2>2 DEF CutInv
    <3> QED BY <1>4, <2>1, <2>2, <3>1 DEF Stored
  <2>5. \A x \in 0 .. io'.b - 1 : file'[x + 1] \in Phys /\ (disk[Cell(file[x + 1])])' = x
    <3> TAKE x \in 0 .. io'.b - 1
    <3>1. x \in 0 .. b - 1 \/ x = b
      BY <1>3, <2>1
    <3>2. (disk[Cell(file[x + 1])])' = disk[Cell(file[x + 1])] /\ file' = file
      BY <1>1 DEF Cell
    <3> QED BY <2>3, <2>4, <3>1, <3>2
  <2>6. \A x \in DOMAIN cache' : ~cache'[x].dirty
    BY <1>5, <2>2, <2>3
  <2> QED BY <1>1, <1>8, <2>3, <2>5, <2>6
<1> QED BY <1>6, <1>10, <1>11, <1>12, <1>13 DEF DataInv

(* The end of the read test.                                               *)
LEMMA IoEndData ==
  ASSUME DataInv, IoReadFails \/ IoEnd
  PROVE  DataInv'
<1>1. /\ MapInv /\ IoInv /\ CutInv /\ GoodInv /\ FakeInv
      /\ io.pc = "read"
      /\ file' = file /\ cache' = cache /\ disk' = disk /\ device' = device
      /\ version' = version /\ changes' = changes
  BY DEF DataInv, IoReadFails, IoEnd, data
<1>2. PICK q \in {"failed", "good"} :
        /\ io' = [io EXCEPT !.pc = q]
        /\ q = "good" => io.b = io.count
  BY DEF IoReadFails, IoEnd
<1>3. io \in IoType /\ io' \in IoType
  BY <1>1, <1>2 DEF IoInv, IoType
<1>4. /\ io'.pc = q /\ io'.b = io.b /\ io'.count = io.count
      /\ io'.cold => io.cold
  BY <1>2, <1>3 DEF IoType
<1>5. io'.cut = io.cut
  BY <1>2, <1>3, Zenon DEF IoType
<1>6. MapInv' /\ IoInv' /\ CutInv'
  BY <1>1, <1>2, <1>3, <1>4, <1>5 DEF MapInv, IoInv, CutInv
<1>7. GoodInv'
  BY <1>1, <1>4 DEF GoodInv, Stored, Cell
<1>8. FakeInv'
  BY <1>1, <1>4 DEF FakeInv, Cell
<1> QED BY <1>6, <1>7, <1>8 DEF DataInv

-----------------------------------------------------------------------------
(* Steps of fibmap and fiemap leave the data alone.                        *)
LEMMA DataFrame ==
  ASSUME DataInv, UNCHANGED <<file, cache, disk, device, io, version, changes>>
  PROVE  DataInv'
BY DEF DataInv, MapInv, IoInv, CutInv, GoodInv, FakeInv, Stored, Cell

LEMMA StepFile == FileInv /\ [FileNext]_fileVars => FileInv'
<1> SUFFICES ASSUME FileInv, [FileNext]_fileVars PROVE FileInv'
  OBVIOUS
<1>1. DataInv /\ MapInv /\ FibInv /\ FieInv /\ version \in Nat
  BY DEF FileInv, DataInv, MapInv
<1>2. DataInv' /\ FibInv' /\ FieInv' => FileInv'
  BY DEF FileInv
<1>3. CASE IoTest
  <2>1. /\ fib' = fib /\ fie' = fie
        /\ FileSame \/ FileMoves
    BY <1>3 DEF IoTest, IoWrite, IoWriteFails, IoRead, IoReadFails, IoEnd, FileSame, FileMoves
  <2>2. DataInv'
    BY <1>1, <1>3, IoWriteData, IoWriteFailsData, IoReadData, IoEndData DEF IoTest
  <2> QED BY <1>1, <1>2, <2>1, <2>2, FibFrame, FieFrame
<1>4. CASE Others
  <2>1. /\ fib' = fib /\ fie' = fie
        /\ FileSame \/ FileMoves
    BY <1>4 DEF Others, Truncate, Writeback, Evict, Move, FileSame, FileMoves
  <2>2. 0 .. LIMIT - 1 \subseteq Nat
    BY LimitAssumption
  <2>3. DataInv'
    BY <1>1, <1>4, <2>2, TruncateData, WritebackData, EvictData, MoveData DEF Others
  <2> QED BY <1>1, <1>2, <2>1, <2>3, FibFrame, FieFrame
<1>5. CASE Fibmap
  <2>1. /\ UNCHANGED <<file, cache, disk, device, io, version, changes>>
        /\ fie' = fie /\ FileSame
    BY <1>5 DEF Fibmap, FibStat, FibFails, FibMap, FibEnd, FileSame, data
  <2>2. DataInv' /\ FieInv'
    BY <1>1, <2>1, DataFrame, FieFrame
  <2> QED BY <1>1, <1>2, <1>5, <2>2, FibmapStep
<1>6. CASE Fiemap
  <2>1. /\ UNCHANGED <<file, cache, disk, device, io, version, changes>>
        /\ fib' = fib /\ FileSame
    BY <1>6 DEF Fiemap, FieCount, FieRead, FieFails, FileSame, data
  <2>2. DataInv' /\ FibInv'
    BY <1>1, <2>1, DataFrame, FibFrame
  <2> QED BY <1>1, <1>2, <1>6, <2>2, FiemapStep
<1>7. CASE Finished \/ UNCHANGED fileVars
  <2>1. /\ UNCHANGED <<file, cache, disk, device, io, version, changes>>
        /\ fib' = fib /\ fie' = fie /\ FileSame
    BY <1>7 DEF Finished, fileVars, FileSame
  <2>2. DataInv' /\ FibInv' /\ FieInv'
    BY <1>1, <2>1, DataFrame, FibFrame, FieFrame
  <2> QED BY <1>2, <2>2
<1> QED BY <1>3, <1>4, <1>5, <1>6, <1>7 DEF FileNext

(* The inductive invariant of the file, its programs and the device.       *)
THEOREM FileInvariant == FileSpec => []FileInv
BY InitFile, StepFile, PTL DEF FileSpec

(* No block is twice in the file, however it is written, moved and cut,    *)
(* no page is past its end, and no hole has a dirty one; fiemap's buffer   *)
(* holds no more extents than it was counted for (iotest.c:69-106,         *)
(* fiemap.c:62-87).                                                        *)
THEOREM FileTypeCorrect == FileSpec => []FileTypeOK
<1>1. FileInv => FileTypeOK
  <2> SUFFICES ASSUME FileInv PROVE FileTypeOK
    OBVIOUS
  <2>1. MapInv /\ IoInv /\ FibInv /\ FieInv /\ MAXINT \in Nat
    BY IntAssumption DEF FileInv, DataInv
  <2>2. \A x \in DOMAIN file : file[x] \in Places
    BY <2>1, FileType
  <2>3. \A x, y \in DOMAIN file :
          file[x] \in Phys \cup {Hole} /\ (file[x] = file[y] /\ file[x] # Hole => x = y)
    BY <2>1, <2>2 DEF MapInv, Places
  <2>4. ASSUME NEW x \in DOMAIN cache
        PROVE  /\ cache[x] \in [v : Content, dirty : BOOLEAN]
               /\ cache[x].dirty => Allocated(x)
    <3>1. cache[x] \in PageType /\ (cache[x].dirty => file[x + 1] # Hole)
      BY <2>1 DEF MapInv
    <3>2. x < Len(file)
      BY <2>1, FileType
    <3> QED BY <3>1, <3>2 DEF PageType, Allocated
  <2>5. io \in IoType
    BY <2>1 DEF IoInv
  <2>6. /\ Len(fib.out) <= MAXINT /\ fib.pc \in {"idle", "stat", "map", "end"}
        /\ fib.n \in -MAXINT - 1 .. MAXINT
    BY <2>1, LenProperties DEF FibInv, FibType
  <2>7. /\ {fib.n, fie.size} \subseteq -MAXINT - 1 .. MAXINT
        /\ {fie.room, fie.mapped} \subseteq 0 .. LIMIT
    BY <2>1, <2>6 DEF FieInv
  <2> QED BY <2>1, <2>3, <2>4, <2>5, <2>6, <2>7 DEF FileTypeOK, MapInv, IoType, FieInv
<1> QED BY <1>1, FileInvariant, PTL

(* On a good device iotest complains only of a hole, and only if the file  *)
(* was cut below the place where it was writing; every block that is there *)
(* reads back as it was written, for every size, limit and number of       *)
(* changes by others (iotest.c:76-83, 111-132).                            *)
THEOREM NeverAFalseAlarm == FileSpec => []NoFalseAlarm
<1>1. FileInv => NoFalseAlarm
  BY DEF FileInv, DataInv, GoodInv, NoFalseAlarm
<1> QED BY <1>1, FileInvariant, PTL

(* A fake device passes a cold test only with blocks that fit in it, for   *)
(* every size it has and says it has (iotest.c:57-60, 124-132).            *)
THEOREM FindsTheFault == FileSpec => []FaultFound
<1>1. FileInv => FaultFound
  <2> SUFFICES ASSUME FileInv, io.pc = "good", io.cold, changes = 0 PROVE FaultFound
    BY DEF FaultFound
  <2> DEFINE m == io.count
             blocks == {file[b + 1] : b \in 0 .. m - 1}
             cells == {Cell(p) : p \in blocks}
             g == [b \in 0 .. m - 1 |-> Cell(file[b + 1])]
  <2>1. MapInv /\ IoInv /\ FakeInv
    BY DEF FileInv, DataInv
  <2>2. /\ m \in Nat
        /\ \A b \in 0 .. m - 1 : file[b + 1] \in Phys /\ disk[Cell(file[b + 1])] = b
    BY <2>1, LimitAssumption DEF IoInv, IoType, FakeInv
  <2>3. Cardinality(cells) = m
    <3>1. g \in Surjection(0 .. m - 1, cells)
      BY DEF Surjection
    <3>2. g \in Injection(0 .. m - 1, cells)
      <4>1. \A x, y \in 0 .. m - 1 : g[x] = g[y] => x = y
        BY <2>2
      <4>2. g \in [0 .. m - 1 -> cells]
        OBVIOUS
      <4> HIDE DEF g
      <4> QED BY <4>1, <4>2 DEF Injection, IsInjective
    <3>3. IsFiniteSet(0 .. m - 1) /\ Cardinality(0 .. m - 1) = m
      <4> HIDE DEF m
      <4> QED BY <2>2, FS_Interval
    <3> HIDE DEF g, cells
    <3> QED BY <3>1, <3>2, <3>3, FS_Surjection
  <2>4. device = "drops" => \A b \in 1 .. m - 1 : file[b + 1] <= REAL
    <3> SUFFICES ASSUME device = "drops", NEW b \in 1 .. m - 1, ~(file[b + 1] <= REAL)
                 PROVE  FALSE
      OBVIOUS
    <3>1. b \in 0 .. m - 1 /\ b > 0
      BY <2>2
    <3>2. disk[file[b + 1]] = b /\ file[b + 1] \in Phys
      BY <2>2, <3>1 DEF Cell
    <3>3. file[b + 1] > REAL
      BY <3>2, SizeAssumption DEF Phys
    <3>4. disk[file[b + 1]] \in {0, Junk}
      BY <2>1, <3>2, <3>3 DEF FakeInv
    <3> QED BY <3>1, <3>2, <3>4 DEF Junk
  <2> QED BY <2>3, <2>4 DEF FaultFound
<1> QED BY <1>1, FileInvariant, PTL

(* Of a file that holds still from their first call on fibmap prints every *)
(* block whose number is an int, and fiemap every extent, if their size is *)
(* an int; its buffer takes what the kernel writes.  This is for every     *)
(* file, every width of int and every size of an extent (fibmap.c:58-74,   *)
(* fiemap.c:62-104).                                                       *)
THEOREM MapsExactly == FileSpec => []MappersExact
<1>1. FileInv => MappersExact
  <2> SUFFICES ASSUME FileInv PROVE MappersExact
    OBVIOUS
  <2>1. MapInv /\ FibInv /\ FieInv /\ MAXINT \in Nat /\ EXTENT \in Nat
    BY IntAssumption DEF FileInv, DataInv
  <2>2. ASSUME fib.pc = "end", ~fib.failed, fib.seen = version, Len(file) <= MAXINT
        PROVE  /\ Len(fib.out) = Len(file)
               /\ \A x \in DOMAIN file : file[x] <= MAXINT => fib.out[x] = file[x]
    <3>1. /\ Len(file) \in Nat /\ DOMAIN file = 1 .. Len(file)
          /\ \A x \in DOMAIN file : file[x] \in Nat
      <4>1. Places \subseteq Nat
        BY SizeAssumption DEF Places, Phys, Hole
      <4> QED BY <2>1, <4>1, FileType
    <3>2. Len(fib.out) \in Nat
      BY <2>1, LenProperties DEF FibInv, FibType
    <3>3. fib.n = Len(file) /\ \A k \in 1 .. Len(fib.out) : fib.out[k] = Wrap(file[k])
      BY <2>1, <2>2, <3>1, WrapOf DEF FibInv
    <3>4. Len(fib.out) = Len(file)
      BY <2>1, <2>2, <3>1, <3>2, <3>3 DEF FibInv
    <3> QED BY <3>1, <3>3, <3>4, WrapOf
  <2>3. ASSUME fie.pc = "dump", EXTENT * fie.room <= MAXINT
        PROVE  /\ EXTENT * Cardinality(fie.extents) <= fie.size
               /\ fie.mapped <= fie.room \/ fie.room = 0
               /\ fie.seen = version =>
                    fie.extents = Extents(file) /\ fie.mapped = Cardinality(fie.extents)
    <3>1. /\ fie.room \in Nat /\ Cardinality(fie.extents) \in Nat
          /\ Cardinality(fie.extents) <= fie.room
      BY <2>1, FS_CardinalityType, LimitAssumption DEF FieInv
    <3>2. fie.size = Wrap(EXTENT * fie.room)
      BY <2>1, <2>3 DEF FieInv
    <3>3. EXTENT * fie.room \in Nat /\ EXTENT * Cardinality(fie.extents) <= EXTENT * fie.room
      BY <2>1, <3>1, ProductGrows
    <3>4. fie.size = EXTENT * fie.room
      BY <2>3, <3>2, <3>3, WrapOf
    <3> QED BY <2>1, <2>3, <3>3, <3>4 DEF FieInv
  <2> QED BY <2>2, <2>3 DEF MappersExact
<1> QED BY <1>1, FileInvariant, PTL

=============================================================================
