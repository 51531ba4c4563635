----------------------------- MODULE Benchmark ------------------------------
(***************************************************************************)
(* IO-flash-benchmark/src/benchmark.c: for block sizes from MIN_SIZE up to *)
(* the maximum, doubling, write (then read) the scratch file or device     *)
(* repeats times and print a row of rates.                                 *)
(*                                                                         *)
(* Sizes are in units of MIN_SIZE.  Any system call may fail, a transfer   *)
(* may be short, SIGINT may come at any moment.                            *)
(***************************************************************************)
EXTENDS Integers, FiniteSets

CONSTANTS
  Sizes, Maxes, Repeats,  \* values of -s, -m and -r
  MEG,                    \* units in a megabyte
  INT,                    \* number of values of an int, 2^32
  Intact                  \* values of opt.intact to consider

ASSUME OptionAssumption == /\ Sizes \subseteq Int /\ Maxes \subseteq Int
                           /\ Repeats \subseteq Int
ASSUME UnitAssumption   == MEG \in Nat \ {0} /\ INT \in Nat \ {0} /\ Intact \subseteq BOOLEAN

MAX_REPEATS == 11

VARIABLES
  opt,      \* the options: size, max, repeats, device, do_read, do_write, C;
            \* opt.intact: in this run nothing fails and no transfer is short
  pc, phase, bs, j, i,
  why,      \* how the program ended
  stored,   \* units in the file; -1: there is none
  fds,      \* descriptors open
  buffer,   \* the buffer is allocated
  moved     \* history: units moved by the current timed transfer

vars == <<opt, pc, phase, bs, j, i, why, stored, fds, buffer, moved>>
here == <<opt, phase, bs>>

size == opt.size * MEG

(* A value stored in an int. *)
ToInt(x) == ((x + INT \div 2) % INT) - INT \div 2

May_fail == ~opt.intact

(* unlink(filename) when it is not a device. *)
Unlinked_always == -1      \* mutant: the test for /dev/ is left out

Unlinked == IF opt.device THEN stored ELSE -1

Ends(reason) == pc' = "exit" /\ why' = reason

(***************************************************************************)
(* main().                                                                 *)
(***************************************************************************)

(* Options are checked and -s is raised to -m.  C is in getopt's list but  *)
(* has no case, so it ends in syntax().                                    *)
Start_unchecked ==         \* mutant: the upper bound of -r is not checked
  /\ pc = "start"
  /\ IF opt.C \/ opt.repeats < 0
       THEN Ends("syntax") /\ UNCHANGED <<opt, phase>>
       ELSE /\ opt' = [opt EXCEPT !.size = IF @ < opt.max THEN opt.max ELSE @]
            /\ phase' = IF opt.do_write THEN "write" ELSE "read"
            /\ pc' = "row" /\ UNCHANGED why
  /\ bs' = 1
  /\ UNCHANGED <<j, i, stored, fds, buffer, moved>>

Start ==
  /\ pc = "start"
  /\ IF opt.C \/ opt.repeats < 0 \/ opt.repeats > MAX_REPEATS
       THEN Ends("syntax") /\ UNCHANGED <<opt, phase>>
       ELSE /\ opt' = [opt EXCEPT !.size = IF @ < opt.max THEN opt.max ELSE @]
            /\ phase' = IF opt.do_write THEN "write" ELSE "read"
            /\ pc' = "row" /\ UNCHANGED why
  /\ bs' = 1
  /\ UNCHANGED <<j, i, stored, fds, buffer, moved>>

(* for (bs=MIN_SIZE; bs<=max_sz; bs<<=1): drop_caches(), which reports     *)
(* success whatever happened, then allocate the buffer.                    *)
BeginRow ==
  /\ pc = "row" /\ bs <= opt.max * MEG
  /\ \/ buffer' = TRUE /\ pc' = "repeat" /\ UNCHANGED why
     \/ May_fail /\ Ends("error") /\ UNCHANGED buffer
  /\ j' = 0
  /\ UNCHANGED <<here, i, stored, fds, moved>>

EndPhase ==
  /\ pc = "row" /\ bs > opt.max * MEG
  /\ IF phase = "write" /\ opt.do_read
       THEN phase' = "read" /\ bs' = 1 /\ UNCHANGED <<pc, why>>
       ELSE Ends("success") /\ UNCHANGED <<phase, bs>>
  /\ UNCHANGED <<opt, j, i, stored, fds, buffer, moved>>

(***************************************************************************)
(* benchmark_write_large_file(), benchmark_read_large_file().              *)
(***************************************************************************)

Fails(closed) ==
  /\ May_fail /\ Ends("error")
  /\ buffer' = FALSE /\ fds' = fds - closed

(* Remove the old file and create a new one. *)
OpenNew ==
  /\ pc = "repeat" /\ j < opt.repeats
  /\ \/ /\ stored' = IF opt.device THEN stored ELSE 0
        /\ fds' = fds + 1
        /\ pc' = IF phase = "write" THEN "transfer" ELSE "fill"
        /\ UNCHANGED <<why, buffer>>
     \/ stored' = Unlinked /\ Fails(0)
  /\ i' = ToInt(size \div bs) /\ moved' = 0
  /\ UNCHANGED <<here, j>>

(* The read test writes the whole file in one call.  The descriptor is not *)
(* closed when that fails.                                                 *)
Fill ==
  /\ pc = "fill"
  /\ \/ /\ \E got \in (IF opt.intact THEN {size} ELSE 0 .. size) :
             stored' = IF opt.device THEN stored ELSE got
        /\ fds' = fds - 1
        /\ pc' = "reopen" /\ UNCHANGED <<why, buffer>>
     \/ Fails(0) /\ UNCHANGED stored
  /\ UNCHANGED <<here, j, i, moved>>

Reopen ==
  /\ pc = "reopen"
  /\ \/ /\ fds' = fds + 1 /\ pc' = "transfer"
        /\ UNCHANGED <<why, buffer>>
     \/ Fails(0)
  /\ UNCHANGED <<here, j, i, stored, moved>>

(* One write() or read() of the timed loop; only a negative result counts. *)
Transfer_oneMore ==        \* mutant: while (i-- >= 0)
  /\ pc = "transfer" /\ i >= 0
  /\ i' = i - 1
  /\ \/ /\ moved' = moved + bs
        /\ stored' = IF phase = "write" /\ ~opt.device THEN stored + bs ELSE stored
        /\ UNCHANGED <<pc, why, fds, buffer>>
     \/ Fails(1) /\ UNCHANGED <<stored, moved>>
  /\ UNCHANGED <<here, j>>

Transfer ==
  /\ pc = "transfer" /\ i > 0
  /\ i' = i - 1
  /\ \/ /\ \E got \in (IF opt.intact THEN {bs} ELSE {0, bs - 1, bs}) :
             /\ phase = "read" /\ ~opt.device => moved + got <= stored
             /\ moved' = moved + got
             /\ stored' = IF phase = "write" /\ ~opt.device THEN stored + got ELSE stored
        /\ UNCHANGED <<pc, why, fds, buffer>>
     \/ Fails(1) /\ UNCHANGED <<stored, moved>>
  /\ UNCHANGED <<here, j>>

(* The rate of this repeat is (size >> 20) / secs. *)
EndRepeat_open ==          \* mutant: close(fd) is left out
  /\ pc = "transfer" /\ i <= 0
  /\ j' = j + 1
  /\ pc' = "repeat"
  /\ UNCHANGED <<here, i, why, stored, fds, buffer, moved>>

EndRepeat ==
  /\ pc = "transfer" /\ i <= 0
  /\ fds' = fds - 1
  /\ j' = j + 1
  /\ pc' = "repeat"
  /\ UNCHANGED <<here, i, why, stored, buffer, moved>>

EndRow ==
  /\ pc = "repeat" /\ j >= opt.repeats
  /\ stored' = Unlinked
  /\ buffer' = FALSE
  /\ bs' = 2 * bs /\ pc' = "row"
  /\ UNCHANGED <<opt, phase, j, i, why, fds, moved>>

(* The handler unlinks the scratch file and exits. *)
Handler_keeps ==           \* mutant: the handler only exits
  /\ pc \notin {"start", "exit"}
  /\ Ends("sigint")
  /\ UNCHANGED <<here, j, i, stored, fds, buffer, moved>>

Handler ==
  /\ pc \notin {"start", "exit"}
  /\ stored' = Unlinked
  /\ Ends("sigint")
  /\ UNCHANGED <<here, j, i, fds, buffer, moved>>

(***************************************************************************)

(* With neither -R nor -W both tests run; a device always has its contents. *)
Init ==
  /\ opt \in [size : Sizes, max : Maxes, repeats : Repeats, device : BOOLEAN,
              do_read : BOOLEAN, do_write : BOOLEAN, C : BOOLEAN, intact : Intact]
  /\ opt.do_read \/ opt.do_write
  /\ pc = "start" /\ phase = "write" /\ bs = 1 /\ j = 0 /\ i = 0
  /\ why = "running"
  /\ stored \in IF opt.device THEN {0} ELSE {-1, 0}
  /\ fds = 0 /\ buffer = FALSE /\ moved = 0

Run ==
  \/ Start \/ BeginRow \/ EndPhase \/ OpenNew \/ Fill \/ Reopen
  \/ Transfer \/ EndRepeat \/ EndRow

Next == Run \/ Handler \/ (pc = "exit" /\ UNCHANGED vars)

Spec == Init /\ [][Next]_vars

-----------------------------------------------------------------------------
(* Type invariant: loop variables, the file; every repeat, row and phase   *)
(* starts with the resources of the last one returned.                     *)
TypeOK ==
  /\ pc \in {"start", "row", "repeat", "fill", "reopen", "transfer", "exit"}
  /\ why \in {"running", "syntax", "error", "success", "sigint"}
  /\ phase \in {"read", "write"} /\ bs \in Nat \ {0}
  /\ j \in 0 .. MAX_REPEATS                       \* rates[j] is in range
  /\ i \in Int /\ stored \in Nat \cup {-1} /\ moved \in Nat
  /\ fds \in 0 .. 1 /\ buffer \in BOOLEAN
  /\ pc \in {"row", "repeat", "reopen"} => fds = 0
  /\ pc = "row" => ~buffer

(* After a complete run, and after SIGINT at any moment of it, the scratch *)
(* file is gone (benchmark.c:223, 329, 343); a device is never unlinked.   *)
ScratchGone ==
  /\ why = "sigint" /\ ~opt.device => stored = -1
  /\ why = "success" /\ opt.max > 0 /\ ~opt.device => stored = -1
  /\ opt.device => stored # -1

(* When nothing fails a timed loop moves all of the size but a tail        *)
(* shorter than a block, as long as the block count fits an int.           *)
AllButATail ==
  opt.intact /\ pc = "transfer" /\ i <= 0 /\ size \div bs < INT \div 2 =>
    moved <= size /\ size - moved < bs

=============================================================================
