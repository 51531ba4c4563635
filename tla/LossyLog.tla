------------------------------ MODULE LossyLog ------------------------------
(***************************************************************************)
(* What a message logger promises: the log only grows, holds nothing that  *)
(* was not produced, nothing twice, and what one reader contributed stands *)
(* in the order of production.  It may miss units; it may not invent,      *)
(* repeat, reorder or rewrite them.                                        *)
(***************************************************************************)
EXTENDS Naturals, Sequences

CONSTANT Reader

VARIABLES
  produced,   \* units 1 .. produced have been emitted by the source
  log         \* sequence of [by : Reader, unit : 1 .. produced]

Init == produced = 0 /\ log = <<>>

Emit == produced' = produced + 1 /\ UNCHANGED log

(* The entry at place k of log' is new and newer than r's earlier ones.    *)
Fits(r, k) ==
  /\ log'[k].by = r /\ log'[k].unit \in 1 .. produced
  /\ \A j \in 1 .. k - 1 :
       /\ log'[j].unit # log'[k].unit
       /\ log'[j].by = r => log'[j].unit < log'[k].unit

Write(r) ==
  /\ log' \in Seq([by : Reader, unit : Nat])
  /\ Len(log') > Len(log) /\ SubSeq(log', 1, Len(log)) = log
  /\ \A k \in Len(log) + 1 .. Len(log') : Fits(r, k)
  /\ UNCHANGED produced

Next == Emit \/ \E r \in Reader : Write(r)

Spec == Init /\ [][Next]_<<produced, log>>

-----------------------------------------------------------------------------
(* What a log that keeps these promises looks like, however many readers   *)
(* take turns: nothing invented, nothing twice, each reader's units in the *)
(* order of production.                                                    *)
InOrder ==
  /\ log \in Seq([by : Reader, unit : 1 .. produced])
  /\ \A j, k \in 1 .. Len(log) : j < k =>
       /\ log[j].unit # log[k].unit
       /\ log[j].by = log[k].by => log[j].unit < log[k].unit

=============================================================================
