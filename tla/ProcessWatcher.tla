--------------------------- MODULE ProcessWatcher ---------------------------
(***************************************************************************)
(* process_watcher/process-watcher.c: once a second main() walks /proc and *)
(* records, in a hash table with linear probing that never forgets a pid,  *)
(* how much user and system time each process has used since the last      *)
(* sample.  SIGINT, or the last sample, ends the gathering; the report     *)
(* sums the samples.                                                       *)
(*                                                                         *)
(* Processes start, run, exit and are replaced by others with the same pid *)
(* at any moment, also between readdir() and open().                       *)
(***************************************************************************)
EXTENDS Integers, FiniteSets, FiniteSetsExt

CONSTANTS
  Pids,         \* pids the kernel hands out
  SIZE,         \* PROCESS_INFO_SIZE
  MAX_SAMPLES,  \* the value of -s
  W,            \* 2^32: uint32_t counters are kept modulo W
  Junk,         \* what a freshly malloc()ed sample may contain
  MaxActs       \* bound: starts, ticks and exits of processes

ASSUME PidsAssumption  == Pids \subseteq Nat \ {0} /\ IsFiniteSet(Pids)
ASSUME SizeAssumption  == SIZE \in Nat \ {0} /\ MAX_SAMPLES \in Nat
ASSUME CountAssumption == W \in Nat \ {0, 1} /\ Junk \subseteq 0 .. W - 1 /\ Junk # {}
ASSUME ActsAssumption  == MaxActs \in Nat

Index  == 0 .. SIZE - 1
Sample == 0 .. MAX_SAMPLES - 1
Count  == 0 .. W - 1
NoPid  == -1
Time   == [usr : Count, sys : Count]
Zero   == [usr |-> 0, sys |-> 0]

VARIABLES
  pc, sample, stop, max_samples,
  cursor,        \* the last /proc entry that readdir() returned
  pid, last,     \* process_info[].pid; its .usr and .sys
  active,
  samples,       \* samples[sample][index]
  total,         \* process_info[].total_usr, .total_sys
  alive,         \* the times of the living processes
  acts,
  base           \* history: what the sample before the first one read

gather == <<pc, sample, stop, max_samples, cursor>>
table  == <<pid, last, active, samples, total, base>>
vars   == <<gather, table, alive, acts>>

Sub(a, b) == [usr |-> (a.usr - b.usr) % W, sys |-> (a.sys - b.sys) % W]

(***************************************************************************)
(* The processes of the machine.                                           *)
(***************************************************************************)

Acting == acts < MaxActs /\ acts' = acts + 1

Starts(p) ==
  /\ Acting /\ p \notin DOMAIN alive
  /\ alive' = [q \in DOMAIN alive \cup {p} |-> IF q = p THEN Zero ELSE alive[q]]
  /\ UNCHANGED <<gather, table>>

Runs(p) ==
  /\ Acting /\ p \in DOMAIN alive
  /\ \/ alive[p].usr + 1 \in Count /\ alive' = [alive EXCEPT ![p].usr = @ + 1]
     \/ alive[p].sys + 1 \in Count /\ alive' = [alive EXCEPT ![p].sys = @ + 1]
  /\ UNCHANGED <<gather, table>>

Exits(p) ==
  /\ Acting /\ p \in DOMAIN alive
  /\ alive' = [q \in DOMAIN alive \ {p} |-> alive[q]]
  /\ UNCHANGED <<gather, table>>

(***************************************************************************)
(* The hash table.                                                         *)
(***************************************************************************)

pid_hash(p) == (p * 3) % SIZE

(* Slots in the order in which the loop of lines 168-174 visits them.      *)
Visited_noWrap(p, o) == Min({pid_hash(p) + o, SIZE - 1})   \* mutant: no wrap

Visited(p, o) == (pid_hash(p) + o) % SIZE

Stops_emptyOnly(p) ==      \* mutant: the pid already in the table is not seen
  {o \in Index : pid[Visited(p, o)] = NoPid}

Stops(p) == {o \in Index : pid[Visited(p, o)] \in {p, NoPid}}

(***************************************************************************)
(* Gathering.                                                              *)
(***************************************************************************)

Interrupt ==
  /\ ~stop /\ pc # "done"
  /\ stop' = TRUE
  /\ UNCHANGED <<pc, sample, max_samples, cursor, table, alive, acts>>

BeginScan_oneMore ==       \* mutant: sample <= max_samples
  /\ pc = "loop" /\ ~stop /\ sample <= max_samples
  /\ pc' = "scan" /\ cursor' = 0
  /\ UNCHANGED <<sample, stop, max_samples, table, alive, acts>>

BeginScan ==
  /\ pc = "loop" /\ ~stop /\ sample < max_samples
  /\ pc' = "scan" /\ cursor' = 0
  /\ UNCHANGED <<sample, stop, max_samples, table, alive, acts>>

(* The stat file of the process in slot x was read.                        *)
Record_stale(x, now) ==    \* mutant: previous_usr is not refreshed
  LET delta == Sub(now, base[x]) IN
    /\ last' = [last EXCEPT ![x] = now]
    /\ IF sample = -1
         THEN base' = [base EXCEPT ![x] = now] /\ UNCHANGED <<samples, active>>
         ELSE /\ samples' = [samples EXCEPT ![sample][x] = delta]
              /\ active' = [active EXCEPT ![x] = @ \/ (delta.usr + delta.sys) % W > 0]
              /\ UNCHANGED base

Record(x, now) ==
  LET delta == Sub(now, last[x]) IN
    /\ last' = [last EXCEPT ![x] = now]
    /\ IF sample = -1
         THEN base' = [base EXCEPT ![x] = now] /\ UNCHANGED <<samples, active>>
         ELSE /\ samples' = [samples EXCEPT ![sample][x] = delta]
              /\ active' = [active EXCEPT ![x] = @ \/ (delta.usr + delta.sys) % W > 0]
              /\ UNCHANGED base

(* readdir() returns pids in ascending order.  The slot is taken before    *)
(* the stat file is opened, and stays taken if the process is gone.        *)
Visit(p) ==
  /\ pc = "scan" /\ p \in DOMAIN alive /\ p > cursor
  /\ \A q \in DOMAIN alive : q > cursor => p <= q
  /\ IF Stops(p) = {}
       THEN pc' = "spin" /\ UNCHANGED <<cursor, table, alive>>
       ELSE LET x == Visited(p, Min(Stops(p))) IN
              /\ pid' = [pid EXCEPT ![x] = p]
              /\ cursor' = p
              /\ \/ Record(x, alive[p]) /\ UNCHANGED alive
                 \/ /\ alive' = [q \in DOMAIN alive \ {p} |-> alive[q]]
                    /\ UNCHANGED <<last, active, samples, base>>
              /\ UNCHANGED <<pc, total>>
  /\ UNCHANGED <<sample, stop, max_samples, acts>>

(* The scan is over; sleep(1), sample++.                                   *)
EndScan_uncounted ==       \* mutant: sample++ is forgotten
  /\ pc = "scan" /\ \A p \in DOMAIN alive : p <= cursor
  /\ pc' = "loop"
  /\ UNCHANGED <<sample, stop, max_samples, cursor, table, alive, acts>>

EndScan ==
  /\ pc = "scan" /\ \A p \in DOMAIN alive : p <= cursor
  /\ pc' = "loop" /\ sample' = sample + 1
  /\ UNCHANGED <<stop, max_samples, cursor, table, alive, acts>>

(* The pid is in no slot and no slot is empty: index++ for ever.           *)
Spin == pc = "spin" /\ UNCHANGED vars

EndGather_oneMore ==       \* mutant: the row that was not gathered is counted
  /\ pc = "loop" /\ (stop \/ sample >= max_samples)
  /\ max_samples' = IF stop /\ sample < max_samples THEN sample + 1 ELSE max_samples
  /\ pc' = "report"
  /\ UNCHANGED <<sample, stop, cursor, table, alive, acts>>

EndGather ==
  /\ pc = "loop" /\ (stop \/ sample >= max_samples)
  /\ max_samples' = IF stop THEN sample ELSE max_samples
  /\ pc' = "report"
  /\ UNCHANGED <<sample, stop, cursor, table, alive, acts>>

(***************************************************************************)
(* The CPU usage summary: line 273 adds delta_usr to total_sys.            *)
(***************************************************************************)
Usr(x) == [s \in Sample |-> samples[s][x].usr]
Sys(x) == [s \in Sample |-> samples[s][x].sys]

UsrOf(x) == SumFunctionOnSet(Usr(x), 0 .. max_samples - 1) % W
SysOf(x) == SumFunctionOnSet(Sys(x), 0 .. max_samples - 1) % W

Report ==
  /\ pc = "report"
  /\ total' = [x \in Index |-> IF active[x] THEN [usr |-> UsrOf(x), sys |-> UsrOf(x)]
                                            ELSE Zero]
  /\ pc' = "done"
  /\ UNCHANGED <<sample, stop, max_samples, cursor,
                 pid, last, active, samples, base, alive, acts>>

(***************************************************************************)

Init ==
  /\ pc = "loop" /\ sample = -1 /\ stop = FALSE
  /\ max_samples = MAX_SAMPLES /\ cursor = 0
  /\ pid = [x \in Index |-> NoPid]
  /\ last = [x \in Index |-> Zero]            \* a mapping of fresh zero pages
  /\ base = [x \in Index |-> Zero]
  /\ active = [x \in Index |-> FALSE]
  /\ total = [x \in Index |-> Zero]
  /\ \E j \in Junk :
       samples = [s \in Sample |-> [x \in Index |-> [usr |-> j, sys |-> j]]]
  /\ \E P \in SUBSET Pids, t \in {0, 1} :
       alive = [p \in P |-> [usr |-> t, sys |-> 0]]
  /\ acts = 0

Main == BeginScan \/ (\E p \in Pids : Visit(p)) \/ EndScan \/ EndGather \/ Report

Next ==
  \/ Main
  \/ Spin
  \/ Interrupt
  \/ \E p \in Pids : Starts(p) \/ Runs(p) \/ Exits(p)
  \/ pc = "done" /\ UNCHANGED vars

Spec     == Init /\ [][Next]_vars
FairSpec == Spec /\ WF_vars(Main)

-----------------------------------------------------------------------------
(* Type invariant: the table, the samples and the loop variables; rows that*)
(* were not gathered are not reported (process-watcher.c:224-225).         *)
TypeOK ==
  /\ pc \in {"loop", "scan", "spin", "report", "done"}
  /\ sample \in -1 .. MAX_SAMPLES /\ max_samples \in -1 .. MAX_SAMPLES
  /\ stop \in BOOLEAN /\ cursor \in {0} \cup Pids
  /\ pid \in [Index -> {NoPid} \cup Pids]
  /\ last \in [Index -> Time] /\ base \in [Index -> Time]
  /\ total \in [Index -> Time] /\ active \in [Index -> BOOLEAN]
  /\ samples \in [Sample -> [Index -> Time]]
  /\ pc = "done" => max_samples <= sample /\ (~stop => max_samples = MAX_SAMPLES)

(* Linear probing (process-watcher.c:166-175) gives every pid one slot,    *)
(* and a lookup reaches it before it reaches an empty one.                 *)
OneSlotPerPid ==
  /\ \A x, y \in Index : pid[x] = pid[y] /\ pid[x] # NoPid => x = y
  /\ \A x \in Index : pid[x] # NoPid =>
       Stops(pid[x]) # {} /\ Visited(pid[x], Min(Stops(pid[x]))) = x

(* The samples of a slot add up, modulo 2^32, to what the process has used *)
(* since the base sample, whatever the order of exits, failed reads and    *)
(* reuses of the pid (process-watcher.c:192-205).                          *)
DeltasTelescope ==
  pc \in {"loop", "scan"} =>
    \A x \in Index :
      Sub(last[x], base[x]) =
        [usr |-> SumFunctionOnSet(Usr(x), Sample) % W,
         sys |-> SumFunctionOnSet(Sys(x), Sample) % W]

(* The report is reached unless SIZE other pids have been seen: only then  *)
(* can the search run for ever (process-watcher.c:166-175).                *)
Full == Cardinality({pid[x] : x \in Index} \ {NoPid}) = SIZE

ReportsUnlessFull == []~(pc = "spin" /\ Full) => <>(pc = "done")

(* total_sys is the system time that was sampled: "Sort based on total     *)
(* user and system time" (process-watcher.c:65).                           *)
TotalsAreSums ==
  pc = "done" => \A x \in Index :
    active[x] => total[x] = [usr |-> UsrOf(x), sys |-> SysOf(x)]

=============================================================================
