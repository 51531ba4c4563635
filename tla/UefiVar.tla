------------------------------ MODULE UefiVar ------------------------------
(***************************************************************************)
(* uefivar/uefivar.c: lists, removes and sets UEFI variables through the   *)
(* sysfs files the kernel shows for them.  Several commands run at once.   *)
(* Each removal and listing first takes a snapshot of the directory and    *)
(* then opens its entries one by one, while others may remove or create.   *)
(***************************************************************************)
EXTENDS Naturals, Sequences

CONSTANTS
  Proc,      \* running uefivar commands
  Name,      \* short variable names
  Longer,    \* pairs <<n, m>>: n is a proper prefix of m
  Entry,     \* the entries sysfs may show, [name, guid], in alphasort order
  Zero,      \* a uefi_var whose attributes are zero
  Garbage    \* one that was never written

Var == {Entry[k] : k \in DOMAIN Entry}     \* a variable is known by its entry

ASSUME LongerAssumption ==
  Longer \subseteq Name \X Name /\ \A n \in Name : <<n, n>> \notin Longer
ASSUME EntryAssumption ==
  /\ Entry \in Seq(Var) /\ {Zero, Garbage} \cap Var = {} /\ Zero # Garbage
  /\ \A v \in Var : v.name \in Name
  /\ \A j, k \in DOMAIN Entry : Entry[j] = Entry[k] => j = k

(* The command lines main() accepts: exactly one of -r, -l and -s.         *)
Command ==
  [op : {"rm"}, names : {<<n>> : n \in Name} \cup (Name \X Name), new : {Zero}]
    \cup [op : {"ls"}, names : {<<>>}, new : {Zero}]
    \cup [op : {"set"}, names : {<<>>}, new : Var]

VARIABLES
  store,     \* the firmware's variables
  cmd,       \* what each process was asked to do; rm: the names still to do
  pc,        \* "start", "loop", "del", "end", "done" or "failed"
  snap,      \* result of scandir()
  i,         \* place of the entry names[i] in Entry
  var,       \* the uefi_var on the stack
  line,      \* uefi_var_ls: the entry of the last line and what it shows
  gone,      \* history: variables that disappeared since the snapshot
  mishap     \* history: a call failed for no reason another command gave

vars == <<store, cmd, pc, snap, i, var, line, gone, mishap>>

Arg(p) == Head(cmd[p].names)
Goto(p, l) == pc' = [pc EXCEPT ![p] = l]

(* The place of the first entry of the directory listing s after place k.  *)
After(s, k) ==
  LET later == {j \in DOMAIN Entry : j > k /\ Entry[j] \in s}
  IN IF later = {} THEN Len(Entry) + 1 ELSE CHOOSE j \in later : \A m \in later : j <= m

Over(p) == i[p] > Len(Entry)

(* names = scandir(...); -1 makes the loop run zero times.                 *)
Scan(p) ==
  /\ pc[p] = "start" /\ cmd[p].op \in {"rm", "ls"}
  /\ snap' = [snap EXCEPT ![p] = store]
  /\ gone' = [gone EXCEPT ![p] = {}]
  /\ \/ i' = [i EXCEPT ![p] = After(store, 0)] /\ UNCHANGED mishap
     \/ i' = [i EXCEPT ![p] = Len(Entry) + 1] /\ mishap' = [mishap EXCEPT ![p] = TRUE]
  /\ Goto(p, "loop")
  /\ UNCHANGED <<store, cmd, var, line>>

(* strncmp(d_name, varname, strlen(varname)) == 0                          *)
Candidate(p, v) == v.name = Arg(p) \/ <<Arg(p), v.name>> \in Longer

(* strcmp("varname-guid of var", d_name) == 0; var was read from d_name.   *)
Exact_prefix(p, v) == TRUE          \* mutant: the second comparison is lost

Exact(p, v) == v.name = Arg(p)

(* uefi_get_variable(): a file that is gone cannot be opened, another may  *)
(* be refused or read short.  Only the latter clears the buffer.           *)
GetOk(p, v) == v \in store /\ var' = [var EXCEPT ![p] = v] /\ UNCHANGED mishap
GetNone(p, v) == UNCHANGED var /\ mishap' = [mishap EXCEPT ![p] = @ \/ v \in store]
GetShort(p, v) ==
  /\ v \in store
  /\ var' = [var EXCEPT ![p] = Zero]
  /\ mishap' = [mishap EXCEPT ![p] = TRUE]

Advance(p) == i' = [i EXCEPT ![p] = After(snap[p], @)]

(* One round of the loop of uefi_var_del(), up to opening del_var.         *)
RmEntry(p) ==
  /\ pc[p] = "loop" /\ cmd[p].op = "rm" /\ ~Over(p)
  /\ LET v == Entry[i[p]]
     IN IF Candidate(p, v)
          THEN \/ GetOk(p, v) /\ Goto(p, IF Exact(p, v) THEN "del" ELSE "loop")
               \/ (GetNone(p, v) \/ GetShort(p, v)) /\ UNCHANGED pc
          ELSE UNCHANGED <<pc, var, mishap>>
  /\ Advance(p)
  /\ UNCHANGED <<store, cmd, snap, line, gone>>

(* write(del_var): the kernel removes the variable of this name and guid.  *)
Del_last(p) ==             \* mutant: the loop ends with the first deletion
  /\ pc[p] = "del"
  /\ var[p] \in store
  /\ store' = store \ {var[p]}
  /\ gone' = [q \in Proc |-> gone[q] \cup {var[p]}]
  /\ Goto(p, "end")
  /\ UNCHANGED <<cmd, snap, i, var, line, mishap>>

Del(p) ==
  /\ pc[p] = "del"
  /\ var[p] \in store
  /\ store' = store \ {var[p]}
  /\ gone' = [q \in Proc |-> gone[q] \cup {var[p]}]
  /\ Goto(p, "loop")
  /\ UNCHANGED <<cmd, snap, i, var, line, mishap>>

(* The write fails, as it must when the variable is gone by now; or        *)
(* del_var cannot be opened, which ends the program.                       *)
DelFails(p) ==
  /\ pc[p] = "del"
  /\ mishap' = [mishap EXCEPT ![p] = @ \/ var[p] \in store]
  /\ \E l \in {"loop", "failed"} : Goto(p, l)
  /\ UNCHANGED <<store, cmd, snap, i, var, line, gone>>

(* One round of the loop of uefi_var_ls(): the result of the read is not   *)
(* tested, attributes != 0 is; garbage may have any attributes.            *)
LsEntry(p) ==
  /\ pc[p] = "loop" /\ cmd[p].op = "ls" /\ ~Over(p)
  /\ LET v == Entry[i[p]]
     IN /\ GetOk(p, v) \/ GetNone(p, v) \/ GetShort(p, v)
        /\ \/ var'[p] # Zero /\ line' = [line EXCEPT ![p] = <<v, var'[p]>>]
           \/ var'[p] \in {Zero, Garbage} /\ UNCHANGED line
  /\ Advance(p)
  /\ UNCHANGED <<store, cmd, pc, snap, gone>>

EndLoop(p) ==
  /\ pc[p] = "loop" /\ Over(p)
  /\ Goto(p, "end")
  /\ UNCHANGED <<store, cmd, snap, i, var, line, gone, mishap>>

(* for (i = optind; i < argc; i++) uefi_var_del(argv[i]);                  *)
EndName_oneMore(p) ==      \* mutant: the loop over argv goes one too far
  /\ pc[p] = "end"
  /\ IF cmd[p].names # <<>>
       THEN Goto(p, "start") /\ cmd' = [cmd EXCEPT ![p].names = Tail(@)]
       ELSE Goto(p, "done") /\ UNCHANGED cmd
  /\ UNCHANGED <<store, snap, i, var, line, gone, mishap>>

EndName(p) ==
  /\ pc[p] = "end"
  /\ IF Len(cmd[p].names) > 1
       THEN Goto(p, "start") /\ cmd' = [cmd EXCEPT ![p].names = Tail(@)]
       ELSE Goto(p, "done") /\ UNCHANGED cmd
  /\ UNCHANGED <<store, snap, i, var, line, gone, mishap>>

(* uefi_var_set(), with the guid given or a random one: the kernel refuses *)
(* a variable that exists; open or write may also fail otherwise.          *)
Set(p) ==
  /\ pc[p] = "start" /\ cmd[p].op = "set"
  /\ LET v == cmd[p].new
     IN \/ v \notin store /\ store' = store \cup {v} /\ Goto(p, "done")
        \/ Goto(p, "failed") /\ UNCHANGED store
  /\ UNCHANGED <<cmd, snap, i, var, line, gone, mishap>>

Init ==
  /\ store \in SUBSET Var
  /\ cmd \in [Proc -> Command]
  /\ pc = [p \in Proc |-> "start"]
  /\ snap = [p \in Proc |-> {}] /\ gone = snap
  /\ i = [p \in Proc |-> 0]
  /\ line = [p \in Proc |-> <<Garbage, Garbage>>]
  /\ var = [p \in Proc |-> Garbage]
  /\ mishap = [p \in Proc |-> FALSE]

Step(p) == \/ Scan(p) \/ RmEntry(p) \/ Del(p) \/ DelFails(p) \/ LsEntry(p)
           \/ EndLoop(p) \/ EndName(p) \/ Set(p)

(* All commands have returned. *)
Finished == (\A p \in Proc : pc[p] \in {"done", "failed"}) /\ UNCHANGED vars

Next == (\E p \in Proc : Step(p)) \/ Finished

Spec == Init /\ [][Next]_vars

-----------------------------------------------------------------------------
(* Type invariant; a command never looks at a name it was not given.       *)
TypeOK ==
  /\ store \subseteq Var
  /\ \A p \in Proc :
       /\ cmd[p] \in Command
       /\ pc[p] \in {"start", "loop", "del", "end", "done", "failed"}
       /\ pc[p] = "del" => cmd[p].op = "rm" /\ var[p] \in Var
       /\ snap[p] \subseteq Var /\ gone[p] \subseteq Var
       /\ i[p] \in 0 .. Len(Entry) + 1
       /\ var[p] \in Var \cup {Zero, Garbage}
       /\ line[p] \in (Var \cup {Zero, Garbage}) \X (Var \cup {Zero, Garbage})
  /\ mishap \in [Proc -> BOOLEAN]

(* "Does it exactly match, then delete it" (uefivar.c:235): a variable     *)
(* disappears only because a command is removing one of exactly its name,  *)
(* although the search is by prefix and the store changes underneath.      *)
OnlyNamedDeleted ==
  [][\A v \in store \ store' :
       \E p \in Proc : pc[p] = "del" /\ cmd[p].op = "rm" /\ Arg(p) = v.name]_vars

(* When a removal of a name is over and nothing but other commands got in  *)
(* its way, every variable that had the name when it began has been gone   *)
(* at some moment since: under all guids, whoever removed it.              *)
RmComplete ==
  \A p \in Proc :
    cmd[p].op = "rm" /\ pc[p] = "end" /\ ~mishap[p] =>
      {v \in snap[p] : v.name = Arg(p)} \subseteq gone[p]

(* A printed line describes the variable whose entry it is printed for.    *)
ListsItsEntries == \A p \in Proc : line[p][1] = line[p][2]

=============================================================================
