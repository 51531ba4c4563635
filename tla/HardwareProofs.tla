--------------------------- MODULE HardwareProofs --------------------------
(***************************************************************************)
(* The proofs about the programs that drive firmware and hardware.         *)
(* uefivar -r never removes a variable of another name, and removes every  *)
(* variable of the name it was given, for every set of names and variables *)
(* and any number of commands running at once.  The programs of PortTools  *)
(* do what they are for, for every company of programs, with the kernel's  *)
(* drivers, on one processor or on one each.                               *)
(***************************************************************************)
EXTENDS UefiVar, PortTools, SequenceTheorems, FiniteSetTheorems, TLAPS

(***************************************************************************)
(* uefivar.                                                                *)
(***************************************************************************)
(* What a command holds between the comparison of uefivar.c:236 and the    *)
(* write of line 241: others cannot change its arguments or its copy.      *)
Matched(p) ==
  pc[p] = "del" => cmd[p].op = "rm" /\ var[p].name = Arg(p)

MatchInv ==
  /\ DOMAIN pc = Proc /\ DOMAIN cmd = Proc /\ DOMAIN var = Proc
  /\ \A p \in Proc : Matched(p)

LEMMA InitMatch == Init => MatchInv
BY DEF Init, MatchInv, Matched, Command

(* A step of a command leaves the others' pc, arguments and copies alone,  *)
(* and enters "del" only with a copy of exactly the name in its argument.  *)
LEMMA StepMatch ==
  ASSUME MatchInv, NEW p \in Proc, Step(p)
  PROVE  MatchInv'
<1> USE DEF MatchInv, Matched, Goto, Arg
<1>1. CASE Scan(p)
  BY <1>1 DEF Scan
<1>2. CASE RmEntry(p)
  <2> DEFINE v == Entry[i[p]]
  <2>1. CASE GetOk(p, v) /\ Candidate(p, v) /\ Goto(p, IF Exact(p, v) THEN "del" ELSE "loop")
    BY <1>2, <2>1 DEF RmEntry, GetOk, Exact
  <2>2. CASE (GetNone(p, v) \/ GetShort(p, v)) /\ UNCHANGED pc
    BY <1>2, <2>2 DEF RmEntry, GetNone, GetShort
  <2>3. CASE UNCHANGED <<pc, var, mishap>>
    BY <1>2, <2>3 DEF RmEntry
  <2> QED BY <1>2, <2>1, <2>2, <2>3 DEF RmEntry
<1>3. CASE Del(p)
  BY <1>3 DEF Del
<1>4. CASE DelFails(p)
  BY <1>4 DEF DelFails
<1>5. CASE LsEntry(p)
  <2>1. pc[p] = "loop" /\ UNCHANGED <<pc, cmd>>
    BY <1>5 DEF LsEntry
  <2>2. /\ DOMAIN var' = Proc
        /\ \A q \in Proc : q # p => var'[q] = var[q]
    BY <1>5 DEF LsEntry, GetOk, GetNone, GetShort
  <2> QED BY <2>1, <2>2
<1>6. CASE EndLoop(p)
  BY <1>6 DEF EndLoop
<1>7. CASE EndName(p)
  <2>1. /\ UNCHANGED var /\ pc[p] = "end"
        /\ DOMAIN cmd' = Proc /\ DOMAIN pc' = Proc
        /\ pc'[p] # "del"
        /\ \A q \in Proc : q # p => cmd'[q] = cmd[q] /\ pc'[q] = pc[q]
    BY <1>7 DEF EndName
  <2> QED BY <2>1
<1>8. CASE Set(p)
  BY <1>8 DEF Set
<1> QED
  BY <1>1, <1>2, <1>3, <1>4, <1>5, <1>6, <1>7, <1>8 DEF Step

LEMMA NextMatch == MatchInv /\ [Next]_vars => MatchInv'
<1> SUFFICES ASSUME MatchInv, [Next]_vars PROVE MatchInv'
  OBVIOUS
<1>1. CASE \E p \in Proc : Step(p)
  BY <1>1, StepMatch
<1>2. CASE UNCHANGED vars
  BY <1>2 DEF MatchInv, Matched, Arg, vars
<1> QED BY <1>1, <1>2 DEF Next, Finished

(* Every state of every run satisfies MatchInv.                            *)
THEOREM MatchInvariant == Spec => []MatchInv
BY InitMatch, NextMatch, PTL DEF Spec

(* Only Del removes a variable, and it removes the one that was compared.  *)
LEMMA OnlyDelDeletes ==
  ASSUME MatchInv, Next, NEW v \in store \ store'
  PROVE  \E p \in Proc : pc[p] = "del" /\ cmd[p].op = "rm" /\ Arg(p) = v.name
<1>1. PICK p \in Proc : Step(p)
  BY DEF Next, Finished, vars
<1>2. Del(p)
  BY <1>1 DEF Step, Scan, RmEntry, DelFails, LsEntry, EndLoop, EndName, Set
<1>3. pc[p] = "del" /\ v = var[p]
  BY <1>2 DEF Del
<1> QED BY <1>3 DEF MatchInv, Matched

(* uefivar.c:228-244 with the store changing underneath: a variable that   *)
(* disappears has exactly the name some -r command is working on.          *)
THEOREM DeletesOnlyNamed == Spec => OnlyNamedDeleted
<1> DEFINE A == \A v \in store \ store' :
                  \E p \in Proc : pc[p] = "del" /\ cmd[p].op = "rm" /\ Arg(p) = v.name
<1>1. MatchInv /\ [Next]_vars => [A]_vars
  BY OnlyDelDeletes
<1>2. Spec => [][A]_vars
  BY <1>1, MatchInvariant, PTL DEF Spec
<1> QED BY <1>2 DEF OnlyNamedDeleted

-----------------------------------------------------------------------------
(* The order of the directory.  A set of places has a first one: of the    *)
(* sets {y \in S : y <= x} one is least under inclusion.                   *)
LEMMA MinExists ==
  ASSUME NEW S \in SUBSET Nat, S # {}
  PROVE  \E x \in S : \A y \in S : x <= y
<1> DEFINE Below(x) == S \cap (0 .. x)
           Belows == {Below(x) : x \in S}
<1>1. \A x \in S : Below(x) \in SUBSET Nat /\ IsFiniteSet(Below(x))
  <2> TAKE x \in S
  <2>1. IsFiniteSet(0 .. x)
    BY FS_Interval
  <2> QED BY <2>1, FS_Subset
<1>2. Belows \subseteq FiniteSubsetsOf(Nat) /\ Belows # {}
  BY <1>1 DEF FiniteSubsetsOf
<1>3. PICK T \in Belows : \A U \in Belows : <<U, T>> \notin StrictSubsetOrdering(Nat)
  <2> HIDE DEF Belows
  <2> QED BY <1>2, FS_StrictSubsetOrderingWellFounded, WFMin
<1>4. PICK x \in S : T = Below(x)
  BY <1>3
<1>5. \A y \in S : x <= y
  <2> SUFFICES ASSUME NEW y \in S, y < x PROVE FALSE
    OBVIOUS
  <2>1. Below(y) \subseteq T /\ x \in T /\ x \notin Below(y)
    BY <1>4
  <2>2. <<Below(y), T>> \in StrictSubsetOrdering(Nat)
    BY <2>1, <1>4 DEF StrictSubsetOrdering
  <2> QED BY <2>2, <1>3
<1> QED BY <1>5

LEMMA Places == Len(Entry) \in Nat /\ DOMAIN Entry = 1 .. Len(Entry)
BY EntryAssumption, LenProperties

(* The next entry is a place behind k, and no entry of s behind k is       *)
(* passed over.                                                            *)
LEMMA AfterNext ==
  ASSUME NEW s, NEW k \in Nat
  PROVE  /\ After(s, k) \in 1 .. Len(Entry) + 1
         /\ \A j \in DOMAIN Entry : j > k /\ Entry[j] \in s => j >= After(s, k)
<1> DEFINE later == {j \in DOMAIN Entry : j > k /\ Entry[j] \in s}
<1>1. CASE later = {}
  <2>1. After(s, k) = Len(Entry) + 1
    BY <1>1 DEF After
  <2> QED BY <1>1, <2>1, Places
<1>2. CASE later # {}
  <2>1. later \in SUBSET Nat
    BY Places
  <2>2. \E j \in later : \A m \in later : j <= m
    <3> HIDE DEF later
    <3> QED BY <1>2, <2>1, MinExists
  <2>3. After(s, k) = CHOOSE j \in later : \A m \in later : j <= m
    BY <1>2 DEF After
  <2>4. After(s, k) \in later /\ \A m \in later : After(s, k) <= m
    <3> HIDE DEF later
    <3> QED BY <2>2, <2>3
  <2> QED BY <2>4, Places
<1> QED BY <1>1, <1>2

-----------------------------------------------------------------------------
(* Type correctness.                                                       *)
Domains ==
  /\ DOMAIN cmd = Proc /\ DOMAIN pc = Proc /\ DOMAIN snap = Proc
  /\ DOMAIN gone = Proc /\ DOMAIN i = Proc /\ DOMAIN var = Proc
  /\ DOMAIN line = Proc /\ mishap \in [Proc -> BOOLEAN]

Typed(p) ==
  /\ cmd[p] \in Command
  /\ pc[p] \in {"start", "loop", "del", "end", "done", "failed"}
  /\ pc[p] = "del" => cmd[p].op = "rm" /\ var[p] \in Var
  /\ snap[p] \subseteq Var /\ gone[p] \subseteq Var
  /\ i[p] \in 0 .. Len(Entry) + 1
  /\ pc[p] \in {"loop", "del"} => i[p] >= 1       \* names[i] is an entry
  /\ var[p] \in Var \cup {Zero, Garbage}
  /\ line[p] \in (Var \cup {Zero, Garbage}) \X (Var \cup {Zero, Garbage})

TypeInv == store \subseteq Var /\ Domains /\ \A p \in Proc : Typed(p)

LEMMA InitTypes == Init => TypeInv
<1> SUFFICES ASSUME Init PROVE TypeInv
  OBVIOUS
<1>1. \A p \in Proc : cmd[p] \in Command
  BY DEF Init
<1>2. \A p \in Proc :
        /\ pc[p] = "start" /\ snap[p] = {} /\ gone[p] = {} /\ i[p] = 0
        /\ var[p] = Garbage /\ line[p] = <<Garbage, Garbage>>
  BY DEF Init
<1> QED BY <1>1, <1>2, Places DEF Init, TypeInv, Typed, Domains

(* The names still to do are a command line again.                         *)
LEMMA NamesLeft ==
  ASSUME NEW c \in Command, Len(c.names) > 1
  PROVE  [c EXCEPT !.names = Tail(@)] \in Command
<1>1. c.names # <<>>
  <2>1. Len(<<>>) = 0
    BY EmptySeq
  <2> QED BY <2>1
<1>2. c \in [op : {"rm"}, names : {<<n>> : n \in Name} \cup (Name \X Name), new : {Zero}]
  BY <1>1 DEF Command
<1>3. c.names \notin {<<n>> : n \in Name}
  <2> SUFFICES ASSUME NEW n \in Name, c.names = <<n>> PROVE FALSE
    OBVIOUS
  <2>1. Len(<<n>>) = 1
    OBVIOUS
  <2> QED BY <2>1
<1>4. PICK n \in Name, m \in Name : c.names = <<n, m>>
  BY <1>2, <1>3
<1>5. Tail(c.names) = <<m>>
  BY <1>4
<1> QED BY <1>2, <1>5 DEF Command

LEMMA StepTypes ==
  ASSUME TypeInv, NEW p \in Proc, Step(p)
  PROVE  TypeInv'
<1> USE DEF TypeInv, Typed, Domains, Goto
<1>1. CASE Scan(p)
  <2>1. After(store, 0) \in 1 .. Len(Entry) + 1 /\ Len(Entry) + 1 \in 1 .. Len(Entry) + 1
    BY AfterNext, Places
  <2>2. i'[p] \in 1 .. Len(Entry) + 1
    BY <1>1, <2>1 DEF Scan
  <2>3. /\ UNCHANGED <<store, cmd, var, line>>
        /\ pc' = [pc EXCEPT ![p] = "loop"]
        /\ snap' = [snap EXCEPT ![p] = store] /\ gone' = [gone EXCEPT ![p] = {}]
    BY <1>1 DEF Scan
  <2>4. DOMAIN i' = Proc /\ \A q \in Proc \ {p} : i'[q] = i[q]
    BY <1>1 DEF Scan
  <2>5. mishap' \in [Proc -> BOOLEAN]
    BY <1>1 DEF Scan
  <2>6. ASSUME NEW q \in Proc PROVE Typed(q)'
    <3>1. CASE q = p
      BY <2>2, <2>3, <3>1
    <3>2. CASE q # p
      BY <2>3, <2>4, <3>2
    <3> QED BY <3>1, <3>2
  <2> QED BY <2>3, <2>4, <2>5, <2>6
<1>2. CASE RmEntry(p) \/ LsEntry(p)
  <2> DEFINE v == Entry[i[p]]
  <2>1. i[p] \in Nat /\ v \in Var
    <3>1. pc[p] = "loop" /\ i[p] <= Len(Entry)
      BY <1>2, Places DEF RmEntry, LsEntry, Over
    <3>2. i[p] \in DOMAIN Entry
      BY <3>1, Places
    <3> QED BY <3>2, Places DEF Var
  <2>2. i' = [i EXCEPT ![p] = After(snap[p], i[p])]
    BY <1>2 DEF RmEntry, LsEntry, Advance
  <2>3. i'[p] \in 1 .. Len(Entry) + 1
    BY <2>1, <2>2, AfterNext
  <2>4. /\ DOMAIN var' = Proc /\ var'[p] \in Var \cup {Zero, Garbage}
        /\ \A q \in Proc \ {p} : var'[q] = var[q]
    BY <1>2 DEF RmEntry, LsEntry, GetOk, GetNone, GetShort
  <2>5. mishap' \in [Proc -> BOOLEAN]
    BY <1>2 DEF RmEntry, LsEntry, GetOk, GetNone, GetShort
  <2>6. CASE RmEntry(p)
    <3>1. /\ UNCHANGED <<store, cmd, snap, line, gone>>
          /\ pc[p] = "loop" /\ cmd[p].op = "rm"
      BY <2>6 DEF RmEntry
    <3>2. \/ GetOk(p, v) /\ Goto(p, IF Exact(p, v) THEN "del" ELSE "loop")
          \/ UNCHANGED pc
      BY <2>6 DEF RmEntry
    <3>3. /\ DOMAIN pc' = Proc /\ \A q \in Proc \ {p} : pc'[q] = pc[q]
          /\ pc'[p] = "loop" \/ (pc'[p] = "del" /\ var'[p] = v)
      BY <3>1, <3>2 DEF GetOk
    <3>4. ASSUME NEW q \in Proc PROVE Typed(q)'
      <4>1. CASE q = p
        BY <2>1, <2>3, <2>4, <3>1, <3>3, <4>1
      <4>2. CASE q # p
        BY <2>2, <2>4, <3>1, <3>3, <4>2
      <4> QED BY <4>1, <4>2
    <3> QED BY <2>2, <2>4, <2>5, <3>1, <3>3, <3>4
  <2>7. CASE LsEntry(p)
    <3>1. /\ UNCHANGED <<store, cmd, pc, snap, gone>>
          /\ pc[p] = "loop"
      BY <2>7 DEF LsEntry
    <3>2. DOMAIN line' = Proc /\ \A q \in Proc \ {p} : line'[q] = line[q]
      BY <2>7 DEF LsEntry
    <3>3. line'[p] \in (Var \cup {Zero, Garbage}) \X (Var \cup {Zero, Garbage})
      <4>1. line'[p] = line[p] \/ line'[p] = <<v, var'[p]>>
        BY <2>7 DEF LsEntry
      <4> QED BY <2>1, <2>4, <4>1
    <3>4. ASSUME NEW q \in Proc PROVE Typed(q)'
      <4>1. CASE q = p
        BY <2>3, <2>4, <3>1, <3>3, <4>1
      <4>2. CASE q # p
        BY <2>2, <2>4, <3>1, <3>2, <4>2
      <4> QED BY <4>1, <4>2
    <3> QED BY <2>2, <2>4, <2>5, <3>1, <3>2, <3>4
  <2> QED BY <1>2, <2>6, <2>7
<1>3. CASE Del(p)
  BY <1>3 DEF Del
<1>4. CASE DelFails(p)
  BY <1>4 DEF DelFails
<1>5. CASE EndLoop(p)
  BY <1>5 DEF EndLoop
<1>6. CASE EndName(p)
  <2>1. CASE Len(cmd[p].names) > 1
    <3>1. [cmd[p] EXCEPT !.names = Tail(@)] \in Command
      BY <2>1, NamesLeft
    <3>2. /\ DOMAIN cmd' = Proc /\ cmd'[p] \in Command /\ pc'[p] = "start"
          /\ DOMAIN pc' = Proc
          /\ \A q \in Proc \ {p} : cmd'[q] = cmd[q] /\ pc'[q] = pc[q]
      BY <1>6, <2>1, <3>1 DEF EndName
    <3> QED BY <1>6, <3>2 DEF EndName
  <2>2. CASE ~(Len(cmd[p].names) > 1)
    BY <1>6, <2>2 DEF EndName
  <2> QED BY <2>1, <2>2
<1>7. CASE Set(p)
  <2>1. cmd[p].new \in Var
    BY <1>7 DEF Set, Command
  <2> QED BY <1>7, <2>1 DEF Set
<1> QED
  BY <1>1, <1>2, <1>3, <1>4, <1>5, <1>6, <1>7 DEF Step

LEMMA NextTypes == TypeInv /\ [Next]_vars => TypeInv'
<1> SUFFICES ASSUME TypeInv, [Next]_vars PROVE TypeInv'
  OBVIOUS
<1>1. CASE \E p \in Proc : Step(p)
  BY <1>1, StepTypes
<1>2. CASE UNCHANGED vars
  BY <1>2 DEF TypeInv, Typed, Domains, vars
<1> QED BY <1>1, <1>2 DEF Next, Finished

LEMMA TypesHold == Spec => []TypeInv
BY InitTypes, NextTypes, PTL DEF Spec

(* uefivar.c:209-253: the commands' variables keep their types; nothing    *)
(* outside the directory or the command line is ever worked on.            *)
THEOREM TypeCorrect == Spec => []TypeOK
<1>1. TypeInv => TypeOK
  BY DEF TypeInv, Typed, Domains, TypeOK
<1> QED BY <1>1, TypesHold, PTL

-----------------------------------------------------------------------------
(* Completeness of a removal.  Every variable that bore the name when the  *)
(* directory was read has been gone since, or is still ahead in the list,  *)
(* or is the copy about to be written to del_var.                          *)
Ahead(p, v) == \E n \in DOMAIN Entry : Entry[n] = v /\ n >= i[p]

Handled(p, v) ==
  \/ v \in gone[p]
  \/ pc[p] \in {"loop", "del"} /\ Ahead(p, v)
  \/ pc[p] = "del" /\ v = var[p]

Kept(p) == snap[p] \subseteq store \cup gone[p]

Removing(p) ==
  cmd[p].op = "rm" /\ pc[p] \in {"loop", "del", "end"} /\ mishap[p] = FALSE

Complete(p) ==
  /\ Kept(p)
  /\ Removing(p) => \A v \in snap[p] : v.name = Arg(p) => Handled(p, v)

RmInv == \A p \in Proc : Complete(p)

(* A step of another command leaves p's locals alone and may only add to   *)
(* what is gone.                                                           *)
LEMMA Frame ==
  ASSUME TypeInv, NEW p \in Proc, NEW q \in Proc, q # p, Step(q)
  PROVE  /\ cmd'[p] = cmd[p] /\ pc'[p] = pc[p] /\ snap'[p] = snap[p]
         /\ i'[p] = i[p] /\ var'[p] = var[p] /\ mishap'[p] = mishap[p]
         /\ gone[p] \subseteq gone'[p]
         /\ store \subseteq store' \cup gone'[p]
<1> USE DEF TypeInv, Domains, Goto
<1>1. CASE Scan(q)
  BY <1>1 DEF Scan
<1>2. CASE RmEntry(q)
  BY <1>2 DEF RmEntry, GetOk, GetNone, GetShort, Advance
<1>3. CASE Del(q)
  BY <1>3 DEF Del
<1>4. CASE DelFails(q)
  BY <1>4 DEF DelFails
<1>5. CASE LsEntry(q)
  BY <1>5 DEF LsEntry, GetOk, GetNone, GetShort, Advance
<1>6. CASE EndLoop(q)
  BY <1>6 DEF EndLoop
<1>7. CASE EndName(q)
  BY <1>7 DEF EndName
<1>8. CASE Set(q)
  BY <1>8 DEF Set
<1> QED
  BY <1>1, <1>2, <1>3, <1>4, <1>5, <1>6, <1>7, <1>8 DEF Step

LEMMA OthersComplete ==
  ASSUME TypeInv, NEW p \in Proc, Complete(p), NEW q \in Proc, q # p, Step(q)
  PROVE  Complete(p)'
BY Frame DEF Complete, Kept, Removing, Handled, Ahead, Arg


LEMMA OwnComplete ==
  ASSUME TypeInv, NEW p \in Proc, Complete(p), Step(p)
  PROVE  Complete(p)'
<1> USE DEF TypeInv, Domains, Goto, Complete
<1>1. CASE Scan(p)
  <2>1. snap'[p] = store /\ store' = store /\ pc'[p] = "loop"
    BY <1>1 DEF Scan
  <2>2. i'[p] = After(store, 0) \/ mishap'[p] = TRUE
    BY <1>1 DEF Scan
  <2>3. \A v \in snap'[p] : i'[p] = After(store, 0) => Ahead(p, v)'
    <3> SUFFICES ASSUME NEW v \in store, i'[p] = After(store, 0) PROVE Ahead(p, v)'
      BY <2>1
    <3>1. PICK n \in DOMAIN Entry : Entry[n] = v
      BY DEF Var
    <3>2. n >= After(store, 0)
      BY <3>1, AfterNext, Places
    <3> QED BY <3>1, <3>2 DEF Ahead
  <2> QED BY <2>1, <2>2, <2>3 DEF Kept, Removing, Handled
<1>2. CASE RmEntry(p)
  <2> DEFINE w == Entry[i[p]]
  <2>1. /\ pc[p] = "loop" /\ cmd[p].op = "rm"
        /\ UNCHANGED <<store, cmd, snap, gone>>
        /\ i'[p] = After(snap[p], i[p]) /\ i[p] \in Nat
    BY <1>2 DEF RmEntry, Advance, Typed
  (* What is ahead stays ahead, but for the entry that is looked at. *)
  <2>2. ASSUME NEW v \in snap[p], Ahead(p, v), v # w PROVE Ahead(p, v)'
    <3>1. PICK n \in DOMAIN Entry : Entry[n] = v /\ n >= i[p]
      BY <2>2 DEF Ahead
    <3>2. n > i[p]
      BY <2>1, <2>2, <3>1, Places
    <3>3. n >= After(snap[p], i[p])
      BY <2>1, <3>1, <3>2, AfterNext
    <3> QED BY <2>1, <3>1, <3>3 DEF Ahead
  (* The entry itself is taken up, is gone, or has another name. *)
  <2>3. \/ mishap'[p] = TRUE
        \/ w.name # Arg(p)
        \/ w \notin store
        \/ pc'[p] = "del" /\ var'[p] = w
    <3>1. CASE ~Candidate(p, w)
      BY <3>1 DEF Candidate
    <3>2. CASE GetOk(p, w) /\ Goto(p, IF Exact(p, w) THEN "del" ELSE "loop")
      BY <3>2 DEF GetOk, Exact
    <3>3. CASE GetNone(p, w) \/ GetShort(p, w)
      BY <3>3 DEF GetNone, GetShort
    <3> QED BY <1>2, <3>1, <3>2, <3>3 DEF RmEntry
  <2>4. pc'[p] \in {"loop", "del"}
    BY <1>2, <2>1 DEF RmEntry
  <2>5. mishap'[p] = TRUE \/ mishap'[p] = mishap[p]
    BY <1>2 DEF RmEntry, GetOk, GetNone, GetShort
  <2> QED
    BY <2>1, <2>2, <2>3, <2>4, <2>5 DEF Kept, Removing, Handled, Arg
<1>3. CASE Del(p)
  BY <1>3 DEF Del, Kept, Removing, Handled, Ahead, Arg
<1>4. CASE DelFails(p)
  <2>1. mishap'[p] = TRUE \/ (mishap'[p] = mishap[p] /\ var[p] \notin store)
    BY <1>4 DEF DelFails
  <2> QED BY <1>4, <2>1 DEF DelFails, Kept, Removing, Handled, Ahead, Arg
<1>5. CASE LsEntry(p)
  BY <1>5 DEF LsEntry, Kept, Removing
<1>6. CASE EndLoop(p)
  <2>1. \A v : ~Ahead(p, v)
    BY <1>6, Places DEF EndLoop, Over, Ahead, Typed
  <2> QED BY <1>6, <2>1 DEF EndLoop, Kept, Removing, Handled, Arg
<1>7. CASE EndName(p)
  BY <1>7 DEF EndName, Kept, Removing
<1>8. CASE Set(p)
  BY <1>8 DEF Set, Kept, Removing
<1> QED
  BY <1>1, <1>2, <1>3, <1>4, <1>5, <1>6, <1>7, <1>8 DEF Step

LEMMA NextComplete == TypeInv /\ RmInv /\ [Next]_vars => RmInv'
<1> SUFFICES ASSUME TypeInv, RmInv, [Next]_vars, NEW p \in Proc PROVE Complete(p)'
  BY DEF RmInv
<1>1. Complete(p)
  BY DEF RmInv
<1>2. ASSUME NEW q \in Proc, Step(q) PROVE Complete(p)'
  BY <1>1, <1>2, OwnComplete, OthersComplete
<1>3. CASE UNCHANGED vars
  BY <1>1, <1>3 DEF Complete, Kept, Removing, Handled, Ahead, Arg, vars
<1> QED BY <1>2, <1>3 DEF Next, Finished

(* uefivar.c:209-253: a removal that met no failure of its own has removed *)
(* every variable of the name, although others remove and create some of   *)
(* the same names between its reading of the directory and its writes.     *)
THEOREM RemovalIsComplete == Spec => []RmComplete
<1>1. Init => RmInv
  BY DEF Init, RmInv, Complete, Kept, Removing
<1>2. TypeInv /\ RmInv => RmComplete
  <2> SUFFICES ASSUME TypeInv, RmInv, NEW p \in Proc,
                      cmd[p].op = "rm", pc[p] = "end", ~mishap[p],
                      NEW v \in snap[p], v.name = Arg(p)
               PROVE  v \in gone[p]
    BY DEF RmComplete
  <2>1. mishap[p] \in BOOLEAN
    BY DEF TypeInv, Domains
  <2>2. mishap[p] = FALSE
    BY <2>1, Zenon
  <2> QED BY <2>2 DEF RmInv, Complete, Removing, Handled
<1> QED BY <1>1, <1>2, TypesHold, NextComplete, PTL DEF Spec

-----------------------------------------------------------------------------
(***************************************************************************)
(* The port tools.  A program is a fixed text: what an instruction of it   *)
(* may be (KbcCode, CmosCode ...) bounds what its step can do to a device. *)
(***************************************************************************)
Programs == Tools \cup Kernel

(***************************************************************************)
(* What a program for a device may contain.                                *)
(***************************************************************************)
KbcCode(c) ==
  /\ c.op \in {"wait", "ifbusy", "goto", "out", "cli", "sti", "sync"}
  /\ c.op = "out" => c.port \in {"0x60", "0x64"} /\ c.val \in Byte
  /\ c.op \in {"ifbusy", "goto"} => c.val = 1

CmosCode(c) ==
  /\ c.op \in {"in", "out", "outnot", "cli", "sti"}
  /\ c.op = "out" => c.port = "0x70" /\ c.val \in Cell
  /\ c.op \in {"in", "outnot"} => c.port = "0x71"
  /\ c.op = "outnot" => c.val = 255

PitCode(c) ==
  /\ c.op \in {"in", "out", "falls"}
  /\ c.op = "out" => c.port \in {"0x42", "0x43", "0x61"} /\ c.val \in Byte
  /\ c.op = "in" => c.port = "0x61"

DacCode(c) ==
  /\ c.op \in {"out", "falls"}
  /\ c.op = "out" => c.port \in {"0x3c8", "0x3c9"} /\ c.val \in Byte

DacSet == {Falls} \cup {Out(p, v) : p \in {"0x3c8", "0x3c9"}, v \in Byte}

PowerCode(c) == c.op \in {"load", "join", "store", "storeif"}

ResetCode(c) ==
  /\ c.op \in {"sync", "out"}
  /\ c.op = "out" => c.port = "0xcf9" /\ c.val \in Byte

Sound(t, c) ==
  /\ t \in KbcUsers => KbcCode(c)
  /\ t \in CmosUsers => CmosCode(c)
  /\ t \in Beepers => PitCode(c)
  /\ t \in DacUsers => DacCode(c)
  /\ t = "halt" => PowerCode(c)
  /\ t = "reboot" => ResetCode(c)

LEMMA Texts ==
  /\ Prog["keycode"] = Keycode /\ Prog["led"] = Led /\ Prog["flash_led"] = FlashLed
  /\ Prog["atkbd"] = AtKbd /\ Prog["cmos-reset"] = CmosReset
  /\ Prog["cmos-dump"] = CmosDump /\ Prog["rtc"] = RtcDriver /\ Prog["vga"] = Vga
  /\ Prog["flash"] = Flash /\ Prog["beep"] = Beep /\ Prog["beep_asm"] = BeepAsm
  /\ Prog["halt"] = Halt /\ Prog["reboot"] = Reboot /\ Prog["reboot_keyb"] = RebootKeyb
BY DEF Prog, Tools, Kernel

LEMMA Constants ==
  /\ KEYS \in 1 .. 10 /\ CELLS \in 1 .. 128 /\ TONES \in 1 .. 44 /\ CALLS \in Nat
  /\ PAINTED \in 1 .. 128 /\ FLASHED \in 1 .. 64
BY BoundsAssumption

(***************************************************************************)
(* The texts, instruction by instruction.                                  *)
(***************************************************************************)
LEMMA CodeTypes == \A h \in 1 .. 2 * KEYS : Codes[h] \in Byte
<1> SUFFICES ASSUME NEW h \in 1 .. 2 * KEYS PROVE Codes[h] \in Byte
  OBVIOUS
<1>1. (h + 1) \div 2 \in 1 .. 10
  BY BoundsAssumption
<1>2. \A j \in 1 .. 10 : hello[j] \in 0 .. 127
  BY DEF hello
<1> QED BY <1>1, <1>2, BoundsAssumption DEF Codes, Byte

LEMMA KeycodeText ==
  /\ Len(Keycode) = 8 * KEYS
  /\ \A k \in 1 .. 8 * KEYS :
       /\ (k - 1) \div 4 + 1 \in 1 .. 2 * KEYS
       /\ (k - 1) % 4 = 0 => Keycode[k] = Wait
       /\ (k - 1) % 4 = 1 => Keycode[k] = Out("0x64", 210)
       /\ (k - 1) % 4 = 2 => Keycode[k] = Wait
       /\ (k - 1) % 4 = 3 => Keycode[k] = Out("0x60", Codes[(k - 1) \div 4 + 1])
<1> KEYS \in Nat
  BY BoundsAssumption
<1>1. Keycode = [k \in 1 .. 8 * KEYS |->
                   PushKeycode(Codes[(k - 1) \div 4 + 1])[((k - 1) % 4) + 1]]
  BY DEF Keycode, Times
<1>2. Len(Keycode) = 8 * KEYS
  BY <1>1
<1> SUFFICES ASSUME NEW k \in 1 .. 8 * KEYS
             PROVE  /\ (k - 1) \div 4 + 1 \in 1 .. 2 * KEYS
                    /\ (k - 1) % 4 = 0 => Keycode[k] = Wait
                    /\ (k - 1) % 4 = 1 => Keycode[k] = Out("0x64", 210)
                    /\ (k - 1) % 4 = 2 => Keycode[k] = Wait
                    /\ (k - 1) % 4 = 3 =>
                         Keycode[k] = Out("0x60", Codes[(k - 1) \div 4 + 1])
  BY <1>2
<1>3. (k - 1) \div 4 + 1 \in 1 .. 2 * KEYS
  OBVIOUS
<1>4. (k - 1) % 4 = 0 => Keycode[k] = Wait
  BY <1>1 DEF PushKeycode
<1>5. (k - 1) % 4 = 1 => Keycode[k] = Out("0x64", 210)
  BY <1>1 DEF PushKeycode
<1>6. (k - 1) % 4 = 2 => Keycode[k] = Wait
  BY <1>1 DEF PushKeycode
<1>7. (k - 1) % 4 = 3 => Keycode[k] = Out("0x60", Codes[(k - 1) \div 4 + 1])
  BY <1>1 DEF PushKeycode
<1> QED BY <1>3, <1>4, <1>5, <1>6, <1>7

LEMMA LedText ==
  /\ Len(Led) = 9
  /\ Led[1] = Wait /\ Led[2] = Out("0x60", 237) /\ Led[3] = Wait /\ Led[4] = Out("0x60", 5)
  /\ Led[5] = Wait /\ Led[6] = Out("0x60", 237) /\ Led[7] = Wait /\ Led[8] = Out("0x60", 0)
  /\ Led[9] = JumpTo(1)
BY DEF Led, SetLeds

LEMMA FlashLedText ==
  /\ Len(FlashLed) = 9
  /\ FlashLed[1] = Wait /\ FlashLed[2] = Out("0x60", 237)
  /\ FlashLed[3] = Wait /\ FlashLed[4] = Out("0x60", 5)
  /\ FlashLed[5] = IfBusy(1) /\ FlashLed[6] = Out("0x60", 237)
  /\ FlashLed[7] = Wait /\ FlashLed[8] = Out("0x60", 0) /\ FlashLed[9] = JumpTo(1)
BY DEF FlashLed, SetLeds

LEMMA AtKbdText ==
  /\ Len(AtKbd) = 8 * CALLS
  /\ \A k \in 1 .. 8 * CALLS :
       /\ (k - 1) % 8 \in {0, 4} => AtKbd[k] = Cli
       /\ (k - 1) % 8 \in {1, 5} => AtKbd[k] = Wait
       /\ (k - 1) % 8 = 2 => AtKbd[k] = Out("0x60", 237)
       /\ (k - 1) % 8 = 6 => AtKbd[k] = Out("0x60", 2)
       /\ (k - 1) % 8 \in {3, 7} => AtKbd[k] = Sti
<1> CALLS \in Nat
  BY BoundsAssumption
<1>1. AtKbd = [k \in 1 .. 8 * CALLS |->
                 <<Cli, Wait, Out("0x60", 237), Sti,
                   Cli, Wait, Out("0x60", 2), Sti>>[((k - 1) % 8) + 1]]
  BY DEF AtKbd, Times
<1> QED BY <1>1

LEMMA CmosResetText ==
  /\ Len(CmosReset) = 10
  /\ CmosReset[1] = Cli /\ CmosReset[2] = Out("0x70", 46) /\ CmosReset[3] = In("0x71")
  /\ CmosReset[4] = Out("0x70", 46) /\ CmosReset[5] = OutNot("0x71")
  /\ CmosReset[6] = Out("0x70", 47) /\ CmosReset[7] = In("0x71")
  /\ CmosReset[8] = Out("0x70", 47) /\ CmosReset[9] = OutNot("0x71")
  /\ CmosReset[10] = Sti
BY DEF CmosReset, CmosInvert, CmosRead

LEMMA CmosDumpText ==
  /\ Len(CmosDump) = 2 * CELLS
  /\ \A k \in 1 .. 2 * CELLS :
       /\ (k - 1) % 2 = 0 => CmosDump[k] = Out("0x70", (k - 1) \div 2)
       /\ (k - 1) % 2 = 1 => CmosDump[k] = In("0x71")
<1> CELLS \in Nat
  BY BoundsAssumption
<1>1. CmosDump = [k \in 1 .. 2 * CELLS |->
                    CmosRead(((k - 1) \div 2) + 1 - 1)[((k - 1) % 2) + 1]]
  BY DEF CmosDump, Times
<1> QED BY <1>1 DEF CmosRead

LEMMA RtcText ==
  /\ Len(RtcDriver) = 4 * CALLS
  /\ \A k \in 1 .. 4 * CALLS :
       /\ (k - 1) % 4 = 0 => RtcDriver[k] = Cli
       /\ (k - 1) % 4 = 1 => RtcDriver[k] = Out("0x70", 0)
       /\ (k - 1) % 4 = 2 => RtcDriver[k] = In("0x71")
       /\ (k - 1) % 4 = 3 => RtcDriver[k] = Sti
<1> CALLS \in Nat
  BY BoundsAssumption
<1>1. RtcDriver = [k \in 1 .. 4 * CALLS |-> RtcRead[((k - 1) % 4) + 1]]
  BY DEF RtcDriver, Times
<1>2. /\ RtcRead[1] = Cli /\ RtcRead[2] = Out("0x70", 0)
      /\ RtcRead[3] = In("0x71") /\ RtcRead[4] = Sti
  BY DEF RtcRead, CmosRead
<1> QED BY <1>1, <1>2

LEMMA PaintText ==
  ASSUME NEW n \in Nat, NEW r, NEW g, NEW b
  PROVE  /\ Paint(n, r, g, b) = [k \in 1 .. 4 * n |-> Paint(n, r, g, b)[k]]
         /\ Len(Paint(n, r, g, b)) = 4 * n
         /\ \A k \in 1 .. 4 * n :
              /\ (k - 1) % 4 = 0 => Paint(n, r, g, b)[k] = Out("0x3c8", (k - 1) \div 4)
              /\ (k - 1) % 4 = 1 => Paint(n, r, g, b)[k] = Out("0x3c9", r)
              /\ (k - 1) % 4 = 2 => Paint(n, r, g, b)[k] = Out("0x3c9", g)
              /\ (k - 1) % 4 = 3 => Paint(n, r, g, b)[k] = Out("0x3c9", b)
<1>1. Paint(n, r, g, b) = [k \in 1 .. 4 * n |->
                             SetVga(((k - 1) \div 4) + 1 - 1, r, g, b)[((k - 1) % 4) + 1]]
  BY DEF Paint, Times
<1> QED BY <1>1 DEF SetVga

LEMMA VgaText ==
  /\ Len(Vga) = 4 * PAINTED
  /\ \A k \in 1 .. 4 * PAINTED :
       /\ (k - 1) % 4 = 0 => Vga[k] = Out("0x3c8", (k - 1) \div 4)
       /\ (k - 1) % 4 = 1 => Vga[k] = Out("0x3c9", 128)
       /\ (k - 1) % 4 = 2 => Vga[k] = Out("0x3c9", 64)
       /\ (k - 1) % 4 = 3 => Vga[k] = Out("0x3c9", 32)
<1>1. PAINTED \in Nat
  BY Constants
<1>2. /\ Len(Paint(PAINTED, 128, 64, 32)) = 4 * PAINTED
      /\ \A k \in 1 .. 4 * PAINTED :
           /\ (k - 1) % 4 = 0 => Paint(PAINTED, 128, 64, 32)[k] = Out("0x3c8", (k - 1) \div 4)
           /\ (k - 1) % 4 = 1 => Paint(PAINTED, 128, 64, 32)[k] = Out("0x3c9", 128)
           /\ (k - 1) % 4 = 2 => Paint(PAINTED, 128, 64, 32)[k] = Out("0x3c9", 64)
           /\ (k - 1) % 4 = 3 => Paint(PAINTED, 128, 64, 32)[k] = Out("0x3c9", 32)
  BY <1>1, PaintText
<1> QED BY <1>2 DEF Vga

(* A part of flash: every fourth instruction selects a cell of its own.    *)
Fills(s, n) ==
  /\ s \in Seq(DacSet) /\ Len(s) = 4 * n
  /\ \A k \in 1 .. 4 * n : (k - 1) % 4 = 0 =>
       \E h \in 0 .. FLASHED - 1 : s[k] = Out("0x3c8", h)
  /\ \A k \in 1 .. 4 * n : (k - 1) % 4 # 0 =>
       \E v \in {0, 63} : s[k] = Out("0x3c9", v)

LEMMA FillText ==
  ASSUME NEW r \in {0, 63}, NEW g \in {0, 63}, NEW b \in {0, 63}
  PROVE  Fills(Fill(r, g, b), FLASHED)
<1> DEFINE s == Fill(r, g, b)
           n == FLASHED
<1>1. n \in Nat /\ n <= 64
  BY Constants
<1>2. /\ s = [k \in 1 .. 4 * n |-> s[k]] /\ Len(s) = 4 * n
      /\ \A k \in 1 .. 4 * n :
           /\ (k - 1) % 4 = 0 => s[k] = Out("0x3c8", (k - 1) \div 4)
           /\ (k - 1) % 4 = 1 => s[k] = Out("0x3c9", r)
           /\ (k - 1) % 4 = 2 => s[k] = Out("0x3c9", g)
           /\ (k - 1) % 4 = 3 => s[k] = Out("0x3c9", b)
  <2>1. s = Paint(n, r, g, b)
    BY DEF Fill
  <2> HIDE DEF s, n
  <2> QED BY <1>1, <2>1, PaintText
<1> HIDE DEF s, n
<1>3. ASSUME NEW k \in 1 .. 4 * n
      PROVE  /\ (k - 1) % 4 = 0 => \E h \in 0 .. n - 1 : s[k] = Out("0x3c8", h)
             /\ (k - 1) % 4 # 0 => \E v \in {0, 63} : s[k] = Out("0x3c9", v)
             /\ s[k] \in DacSet
  <2>1. (k - 1) \div 4 \in 0 .. n - 1
    BY <1>1
  <2>2. (k - 1) % 4 \in {0, 1, 2, 3}
    BY <1>1
  <2>3. (k - 1) % 4 = 0 => \E h \in 0 .. n - 1 : s[k] = Out("0x3c8", h)
    BY <1>2, <2>1
  <2>4. (k - 1) % 4 # 0 => \E v \in {0, 63} : s[k] = Out("0x3c9", v)
    BY <1>2, <2>2
  <2>5. \A h \in 0 .. n - 1 : h \in Byte
    BY <1>1 DEF Byte
  <2>6. 0 \in Byte /\ 63 \in Byte
    BY DEF Byte
  <2>7. s[k] \in DacSet
    BY <2>3, <2>4, <2>5, <2>6 DEF DacSet
  <2> QED BY <2>3, <2>4, <2>7
<1>4. s \in Seq(DacSet)
  <2>1. s \in [1 .. 4 * n -> DacSet]
    BY <1>2, <1>3
  <2> QED BY <1>1, <2>1, SeqDef
<1>5. Fills(s, n)
  BY <1>2, <1>3, <1>4 DEF Fills, n
<1> QED BY <1>5 DEF s, n

LEMMA FillMore ==
  ASSUME NEW s, NEW m \in Nat, Fills(s, m), NEW f, NEW n \in Nat, Fills(f, n)
  PROVE  Fills(s \o f, m + n)
<1>1. /\ s \in Seq(DacSet) /\ Len(s) = 4 * m
      /\ f \in Seq(DacSet) /\ Len(f) = 4 * n
  BY DEF Fills
<1>2. /\ s \o f \in Seq(DacSet) /\ Len(s \o f) = 4 * (m + n)
      /\ \A k \in 1 .. 4 * m : (s \o f)[k] = s[k]
      /\ \A k \in 1 .. 4 * n : (s \o f)[4 * m + k] = f[k]
  <2> DEFINE t == s \o f
  <2>1. /\ t \in Seq(DacSet) /\ Len(t) = Len(s) + Len(f)
        /\ \A k \in 1 .. Len(s) + Len(f) :
             t[k] = IF k <= Len(s) THEN s[k] ELSE f[k - Len(s)]
    BY <1>1, ConcatProperties
  <2> HIDE DEF t
  <2>2. Len(t) = 4 * (m + n)
    BY <1>1, <2>1
  <2>3. \A k \in 1 .. 4 * m : t[k] = s[k]
    BY <1>1, <2>1
  <2>4. ASSUME NEW k \in 1 .. 4 * n
        PROVE  t[4 * m + k] = f[k]
    <3>1. 4 * m + k \in 1 .. Len(s) + Len(f) /\ ~(4 * m + k <= Len(s))
      BY <1>1
    <3> QED BY <1>1, <2>1, <3>1
  <2> QED BY <2>1, <2>2, <2>3, <2>4 DEF t
<1>3. ASSUME NEW k \in 1 .. 4 * (m + n)
      PROVE  /\ (k - 1) % 4 = 0 => \E h \in 0 .. FLASHED - 1 : (s \o f)[k] = Out("0x3c8", h)
             /\ (k - 1) % 4 # 0 => \E v \in {0, 63} : (s \o f)[k] = Out("0x3c9", v)
  <2>1. CASE k <= 4 * m
    BY <2>1, <1>2 DEF Fills
  <2>2. CASE k > 4 * m
    <3> DEFINE j == k - 4 * m
    <3>1. j \in 1 .. 4 * n /\ k = 4 * m + j /\ (k - 1) % 4 = (j - 1) % 4
      BY <2>2
    <3>2. (s \o f)[k] = f[j]
      BY <3>1, <1>2
    <3> HIDE DEF j
    <3> QED BY <3>1, <3>2 DEF Fills
  <2>3. k <= 4 * m \/ k > 4 * m
    OBVIOUS
  <2> QED BY <2>1, <2>2, <2>3
<1> QED BY <1>2, <1>3 DEF Fills

LEMMA FlashText ==
  /\ Len(Flash) = 20 * FLASHED + 1 /\ Flash[20 * FLASHED + 1] = Falls
  /\ \A k \in 1 .. 20 * FLASHED :
       /\ (k - 1) % 4 = 0 => \E h \in 0 .. FLASHED - 1 : Flash[k] = Out("0x3c8", h)
       /\ (k - 1) % 4 # 0 => \E v \in {0, 63} : Flash[k] = Out("0x3c9", v)
  /\ \A k \in 1 .. 4 * FLASHED :
       /\ (k - 1) % 4 = 0 => Flash[16 * FLASHED + k] = Out("0x3c8", (k - 1) \div 4)
       /\ (k - 1) % 4 # 0 => Flash[16 * FLASHED + k] = Out("0x3c9", 63)
<1> DEFINE n == FLASHED
           s1 == Fill(0, 0, 0)
           s2 == s1 \o Fill(63, 0, 0)
           s3 == s2 \o Fill(0, 63, 0)
           s4 == s3 \o Fill(0, 0, 63)
           f5 == Fill(63, 63, 63)
           s5 == s4 \o f5
           e == <<Falls>>
<1>0. n \in Nat
  BY Constants
<1>1. Fills(s1, n)
  BY FillText
<1> HIDE DEF s1
<1>2. Fills(s2, 2 * n)
  <2>1. Fills(s2, n + n)
    BY <1>0, <1>1, FillText, FillMore
  <2> QED BY <1>0, <2>1
<1> HIDE DEF s2
<1>3. Fills(s3, 3 * n)
  <2>1. Fills(s3, 2 * n + n)
    BY <1>0, <1>2, FillText, FillMore
  <2> QED BY <1>0, <2>1
<1> HIDE DEF s3
<1>4. Fills(s4, 4 * n)
  <2>1. Fills(s4, 3 * n + n)
    BY <1>0, <1>3, FillText, FillMore
  <2> QED BY <1>0, <2>1
<1> HIDE DEF s4
<1>5. Fills(f5, n)
  BY FillText
<1>6. \A k \in 1 .. 4 * n :
        /\ (k - 1) % 4 = 0 => f5[k] = Out("0x3c8", (k - 1) \div 4)
        /\ (k - 1) % 4 # 0 => f5[k] = Out("0x3c9", 63)
  <2>1. \A k \in 1 .. 4 * n : (k - 1) % 4 \in {0, 1, 2, 3}
    BY <1>0
  <2>2. \A k \in 1 .. 4 * n :
          /\ (k - 1) % 4 = 0 => f5[k] = Out("0x3c8", (k - 1) \div 4)
          /\ (k - 1) % 4 = 1 => f5[k] = Out("0x3c9", 63)
          /\ (k - 1) % 4 = 2 => f5[k] = Out("0x3c9", 63)
          /\ (k - 1) % 4 = 3 => f5[k] = Out("0x3c9", 63)
    BY <1>0, PaintText DEF Fill
  <2> HIDE DEF n, f5
  <2> QED BY <2>1, <2>2
<1> HIDE DEF f5
<1>7. /\ Fills(s5, 5 * n)
      /\ \A k \in 1 .. 4 * n : s5[16 * n + k] = f5[k]
  <2>1. /\ Fills(s5, 4 * n + n)
        /\ \A k \in 1 .. 4 * n : s5[4 * (4 * n) + k] = f5[k]
    <3> DEFINE m == 4 * n
    <3>1. m \in Nat /\ Fills(s4, m)
      BY <1>0, <1>4
    <3> HIDE DEF m, n
    <3>4. Fills(s4 \o f5, m + n)
      BY <1>0, <1>5, <3>1, FillMore
    <3>5. \A k \in 1 .. 4 * n : (s4 \o f5)[4 * m + k] = f5[k]
      <4>1. /\ s4 \in Seq(DacSet) /\ Len(s4) = 4 * m
            /\ f5 \in Seq(DacSet) /\ Len(f5) = 4 * n
        BY <1>5, <3>1 DEF Fills
      <4>2. /\ Len(s4 \o f5) = Len(s4) + Len(f5)
            /\ \A k \in 1 .. Len(s4) + Len(f5) :
                 (s4 \o f5)[k] = IF k <= Len(s4) THEN s4[k] ELSE f5[k - Len(s4)]
        BY <4>1, ConcatProperties
      <4> DEFINE t == s4 \o f5
      <4> HIDE DEF t
      <4>3. ASSUME NEW k \in 1 .. 4 * n
            PROVE  t[4 * m + k] = f5[k]
        <5>1. 4 * m + k \in 1 .. Len(s4) + Len(f5) /\ ~(4 * m + k <= Len(s4))
              /\ (4 * m + k) - Len(s4) = k
          BY <1>0, <3>1, <4>1
        <5> QED BY <4>2, <5>1 DEF t
      <4> QED BY <4>3 DEF t
    <3>2. /\ Fills(s4 \o f5, m + n)
          /\ \A k \in 1 .. 4 * n : (s4 \o f5)[4 * m + k] = f5[k]
      BY <3>4, <3>5
    <3>3. /\ Fills(s5, m + n)
          /\ \A k \in 1 .. 4 * n : s5[4 * m + k] = f5[k]
      BY <3>2
    <3> QED BY <3>3 DEF m
  <2>2. 4 * n + n = 5 * n /\ 4 * (4 * n) = 16 * n
    BY <1>0
  <2> QED BY <2>1, <2>2
<1> HIDE DEF s5, n
<1>8. Flash = s5 \o e
  BY DEF Flash, s1, s2, s3, s4, s5, f5
<1>9. e \in Seq(DacSet) /\ Len(e) = 1 /\ e[1] = Falls
  BY DEF DacSet
<1> HIDE DEF e
<1>10. s5 \in Seq(DacSet) /\ Len(s5) = 20 * n
  BY <1>0, <1>7 DEF Fills
<1>11. /\ Len(Flash) = 20 * n + 1
       /\ \A k \in 1 .. 20 * n : Flash[k] = s5[k]
       /\ Flash[20 * n + 1] = e[1]
  <2>1. /\ Len(Flash) = Len(s5) + Len(e)
        /\ \A k \in 1 .. Len(s5) + Len(e) :
             Flash[k] = IF k <= Len(s5) THEN s5[k] ELSE e[k - Len(s5)]
    BY <1>8, <1>9, <1>10, ConcatProperties
  <2> QED BY <1>0, <1>9, <1>10, <2>1
<1>12. ASSUME NEW k \in 1 .. 20 * n
       PROVE  /\ (k - 1) % 4 = 0 => \E h \in 0 .. FLASHED - 1 : Flash[k] = Out("0x3c8", h)
              /\ (k - 1) % 4 # 0 => \E v \in {0, 63} : Flash[k] = Out("0x3c9", v)
  <2>1. k \in 1 .. 4 * (5 * n)
    BY <1>0
  <2> QED BY <2>1, <1>7, <1>11 DEF Fills
<1>13. ASSUME NEW k \in 1 .. 4 * n
       PROVE  Flash[16 * n + k] = f5[k]
  <2>1. 16 * n + k \in 1 .. 20 * n
    BY <1>0
  <2> QED BY <2>1, <1>7, <1>11
<1>14. /\ Len(Flash) = 20 * n + 1 /\ Flash[20 * n + 1] = Falls
       /\ \A k \in 1 .. 20 * n :
            /\ (k - 1) % 4 = 0 => \E h \in 0 .. FLASHED - 1 : Flash[k] = Out("0x3c8", h)
            /\ (k - 1) % 4 # 0 => \E v \in {0, 63} : Flash[k] = Out("0x3c9", v)
       /\ \A k \in 1 .. 4 * n :
            /\ (k - 1) % 4 = 0 => Flash[16 * n + k] = Out("0x3c8", (k - 1) \div 4)
            /\ (k - 1) % 4 # 0 => Flash[16 * n + k] = Out("0x3c9", 63)
  BY <1>6, <1>9, <1>11, <1>12, <1>13
<1> QED BY <1>14 DEF n

LEMMA IsByte == \A x : x \in Byte <=> x \in Int /\ 0 <= x /\ x <= 255
BY DEF Byte

LEMMA DivisorFits ==
  ASSUME NEW hz \in 440 .. 880
  PROVE  /\ Divisor(hz) \in Nat /\ Divisor(hz) < 65536
         /\ Divisor(hz) % 256 \in Byte /\ Divisor(hz) \div 256 \in Byte
<1> DEFINE q == 1193181 \div hz
           m == 1193181 % hz
<1>1. q \in Int /\ m \in 0 .. hz - 1 /\ 1193181 = hz * q + m
  BY SMT
<1>2. Divisor(hz) = q
  BY DEF Divisor
<1> HIDE DEF q, m
<1>3. q > 0
  BY <1>1, SMT
<1>4. q <= 65535
  BY <1>1, SMT
<1>5. q \in Int
  BY <1>1
<1>6. /\ q % 256 \in Int /\ 0 <= q % 256 /\ q % 256 <= 255
      /\ q \div 256 \in Int /\ 0 <= q \div 256 /\ q \div 256 <= 255
  BY <1>3, <1>4, <1>5, SMT
<1>7. q % 256 \in Byte /\ q \div 256 \in Byte
  BY <1>6, IsByte
<1> QED BY <1>2, <1>3, <1>4, <1>5, <1>7

LEMMA HaltText ==
  /\ Len(Halt) = 10
  /\ Halt[1] = Load("evta") /\ Halt[2] = Join("evtb")
  /\ Halt[3] = StoreIf("evta", {"wak_sts"}, {}) /\ Halt[4] = StoreIf("evtb", {"wak_sts"}, {})
  /\ Halt[5] = Load("cnta") /\ Halt[6] = Join("cntb")
  /\ Halt[7] = Store("cnta", Others, S5) /\ Halt[8] = Store("cntb", Others, S5)
  /\ Halt[9] = Store("cnta", Others \cup S5, {"slp_en"})
  /\ Halt[10] = Store("cntb", Others \cup S5, {"slp_en"})
BY DEF Halt

LEMMA RebootText ==
  /\ Len(Reboot) = 4 /\ Reboot[1] = Syncs /\ Reboot[2] = Syncs
  /\ Reboot[3] = Out("0xcf9", 2) /\ Reboot[4] = Out("0xcf9", 4)
  /\ Len(RebootKeyb) = 3 /\ RebootKeyb[1] = Syncs /\ RebootKeyb[2] = Syncs
  /\ RebootKeyb[3] = Out("0x64", 254)
BY DEF Reboot, RebootKeyb

LEMMA BeepText ==
  /\ Len(Beep) = 5 * TONES + 2 /\ Beep[5 * TONES + 2] = Out("0x61", 0)
  /\ \A k \in 1 .. 5 * TONES + 2 : PitCode(Beep[k])
<1> DEFINE w == 5 * TONES
           S == {In("0x61")} \cup {Out(p, v) : p \in {"0x42", "0x43", "0x61"}, v \in Byte}
           s == Times(TONES, 5, LAMBDA h : BeepOn(430 + 10 * h))
<1>1. w \in Nat /\ TONES \in 1 .. 44
  BY Constants
<1>2. s = [k \in 1 .. w |-> BeepOn(430 + 10 * ((k - 1) \div 5 + 1))[((k - 1) % 5) + 1]]
  BY <1>1 DEF Times
<1>a. /\ In("0x61") \in S
      /\ \A p \in {"0x42", "0x43", "0x61"}, v \in Byte : Out(p, v) \in S
  OBVIOUS
<1>6. \A c \in S : PitCode(c)
  BY DEF PitCode, In, Out, Op
<1> HIDE DEF S
<1>3. ASSUME NEW k \in 1 .. w
      PROVE  s[k] \in S
  <2> DEFINE hz == 430 + 10 * ((k - 1) \div 5 + 1)
             d == Divisor(hz)
  <2>1. hz \in 440 .. 880
    BY <1>1
  <2>2. d % 256 \in Byte /\ d \div 256 \in Byte /\ 182 \in Byte /\ 3 \in Byte
    BY <2>1, DivisorFits, IsByte
  <2>3. s[k] = <<Out("0x43", 182), Out("0x42", d % 256), Out("0x42", d \div 256),
                 In("0x61"), Out("0x61", 3)>>[((k - 1) % 5) + 1]
    BY <1>2 DEF BeepOn
  <2>4. (k - 1) % 5 \in {0, 1, 2, 3, 4}
    BY <1>1
  <2> HIDE DEF d
  <2>5. \/ s[k] = Out("0x43", 182) \/ s[k] = Out("0x42", d % 256)
        \/ s[k] = Out("0x42", d \div 256) \/ s[k] = In("0x61") \/ s[k] = Out("0x61", 3)
    <3> HIDE DEF s
    <3> QED BY <2>3, <2>4
  <2> HIDE DEF s
  <2> QED BY <1>a, <2>2, <2>5
<1> HIDE DEF s
<1>4. s \in Seq(S) /\ Len(s) = w
  <2>1. s \in [1 .. w -> S] /\ Len(s) = w
    BY <1>1, <1>2, <1>3
  <2> QED BY <1>1, <2>1, SeqDef
<1>5. BeepOff \in Seq(S) /\ Len(BeepOff) = 2 /\ BeepOff[2] = Out("0x61", 0)
  <2>1. 0 \in Byte
    BY IsByte
  <2> QED BY <1>a, <2>1 DEF BeepOff
<1>7. Beep = s \o BeepOff
  BY DEF Beep, s
<1>8. /\ Beep \in Seq(S) /\ Len(Beep) = Len(s) + Len(BeepOff)
      /\ \A k \in 1 .. Len(s) + Len(BeepOff) :
           Beep[k] = IF k <= Len(s) THEN s[k] ELSE BeepOff[k - Len(s)]
  BY <1>4, <1>5, <1>7, ConcatProperties
<1>9. Len(Beep) = w + 2 /\ Beep[w + 2] = Out("0x61", 0)
  BY <1>1, <1>4, <1>5, <1>8
<1>10. \A k \in 1 .. w + 2 : Beep[k] \in S
  BY <1>8, <1>9
<1> QED BY <1>6, <1>9, <1>10

LEMMA BeepAsmText ==
  /\ Len(BeepAsm) = 8 /\ BeepAsm[8] = Out("0x61", 0)
  /\ \A k \in 1 .. 8 : PitCode(BeepAsm[k])
<1> DEFINE d == Divisor(440)
<1>1. d % 256 \in Byte /\ d \div 256 \in Byte
  BY DivisorFits
<1>2. 182 \in Byte /\ 3 \in Byte /\ 0 \in Byte
  BY IsByte
<1>3. /\ Len(BeepAsm) = 8
      /\ BeepAsm[1] = Out("0x43", 182) /\ BeepAsm[2] = Out("0x42", d % 256)
      /\ BeepAsm[3] = Out("0x42", d \div 256) /\ BeepAsm[4] = In("0x61")
      /\ BeepAsm[5] = Out("0x61", 3) /\ BeepAsm[6] = Falls
      /\ BeepAsm[7] = In("0x61") /\ BeepAsm[8] = Out("0x61", 0)
  BY DEF BeepAsm, Beep440Hz, BeepOn, BeepOff
<1> HIDE DEF d
<1>4. ASSUME NEW k \in 1 .. 8
      PROVE  PitCode(BeepAsm[k])
  <2>1. k \in {1, 2, 3, 4, 5, 6, 7, 8}
    OBVIOUS
  <2> QED BY <1>1, <1>2, <1>3, <2>1 DEF PitCode, In, Out, Falls, Op
<1> QED BY <1>3, <1>4

(***************************************************************************)
(* Each program contains what its device understands; its jumps go to its  *)
(* first instruction, and it polls the controller before each byte.        *)
(***************************************************************************)
LEMMA KbcTexts ==
  ASSUME NEW t \in KbcUsers
  PROVE  /\ Len(Prog[t]) \in Nat
         /\ \A k \in 1 .. Len(Prog[t]) :
              /\ KbcCode(Prog[t][k])
              /\ Prog[t][k].op = "out" =>
                   \/ k > 1 /\ Prog[t][k - 1].op \in {"wait", "ifbusy"}
                   \/ t = "reboot_keyb" /\ k = 3
<1> USE DEF KbcCode, Wait, IfBusy, JumpTo, Out, Cli, Sti, Syncs, Op
<1>b. /\ 237 \in Byte /\ 5 \in Byte /\ 0 \in Byte /\ 2 \in Byte
      /\ 210 \in Byte /\ 254 \in Byte
  BY IsByte
<1>c. KEYS \in Nat /\ CALLS \in Nat
  BY Constants
<1>1. CASE t = "keycode"
  <2> DEFINE n == 8 * KEYS
  <2>1. Prog[t] = Keycode /\ Len(Keycode) = n /\ n \in Nat
    BY <1>1, <1>c, Texts, KeycodeText
  <2>2. ASSUME NEW k \in 1 .. n
        PROVE  /\ KbcCode(Keycode[k])
               /\ Keycode[k].op = "out" => k > 1 /\ Keycode[k - 1].op \in {"wait", "ifbusy"}
    <3>1. (k - 1) % 4 \in {0, 1, 2, 3} /\ (k - 1) \div 4 + 1 \in 1 .. 2 * KEYS
      BY <1>c
    <3>2. Codes[(k - 1) \div 4 + 1] \in Byte
      BY <3>1, CodeTypes
    <3>3. KbcCode(Keycode[k])
      BY <1>b, <3>1, <3>2, KeycodeText
    <3>4. ASSUME Keycode[k].op = "out"
          PROVE  k > 1 /\ Keycode[k - 1].op \in {"wait", "ifbusy"}
      <4>1. (k - 1) % 4 \in {1, 3}
        BY <3>1, <3>4, KeycodeText
      <4>2. k - 1 \in 1 .. n /\ (k - 1 - 1) % 4 \in {0, 2}
        BY <1>c, <4>1
      <4> QED BY <4>2, KeycodeText
    <3> QED BY <3>3, <3>4
  <2> QED BY <2>1, <2>2
<1>2. CASE t = "led"
  <2>1. Prog[t] = Led
    BY <1>2, Texts
  <2>2. ASSUME NEW k \in 1 .. 9
        PROVE  /\ KbcCode(Led[k])
               /\ Led[k].op = "out" => k > 1 /\ Led[k - 1].op \in {"wait", "ifbusy"}
    BY <1>b, LedText
  <2> QED BY <2>1, <2>2, LedText
<1>3. CASE t = "flash_led"
  <2>1. Prog[t] = FlashLed
    BY <1>3, Texts
  <2>2. ASSUME NEW k \in 1 .. 9
        PROVE  /\ KbcCode(FlashLed[k])
               /\ FlashLed[k].op = "out" => k > 1 /\ FlashLed[k - 1].op \in {"wait", "ifbusy"}
    BY <1>b, FlashLedText
  <2> QED BY <2>1, <2>2, FlashLedText
<1>4. CASE t = "reboot_keyb"
  <2>1. Prog[t] = RebootKeyb
    BY <1>4, Texts
  <2> QED BY <1>4, <1>b, <2>1, RebootText
<1>5. CASE t = "atkbd"
  <2> DEFINE n == 8 * CALLS
  <2>1. Prog[t] = AtKbd /\ Len(AtKbd) = n /\ n \in Nat
    BY <1>5, <1>c, Texts, AtKbdText
  <2>2. ASSUME NEW k \in 1 .. n
        PROVE  /\ KbcCode(AtKbd[k])
               /\ AtKbd[k].op = "out" => k > 1 /\ AtKbd[k - 1].op \in {"wait", "ifbusy"}
    <3>1. (k - 1) % 8 \in {0, 1, 2, 3, 4, 5, 6, 7}
      BY <1>c
    <3>2. KbcCode(AtKbd[k])
      BY <1>b, <3>1, AtKbdText
    <3>3. ASSUME AtKbd[k].op = "out"
          PROVE  k > 1 /\ AtKbd[k - 1].op \in {"wait", "ifbusy"}
      <4>1. (k - 1) % 8 \in {2, 6}
        BY <3>1, <3>3, AtKbdText
      <4>2. k - 1 \in 1 .. n /\ (k - 1 - 1) % 8 \in {1, 5}
        BY <1>c, <4>1
      <4> QED BY <4>2, AtKbdText
    <3> QED BY <3>2, <3>3
  <2> QED BY <2>1, <2>2
<1> QED BY <1>1, <1>2, <1>3, <1>4, <1>5 DEF KbcUsers

LEMMA CmosTexts ==
  ASSUME NEW t \in CmosUsers
  PROVE  /\ Len(Prog[t]) \in Nat
         /\ \A k \in 1 .. Len(Prog[t]) :
              /\ CmosCode(Prog[t][k])
              /\ Prog[t][k].op = "outnot" => t = "cmos-reset" /\ k \in {5, 9}
<1> USE DEF CmosCode, In, OutNot, Out, Cli, Sti, Op, Cell
<1>1. CASE t = "cmos-reset"
  <2>1. Prog[t] = CmosReset
    BY <1>1, Texts
  <2>2. ASSUME NEW k \in 1 .. 10
        PROVE  /\ CmosCode(CmosReset[k])
               /\ CmosReset[k].op = "outnot" => k \in {5, 9}
    BY CmosResetText
  <2> QED BY <1>1, <2>1, <2>2, CmosResetText
<1>2. CASE t = "cmos-dump"
  <2> DEFINE n == 2 * CELLS
  <2>1. Prog[t] = CmosDump /\ Len(CmosDump) = n /\ n \in Nat /\ CELLS \in 1 .. 128
    BY <1>2, Texts, CmosDumpText, Constants
  <2>2. ASSUME NEW k \in 1 .. n
        PROVE  CmosCode(CmosDump[k]) /\ CmosDump[k].op # "outnot"
    <3>1. (k - 1) % 2 \in {0, 1} /\ (k - 1) \div 2 \in Cell
      BY <2>1
    <3>2. CmosDump[k] = Out("0x70", (k - 1) \div 2) \/ CmosDump[k] = In("0x71")
      BY <3>1, CmosDumpText
    <3> QED BY <3>1, <3>2
  <2> QED BY <2>1, <2>2
<1>3. CASE t = "rtc"
  <2> DEFINE n == 4 * CALLS
  <2>1. Prog[t] = RtcDriver /\ Len(RtcDriver) = n /\ n \in Nat
    BY <1>3, Texts, RtcText, Constants
  <2>2. ASSUME NEW k \in 1 .. n
        PROVE  CmosCode(RtcDriver[k]) /\ RtcDriver[k].op # "outnot"
    <3>1. (k - 1) % 4 \in {0, 1, 2, 3} /\ 0 \in Cell
      BY <2>1
    <3> QED BY <3>1, RtcText
  <2> QED BY <2>1, <2>2
<1> QED BY <1>1, <1>2, <1>3 DEF CmosUsers

LEMMA DacTexts ==
  ASSUME NEW t \in DacUsers
  PROVE  /\ Len(Prog[t]) \in Nat
         /\ \A k \in 1 .. Len(Prog[t]) : DacCode(Prog[t][k])
<1> USE DEF DacCode, Out, Falls, Op
<1>1. CASE t = "vga"
  <2> DEFINE n == 4 * PAINTED
  <2>1. Prog[t] = Vga /\ Len(Vga) = n /\ n \in Nat /\ PAINTED \in 1 .. 128
    BY <1>1, Texts, VgaText, Constants
  <2>2. ASSUME NEW k \in 1 .. n
        PROVE  DacCode(Vga[k])
    <3>1. (k - 1) % 4 \in {0, 1, 2, 3} /\ (k - 1) \div 4 \in Int
          /\ 0 <= (k - 1) \div 4 /\ (k - 1) \div 4 <= 255
      BY <2>1
    <3>2. (k - 1) \div 4 \in Byte /\ 128 \in Byte /\ 64 \in Byte /\ 32 \in Byte
      BY <3>1, IsByte
    <3> QED BY <3>1, <3>2, VgaText
  <2> QED BY <2>1, <2>2
<1>2. CASE t = "flash"
  <2> DEFINE n == 20 * FLASHED
  <2>1. Prog[t] = Flash /\ Len(Flash) = n + 1 /\ n \in Nat /\ FLASHED \in 1 .. 64
    <3>1. Prog[t] = Flash
      BY <1>2, Texts
    <3>2. Len(Flash) = n + 1
      BY FlashText
    <3> QED BY <3>1, <3>2, Constants
  <2>2. \A v \in {0, 63} \cup (0 .. FLASHED - 1) : v \in Byte
    BY <2>1, IsByte
  <2>3. ASSUME NEW k \in 1 .. n
        PROVE  DacCode(Flash[k])
    <3>1. (k - 1) % 4 = 0 => \E h \in 0 .. FLASHED - 1 : Flash[k] = Out("0x3c8", h)
      BY FlashText
    <3>2. (k - 1) % 4 # 0 => \E v \in {0, 63} : Flash[k] = Out("0x3c9", v)
      BY FlashText
    <3>3. CASE (k - 1) % 4 = 0
      <4>1. PICK h \in 0 .. FLASHED - 1 : Flash[k] = Out("0x3c8", h)
        BY <3>1, <3>3
      <4>2. h \in Byte
        BY <2>2
      <4> QED BY <4>1, <4>2
    <3>4. CASE (k - 1) % 4 # 0
      <4>1. PICK v \in {0, 63} : Flash[k] = Out("0x3c9", v)
        BY <3>2, <3>4
      <4> QED BY <2>2, <4>1
    <3> QED BY <3>3, <3>4
  <2>4. DacCode(Flash[n + 1])
    BY FlashText
  <2> HIDE DEF n
  <2> QED BY <2>1, <2>3, <2>4
<1> QED BY <1>1, <1>2 DEF DacUsers

LEMMA PitTexts ==
  ASSUME NEW t \in Beepers
  PROVE  /\ Len(Prog[t]) \in Nat /\ Len(Prog[t]) > 1
         /\ Prog[t][Len(Prog[t])] = Out("0x61", 0)
         /\ \A k \in 1 .. Len(Prog[t]) : PitCode(Prog[t][k])
<1>1. CASE t = "beep"
  <2> DEFINE n == 5 * TONES + 2
  <2>1. n \in Nat /\ n > 1
    BY Constants
  <2>2. Prog[t] = Beep /\ Len(Beep) = n /\ Beep[n] = Out("0x61", 0)
    BY <1>1, Texts, BeepText
  <2>3. \A k \in 1 .. n : PitCode(Beep[k])
    BY BeepText
  <2> HIDE DEF n
  <2> QED BY <2>1, <2>2, <2>3
<1>2. CASE t = "beep_asm"
  BY <1>2, Texts, BeepAsmText
<1> QED BY <1>1, <1>2 DEF Beepers

LEMMA HaltTexts ==
  /\ Len(Prog["halt"]) = 10
  /\ \A k \in 1 .. 10 : PowerCode(Prog["halt"][k])
BY Texts, HaltText DEF PowerCode, Load, Join, Store, StoreIf, Op

LEMMA RebootTexts ==
  /\ Len(Prog["reboot"]) = 4
  /\ \A k \in 1 .. 4 : ResetCode(Prog["reboot"][k])
<1>1. 2 \in Byte /\ 4 \in Byte
  BY IsByte
<1> QED BY <1>1, Texts, RebootText DEF ResetCode, Syncs, Out, Op

LEMMA ProgramsSound ==
  ASSUME NEW t \in Programs
  PROVE  /\ Len(Prog[t]) \in Nat
         /\ \A k \in 1 .. Len(Prog[t]) : Sound(t, Prog[t][k])
<1>1. CASE t \in KbcUsers
  BY <1>1, KbcTexts DEF Sound, KbcUsers, CmosUsers, Beepers, DacUsers
<1>2. CASE t \in CmosUsers
  BY <1>2, CmosTexts DEF Sound, KbcUsers, CmosUsers, Beepers, DacUsers
<1>3. CASE t \in Beepers
  BY <1>3, PitTexts DEF Sound, KbcUsers, CmosUsers, Beepers, DacUsers
<1>4. CASE t \in DacUsers
  BY <1>4, DacTexts DEF Sound, KbcUsers, CmosUsers, Beepers, DacUsers
<1>5. CASE t = "halt"
  BY <1>5, HaltTexts DEF Sound, KbcUsers, CmosUsers, Beepers, DacUsers
<1>6. CASE t = "reboot"
  BY <1>6, RebootTexts DEF Sound, KbcUsers, CmosUsers, Beepers, DacUsers
<1> QED BY <1>1, <1>2, <1>3, <1>4, <1>5, <1>6
        DEF Programs, Tools, Kernel, KbcUsers, CmosUsers, Beepers, DacUsers

(***************************************************************************)
(* Where the programs are, and what a step of one of them does.            *)
(***************************************************************************)
CtlInv ==
  /\ users \subseteq Programs
  /\ ip \in [users -> Nat] /\ got \in [users -> Seq(Byte)]
  /\ \A t \in users : ip[t] \in 1 .. Len(Prog[t]) + 1
  /\ killed \subseteq users /\ cli \subseteq users

LEMMA Fetch ==
  ASSUME CtlInv, NEW t \in users, Running(t)
  PROVE  /\ t \in Programs /\ Len(Prog[t]) \in Nat
         /\ ip[t] \in 1 .. Len(Prog[t])
         /\ Instr(t) = Prog[t][ip[t]] /\ Sound(t, Instr(t))
<1>1. t \in Programs /\ ip[t] \in 1 .. Len(Prog[t]) + 1 /\ ip[t] \in Nat
  BY DEF CtlInv
<1>2. ~(ip[t] > Len(Prog[t]))
  BY DEF Running, Ended
<1>3. Len(Prog[t]) \in Nat
  BY <1>1, ProgramsSound
<1>4. ip[t] \in 1 .. Len(Prog[t])
  BY <1>1, <1>2, <1>3
<1> QED BY <1>1, <1>3, <1>4, ProgramsSound DEF Instr

(* A program works on its own device.                                      *)
LEMMA OutputOf ==
  ASSUME CtlInv, NEW t \in users, Output(t)
  PROVE  \/ /\ t \in KbcUsers /\ Instr(t).op = "out"
            /\ Instr(t).port \in {"0x60", "0x64"} /\ Instr(t).val \in Byte
            /\ ToKbc(Instr(t).port, Instr(t).val)
         \/ /\ t \in CmosUsers /\ Instr(t).op = "out"
            /\ Instr(t).port = "0x70" /\ Instr(t).val \in Cell
            /\ ToCmos("0x70", Instr(t).val)
         \/ /\ t \in CmosUsers /\ Instr(t).op = "outnot"
            /\ ToCmos("0x71", 255 - Last(got[t]))
         \/ /\ t \in Beepers /\ Instr(t).op = "out" /\ Instr(t).val \in Byte
            /\ Instr(t).port \in {"0x42", "0x43", "0x61"}
            /\ ToPit(Instr(t).port, Instr(t).val)
         \/ /\ t \in DacUsers /\ Instr(t).op = "out" /\ Instr(t).val \in Byte
            /\ Instr(t).port \in {"0x3c8", "0x3c9"}
            /\ ToDac(Instr(t).port, Instr(t).val)
         \/ /\ t = "reboot" /\ Instr(t).op = "out" /\ Instr(t).val \in Byte
            /\ ToReset(Instr(t).val)
<1>1. Running(t) /\ Instr(t).op \in {"out", "outnot"}
  BY DEF Output
<1>2. Sound(t, Instr(t)) /\ t \in Programs
  BY <1>1, Fetch
<1>3. Instr(t).op = "out" => Write(Instr(t).port, Instr(t).val)
  BY DEF Output
<1>4. Instr(t).op = "outnot" => Write(Instr(t).port, Instr(t).val - Last(got[t]))
  BY DEF Output
<1>5. CASE t \in KbcUsers
  BY <1>1, <1>2, <1>3, <1>5 DEF Sound, KbcCode, Write
<1>6. CASE t \in CmosUsers
  BY <1>1, <1>2, <1>3, <1>4, <1>6 DEF Sound, CmosCode, Write
<1>7. CASE t \in Beepers
  BY <1>1, <1>2, <1>3, <1>7 DEF Sound, PitCode, Write
<1>8. CASE t \in DacUsers
  BY <1>1, <1>2, <1>3, <1>8 DEF Sound, DacCode, Write
<1>9. CASE t = "halt"
  BY <1>1, <1>2, <1>9 DEF Sound, PowerCode
<1>10. CASE t = "reboot"
  BY <1>1, <1>2, <1>3, <1>10 DEF Sound, ResetCode, Write
<1> QED BY <1>2, <1>5, <1>6, <1>7, <1>8, <1>9, <1>10
        DEF Programs, Tools, Kernel, KbcUsers, CmosUsers, Beepers, DacUsers

(* What the other instructions leave alone.                                *)
LEMMA KindOf ==
  ASSUME CtlInv, NEW t \in users
  PROVE  /\ PortRead(t) \/ PortWrite(t) => t = "halt"
         /\ Input(t) /\ Instr(t).port = "0x71" => t \in CmosUsers
         /\ Input(t) => t \in CmosUsers \cup Beepers
         /\ FallThrough(t) => t \in Beepers \cup DacUsers
         /\ Flags(t) => t \in KbcUsers \cup CmosUsers
         /\ Sync(t) => t \in KbcUsers \cup {"reboot"}
         /\ Jump(t) => t \in KbcUsers
<1> USE DEF Sound, KbcCode, CmosCode, PitCode, DacCode, PowerCode, ResetCode,
            KbcUsers, CmosUsers, Beepers, DacUsers, Programs, Tools, Kernel
<1>1. Running(t) => Sound(t, Instr(t)) /\ t \in Programs
  BY Fetch
<1>2. PortRead(t) \/ PortWrite(t) => t = "halt"
  BY <1>1 DEF PortRead, PortWrite
<1>3. Input(t) => t \in CmosUsers \cup Beepers
  BY <1>1 DEF Input
<1>4. Input(t) /\ Instr(t).port = "0x71" => t \in CmosUsers
  BY <1>1 DEF Input
<1>5. FallThrough(t) => t \in Beepers \cup DacUsers
  BY <1>1 DEF FallThrough
<1>6. Flags(t) => t \in KbcUsers \cup CmosUsers
  BY <1>1 DEF Flags
<1>7. Sync(t) => t \in KbcUsers \cup {"reboot"}
  BY <1>1 DEF Sync
<1>8. Jump(t) => t \in KbcUsers
  BY <1>1 DEF Jump
<1> QED BY <1>2, <1>3, <1>4, <1>5, <1>6, <1>7, <1>8

(* One step of a program moves its own counter and no other.               *)
LEMMA StepOf ==
  ASSUME CtlInv, NEW t \in users, Execute(t)
  PROVE  /\ Running(t) /\ users' = users /\ apart' = apart
         /\ \E k \in 1 .. Len(Prog[t]) + 1 : ip' = [ip EXCEPT ![t] = k]
         /\ \A u \in users \ {t} : got'[u] = got[u]
         /\ killed \subseteq killed' /\ killed' \subseteq killed \cup {t}
         /\ cli' \subseteq cli \cup {t} /\ cli \ {t} \subseteq cli'
<1>1. Running(t)
  BY DEF Execute, Jump, Output, Input, Flags, FallThrough, PortRead, PortWrite, Sync
<1>2. /\ ip[t] \in 1 .. Len(Prog[t]) /\ Len(Prog[t]) \in Nat
      /\ Sound(t, Instr(t)) /\ t \in Programs
  BY <1>1, Fetch
<1>3. ip[t] + 1 \in 1 .. Len(Prog[t]) + 1 /\ ip[t] \in 1 .. Len(Prog[t]) + 1
      /\ 1 \in 1 .. Len(Prog[t]) + 1
  BY <1>2
<1>4. NextInstr(t) => \E k \in 1 .. Len(Prog[t]) + 1 : ip' = [ip EXCEPT ![t] = k]
  BY <1>3 DEF NextInstr
<1>5. UNCHANGED ip => \E k \in 1 .. Len(Prog[t]) + 1 : ip' = [ip EXCEPT ![t] = k]
  BY <1>3 DEF CtlInv
<1>6. CASE Jump(t)
  <2>1. t \in KbcUsers
    BY <1>6, KindOf
  <2>2. Instr(t).op \in {"goto", "ifbusy"} => Instr(t).val = 1
    BY <1>2, <2>1 DEF Sound, KbcCode
  <2>3. \E k \in 1 .. Len(Prog[t]) + 1 : ip' = [ip EXCEPT ![t] = k]
    <3>1. NextInstr(t) \/ ip' = [ip EXCEPT ![t] = 1]
      BY <1>6, <2>2 DEF Jump
    <3> QED BY <1>3, <1>4, <3>1
  <2> QED BY <1>1, <1>6, <2>3 DEF Jump
<1>7. CASE Output(t)
  BY <1>1, <1>4, <1>7 DEF Output
<1>8. CASE Input(t)
  BY <1>1, <1>4, <1>8 DEF Input, CtlInv
<1>9. CASE Flags(t)
  BY <1>1, <1>4, <1>9 DEF Flags
<1>10. CASE FallThrough(t)
  BY <1>1, <1>4, <1>5, <1>10 DEF FallThrough
<1>11. CASE PortRead(t)
  BY <1>1, <1>4, <1>11 DEF PortRead
<1>12. CASE PortWrite(t)
  BY <1>1, <1>4, <1>12 DEF PortWrite
<1>13. CASE Sync(t)
  BY <1>1, <1>4, <1>13 DEF Sync
<1> QED BY <1>6, <1>7, <1>8, <1>9, <1>10, <1>11, <1>12, <1>13 DEF Execute

(* The others' devices stay as they are.                                   *)
LEMMA Frames ==
  ASSUME CtlInv, NEW t \in users, Execute(t)
  PROVE  /\ t \notin KbcUsers => UNCHANGED kbc
         /\ t \notin CmosUsers => UNCHANGED <<cmos, got>>
         /\ t \notin Beepers => UNCHANGED pit
         /\ t \notin DacUsers => UNCHANGED dac
         /\ t # "halt" => UNCHANGED <<pm, val>>
         /\ t \notin KbcUsers \cup {"reboot"} => UNCHANGED disk
         /\ t \notin {"halt", "reboot"} => UNCHANGED power
<1> USE DEF devs
<1>1. CASE Jump(t)
  BY <1>1 DEF Jump
<1>2. CASE Output(t)
  <2>1. UNCHANGED <<got, pm, val, disk>>
    BY <1>2 DEF Output
  <2> QED BY <2>1, <1>2, OutputOf DEF ToKbc, ToCmos, ToPit, ToDac, ToReset
<1>3. CASE Input(t)
  <2>1. UNCHANGED <<kbc, cmos, pit, dac, pm, val, disk, power>>
    BY <1>3 DEF Input
  <2>2. t \notin CmosUsers => UNCHANGED got
    BY <1>3, KindOf DEF Input
  <2> QED BY <2>1, <2>2
<1>4. CASE Flags(t)
  BY <1>4 DEF Flags
<1>5. CASE FallThrough(t)
  BY <1>5 DEF FallThrough
<1>6. CASE PortRead(t)
  BY <1>6, KindOf DEF PortRead
<1>7. CASE PortWrite(t)
  BY <1>7, KindOf DEF PortWrite
<1>8. CASE Sync(t)
  BY <1>8, KindOf DEF Sync
<1> QED BY <1>1, <1>2, <1>3, <1>4, <1>5, <1>6, <1>7, <1>8 DEF Execute

(* What happens is a step of a program, or leaves all counters alone.      *)
Quiet ==
  /\ UNCHANGED <<users, apart, ip, got, cli, pit, dac, val, disk>>
  /\ \/ UNCHANGED killed
     \/ \E t \in users : Running(t) /\ t \notin cli \cup Kernel /\ killed' = killed \cup {t}
  /\ Controller \/ UNCHANGED <<kbc, power>>
  /\ Tick \/ UNCHANGED cmos
  /\ Button \/ UNCHANGED pm

LEMMA Cases ==
  ASSUME [PortNext]_portVars
  PROVE  (\E t \in users : Execute(t)) \/ Quiet
<1> USE DEF procs, devs
<1>1. CASE UNCHANGED portVars
  BY <1>1 DEF portVars, Quiet
<1>2. CASE \E t \in users : Signal(t)
  BY <1>2 DEF Signal, Quiet
<1>3. CASE Controller
  <2>1. UNCHANGED <<users, apart, ip, got, killed, cli, cmos, pit, dac, pm, val, disk>>
    BY <1>3 DEF Controller
  <2> QED BY <1>3, <2>1 DEF Quiet
<1>4. CASE Tick
  <2>1. UNCHANGED <<users, apart, ip, got, killed, cli, kbc, pit, dac, pm, val, disk, power>>
    BY <1>4 DEF Tick
  <2> QED BY <1>4, <2>1 DEF Quiet
<1>5. CASE Button
  <2>1. UNCHANGED <<users, apart, ip, got, killed, cli, kbc, cmos, pit, dac, val, disk, power>>
    BY <1>5 DEF Button
  <2> QED BY <1>5, <2>1 DEF Quiet
<1>6. CASE PortsIdle
  BY <1>6 DEF PortsIdle, portVars, Quiet
<1> QED BY <1>1, <1>2, <1>3, <1>4, <1>5, <1>6 DEF PortNext

(* Only the programs of the keyboard controller jump.                      *)
LEMMA Advances ==
  ASSUME CtlInv, NEW t \in users, Execute(t), t \notin KbcUsers
  PROVE  \/ NextInstr(t) /\ UNCHANGED killed
         \/ FallThrough(t) /\ UNCHANGED ip /\ killed' = killed \cup {t}
<1>1. ~Jump(t)
  BY KindOf
<1> QED BY <1>1 DEF Execute, Output, Input, Flags, FallThrough, PortRead, PortWrite, Sync

(* The RAM and what was read of it are bytes; cmos-reset has read one      *)
(* before it writes one back.                                              *)
CmosTyped ==
  /\ cmos \in [index : Cell, ram : [Cell -> Byte]]
  /\ "cmos-reset" \in users /\ ip["cmos-reset"] > 3 => got["cmos-reset"] # Empty

LEMMA WriteBack ==
  ASSUME NEW s \in Seq(Byte), s # Empty
  PROVE  Last(s) \in Byte /\ 255 - Last(s) \in Byte
<1>1. Len(s) \in 1 .. Len(s)
  BY DEF Empty
<1>2. Last(s) \in Byte
  BY <1>1 DEF Last
<1> QED BY <1>2, IsByte

LEMMA CtlStep ==
  ASSUME CtlInv, CmosTyped, [PortNext]_portVars
  PROVE  CtlInv'
<1>1. CASE Quiet
  BY <1>1 DEF Quiet, CtlInv
<1>2. ASSUME NEW t \in users, Execute(t)
      PROVE  CtlInv'
  <2>1. PICK k \in 1 .. Len(Prog[t]) + 1 : ip' = [ip EXCEPT ![t] = k]
    BY <1>2, StepOf
  <2>2. t \in Programs /\ Len(Prog[t]) \in Nat
    BY <1>2, StepOf, ProgramsSound DEF CtlInv
  <2>3. users' = users /\ killed' \subseteq users /\ cli' \subseteq users
    BY <1>2, StepOf DEF CtlInv
  <2>4. ip' \in [users -> Nat] /\ \A u \in users : ip'[u] \in 1 .. Len(Prog[u]) + 1
    BY <2>1, <2>2 DEF CtlInv
  <2>5. got' \in [users -> Seq(Byte)]
    <3>1. CASE Input(t)
      <4>1. cmos.ram[cmos.index] \in Byte
        BY DEF CmosTyped
      <4>2. got[t] \in Seq(Byte) /\ got \in [users -> Seq(Byte)]
        BY DEF CtlInv
      <4>3. Append(got[t], cmos.ram[cmos.index]) \in Seq(Byte)
        BY <4>1, <4>2
      <4>4. got' = got \/ got' = [got EXCEPT ![t] = Append(got[t], cmos.ram[cmos.index])]
        BY <3>1 DEF Input
      <4> QED BY <4>2, <4>3, <4>4
    <3>2. CASE ~Input(t)
      <4>1. UNCHANGED got
        BY <1>2, <3>2 DEF Execute, Jump, Output, Flags, FallThrough, PortRead, PortWrite, Sync
      <4> QED BY <4>1 DEF CtlInv
    <3> QED BY <3>1, <3>2
  <2> QED BY <2>3, <2>4, <2>5 DEF CtlInv
<1> QED BY <1>1, <1>2, Cases

LEMMA ResetTexts ==
  ASSUME CtlInv, NEW t \in users, t = "cmos-reset", Running(t)
  PROVE  /\ ip[t] \in 1 .. 10
         /\ Instr(t) = CmosReset[ip[t]]
BY Fetch, Texts, CmosResetText

LEMMA CmosStep ==
  ASSUME CtlInv, CmosTyped, [PortNext]_portVars
  PROVE  CmosTyped'
<1> DEFINE c == "cmos-reset"
<1>1. CASE Quiet
  <2>1. cmos' \in [index : Cell, ram : [Cell -> Byte]]
    <3>1. CASE Tick
      <4>1. cmos' = [cmos EXCEPT !.ram[0] = (cmos.ram[0] + 1) % 2]
        BY <3>1 DEF Tick
      <4>2. cmos.ram[0] \in Int /\ 0 \in Cell
        BY IsByte DEF CmosTyped, Cell
      <4>3. (cmos.ram[0] + 1) % 2 \in 0 .. 1
        BY <4>2
      <4>4. (cmos.ram[0] + 1) % 2 \in Byte
        BY <4>3, IsByte
      <4> QED BY <4>1, <4>2, <4>4 DEF CmosTyped
    <3> QED BY <1>1, <3>1 DEF Quiet, CmosTyped
  <2>2. UNCHANGED <<users, ip, got>>
    BY <1>1 DEF Quiet
  <2> QED BY <2>1, <2>2 DEF CmosTyped
<1>2. ASSUME NEW t \in users, Execute(t)
      PROVE  CmosTyped'
  <2>0. users' = users /\ Running(t)
    BY <1>2, StepOf
  <2>1. cmos' \in [index : Cell, ram : [Cell -> Byte]]
    <3>1. CASE UNCHANGED cmos
      BY <3>1 DEF CmosTyped
    <3>2. CASE ~UNCHANGED cmos
      <4>1. Output(t)
        BY <1>2, <3>2 DEF Execute, Jump, Input, Flags, FallThrough, PortRead, PortWrite, Sync, devs
      <4>2. \/ Instr(t).val \in Cell /\ ToCmos("0x70", Instr(t).val)
            \/ Instr(t).op = "outnot" /\ ToCmos("0x71", 255 - Last(got[t])) /\ t \in CmosUsers
        BY <4>1, <3>2, OutputOf DEF ToKbc, ToPit, ToDac, ToReset
      <4>3. CASE Instr(t).op = "outnot" /\ ToCmos("0x71", 255 - Last(got[t])) /\ t \in CmosUsers
        <5>1. t \in Programs /\ ip[t] \in 1 .. Len(Prog[t]) /\ Instr(t) = Prog[t][ip[t]]
          BY <2>0, Fetch
        <5>2. t = c /\ ip[t] > 3
          BY <4>3, <5>1, CmosTexts
        <5>3. got[t] # Empty /\ got[t] \in Seq(Byte)
          BY <5>2 DEF CmosTyped, CtlInv
        <5>4. 255 - Last(got[t]) \in Byte
          BY <5>3, WriteBack
        <5>5. cmos' = [cmos EXCEPT !.ram[cmos.index] = 255 - Last(got[t])]
          BY <4>3 DEF ToCmos
        <5> QED BY <5>4, <5>5 DEF CmosTyped
      <4>4. CASE Instr(t).val \in Cell /\ ToCmos("0x70", Instr(t).val)
        BY <4>4 DEF ToCmos, CmosTyped
      <4> QED BY <4>2, <4>3, <4>4
    <3> QED BY <3>1, <3>2
  <2>2. ASSUME c \in users, ip'[c] > 3
        PROVE  got'[c] # Empty
    <3>1. CASE t = c
      <4>1. ip[t] \in 1 .. 10 /\ Instr(t) = CmosReset[ip[t]]
        BY <2>0, <3>1, ResetTexts
      <4>2. t \notin KbcUsers /\ t \notin Beepers \cup DacUsers
        BY <3>1 DEF KbcUsers, Beepers, DacUsers
      <4>3. ip' = [ip EXCEPT ![t] = ip[t] + 1]
        BY <1>2, <4>2, Advances, KindOf DEF NextInstr
      <4>4. ip'[t] = ip[t] + 1
        BY <4>3 DEF CtlInv
      <4>5. got \in [users -> Seq(Byte)] /\ got[t] \in Seq(Byte)
        BY DEF CtlInv
      <4>6. CASE ip[t] = 3
        <5>1. Instr(t).op = "in" /\ Instr(t).port = "0x71"
          BY <4>1, <4>6, CmosResetText DEF In, Op
        <5>2. Input(t)
          BY <1>2, <5>1 DEF Execute, Jump, Output, Flags, FallThrough, PortRead, PortWrite, Sync
        <5>3. got'[t] = Append(got[t], cmos.ram[cmos.index])
          BY <4>5, <5>1, <5>2 DEF Input
        <5>4. cmos.ram[cmos.index] \in Byte
          BY DEF CmosTyped
        <5>5. Len(got'[t]) > 0
          BY <4>5, <5>3, <5>4
        <5> QED BY <3>1, <5>5 DEF Empty
      <4>7. CASE ip[t] > 3
        <5>1. got[t] # Empty
          BY <3>1, <4>7 DEF CmosTyped
        <5>2. Append(got[t], cmos.ram[cmos.index]) # Empty
          <6>1. cmos.ram[cmos.index] \in Byte
            BY DEF CmosTyped
          <6>2. Len(Append(got[t], cmos.ram[cmos.index])) = Len(got[t]) + 1
                /\ Len(got[t]) \in Nat
            BY <4>5, <6>1
          <6> QED BY <6>2 DEF Empty
        <5>3. got'[t] = got[t] \/ got'[t] = Append(got[t], cmos.ram[cmos.index])
          BY <1>2, <4>5 DEF Execute, Jump, Output, Input, Flags, FallThrough, PortRead,
                            PortWrite, Sync
        <5> QED BY <3>1, <5>1, <5>2, <5>3
      <4> QED BY <2>2, <3>1, <4>1, <4>4, <4>6, <4>7
    <3>2. CASE t # c
      <4>1. got'[c] = got[c] /\ ip'[c] = ip[c]
        BY <1>2, <2>2, <3>2, StepOf DEF CtlInv
      <4> QED BY <2>2, <4>1 DEF CmosTyped
    <3> QED BY <3>1, <3>2
  <2> QED BY <2>0, <2>1, <2>2 DEF CmosTyped
<1> QED BY <1>1, <1>2, Cases

Masks   == 0 .. 7
Sixbit  == 0 .. 63
Colours == Sixbit \X Sixbit \X Sixbit

LEMMA IsMask == \A x : x \in Masks <=> x \in Int /\ 0 <= x /\ x < 8
BY DEF Masks

LEMMA IsSixbit == \A x : x \in Sixbit <=> x \in Int /\ 0 <= x /\ x < 64
BY DEF Sixbit

KbcTyped ==
  kbc \in [ibf : {Empty} \cup ({"0x60", "0x64"} \X Byte), lost : BOOLEAN,
           asKey : BOOLEAN, keys : Seq(Byte), mask : BOOLEAN, leds : Masks]

Lows == {Empty} \cup {<<b>> : b \in Byte}

PitTyped ==
  /\ pit \in [port61 : Byte, low : Lows, div : Nat]
  /\ pit.div < 256 * 256

DacTyped ==
  /\ dac \in [index : Byte, rgb : Seq(Sixbit), palette : [Cell -> Colours]]
  /\ Len(dac.rgb) < 3

MachineTyped ==
  /\ apart \in BOOLEAN
  /\ disk \in {"dirty", "clean"} /\ power \in {"on", "s5", "pulse", "reset"}

LEMMA KbcShape ==
  ASSUME KbcTyped
  PROVE  /\ kbc = [ibf |-> kbc.ibf, lost |-> kbc.lost, asKey |-> kbc.asKey,
                   keys |-> kbc.keys, mask |-> kbc.mask, leds |-> kbc.leds]
         /\ kbc.ibf = Empty \/ kbc.ibf \in {"0x60", "0x64"} \X Byte
         /\ kbc.keys \in Seq(Byte) /\ kbc.leds \in Masks
BY DEF KbcTyped

LEMMA ToKbcTyped ==
  ASSUME KbcTyped, NEW p \in {"0x60", "0x64"}, NEW v \in Byte, ToKbc(p, v)
  PROVE  KbcTyped'
<1>1. kbc' = [kbc EXCEPT !.ibf = <<p, v>>, !.lost = kbc.lost \/ Busy]
  BY DEF ToKbc
<1>2. (kbc.lost \/ Busy) \in BOOLEAN
  OBVIOUS
<1> HIDE DEF Busy
<1> QED BY <1>1, <1>2, Zenon DEF KbcTyped

LEMMA ControllerTyped ==
  ASSUME KbcTyped, Controller
  PROVE  KbcTyped'
<1> DEFINE p == kbc.ibf[1]
           v == kbc.ibf[2]
<1>1. kbc.ibf # Empty
  BY DEF Controller, Busy
<1>2. p \in {"0x60", "0x64"} /\ v \in Byte
  BY <1>1, KbcShape
<1>3. Append(kbc.keys, v) \in Seq(Byte)
  BY <1>2, KbcShape
<1>4. (IF kbc.mask /\ v < 8 THEN v ELSE kbc.leds) \in Masks
  BY <1>2, KbcShape, IsByte, IsMask
<1>5. (v = 210) \in BOOLEAN /\ (v = 237) \in BOOLEAN /\ FALSE \in BOOLEAN
  OBVIOUS
<1>6. kbc' = CASE p = "0x64" ->
                   [kbc EXCEPT !.ibf = Empty, !.asKey = (v = 210)]
              [] p = "0x60" /\ kbc.asKey ->
                   [kbc EXCEPT !.ibf = Empty, !.asKey = FALSE, !.keys = Append(kbc.keys, v)]
              [] OTHER ->
                   [kbc EXCEPT !.ibf = Empty, !.mask = (v = 237),
                               !.leds = IF kbc.mask /\ v < 8 THEN v ELSE kbc.leds]
  BY DEF Controller
<1>7. \/ kbc' = [kbc EXCEPT !.ibf = Empty, !.asKey = (v = 210)]
      \/ kbc' = [kbc EXCEPT !.ibf = Empty, !.asKey = FALSE, !.keys = Append(kbc.keys, v)]
      \/ kbc' = [kbc EXCEPT !.ibf = Empty, !.mask = (v = 237),
                            !.leds = IF kbc.mask /\ v < 8 THEN v ELSE kbc.leds]
  BY <1>2, <1>6
<1> HIDE DEF p, v
<1>8. CASE kbc' = [kbc EXCEPT !.ibf = Empty, !.asKey = (v = 210)]
  BY <1>5, <1>8, Zenon DEF KbcTyped
<1>9. CASE kbc' = [kbc EXCEPT !.ibf = Empty, !.asKey = FALSE, !.keys = Append(kbc.keys, v)]
  BY <1>3, <1>5, <1>9, Zenon DEF KbcTyped
<1>10. CASE kbc' = [kbc EXCEPT !.ibf = Empty, !.mask = (v = 237),
                               !.leds = IF kbc.mask /\ v < 8 THEN v ELSE kbc.leds]
  BY <1>4, <1>5, <1>10, Zenon DEF KbcTyped
<1> QED BY <1>7, <1>8, <1>9, <1>10

LEMMA IsLow ==
  /\ Empty \in Lows /\ \A b \in Byte : <<b>> \in Lows
  /\ \A s \in Lows : s # Empty => s[1] \in Byte
BY DEF Lows

LEMMA ToPitTyped ==
  ASSUME PitTyped, NEW p \in {"0x42", "0x43", "0x61"}, NEW v \in Byte, ToPit(p, v)
  PROVE  PitTyped'
<1>1. \/ pit' = [pit EXCEPT !.port61 = v]
      \/ pit' = [pit EXCEPT !.low = Empty]
      \/ pit' = [pit EXCEPT !.low = <<v>>]
      \/ pit.low # Empty /\ pit' = [pit EXCEPT !.low = Empty, !.div = pit.low[1] + 256 * v]
  BY DEF ToPit
<1>a. pit.low \in Lows /\ <<v>> \in Lows
  BY IsLow DEF PitTyped
<1>2. CASE pit' = [pit EXCEPT !.port61 = v]
  BY <1>2 DEF PitTyped
<1>3. CASE pit' = [pit EXCEPT !.low = Empty]
  BY <1>3, IsLow DEF PitTyped
<1>4. CASE pit' = [pit EXCEPT !.low = <<v>>]
  BY <1>4, <1>a DEF PitTyped
<1>5. CASE pit.low # Empty /\ pit' = [pit EXCEPT !.low = Empty, !.div = pit.low[1] + 256 * v]
  <2>1. pit.low[1] \in Byte
    BY <1>5, <1>a, IsLow
  <2>2. /\ pit.low[1] \in Int /\ 0 <= pit.low[1] /\ pit.low[1] <= 255
        /\ v \in Int /\ 0 <= v /\ v <= 255
    BY <2>1, IsByte
  <2> DEFINE d == pit.low[1] + 256 * v
  <2>3. d \in Nat /\ d < 256 * 256
    BY <2>2, SMT
  <2>4. pit' = [pit EXCEPT !.low = Empty, !.div = d]
    BY <1>5
  <2> HIDE DEF d
  <2>5. pit \in [port61 : Byte, low : Lows, div : Nat]
    BY DEF PitTyped
  <2>6. d \in Nat
    BY <2>3
  <2>7. pit' \in [port61 : Byte, low : Lows, div : Nat] /\ pit'.div = d
    BY <2>4, <2>5, <2>6, IsLow
  <2> QED BY <2>3, <2>7 DEF PitTyped
<1> QED BY <1>1, <1>2, <1>3, <1>4, <1>5

LEMMA Triple ==
  ASSUME NEW s \in Seq(Sixbit), Len(s) = 3
  PROVE  s \in Colours
<1>1. \A h \in 1 .. 3 : s[h] \in Sixbit
  OBVIOUS
<1>2. s \in [1 .. 3 -> Sixbit]
  OBVIOUS
<1>3. s = <<s[1], s[2], s[3]>>
  BY <1>2
<1> QED BY <1>1, <1>3 DEF Colours

LEMMA ToDacTyped ==
  ASSUME DacTyped, NEW p \in {"0x3c8", "0x3c9"}, NEW v \in Byte, ToDac(p, v)
  PROVE  DacTyped'
<1> DEFINE rgb == Append(dac.rgb, v % 64)
<1>1. v % 64 \in Sixbit
  <2>1. v \in Int
    BY IsByte
  <2> QED BY <2>1, IsSixbit
<1>2. rgb \in Seq(Sixbit) /\ Len(rgb) = Len(dac.rgb) + 1 /\ Len(dac.rgb) \in Nat
      /\ Len(dac.rgb) < 3
  BY <1>1 DEF DacTyped
<1>3. Empty \in Seq(Sixbit) /\ Len(Empty) = 0
  BY DEF Empty
<1>4. \/ dac' = [dac EXCEPT !.index = v, !.rgb = Empty]
      \/ Len(rgb) < 3 /\ dac' = [dac EXCEPT !.rgb = rgb]
      \/ /\ Len(rgb) = 3
         /\ dac' = [index |-> (dac.index + 1) % 256, rgb |-> Empty,
                    palette |-> [dac.palette EXCEPT ![dac.index] = rgb]]
  BY <1>2 DEF ToDac
<1> HIDE DEF rgb
<1>5. CASE dac' = [dac EXCEPT !.index = v, !.rgb = Empty]
  <2>1. dac'.rgb = Empty
    BY <1>5, Zenon DEF DacTyped
  <2>2. dac' \in [index : Byte, rgb : Seq(Sixbit), palette : [Cell -> Colours]]
    BY <1>3, <1>5, Zenon DEF DacTyped
  <2> QED BY <1>3, <2>1, <2>2 DEF DacTyped
<1>6. CASE Len(rgb) < 3 /\ dac' = [dac EXCEPT !.rgb = rgb]
  BY <1>2, <1>6 DEF DacTyped
<1>7. CASE /\ Len(rgb) = 3
           /\ dac' = [index |-> (dac.index + 1) % 256, rgb |-> Empty,
                      palette |-> [dac.palette EXCEPT ![dac.index] = rgb]]
  <2>1. rgb \in Colours
    BY <1>2, <1>7, Triple
  <2>2. dac.index \in Int
    BY IsByte DEF DacTyped
  <2>3. (dac.index + 1) % 256 \in Int /\ 0 <= (dac.index + 1) % 256
        /\ (dac.index + 1) % 256 <= 255
    BY <2>2, SMT
  <2>4. (dac.index + 1) % 256 \in Byte
    BY <2>3, IsByte
  <2>5. [dac.palette EXCEPT ![dac.index] = rgb] \in [Cell -> Colours]
    BY <2>1 DEF DacTyped
  <2> QED BY <1>3, <1>7, <2>4, <2>5 DEF DacTyped
<1> QED BY <1>4, <1>5, <1>6, <1>7

PortInv ==
  CtlInv /\ CmosTyped /\ KbcTyped /\ PitTyped /\ DacTyped /\ MachineTyped

LEMMA MachineStep ==
  ASSUME CtlInv, MachineTyped, [PortNext]_portVars
  PROVE  MachineTyped'
<1>1. CASE Quiet
  <2>1. Controller => power' \in {"reset", power}
    BY DEF Controller
  <2> QED BY <1>1, <2>1 DEF Quiet, MachineTyped
<1>2. ASSUME NEW t \in users, Execute(t)
      PROVE  MachineTyped'
  <2>1. apart' = apart
    BY <1>2, StepOf
  <2>2. disk' \in {disk, "clean"}
    BY <1>2 DEF Execute, Jump, Output, Input, Flags, FallThrough, PortRead, PortWrite,
                Sync, devs
  <2>3. power' \in {power, "s5", "pulse", "reset"}
    <3>1. CASE Output(t)
      BY <3>1, OutputOf DEF ToKbc, ToCmos, ToPit, ToDac, ToReset
    <3>2. CASE PortWrite(t)
      BY <3>2 DEF PortWrite
    <3>3. CASE ~Output(t) /\ ~PortWrite(t)
      BY <1>2, <3>3 DEF Execute, Jump, Input, Flags, FallThrough, PortRead, Sync, devs
    <3> QED BY <3>1, <3>2, <3>3
  <2> QED BY <2>1, <2>2, <2>3 DEF MachineTyped
<1> QED BY <1>1, <1>2, Cases

LEMMA DeviceStep ==
  ASSUME PortInv, [PortNext]_portVars
  PROVE  KbcTyped' /\ PitTyped' /\ DacTyped'
<1> USE DEF PortInv
<1>1. CASE Quiet
  <2>1. KbcTyped'
    <3>1. CASE Controller
      BY <3>1, ControllerTyped
    <3>2. CASE UNCHANGED kbc
      BY <3>2 DEF KbcTyped
    <3> QED BY <1>1, <3>1, <3>2 DEF Quiet
  <2>2. UNCHANGED <<pit, dac>>
    BY <1>1 DEF Quiet
  <2> QED BY <2>1, <2>2 DEF PitTyped, DacTyped
<1>2. ASSUME NEW t \in users, Execute(t)
      PROVE  KbcTyped' /\ PitTyped' /\ DacTyped'
  <2>1. CASE ~Output(t)
    <3>1. UNCHANGED <<kbc, pit, dac>>
      BY <1>2, <2>1 DEF Execute, Jump, Input, Flags, FallThrough, PortRead, PortWrite, Sync, devs
    <3> QED BY <3>1 DEF KbcTyped, PitTyped, DacTyped
  <2>2. CASE Output(t)
    <3> DEFINE p == Instr(t).port
               v == Instr(t).val
    <3>1. \/ UNCHANGED <<kbc, pit, dac>>
          \/ p \in {"0x60", "0x64"} /\ v \in Byte /\ ToKbc(p, v)
          \/ p \in {"0x42", "0x43", "0x61"} /\ v \in Byte /\ ToPit(p, v)
          \/ p \in {"0x3c8", "0x3c9"} /\ v \in Byte /\ ToDac(p, v)
      BY <2>2, OutputOf DEF ToCmos, ToReset
    <3> HIDE DEF p, v
    <3>2. CASE UNCHANGED <<kbc, pit, dac>>
      BY <3>2 DEF KbcTyped, PitTyped, DacTyped
    <3>3. CASE p \in {"0x60", "0x64"} /\ v \in Byte /\ ToKbc(p, v)
      <4>1. UNCHANGED <<pit, dac>>
        BY <3>3 DEF ToKbc
      <4> QED BY <3>3, <4>1, ToKbcTyped DEF PitTyped, DacTyped
    <3>4. CASE p \in {"0x42", "0x43", "0x61"} /\ v \in Byte /\ ToPit(p, v)
      <4>1. UNCHANGED <<kbc, dac>>
        BY <3>4 DEF ToPit
      <4> QED BY <3>4, <4>1, ToPitTyped DEF KbcTyped, DacTyped
    <3>5. CASE p \in {"0x3c8", "0x3c9"} /\ v \in Byte /\ ToDac(p, v)
      <4>1. UNCHANGED <<kbc, pit>>
        BY <3>5 DEF ToDac
      <4> QED BY <3>5, <4>1, ToDacTyped DEF KbcTyped, PitTyped
    <3> QED BY <3>1, <3>2, <3>3, <3>4, <3>5
  <2> QED BY <2>1, <2>2
<1> QED BY <1>1, <1>2, Cases

LEMMA PortInitHolds == PortInit => PortInv
<1> SUFFICES ASSUME PortInit PROVE PortInv
  OBVIOUS
<1>1. users \subseteq Programs /\ apart \in BOOLEAN
  BY CompaniesAssumption DEF PortInit, Programs
<1>2. CtlInv
  <2>1. ip = [t \in users |-> 1] /\ got = [t \in users |-> Empty] /\ killed = {} /\ cli = {}
    BY DEF PortInit
  <2>2. \A t \in users : Len(Prog[t]) \in Nat
    BY <1>1, ProgramsSound
  <2>3. \A t \in users : ip[t] \in 1 .. Len(Prog[t]) + 1
    BY <2>1, <2>2
  <2>4. Empty \in Seq(Byte)
    BY DEF Empty
  <2> QED BY <1>1, <2>1, <2>3, <2>4 DEF CtlInv
<1>3. CmosTyped
  <2>1. \A a \in Cell : a \in Byte
    BY IsByte DEF Cell
  <2>2. cmos = [index |-> 0, ram |-> [a \in Cell |-> a]]
    BY DEF PortInit
  <2>3. 0 \in Cell
    BY DEF Cell
  <2>4. "cmos-reset" \in users => ip["cmos-reset"] = 1
    BY DEF PortInit
  <2>5. cmos \in [index : Cell, ram : [Cell -> Byte]]
    BY <2>1, <2>2, <2>3
  <2> QED BY <2>4, <2>5 DEF CmosTyped
<1>4. KbcTyped
  <2>1. 0 \in Masks /\ Empty \in Seq(Byte) /\ FALSE \in BOOLEAN
    BY IsMask DEF Empty
  <2>2. kbc = [ibf |-> Empty, lost |-> FALSE, asKey |-> FALSE, keys |-> Empty,
               mask |-> FALSE, leds |-> 0]
    BY DEF PortInit
  <2> QED BY <2>1, <2>2, Zenon DEF KbcTyped
<1>5. PitTyped
  <2>1. 0 \in Byte /\ Empty \in Lows /\ 0 \in Nat
    BY IsByte, IsLow
  <2>2. pit = [port61 |-> 0, low |-> Empty, div |-> 0]
    BY DEF PortInit
  <2>3. pit \in [port61 : Byte, low : Lows, div : Nat] /\ pit.div = 0
    BY <2>1, <2>2
  <2> QED BY <2>3 DEF PitTyped
<1>6. DacTyped
  <2>1. 0 \in Byte /\ 7 \in Sixbit
    BY IsByte, IsSixbit
  <2>2. dac = [index |-> 0, rgb |-> Empty, palette |-> [h \in Cell |-> <<7, 7, 7>>]]
    BY DEF PortInit
  <2>3. <<7, 7, 7>> \in Colours
    BY <2>1 DEF Colours
  <2>4. Empty \in Seq(Sixbit) /\ Len(Empty) = 0
    BY DEF Empty
  <2>5. dac \in [index : Byte, rgb : Seq(Sixbit), palette : [Cell -> Colours]]
        /\ dac.rgb = Empty
    BY <2>1, <2>2, <2>3, <2>4
  <2> QED BY <2>4, <2>5 DEF DacTyped
<1>7. MachineTyped
  BY <1>1 DEF MachineTyped, PortInit
<1> QED BY <1>2, <1>3, <1>4, <1>5, <1>6, <1>7 DEF PortInv

LEMMA PortInvariant == PortSpec => []PortInv
<1>1. PortInit => PortInv
  BY PortInitHolds
<1>2. PortInv /\ [PortNext]_portVars => PortInv'
  BY CtlStep, CmosStep, DeviceStep, MachineStep DEF PortInv
<1> QED BY <1>1, <1>2, PTL DEF PortSpec

LEMMA PortInvTyped == PortInv => PortTypeOK
<1> SUFFICES ASSUME PortInv PROVE PortTypeOK
  OBVIOUS
<1>1. users \subseteq Tools \cup Kernel /\ killed \subseteq users /\ cli \subseteq users
  BY DEF PortInv, CtlInv, Programs
<1>2. \A t \in users : ip[t] \in 1 .. Len(Prog[t]) + 1 /\ got[t] \in Seq(Byte)
  BY DEF PortInv, CtlInv
<1>3. kbc \in [ibf : {Empty} \cup ({"0x60", "0x64"} \X Byte), lost : BOOLEAN,
               asKey : BOOLEAN, keys : Seq(Byte), mask : BOOLEAN, leds : 0 .. 7]
  BY Zenon DEF PortInv, KbcTyped, Masks
<1>4. cmos.index \in Cell /\ cmos.ram \in [Cell -> Byte]
  BY DEF PortInv, CmosTyped
<1>5. pit \in [port61 : Byte, low : Lows, div : Nat] /\ pit.div < 256 * 256
  BY DEF PortInv, PitTyped
<1>6. pit.port61 \in Byte /\ pit.low \in Lows /\ pit.div \in Nat
  BY <1>5
<1>7. pit.low \in {Empty} \cup {<<b>> : b \in Byte}
  BY <1>6 DEF Lows
<1>8. dac.index \in Byte /\ Len(dac.rgb) < 3 /\ \A h \in Cell : dac.palette[h] \in Colours
  BY DEF PortInv, DacTyped
<1>9. \A h \in Cell : dac.palette[h] \in (0 .. 63) \X (0 .. 63) \X (0 .. 63)
  BY <1>8, Zenon DEF Colours, Sixbit
<1>10. apart \in BOOLEAN
  BY Zenon DEF PortInv, MachineTyped
<1>11. disk \in {"dirty", "clean"} /\ power \in {"on", "s5", "pulse", "reset"}
  BY DEF PortInv, MachineTyped
<1> QED BY <1>1, <1>2, <1>3, <1>4, <1>5, <1>6, <1>7, <1>8, <1>9, <1>10, <1>11, Zenon
        DEF PortTypeOK

(* Whatever programs run next to one another, a program's counter stays in *)
(* its text or just after it, what it reads are bytes, and every register  *)
(* of a device keeps to its width (hello[] + 0x80, the divisor of a tone). *)
THEOREM PortTypesHold == PortSpec => []PortTypeOK
BY PortInvariant, PortInvTyped, PTL

Registers == {"evta", "evtb", "cnta", "cntb"}

(* What halt has made of the registers when it is at its k-th instruction. *)
HaltAt(k) ==
  /\ k <= 9 => \A r \in DOMAIN pm : "slp_en" \notin pm[r]
  /\ k >= 8 => S5 \subseteq val /\ S5 \subseteq pm["cnta"]
  /\ k >= 9 => ("cntb" \in DOMAIN pm => S5 \subseteq pm["cntb"])
  /\ k >= 10 => "slp_en" \in pm["cnta"]
  /\ k >= 10 => ("cntb" \notin DOMAIN pm => power = "s5")
  /\ k >= 11 => power = "s5"

HaltInv ==
  /\ DOMAIN pm \subseteq Registers /\ "cnta" \in DOMAIN pm
  /\ \A r \in DOMAIN pm \cap Event : "slp_en" \notin pm[r]
  /\ \A r \in DOMAIN pm \ Event : "btn_sts" \notin pm[r]
  /\ IF "halt" \in users THEN HaltAt(ip["halt"]) ELSE HaltAt(1)

HaltDisciplined ==
  \A r \in DOMAIN pm :
     /\ "slp_en" \in pm'[r] => \A q \in DOMAIN pm \ Event : S5 \subseteq pm[q]
     /\ "btn_sts" \in pm[r] => "btn_sts" \in pm'[r]

LEMMA HaltFetch ==
  ASSUME CtlInv, "halt" \in users, Execute("halt")
  PROVE  /\ ip["halt"] \in 1 .. 10 /\ Instr("halt") = Halt[ip["halt"]]
         /\ ip' = [ip EXCEPT !["halt"] = ip["halt"] + 1]
         /\ ip'["halt"] = ip["halt"] + 1
         /\ PortRead("halt") \/ PortWrite("halt")
         /\ power \in {"on", "pulse"}
<1>1. Running("halt")
  BY StepOf
<1>2. ip["halt"] \in 1 .. 10 /\ Instr("halt") = Halt[ip["halt"]]
  BY <1>1, Fetch, Texts, HaltText
<1>3. "halt" \notin KbcUsers /\ "halt" \notin CmosUsers /\ "halt" \notin Beepers
      /\ "halt" \notin DacUsers
  BY DEF KbcUsers, CmosUsers, Beepers, DacUsers
<1>4. ip' = [ip EXCEPT !["halt"] = ip["halt"] + 1]
  BY <1>3, Advances, KindOf DEF NextInstr
<1>5. ip'["halt"] = ip["halt"] + 1
  BY <1>4 DEF CtlInv
<1>6. Instr("halt").op \in {"load", "join", "store", "storeif"}
  BY <1>1, Fetch DEF Sound, PowerCode
<1>7. PortRead("halt") \/ PortWrite("halt")
  BY <1>6 DEF Execute, Jump, Output, Input, Flags, FallThrough, Sync
<1> QED BY <1>1, <1>2, <1>4, <1>5, <1>7 DEF Running, On

LEMMA HaltReads ==
  ASSUME CtlInv, HaltInv, "halt" \in users, PortRead("halt"), Execute("halt")
  PROVE  HaltInv' /\ HaltDisciplined
<1>1. ip["halt"] \in 1 .. 10 /\ Instr("halt") = Halt[ip["halt"]]
      /\ ip'["halt"] = ip["halt"] + 1
  BY HaltFetch
<1>2. ip["halt"] \in {1, 2, 5, 6}
  <2>1. Instr("halt").op \in {"load", "join"}
    BY DEF PortRead
  <2> QED BY <1>1, <2>1, HaltText DEF Store, StoreIf, Op
<1>3. UNCHANGED <<pm, users, power>>
  BY DEF PortRead
<1>4. HaltAt(ip["halt"]) /\ "halt" \in users'
  BY <1>3 DEF HaltInv
<1>5. \A r \in DOMAIN pm : "slp_en" \notin pm[r]
  BY <1>2, <1>4 DEF HaltAt
<1>6. (HaltAt(ip["halt"]))'
  BY <1>1, <1>2, <1>3, <1>5 DEF HaltAt
<1>7. HaltInv'
  BY <1>3, <1>4, <1>6 DEF HaltInv
<1>8. HaltDisciplined
  BY <1>3, <1>5 DEF HaltDisciplined
<1> QED BY <1>7, <1>8

LEMMA HaltEvents ==
  ASSUME CtlInv, HaltInv, "halt" \in users, PortWrite("halt"), Execute("halt"),
         ip["halt"] \in {3, 4}
  PROVE  HaltInv' /\ HaltDisciplined
<1>1. Instr("halt") = Halt[ip["halt"]] /\ ip'["halt"] = ip["halt"] + 1
  BY HaltFetch
<1>2. PICK r \in Event : Instr("halt") = StoreIf(r, {"wak_sts"}, {})
  BY <1>1, HaltText DEF Event
<1> DEFINE v == val \cap {"wak_sts"}
<1>3. Instr("halt").op = "storeif" /\ Instr("halt").port = r
      /\ Instr("halt").val.keep = {"wak_sts"} /\ Instr("halt").val.add = {}
  BY <1>2 DEF StoreIf, Op
<1>4. (val \cap Instr("halt").val.keep) \cup Instr("halt").val.add = v
  BY <1>3
<1>5. users' = users /\ \/ UNCHANGED <<pm, power>>
                        \/ /\ r \in DOMAIN pm
                           /\ pm' = [pm EXCEPT ![r] = PmWrite(r, v)]
                           /\ power' = IF Asleep(pm') THEN "s5" ELSE power
  BY <1>3, <1>4 DEF PortWrite
<1>6. PmWrite(r, v) = (pm[r] \ (v \cup {"btn_en"})) \cup (v \cap {"btn_en"})
  BY DEF PmWrite
<1>7. "slp_en" \notin pm[r] => "slp_en" \notin PmWrite(r, v)
  BY <1>6
<1>8. "btn_sts" \in pm[r] => "btn_sts" \in PmWrite(r, v)
  BY <1>6
<1> HIDE DEF v
<1>9. HaltAt(ip["halt"])
  BY DEF HaltInv
<1>10. \A q \in DOMAIN pm : "slp_en" \notin pm[q]
  BY <1>9 DEF HaltAt
<1>11. DOMAIN pm' = DOMAIN pm /\ \A q \in DOMAIN pm : q # r => pm'[q] = pm[q]
  BY <1>5
<1>12. r \in DOMAIN pm => pm'[r] \in {pm[r], PmWrite(r, v)}
  BY <1>5
<1>13. \A q \in DOMAIN pm : "slp_en" \notin pm'[q]
  BY <1>7, <1>10, <1>11, <1>12
<1>14. HaltDisciplined
  BY <1>8, <1>11, <1>12, <1>13 DEF HaltDisciplined
<1>15. \A q \in DOMAIN pm \ Event : "btn_sts" \notin pm'[q]
  BY <1>11 DEF HaltInv
<1>16. (HaltAt(ip["halt"]))'
  BY <1>1, <1>11, <1>13 DEF HaltAt
<1>17. HaltInv'
  BY <1>5, <1>11, <1>13, <1>15, <1>16 DEF HaltInv
<1> QED BY <1>14, <1>17

LEMMA HaltTypes ==
  ASSUME CtlInv, HaltInv, "halt" \in users, PortWrite("halt"), Execute("halt"),
         ip["halt"] \in {7, 8}
  PROVE  HaltInv' /\ HaltDisciplined
<1> DEFINE k == ip["halt"]
           r == IF k = 7 THEN "cnta" ELSE "cntb"
           v == (val \cap Others) \cup S5
<1>1. Instr("halt") = Halt[k] /\ ip'["halt"] = k + 1
  BY HaltFetch
<1>2. Instr("halt") = Store(r, Others, S5)
  BY <1>1, HaltText
<1>3. Instr("halt").op = "store" /\ Instr("halt").port = r
      /\ Instr("halt").val.keep = Others /\ Instr("halt").val.add = S5
  BY <1>2 DEF Store, Op
<1>4. (val \cap Instr("halt").val.keep) \cup Instr("halt").val.add = v
  BY <1>3
<1> HIDE DEF r, v
<1>5. users' = users /\ val' = v
      /\ IF r \notin DOMAIN pm THEN UNCHANGED <<pm, power>>
         ELSE /\ pm' = [pm EXCEPT ![r] = PmWrite(r, v)]
              /\ power' = IF Asleep(pm') THEN "s5" ELSE power
  BY <1>3, <1>4 DEF PortWrite
<1>6. r \in {"cnta", "cntb"} /\ (k = 7 => r = "cnta") /\ (k = 8 => r = "cntb")
  BY DEF r
<1>7. PmWrite(r, v) = v
  BY <1>6 DEF PmWrite, Event
<1>8. S5 \subseteq v /\ "slp_en" \notin v /\ "btn_sts" \notin v
  BY DEF v, Others, S5, SleepType
<1>9. HaltAt(k) /\ "cnta" \in DOMAIN pm /\ DOMAIN pm \subseteq Registers
  BY DEF HaltInv
<1>10. \A q \in DOMAIN pm : "slp_en" \notin pm[q]
  BY <1>9 DEF HaltAt
<1>11. DOMAIN pm' = DOMAIN pm /\ (r \in DOMAIN pm => pm'[r] = v)
       /\ \A q \in DOMAIN pm : q # r => pm'[q] = pm[q]
  BY <1>5, <1>7
<1>12. \A q \in DOMAIN pm : "slp_en" \notin pm'[q]
  BY <1>8, <1>10, <1>11
<1>13. \A q \in DOMAIN pm \ Event : "btn_sts" \notin pm[q]
  BY DEF HaltInv
<1>14. \A q \in DOMAIN pm \ Event : "btn_sts" \notin pm'[q]
  BY <1>8, <1>11, <1>13
<1>15. \A q \in DOMAIN pm : "btn_sts" \in pm[q] => "btn_sts" \in pm'[q]
  <2>1. r \in DOMAIN pm => r \in DOMAIN pm \ Event
    BY <1>6 DEF Event
  <2> QED BY <1>11, <1>13, <2>1
<1>16. HaltDisciplined
  BY <1>12, <1>15 DEF HaltDisciplined
<1>17. S5 \subseteq pm'["cnta"]
  <2>1. k = 8 => S5 \subseteq pm["cnta"]
    BY <1>9 DEF HaltAt
  <2> QED BY <1>6, <1>8, <1>9, <1>11, <2>1
<1>18. k = 8 /\ "cntb" \in DOMAIN pm => S5 \subseteq pm'["cntb"]
  BY <1>6, <1>8, <1>11
<1>19. (HaltAt(ip["halt"]))'
  BY <1>1, <1>5, <1>8, <1>11, <1>12, <1>17, <1>18 DEF HaltAt
<1>20. HaltInv'
  BY <1>5, <1>9, <1>11, <1>12, <1>14, <1>19 DEF HaltInv
<1> QED BY <1>16, <1>20

LEMMA HaltEnables ==
  ASSUME CtlInv, HaltInv, "halt" \in users, PortWrite("halt"), Execute("halt"),
         ip["halt"] \in {9, 10}
  PROVE  HaltInv' /\ HaltDisciplined
<1> DEFINE k == ip["halt"]
           r == IF k = 9 THEN "cnta" ELSE "cntb"
           v == (val \cap (Others \cup S5)) \cup {"slp_en"}
<1>1. Instr("halt") = Halt[k] /\ ip'["halt"] = k + 1 /\ power \in {"on", "pulse"}
  BY HaltFetch
<1>2. Instr("halt") = Store(r, Others \cup S5, {"slp_en"})
  BY <1>1, HaltText
<1>3. Instr("halt").op = "store" /\ Instr("halt").port = r
      /\ Instr("halt").val.keep = Others \cup S5 /\ Instr("halt").val.add = {"slp_en"}
  BY <1>2 DEF Store, Op
<1>4. (val \cap Instr("halt").val.keep) \cup Instr("halt").val.add = v
  BY <1>3
<1>5. HaltAt(k) /\ "cnta" \in DOMAIN pm /\ DOMAIN pm \subseteq Registers
  BY DEF HaltInv
<1>6. /\ S5 \subseteq val /\ S5 \subseteq pm["cnta"]
      /\ "cntb" \in DOMAIN pm => S5 \subseteq pm["cntb"]
      /\ k = 10 => "slp_en" \in pm["cnta"] /\ "cntb" \in DOMAIN pm
  BY <1>1, <1>5 DEF HaltAt
<1>7. S5 \cup {"slp_en"} \subseteq v /\ "btn_sts" \notin v
  BY <1>6 DEF v, Others, S5, SleepType
<1> HIDE DEF r, v
<1>8. users' = users /\ val' = v
      /\ IF r \notin DOMAIN pm THEN UNCHANGED <<pm, power>>
         ELSE /\ pm' = [pm EXCEPT ![r] = PmWrite(r, v)]
              /\ power' = IF Asleep(pm') THEN "s5" ELSE power
  BY <1>3, <1>4 DEF PortWrite
<1>9. r \in {"cnta", "cntb"} /\ (k = 9 => r = "cnta") /\ (k = 10 => r = "cntb")
  BY DEF r
<1>10. r \in DOMAIN pm
  BY <1>5, <1>6, <1>9
<1>11. PmWrite(r, v) = v
  BY <1>9 DEF PmWrite, Event
<1>12. DOMAIN pm' = DOMAIN pm /\ pm'[r] = v
       /\ \A q \in DOMAIN pm : q # r => pm'[q] = pm[q]
  BY <1>8, <1>10, <1>11
<1>13. \A q \in DOMAIN pm \ Event : q \in {"cnta", "cntb"}
  BY <1>5 DEF Event, Registers
<1>14. \A q \in DOMAIN pm \ Event : S5 \subseteq pm[q]
  BY <1>6, <1>13
<1>15. \A q \in DOMAIN pm \ Event : "btn_sts" \notin pm[q]
  BY DEF HaltInv
<1>16. \A q \in DOMAIN pm \ Event : "btn_sts" \notin pm'[q]
  BY <1>7, <1>12, <1>15
<1>17. r \notin Event
  BY <1>9 DEF Event
<1>18. HaltDisciplined
  BY <1>10, <1>12, <1>14, <1>15, <1>17 DEF HaltDisciplined
<1>19. S5 \subseteq pm'["cnta"] /\ "slp_en" \in pm'["cnta"]
       /\ ("cntb" \in DOMAIN pm => S5 \subseteq pm'["cntb"])
  BY <1>5, <1>6, <1>7, <1>9, <1>12
<1>20. S5 \subseteq val'
  BY <1>7, <1>8
<1>21. k = 10 \/ "cntb" \notin DOMAIN pm => power' = "s5"
  <2>1. ASSUME k = 10 \/ "cntb" \notin DOMAIN pm
        PROVE  Asleep(pm')
    BY <1>7, <1>9, <1>12, <1>13, <1>19, <2>1 DEF Asleep
  <2> QED BY <1>8, <1>10, <2>1
<1>22. (HaltAt(ip["halt"]))'
  BY <1>1, <1>12, <1>19, <1>20, <1>21 DEF HaltAt
<1>23. \A q \in DOMAIN pm \cap Event : "slp_en" \notin pm'[q]
  BY <1>12, <1>17 DEF HaltInv
<1>24. HaltInv'
  BY <1>5, <1>8, <1>12, <1>16, <1>22, <1>23 DEF HaltInv
<1> QED BY <1>18, <1>24

LEMMA HaltStep ==
  ASSUME CtlInv, HaltInv, [PortNext]_portVars
  PROVE  HaltInv' /\ HaltDisciplined
<1> DEFINE k == IF "halt" \in users THEN ip["halt"] ELSE 1
<1>0. HaltAt(k) /\ k \in Nat
  BY DEF HaltInv, CtlInv
<1>a. ASSUME UNCHANGED <<users, val>>, k' = k,
             DOMAIN pm' = DOMAIN pm,
             \A r \in DOMAIN pm : \A b \in S5 \cup {"slp_en"} : b \in pm'[r] <=> b \in pm[r],
             \A r \in DOMAIN pm \ Event : pm'[r] = pm[r],
             power = "s5" => power' = "s5"
      PROVE  HaltInv'
  <2>1. "cnta" \in DOMAIN pm \ Event /\ "cntb" \notin Event
    BY DEF HaltInv, Event
  <2>2. (HaltAt(k))'
    BY <1>0, <1>a, <2>1 DEF HaltAt
  <2> QED BY <1>0, <1>a, <2>2 DEF HaltInv
<1>b. (\A r \in DOMAIN pm : "slp_en" \notin pm[r])
      \/ \A q \in DOMAIN pm \ Event : S5 \subseteq pm[q]
  <2>1. CASE k <= 9
    BY <1>0, <2>1 DEF HaltAt
  <2>2. CASE k >= 9
    BY <1>0, <2>2 DEF HaltAt, HaltInv, Registers, Event
  <2> QED BY <1>0, <2>1, <2>2
<1>1. CASE UNCHANGED <<pm, val, users>> /\ k' = k /\ (power = "s5" => power' = "s5")
  BY <1>1, <1>a, <1>b DEF HaltDisciplined
<1>2. CASE Quiet
  <2>1. k' = k /\ UNCHANGED <<users, val>>
    BY <1>2 DEF Quiet
  <2>2. power = "s5" => power' = "s5"
    BY <1>2 DEF Quiet, Controller, On
  <2>3. CASE UNCHANGED pm
    BY <1>1, <2>1, <2>2, <2>3
  <2>4. CASE Button
    <3>1. PICK r \in DOMAIN pm \cap Event : pm' = [pm EXCEPT ![r] = pm[r] \cup {"btn_sts"}]
      BY <2>4 DEF Button
    <3>2. DOMAIN pm' = DOMAIN pm /\ pm'[r] = pm[r] \cup {"btn_sts"}
          /\ \A q \in DOMAIN pm : q # r => pm'[q] = pm[q]
      BY <3>1
    <3>3. \A q \in DOMAIN pm : \A b \in S5 \cup {"slp_en"} : b \in pm'[q] <=> b \in pm[q]
      BY <3>2 DEF S5, SleepType
    <3>4. HaltInv'
      BY <1>a, <2>1, <2>2, <3>1, <3>2, <3>3
    <3>5. HaltDisciplined
      BY <1>b, <3>2, <3>3 DEF HaltDisciplined
    <3> QED BY <3>4, <3>5
  <2> QED BY <1>2, <2>3, <2>4 DEF Quiet
<1>3. ASSUME NEW t \in users, Execute(t), t # "halt"
      PROVE  HaltInv' /\ HaltDisciplined
  <2>1. UNCHANGED <<pm, val>>
    BY <1>3, Frames
  <2>2. users' = users /\ Running(t) /\ \E n \in 1 .. Len(Prog[t]) + 1 : ip' = [ip EXCEPT ![t] = n]
    BY <1>3, StepOf
  <2>3. k' = k
    BY <1>3, <2>2 DEF CtlInv
  <2>4. power # "s5"
    BY <2>2 DEF Running, On
  <2> QED BY <1>1, <2>1, <2>2, <2>3, <2>4
<1>4. ASSUME "halt" \in users, Execute("halt")
      PROVE  HaltInv' /\ HaltDisciplined
  <2>1. ip["halt"] \in 1 .. 10 /\ Instr("halt") = Halt[ip["halt"]]
        /\ (PortRead("halt") \/ PortWrite("halt"))
    BY <1>4, HaltFetch
  <2>2. CASE PortRead("halt")
    BY <1>4, <2>2, HaltReads
  <2>3. CASE PortWrite("halt")
    <3>1. ip["halt"] \in {3, 4, 7, 8, 9, 10}
      <4>1. Instr("halt").op \in {"store", "storeif"}
        BY <2>3 DEF PortWrite
      <4> QED BY <2>1, <4>1, HaltText DEF Load, Join, Op
    <3> QED BY <1>4, <2>3, <3>1, HaltEvents, HaltTypes, HaltEnables
  <2> QED BY <2>1, <2>2, <2>3
<1> QED BY <1>2, <1>3, <1>4, Cases

LEMMA HaltInit == PortInit => HaltInv
<1> SUFFICES ASSUME PortInit PROVE HaltInv
  OBVIOUS
<1>1. "halt" \in users => ip["halt"] = 1
  BY DEF PortInit
<1>2. CASE "halt" \in users
  <2>1. pm \in Machines
    BY <1>2 DEF PortInit
  <2>2. /\ DOMAIN pm \subseteq Registers /\ "cnta" \in DOMAIN pm
        /\ \A r \in DOMAIN pm : "slp_en" \notin pm[r] /\ "btn_sts" \notin pm[r]
    BY <2>1 DEF Machines, Registers
  <2> QED BY <1>1, <1>2, <2>2 DEF HaltInv, HaltAt
<1>3. CASE "halt" \notin users
  <2>1. pm = [evta |-> {}, cnta |-> {}]
    BY <1>3 DEF PortInit
  <2> QED BY <1>3, <2>1 DEF HaltInv, HaltAt, Registers
<1> QED BY <1>2, <1>3

(* halt sets slp_en only when every control register has the type S5, and  *)
(* never acknowledges a press of the power button (halt.c:93-106).         *)
THEOREM HaltsInOrder == PortSpec => HaltDiscipline
<1>1. PortInit => HaltInv
  BY HaltInit
<1>2. PortInv /\ HaltInv /\ [PortNext]_portVars =>
        /\ HaltInv'
        /\ [\A r \in DOMAIN pm :
              /\ "slp_en" \in pm'[r] => \A q \in DOMAIN pm \ Event : S5 \subseteq pm[q]
              /\ "btn_sts" \in pm[r] => "btn_sts" \in pm'[r]]_portVars
  BY HaltStep DEF PortInv, HaltDisciplined
<1> QED BY <1>1, <1>2, PortInvariant, PTL DEF PortSpec, HaltDiscipline

(***************************************************************************)
(* cmos-reset, when every other user of the RAM is on its processor.       *)
(***************************************************************************)
Inverted(k) == (IF k > 5 THEN {46} ELSE {}) \cup (IF k > 9 THEN {47} ELSE {})

ResetAt(k) ==
  /\ \A a \in Cell \ {0} : cmos.ram[a] = IF a \in Inverted(k) THEN 255 - a ELSE a
  /\ "cmos-reset" \in killed => k = 1
  /\ k \in 2 .. 10 => cli = {"cmos-reset"}
  /\ k \notin 2 .. 10 => "cmos-reset" \notin cli
  /\ k \in {3, 5} => cmos.index = 46
  /\ k \in {7, 9} => cmos.index = 47
  /\ k \in {4, 5} => Last(got["cmos-reset"]) = 46
  /\ k \in {8, 9} => Last(got["cmos-reset"]) = 47

ResetInv == "cmos-reset" \in users /\ ~apart => ResetAt(ip["cmos-reset"])

LEMMA ResetInit == PortInit => ResetInv
<1> SUFFICES ASSUME PortInit, "cmos-reset" \in users PROVE ResetAt(1)
  BY DEF ResetInv, PortInit
<1>1. \A a \in Cell : cmos.ram[a] = a
  BY DEF PortInit
<1>2. Inverted(1) = {}
  BY DEF Inverted
<1> QED BY <1>1, <1>2 DEF ResetAt, PortInit

LEMMA LastRead ==
  ASSUME NEW s \in Seq(Byte), NEW b \in Byte
  PROVE  Last(Append(s, b)) = b
BY DEF Last

(* Its own ten steps.                                                      *)
LEMMA ResetSteps ==
  ASSUME CtlInv, CmosTyped, "cmos-reset" \in users, Execute("cmos-reset"), ~apart,
         ResetAt(ip["cmos-reset"])
  PROVE  (ResetAt(ip["cmos-reset"]))'
<1> DEFINE c == "cmos-reset"
           k == ip[c]
<1>1. Running(c)
  BY StepOf
<1>2. k \in 1 .. 10 /\ Instr(c) = CmosReset[k]
  BY <1>1, ResetTexts
<1>3. c \notin KbcUsers /\ c \notin Beepers \cup DacUsers
  BY DEF KbcUsers, Beepers, DacUsers
<1>4. ip' = [ip EXCEPT ![c] = k + 1] /\ UNCHANGED killed
  BY <1>3, Advances, KindOf DEF NextInstr
<1>5. ip'[c] = k + 1
  BY <1>4 DEF CtlInv
<1>6. cli \subseteq {c}
  BY <1>1 DEF Running
<1>7. c \notin killed
  BY <1>1 DEF Running
<1>8. got[c] \in Seq(Byte) /\ got \in [users -> Seq(Byte)]
  BY DEF CtlInv
<1>9. 46 \in Cell \ {0} /\ 47 \in Cell \ {0}
  BY DEF Cell
<1>10. cmos \in [index : Cell, ram : [Cell -> Byte]]
  BY DEF CmosTyped
<1> USE DEF Execute, Jump, Output, Input, Flags, FallThrough, PortRead, PortWrite, Sync, devs
<1>11. CASE k \in {1, 10}
  <2>1. Instr(c).op = IF k = 1 THEN "cli" ELSE "sti"
    BY <1>2, <1>11, CmosResetText DEF Cli, Sti, Op
  <2>2. Flags(c)
    BY <2>1
  <2>3. UNCHANGED <<cmos, got>> /\ cli' = IF k = 1 THEN cli \cup {c} ELSE cli \ {c}
    BY <2>1, <2>2
  <2>4. cli' = IF k = 1 THEN {c} ELSE {}
    BY <1>6, <2>3
  <2>5. Inverted(k + 1) = Inverted(k)
    BY <1>11 DEF Inverted
  <2> QED BY <1>4, <1>5, <1>7, <1>11, <2>3, <2>4, <2>5 DEF ResetAt
<1>12. CASE k \in {2, 4, 6, 8}
  <2> DEFINE a == IF k \in {2, 4} THEN 46 ELSE 47
  <2>1. Instr(c) = Out("0x70", a)
    BY <1>2, <1>12, CmosResetText
  <2>2. Instr(c).op = "out" /\ Instr(c).port = "0x70" /\ Instr(c).val = a
    BY <2>1 DEF Out, Op
  <2> HIDE DEF a
  <2>3. Output(c)
    BY <2>2
  <2>4. ToCmos("0x70", a)
    BY <2>2, <2>3 DEF Write
  <2>5. cmos' = [cmos EXCEPT !.index = a]
    BY <2>4 DEF ToCmos
  <2>6. cmos'.index = a /\ cmos'.ram = cmos.ram
    BY <1>10, <2>5
  <2>7. UNCHANGED <<got, cli>>
    BY <2>3
  <2>8. Inverted(k + 1) = Inverted(k)
    BY <1>12 DEF Inverted
  <2> QED BY <1>4, <1>5, <1>7, <1>12, <2>6, <2>7, <2>8 DEF ResetAt, a
<1>13. CASE k \in {3, 7}
  <2>1. Instr(c).op = "in" /\ Instr(c).port = "0x71"
    BY <1>2, <1>13, CmosResetText DEF In, Op
  <2>2. Input(c)
    BY <2>1
  <2>3. got' = [got EXCEPT ![c] = Append(got[c], cmos.ram[cmos.index])]
    BY <2>1, <2>2
  <2>4. UNCHANGED <<cmos, cli>>
    BY <2>2
  <2>5. cmos.index = (IF k = 3 THEN 46 ELSE 47) /\ cmos.index \notin Inverted(k)
    BY <1>13 DEF ResetAt, Inverted
  <2>6. cmos.ram[cmos.index] = cmos.index
    BY <1>9, <2>5 DEF ResetAt
  <2>7. Last(got'[c]) = cmos.index
    <3>1. cmos.ram[cmos.index] \in Byte
      BY <1>10
    <3>2. got'[c] = Append(got[c], cmos.ram[cmos.index])
      BY <1>8, <2>3
    <3> QED BY <1>8, <2>6, <3>1, <3>2, LastRead
  <2>8. Inverted(k + 1) = Inverted(k)
    BY <1>13 DEF Inverted
  <2> QED BY <1>4, <1>5, <1>7, <1>13, <2>4, <2>5, <2>7, <2>8 DEF ResetAt
<1>14. CASE k \in {5, 9}
  <2> DEFINE a == IF k = 5 THEN 46 ELSE 47
  <2>1. Instr(c).op = "outnot" /\ Instr(c).port = "0x71" /\ Instr(c).val = 255
    BY <1>2, <1>14, CmosResetText DEF OutNot, Op
  <2>2. Output(c)
    BY <2>1
  <2>3. cmos.index = a /\ Last(got[c]) = a
    BY <1>14 DEF ResetAt
  <2>4. a \in Cell \ {0}
    BY <1>9
  <2> HIDE DEF a
  <2>5. ToCmos("0x71", 255 - a)
    BY <2>1, <2>2, <2>3 DEF Write
  <2>6. cmos' = [cmos EXCEPT !.ram[a] = 255 - a]
    BY <2>3, <2>5 DEF ToCmos
  <2>7. cmos'.ram[a] = 255 - a /\ cmos'.index = a
        /\ \A b \in Cell : b # a => cmos'.ram[b] = cmos.ram[b]
    BY <1>10, <2>3, <2>4, <2>6
  <2>8. UNCHANGED <<got, cli>>
    BY <2>2
  <2>9. Inverted(k + 1) = Inverted(k) \cup {a}
    BY <1>14 DEF Inverted, a
  <2>10. \A b \in Cell \ {0} : cmos'.ram[b] = IF b \in Inverted(k + 1) THEN 255 - b ELSE b
    BY <2>7, <2>9 DEF ResetAt
  <2>11. cli' = {c}
    BY <1>14, <2>8 DEF ResetAt
  <2> QED BY <1>4, <1>5, <1>7, <1>14, <2>10, <2>11 DEF ResetAt
<1> QED BY <1>2, <1>11, <1>12, <1>13, <1>14

(* Nobody but cmos-reset writes to the RAM.                                *)
LEMMA RamKept ==
  ASSUME CtlInv, CmosTyped, NEW t \in users, Execute(t), t # "cmos-reset"
  PROVE  cmos'.ram = cmos.ram
<1>1. CASE ~Output(t)
  BY <1>1 DEF Execute, Jump, Input, Flags, FallThrough, PortRead, PortWrite, Sync, devs
<1>2. CASE Output(t)
  <2>1. t \in CmosUsers => Instr(t).op # "outnot"
    <3>1. t \in Programs /\ ip[t] \in 1 .. Len(Prog[t]) /\ Instr(t) = Prog[t][ip[t]]
      BY <1>2, Fetch DEF Output
    <3> QED BY <3>1, CmosTexts
  <2>2. UNCHANGED cmos \/ ToCmos("0x70", Instr(t).val)
    BY <1>2, <2>1, OutputOf DEF ToKbc, ToPit, ToDac, ToReset
  <2>3. CASE ToCmos("0x70", Instr(t).val)
    <3>1. cmos' = [cmos EXCEPT !.index = Instr(t).val]
      BY <2>3 DEF ToCmos
    <3> QED BY <3>1 DEF CmosTyped
  <2> QED BY <2>2, <2>3
<1> QED BY <1>1, <1>2

LEMMA ResetStep ==
  ASSUME CtlInv, CmosTyped, ResetInv, [PortNext]_portVars
  PROVE  ResetInv'
<1> DEFINE c == "cmos-reset"
           k == ip[c]
<1>0. UNCHANGED <<users, apart>>
  BY Cases, StepOf DEF Quiet
<1> SUFFICES ASSUME c \in users, ~apart PROVE (ResetAt(ip["cmos-reset"]))'
  BY <1>0 DEF ResetInv
<1>1. ResetAt(k) /\ k \in Nat /\ k \in 1 .. 11
  <2>1. Len(Prog[c]) = 10
    BY Texts, CmosResetText
  <2>2. k \in 1 .. Len(Prog[c]) + 1
    BY DEF CtlInv
  <2> QED BY <2>1, <2>2 DEF ResetInv
<1>2. CASE Quiet
  <2>1. UNCHANGED <<ip, got, cli>>
    BY <1>2 DEF Quiet
  <2>2. c \in killed' => k = 1
    <3>1. CASE UNCHANGED killed
      BY <1>1, <3>1 DEF ResetAt
    <3>2. ASSUME NEW t \in users, Running(t), t \notin cli \cup Kernel, killed' = killed \cup {t}
          PROVE  c \in killed' => k = 1
      <4>1. CASE t = c
        <5>1. k \in 1 .. 10
          BY <3>2, <4>1, ResetTexts
        <5> QED BY <1>1, <3>2, <4>1, <5>1 DEF ResetAt
      <4>2. CASE t # c
        BY <1>1, <3>2, <4>2 DEF ResetAt
      <4> QED BY <4>1, <4>2
    <3> QED BY <1>2, <3>1, <3>2 DEF Quiet
  <2>3. cmos'.index = cmos.index /\ \A a \in Cell \ {0} : cmos'.ram[a] = cmos.ram[a]
    <3>1. CASE Tick
      <4>1. cmos' = [cmos EXCEPT !.ram[0] = (cmos.ram[0] + 1) % 2]
        BY <3>1 DEF Tick
      <4> QED BY <4>1 DEF CmosTyped
    <3> QED BY <1>2, <3>1 DEF Quiet
  <2> QED BY <1>1, <2>1, <2>2, <2>3 DEF ResetAt
<1>3. ASSUME NEW t \in users, Execute(t)
      PROVE  (ResetAt(ip["cmos-reset"]))'
  <2>1. CASE t = c
    BY <1>1, <1>3, <2>1, ResetSteps
  <2>2. CASE t # c
    <3>1. Running(t) /\ killed' \subseteq killed \cup {t} /\ cli' \subseteq cli \cup {t}
          /\ \E n \in 1 .. Len(Prog[t]) + 1 : ip' = [ip EXCEPT ![t] = n]
      BY <1>3, StepOf
    <3>2. ip'[c] = k
      BY <2>2, <3>1 DEF CtlInv
    <3>3. cli \subseteq {t}
      BY <3>1 DEF Running
    <3>4. k \in {1, 11}
      BY <1>1, <2>2, <3>3 DEF ResetAt
    <3>5. \A a \in Cell \ {0} : cmos'.ram[a] = IF a \in Inverted(k) THEN 255 - a ELSE a
      BY <1>1, <1>3, <2>2, RamKept DEF ResetAt
    <3>6. (c \in killed' => k = 1) /\ c \notin cli'
      BY <1>1, <2>2, <3>1, <3>3 DEF ResetAt
    <3> QED BY <3>2, <3>4, <3>5, <3>6 DEF ResetAt
  <2> QED BY <2>1, <2>2
<1> QED BY <1>2, <1>3, Cases

LEMMA ResetExact == PortInv /\ ResetInv => CmosExact
<1> DEFINE c == "cmos-reset"
           k == ip[c]
           inverted == {a \in Cell \ {0} : cmos.ram[a] # a}
<1> SUFFICES ASSUME PortInv, ResetInv, c \in users, ~apart
             PROVE  /\ c \in killed => inverted = {}
                    /\ Ended(c) => /\ c \notin cli /\ inverted = {46, 47}
                                   /\ \A a \in inverted : cmos.ram[a] = 255 - a
  BY DEF CmosExact
<1>1. ResetAt(k) /\ k \in 1 .. 11 /\ (Ended(c) => k = 11)
  <2>1. Len(Prog[c]) = 10
    BY Texts, CmosResetText
  <2>2. k \in 1 .. Len(Prog[c]) + 1
    BY DEF CtlInv, PortInv
  <2> QED BY <2>1, <2>2 DEF ResetInv, Ended
<1>2. c \in killed => inverted = {}
  <2>1. Inverted(1) = {}
    BY DEF Inverted
  <2> QED BY <1>1, <2>1 DEF ResetAt
<1>3. ASSUME k = 11
      PROVE  /\ c \notin cli /\ inverted = {46, 47}
             /\ \A a \in inverted : cmos.ram[a] = 255 - a
  <2>1. Inverted(11) = {46, 47}
    BY DEF Inverted
  <2>2. \A a \in Cell \ {0} : cmos.ram[a] = IF a \in {46, 47} THEN 255 - a ELSE a
    BY <1>1, <1>3, <2>1 DEF ResetAt
  <2>3. 46 \in Cell \ {0} /\ 47 \in Cell \ {0}
    BY DEF Cell
  <2>4. cmos.ram[46] = 209 /\ cmos.ram[47] = 208
    BY <2>2, <2>3
  <2>5. inverted = {46, 47}
    BY <2>2, <2>3, <2>4
  <2> QED BY <1>1, <1>3, <2>2, <2>5 DEF ResetAt
<1> QED BY <1>1, <1>2, <1>3

(* With every other user of the RAM held off by cli, cmos-reset inverts    *)
(* both bytes of the checksum, or neither, and no other byte               *)
(* (cmos-reset.c:62-66).                                                   *)
THEOREM ResetsTheChecksum == PortSpec => []CmosExact
<1>1. PortInit => ResetInv
  BY ResetInit
<1>2. PortInv /\ ResetInv /\ [PortNext]_portVars => ResetInv'
  BY ResetStep DEF PortInv
<1> QED BY <1>1, <1>2, PortInvariant, ResetExact, PTL DEF PortSpec

LEMMA OthersStay ==
  ASSUME CtlInv, NEW t \in users, NEW u \in users, Execute(u), u # t
  PROVE  ip'[t] = ip[t] /\ got'[t] = got[t]
BY StepOf DEF CtlInv

LEMMA OneMore ==
  ASSUME CtlInv, NEW t \in users, NextInstr(t)
  PROVE  ip'[t] = ip[t] + 1
BY DEF CtlInv, NextInstr

(* A step of a program of the keyboard controller.                         *)
LEMMA KbcStep ==
  ASSUME CtlInv, NEW t \in users, Execute(t), t \in KbcUsers
  PROVE  \/ /\ Instr(t).op = "out" /\ ToKbc(Instr(t).port, Instr(t).val)
            /\ ip'[t] = ip[t] + 1
         \/ /\ Instr(t).op \in {"wait", "ifbusy"} /\ ~Busy /\ UNCHANGED kbc
            /\ ip'[t] = ip[t] + 1
         \/ /\ Instr(t).op \in {"goto", "ifbusy"} /\ UNCHANGED kbc /\ ip'[t] = 1
         \/ /\ Instr(t).op \in {"cli", "sti", "sync"} /\ UNCHANGED kbc
            /\ ip'[t] = ip[t] + 1
<1>1. Running(t)
  BY StepOf
<1>2. KbcCode(Instr(t))
  BY <1>1, Fetch DEF Sound
<1>3. Jump(t) \/ Output(t) \/ Flags(t) \/ Sync(t)
  BY <1>2 DEF KbcCode, Execute, Input, FallThrough, PortRead, PortWrite
<1>4. CASE Jump(t)
  <2>1. UNCHANGED kbc
    BY <1>4 DEF Jump, devs
  <2>2. \/ Instr(t).op = "wait" /\ ~Busy /\ NextInstr(t)
        \/ Instr(t).op \in {"goto", "ifbusy"} /\ ip' = [ip EXCEPT ![t] = 1]
        \/ Instr(t).op = "ifbusy" /\ ~Busy /\ NextInstr(t)
    BY <1>2, <1>4 DEF Jump, KbcCode
  <2>3. ip' = [ip EXCEPT ![t] = 1] => ip'[t] = 1
    BY DEF CtlInv
  <2> QED BY <2>1, <2>2, <2>3, OneMore
<1>5. CASE Output(t)
  <2>1. NextInstr(t)
    BY <1>5 DEF Output
  <2>2. Instr(t).op = "out"
    BY <1>2, <1>5 DEF Output, KbcCode
  <2>3. Write(Instr(t).port, Instr(t).val) /\ Instr(t).port \in {"0x60", "0x64"}
    BY <1>2, <1>5, <2>2 DEF Output, KbcCode
  <2>4. ToKbc(Instr(t).port, Instr(t).val)
    BY <2>3 DEF Write
  <2> QED BY <2>1, <2>2, <2>4, OneMore
<1>6. CASE Flags(t)
  BY <1>6, OneMore DEF Flags, devs
<1>7. CASE Sync(t)
  BY <1>7, OneMore DEF Sync
<1> QED BY <1>3, <1>4, <1>5, <1>6, <1>7

(* The only user of the controller has polled it before it writes a byte.  *)
Polled(t) ==
  /\ ~kbc.lost
  /\ ip[t] <= Len(Prog[t]) /\ Prog[t][ip[t]].op = "out" => kbc.ibf = Empty
  /\ t = "reboot_keyb" /\ ip[t] <= 3 => kbc.ibf = Empty

PollInv == \A t \in users : users \cap KbcUsers = {t} => Polled(t)

LEMMA PollInit == PortInit => PollInv
  BY DEF PortInit, PollInv, Polled

LEMMA ControllerEmpties ==
  ASSUME KbcTyped, Controller
  PROVE  kbc'.ibf = Empty /\ kbc'.lost = kbc.lost
<1> DEFINE p == kbc.ibf[1]
           v == kbc.ibf[2]
<1>1. \/ kbc' = [kbc EXCEPT !.ibf = Empty, !.asKey = (v = 210)]
      \/ kbc' = [kbc EXCEPT !.ibf = Empty, !.asKey = FALSE, !.keys = Append(kbc.keys, v)]
      \/ kbc' = [kbc EXCEPT !.ibf = Empty, !.mask = (v = 237),
                            !.leds = IF kbc.mask /\ v < 8 THEN v ELSE kbc.leds]
  BY Zenon DEF Controller
<1> HIDE DEF p, v
<1> QED BY <1>1, Zenon DEF KbcTyped

LEMMA PollStep ==
  ASSUME CtlInv, KbcTyped, PollInv, [PortNext]_portVars
  PROVE  PollInv'
<1>0. users' = users
  BY Cases, StepOf DEF Quiet
<1> SUFFICES ASSUME NEW t \in users, users \cap KbcUsers = {t}
             PROVE  Polled(t)'
  BY <1>0 DEF PollInv
<1>1. Polled(t) /\ t \in KbcUsers
  BY DEF PollInv
<1>2. CASE Quiet
  <2>1. ip' = ip
    BY <1>2 DEF Quiet
  <2>2. kbc'.lost = kbc.lost /\ (kbc.ibf = Empty => kbc'.ibf = Empty)
    BY <1>2, ControllerEmpties DEF Quiet
  <2> QED BY <1>1, <2>1, <2>2 DEF Polled
<1>3. ASSUME NEW u \in users, Execute(u), u # t
      PROVE  Polled(t)'
  <2>1. UNCHANGED kbc
    BY <1>3, Frames
  <2>2. ip'[t] = ip[t]
    BY <1>3, OthersStay
  <2> QED BY <1>1, <2>1, <2>2 DEF Polled
<1>4. ASSUME Execute(t)
      PROVE  Polled(t)'
  <2>1. /\ ip[t] \in 1 .. Len(Prog[t]) /\ Instr(t) = Prog[t][ip[t]]
        /\ Len(Prog[t]) \in Nat
    BY <1>4, StepOf, Fetch
  <2>2. \A k \in 1 .. Len(Prog[t]) :
          Prog[t][k].op = "out" =>
             \/ k > 1 /\ Prog[t][k - 1].op \in {"wait", "ifbusy"}
             \/ t = "reboot_keyb" /\ k = 3
    BY <1>1, KbcTexts
  <2>3. CASE Instr(t).op = "out" /\ ToKbc(Instr(t).port, Instr(t).val) /\ ip'[t] = ip[t] + 1
    <3>1. kbc.ibf = Empty /\ ~Busy
      BY <1>1, <2>1, <2>3 DEF Polled, Busy
    <3>2. kbc'.lost = (kbc.lost \/ Busy)
      BY <2>3, Zenon DEF ToKbc, KbcTyped
    <3>3. ~kbc'.lost
      BY <1>1, <3>1, <3>2 DEF Polled
    <3>4. ip'[t] <= Len(Prog[t]) => Prog[t][ip'[t]].op # "out"
      <4>1. ASSUME ip[t] + 1 <= Len(Prog[t]), Prog[t][ip[t] + 1].op = "out"
            PROVE  FALSE
        <5>1. ip[t] + 1 \in 1 .. Len(Prog[t]) /\ (ip[t] + 1) - 1 = ip[t]
          BY <2>1, <4>1
        <5>2. t = "reboot_keyb" /\ ip[t] = 2
          BY <2>1, <2>2, <2>3, <4>1, <5>1
        <5> QED BY <2>1, <2>3, <5>2, Texts, RebootText DEF Syncs, Op
      <4> QED BY <2>3, <4>1
    <3>5. t = "reboot_keyb" => ip'[t] > 3
      <4>1. ASSUME t = "reboot_keyb"
            PROVE  ip[t] = 3
        <5>1. Len(Prog[t]) = 3 /\ Prog[t][1].op = "sync" /\ Prog[t][2].op = "sync"
          BY <4>1, Texts, RebootText DEF Syncs, Op
        <5> QED BY <2>1, <2>3, <5>1
      <4> QED BY <2>3, <4>1
    <3> QED BY <2>1, <2>3, <3>3, <3>4, <3>5 DEF Polled
  <2>4. CASE /\ Instr(t).op \in {"wait", "ifbusy"} /\ ~Busy /\ UNCHANGED kbc
             /\ ip'[t] = ip[t] + 1
    BY <1>1, <2>4 DEF Polled, Busy
  <2>5. CASE Instr(t).op \in {"goto", "ifbusy"} /\ UNCHANGED kbc /\ ip'[t] = 1
    <3>1. Prog[t][1].op # "out"
      BY <2>1, <2>2
    <3>2. t # "reboot_keyb"
      <4>1. ASSUME t = "reboot_keyb"
            PROVE  FALSE
        BY <2>1, <2>5, <4>1, Texts, RebootText DEF Syncs, Out, Op
      <4> QED BY <4>1
    <3> QED BY <1>1, <2>5, <3>1, <3>2 DEF Polled
  <2>6. CASE /\ Instr(t).op \in {"cli", "sti", "sync"} /\ UNCHANGED kbc
             /\ ip'[t] = ip[t] + 1
    <3>1. ASSUME ip[t] + 1 <= Len(Prog[t]), Prog[t][ip[t] + 1].op = "out"
          PROVE  kbc.ibf = Empty
      <4>1. ip[t] + 1 \in 1 .. Len(Prog[t]) /\ (ip[t] + 1) - 1 = ip[t]
        BY <2>1, <3>1
      <4>2. t = "reboot_keyb" /\ ip[t] = 2
        BY <2>1, <2>2, <2>6, <3>1, <4>1
      <4> QED BY <1>1, <4>2 DEF Polled
    <3>2. t = "reboot_keyb" => ip[t] <= 3
      BY <2>1, Texts, RebootText
    <3> QED BY <1>1, <2>1, <2>6, <3>1, <3>2 DEF Polled
  <2> QED BY <1>1, <1>4, <2>3, <2>4, <2>5, <2>6, KbcStep
<1> QED BY <1>2, <1>3, <1>4, Cases

(* keycode as the controller's only user: n codes are with the kernel.     *)
Handed(n) == Len(kbc.keys) = n /\ \A h \in 1 .. n : kbc.keys[h] = Codes[h]
Idle      == kbc.ibf = Empty /\ ~kbc.asKey
Expecting == kbc.ibf = Empty /\ kbc.asKey
Told      == kbc.ibf = <<"0x64", 210>> /\ ~kbc.asKey
Given(c)  == kbc.ibf = <<"0x60", c>> /\ kbc.asKey

KeyState(n, r) ==       \* at instruction r of the push of code n + 1
  \/ r = 0 /\ n > 0 /\ Given(Codes[n]) /\ Handed(n - 1)
  \/ r \in {0, 1} /\ Idle /\ Handed(n)
  \/ r = 2 /\ Told /\ Handed(n)
  \/ r \in {2, 3} /\ Expecting /\ Handed(n)

KeyAt(k) == KeyState((k - 1) \div 4, (k - 1) % 4)

KeyInv == users \cap KbcUsers = {"keycode"} => KeyAt(ip["keycode"])

LEMMA Waiting ==
  /\ Busy => ~Idle /\ ~Expecting
  /\ ~Busy => ~Told /\ \A c : ~Given(c)
BY DEF Busy, Idle, Expecting, Told, Given, Empty

LEMMA KeyInit == PortInit => KeyInv
<1> SUFFICES ASSUME PortInit, users \cap KbcUsers = {"keycode"} PROVE KeyAt(1)
  BY DEF KeyInv, PortInit
<1>1. kbc.ibf = Empty /\ kbc.keys = Empty /\ ~kbc.asKey
  BY DEF PortInit
<1>2. Len(Empty) = 0
  BY DEF Empty
<1>a. Idle /\ Handed(0)
  BY <1>1, <1>2 DEF Idle, Handed
<1>3. KeyState(0, 0)
  BY <1>a DEF KeyState
<1>4. (1 - 1) \div 4 = 0 /\ (1 - 1) % 4 = 0
  OBVIOUS
<1> QED BY <1>3, <1>4 DEF KeyAt

LEMMA ControllerDoes ==
  ASSUME KbcTyped, Controller
  PROVE  /\ Told => (Expecting)' /\ kbc'.keys = kbc.keys
         /\ \A c : Given(c) => (Idle)' /\ kbc'.keys = Append(kbc.keys, c)
<1> DEFINE p == kbc.ibf[1]
           v == kbc.ibf[2]
<1>1. kbc' = CASE p = "0x64" ->
                   [kbc EXCEPT !.ibf = Empty, !.asKey = (v = 210)]
              [] p = "0x60" /\ kbc.asKey ->
                   [kbc EXCEPT !.ibf = Empty, !.asKey = FALSE, !.keys = Append(kbc.keys, v)]
              [] OTHER ->
                   [kbc EXCEPT !.ibf = Empty, !.mask = (v = 237),
                               !.leds = IF kbc.mask /\ v < 8 THEN v ELSE kbc.leds]
  BY DEF Controller
<1>2. ASSUME Told
      PROVE  (Expecting)' /\ kbc'.keys = kbc.keys
  <2>1. p = "0x64" /\ v = 210
    BY <1>2 DEF Told
  <2>2. kbc' = [kbc EXCEPT !.ibf = Empty, !.asKey = (v = 210)]
    BY <1>1, <2>1
  <2> HIDE DEF p, v
  <2>3. kbc'.ibf = Empty /\ kbc'.keys = kbc.keys /\ kbc'.asKey = (v = 210)
    BY <2>2, Zenon DEF KbcTyped
  <2> QED BY <2>1, <2>3 DEF Expecting
<1>3. ASSUME NEW c, Given(c)
      PROVE  (Idle)' /\ kbc'.keys = Append(kbc.keys, c)
  <2>1. p = "0x60" /\ v = c /\ kbc.asKey
    BY <1>3 DEF Given
  <2>2. kbc' = [kbc EXCEPT !.ibf = Empty, !.asKey = FALSE, !.keys = Append(kbc.keys, v)]
    BY <1>1, <2>1
  <2> HIDE DEF p, v
  <2>3. kbc'.ibf = Empty /\ kbc'.keys = Append(kbc.keys, v) /\ kbc'.asKey = FALSE
    BY <2>2, Zenon DEF KbcTyped
  <2> QED BY <2>1, <2>3 DEF Idle
<1> QED BY <1>2, <1>3

LEMMA ToKbcDoes ==
  ASSUME KbcTyped, NEW p, NEW v, ToKbc(p, v)
  PROVE  kbc'.ibf = <<p, v>> /\ kbc'.keys = kbc.keys /\ kbc'.asKey = kbc.asKey
<1>1. kbc' = [kbc EXCEPT !.ibf = <<p, v>>, !.lost = kbc.lost \/ Busy]
  BY DEF ToKbc
<1> QED BY <1>1, Zenon DEF KbcTyped

LEMMA HandedMore ==
  ASSUME KbcTyped, NEW n \in Nat, n + 1 \in 1 .. 2 * KEYS, Handed(n),
         kbc'.keys = Append(kbc.keys, Codes[n + 1])
  PROVE  Handed(n + 1)'
<1>1. kbc.keys \in Seq(Byte)
  BY KbcShape
<1>2. Codes[n + 1] \in Byte
  BY CodeTypes
<1>3. Len(kbc'.keys) = n + 1 /\ \A h \in 1 .. n : kbc'.keys[h] = kbc.keys[h]
  BY <1>1, <1>2 DEF Handed
<1>4. kbc'.keys[n + 1] = Codes[n + 1]
  BY <1>1, <1>2 DEF Handed
<1>5. \A h \in 1 .. n + 1 : h \in 1 .. n \/ h = n + 1
  OBVIOUS
<1> QED BY <1>3, <1>4, <1>5 DEF Handed

LEMMA KeyController ==
  ASSUME KbcTyped, NEW n \in 0 .. 2 * KEYS, NEW r \in {0, 1, 2, 3}, KeyState(n, r),
         Controller
  PROVE  KeyState(n, r)'
<1>1. Busy
  BY DEF Controller
<1>2. \/ r = 0 /\ n > 0 /\ Given(Codes[n]) /\ Handed(n - 1)
      \/ r = 2 /\ Told /\ Handed(n)
  BY <1>1, Waiting DEF KeyState
<1>3. CASE r = 0 /\ n > 0 /\ Given(Codes[n]) /\ Handed(n - 1)
  <2>1. (Idle)' /\ kbc'.keys = Append(kbc.keys, Codes[n])
    BY <1>3, ControllerDoes
  <2>2. n - 1 \in Nat /\ (n - 1) + 1 = n /\ n \in 1 .. 2 * KEYS
    BY <1>3, Constants
  <2>3. Handed((n - 1) + 1)'
    BY <1>3, <2>1, <2>2, HandedMore
  <2>4. Handed(n)'
    BY <2>2, <2>3
  <2> QED BY <1>3, <2>1, <2>4 DEF KeyState
<1>4. CASE r = 2 /\ Told /\ Handed(n)
  <2>1. (Expecting)' /\ kbc'.keys = kbc.keys
    BY <1>4, ControllerDoes
  <2>2. Handed(n)'
    BY <1>4, <2>1 DEF Handed
  <2> QED BY <1>4, <2>1, <2>2 DEF KeyState
<1> QED BY <1>2, <1>3, <1>4

LEMMA Quarters ==
  ASSUME NEW m \in Nat
  PROVE  /\ m % 4 # 3 => (m + 1) \div 4 = m \div 4 /\ (m + 1) % 4 = (m % 4) + 1
         /\ m % 4 = 3 => (m + 1) \div 4 = (m \div 4) + 1 /\ (m + 1) % 4 = 0
OBVIOUS

LEMMA KeyOwn ==
  ASSUME CtlInv, KbcTyped, "keycode" \in users, Execute("keycode"),
         KeyAt(ip["keycode"])
  PROVE  KeyAt(ip["keycode"])'
<1> PICK k \in Nat : k = ip["keycode"]
  BY DEF CtlInv
<1> DEFINE t == "keycode"
<1>1. k \in 1 .. 8 * KEYS /\ Instr(t) = Keycode[k] /\ t \in KbcUsers
  <2>1. Running(t)
    BY StepOf
  <2>2. Prog[t] = Keycode /\ Len(Keycode) = 8 * KEYS
    BY Texts, KeycodeText
  <2>3. k \in 1 .. Len(Prog[t]) /\ Instr(t) = Prog[t][k]
    BY <2>1, Fetch
  <2> QED BY <2>2, <2>3 DEF KbcUsers
<1>0. PICK n \in Nat, r \in {0, 1, 2, 3} : n = (k - 1) \div 4 /\ r = (k - 1) % 4
  BY <1>1, Constants
<1>2. /\ r = 0 => Instr(t) = Wait
      /\ r = 1 => Instr(t) = Out("0x64", 210)
      /\ r = 2 => Instr(t) = Wait
      /\ r = 3 => Instr(t) = Out("0x60", Codes[n + 1])
  BY <1>0, <1>1, KeycodeText
<1>3. /\ r \in {0, 2} => ~Busy /\ UNCHANGED kbc
      /\ r = 1 => ToKbc("0x64", 210)
      /\ r = 3 => ToKbc("0x60", Codes[n + 1])
      /\ ip'[t] = k + 1
  <2>1. r \in {0, 2} => Instr(t).op = "wait"
    BY <1>2 DEF Wait, Op
  <2>2. r = 1 => Instr(t).op = "out" /\ Instr(t).port = "0x64" /\ Instr(t).val = 210
    BY <1>2 DEF Out, Op
  <2>3. r = 3 => Instr(t).op = "out" /\ Instr(t).port = "0x60" /\ Instr(t).val = Codes[n + 1]
    BY <1>2 DEF Out, Op
  <2> QED BY <1>1, <2>1, <2>2, <2>3, KbcStep
<1>4. KeyState(n, r)
  BY <1>0 DEF KeyAt
<1>5. /\ r # 3 => ((k + 1) - 1) \div 4 = n /\ ((k + 1) - 1) % 4 = r + 1
      /\ r = 3 => ((k + 1) - 1) \div 4 = n + 1 /\ ((k + 1) - 1) % 4 = 0
  <2>1. k - 1 \in Nat /\ (k + 1) - 1 = (k - 1) + 1
    BY <1>1, Constants
  <2>2. /\ r # 3 => ((k - 1) + 1) \div 4 = n /\ ((k - 1) + 1) % 4 = r + 1
        /\ r = 3 => ((k - 1) + 1) \div 4 = n + 1 /\ ((k - 1) + 1) % 4 = 0
    BY <1>0, <2>1, Quarters
  <2> QED BY <2>1, <2>2
<1> SUFFICES IF r = 3 THEN KeyState(n + 1, 0)' ELSE KeyState(n, r + 1)'
  BY <1>3, <1>5 DEF KeyAt
<1>6. CASE r = 0
  <2>1. Idle /\ Handed(n)
    BY <1>3, <1>4, <1>6, Waiting DEF KeyState
  <2>2. (Idle)' /\ Handed(n)'
    BY <1>3, <1>6, <2>1 DEF Idle, Handed
  <2> QED BY <1>6, <2>2 DEF KeyState
<1>7. CASE r = 1
  <2>1. Idle /\ Handed(n)
    BY <1>4, <1>7 DEF KeyState
  <2>2. kbc'.ibf = <<"0x64", 210>> /\ kbc'.keys = kbc.keys /\ kbc'.asKey = kbc.asKey
    BY <1>3, <1>7, ToKbcDoes
  <2>3. (Told)'
    BY <2>1, <2>2, Zenon DEF Idle, Told
  <2>4. Handed(n)'
    BY <2>1, <2>2 DEF Handed
  <2> QED BY <1>7, <2>3, <2>4 DEF KeyState
<1>8. CASE r = 2
  <2>1. Expecting /\ Handed(n)
    BY <1>3, <1>4, <1>8, Waiting DEF KeyState
  <2>2. (Expecting)' /\ Handed(n)'
    BY <1>3, <1>8, <2>1 DEF Expecting, Handed
  <2> QED BY <1>8, <2>2 DEF KeyState
<1>9. CASE r = 3
  <2>1. Expecting /\ Handed(n)
    BY <1>4, <1>9 DEF KeyState
  <2>2. /\ kbc'.ibf = <<"0x60", Codes[n + 1]>> /\ kbc'.keys = kbc.keys
        /\ kbc'.asKey = kbc.asKey
    BY <1>3, <1>9, ToKbcDoes
  <2>3. Given(Codes[n + 1])'
    BY <2>1, <2>2, Zenon DEF Expecting, Given
  <2>4. Handed(n)' /\ n + 1 > 0 /\ (n + 1) - 1 = n
    BY <2>1, <2>2 DEF Handed
  <2> QED BY <1>9, <2>3, <2>4 DEF KeyState
<1> QED BY <1>6, <1>7, <1>8, <1>9

LEMMA KeyStep ==
  ASSUME CtlInv, KbcTyped, KeyInv, [PortNext]_portVars
  PROVE  KeyInv'
<1>0. users' = users
  BY Cases, StepOf DEF Quiet
<1> SUFFICES ASSUME users \cap KbcUsers = {"keycode"}
             PROVE  KeyAt(ip["keycode"])'
  BY <1>0 DEF KeyInv
<1>1. KeyAt(ip["keycode"]) /\ "keycode" \in users
  BY DEF KeyInv
<1>a. ASSUME UNCHANGED kbc, ip'["keycode"] = ip["keycode"]
      PROVE  KeyAt(ip["keycode"])'
  BY <1>1, <1>a DEF KeyAt, KeyState, Idle, Expecting, Told, Given, Handed
<1>2. CASE Quiet
  <2>1. ip' = ip
    BY <1>2 DEF Quiet
  <2> PICK k \in Nat : k = ip["keycode"]
    BY <1>1 DEF CtlInv
  <2>2. k \in 1 .. 8 * KEYS + 1
    <3>1. Len(Prog["keycode"]) = 8 * KEYS
      BY Texts, KeycodeText
    <3> QED BY <1>1, <3>1 DEF CtlInv
  <2> PICK n \in 0 .. 2 * KEYS, r \in {0, 1, 2, 3} : n = (k - 1) \div 4 /\ r = (k - 1) % 4
    BY <2>2, Constants
  <2>3. Controller => KeyAt(ip["keycode"])'
    <3>1. KeyState(n, r)
      BY <1>1 DEF KeyAt
    <3>2. Controller => KeyState(n, r)'
      BY <3>1, KeyController
    <3> QED BY <2>1, <3>2 DEF KeyAt
  <2> QED BY <1>2, <1>a, <2>1, <2>3 DEF Quiet
<1>3. ASSUME NEW u \in users, Execute(u), u # "keycode"
      PROVE  KeyAt(ip["keycode"])'
  <2>1. u \notin KbcUsers
    BY <1>3
  <2> QED BY <1>1, <1>3, <1>a, <2>1, Frames, OthersStay
<1>4. Execute("keycode") => KeyAt(ip["keycode"])'
  BY <1>1, KeyOwn
<1> QED BY <1>2, <1>3, <1>4, Cases

LEMMA KeyExact ==
  ASSUME CtlInv, KbcTyped, KeyInv, Only("keycode", KbcUsers)
  PROVE  kbc.keys = Codes
<1> DEFINE k == ip["keycode"]
<1>1. KeyAt(k) /\ kbc.ibf = Empty
  BY DEF KeyInv, Only, Worked, Busy
<1>2. k = 8 * KEYS + 1 /\ KEYS \in Nat
  <2>1. Len(Prog["keycode"]) = 8 * KEYS
    BY Texts, KeycodeText
  <2>2. k \in 1 .. Len(Prog["keycode"]) + 1 /\ k > Len(Prog["keycode"])
    BY DEF CtlInv, Only, Worked, Ended
  <2> QED BY <2>1, <2>2, Constants
<1>3. (k - 1) \div 4 = 2 * KEYS /\ (k - 1) % 4 = 0
  BY <1>2
<1> HIDE DEF k
<1>4. Handed(2 * KEYS)
  BY <1>1, <1>3, Waiting DEF KeyAt, KeyState, Busy
<1>5. kbc.keys \in Seq(Byte)
  BY KbcShape
<1>6. DOMAIN Codes = 1 .. 2 * KEYS /\ Codes = [h \in 1 .. 2 * KEYS |-> Codes[h]]
  BY DEF Codes
<1>7. kbc.keys \in [1 .. Len(kbc.keys) -> Byte]
  BY <1>5
<1> HIDE DEF Codes
<1> QED BY <1>4, <1>6, <1>7 DEF Handed

LEMMA OffStays ==
  ASSUME CtlInv, ~On, [PortNext]_portVars
  PROVE  power' = power
<1>1. \A t \in users : ~Execute(t)
  BY StepOf DEF Running
<1> QED BY <1>1, Cases DEF Quiet, Controller

LEMMA DiskStays ==
  ASSUME CtlInv, disk = "clean", [PortNext]_portVars
  PROVE  disk' = "clean"
BY Cases DEF Quiet, Execute, Jump, Output, Input, Flags, FallThrough, PortRead, PortWrite,
             Sync, devs

(* A reset comes after the disks are synced.                               *)
ResetWritten == power = "reset" \/ kbc.ibf = <<"0x64", 254>>

RebootAt(k)     == (k >= 2 => disk = "clean") /\ (k >= 5 => power = "reset")
RebootKeybAt(k) == (k >= 2 => disk = "clean") /\ (k >= 4 => ResetWritten)

RebootInv ==
  /\ "reboot" \in users => RebootAt(ip["reboot"])
  /\ users \cap KbcUsers = {"reboot_keyb"} => RebootKeybAt(ip["reboot_keyb"])

LEMMA RebootStep ==
  ASSUME CtlInv, RebootInv, "reboot" \in users, [PortNext]_portVars
  PROVE  RebootAt(ip["reboot"])'
<1> DEFINE t == "reboot"
<1>1. RebootAt(ip[t])
  BY DEF RebootInv
<1>2. CASE ip'[t] = ip[t]
  <2>1. power = "reset" => power' = "reset"
    BY OffStays DEF On
  <2> QED BY <1>1, <1>2, <2>1, DiskStays DEF RebootAt
<1>3. ASSUME Execute(t)
      PROVE  RebootAt(ip[t])'
  <2>1. ip[t] \in 1 .. 4 /\ Instr(t) = Reboot[ip[t]]
    <3>1. Running(t)
      BY <1>3, StepOf
    <3>2. Prog[t] = Reboot /\ Len(Prog[t]) = 4
      BY Texts, RebootText
    <3> QED BY <3>1, <3>2, Fetch
  <2>2. ip'[t] = ip[t] + 1
    <3>1. t \notin KbcUsers /\ t \notin Beepers \cup DacUsers
      BY DEF KbcUsers, Beepers, DacUsers
    <3> QED BY <1>3, <3>1, Advances, KindOf, OneMore
  <2>3. CASE ip[t] \in {1, 2}
    <3>1. Instr(t).op = "sync"
      BY <2>1, <2>3, RebootText DEF Syncs, Op
    <3>2. disk' = "clean"
      BY <1>3, <3>1 DEF Execute, Jump, Output, Input, Flags, FallThrough, PortRead,
                        PortWrite, Sync
    <3> QED BY <2>2, <2>3, <3>2 DEF RebootAt
  <2>4. CASE ip[t] = 3
    BY <1>1, <2>2, <2>4, DiskStays DEF RebootAt
  <2>5. CASE ip[t] = 4
    <3>1. Instr(t).op = "out" /\ Instr(t).port = "0xcf9" /\ Instr(t).val = 4
      BY <2>1, <2>5, RebootText DEF Out, Op
    <3>2. Output(t)
      BY <1>3, <3>1 DEF Execute, Jump, Input, Flags, FallThrough, PortRead, PortWrite, Sync
    <3>3. ToReset(4)
      BY <3>1, <3>2 DEF Output, Write
    <3>4. (4 \div 4) % 2 = 1
      OBVIOUS
    <3>5. power' = "reset"
      BY <3>3, <3>4 DEF ToReset
    <3> QED BY <1>1, <2>5, <3>5, DiskStays DEF RebootAt
  <2> QED BY <2>1, <2>3, <2>4, <2>5
<1>4. ASSUME NEW u \in users, Execute(u), u # t
      PROVE  ip'[t] = ip[t]
  BY <1>4, OthersStay
<1>5. Quiet => ip'[t] = ip[t]
  BY DEF Quiet
<1> QED BY <1>2, <1>3, <1>4, <1>5, Cases

LEMMA RebootKeybStep ==
  ASSUME CtlInv, KbcTyped, RebootInv, users \cap KbcUsers = {"reboot_keyb"},
         [PortNext]_portVars
  PROVE  RebootKeybAt(ip["reboot_keyb"])'
<1> DEFINE t == "reboot_keyb"
<1>1. RebootKeybAt(ip[t]) /\ t \in users /\ t \in KbcUsers
  BY DEF RebootInv
<1>2. ASSUME ip'[t] = ip[t], ResetWritten => (ResetWritten)'
      PROVE  RebootKeybAt(ip[t])'
  BY <1>1, <1>2, DiskStays DEF RebootKeybAt
<1>3. CASE Quiet
  <2>1. power = "reset" => power' = "reset"
    BY OffStays DEF On
  <2>2. kbc.ibf = <<"0x64", 254>> /\ Controller => power' = "reset"
    BY DEF Controller
  <2>3. ResetWritten => (ResetWritten)'
    BY <1>3, <2>1, <2>2 DEF Quiet, ResetWritten
  <2>4. ip'[t] = ip[t]
    BY <1>3 DEF Quiet
  <2> QED BY <1>2, <2>3, <2>4
<1>4. ASSUME NEW u \in users, Execute(u), u # t
      PROVE  RebootKeybAt(ip[t])'
  <2>1. u \notin KbcUsers
    BY <1>4
  <2>2. UNCHANGED kbc /\ ip'[t] = ip[t]
    BY <1>1, <1>4, <2>1, Frames, OthersStay
  <2>3. power = "reset" => power' = "reset"
    BY OffStays DEF On
  <2> QED BY <1>2, <2>2, <2>3 DEF ResetWritten
<1>5. ASSUME Execute(t)
      PROVE  RebootKeybAt(ip[t])'
  <2>1. ip[t] \in 1 .. 3 /\ Instr(t) = RebootKeyb[ip[t]]
    <3>1. Running(t)
      BY <1>5, StepOf
    <3>2. Prog[t] = RebootKeyb /\ Len(Prog[t]) = 3
      BY Texts, RebootText
    <3> QED BY <1>1, <3>1, <3>2, Fetch
  <2>2. CASE ip[t] \in {1, 2}
    <3>1. Instr(t).op = "sync"
      BY <2>1, <2>2, RebootText DEF Syncs, Op
    <3>2. disk' = "clean"
      BY <1>5, <3>1 DEF Execute, Jump, Output, Input, Flags, FallThrough, PortRead,
                        PortWrite, Sync
    <3>3. ip'[t] = ip[t] + 1
      BY <1>1, <1>5, <3>1, KbcStep
    <3> QED BY <2>2, <3>2, <3>3 DEF RebootKeybAt
  <2>3. CASE ip[t] = 3
    <3>1. Instr(t).op = "out" /\ Instr(t).port = "0x64" /\ Instr(t).val = 254
      BY <2>1, <2>3, RebootText DEF Out, Op
    <3>2. ToKbc("0x64", 254) /\ ip'[t] = ip[t] + 1
      BY <1>1, <1>5, <3>1, KbcStep
    <3>3. kbc'.ibf = <<"0x64", 254>>
      BY <3>2, ToKbcDoes
    <3> QED BY <1>1, <2>3, <3>2, <3>3, DiskStays DEF RebootKeybAt, ResetWritten
  <2> QED BY <2>1, <2>2, <2>3
<1> QED BY <1>3, <1>4, <1>5, Cases

(* Of the beepers, the last one to end has left the speaker off.           *)
BeepInv == pit.port61 = 0 \/ \E t \in users \cap Beepers : ~Ended(t)

LEMMA BeepStep ==
  ASSUME CtlInv, PitTyped, BeepInv, [PortNext]_portVars
  PROVE  BeepInv'
<1>1. CASE Quiet
  BY <1>1 DEF Quiet, BeepInv, Ended
<1>2. ASSUME NEW u \in users, Execute(u), u \notin Beepers
      PROVE  BeepInv'
  <2>1. UNCHANGED pit /\ users' = users
    BY <1>2, Frames, StepOf
  <2>2. \A t \in users \cap Beepers : ip'[t] = ip[t]
    BY <1>2, OthersStay
  <2> QED BY <2>1, <2>2 DEF BeepInv, Ended
<1>3. ASSUME NEW u \in users, Execute(u), u \in Beepers
      PROVE  BeepInv'
  <2>1. users' = users /\ Running(u)
    BY <1>3, StepOf
  <2>2. /\ ip[u] \in 1 .. Len(Prog[u]) /\ Instr(u) = Prog[u][ip[u]]
        /\ Len(Prog[u]) \in Nat
    BY <2>1, Fetch
  <2>3. CASE ip[u] = Len(Prog[u])
    <3>1. Instr(u).op = "out" /\ Instr(u).port = "0x61" /\ Instr(u).val = 0
      BY <1>3, <2>2, <2>3, PitTexts DEF Out, Op
    <3>2. Output(u)
      BY <1>3, <3>1 DEF Execute, Jump, Input, Flags, FallThrough, PortRead, PortWrite, Sync
    <3>3. ToPit("0x61", 0)
      BY <3>1, <3>2 DEF Output, Write
    <3>4. pit' = [pit EXCEPT !.port61 = 0]
      BY <3>3 DEF ToPit
    <3>5. pit'.port61 = 0
      BY <3>4 DEF PitTyped
    <3> QED BY <3>5 DEF BeepInv
  <2>4. CASE ip[u] # Len(Prog[u])
    <3>1. u \notin KbcUsers
      BY <1>3 DEF Beepers, KbcUsers
    <3>2. ip'[u] \in {ip[u], ip[u] + 1}
      BY <1>3, <3>1, Advances, OneMore
    <3>3. ~(ip'[u] > Len(Prog[u]))
      BY <2>2, <2>4, <3>2
    <3> QED BY <1>3, <2>1, <3>3 DEF BeepInv, Ended
  <2> QED BY <2>3, <2>4
<1> QED BY <1>1, <1>2, <1>3, Cases

(* cmos-dump as the only user: it has read n cells.                        *)
DumpState(n, r) ==
  /\ Len(got["cmos-dump"]) = n
  /\ \A a \in 1 .. n - 1 : got["cmos-dump"][a + 1] = cmos.ram[a]
  /\ r = 1 => cmos.index = n

DumpAt(k) == DumpState((k - 1) \div 2, (k - 1) % 2)

DumpInv == users \cap CmosUsers = {"cmos-dump"} => DumpAt(ip["cmos-dump"])

LEMMA Halves ==
  ASSUME NEW m \in Nat
  PROVE  /\ m % 2 = 0 => (m + 1) \div 2 = m \div 2 /\ (m + 1) % 2 = 1
         /\ m % 2 = 1 => (m + 1) \div 2 = (m \div 2) + 1 /\ (m + 1) % 2 = 0
OBVIOUS

LEMMA DumpOwn ==
  ASSUME CtlInv, CmosTyped, "cmos-dump" \in users, Execute("cmos-dump"),
         DumpAt(ip["cmos-dump"])
  PROVE  DumpAt(ip["cmos-dump"])'
<1> DEFINE t == "cmos-dump"
<1>0. CELLS \in 1 .. 128
  BY Constants
<1>1. PICK k \in Nat : k = ip[t]
  BY DEF CtlInv
<1>2. k \in 1 .. 2 * CELLS /\ Instr(t) = CmosDump[k] /\ t \in CmosUsers
  <2>1. Running(t)
    BY StepOf
  <2>2. Prog[t] = CmosDump /\ Len(CmosDump) = 2 * CELLS
    BY Texts, CmosDumpText
  <2>3. k \in 1 .. Len(Prog[t]) /\ Instr(t) = Prog[t][k]
    BY <1>1, <2>1, Fetch
  <2> QED BY <2>2, <2>3 DEF CmosUsers
<1>3. PICK n \in Nat, r \in {0, 1} : n = (k - 1) \div 2 /\ r = (k - 1) % 2
  BY <1>0, <1>2
<1>4. n \in Cell /\ DumpState(n, r)
  <2>1. n \in Cell
    BY <1>0, <1>2, <1>3 DEF Cell
  <2> QED BY <1>1, <1>3, <2>1 DEF DumpAt
<1>5. ip'[t] = k + 1
  <2>1. t \notin KbcUsers /\ t \notin Beepers \cup DacUsers
    BY DEF KbcUsers, Beepers, DacUsers
  <2> QED BY <1>1, <2>1, Advances, KindOf, OneMore
<1>6. /\ r = 0 => ((k + 1) - 1) \div 2 = n /\ ((k + 1) - 1) % 2 = 1
      /\ r = 1 => ((k + 1) - 1) \div 2 = n + 1 /\ ((k + 1) - 1) % 2 = 0
  <2>1. k - 1 \in Nat /\ (k + 1) - 1 = (k - 1) + 1
    BY <1>0, <1>2
  <2>2. /\ r = 0 => ((k - 1) + 1) \div 2 = n /\ ((k - 1) + 1) % 2 = 1
        /\ r = 1 => ((k - 1) + 1) \div 2 = n + 1 /\ ((k - 1) + 1) % 2 = 0
    BY <1>3, <2>1, Halves
  <2> QED BY <2>1, <2>2
<1> SUFFICES IF r = 0 THEN DumpState(n, 1)' ELSE DumpState(n + 1, 0)'
  BY <1>3, <1>5, <1>6 DEF DumpAt
<1>7. CASE r = 0
  <2>1. Instr(t) = Out("0x70", n)
    BY <1>2, <1>3, <1>7, CmosDumpText
  <2>2. Instr(t).op = "out" /\ Instr(t).port = "0x70" /\ Instr(t).val = n
    BY <2>1 DEF Out, Op
  <2>3. Output(t)
    BY <2>2 DEF Execute, Jump, Input, Flags, FallThrough, PortRead, PortWrite, Sync
  <2>4. cmos' = [cmos EXCEPT !.index = n] /\ UNCHANGED got
    BY <2>2, <2>3 DEF Output, Write, ToCmos
  <2>5. cmos'.index = n /\ cmos'.ram = cmos.ram
    BY <2>4 DEF CmosTyped
  <2> QED BY <1>4, <1>7, <2>4, <2>5 DEF DumpState
<1>8. CASE r = 1
  <2>1. Instr(t) = In("0x71")
    BY <1>2, <1>3, <1>8, CmosDumpText
  <2>2. Instr(t).op = "in" /\ Instr(t).port = "0x71"
    BY <2>1 DEF In, Op
  <2>3. Input(t)
    BY <2>2 DEF Execute, Jump, Output, Flags, FallThrough, PortRead, PortWrite, Sync
  <2>4. got' = [got EXCEPT ![t] = Append(got[t], cmos.ram[cmos.index])] /\ UNCHANGED cmos
    BY <2>2, <2>3 DEF Input, devs
  <2>5. got[t] \in Seq(Byte) /\ cmos.ram[cmos.index] \in Byte
    BY DEF CtlInv, CmosTyped
  <2>6. got'[t] = Append(got[t], cmos.ram[n])
    BY <1>4, <1>8, <2>4 DEF CtlInv, DumpState
  <2>7. cmos.ram[n] \in Byte /\ Len(got[t]) = n
    BY <1>4, <1>8, <2>5 DEF DumpState
  <2>8. /\ Len(got'[t]) = n + 1 /\ got'[t][n + 1] = cmos.ram[n]
        /\ \A a \in 1 .. n : got'[t][a] = got[t][a]
    BY <2>5, <2>6, <2>7
  <2>9. \A a \in 1 .. (n + 1) - 1 : got'[t][a + 1] = cmos.ram[a]
    <3>1. ASSUME NEW a \in 1 .. n
          PROVE  got'[t][a + 1] = cmos.ram[a]
      <4>1. CASE a = n
        BY <2>8, <4>1
      <4>2. CASE a # n
        <5>1. a \in 1 .. n - 1 /\ a + 1 \in 1 .. n
          BY <3>1, <4>2
        <5> QED BY <1>4, <2>8, <5>1 DEF DumpState
      <4> QED BY <4>1, <4>2
    <3> QED BY <3>1
  <2> QED BY <1>8, <2>4, <2>8, <2>9 DEF DumpState
<1> QED BY <1>7, <1>8

LEMMA DumpStep ==
  ASSUME CtlInv, CmosTyped, DumpInv, [PortNext]_portVars
  PROVE  DumpInv'
<1> DEFINE t == "cmos-dump"
<1>0. users' = users
  BY Cases, StepOf DEF Quiet
<1> SUFFICES ASSUME users \cap CmosUsers = {"cmos-dump"}
             PROVE  DumpAt(ip["cmos-dump"])'
  BY <1>0 DEF DumpInv
<1>1. DumpAt(ip[t]) /\ t \in users
  BY DEF DumpInv
<1>2. PICK n, r : n = (ip[t] - 1) \div 2 /\ r = (ip[t] - 1) % 2
  OBVIOUS
<1>3. DumpState(n, r) /\ n \in Int /\ n <= 128
  <2>1. Len(Prog[t]) = 2 * CELLS /\ CELLS \in 1 .. 128
    BY Texts, CmosDumpText, Constants
  <2>2. ip[t] \in 1 .. Len(Prog[t]) + 1
    BY <1>1 DEF CtlInv
  <2>3. PICK k \in Nat : k = ip[t] /\ k >= 1 /\ k <= 257
    BY <2>1, <2>2
  <2>4. (k - 1) \div 2 \in Int /\ (k - 1) \div 2 <= 128
    BY <2>3
  <2> QED BY <1>1, <1>2, <2>3, <2>4 DEF DumpAt
<1>4. \A a \in 1 .. n - 1 : a \in Cell \ {0}
  BY <1>3 DEF Cell
<1>5. ASSUME ip'[t] = ip[t], got'[t] = got[t], cmos'.index = cmos.index,
             \A a \in Cell \ {0} : cmos'.ram[a] = cmos.ram[a]
      PROVE  DumpAt(ip["cmos-dump"])'
  <2>1. DumpState(n, r)'
    BY <1>3, <1>4, <1>5 DEF DumpState
  <2> QED BY <1>2, <1>5, <2>1 DEF DumpAt
<1>6. CASE Quiet
  <2>1. cmos'.index = cmos.index /\ \A a \in Cell \ {0} : cmos'.ram[a] = cmos.ram[a]
    <3>1. CASE Tick
      <4>1. cmos' = [cmos EXCEPT !.ram[0] = (cmos.ram[0] + 1) % 2]
        BY <3>1 DEF Tick
      <4> QED BY <4>1 DEF CmosTyped
    <3> QED BY <1>6, <3>1 DEF Quiet
  <2> QED BY <1>5, <1>6, <2>1 DEF Quiet
<1>7. ASSUME NEW u \in users, Execute(u), u # t
      PROVE  DumpAt(ip["cmos-dump"])'
  <2>1. u \notin CmosUsers
    BY <1>7
  <2>2. UNCHANGED cmos
    BY <1>7, <2>1, Frames
  <2> QED BY <1>1, <1>5, <1>7, <2>2, OthersStay
<1>8. Execute(t) => DumpAt(ip["cmos-dump"])'
  BY <1>1, DumpOwn
<1> QED BY <1>6, <1>7, <1>8, Cases

(***************************************************************************)
(* A program that paints cell after cell with the colour c: it is at       *)
(* instruction r of cell j.                                                *)
(***************************************************************************)
Half(j, r, c) ==
  dac.index = j /\ Len(dac.rgb) = r - 1 /\ \A m \in 1 .. r - 1 : dac.rgb[m] = c[m]

PaintState(j, r, c) ==
  /\ \A h \in 0 .. j - 1 : dac.palette[h] = c
  /\ r > 0 => Half(j, r, c)

LEMMA DacSelects ==
  ASSUME DacTyped, NEW v, ToDac("0x3c8", v)
  PROVE  dac'.index = v /\ dac'.rgb = Empty /\ dac'.palette = dac.palette
<1>1. dac' = [dac EXCEPT !.index = v, !.rgb = Empty]
  BY DEF ToDac
<1> QED BY <1>1 DEF DacTyped

LEMMA DacTakes ==
  ASSUME DacTyped, NEW v \in Byte, ToDac("0x3c9", v),
         NEW rgb, rgb = Append(dac.rgb, v % 64)
  PROVE  /\ rgb \in Seq(Sixbit) /\ Len(rgb) = Len(dac.rgb) + 1 /\ Len(dac.rgb) \in Nat
         /\ rgb[Len(rgb)] = v % 64
         /\ \A m \in 1 .. Len(dac.rgb) : rgb[m] = dac.rgb[m]
         /\ Len(dac.rgb) < 2 =>
              dac'.index = dac.index /\ dac'.rgb = rgb /\ dac'.palette = dac.palette
         /\ Len(dac.rgb) = 2 =>
              dac'.palette = [dac.palette EXCEPT ![dac.index] = rgb]
<1>1. v % 64 \in Sixbit
  <2>1. v \in Int
    BY IsByte
  <2> QED BY <2>1, IsSixbit
<1>2. dac.rgb \in Seq(Sixbit)
  BY DEF DacTyped
<1>3. /\ rgb \in Seq(Sixbit) /\ Len(rgb) = Len(dac.rgb) + 1 /\ Len(dac.rgb) \in Nat
      /\ rgb[Len(rgb)] = v % 64
      /\ \A m \in 1 .. Len(dac.rgb) : rgb[m] = dac.rgb[m]
  BY <1>1, <1>2
<1>4. \/ Len(rgb) < 3 /\ dac' = [dac EXCEPT !.rgb = rgb]
      \/ /\ Len(rgb) = 3
         /\ dac' = [index |-> (dac.index + 1) % 256, rgb |-> Empty,
                    palette |-> [dac.palette EXCEPT ![dac.index] = rgb]]
  BY DEF ToDac
<1>5. Len(dac.rgb) < 2 =>
        dac'.index = dac.index /\ dac'.rgb = rgb /\ dac'.palette = dac.palette
  BY <1>3, <1>4 DEF DacTyped
<1>6. Len(dac.rgb) = 2 => dac'.palette = [dac.palette EXCEPT ![dac.index] = rgb]
  BY <1>3, <1>4
<1> QED BY <1>3, <1>5, <1>6

LEMMA Triples ==
  ASSUME NEW s \in Seq(Sixbit), Len(s) = 3, NEW c \in Colours,
         s[1] = c[1], s[2] = c[2], s[3] = c[3]
  PROVE  s = c
<1>1. s \in [1 .. 3 -> Sixbit]
  OBVIOUS
<1>2. s = <<s[1], s[2], s[3]>>
  BY <1>1
<1>3. c = <<c[1], c[2], c[3]>>
  BY DEF Colours
<1> QED BY <1>2, <1>3

LEMMA PaintStep ==
  ASSUME DacTyped, NEW j \in Cell, NEW r \in {0, 1, 2, 3}, NEW c \in Colours,
         PaintState(j, r, c), NEW v \in Byte,
         r = 0 => ToDac("0x3c8", j),
         r > 0 => ToDac("0x3c9", v) /\ v % 64 = c[r]
  PROVE  IF r = 3 THEN PaintState(j + 1, 0, c)' ELSE PaintState(j, r + 1, c)'
<1>0. j \in Nat
  BY DEF Cell
<1>1. \A h \in 0 .. j - 1 : dac.palette[h] = c
  BY DEF PaintState
<1>2. CASE r = 0
  <2>1. dac'.index = j /\ dac'.rgb = Empty /\ dac'.palette = dac.palette
    BY <1>2, DacSelects
  <2>2. Half(j, 1, c)'
    BY <2>1 DEF Half, Empty
  <2> QED BY <1>1, <1>2, <2>1, <2>2 DEF PaintState
<1>3. CASE r \in {1, 2}
  <2> PICK rgb : rgb = Append(dac.rgb, v % 64)
    OBVIOUS
  <2>1. Half(j, r, c) /\ ToDac("0x3c9", v) /\ v % 64 = c[r]
    BY <1>3 DEF PaintState
  <2>a. /\ rgb \in Seq(Sixbit) /\ Len(rgb) = Len(dac.rgb) + 1
        /\ rgb[Len(rgb)] = v % 64
        /\ \A m \in 1 .. Len(dac.rgb) : rgb[m] = dac.rgb[m]
        /\ Len(dac.rgb) < 2 =>
             dac'.index = dac.index /\ dac'.rgb = rgb /\ dac'.palette = dac.palette
        /\ Len(dac.rgb) = 2 => dac'.palette = [dac.palette EXCEPT ![dac.index] = rgb]
    BY <2>1, DacTakes
  <2>2. /\ Len(rgb) = r /\ rgb[r] = c[r] /\ \A m \in 1 .. r - 1 : rgb[m] = c[m]
        /\ dac'.index = j /\ dac'.rgb = rgb /\ dac'.palette = dac.palette
    BY <1>3, <2>1, <2>a DEF Half
  <2>3. \A m \in 1 .. (r + 1) - 1 : dac'.rgb[m] = c[m]
    BY <1>3, <2>2
  <2>4. Half(j, r + 1, c)'
    BY <1>3, <2>2, <2>3 DEF Half
  <2> QED BY <1>1, <1>3, <2>2, <2>4 DEF PaintState
<1>4. CASE r = 3
  <2> PICK rgb : rgb = Append(dac.rgb, v % 64)
    OBVIOUS
  <2>1. Half(j, 3, c) /\ ToDac("0x3c9", v) /\ v % 64 = c[3]
    BY <1>4 DEF PaintState
  <2>a. /\ rgb \in Seq(Sixbit) /\ Len(rgb) = Len(dac.rgb) + 1
        /\ rgb[Len(rgb)] = v % 64
        /\ \A m \in 1 .. Len(dac.rgb) : rgb[m] = dac.rgb[m]
        /\ Len(dac.rgb) < 2 =>
             dac'.index = dac.index /\ dac'.rgb = rgb /\ dac'.palette = dac.palette
        /\ Len(dac.rgb) = 2 => dac'.palette = [dac.palette EXCEPT ![dac.index] = rgb]
    BY <2>1, DacTakes
  <2>2. /\ rgb \in Seq(Sixbit) /\ Len(rgb) = 3 /\ rgb[3] = c[3]
        /\ rgb[1] = c[1] /\ rgb[2] = c[2]
        /\ dac'.palette = [dac.palette EXCEPT ![j] = rgb]
    BY <2>1, <2>a DEF Half
  <2>3. rgb = c
    BY <2>2, Triples
  <2>4. dac.palette \in [Cell -> Colours]
    BY DEF DacTyped
  <2>5. \A h \in 0 .. (j + 1) - 1 : dac'.palette[h] = c
    <3>1. \A h \in 0 .. (j + 1) - 1 : h = j \/ h \in 0 .. j - 1
      BY <1>0
    <3>2. \A h \in 0 .. j - 1 : h \in Cell /\ h # j
      BY DEF Cell
    <3>3. dac'.palette[j] = c
      BY <2>2, <2>3, <2>4
    <3>4. \A h \in 0 .. j - 1 : dac'.palette[h] = dac.palette[h]
      BY <2>2, <2>4, <3>2
    <3> QED BY <1>1, <3>1, <3>3, <3>4
  <2> QED BY <1>4, <2>5 DEF PaintState
<1> QED BY <1>2, <1>3, <1>4

LEMMA DacOwn ==
  ASSUME CtlInv, NEW t \in users, t \in DacUsers, Execute(t),
         NEW p \in {"0x3c8", "0x3c9"}, NEW v, Instr(t) = Out(p, v)
  PROVE  ToDac(p, v) /\ ip'[t] = ip[t] + 1
<1>1. Instr(t).op = "out" /\ Instr(t).port = p /\ Instr(t).val = v
  BY DEF Out, Op
<1>2. Output(t)
  BY <1>1 DEF Execute, Jump, Input, Flags, FallThrough, PortRead, PortWrite, Sync
<1>3. Write(p, v) /\ NextInstr(t)
  BY <1>1, <1>2 DEF Output
<1>4. ToDac(p, v)
  BY <1>3 DEF Write
<1> QED BY <1>3, <1>4, OneMore

(* vga as the only user of the palette.                                    *)
VgaBlue  == <<0, 0, 32>>
VgaAt(k) == PaintState((k - 1) \div 4, (k - 1) % 4, VgaBlue)
VgaInv   == users \cap DacUsers = {"vga"} => VgaAt(ip["vga"])

LEMMA VgaOwn ==
  ASSUME CtlInv, DacTyped, "vga" \in users, Execute("vga"), VgaAt(ip["vga"])
  PROVE  VgaAt(ip["vga"])'
<1> DEFINE t == "vga"
<1>0. PAINTED \in 1 .. 128
  BY Constants
<1>1. PICK k \in Nat : k = ip[t]
  BY DEF CtlInv
<1>2. k \in 1 .. 4 * PAINTED /\ Instr(t) = Vga[k] /\ t \in DacUsers
  <2>1. Running(t)
    BY StepOf
  <2>2. Prog[t] = Vga /\ Len(Vga) = 4 * PAINTED
    BY Texts, VgaText
  <2>3. k \in 1 .. Len(Prog[t]) /\ Instr(t) = Prog[t][k]
    BY <1>1, <2>1, Fetch
  <2> QED BY <2>2, <2>3 DEF DacUsers
<1>3. PICK j \in Nat, r \in {0, 1, 2, 3} : j = (k - 1) \div 4 /\ r = (k - 1) % 4
  BY <1>0, <1>2
<1>4. j \in Cell /\ PaintState(j, r, VgaBlue)
  <2>1. j \in Cell
    BY <1>0, <1>2, <1>3 DEF Cell
  <2> QED BY <1>1, <1>3, <2>1 DEF VgaAt
<1>5. /\ r = 0 => Instr(t) = Out("0x3c8", j)
      /\ r = 1 => Instr(t) = Out("0x3c9", 128)
      /\ r = 2 => Instr(t) = Out("0x3c9", 64)
      /\ r = 3 => Instr(t) = Out("0x3c9", 32)
  BY <1>2, <1>3, VgaText
<1>6. /\ 128 \in Byte /\ 128 % 64 = 0 /\ 64 \in Byte /\ 64 % 64 = 0
      /\ 32 \in Byte /\ 32 % 64 = 32
  BY IsByte
<1>7. VgaBlue \in Colours /\ VgaBlue[1] = 0 /\ VgaBlue[2] = 0 /\ VgaBlue[3] = 32
  BY IsSixbit DEF VgaBlue, Colours
<1>8. ip'[t] = k + 1 /\ (r = 0 => ToDac("0x3c8", j))
      /\ \E v \in Byte : r > 0 => ToDac("0x3c9", v) /\ v % 64 = VgaBlue[r]
  BY <1>1, <1>2, <1>5, <1>6, <1>7, DacOwn
<1>9. IF r = 3 THEN PaintState(j + 1, 0, VgaBlue)' ELSE PaintState(j, r + 1, VgaBlue)'
  <2>1. PICK v \in Byte : r > 0 => ToDac("0x3c9", v) /\ v % 64 = VgaBlue[r]
    BY <1>8
  <2> QED BY <1>4, <1>7, <1>8, <2>1, PaintStep
<1>10. /\ r # 3 => ((k + 1) - 1) \div 4 = j /\ ((k + 1) - 1) % 4 = r + 1
       /\ r = 3 => ((k + 1) - 1) \div 4 = j + 1 /\ ((k + 1) - 1) % 4 = 0
  <2>1. k - 1 \in Nat /\ (k + 1) - 1 = (k - 1) + 1
    BY <1>0, <1>2
  <2>2. /\ r # 3 => ((k - 1) + 1) \div 4 = j /\ ((k - 1) + 1) % 4 = r + 1
        /\ r = 3 => ((k - 1) + 1) \div 4 = j + 1 /\ ((k - 1) + 1) % 4 = 0
    BY <1>3, <2>1, Quarters
  <2> QED BY <2>1, <2>2
<1> QED BY <1>8, <1>9, <1>10 DEF VgaAt

LEMMA VgaStep ==
  ASSUME CtlInv, DacTyped, VgaInv, [PortNext]_portVars
  PROVE  VgaInv'
<1> DEFINE t == "vga"
<1>0. users' = users
  BY Cases, StepOf DEF Quiet
<1> SUFFICES ASSUME users \cap DacUsers = {"vga"}
             PROVE  VgaAt(ip["vga"])'
  BY <1>0 DEF VgaInv
<1>1. VgaAt(ip[t]) /\ t \in users
  BY DEF VgaInv
<1>2. ASSUME ip'[t] = ip[t], UNCHANGED dac
      PROVE  VgaAt(ip["vga"])'
  BY <1>1, <1>2 DEF VgaAt, PaintState, Half
<1>3. Quiet => VgaAt(ip["vga"])'
  BY <1>2 DEF Quiet
<1>4. ASSUME NEW u \in users, Execute(u), u # t
      PROVE  VgaAt(ip["vga"])'
  <2>1. u \notin DacUsers
    BY <1>4
  <2> QED BY <1>1, <1>2, <1>4, <2>1, Frames, OthersStay
<1>5. Execute(t) => VgaAt(ip["vga"])'
  BY <1>1, VgaOwn
<1> QED BY <1>3, <1>4, <1>5, Cases

(* flash as the only user of the palette: the last of its five passes      *)
(* paints white; none touches the cells after FLASHED.                     *)
White    == <<63, 63, 63>>
Aimed(r) == dac.index \in 0 .. FLASHED - 1 /\ Len(dac.rgb) = r - 1
Beyond   == \A h \in Cell : h >= FLASHED => dac.palette[h] = <<7, 7, 7>>

Whitened(k) ==             \* at instruction k of the last pass
  IF k <= 4 * FLASHED THEN PaintState((k - 1) \div 4, (k - 1) % 4, White)
                      ELSE PaintState(FLASHED, 0, White)

FlashAt(k) ==
  /\ Beyond
  /\ k <= 20 * FLASHED /\ (k - 1) % 4 > 0 => Aimed((k - 1) % 4)
  /\ k > 16 * FLASHED => Whitened(k - 16 * FLASHED)

FlashInv == users \cap DacUsers = {"flash"} => FlashAt(ip["flash"])

(* The fourth access of a cell writes it; the three before it do not.      *)
LEMMA AimStep ==
  ASSUME DacTyped, Beyond, NEW r \in {0, 1, 2, 3}, r > 0 => Aimed(r),
         NEW h \in 0 .. FLASHED - 1, NEW v \in Byte,
         r = 0 => ToDac("0x3c8", h), r > 0 => ToDac("0x3c9", v)
  PROVE  Beyond' /\ (r < 3 => Aimed(r + 1)')
<1>0. FLASHED \in 1 .. 64
  BY Constants
<1>1. CASE r = 0
  <2>1. dac'.index = h /\ dac'.rgb = Empty /\ dac'.palette = dac.palette
    BY <1>1, DacSelects
  <2>2. Aimed(1)'
    BY <2>1 DEF Aimed, Empty
  <2> QED BY <1>1, <2>1, <2>2 DEF Beyond
<1>2. CASE r \in {1, 2}
  <2>1. Len(dac.rgb) = r - 1 /\ dac.index \in 0 .. FLASHED - 1
    BY <1>2 DEF Aimed
  <2> PICK rgb : rgb = Append(dac.rgb, v % 64)
    OBVIOUS
  <2>2. dac'.index = dac.index /\ Len(dac'.rgb) = r /\ dac'.palette = dac.palette
    <3>1. ToDac("0x3c9", v) /\ Len(dac.rgb) < 2
      BY <1>2, <2>1
    <3>2. /\ Len(rgb) = Len(dac.rgb) + 1
          /\ dac'.index = dac.index /\ dac'.rgb = rgb /\ dac'.palette = dac.palette
      BY <3>1, DacTakes
    <3>3. Len(rgb) = r
      BY <1>2, <2>1, <3>2
    <3> QED BY <3>2, <3>3
  <2>3. Aimed(r + 1)'
    BY <1>2, <2>1, <2>2 DEF Aimed
  <2> QED BY <2>2, <2>3 DEF Beyond
<1>3. CASE r = 3
  <2>1. Len(dac.rgb) = 2 /\ dac.index \in 0 .. FLASHED - 1
    BY <1>3 DEF Aimed
  <2> PICK rgb : rgb = Append(dac.rgb, v % 64)
    OBVIOUS
  <2>2. dac'.palette = [dac.palette EXCEPT ![dac.index] = rgb]
    BY <1>3, <2>1, DacTakes
  <2>3. dac.palette \in [Cell -> Colours]
    BY DEF DacTyped
  <2>4. \A c \in Cell : c >= FLASHED => c # dac.index
    BY <1>0, <2>1 DEF Cell
  <2>5. Beyond'
    BY <2>2, <2>3, <2>4 DEF Beyond
  <2> QED BY <1>3, <2>5
<1> QED BY <1>1, <1>2, <1>3

LEMMA WhiteStep ==
  ASSUME DacTyped, NEW m \in 1 .. 4 * FLASHED, Whitened(m), NEW v \in Byte, v % 64 = 63,
         (m - 1) % 4 = 0 => ToDac("0x3c8", (m - 1) \div 4),
         (m - 1) % 4 # 0 => ToDac("0x3c9", v)
  PROVE  Whitened(m + 1)'
<1>0. FLASHED \in 1 .. 64
  BY Constants
<1>1. PICK j \in Nat, r \in {0, 1, 2, 3} : j = (m - 1) \div 4 /\ r = (m - 1) % 4
  BY <1>0
<1>2. j \in Cell /\ PaintState(j, r, White)
  <2>1. j \in Cell /\ m <= 4 * FLASHED
    BY <1>0, <1>1 DEF Cell
  <2> QED BY <1>1, <2>1 DEF Whitened
<1>3. White \in Colours /\ White[1] = 63 /\ White[2] = 63 /\ White[3] = 63
  BY IsSixbit DEF White, Colours
<1>4. IF r = 3 THEN PaintState(j + 1, 0, White)' ELSE PaintState(j, r + 1, White)'
  <2>1. r > 0 => v % 64 = White[r]
    BY <1>3
  <2>2. (r = 0 => ToDac("0x3c8", j)) /\ (r > 0 => ToDac("0x3c9", v))
    BY <1>1
  <2> QED BY <1>2, <1>3, <2>1, <2>2, PaintStep
<1>5. /\ r # 3 => ((m + 1) - 1) \div 4 = j /\ ((m + 1) - 1) % 4 = r + 1
      /\ r = 3 => ((m + 1) - 1) \div 4 = j + 1 /\ ((m + 1) - 1) % 4 = 0
  <2>1. m - 1 \in Nat /\ (m + 1) - 1 = (m - 1) + 1
    BY <1>0
  <2>2. /\ r # 3 => ((m - 1) + 1) \div 4 = j /\ ((m - 1) + 1) % 4 = r + 1
        /\ r = 3 => ((m - 1) + 1) \div 4 = j + 1 /\ ((m - 1) + 1) % 4 = 0
    BY <1>1, <2>1, Quarters
  <2> QED BY <2>1, <2>2
<1>6. m + 1 > 4 * FLASHED => r = 3 /\ j + 1 = FLASHED
  BY <1>0, <1>1
<1>7. CASE m + 1 <= 4 * FLASHED
  <2>1. PaintState(((m + 1) - 1) \div 4, ((m + 1) - 1) % 4, White)'
    BY <1>4, <1>5
  <2> QED BY <1>7, <2>1 DEF Whitened
<1>8. CASE m + 1 > 4 * FLASHED
  <2>1. PaintState(FLASHED, 0, White)' /\ ~(m + 1 <= 4 * FLASHED)
    BY <1>0, <1>4, <1>6, <1>8
  <2> QED BY <2>1 DEF Whitened
<1> QED BY <1>0, <1>7, <1>8

LEMMA FlashOwn ==
  ASSUME CtlInv, DacTyped, "flash" \in users, Execute("flash"), FlashAt(ip["flash"])
  PROVE  FlashAt(ip["flash"])'
<1> DEFINE t == "flash"
           n == FLASHED
<1>0. n \in 1 .. 64
  BY Constants
<1>1. PICK k \in Nat : k = ip[t]
  BY DEF CtlInv
<1>2. k \in 1 .. 20 * n + 1 /\ Instr(t) = Flash[k] /\ t \in DacUsers
  <2>1. Running(t)
    BY StepOf
  <2>2. Prog[t] = Flash /\ Len(Flash) = 20 * n + 1
    BY Texts, FlashText
  <2>3. k \in 1 .. Len(Prog[t]) /\ Instr(t) = Prog[t][k]
    BY <1>1, <2>1, Fetch
  <2> QED BY <2>2, <2>3 DEF DacUsers
<1>3. FlashAt(k)
  BY <1>1
<1>4. CASE k = 20 * n + 1
  <2>1. Instr(t).op = "falls"
    <3>1. Flash[20 * n + 1] = Falls
      BY FlashText
    <3> QED BY <1>2, <1>4, <3>1 DEF Falls, Op
  <2>2. FallThrough(t)
    BY <1>2, <2>1 DEF Execute, Jump, Output, Input, Flags, PortRead, PortWrite, Sync
  <2>3. UNCHANGED dac /\ ip'[t] \in {k, k + 1}
    BY <1>1, <2>2, OneMore DEF FallThrough, devs
  <2>4. PaintState(FLASHED, 0, White)
    <3>1. k > 16 * n /\ ~(k - 16 * n <= 4 * n)
      BY <1>0, <1>4
    <3> QED BY <1>3, <3>1 DEF FlashAt, Whitened
  <2>5. Beyond' /\ PaintState(FLASHED, 0, White)'
    BY <1>3, <2>3, <2>4 DEF FlashAt, Beyond, PaintState
  <2>6. ~(ip'[t] <= 20 * n) /\ ~(ip'[t] - 16 * n <= 4 * n)
    BY <1>0, <1>4, <2>3
  <2> QED BY <2>5, <2>6 DEF FlashAt, Whitened
<1>5. CASE k # 20 * n + 1
  <2>1. k \in 1 .. 20 * n
    BY <1>0, <1>2, <1>5
  <2>2. PICK r \in {0, 1, 2, 3} : r = (k - 1) % 4
    BY <1>0, <2>1
  <2>3. PICK h \in 0 .. n - 1, v \in {0, 63} :
          /\ r = 0 => Instr(t) = Out("0x3c8", h)
          /\ r > 0 => Instr(t) = Out("0x3c9", v)
    <3>1. (r = 0) => \E h \in 0 .. FLASHED - 1 : Flash[k] = Out("0x3c8", h)
      BY <2>1, <2>2, FlashText
    <3>2. (r # 0) => \E v \in {0, 63} : Flash[k] = Out("0x3c9", v)
      BY <2>1, <2>2, FlashText
    <3>3. 0 \in 0 .. n - 1
      BY <1>0
    <3> QED BY <1>2, <3>1, <3>2, <3>3
  <2>4. v \in Byte
    BY IsByte
  <2>5. /\ ip'[t] = k + 1
        /\ r = 0 => ToDac("0x3c8", h)
        /\ r > 0 => ToDac("0x3c9", v)
    BY <1>1, <1>2, <2>3, DacOwn
  <2>6. Beyond /\ (r > 0 => Aimed(r)) /\ (k > 16 * n => Whitened(k - 16 * n))
    BY <1>3, <2>1, <2>2 DEF FlashAt
  <2>7. Beyond' /\ (r < 3 => Aimed(r + 1)')
    BY <2>4, <2>5, <2>6, AimStep
  <2>8. (((k + 1) - 1) % 4 > 0) => r < 3 /\ ((k + 1) - 1) % 4 = r + 1
    <3>1. k - 1 \in Nat /\ (k + 1) - 1 = (k - 1) + 1
      BY <1>0, <2>1
    <3> QED BY <2>2, <3>1, Quarters
  <2>9. k + 1 > 16 * n => Whitened((k + 1) - 16 * n)'
    <3>1. CASE k > 16 * n
      <4>1. PICK m \in Nat : m = k - 16 * n
        BY <1>0, <3>1
      <4>2. m \in 1 .. 4 * n /\ (m - 1) % 4 = r /\ (k + 1) - 16 * n = m + 1
            /\ 16 * n + m = k
        BY <1>0, <2>1, <2>2, <3>1, <4>1
      <4>3. /\ (m - 1) % 4 = 0 => Flash[16 * n + m] = Out("0x3c8", (m - 1) \div 4)
            /\ (m - 1) % 4 # 0 => Flash[16 * n + m] = Out("0x3c9", 63)
        BY <4>2, FlashText
      <4>4. /\ (m - 1) % 4 = 0 => ToDac("0x3c8", (m - 1) \div 4)
            /\ (m - 1) % 4 # 0 => ToDac("0x3c9", 63)
        BY <1>2, <4>2, <4>3, DacOwn
      <4>5. 63 \in Byte /\ 63 % 64 = 63
        BY IsByte
      <4>6. Whitened(m)
        BY <2>6, <3>1, <4>1
      <4>7. Whitened(m + 1)'
        BY <4>2, <4>4, <4>5, <4>6, WhiteStep
      <4> QED BY <4>2, <4>7
    <3>2. CASE k = 16 * n
      <4>1. (k + 1) - 16 * n = 1 /\ 1 <= 4 * n /\ (1 - 1) \div 4 = 0 /\ (1 - 1) % 4 = 0
        BY <1>0, <3>2
      <4>2. PaintState(0, 0, White)'
        BY DEF PaintState
      <4>3. Whitened(1)'
        BY <4>1, <4>2 DEF Whitened
      <4> QED BY <4>1, <4>3
    <3>3. CASE k < 16 * n
      BY <1>0, <3>3
    <3> QED BY <1>0, <2>1, <3>1, <3>2, <3>3
  <2>10. FlashAt(k + 1)'
    BY <2>7, <2>8, <2>9 DEF FlashAt
  <2> QED BY <2>5, <2>10
<1> QED BY <1>4, <1>5

LEMMA FlashStep ==
  ASSUME CtlInv, DacTyped, FlashInv, [PortNext]_portVars
  PROVE  FlashInv'
<1> DEFINE t == "flash"
<1>0. users' = users
  BY Cases, StepOf DEF Quiet
<1> SUFFICES ASSUME users \cap DacUsers = {"flash"}
             PROVE  FlashAt(ip["flash"])'
  BY <1>0 DEF FlashInv
<1>1. FlashAt(ip[t]) /\ t \in users
  BY DEF FlashInv
<1>2. ASSUME ip'[t] = ip[t], UNCHANGED dac
      PROVE  FlashAt(ip["flash"])'
  BY <1>1, <1>2 DEF FlashAt, Beyond, Aimed, Whitened, PaintState, Half
<1>3. Quiet => FlashAt(ip["flash"])'
  BY <1>2 DEF Quiet
<1>4. ASSUME NEW u \in users, Execute(u), u # t
      PROVE  FlashAt(ip["flash"])'
  <2>1. u \notin DacUsers
    BY <1>4
  <2> QED BY <1>1, <1>2, <1>4, <2>1, Frames, OthersStay
<1>5. Execute(t) => FlashAt(ip["flash"])'
  BY <1>1, FlashOwn
<1> QED BY <1>3, <1>4, <1>5, Cases

SoleInv ==
  /\ PollInv /\ KeyInv /\ DumpInv /\ VgaInv /\ FlashInv
  /\ BeepInv /\ HaltInv /\ RebootInv

LEMMA SoleInit == PortInit => SoleInv
<1> SUFFICES ASSUME PortInit PROVE SoleInv
  OBVIOUS
<1>1. \A t \in users : ip[t] = 1
  BY DEF PortInit
<1>2. (1 - 1) \div 4 = 0 /\ (1 - 1) % 4 = 0 /\ (1 - 1) \div 2 = 0 /\ (1 - 1) % 2 = 0
  OBVIOUS
<1>3. DumpInv
  <2>1. ASSUME "cmos-dump" \in users
        PROVE  DumpState(0, 0)
    <3>1. got["cmos-dump"] = Empty /\ Len(Empty) = 0
      BY <2>1 DEF PortInit, Empty
    <3> QED BY <3>1 DEF DumpState
  <2> QED BY <1>1, <1>2, <2>1 DEF DumpInv, DumpAt
<1>4. VgaInv
  <2>1. PaintState(0, 0, VgaBlue)
    BY DEF PaintState
  <2> QED BY <1>1, <1>2, <2>1 DEF VgaInv, VgaAt
<1>5. FlashInv
  <2>1. Beyond
    BY DEF Beyond, PortInit
  <2>2. ~(1 > 16 * FLASHED)
    BY Constants
  <2>3. FlashAt(1)
    BY <1>2, <2>1, <2>2 DEF FlashAt
  <2> QED BY <1>1, <2>3 DEF FlashInv
<1>6. BeepInv
  BY DEF BeepInv, PortInit
<1>7. RebootInv
  BY <1>1 DEF RebootInv, RebootAt, RebootKeybAt
<1> QED BY <1>3, <1>4, <1>5, <1>6, <1>7, PollInit, KeyInit, HaltInit DEF SoleInv

LEMMA SoleStep ==
  ASSUME PortInv, SoleInv, [PortNext]_portVars
  PROVE  SoleInv'
<1>1. CtlInv /\ CmosTyped /\ KbcTyped /\ PitTyped /\ DacTyped
  BY DEF PortInv
<1>2. RebootInv'
  <2>1. users' = users
    BY <1>1, Cases, StepOf DEF Quiet
  <2> QED BY <1>1, <2>1, RebootStep, RebootKeybStep DEF RebootInv, SoleInv
<1> QED BY <1>1, <1>2, PollStep, KeyStep, DumpStep, VgaStep, FlashStep, BeepStep, HaltStep
        DEF SoleInv

(* A program that ended is behind its last instruction.                    *)
LEMMA AtEnd ==
  ASSUME CtlInv, NEW t, Ended(t), NEW n \in Nat, Len(Prog[t]) = n
  PROVE  t \in users /\ ip[t] = n + 1
<1>1. t \in users /\ ip[t] \in 1 .. Len(Prog[t]) + 1 /\ ip[t] > Len(Prog[t])
  BY DEF CtlInv, Ended
<1> QED BY <1>1

LEMMA DumpExact ==
  ASSUME PortInv, SoleInv, Only("cmos-dump", CmosUsers)
  PROVE  \A a \in 1 .. CELLS - 1 : got["cmos-dump"][a + 1] = cmos.ram[a]
<1>1. CELLS \in 1 .. 128
  BY Constants
<1>2. Len(Prog["cmos-dump"]) = 2 * CELLS /\ 2 * CELLS \in Nat
  BY <1>1, Texts, CmosDumpText
<1>3. ip["cmos-dump"] = 2 * CELLS + 1
  BY <1>2, AtEnd DEF Only, Worked, PortInv
<1>4. ((2 * CELLS + 1) - 1) \div 2 = CELLS
  BY <1>1
<1>5. DumpState(CELLS, ((2 * CELLS + 1) - 1) % 2)
  <2>1. DumpAt(ip["cmos-dump"])
    BY DEF SoleInv, DumpInv, Only
  <2>2. DumpAt(2 * CELLS + 1)
    BY <1>3, <2>1
  <2> QED BY <1>4, <2>2 DEF DumpAt
<1> QED BY <1>5 DEF DumpState

LEMMA VgaExact ==
  ASSUME PortInv, SoleInv, Only("vga", DacUsers)
  PROVE  \A h \in 0 .. PAINTED - 1 : dac.palette[h] = <<0, 0, 32>>
<1>1. PAINTED \in 1 .. 128
  BY Constants
<1>2. Len(Prog["vga"]) = 4 * PAINTED /\ 4 * PAINTED \in Nat
  BY <1>1, Texts, VgaText
<1>3. ip["vga"] = 4 * PAINTED + 1
  BY <1>2, AtEnd DEF Only, Worked, PortInv
<1>4. ((4 * PAINTED + 1) - 1) \div 4 = PAINTED
  BY <1>1
<1>5. PaintState(PAINTED, ((4 * PAINTED + 1) - 1) % 4, VgaBlue)
  <2>1. VgaAt(ip["vga"])
    BY DEF SoleInv, VgaInv, Only
  <2>2. VgaAt(4 * PAINTED + 1)
    BY <1>3, <2>1
  <2> QED BY <1>4, <2>2 DEF VgaAt
<1> QED BY <1>5 DEF PaintState, VgaBlue

LEMMA FlashExact ==
  ASSUME PortInv, SoleInv, Only("flash", DacUsers)
  PROVE  \A h \in Cell :
           dac.palette[h] = IF h < FLASHED THEN <<63, 63, 63>> ELSE <<7, 7, 7>>
<1>1. FLASHED \in 1 .. 64
  BY Constants
<1>2. Len(Prog["flash"]) = 20 * FLASHED + 1 /\ 20 * FLASHED + 1 \in Nat
  BY <1>1, Texts, FlashText
<1>3. ip["flash"] = 20 * FLASHED + 2
  BY <1>1, <1>2, AtEnd DEF Only, Worked, PortInv
<1>4. FlashAt(20 * FLASHED + 2)
  BY <1>3 DEF SoleInv, FlashInv, Only
<1>5. 20 * FLASHED + 2 > 16 * FLASHED
      /\ ~((20 * FLASHED + 2) - 16 * FLASHED <= 4 * FLASHED)
  BY <1>1
<1>6. Beyond /\ PaintState(FLASHED, 0, White)
  BY <1>4, <1>5 DEF FlashAt, Whitened
<1>7. \A h \in Cell : h \in Nat
  BY DEF Cell
<1> QED BY <1>1, <1>6, <1>7 DEF Beyond, PaintState, White

LEMMA BeepExact ==
  ASSUME SoleInv, \A t \in users : t \in Beepers /\ Worked(t)
  PROVE  pit.port61 = 0
BY DEF SoleInv, BeepInv, Worked

LEMMA HaltExact ==
  ASSUME PortInv, SoleInv, Worked("halt")
  PROVE  power = "s5"
<1>1. PICK n \in Nat : Len(Prog["halt"]) = n /\ n = 10
  BY Texts, HaltText
<1>2. "halt" \in users /\ ip["halt"] = n + 1
  BY <1>1, AtEnd DEF Worked, PortInv
<1> QED BY <1>1, <1>2 DEF SoleInv, HaltInv, HaltAt

LEMMA RebootExact ==
  ASSUME PortInv, SoleInv, NEW t \in {"reboot", "reboot_keyb"},
         Only(t, KbcUsers \cup {"reboot"})
  PROVE  power = "reset" /\ disk = "clean"
<1>1. CASE t = "reboot"
  <2>1. PICK n \in Nat : Len(Prog[t]) = n /\ n = 4
    BY <1>1, Texts, RebootText
  <2>2. t \in users /\ ip[t] = n + 1
    BY <2>1, AtEnd DEF Only, Worked, PortInv
  <2> QED BY <1>1, <2>1, <2>2 DEF SoleInv, RebootInv, RebootAt
<1>2. CASE t = "reboot_keyb"
  <2>1. PICK n \in Nat : Len(Prog[t]) = n /\ n = 3
    BY <1>2, Texts, RebootText
  <2>2. ip[t] = n + 1
    BY <2>1, AtEnd DEF Only, Worked, PortInv
  <2>3. users \cap KbcUsers = {"reboot_keyb"}
    BY <1>2 DEF Only, KbcUsers
  <2>4. kbc.ibf = Empty
    BY DEF Only, Worked, Busy
  <2> QED BY <1>2, <2>1, <2>2, <2>3, <2>4 DEF SoleInv, RebootInv, RebootKeybAt, ResetWritten, Empty
<1> QED BY <1>1, <1>2

LEMMA SoleExact == PortInv /\ SoleInv => SoleUserExact
<1> SUFFICES ASSUME PortInv, SoleInv PROVE SoleUserExact
  OBVIOUS
<1>1. (\E t \in users : users \cap KbcUsers = {t}) => ~kbc.lost
  BY DEF SoleInv, PollInv, Polled
<1>2. Only("keycode", KbcUsers) => kbc.keys = Codes
  BY KeyExact DEF PortInv, SoleInv
<1>3. \A t \in {"reboot", "reboot_keyb"} :
        Only(t, KbcUsers \cup {"reboot"}) => power = "reset" /\ disk = "clean"
  BY RebootExact
<1> QED BY <1>1, <1>2, <1>3, DumpExact, VgaExact, FlashExact, BeepExact, HaltExact
        DEF SoleUserExact

(* Every program does its job when it has its device for itself, whatever  *)
(* else runs next to it on other devices.                                  *)
THEOREM SoleUserDoesItsJob == PortSpec => []SoleUserExact
<1>1. PortInit => SoleInv
  BY SoleInit
<1>2. PortInv /\ SoleInv /\ [PortNext]_portVars => SoleInv'
  BY SoleStep
<1> QED BY <1>1, <1>2, PortInvariant, SoleExact, PTL DEF PortSpec

(***************************************************************************)
(* keycode and the kernel's driver at the controller: a code that does not *)
(* get through is made up for by a byte the driver has sent.               *)
(***************************************************************************)
Sent  == ip["atkbd"] \div 4          \* its third, seventh ... instructions
Score == Cardinality(Through) + Sent
ToKeyboard == kbc.ibf # Empty /\ kbc.ibf[1] = "0x60"

Safe(n, r) ==             \* at instruction r of the push of code n + 1
  \/ r = 0 /\ n > 0 /\ Given(Codes[n]) /\ Score >= n - 1
  \/ r = 0 /\ (Idle \/ ToKeyboard) /\ Score >= n
  \/ r = 1 /\ ~kbc.asKey /\ (kbc.ibf = Empty \/ ToKeyboard) /\ Score >= n
  \/ r = 2 /\ Told /\ Score >= n
  \/ r \in {2, 3} /\ Expecting /\ Score >= n
  \/ r \in {2, 3} /\ Score >= n + 1

SafeAt(k) == Safe((k - 1) \div 4, (k - 1) % 4)

SurviveInv == users = {"keycode", "atkbd"} => SafeAt(ip["keycode"])

LEMMA ThroughFinite ==
  ASSUME KbcTyped
  PROVE  IsFiniteSet(Through) /\ Cardinality(Through) \in Nat
<1>1. Len(kbc.keys) \in Nat
  BY KbcShape
<1>2. IsFiniteSet(1 .. Len(kbc.keys))
  BY <1>1, FS_Interval
<1>3. Through \subseteq 1 .. Len(kbc.keys)
  BY DEF Through
<1>4. IsFiniteSet(Through)
  BY <1>2, <1>3, FS_Subset
<1> QED BY <1>4, FS_CardinalityType

LEMMA ThroughMore ==
  ASSUME KbcTyped, NEW c \in Byte, kbc'.keys = Append(kbc.keys, c)
  PROVE  /\ Cardinality(Through)' \in Nat /\ Cardinality(Through)' >= Cardinality(Through)
         /\ c \in ToSet(Codes) => Cardinality(Through)' = Cardinality(Through) + 1
<1> DEFINE n == Len(kbc.keys)
<1>1. kbc.keys \in Seq(Byte) /\ n \in Nat
  BY KbcShape
<1>2. /\ Len(kbc'.keys) = n + 1 /\ kbc'.keys[n + 1] = c
      /\ \A h \in 1 .. n : kbc'.keys[h] = kbc.keys[h]
  BY <1>1
<1>3. \A h \in 1 .. n + 1 : h \in 1 .. n \/ h = n + 1
  BY <1>1
<1>4. n + 1 \notin Through /\ \A h \in 1 .. n : h \in 1 .. n + 1
  BY <1>1 DEF Through
<1> HIDE DEF n
<1>5. \A h \in 1 .. n : h \in Through' <=> h \in Through
  BY <1>2, <1>4 DEF Through, n
<1>6. n + 1 \in Through' <=> c \in ToSet(Codes)
  BY <1>1, <1>2 DEF Through
<1>7. \A h : h \in Through => h \in 1 .. n
  BY DEF Through, n
<1>8. \A h : h \in Through' => h \in 1 .. n + 1
  BY <1>2 DEF Through
<1>9. IsFiniteSet(Through) /\ Cardinality(Through) \in Nat
  BY ThroughFinite
<1>10. CASE c \in ToSet(Codes)
  <2>1. \A h : h \in Through' <=> h \in Through \cup {n + 1}
    BY <1>3, <1>5, <1>6, <1>7, <1>8, <1>10
  <2>2. Through' = Through \cup {n + 1}
    BY <2>1, Zenon
  <2>3. Cardinality(Through \cup {n + 1}) = Cardinality(Through) + 1
    BY <1>4, <1>9, FS_AddElement
  <2> QED BY <1>9, <2>2, <2>3
<1>11. CASE c \notin ToSet(Codes)
  <2>1. \A h : h \in Through' <=> h \in Through
    BY <1>3, <1>5, <1>6, <1>7, <1>8, <1>11
  <2>2. Through' = Through
    BY <2>1, Zenon
  <2> QED BY <1>9, <1>11, <2>2
<1> QED BY <1>10, <1>11

LEMMA SafeInit == PortInit => SurviveInv
<1> SUFFICES ASSUME PortInit, users = {"keycode", "atkbd"} PROVE SafeAt(1)
  BY DEF SurviveInv, PortInit
<1>1. kbc.ibf = Empty /\ kbc.keys = Empty /\ ~kbc.asKey /\ ip["atkbd"] = 1
  BY DEF PortInit
<1>2. Len(Empty) = 0
  BY DEF Empty
<1>3. Through = {}
  BY <1>1, <1>2 DEF Through
<1>4. Score = 0
  BY <1>1, <1>3, FS_EmptySet DEF Score, Sent
<1>5. Safe(0, 0)
  BY <1>1, <1>4 DEF Safe, Idle
<1>6. (1 - 1) \div 4 = 0 /\ (1 - 1) % 4 = 0
  OBVIOUS
<1> QED BY <1>5, <1>6 DEF SafeAt

(* What the controller does with a byte, whoever wrote it.                 *)
LEMMA ControllerTakes ==
  ASSUME KbcTyped, Controller
  PROVE  /\ kbc'.ibf = Empty
         /\ kbc.ibf[1] = "0x60" => ~kbc'.asKey
         /\ kbc.ibf[1] \in {"0x60", "0x64"} /\ kbc.ibf[2] \in Byte
         /\ kbc'.keys \in {kbc.keys, Append(kbc.keys, kbc.ibf[2])}
<1> DEFINE p == kbc.ibf[1]
           v == kbc.ibf[2]
<1>1. kbc' = CASE p = "0x64" ->
                   [kbc EXCEPT !.ibf = Empty, !.asKey = (v = 210)]
              [] p = "0x60" /\ kbc.asKey ->
                   [kbc EXCEPT !.ibf = Empty, !.asKey = FALSE, !.keys = Append(kbc.keys, v)]
              [] OTHER ->
                   [kbc EXCEPT !.ibf = Empty, !.mask = (v = 237),
                               !.leds = IF kbc.mask /\ v < 8 THEN v ELSE kbc.leds]
  BY DEF Controller
<1>2. p \in {"0x60", "0x64"} /\ v \in Byte
  BY KbcShape DEF Controller, Busy
<1> HIDE DEF p, v
<1>3. CASE p = "0x64"
  <2>1. kbc' = [kbc EXCEPT !.ibf = Empty, !.asKey = (v = 210)]
    BY <1>1, <1>3
  <2>2. kbc'.ibf = Empty /\ kbc'.keys = kbc.keys
    BY <2>1, Zenon DEF KbcTyped
  <2> QED BY <1>2, <1>3, <2>2 DEF p, v
<1>4. CASE p = "0x60" /\ kbc.asKey
  <2>1. kbc' = [kbc EXCEPT !.ibf = Empty, !.asKey = FALSE, !.keys = Append(kbc.keys, v)]
    BY <1>1, <1>4
  <2>2. kbc'.ibf = Empty /\ kbc'.keys = Append(kbc.keys, v) /\ kbc'.asKey = FALSE
    BY <2>1, Zenon DEF KbcTyped
  <2> QED BY <1>2, <2>2 DEF p, v
<1>5. CASE p = "0x60" /\ ~kbc.asKey
  <2>1. kbc' = [kbc EXCEPT !.ibf = Empty, !.mask = (v = 237),
                           !.leds = IF kbc.mask /\ v < 8 THEN v ELSE kbc.leds]
    BY <1>1, <1>5
  <2>2. kbc'.ibf = Empty /\ kbc'.keys = kbc.keys /\ kbc'.asKey = kbc.asKey
    BY <2>1, Zenon DEF KbcTyped
  <2> QED BY <1>2, <1>5, <2>2 DEF p, v
<1> QED BY <1>2, <1>3, <1>4, <1>5

LEMMA SafeController ==
  ASSUME KbcTyped, ip["atkbd"] \in Nat, NEW n \in 0 .. 2 * KEYS,
         NEW r \in {0, 1, 2, 3}, Safe(n, r), Controller
  PROVE  Safe(n, r)'
<1>1. Busy /\ ip' = ip /\ 2 * KEYS \in Nat
  BY Constants DEF Controller, procs
<1>2. Score \in Nat /\ Sent \in Nat /\ Sent' = Sent
  BY <1>1, ThroughFinite DEF Score, Sent
<1>3. Score' \in Int /\ Score' >= Score
  <2>1. CASE kbc'.keys = kbc.keys
    <3>1. Through' = Through
      BY <2>1, Zenon DEF Through
    <3> QED BY <1>2, <3>1 DEF Score
  <2>2. CASE kbc'.keys = Append(kbc.keys, kbc.ibf[2])
    <3>1. Cardinality(Through)' >= Cardinality(Through)
      BY <2>2, ControllerTakes, ThroughMore
    <3>2. Cardinality(Through)' \in Nat
      BY <2>2, ControllerTakes, ThroughMore
    <3> QED BY <1>2, <3>1, <3>2, ThroughFinite DEF Score
  <2> QED BY <2>1, <2>2, ControllerTakes
<1>4. CASE r = 0 /\ n > 0 /\ Given(Codes[n]) /\ Score >= n - 1
  <2>1. (Idle)' /\ kbc'.keys = Append(kbc.keys, Codes[n])
    BY <1>4, ControllerDoes
  <2>2. n \in 1 .. 2 * KEYS /\ Codes[n] \in Byte
    BY <1>1, <1>4, CodeTypes
  <2>3. Codes[n] \in ToSet(Codes)
    BY <2>2 DEF ToSet, Codes
  <2>4. Cardinality(Through)' = Cardinality(Through) + 1
    BY <2>1, <2>2, <2>3, ThroughMore
  <2>5. Cardinality(Through) \in Nat
    BY ThroughFinite
  <2>6. Score' >= n
    BY <1>2, <1>4, <2>2, <2>4, <2>5 DEF Score
  <2> QED BY <1>4, <2>1, <2>6 DEF Safe
<1>5. CASE r = 0 /\ (Idle \/ ToKeyboard) /\ Score >= n
  <2>1. kbc.ibf[1] = "0x60"
    BY <1>1, <1>5, Waiting DEF ToKeyboard
  <2>2. (Idle)'
    BY <2>1, ControllerTakes DEF Idle
  <2> QED BY <1>2, <1>3, <1>5, <2>2 DEF Safe
<1>6. CASE r = 1 /\ ~kbc.asKey /\ Score >= n /\ (kbc.ibf = Empty \/ ToKeyboard)
  <2>1. ~kbc'.asKey /\ kbc'.ibf = Empty
    BY <1>1, <1>6, ControllerTakes DEF Busy, ToKeyboard
  <2> QED BY <1>2, <1>3, <1>6, <2>1 DEF Safe
<1>7. CASE r = 2 /\ Told /\ Score >= n
  BY <1>2, <1>3, <1>7, ControllerDoes DEF Safe
<1>8. CASE r \in {2, 3} /\ Score >= n + 1
  BY <1>2, <1>3, <1>8 DEF Safe
<1> QED BY <1>1, <1>4, <1>5, <1>6, <1>7, <1>8, Waiting DEF Safe

(* The driver's step: a byte for the keyboard, counted by Sent, or none.   *)
LEMMA SafeDriver ==
  ASSUME CtlInv, KbcTyped, users = {"keycode", "atkbd"}, Execute("atkbd"),
         NEW n \in 0 .. 2 * KEYS, NEW r \in {0, 1, 2, 3}, Safe(n, r)
  PROVE  Safe(n, r)'
<1> DEFINE t == "atkbd"
<1> PICK k \in Nat : k = ip[t]
  BY DEF CtlInv
<1>1. k \in 1 .. 8 * CALLS /\ Instr(t) = AtKbd[k] /\ t \in KbcUsers
  <2>1. Running(t)
    BY StepOf
  <2>2. Prog[t] = AtKbd /\ Len(AtKbd) = 8 * CALLS
    BY Texts, AtKbdText
  <2>3. k \in 1 .. Len(Prog[t]) /\ Instr(t) = Prog[t][k]
    BY <2>1, Fetch
  <2> QED BY <2>2, <2>3 DEF KbcUsers
<1>2. CALLS \in Nat /\ 2 * KEYS \in Nat
  BY Constants
<1>3. Score \in Nat /\ Sent = k \div 4 /\ Cardinality(Through) \in Nat
  BY ThroughFinite DEF Score, Sent
<1>4. /\ Instr(t).op \in {"cli", "sti", "wait", "out"}
      /\ Instr(t).op = "out" =>
           /\ (k - 1) % 8 \in {2, 6} /\ Instr(t).port = "0x60"
  <2> PICK h \in 0 .. 7 : h = (k - 1) % 8
    BY <1>1, <1>2
  <2>1. /\ h \in {0, 4} => AtKbd[k] = Cli
        /\ h \in {1, 5} => AtKbd[k] = Wait
        /\ h = 2 => AtKbd[k] = Out("0x60", 237)
        /\ h = 6 => AtKbd[k] = Out("0x60", 2)
        /\ h \in {3, 7} => AtKbd[k] = Sti
    BY <1>1, AtKbdText
  <2>2. \/ Instr(t) \in {Cli, Sti, Wait}
        \/ h \in {2, 6} /\ Instr(t) \in {Out("0x60", 237), Out("0x60", 2)}
    BY <1>1, <2>1
  <2> QED BY <2>2 DEF Cli, Sti, Wait, Out, Op
<1>5. CASE UNCHANGED kbc /\ ip'[t] = k + 1
  <2>1. Through' = Through
    BY <1>5, Zenon DEF Through
  <2>2. Sent' = (k + 1) \div 4
    BY <1>5 DEF Sent
  <2>3. Score' \in Int /\ Score' >= Score
    BY <1>3, <2>1, <2>2 DEF Score
  <2> QED BY <1>2, <1>3, <1>5, <2>3 DEF Safe, Idle, Given, Told, Expecting, ToKeyboard
<1>6. CASE Instr(t).op = "out" /\ ToKbc(Instr(t).port, Instr(t).val) /\ ip'[t] = k + 1
  <2>1. /\ kbc'.ibf = <<"0x60", Instr(t).val>> /\ kbc'.keys = kbc.keys
        /\ kbc'.asKey = kbc.asKey
    BY <1>4, <1>6, ToKbcDoes
  <2>2. Through' = Through
    BY <2>1, Zenon DEF Through
  <2>3. (k + 1) \div 4 = (k \div 4) + 1
    BY <1>1, <1>2, <1>4, <1>6
  <2>4. Sent' = (k + 1) \div 4
    BY <1>6 DEF Sent
  <2>5. Score' = Score + 1
    BY <1>3, <2>2, <2>3, <2>4 DEF Score
  <2>6. (ToKeyboard)'
    BY <2>1 DEF ToKeyboard, Empty
  <2> HIDE DEF t
  <2> QED BY <1>2, <1>3, <2>1, <2>5, <2>6, Waiting DEF Safe, Given
<1> QED BY <1>1, <1>4, <1>5, <1>6, KbcStep

(* The push of a code.                                                     *)
LEMMA SafeOwn ==
  ASSUME CtlInv, KbcTyped, users = {"keycode", "atkbd"}, Execute("keycode"),
         SafeAt(ip["keycode"])
  PROVE  SafeAt(ip["keycode"])'
<1> PICK k \in Nat : k = ip["keycode"]
  BY DEF CtlInv
<1> DEFINE t == "keycode"
<1>1. k \in 1 .. 8 * KEYS /\ Instr(t) = Keycode[k] /\ t \in KbcUsers
  <2>1. Running(t)
    BY StepOf
  <2>2. Prog[t] = Keycode /\ Len(Keycode) = 8 * KEYS
    BY Texts, KeycodeText
  <2>3. k \in 1 .. Len(Prog[t]) /\ Instr(t) = Prog[t][k]
    BY <2>1, Fetch
  <2> QED BY <2>2, <2>3 DEF KbcUsers
<1>0. PICK n \in Nat, r \in {0, 1, 2, 3} : n = (k - 1) \div 4 /\ r = (k - 1) % 4
  BY <1>1, Constants
<1>2. /\ r = 0 => Instr(t) = Wait
      /\ r = 1 => Instr(t) = Out("0x64", 210)
      /\ r = 2 => Instr(t) = Wait
      /\ r = 3 => Instr(t) = Out("0x60", Codes[n + 1])
  BY <1>0, <1>1, KeycodeText
<1>3. /\ r \in {0, 2} => ~Busy /\ UNCHANGED kbc
      /\ r = 1 => ToKbc("0x64", 210)
      /\ r = 3 => ToKbc("0x60", Codes[n + 1])
      /\ ip'[t] = k + 1
  <2>1. r \in {0, 2} => Instr(t).op = "wait"
    BY <1>2 DEF Wait, Op
  <2>2. r = 1 => Instr(t).op = "out" /\ Instr(t).port = "0x64" /\ Instr(t).val = 210
    BY <1>2 DEF Out, Op
  <2>3. r = 3 => Instr(t).op = "out" /\ Instr(t).port = "0x60" /\ Instr(t).val = Codes[n + 1]
    BY <1>2 DEF Out, Op
  <2> QED BY <1>1, <2>1, <2>2, <2>3, KbcStep
<1>4. Safe(n, r)
  BY <1>0 DEF SafeAt
<1>5. /\ r # 3 => ((k + 1) - 1) \div 4 = n /\ ((k + 1) - 1) % 4 = r + 1
      /\ r = 3 => ((k + 1) - 1) \div 4 = n + 1 /\ ((k + 1) - 1) % 4 = 0
  <2>1. k - 1 \in Nat /\ (k + 1) - 1 = (k - 1) + 1
    BY <1>1, Constants
  <2>2. /\ r # 3 => ((k - 1) + 1) \div 4 = n /\ ((k - 1) + 1) % 4 = r + 1
        /\ r = 3 => ((k - 1) + 1) \div 4 = n + 1 /\ ((k - 1) + 1) % 4 = 0
    BY <1>0, <2>1, Quarters
  <2> QED BY <2>1, <2>2
<1> SUFFICES IF r = 3 THEN Safe(n + 1, 0)' ELSE Safe(n, r + 1)'
  BY <1>3, <1>5 DEF SafeAt
<1>6. kbc'.keys = kbc.keys /\ kbc'.asKey = kbc.asKey
  BY <1>3, ToKbcDoes
<1>7. Score \in Nat /\ Score' = Score
  <2>1. Through' = Through
    BY <1>6, Zenon DEF Through
  <2>2. ip'["atkbd"] = ip["atkbd"] /\ ip["atkbd"] \in Nat
    BY OthersStay DEF CtlInv
  <2> QED BY <2>1, <2>2, ThroughFinite DEF Score, Sent
<1>8. CASE r = 0
  <2>1. Idle /\ Score >= n
    BY <1>3, <1>4, <1>8, Waiting DEF Safe, ToKeyboard, Busy
  <2> QED BY <1>3, <1>7, <1>8, <2>1 DEF Safe, Idle
<1>9. CASE r = 1
  <2>1. ~kbc.asKey /\ Score >= n
    BY <1>4, <1>9 DEF Safe
  <2>2. kbc'.ibf = <<"0x64", 210>>
    BY <1>3, <1>9, ToKbcDoes
  <2>3. (Told)'
    BY <1>6, <2>1, <2>2, Zenon DEF Told
  <2> QED BY <1>7, <1>9, <2>1, <2>3 DEF Safe
<1>10. CASE r = 2
  <2>1. (Expecting /\ Score >= n) \/ Score >= n + 1
    BY <1>3, <1>4, <1>10, Waiting DEF Safe
  <2>2. Expecting => (Expecting)'
    BY <1>3, <1>10 DEF Expecting
  <2> QED BY <1>7, <1>10, <2>1, <2>2 DEF Safe
<1>11. CASE r = 3
  <2>1. (Expecting /\ Score >= n) \/ Score >= n + 1
    BY <1>4, <1>11 DEF Safe
  <2>2. kbc'.ibf = <<"0x60", Codes[n + 1]>>
    BY <1>3, <1>11, ToKbcDoes
  <2>3. (ToKeyboard)'
    BY <2>2 DEF ToKeyboard, Empty
  <2>4. Expecting => Given(Codes[n + 1])'
    BY <1>6, <2>2, Zenon DEF Expecting, Given
  <2>5. n + 1 > 0 /\ (n + 1) - 1 = n
    OBVIOUS
  <2> QED BY <1>7, <1>11, <2>1, <2>3, <2>4, <2>5 DEF Safe
<1> QED BY <1>8, <1>9, <1>10, <1>11

LEMMA SafeStep ==
  ASSUME CtlInv, KbcTyped, SurviveInv, [PortNext]_portVars
  PROVE  SurviveInv'
<1>0. users' = users
  BY Cases, StepOf DEF Quiet
<1> SUFFICES ASSUME users = {"keycode", "atkbd"}
             PROVE  SafeAt(ip["keycode"])'
  BY <1>0 DEF SurviveInv
<1> PICK k \in Nat : k = ip["keycode"]
  BY DEF CtlInv
<1>1. k \in 1 .. 8 * KEYS + 1 /\ ip["atkbd"] \in Nat
  <2>1. Len(Prog["keycode"]) = 8 * KEYS
    BY Texts, KeycodeText
  <2> QED BY <2>1 DEF CtlInv
<1> PICK n \in 0 .. 2 * KEYS, r \in {0, 1, 2, 3} : n = (k - 1) \div 4 /\ r = (k - 1) % 4
  BY <1>1, Constants
<1>2. Safe(n, r) /\ SafeAt(k)
  BY DEF SurviveInv, SafeAt
<1>3. ASSUME Safe(n, r)', ip'["keycode"] = k
      PROVE  SafeAt(ip["keycode"])'
  BY <1>3 DEF SafeAt
<1>4. CASE Quiet
  <2>1. ip' = ip
    BY <1>4 DEF Quiet
  <2>2. CASE Controller
    BY <1>1, <1>2, <1>3, <2>1, <2>2, SafeController
  <2>3. CASE UNCHANGED kbc
    <3>1. Through' = Through
      BY <2>3, Zenon DEF Through
    <3>2. Safe(n, r)'
      BY <1>2, <2>1, <2>3, <3>1
         DEF Safe, Score, Sent, Idle, Given, Told, Expecting, ToKeyboard
    <3> QED BY <1>3, <2>1, <3>2
  <2> QED BY <1>4, <2>2, <2>3 DEF Quiet
<1>5. Execute("atkbd") => SafeAt(ip["keycode"])'
  BY <1>2, <1>3, SafeDriver, OthersStay
<1>6. Execute("keycode") => SafeAt(ip["keycode"])'
  BY <1>2, SafeOwn
<1> QED BY <1>4, <1>5, <1>6, Cases

LEMMA SafeExact == CtlInv /\ KbcTyped /\ SurviveInv => KeysSurvive
<1> SUFFICES ASSUME CtlInv, KbcTyped, SurviveInv,
                    Worked("keycode"), users = {"keycode", "atkbd"}, Ended("atkbd")
             PROVE  Cardinality(Through) + 2 * CALLS >= 2 * KEYS /\ ~kbc.asKey
  BY DEF KeysSurvive
<1> PICK k \in Nat, m \in Nat : k = ip["keycode"] /\ m = ip["atkbd"]
  BY DEF CtlInv
<1>1. k = 8 * KEYS + 1 /\ KEYS \in Nat /\ m = 8 * CALLS + 1 /\ CALLS \in Nat
  <2>1. Len(Prog["keycode"]) = 8 * KEYS /\ Len(Prog["atkbd"]) = 8 * CALLS
    BY Texts, KeycodeText, AtKbdText
  <2>2. k \in 1 .. Len(Prog["keycode"]) + 1 /\ k > Len(Prog["keycode"])
    BY DEF CtlInv, Worked, Ended
  <2>3. m \in 1 .. Len(Prog["atkbd"]) + 1 /\ m > Len(Prog["atkbd"])
    BY DEF CtlInv, Ended
  <2> QED BY <2>1, <2>2, <2>3, Constants
<1>2. (k - 1) \div 4 = 2 * KEYS /\ (k - 1) % 4 = 0 /\ m \div 4 = 2 * CALLS
  BY <1>1
<1>3. Safe(2 * KEYS, 0) /\ Sent = 2 * CALLS /\ ~Busy
  BY <1>2 DEF SurviveInv, SafeAt, Sent, Worked
<1>4. Idle /\ Score >= 2 * KEYS
  BY <1>3, Waiting DEF Safe, ToKeyboard, Busy
<1> QED BY <1>3, <1>4 DEF Idle, Score

(* The invariant KeysSurvive: next to the kernel's driver at most one code *)
(* is lost for each byte the driver sends (keycode.c:35-40).               *)
THEOREM KeysGetThrough == PortSpec => []KeysSurvive
<1>1. PortInit => SurviveInv
  BY SafeInit
<1>2. PortInv /\ SurviveInv /\ [PortNext]_portVars => SurviveInv'
  BY SafeStep DEF PortInv
<1>3. PortInv /\ SurviveInv => KeysSurvive
  BY SafeExact DEF PortInv
<1> QED BY <1>1, <1>2, <1>3, PortInvariant, PTL DEF PortSpec

=============================================================================
