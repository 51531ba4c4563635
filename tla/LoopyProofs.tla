---------------------------- MODULE LoopyProofs -----------------------------
(***************************************************************************)
(* What loopy leaves behind, and that it never unbinds a device another    *)
(* process has bound, for every number of devices and every number of      *)
(* steps of other processes.                                               *)
(***************************************************************************)
EXTENDS Loopy, SequenceTheorems, FiniteSetTheorems, TLAPS

First  == {"getfree", "mkfile", "setfd"}       \* within the first loop
Second == {"clrfd", "remove"}                  \* within an iteration of the second

Latest == devnr[n + 1]                         \* the device being set up

(* Where loop_create() is, and what its arrays hold there.                 *)
PlaceInv ==
  /\ pc = "getfree" => Len(devnr) = n
  /\ pc \in {"mkfile", "setfd"} =>
       Len(devnr) = n + 1 /\ n < MAX_LOOP /\ Latest \in exists
  /\ pc \in First => i = 1 /\ autoclear \subseteq detached
  /\ pc = "setfd" => Latest \in files
  /\ pc \in Second => i <= n /\ devnr[i] \notin files

(* The driver: what is bound exists, what is to be unbound at the last     *)
(* close is open, and its backing file is gone unless others unbind it.    *)
DriverInv ==
  /\ \A d \in Dev : bound[d] # "none" => d \in exists
  /\ autoclear \subseteq held \cup leaked
  /\ autoclear \cap files \subseteq detached

(* A device that the second loop will come to is bound to loopy's file,    *)
(* unless somebody took it away.  Nothing else can be in the array twice.  *)
ToDo == {j \in i .. n : ~(pc = "remove" /\ j = i)}

OursInv ==
  /\ \A j \in ToDo :
       devnr[j] \in detached \/ (bound[devnr[j]] = "loopy" /\ devnr[j] \notin autoclear)
  /\ \A j, m \in 1 .. Len(devnr) : j < m /\ devnr[j] = devnr[m] => devnr[j] \in detached

(* Files and bound devices, wherever the program is.                       *)
FilesInv ==
  /\ \A d \in Dev : bound[d] = "loopy" =>
       d \in files \/ (pc \in Second /\ d = devnr[i])
  /\ \A d \in files :
       bound[d] = "loopy" \/ d \in detached \/ (Len(devnr) > n /\ d = Latest)

LoopInv == TypeOK /\ PlaceInv /\ DriverInv /\ OursInv /\ FilesInv

-----------------------------------------------------------------------------
(* A nonempty set of numbers has a least one: of the sets                  *)
(* {y \in S : y <= x} one is least under inclusion.                        *)
LEMMA MinExists ==
  ASSUME NEW S \in SUBSET Nat, S # {}
  PROVE  \E x \in S : \A y \in S : x <= y
<1> DEFINE Below(x) == S \cap (0 .. x)
           Belows == {Below(x) : x \in S}
<1>1. \A x \in S : Below(x) \in SUBSET Nat /\ IsFiniteSet(Below(x))
  <2> TAKE x \in S
  <2>1. IsFiniteSet(0 .. x)
    BY FS_Interval
  <2> QED BY <2>1, FS_Subset
<1>2. Belows \subseteq FiniteSubsetsOf(Nat) /\ Belows # {}
  BY <1>1 DEF FiniteSubsetsOf
<1>3. PICK T \in Belows : \A U \in Belows : <<U, T>> \notin StrictSubsetOrdering(Nat)
  <2> HIDE DEF Belows
  <2> QED BY <1>2, FS_StrictSubsetOrderingWellFounded, WFMin
<1>4. PICK x \in S : T = Below(x)
  BY <1>3
<1>5. \A y \in S : x <= y
  <2> SUFFICES ASSUME NEW y \in S, y < x PROVE FALSE
    OBVIOUS
  <2>1. Below(y) \subseteq T /\ x \in T /\ x \notin Below(y)
    BY <1>4
  <2>2. <<Below(y), T>> \in StrictSubsetOrdering(Nat)
    BY <2>1, <1>4 DEF StrictSubsetOrdering
  <2> QED BY <2>2, <1>3
<1> QED BY <1>5

(* LOOP_CTL_GET_FREE finds an unbound device, or one that is not there.    *)
LEMMA GetFreeGives ==
  ASSUME TypeOK, DriverInv, GetFree # {}
  PROVE  Min(GetFree) \in Dev /\ bound[Min(GetFree)] = "none"
<1>1. GetFree \subseteq Dev
  BY DEF GetFree, Free, TypeOK
<1>2. GetFree \in SUBSET Nat
  BY <1>1, DevAssumption
<1>3. Min(GetFree) \in GetFree
  BY <1>2, MinExists DEF Min
<1>4. \A d \in GetFree : bound[d] = "none"
  BY <1>1 DEF GetFree, Free, DriverInv, TypeOK
<1> QED BY <1>1, <1>3, <1>4

LEMMA SeqFacts ==
  ASSUME TypeOK
  PROVE  /\ Len(devnr) \in Nat /\ n \in Nat /\ i \in Nat
         /\ \A j \in 1 .. Len(devnr) : devnr[j] \in Dev
BY LenProperties, ElementOfSeq, LoopAssumption DEF TypeOK

LEMMA InitLoop == Init => LoopInv
<1> SUFFICES ASSUME Init PROVE LoopInv
  OBVIOUS
<1>1. devnr \in Seq(Dev) /\ Len(devnr) = 0
  BY EmptySeq DEF Init
<1>2. TypeOK
  BY <1>1, DevAssumption, LoopAssumption DEF Init, TypeOK
<1> QED
  BY <1>1, <1>2 DEF Init, LoopInv, PlaceInv, First, Second, DriverInv, OursInv,
                    ToDo, FilesInv

LEMMA StepGetFree == LoopInv /\ GetFreeDev => LoopInv'
<1> SUFFICES ASSUME LoopInv, GetFreeDev PROVE LoopInv'
  OBVIOUS
<1> USE SeqFacts DEF LoopInv
<1>1. /\ pc = "getfree" /\ n < MAX_LOOP /\ Len(devnr) = n
      /\ i = 1 /\ autoclear \subseteq detached
      /\ n' = n /\ files' = files /\ leaked' = leaked /\ bound' = bound
      /\ held' = held /\ autoclear' = autoclear /\ acts' = acts
      /\ detached' = detached
  BY DEF GetFreeDev, PlaceInv, First
<1>2. CASE Break /\ UNCHANGED <<devnr, exists>>
  BY <1>1, <1>2 DEF Break, TypeOK, PlaceInv, First, Second, Latest, DriverInv,
                    OursInv, ToDo, FilesInv
<1>3. CASE ~(Break /\ UNCHANGED <<devnr, exists>>)
  <2> DEFINE d == Min(GetFree)
  <2>1. /\ GetFree # {} /\ devnr' = Append(devnr, d)
        /\ exists' = exists \cup {d} /\ pc' = "mkfile" /\ i' = i
    BY <1>3 DEF GetFreeDev
  <2>2. d \in Dev /\ bound[d] = "none"
    BY <2>1, GetFreeGives
  <2> HIDE DEF d
  <2>3. /\ devnr' \in Seq(Dev) /\ Len(devnr') = n + 1 /\ devnr'[n + 1] = d
        /\ \A j \in 1 .. n : devnr'[j] = devnr[j]
    BY <1>1, <2>1, <2>2, AppendProperties DEF TypeOK
  <2>4. TypeOK'
    BY <1>1, <2>1, <2>2, <2>3 DEF TypeOK
  <2>5. PlaceInv' /\ DriverInv'
    BY <1>1, <2>1, <2>2, <2>3 DEF PlaceInv, First, Second, Latest, DriverInv
  <2>6. OursInv'
    BY <1>1, <2>1, <2>2, <2>3 DEF OursInv, ToDo
  <2>7. FilesInv'
    BY <1>1, <2>1, <2>3 DEF FilesInv, Second, Latest
  <2> QED BY <2>4, <2>5, <2>6, <2>7
<1> QED BY <1>2, <1>3

LEMMA StepFirst == LoopInv /\ (LoopDone \/ MakeFile \/ SetFd) => LoopInv'
<1> SUFFICES ASSUME LoopInv, LoopDone \/ MakeFile \/ SetFd PROVE LoopInv'
  OBVIOUS
<1> USE SeqFacts DEF LoopInv
<1>1. CASE LoopDone
  BY <1>1 DEF LoopDone, Break, loop, TypeOK, PlaceInv, First, Second, Latest,
              DriverInv, OursInv, ToDo, FilesInv
<1>2. CASE MakeFile
  <2>1. /\ pc = "mkfile" /\ Len(devnr) = n + 1 /\ n < MAX_LOOP /\ Latest \in exists
        /\ i = 1 /\ autoclear \subseteq detached
    BY <1>2 DEF MakeFile, PlaceInv, First
  <2>2. UNCHANGED <<devnr, n, leaked, exists, bound, held, autoclear, acts, detached>>
    BY <1>2 DEF MakeFile, loop
  <2>3. /\ i' = 1 /\ pc' \in {"setfd", "reopen"}
        /\ files' = files \cup {Latest} \/ (files' = files /\ pc' = "reopen")
    BY <1>2, <2>1 DEF MakeFile, Break, Latest
  <2>4. Latest \in Dev
    BY <2>1 DEF Latest
  <2>5. TypeOK'
    BY <2>1, <2>2, <2>3, <2>4 DEF TypeOK
  <2>6. PlaceInv' /\ DriverInv'
    BY <2>1, <2>2, <2>3 DEF PlaceInv, First, Second, Latest, DriverInv
  <2>7. OursInv' /\ FilesInv'
    BY <2>1, <2>2, <2>3 DEF OursInv, ToDo, FilesInv, Second, Latest
  <2> QED BY <2>5, <2>6, <2>7
<1>3. CASE SetFd
  <2>1. /\ pc = "setfd" /\ Len(devnr) = n + 1 /\ n < MAX_LOOP /\ Latest \in exists
        /\ i = 1 /\ autoclear \subseteq detached /\ Latest \in files
    BY <1>3 DEF SetFd, PlaceInv, First
  <2>2. UNCHANGED <<devnr, files, exists, held, autoclear, acts, detached>>
    BY <1>3 DEF SetFd
  <2>3. Latest \in Dev
    BY <2>1 DEF Latest
  <2>4. CASE /\ bound[Latest] = "none"
             /\ bound' = [bound EXCEPT ![Latest] = "loopy"]
             /\ n' = n + 1 /\ pc' = "getfree" /\ UNCHANGED <<i, leaked>>
    <3>0. /\ n' \in 0 .. MAX_LOOP /\ Len(devnr') \in {n', n' + 1} /\ i' \in 1 .. n' + 1
          /\ bound' \in [Dev -> {"none", "loopy", "other"}]
      <4>1. bound' \in [Dev -> {"none", "loopy", "other"}]
        BY <2>4 DEF TypeOK
      <4>2. n' \in 0 .. MAX_LOOP
        BY <2>1, <2>4, LoopAssumption DEF TypeOK
      <4> QED BY <2>1, <2>2, <2>4, <4>1, <4>2
    <3>1. TypeOK'
      BY <2>2, <2>3, <2>4, <3>0 DEF TypeOK
    <3>2. PlaceInv' /\ DriverInv'
      BY <2>1, <2>2, <2>3, <2>4 DEF PlaceInv, First, Second, DriverInv, TypeOK
    <3>3. ASSUME NEW j \in ToDo'
          PROVE  \/ devnr[j] \in detached
                 \/ bound'[devnr[j]] = "loopy" /\ devnr[j] \notin autoclear
      BY <2>1, <2>3, <2>4 DEF ToDo, OursInv, TypeOK, Latest
    <3>4. OursInv'
      BY <2>2, <3>3 DEF OursInv
    <3>5. FilesInv'
      BY <2>1, <2>2, <2>3, <2>4 DEF FilesInv, Second, Latest, TypeOK
    <3> QED BY <3>1, <3>2, <3>4, <3>5
  <2>5. CASE leaked' = leaked \cup {Latest} /\ Break /\ UNCHANGED <<n, bound>>
    <3>1. TypeOK'
      BY <2>1, <2>2, <2>3, <2>5 DEF Break, TypeOK
    <3>2. PlaceInv' /\ DriverInv'
      BY <2>1, <2>2, <2>5 DEF Break, PlaceInv, First, Second, DriverInv
    <3>3. OursInv' /\ FilesInv'
      BY <2>1, <2>2, <2>5 DEF Break, OursInv, ToDo, FilesInv, Second, Latest
    <3> QED BY <3>1, <3>2, <3>3
  <2> QED BY <1>3, <2>4, <2>5 DEF SetFd, Latest
<1> QED BY <1>1, <1>2, <1>3

LEMMA StepReopen == LoopInv /\ (Reopen \/ Return) => LoopInv'
<1> SUFFICES ASSUME LoopInv, Reopen \/ Return PROVE LoopInv'
  OBVIOUS
<1> USE SeqFacts DEF LoopInv
<1>1. CASE Reopen
  <2>1. /\ pc = "reopen" /\ i <= n
        /\ UNCHANGED <<devnr, n, leaked, exists, bound, held, autoclear, acts, detached>>
    BY <1>1 DEF Reopen, loop
  <2>2. CASE /\ devnr[i] \in files /\ files' = files \ {devnr[i]}
             /\ pc' = "clrfd" /\ UNCHANGED i
    <3>1. TypeOK' /\ PlaceInv' /\ DriverInv'
      BY <2>1, <2>2 DEF TypeOK, PlaceInv, First, Second, Latest, DriverInv
    <3>2. OursInv' /\ FilesInv'
      BY <2>1, <2>2 DEF OursInv, ToDo, FilesInv, Second, Latest
    <3> QED BY <3>1, <3>2
  <2>3. CASE i' = i + 1 /\ UNCHANGED <<pc, files>>
    <3>1. TypeOK' /\ PlaceInv' /\ DriverInv'
      BY <2>1, <2>3 DEF TypeOK, PlaceInv, First, Second, Latest, DriverInv
    <3>2. OursInv' /\ FilesInv'
      BY <2>1, <2>3 DEF OursInv, ToDo, FilesInv, Second, Latest
    <3> QED BY <3>1, <3>2
  <2> QED BY <1>1, <2>2, <2>3 DEF Reopen
<1>2. CASE Return
  BY <1>2 DEF Return, loop, TypeOK, PlaceInv, First, Second, Latest, DriverInv,
              OursInv, ToDo, FilesInv
<1> QED BY <1>1, <1>2

(* LOOP_CLR_FD is for a device that is loopy's own, or was taken from it.  *)
LEMMA StepClrFd == LoopInv /\ ClrFd => LoopInv'
<1> SUFFICES ASSUME LoopInv, ClrFd PROVE LoopInv'
  OBVIOUS
<1> USE SeqFacts DEF LoopInv
<1> DEFINE d == devnr[i]
<1>1. /\ pc = "clrfd" /\ i <= n /\ d \notin files /\ pc' = "remove"
      /\ UNCHANGED <<devnr, n, i, files, leaked, exists, held, acts, detached>>
  BY DEF ClrFd, PlaceInv, Second
<1>2. d \in Dev /\ i \in 1 .. Len(devnr)
  BY <1>1 DEF TypeOK
<1>3. \/ UNCHANGED <<bound, autoclear>>
      \/ /\ d \in exists /\ d \in held \cup leaked
         /\ autoclear' = autoclear \cup {d} /\ bound' = bound
      \/ bound' = [bound EXCEPT ![d] = "none"] /\ autoclear' = autoclear \ {d}
  BY DEF ClrFd, Unbind
<1> HIDE DEF d
<1>4. TypeOK'
  BY <1>1, <1>2, <1>3 DEF TypeOK
<1>5. PlaceInv' /\ DriverInv'
  <2>1. devnr'[i'] \notin files'
    BY <1>1 DEF d
  <2> QED BY <1>1, <1>2, <1>3, <2>1 DEF PlaceInv, First, Second, DriverInv, TypeOK
<1>6. OursInv'
  <2> SUFFICES ASSUME NEW j \in ToDo'
               PROVE  \/ devnr[j] \in detached
                      \/ bound'[devnr[j]] = "loopy" /\ devnr[j] \notin autoclear'
    BY <1>1 DEF OursInv
  <2>1. j \in ToDo /\ j > i /\ j \in 1 .. Len(devnr)
    BY <1>1 DEF ToDo, TypeOK
  <2>2. CASE devnr[j] = d
    BY <1>2, <2>1, <2>2 DEF OursInv, d
  <2>3. CASE devnr[j] # d
    BY <1>2, <1>3, <2>1, <2>3 DEF OursInv, TypeOK
  <2> QED BY <2>2, <2>3
<1>7. FilesInv'
  BY <1>1, <1>2, <1>3 DEF FilesInv, Second, Latest, TypeOK, d
<1> QED BY <1>4, <1>5, <1>6, <1>7

LEMMA StepRemove == LoopInv /\ Remove => LoopInv'
<1> SUFFICES ASSUME LoopInv, Remove PROVE LoopInv'
  OBVIOUS
<1> USE SeqFacts DEF LoopInv
<1>1. /\ pc = "remove" /\ i <= n /\ devnr[i] \notin files
      /\ bound[devnr[i]] = "none" /\ devnr[i] \notin held \cup leaked
      /\ exists' = exists \ {devnr[i]} /\ pc' = "reopen" /\ i' = i + 1
      /\ UNCHANGED <<devnr, n, files, leaked, bound, held, autoclear, acts, detached>>
  BY DEF Remove, Busy, PlaceInv, Second
<1>2. TypeOK' /\ PlaceInv' /\ DriverInv'
  BY <1>1 DEF TypeOK, PlaceInv, First, Second, DriverInv
<1>3. OursInv' /\ FilesInv'
  BY <1>1 DEF OursInv, ToDo, FilesInv, Second, Latest
<1> QED BY <1>2, <1>3

(* Other processes. *)
LEMMA StepOthers ==
  ASSUME LoopInv, NEW d \in Dev,
         OtherBinds(d) \/ OtherOpens(d) \/ OtherDetaches(d) \/ LetGo(d)
  PROVE  LoopInv'
<1> USE SeqFacts DEF LoopInv, mine
<1>1. CASE OtherBinds(d)
  <2>1. bound[d] = "none" /\ d \in exists /\ acts \in 0 .. MaxActs - 1
    BY <1>1, LoopAssumption DEF OtherBinds, Acting, Free, TypeOK
  <2>2. /\ bound' = [bound EXCEPT ![d] = "other"] /\ acts' = acts + 1
        /\ UNCHANGED <<pc, devnr, n, i, files, leaked, exists, held, autoclear, detached>>
    BY <1>1 DEF OtherBinds, Acting
  <2>3. TypeOK'
    <3>1. acts' \in 0 .. MaxActs
      BY <2>1, <2>2, LoopAssumption
    <3>2. bound' \in [Dev -> {"none", "loopy", "other"}]
      BY <2>2 DEF TypeOK
    <3> QED BY <2>2, <3>1, <3>2 DEF TypeOK
  <2>4. PlaceInv' /\ DriverInv'
    BY <2>1, <2>2 DEF TypeOK, PlaceInv, First, Second, Latest, DriverInv
  <2>5. OursInv' /\ FilesInv'
    BY <2>1, <2>2 DEF OursInv, ToDo, FilesInv, Second, Latest, TypeOK
  <2> QED BY <2>3, <2>4, <2>5
<1>2. CASE OtherOpens(d)
  <2>1. TypeOK' /\ PlaceInv' /\ DriverInv'
    BY <1>2, LoopAssumption
    DEF OtherOpens, Acting, TypeOK, PlaceInv, First, Second, Latest, DriverInv
  <2>2. OursInv' /\ FilesInv'
    BY <1>2 DEF OtherOpens, OursInv, ToDo, FilesInv, Second, Latest
  <2> QED BY <2>1, <2>2
<1>3. CASE OtherDetaches(d)
  <2>1. /\ bound[d] = "loopy" /\ d \in exists /\ acts < MaxActs /\ acts' = acts + 1
        /\ detached' = detached \cup {d}
        /\ UNCHANGED <<pc, devnr, n, i, files, leaked, exists, held>>
    BY <1>3 DEF OtherDetaches, Acting, DriverInv
  <2>2. \/ autoclear' = autoclear \cup {d} /\ d \in held /\ bound' = bound
        \/ bound' = [bound EXCEPT ![d] = "none"] /\ autoclear' = autoclear \ {d}
    BY <1>3 DEF OtherDetaches, Unbind
  <2>3. TypeOK' /\ PlaceInv' /\ DriverInv'
    BY <2>1, <2>2, LoopAssumption DEF TypeOK, PlaceInv, First, Second, Latest, DriverInv
  <2>4. OursInv' /\ FilesInv'
    BY <2>1, <2>2 DEF OursInv, ToDo, FilesInv, Second, Latest, TypeOK
  <2> QED BY <2>3, <2>4
<1>4. CASE OtherUnbinds(d)
  <2>1. TypeOK' /\ PlaceInv' /\ DriverInv'
    BY <1>4 DEF OtherUnbinds, TypeOK, PlaceInv, First, Second, Latest, DriverInv
  <2>2. OursInv' /\ FilesInv'
    BY <1>4 DEF OtherUnbinds, OursInv, ToDo, FilesInv, Second, Latest, TypeOK
  <2> QED BY <2>1, <2>2
<1>5. CASE OtherCloses(d)
  <2>1. /\ held' = held \ {d}
        /\ UNCHANGED <<pc, devnr, n, i, files, leaked, exists, acts, detached>>
    BY <1>5 DEF OtherCloses
  <2>2. \/ /\ d \in autoclear
           /\ bound' = [bound EXCEPT ![d] = "none"] /\ autoclear' = autoclear \ {d}
        \/ ~(d \in autoclear \ leaked) /\ UNCHANGED <<bound, autoclear>>
    BY <1>5 DEF OtherCloses, Unbind
  <2>3. TypeOK' /\ PlaceInv' /\ DriverInv'
    BY <2>1, <2>2 DEF TypeOK, PlaceInv, First, Second, Latest, DriverInv
  <2>4. OursInv' /\ FilesInv'
    BY <2>1, <2>2 DEF OursInv, ToDo, FilesInv, DriverInv, Second, Latest, TypeOK
  <2> QED BY <2>3, <2>4
<1> QED BY <1>1, <1>2, <1>3, <1>4, <1>5 DEF LetGo

LEMMA StepLoop == LoopInv /\ [Next]_vars => LoopInv'
<1> SUFFICES ASSUME LoopInv, [Next]_vars PROVE LoopInv'
  OBVIOUS
<1>1. CASE Progress
  BY <1>1, StepGetFree, StepFirst, StepReopen, StepClrFd, StepRemove DEF Progress
<1>2. ASSUME NEW d \in Dev, OtherBinds(d) \/ OtherOpens(d) \/ OtherDetaches(d) \/ LetGo(d)
      PROVE  LoopInv'
  BY <1>2, StepOthers
<1>3. CASE UNCHANGED vars
  BY <1>3 DEF vars, LoopInv, TypeOK, PlaceInv, First, Second, Latest, DriverInv,
              OursInv, ToDo, FilesInv
<1> QED BY <1>1, <1>2, <1>3 DEF Next, Retry

(* What the second loop relies on in the arrays the first one filled, and  *)
(* what the driver holds meanwhile: the conjuncts of LoopInv.              *)
THEOREM Invariant == Spec => []LoopInv
BY InitLoop, StepLoop, PTL DEF Spec

(* The arrays of loop_create(), its indices and the driver keep their      *)
(* types; n never passes MAX_LOOP, the size of devnr (loopy.c:49, 55).     *)
THEOREM TypeCorrect == Spec => []TypeOK
<1>1. LoopInv => TypeOK
  BY DEF LoopInv
<1> QED BY <1>1, Invariant, PTL

(* What is left over when loop_create() returns is accounted for: every    *)
(* device still bound to loopy has its backing file, and every backing     *)
(* file is that of such a device, of one taken away, or of the device at   *)
(* which the first loop broke off (loopy.c:65, 74-88, 95-100).             *)
THEOREM LeftoversAccounted == Spec => []LeftoversMatch
<1>1. LoopInv => LeftoversMatch
  BY DEF LoopInv, FilesInv, LeftoversMatch, Second, Latest
<1> QED BY <1>1, Invariant, PTL

(* LOOP_SET_FD binds only what is unbound and LOOP_CLR_FD unbinds only     *)
(* what is in the array and loopy's own, or was taken from it before       *)
(* (loopy.c:86, 105).                                                      *)
LEMMA StepKeeps ==
  ASSUME LoopInv, [Next]_vars,
         NEW d \in Dev \ detached, bound[d] = "other", bound'[d] # "other"
  PROVE  UNCHANGED <<pc, i>>
<1> USE SeqFacts DEF LoopInv
<1>1. CASE SetFd
  <2>1. bound' = bound \/ \E e \in Dev : bound[e] = "none"
                           /\ bound' = [bound EXCEPT ![e] = "loopy"]
    BY <1>1 DEF SetFd, PlaceInv
  <2> QED BY <2>1 DEF TypeOK
<1>2. CASE ClrFd
  <2>1. bound' = bound \/ bound' = [bound EXCEPT ![devnr[i]] = "none"]
    BY <1>2 DEF ClrFd, Unbind
  <2>2. pc = "clrfd" /\ i \in ToDo
    BY <1>2 DEF ClrFd, PlaceInv, Second, ToDo, TypeOK
  <2>3. devnr[i] \in detached \/ bound[devnr[i]] = "loopy"
    BY <2>2 DEF OursInv
  <2> QED BY <2>1, <2>3 DEF TypeOK
<1>3. CASE GetFreeDev \/ LoopDone \/ MakeFile \/ Reopen \/ Remove \/ Return
  BY <1>3 DEF GetFreeDev, LoopDone, MakeFile, Reopen, Remove, Return, loop
<1>4. ASSUME NEW e \in Dev, OtherBinds(e) \/ OtherOpens(e) \/ OtherDetaches(e) \/ LetGo(e)
      PROVE  UNCHANGED <<pc, i>>
  BY <1>4 DEF OtherBinds, OtherOpens, OtherDetaches, LetGo, OtherUnbinds, OtherCloses, mine
<1>5. CASE UNCHANGED vars
  BY <1>5 DEF vars
<1> QED BY <1>1, <1>2, <1>3, <1>4, <1>5 DEF Next, Progress, Retry

(* No step of loopy takes a device from another process.                   *)
THEOREM OthersKeep == Spec => OthersKeepTheirs
<1>1. LoopInv /\ [Next]_vars =>
        [\A d \in Dev \ detached :
           bound[d] = "other" /\ bound'[d] # "other" => UNCHANGED <<pc, i>>]_vars
  BY StepKeeps
<1> QED BY <1>1, Invariant, PTL DEF Spec, OthersKeepTheirs

=============================================================================
