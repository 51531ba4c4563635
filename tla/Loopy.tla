------------------------------- MODULE Loopy --------------------------------
(***************************************************************************)
(* loopy/loopy.c: loop_create() binds up to MAX_LOOP free loop devices to  *)
(* backing files of its own, then unbinds and removes every one of them,   *)
(* retrying a removal for as long as the device is busy.                   *)
(*                                                                         *)
(* The loop driver is the kernel's, and other processes use it as well:    *)
(* they bind free devices, hold devices open (udev, blkid) and may unbind  *)
(* (losetup -d) the ones loopy has bound.                                  *)
(***************************************************************************)
EXTENDS Integers, Sequences, FiniteSets, FiniteSetsExt

CONSTANTS
  Dev,         \* minor numbers of the loop driver
  Present,     \* devices that exist when loopy starts
  MAX_LOOP,
  MaxActs      \* bound: steps others take of their own accord

ASSUME DevAssumption  == Dev \subseteq Nat /\ IsFiniteSet(Dev) /\ Present \subseteq Dev
ASSUME LoopAssumption == MAX_LOOP \in Nat /\ MaxActs \in Nat

VARIABLES
  pc,
  devnr,    \* what GET_FREE returned, in order; the last one may have failed
  n,        \* devices bound by the first loop
  i,        \* index of the second loop, from 1
  files,    \* devices whose backing file exists
  leaked,   \* devices whose descriptor lfd was never closed
  exists, bound, held, autoclear,   \* the driver; bound[d]: by whom
  acts,     \* steps others took of their own accord
  detached  \* history: devices that others took away from loopy

vars == <<pc, devnr, n, i, files, leaked, exists, bound, held, autoclear, acts, detached>>
loop == <<exists, bound, held, autoclear, acts, detached>>

(***************************************************************************)
(* The loop driver.                                                        *)
(***************************************************************************)

Free == {d \in exists : bound[d] = "none"}

(* LOOP_CTL_GET_FREE: the first unbound device, else a new one.            *)
GetFree ==
  IF Free # {} THEN Free
               ELSE Dev \ exists

(* LOOP_CLR_FD on a device open elsewhere takes effect at the last close.  *)
Unbind(d, openElsewhere) ==
  IF openElsewhere
    THEN autoclear' = autoclear \cup {d} /\ UNCHANGED bound
    ELSE bound' = [bound EXCEPT ![d] = "none"] /\ autoclear' = autoclear \ {d}

Busy(d) == bound[d] # "none" \/ d \in held \cup leaked

(***************************************************************************)
(* The first loop: lines 55-91.                                            *)
(***************************************************************************)

Break == pc' = "reopen" /\ i' = 1

GetFreeDev ==
  /\ pc = "getfree" /\ n < MAX_LOOP
  /\ \/ /\ GetFree # {}
        /\ devnr' = Append(devnr, Min(GetFree))
        /\ exists' = exists \cup {Min(GetFree)}
        /\ pc' = "mkfile" /\ UNCHANGED i
     \/ Break /\ UNCHANGED <<devnr, exists>>         \* ioctl failed
  /\ UNCHANGED <<n, files, leaked, bound, held, autoclear, acts, detached>>

LoopDone ==
  /\ pc = "getfree" /\ n = MAX_LOOP
  /\ Break
  /\ UNCHANGED <<devnr, n, files, leaked, loop>>

(* Create the backing file, then open the device; either may fail.         *)
MakeFile ==
  /\ pc = "mkfile"
  /\ \/ /\ files' = files \cup {devnr[n + 1]}
        /\ pc' = "setfd" /\ UNCHANGED i
     \/ files' = files \cup {devnr[n + 1]} /\ Break  \* no /dev/loopN
     \/ Break /\ UNCHANGED files                     \* no backing file
  /\ UNCHANGED <<devnr, n, leaked, loop>>

(* LOOP_SET_FD is refused when another process was faster, or for a reason *)
(* of the file system's; lfd stays open then.                              *)
SetFd ==
  /\ pc = "setfd"
  /\ LET d == devnr[n + 1] IN
       \/ /\ bound[d] = "none"
          /\ bound' = [bound EXCEPT ![d] = "loopy"]
          /\ n' = n + 1
          /\ pc' = "getfree" /\ UNCHANGED <<i, leaked>>
       \/ /\ leaked' = leaked \cup {d}
          /\ Break /\ UNCHANGED <<n, bound>>
  /\ UNCHANGED <<devnr, files, exists, held, autoclear, acts, detached>>

(***************************************************************************)
(* The second loop: lines 93-124.                                          *)
(***************************************************************************)

(* Re-open and unlink the backing file; a device without one is left.      *)
Reopen_oneMore ==          \* mutant: the loop runs to the device that failed
  /\ pc = "reopen" /\ i <= Len(devnr)
  /\ \/ /\ devnr[i] \in files
        /\ files' = files \ {devnr[i]}
        /\ pc' = "clrfd" /\ UNCHANGED i
     \/ i' = i + 1 /\ UNCHANGED <<pc, files>>
  /\ UNCHANGED <<devnr, n, leaked, loop>>

Reopen_unlinkFirst ==      \* mutant: the file is unlinked before it is opened
  /\ pc = "reopen" /\ i <= n
  /\ files' = files \ {devnr[i]}
  /\ \/ devnr[i] \in files /\ pc' = "clrfd" /\ UNCHANGED i
     \/ i' = i + 1 /\ UNCHANGED pc
  /\ UNCHANGED <<devnr, n, leaked, loop>>

Reopen ==
  /\ pc = "reopen" /\ i <= n
  /\ \/ /\ devnr[i] \in files
        /\ files' = files \ {devnr[i]}
        /\ pc' = "clrfd" /\ UNCHANGED i
     \/ i' = i + 1 /\ UNCHANGED <<pc, files>>
  /\ UNCHANGED <<devnr, n, leaked, loop>>

(* open, LOOP_CLR_FD (ENXIO when nothing is bound), close.                 *)
ClrFd_keepsOpen ==         \* mutant: close(lfd) of line 110 is left out
  /\ pc = "clrfd"
  /\ LET d == devnr[i] IN
       /\ d \in exists /\ Unbind(d, d \in held \cup leaked)
       /\ leaked' = leaked \cup {d}
  /\ pc' = "remove"
  /\ UNCHANGED <<devnr, n, i, files, exists, held, acts, detached>>

ClrFd ==
  /\ pc = "clrfd"
  /\ LET d == devnr[i] IN
       \/ d \in exists /\ bound[d] # "none" /\ Unbind(d, d \in held \cup leaked)
       \/ d \in exists /\ bound[d] = "none" /\ UNCHANGED <<bound, autoclear>>
       \/ UNCHANGED <<bound, autoclear>>             \* open failed
  /\ pc' = "remove"
  /\ UNCHANGED <<devnr, n, i, files, leaked, exists, held, acts, detached>>

(* LOOP_CTL_REMOVE; any error but EBUSY goes on to the next device.        *)
Remove ==
  /\ pc = "remove" /\ ~Busy(devnr[i])
  /\ exists' = exists \ {devnr[i]}
  /\ pc' = "reopen" /\ i' = i + 1
  /\ UNCHANGED <<devnr, n, files, leaked, bound, held, autoclear, acts, detached>>

(* EBUSY: usleep(2000) and again. *)
Retry ==
  /\ pc = "remove" /\ Busy(devnr[i])
  /\ UNCHANGED vars

Return ==
  /\ pc = "reopen" /\ i > n
  /\ pc' = "exit"
  /\ UNCHANGED <<devnr, n, i, files, leaked, loop>>

(***************************************************************************)
(* Other processes.  They let go in the end of what they bind or open.     *)
(***************************************************************************)
mine == <<pc, devnr, n, i, files, leaked>>

Acting == acts < MaxActs /\ acts' = acts + 1

OtherBinds(d) ==
  /\ Acting /\ d \in Free
  /\ bound' = [bound EXCEPT ![d] = "other"]
  /\ UNCHANGED <<mine, exists, held, autoclear, detached>>

OtherOpens(d) ==
  /\ Acting /\ d \in exists \ held
  /\ held' = held \cup {d}
  /\ UNCHANGED <<mine, exists, bound, autoclear, detached>>

OtherDetaches(d) ==
  /\ Acting
  /\ bound[d] = "loopy" /\ Unbind(d, d \in held)
  /\ detached' = detached \cup {d}
  /\ UNCHANGED <<mine, exists, held>>

OtherUnbinds(d) ==
  /\ bound[d] = "other" /\ d \notin held
  /\ bound' = [bound EXCEPT ![d] = "none"]
  /\ UNCHANGED <<mine, exists, held, autoclear, acts, detached>>

OtherCloses(d) ==
  /\ d \in held
  /\ held' = held \ {d}
  /\ IF d \in autoclear \ leaked THEN Unbind(d, FALSE)
                                 ELSE UNCHANGED <<bound, autoclear>>
  /\ UNCHANGED <<mine, exists, acts, detached>>

(***************************************************************************)

Init ==
  /\ pc = "getfree"
  /\ devnr = <<>> /\ n = 0 /\ i = 1
  /\ files = {} /\ leaked = {}
  /\ exists = Present /\ held = {} /\ autoclear = {}
  /\ bound = [d \in Dev |-> "none"]
  /\ acts = 0 /\ detached = {}

Progress ==
  GetFreeDev \/ LoopDone \/ MakeFile \/ SetFd \/ Reopen \/ ClrFd \/ Remove \/ Return

LetGo(d) == OtherUnbinds(d) \/ OtherCloses(d)

Next ==
  \/ Progress \/ Retry
  \/ \E d \in Dev : OtherBinds(d) \/ OtherOpens(d) \/ OtherDetaches(d) \/ LetGo(d)
  \/ pc = "exit" /\ UNCHANGED vars

(* loopy is scheduled, and others unbind and close what they use in time.  *)
Fairness == WF_vars(Progress) /\ \A d \in Dev : WF_vars(LetGo(d))

Spec     == Init /\ [][Next]_vars
FairSpec == Spec /\ Fairness

-----------------------------------------------------------------------------
(* Type invariant: the arrays and indices of loop_create(), the driver.    *)
TypeOK ==
  /\ pc \in {"getfree", "mkfile", "setfd", "reopen", "clrfd", "remove", "exit"}
  /\ devnr \in Seq(Dev) /\ n \in 0 .. MAX_LOOP /\ Len(devnr) \in {n, n + 1}
  /\ i \in 1 .. n + 1
  /\ files \subseteq Dev /\ leaked \subseteq Dev
  /\ exists \subseteq Dev /\ held \subseteq exists /\ autoclear \subseteq exists
  /\ bound \in [Dev -> {"none", "loopy", "other"}]
  /\ acts \in 0 .. MaxActs /\ detached \subseteq Dev

(* When loopy has returned, a device it bound and could not release still  *)
(* has its backing file, and every other file left over belongs to the     *)
(* device at which the first loop broke off, or to one that was taken away *)
(* (loopy.c:65, 74-88, 95-100).                                            *)
LeftoversMatch ==
  pc = "exit" =>
    /\ \A d \in Dev : bound[d] = "loopy" => d \in files
    /\ \A d \in files :
         bound[d] = "loopy" \/ d \in detached \/ (Len(devnr) > n /\ d = devnr[n + 1])

(* No step of loopy unbinds a device that another process has bound        *)
(* (loopy.c:105), not even the one it lost to it between GET_FREE and      *)
(* SET_FD, or between CLR_FD and REMOVE: only a device that somebody took  *)
(* away from loopy before can be mistaken for its own.                     *)
OthersKeepTheirs ==
  [][ \A d \in Dev \ detached :
        bound[d] = "other" /\ bound'[d] # "other" => UNCHANGED <<pc, i>> ]_vars

(* The retry loop (loopy.c:113-118) has no way out when the device is      *)
(* still bound because it could not be opened again, or when loopy itself  *)
(* holds it by the descriptor that line 87 leaves open.                    *)
Wedged ==
  /\ pc = "remove"
  /\ \/ bound[devnr[i]] = "loopy" /\ devnr[i] \notin autoclear
     \/ Len(devnr) > n /\ devnr[i] = devnr[n + 1] /\ devnr[i] \in leaked

(* Those are the only two ways: otherwise loop_create() returns.           *)
ReturnsUnlessWedged == []~Wedged => <>(pc = "exit")

=============================================================================
