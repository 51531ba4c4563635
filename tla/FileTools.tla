----------------------------- MODULE FileTools -----------------------------
(***************************************************************************)
(* The programs that look at one file while it changes.                    *)
(*   iotest (io-4k-sector-test) writes its offset into block after block   *)
(*     until a write fails, then reads the blocks back.                    *)
(*   fiemap asks the kernel how many extents there are, and then for them. *)
(*   fibmap (block-mapper-fibmap) asks for the size, and then for the      *)
(*     place of each block.                                                *)
(* iotest's file grows under the other two; a defragmenter and a process   *)
(* that truncates it do the rest.  A write behind the end of the file      *)
(* leaves a hole.  Data goes through the page cache, and the device may be *)
(* a fake: one that is smaller than it says.                               *)
(***************************************************************************)
EXTENDS Integers, Sequences, FiniteSets

CONSTANTS
  SIZE,        \* blocks the device says it has for the file
  REAL,        \* blocks a fake device has
  LIMIT,       \* longest file, in blocks: further writes fail with EFBIG
  MAXINT,      \* largest int
  EXTENT,      \* sizeof(struct fiemap_extent)
  Watched,     \* bound: devices on which fibmap or fiemap run beside iotest
  MaxChanges   \* bound: moves and truncations by other processes

Devices == {"good", "wraps", "drops"}

ASSUME SizeAssumption == SIZE \in Nat \ {0} /\ REAL \in 1 .. SIZE
ASSUME LimitAssumption == LIMIT \in Nat /\ LIMIT >= 2 /\ LIMIT >= SIZE
ASSUME IntAssumption == MAXINT \in Nat /\ EXTENT \in Nat \ {0}
ASSUME BoundAssumption == Watched \subseteq Devices /\ MaxChanges \in Nat

Phys == 1 .. SIZE
Hole == 0                          \* no block: reads as zeros
Junk == -1                         \* what was on the disk before
Content == 0 .. LIMIT - 1 \cup {Junk}   \* 0: zeros, or the pattern of block 0

VARIABLES
  file,      \* file[b + 1]: physical block of block b, or Hole
  cache,     \* pages of the file: contents, and whether they are dirty
  disk,      \* contents of the cells of the device
  device,    \* "good"; "wraps": block p is again cell p - REAL; "drops":
             \*   writes behind block REAL are lost
  io, fib, fie,   \* the programs' locals
  version,   \* ghost: counts the changes of file
  changes    \* changes by other processes

fileVars == <<file, cache, disk, device, io, fib, fie, version, changes>>
data == <<cache, disk, device>>

Free    == Phys \ {file[i] : i \in DOMAIN file}
Cell(p) == IF device = "wraps" THEN ((p - 1) % REAL) + 1 ELSE p

Allocated(b) == b < Len(file) /\ file[b + 1] # Hole

(* f with block b at p, and a hole where it was too short.                 *)
Placed(f, b, p) ==
  [i \in 1 .. IF b < Len(f) THEN Len(f) ELSE b + 1 |->
     IF i = b + 1 THEN p ELSE IF i <= Len(f) THEN f[i] ELSE Hole]

Wrap(n) == ((n + MAXINT + 1) % (2 * MAXINT + 2)) - MAXINT - 1

(* Runs of neighbouring blocks, as FIEMAP lists them; holes are not.       *)
Extents(f) ==
  LET follows(i) == i > 1 /\ f[i - 1] # Hole /\ f[i] = f[i - 1] + 1
      first == {i \in DOMAIN f : f[i] # Hole /\ ~follows(i)}
      end(i) == CHOOSE j \in i .. Len(f) :
                  /\ j = Len(f) \/ ~follows(j + 1)
                  /\ \A l \in i + 1 .. j : follows(l)
  IN  {<<i - 1, f[i], end(i) - i + 1>> : i \in first}

(* What the first n entries of the list are.                               *)
Prefix(n, es) == {e \in es : Cardinality({d \in es : d[1] <= e[1]}) <= n}

(***************************************************************************)
(* The kernel: pages are written back and evicted when it likes.           *)
(***************************************************************************)
Page(c, b, v, d) ==                \* c with page b holding v
  [x \in DOMAIN c \cup {b} |-> IF x = b THEN [v |-> v, dirty |-> d] ELSE c[x]]

Stored(b) ==                       \* what reading block b returns
  IF b \in DOMAIN cache THEN cache[b].v
  ELSE IF file[b + 1] = Hole THEN 0 ELSE disk[Cell(file[b + 1])]

Writeback(b) ==
  /\ b \in DOMAIN cache /\ cache[b].dirty
  /\ cache' = Page(cache, b, cache[b].v, FALSE)
  /\ disk' = IF device = "drops" /\ file[b + 1] > REAL THEN disk
             ELSE [disk EXCEPT ![Cell(file[b + 1])] = cache[b].v]
  /\ UNCHANGED <<file, device, io, fib, fie, version, changes>>

Evict(b) ==
  /\ b \in DOMAIN cache /\ ~cache[b].dirty
  /\ cache' = [c \in DOMAIN cache \ {b} |-> cache[c]]
  /\ UNCHANGED <<file, disk, device, io, fib, fie, version, changes>>

(* Another process moves a block (its page is rewritten at the new place), *)
(* or truncates the file.  Ghost io.cut: below the place where iotest      *)
(* writes, so that its next write leaves a hole behind.                    *)
Move(b) ==
  /\ changes < MaxChanges /\ Allocated(b)
  /\ \E p \in Free : file' = [file EXCEPT ![b + 1] = p]
  /\ cache' = Page(cache, b, Stored(b), TRUE)
  /\ changes' = changes + 1 /\ version' = version + 1
  /\ UNCHANGED <<disk, device, io, fib, fie>>

Truncate ==
  /\ changes < MaxChanges /\ file # <<>>
  /\ \E n \in 0 .. Len(file) - 1 :
       /\ file' = SubSeq(file, 1, n)
       /\ cache' = [b \in DOMAIN cache \cap (0 .. n - 1) |-> cache[b]]
       /\ io' = [io EXCEPT !.cut = @ \/ (io.pc = "write" /\ n < io.b)]
  /\ changes' = changes + 1 /\ version' = version + 1
  /\ UNCHANGED <<disk, device, fib, fie>>

(***************************************************************************)
(* iotest.  A block is filled with its offset; the file is opened without  *)
(* O_DIRECT and nothing is synced between the two tests.                   *)
(***************************************************************************)
Pattern_flat(b) == 0       \* mutant: the buffer is filled once
Pattern(b) == b

(* The write goes to offset io.b wherever the file ends by now.            *)
IoWrite ==
  /\ io.pc = "write" /\ io.b < LIMIT
  /\ \/ Allocated(io.b) /\ UNCHANGED <<file, version>>
     \/ /\ ~Allocated(io.b)
        /\ \E p \in Free : file' = Placed(file, io.b, p)
        /\ version' = version + 1
  /\ cache' = Page(cache, io.b, Pattern(io.b), TRUE)
  /\ io' = [io EXCEPT !.b = @ + 1, !.count = @ + 1]
  /\ UNCHANGED <<disk, device, fib, fie, changes>>

(* No space is left, or an error; what follows is the read test.           *)
IoWriteFails_counted ==    \* mutant: count++ before the test
  /\ io.pc = "write"
  /\ io' = [io EXCEPT !.pc = "read", !.b = 0, !.count = @ + 1,
                      !.cold = \A b \in DOMAIN cache : ~cache[b].dirty]
  /\ UNCHANGED <<file, data, fib, fie, version, changes>>

IoWriteFails ==
  /\ io.pc = "write"
  /\ io' = [io EXCEPT !.pc = "read", !.b = 0,
                      !.cold = \A b \in DOMAIN cache : ~cache[b].dirty]
  /\ UNCHANGED <<file, data, fib, fie, version, changes>>

IoRead ==
  /\ io.pc = "read" /\ io.b < io.count /\ io.b < Len(file)
  /\ cache' = IF io.b \in DOMAIN cache THEN cache ELSE Page(cache, io.b, Stored(io.b), FALSE)
  /\ io' = IF Stored(io.b) = Pattern(io.b)
             THEN [io EXCEPT !.b = @ + 1, !.cold = @ /\ io.b \notin DOMAIN cache]
             ELSE [io EXCEPT !.pc = "bad"]
  /\ UNCHANGED <<file, disk, device, fib, fie, version, changes>>

IoReadFails ==                     \* an error, or a short read
  /\ io.pc = "read" /\ io.b < io.count
  /\ io' = [io EXCEPT !.pc = "failed"]
  /\ UNCHANGED <<file, data, fib, fie, version, changes>>

IoEnd ==
  /\ io.pc = "read" /\ io.b = io.count
  /\ io' = [io EXCEPT !.pc = "good"]
  /\ UNCHANGED <<file, data, fib, fie, version, changes>>

(***************************************************************************)
(* fibmap.  FIBMAP gives 0 for a hole and behind the end of the file.  The *)
(* number goes through an int: older kernels cut it down, newer ones       *)
(* refuse it.  A block whose ioctl fails is printed all the same, as what  *)
(* the kernel left in the int: its own number, or 0.                       *)
(***************************************************************************)
FibStat ==
  /\ fib.pc = "stat"
  /\ fib' = [fib EXCEPT !.pc = "map", !.n = Wrap(Len(file)), !.seen = version]
  /\ UNCHANGED <<file, data, io, fie, version, changes>>

FibFails ==                        \* FIGETBSZ or fstat()
  /\ fib.pc = "stat"
  /\ fib' = [fib EXCEPT !.pc = "end", !.failed = TRUE]
  /\ UNCHANGED <<file, data, io, fie, version, changes>>

Place(b) == IF b < Len(file) THEN file[b + 1] ELSE 0

FibMap_fromOne ==          \* mutant: int block = i + 1
  /\ fib.pc = "map" /\ Len(fib.out) < fib.n
  /\ fib' = [fib EXCEPT !.out = Append(@, Wrap(Place(Len(fib.out) + 1)))]
  /\ UNCHANGED <<file, data, io, fie, version, changes>>

FibMap ==
  /\ fib.pc = "map" /\ Len(fib.out) < fib.n
  /\ LET b == Len(fib.out)
     IN  \/ fib' = [fib EXCEPT !.out = Append(@, Wrap(Place(b)))]
         \/ \E left \in {b, 0} :
              fib' = [fib EXCEPT !.out = Append(@, left), !.failed = TRUE]
  /\ UNCHANGED <<file, data, io, fie, version, changes>>

FibEnd ==
  /\ fib.pc = "map" /\ Len(fib.out) >= fib.n
  /\ fib' = [fib EXCEPT !.pc = "end"]
  /\ UNCHANGED <<file, data, io, fie, version, changes>>

(***************************************************************************)
(* fiemap.  Asked with fm_extent_count = 0 the kernel only counts, also    *)
(* the second time.  The size of the extents goes through an int as well.  *)
(***************************************************************************)
FieCount ==
  /\ fie.pc = "count"
  /\ LET n == Cardinality(Extents(file))
     IN  fie' = [fie EXCEPT !.pc = "read", !.room = n, !.size = Wrap(EXTENT * n),
                            !.seen = version]
  /\ UNCHANGED <<file, data, io, fib, version, changes>>

FieRead_uncounted ==       \* mutant: fm_extent_count stays 0
  /\ fie.pc = "read" /\ fie.size >= 0
  /\ fie' = [fie EXCEPT !.pc = "dump", !.mapped = Cardinality(Extents(file))]
  /\ UNCHANGED <<file, data, io, fib, version, changes>>

(* With a negative size realloc() or memset() ends the program (FieFails). *)
(* If the size is too small the kernel writes past the buffer: that may    *)
(* end it, too, or what is printed is there or has been overwritten.       *)
FieRead ==
  /\ fie.pc = "read" /\ fie.size >= 0
  /\ LET es == Prefix(fie.room, Extents(file))
     IN  \E got \in {es} \cup (IF EXTENT * Cardinality(es) <= fie.size THEN {} ELSE {{}}) :
           fie' = [fie EXCEPT !.pc = "dump", !.extents = got,
                              !.mapped = Cardinality(IF fie.room = 0 THEN Extents(file) ELSE es)]
  /\ UNCHANGED <<file, data, io, fib, version, changes>>

FieFails ==                        \* either ioctl, or the realloc; a crash
  /\ fie.pc \in {"count", "read"}
  /\ fie' = [fie EXCEPT !.pc = "end"]
  /\ UNCHANGED <<file, data, io, fib, version, changes>>

-----------------------------------------------------------------------------
(* A new file, one of two blocks anywhere of which the first may be a      *)
(* hole, or a full one.  fibmap and fiemap do not affect each other: one   *)
(* of them runs.                                                           *)
FileInit ==
  /\ \/ file \in {<<>>, [i \in 1 .. SIZE |-> i]}
     \/ \E p \in Phys : \E q \in (Phys \cup {Hole}) \ {p} : file = <<q, p>>
  /\ cache = <<>>
  /\ \E old \in {0, Junk} : disk = [p \in Phys |-> old]
  /\ device \in Devices
  /\ io = [pc |-> "write", b |-> 0, count |-> 0, cold |-> TRUE, cut |-> FALSE]
  /\ \E p \in IF device \in Watched THEN {<<"stat", "idle">>, <<"idle", "count">>}
                                      ELSE {<<"idle", "idle">>} :
     /\ fib = [pc |-> p[1], n |-> 0, out |-> <<>>, failed |-> FALSE, seen |-> 0]
     /\ fie = [pc |-> p[2], room |-> 0, size |-> 0, extents |-> {}, mapped |-> 0, seen |-> 0]
  /\ version = 0 /\ changes = 0

IoTest == IoWrite \/ IoWriteFails \/ IoRead \/ IoReadFails \/ IoEnd
Fibmap == FibStat \/ FibFails \/ FibMap \/ FibEnd
Fiemap == FieCount \/ FieRead \/ FieFails
Others == Truncate \/ \E b \in 0 .. LIMIT - 1 : Writeback(b) \/ Evict(b) \/ Move(b)

Finished ==
  /\ io.pc \in {"good", "bad", "failed"} /\ fib.pc \in {"idle", "end"}
  /\ fie.pc \in {"idle", "dump", "end"}
  /\ UNCHANGED fileVars

FileNext == IoTest \/ Fibmap \/ Fiemap \/ Others \/ Finished

FileSpec == FileInit /\ [][FileNext]_fileVars

-----------------------------------------------------------------------------
(* Type invariant: the file's map is injective but for holes, pages belong *)
(* to the file and dirty ones to a block of it.                            *)
FileTypeOK ==
  /\ Len(file) <= LIMIT
  /\ \A i, j \in DOMAIN file :
       file[i] \in Phys \cup {Hole} /\ (file[i] = file[j] /\ file[i] # Hole => i = j)
  /\ DOMAIN cache \subseteq 0 .. Len(file) - 1
  /\ \A b \in DOMAIN cache : /\ cache[b] \in [v : Content, dirty : BOOLEAN]
                             /\ cache[b].dirty => Allocated(b)
  /\ disk \in [Phys -> Content] /\ device \in Devices
  /\ io \in [pc : {"write", "read", "good", "bad", "failed"}, b : 0 .. LIMIT,
             count : 0 .. LIMIT, cold : BOOLEAN, cut : BOOLEAN]
  /\ fib.pc \in {"idle", "stat", "map", "end"} /\ Len(fib.out) <= MAXINT
  /\ {fib.n, fie.size} \subseteq -MAXINT - 1 .. MAXINT
  /\ fie.pc \in {"idle", "count", "read", "dump", "end"}
  /\ {fie.room, fie.mapped} \subseteq 0 .. LIMIT /\ Cardinality(fie.extents) <= fie.room
  /\ version \in Nat /\ changes \in 0 .. MaxChanges

(* iotest complains of the data of a good device only of a hole, and only  *)
(* if another process cut the file below the place where it was writing:   *)
(* every block that is there reads back as it was written, whatever is     *)
(* cached, moved or truncated before, between or after the two tests       *)
(* (iotest.c:76-83, 111-132).                                              *)
NoFalseAlarm ==
  io.pc = "bad" /\ device = "good" =>
    io.cut /\ (io.b < Len(file) => file[io.b + 1] = Hole)

(* A fake device passes only with the help of the page cache: if every     *)
(* page was written back before the read test and read from the device,    *)
(* the blocks written fit in it, but for block 0, whose pattern is that of *)
(* an empty disk (iotest.c:57-60, 73-83, 124-132).                         *)
FaultFound ==
  io.pc = "good" /\ io.cold /\ changes = 0 =>
    LET blocks == {file[b + 1] : b \in 0 .. io.count - 1}
    IN  /\ device = "wraps" => Cardinality({Cell(p) : p \in blocks}) = io.count
        /\ device = "drops" => \A b \in 1 .. io.count - 1 : file[b + 1] <= REAL

(* Of a file that holds still from the first call on, fibmap prints the    *)
(* map, if no ioctl fails and the number of blocks is an int: a hole as 0, *)
(* a block whose number is an int as that number.  fiemap, if the size of  *)
(* the extents it counted is an int, has a buffer that takes all it is     *)
(* given, prints every extent, and prints past the buffer only if it had   *)
(* counted none (fibmap.c:58-74, fiemap.c:62-87, 97-104).                  *)
MappersExact ==
  /\ fib.pc = "end" /\ ~fib.failed /\ fib.seen = version /\ Len(file) <= MAXINT =>
       /\ Len(fib.out) = Len(file)
       /\ \A i \in DOMAIN file : file[i] <= MAXINT => fib.out[i] = file[i]
  /\ fie.pc = "dump" /\ EXTENT * fie.room <= MAXINT =>
       /\ EXTENT * Cardinality(fie.extents) <= fie.size
       /\ fie.mapped <= fie.room \/ fie.room = 0
       /\ fie.seen = version =>
            fie.extents = Extents(file) /\ fie.mapped = Cardinality(fie.extents)

=============================================================================
