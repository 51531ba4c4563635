------------------------ MODULE ProcessWatcherProofs ------------------------
(***************************************************************************)
(* The hash table of process_watcher gives every pid one slot, and the     *)
(* samples of a slot add up to what was used, for every number of pids,    *)
(* slots and samples, every counter width and every course of events.      *)
(***************************************************************************)
EXTENDS ProcessWatcher, FiniteSetTheorems, TLAPS

(* Where the gathering loop is. *)
PlaceInv ==
  /\ pc \in {"loop", "scan", "spin"} => max_samples = MAX_SAMPLES
  /\ pc \in {"scan", "spin"} => sample < MAX_SAMPLES
  /\ pc \in {"report", "done"} => max_samples <= sample /\ (~stop => max_samples = MAX_SAMPLES)
  /\ DOMAIN alive \subseteq Pids /\ alive \in [DOMAIN alive -> Time]

(* A pid in the table is reached by probing past other pids only.          *)
PathInv ==
  \A x \in Index : pid[x] # NoPid =>
    \E o \in Index : /\ Visited(pid[x], o) = x
                     /\ \A j \in 0 .. o - 1 : pid[Visited(pid[x], j)] \notin {NoPid, pid[x]}

TableInv == TypeOK /\ PlaceInv /\ PathInv

(* The sample is still what malloc() returned: the scan has not got there. *)
Ungathered(s, x) ==
  \/ s > sample
  \/ s = sample /\ pc = "loop"
  \/ s = sample /\ pc \in {"scan", "spin"} /\ (pid[x] = NoPid \/ pid[x] > cursor)

FreshInv == \A s \in Sample, x \in Index : Ungathered(s, x) => samples[s][x] = Zero

TeleInv ==
  \A x \in Index :
    /\ (last[x].usr - base[x].usr) % W = SumFunctionOnSet(Usr(x), Sample) % W
    /\ (last[x].sys - base[x].sys) % W = SumFunctionOnSet(Sys(x), Sample) % W

-----------------------------------------------------------------------------
(* Among sets, and among numbers, there is a least one. *)
LEMMA FiniteMin ==
  ASSUME NEW S, IsFiniteSet(S), NEW B \in SUBSET SUBSET S, B # {}
  PROVE  \E T \in B : \A U \in B : U \subseteq T => U = T
<1>1. B \subseteq FiniteSubsetsOf(S)
  BY FS_Subset DEF FiniteSubsetsOf
<1>2. PICK T \in B : \A U \in B : <<U, T>> \notin StrictSubsetOrdering(S)
  BY <1>1, FS_StrictSubsetOrderingWellFounded, WFMin
<1> QED BY <1>2 DEF StrictSubsetOrdering

LEMMA MinExists ==
  ASSUME NEW S \in SUBSET Nat, S # {}
  PROVE  \E x \in S : \A y \in S : x <= y
<1> PICK a \in S : TRUE
  OBVIOUS
<1> DEFINE Below(x) == S \cap (0 .. x)
           Belows == {Below(x) : x \in S \cap (0 .. a)}
<1>1. IsFiniteSet(0 .. a) /\ Belows \in SUBSET SUBSET (0 .. a) /\ Belows # {}
  <2>1. a \in S \cap (0 .. a)
    OBVIOUS
  <2>2. \A x \in S \cap (0 .. a) : Below(x) \in SUBSET (0 .. a)
    OBVIOUS
  <2>3. IsFiniteSet(0 .. a)
    BY FS_Interval
  <2> HIDE DEF Below
  <2> QED BY <2>1, <2>2, <2>3
<1>2. PICK T \in Belows : \A U \in Belows : U \subseteq T => U = T
  <2> DEFINE I == 0 .. a
  <2>1. IsFiniteSet(I) /\ Belows \in SUBSET SUBSET I /\ Belows # {}
    BY <1>1
  <2> HIDE DEF Belows, I
  <2> QED BY <2>1, FiniteMin
<1>3. PICK x \in S \cap (0 .. a) : T = Below(x)
  BY <1>2
<1>4. \A y \in S : x <= y
  <2> SUFFICES ASSUME NEW y \in S, y < x PROVE FALSE
    OBVIOUS
  <2>1. Below(y) \subseteq T /\ Below(y) # T /\ Below(y) \in Belows
    BY <1>3
  <2> QED BY <2>1, <1>2
<1> QED BY <1>4

(* Sums.  Adds(f, S, g): g gives the sum of f over every part of S, taking *)
(* the elements in the order in which a fold takes them.                   *)
AnyOf(s) == CHOOSE x \in s : TRUE
Adds(f, S, g) ==
  \A s \in SUBSET S : g[s] = IF s = {} THEN 0 ELSE f[AnyOf(s)] + g[s \ {AnyOf(s)}]

LEMMA SumExists ==
  ASSUME NEW S, IsFiniteSet(S), NEW f, \A s \in S : f[s] \in Int
  PROVE  \E g \in [SUBSET S -> Int] : Adds(f, S, g)
<1> DEFINE Partial(n, g) ==
             \A s \in SUBSET S : Cardinality(s) <= n =>
               g[s] = IF s = {} THEN 0 ELSE f[AnyOf(s)] + g[s \ {AnyOf(s)}]
           Bad == {n \in Nat : ~ \E g \in [SUBSET S -> Int] : Partial(n, g)}
<1>0. \A s \in SUBSET S : IsFiniteSet(s) /\ Cardinality(s) \in Nat
                          /\ Cardinality(s) <= Cardinality(S)
                          /\ (Cardinality(s) = 0 <=> s = {})
  BY FS_Subset, FS_CardinalityType, FS_EmptySet
<1>1. \A s \in SUBSET S : s # {} =>
        /\ AnyOf(s) \in s /\ f[AnyOf(s)] \in Int /\ s \ {AnyOf(s)} \in SUBSET S
        /\ Cardinality(s \ {AnyOf(s)}) = Cardinality(s) - 1
  <2> SUFFICES ASSUME NEW s \in SUBSET S, s # {}
               PROVE  /\ AnyOf(s) \in s
                      /\ Cardinality(s \ {AnyOf(s)}) = Cardinality(s) - 1
    OBVIOUS
  <2>1. AnyOf(s) \in s
    BY DEF AnyOf
  <2> QED BY <1>0, <2>1, FS_RemoveElement
<1>2. Bad = {}
  <2> SUFFICES ASSUME Bad # {} PROVE FALSE
    OBVIOUS
  <2>1. PICK n \in Bad : \A m \in Bad : n <= m
    <3>1. Bad \in SUBSET Nat
      OBVIOUS
    <3> HIDE DEF Bad
    <3> QED BY <3>1, MinExists
  <2>2. CASE n = 0
    <3> DEFINE g == [s \in SUBSET S |-> 0]
    <3>1. g \in [SUBSET S -> Int] /\ Partial(0, g)
      BY <1>0
    <3> QED BY <2>1, <2>2, <3>1
  <2>3. CASE n # 0
    <3>1. n - 1 \in Nat /\ n - 1 \notin Bad
      <4>1. n \in Nat /\ \A m \in Bad : n <= m
        BY <2>1
      <4> HIDE DEF Bad
      <4> QED BY <4>1, <2>3
    <3>2. PICK h \in [SUBSET S -> Int] : Partial(n - 1, h)
      BY <3>1
    <3> DEFINE g == [s \in SUBSET S |-> IF s = {} THEN 0 ELSE f[AnyOf(s)] + h[s \ {AnyOf(s)}]]
    <3>3. g \in [SUBSET S -> Int]
      BY <1>1
    <3>4. ASSUME NEW s \in SUBSET S, s # {}, Cardinality(s) <= n
          PROVE  h[s \ {AnyOf(s)}] = g[s \ {AnyOf(s)}]
      <4> DEFINE r == s \ {AnyOf(s)}
      <4>1. r \in SUBSET S /\ Cardinality(r) <= n - 1
        BY <1>0, <1>1, <3>4
      <4> HIDE DEF r
      <4>2. h[r] = IF r = {} THEN 0 ELSE f[AnyOf(r)] + h[r \ {AnyOf(r)}]
        BY <3>2, <4>1
      <4>3. g[r] = IF r = {} THEN 0 ELSE f[AnyOf(r)] + h[r \ {AnyOf(r)}]
        BY <4>1
      <4>4. h[r] = g[r]
        BY <4>2, <4>3
      <4> QED BY <4>4 DEF r
    <3>5. Partial(n, g)
      <4> SUFFICES ASSUME NEW s \in SUBSET S, Cardinality(s) <= n
                   PROVE  g[s] = IF s = {} THEN 0 ELSE f[AnyOf(s)] + g[s \ {AnyOf(s)}]
        OBVIOUS
      <4>1. CASE s = {}
        BY <4>1
      <4>2. CASE s # {}
        BY <3>4, <4>2
      <4> QED BY <4>1, <4>2
    <3> QED BY <2>1, <3>3, <3>5
  <2> QED BY <2>2, <2>3
<1>3. Cardinality(S) \in Nat
  BY FS_CardinalityType
<1>4. PICK g \in [SUBSET S -> Int] : Partial(Cardinality(S), g)
  BY <1>2, <1>3
<1> QED BY <1>0, <1>4 DEF Adds

LEMMA SumIs ==
  ASSUME NEW S, IsFiniteSet(S), NEW f, \A s \in S : f[s] \in Int
  PROVE  \E g \in [SUBSET S -> Int] : Adds(f, S, g) /\ SumFunctionOnSet(f, S) = g[S]
<1> DEFINE Fold(h) == [s \in SUBSET S |->
                         IF s = {} THEN 0 ELSE f[AnyOf(s)] + h[s \ {AnyOf(s)}]]
           h == CHOOSE h : h = Fold(h)
<1>1. PICK g \in [SUBSET S -> Int] : Adds(f, S, g)
  BY SumExists
<1>2. g = Fold(g)
  BY <1>1 DEF Adds
<1>3. h = Fold(h)
  BY <1>2
<1>4. SumFunctionOnSet(f, S) = h[S]
  BY DEF SumFunctionOnSet, FoldFunctionOnSet, MapThenFoldSet, AnyOf
<1> HIDE DEF h
<1>5. \A s \in SUBSET S : h[s] = IF s = {} THEN 0 ELSE f[AnyOf(s)] + h[s \ {AnyOf(s)}]
  <2> TAKE s \in SUBSET S
  <2>1. Fold(h)[s] = IF s = {} THEN 0 ELSE f[AnyOf(s)] + h[s \ {AnyOf(s)}]
    OBVIOUS
  <2> HIDE DEF Fold
  <2> QED BY <1>3, <2>1
<1> DEFINE Bad == {s \in SUBSET S : h[s] # g[s]}
<1>6. Bad = {}
  <2> SUFFICES ASSUME Bad # {} PROVE FALSE
    OBVIOUS
  <2>1. PICK s \in Bad : \A r \in Bad : r \subseteq s => r = s
    <3>1. Bad \in SUBSET SUBSET S
      OBVIOUS
    <3> HIDE DEF Bad
    <3> QED BY <3>1, FiniteMin
  <2>2. s # {}
    BY <1>1, <1>5 DEF Adds
  <2>3. AnyOf(s) \in s
    BY <2>2 DEF AnyOf
  <2>4. s \ {AnyOf(s)} \notin Bad
    BY <2>1, <2>3
  <2>5. h[s \ {AnyOf(s)}] = g[s \ {AnyOf(s)}]
    BY <2>4
  <2> QED BY <1>1, <1>5, <2>2, <2>5 DEF Adds
<1>7. h[S] = g[S]
  BY <1>6
<1> QED BY <1>1, <1>4, <1>7

LEMMA SumInt ==
  ASSUME NEW S, IsFiniteSet(S), NEW f, \A s \in S : f[s] \in Int
  PROVE  SumFunctionOnSet(f, S) \in Int
<1>1. PICK g \in [SUBSET S -> Int] : SumFunctionOnSet(f, S) = g[S]
  BY SumIs
<1> QED BY <1>1

LEMMA SumZero ==
  ASSUME NEW S, IsFiniteSet(S), NEW f, \A s \in S : f[s] = 0
  PROVE  SumFunctionOnSet(f, S) = 0
<1>1. PICK g \in [SUBSET S -> Int] : Adds(f, S, g) /\ SumFunctionOnSet(f, S) = g[S]
  <2>1. \A s \in S : f[s] \in Int
    OBVIOUS
  <2> QED BY <2>1, SumIs
<1> DEFINE Bad == {s \in SUBSET S : g[s] # 0}
<1>2. Bad = {}
  <2> SUFFICES ASSUME Bad # {} PROVE FALSE
    OBVIOUS
  <2>1. PICK s \in Bad : \A r \in Bad : r \subseteq s => r = s
    <3>1. Bad \in SUBSET SUBSET S
      OBVIOUS
    <3> HIDE DEF Bad
    <3> QED BY <3>1, FiniteMin
  <2>2. s # {}
    BY <1>1 DEF Adds
  <2>3. AnyOf(s) \in s
    BY <2>2 DEF AnyOf
  <2>4. g[s \ {AnyOf(s)}] = 0
    BY <2>1, <2>3
  <2> QED BY <1>1, <2>2, <2>3, <2>4 DEF Adds
<1> QED BY <1>1, <1>2

(* Replacing one value. *)
LEMMA SumChange ==
  ASSUME NEW S, IsFiniteSet(S), NEW f, \A s \in S : f[s] \in Int, NEW a \in S, NEW v \in Int,
         NEW e, e[a] = v, \A s \in S \ {a} : e[s] = f[s]
  PROVE  SumFunctionOnSet(e, S) = SumFunctionOnSet(f, S) + (v - f[a])
<1>1. PICK g \in [SUBSET S -> Int] : Adds(f, S, g) /\ SumFunctionOnSet(f, S) = g[S]
  BY SumIs
<1>2. PICK h \in [SUBSET S -> Int] : Adds(e, S, h) /\ SumFunctionOnSet(e, S) = h[S]
  <2>1. \A s \in S : e[s] \in Int
    OBVIOUS
  <2> QED BY <2>1, SumIs
<1> DEFINE Diff(s) == IF a \in s THEN v - f[a] ELSE 0
           Bad == {s \in SUBSET S : h[s] # g[s] + Diff(s)}
<1>3. Bad = {}
  <2> SUFFICES ASSUME Bad # {} PROVE FALSE
    OBVIOUS
  <2>1. PICK s \in Bad : \A r \in Bad : r \subseteq s => r = s
    <3>1. Bad \in SUBSET SUBSET S
      OBVIOUS
    <3> HIDE DEF Bad
    <3> QED BY <3>1, FiniteMin
  <2>2. s # {}
    <3>1. g[{}] = 0 /\ h[{}] = 0 /\ Diff({}) = 0
      <4>1. {} \in SUBSET S /\ a \notin {}
        OBVIOUS
      <4> QED BY <1>1, <1>2, <4>1 DEF Adds
    <3>2. {} \notin Bad
      BY <3>1
    <3> QED BY <2>1, <3>2
  <2> DEFINE x == AnyOf(s)
             r == s \ {x}
  <2>3. x \in s /\ x \in S
    BY <2>2 DEF AnyOf
  <2>4. h[s] = e[x] + h[r] /\ g[s] = f[x] + g[r]
    BY <1>1, <1>2, <2>2 DEF Adds
  <2>5. r \in SUBSET S /\ r \notin Bad
    BY <2>1, <2>3
  <2>6. h[r] = g[r] + Diff(r) /\ h[r] \in Int /\ g[r] \in Int
    BY <2>5
  <2>7. CASE x = a
    <3>1. Diff(r) = 0 /\ Diff(s) = v - f[a]
      BY <2>3, <2>7
    <3>2. h[s] = g[s] + Diff(s)
      BY <2>3, <2>4, <2>6, <2>7, <3>1
    <3> QED BY <3>2
  <2>8. CASE x # a
    <3>1. Diff(r) = Diff(s) /\ e[x] = f[x] /\ Diff(s) \in Int
      BY <2>3, <2>8
    <3>2. h[s] = g[s] + Diff(s)
      BY <2>3, <2>4, <2>6, <3>1
    <3> QED BY <3>2
  <2> QED BY <2>7, <2>8
<1>4. h[S] = g[S] + (v - f[a])
  BY <1>3
<1> QED BY <1>1, <1>2, <1>4

LEMMA ModIs ==
  ASSUME NEW m \in Nat \ {0}, NEW q \in Int, NEW r \in 0 .. m - 1
  PROVE  (m * q + r) % m = r
OBVIOUS

LEMMA ModOf ==
  ASSUME NEW m \in Nat \ {0}, NEW a \in Int
  PROVE  a % m \in 0 .. m - 1 /\ \E q \in Int : a = m * q + (a % m)
<1>1. a % m \in 0 .. m - 1
  OBVIOUS
<1>2. a = m * (a \div m) + (a % m) /\ a \div m \in Int
  BY SMT
<1> QED BY <1>1, <1>2

(* From base to n the counter went by s, modulo W; and the sum t is s and  *)
(* the delta from l to n.                                                  *)
Drift(n, b, s) == (n - b) % W = s % W
Longer(s, n, l, t) == t = s + ((n - l) % W)

LEMMA DriftOn ==
  \A n, l, b, s, t \in Int : Drift(l, b, s) /\ Longer(s, n, l, t) => Drift(n, b, t)
<1> SUFFICES ASSUME NEW n \in Int, NEW l \in Int, NEW b \in Int, NEW s \in Int, NEW t \in Int,
                    (l - b) % W = s % W, t = s + ((n - l) % W)
             PROVE  (n - b) % W = t % W
  BY DEF Drift, Longer
<1>0. W \in Nat \ {0}
  BY CountAssumption
<1>1. PICK p \in Int : l - b = W * p + ((l - b) % W)
  <2>1. l - b \in Int
    OBVIOUS
  <2> QED BY <1>0, <2>1, ModOf
<1>2. PICK q \in Int : s = W * q + (s % W)
  BY <1>0, ModOf
<1>3. PICK u \in Int : n - l = W * u + ((n - l) % W)
  <2>1. n - l \in Int
    OBVIOUS
  <2> QED BY <1>0, <2>1, ModOf
<1>4. (n - l) % W \in Int /\ s % W \in Int /\ t \in Int
  BY <1>0
<1>5. PICK v \in Int : t = W * v + (t % W)
  BY <1>0, ModOf
<1> DEFINE k == p - q + u + v
           w == t % W
<1>6. n - b = W * k + w
  <2>1. n - b = (l - b) + (n - l)
    OBVIOUS
  <2>2. n - b = W * p - W * q + W * u + t
    <3> DEFINE P == W * p
               Q == W * q
               R == W * u
               d == (n - l) % W
               r == s % W
    <3>1. P \in Int /\ Q \in Int /\ R \in Int /\ d \in Int /\ r \in Int
      BY <1>0, <1>4
    <3>2. l - b = P + r /\ s = Q + r /\ n - l = R + d /\ t = s + d
      BY <1>1, <1>2, <1>3
    <3> HIDE DEF P, Q, R, d, r
    <3>3. n - b = P - Q + R + t
      BY <2>1, <3>1, <3>2
    <3> QED BY <3>3 DEF P, Q, R
  <2>3. W * k = W * p - W * q + W * u + W * v
    BY <1>0
  <2> QED BY <1>0, <1>5, <2>2, <2>3
<1>7. k \in Int /\ w \in 0 .. W - 1
  BY <1>0, ModOf
<1> HIDE DEF k, w
<1>8. (W * k + w) % W = w
  BY <1>0, <1>7, ModIs
<1> QED BY <1>6, <1>8 DEF w

-----------------------------------------------------------------------------
LEMMA Finite ==
  /\ IsFiniteSet(Sample) /\ SIZE \in Nat /\ SIZE > 0 /\ W \in Nat \ {0} /\ MAX_SAMPLES \in Nat
  /\ NoPid \notin Pids /\ Zero \in Time
  /\ \A m \in -1 .. MAX_SAMPLES : IsFiniteSet(0 .. m - 1) /\ 0 .. m - 1 \subseteq Sample
<1>1. MAX_SAMPLES \in Nat /\ W \in Nat \ {0} /\ SIZE \in Nat /\ SIZE > 0
  BY SizeAssumption, CountAssumption
<1>2. \A m \in -1 .. MAX_SAMPLES : IsFiniteSet(0 .. m - 1)
  BY <1>1, FS_Interval
<1>3. IsFiniteSet(Sample)
  BY <1>1, FS_Interval DEF Sample
<1>4. Zero \in Time
  BY <1>1 DEF Zero, Time, Count
<1> QED BY <1>1, <1>2, <1>3, <1>4, PidsAssumption DEF Sample, NoPid

LEMMA SubType ==
  ASSUME NEW t \in Time, NEW u \in Time
  PROVE  Sub(t, u) \in Time
<1>1. W \in Nat \ {0} /\ t.usr - u.usr \in Int /\ t.sys - u.sys \in Int
  BY CountAssumption DEF Time, Count
<1>2. (t.usr - u.usr) % W \in 0 .. W - 1 /\ (t.sys - u.sys) % W \in 0 .. W - 1
  BY <1>1, ModOf
<1> QED BY <1>2 DEF Sub, Time, Count

LEMMA VisitedType ==
  ASSUME NEW p \in Pids, NEW o \in Index
  PROVE  Visited(p, o) \in Index
<1>1. SIZE \in Nat \ {0} /\ p \in Nat /\ p * 3 \in Int
  BY SizeAssumption, PidsAssumption
<1>2. pid_hash(p) \in 0 .. SIZE - 1
  BY <1>1, ModOf DEF pid_hash
<1>3. pid_hash(p) + o \in Int
  BY <1>1, <1>2 DEF Index
<1> QED BY <1>1, <1>3, ModOf DEF Visited, Index

(* The search of lines 168-174 stops at the pid, or at an empty slot.      *)
LEMMA Search ==
  ASSUME TypeOK, NEW p \in Pids, Stops(p) # {}
  PROVE  LET o == Min(Stops(p))
         IN /\ o \in Index /\ Visited(p, o) \in Index
            /\ pid[Visited(p, o)] \in {p, NoPid}
            /\ \A j \in 0 .. o - 1 : pid[Visited(p, j)] \notin {p, NoPid}
<1> DEFINE o == Min(Stops(p))
<1>1. Stops(p) \in SUBSET Nat /\ Stops(p) \subseteq Index
  BY SizeAssumption DEF Stops, Index
<1>2. o \in Stops(p) /\ \A j \in Stops(p) : o <= j
  BY <1>1, MinExists DEF Min
<1> HIDE DEF o
<1>3. o \in Index /\ pid[Visited(p, o)] \in {p, NoPid} /\ Visited(p, o) \in Index
  BY <1>2, VisitedType DEF Stops
<1>4. ASSUME NEW j \in 0 .. o - 1 PROVE pid[Visited(p, j)] \notin {p, NoPid}
  <2>1. j \in Index /\ j < o
    BY <1>3, SizeAssumption DEF Index
  <2>2. j \notin Stops(p)
    <3>1. j \in Nat /\ o \in Nat
      BY <1>3, <2>1, SizeAssumption DEF Index
    <3> QED BY <1>2, <2>1, <3>1
  <2> QED BY <2>1, <2>2 DEF Stops
<1> QED BY <1>3, <1>4 DEF o

(* A pid that is in the table is found, where it is.                       *)
LEMMA Found ==
  ASSUME TypeOK, PathInv, NEW x \in Index, pid[x] # NoPid
  PROVE  Stops(pid[x]) # {} /\ Visited(pid[x], Min(Stops(pid[x]))) = x
<1>1. pid[x] \in Pids
  BY DEF TypeOK
<1>2. PICK o \in Index :
        /\ Visited(pid[x], o) = x
        /\ \A j \in 0 .. o - 1 : pid[Visited(pid[x], j)] \notin {NoPid, pid[x]}
  BY DEF PathInv
<1>3. o \in Stops(pid[x])
  BY <1>2 DEF Stops
<1> DEFINE m == Min(Stops(pid[x]))
<1>4. m \in Index /\ pid[Visited(pid[x], m)] \in {pid[x], NoPid}
      /\ \A j \in 0 .. m - 1 : pid[Visited(pid[x], j)] \notin {pid[x], NoPid}
  BY <1>1, <1>3, Search
<1> HIDE DEF m
<1>5. m = o
  <2>1. m \in Nat /\ o \in Nat
    BY <1>2, <1>4, SizeAssumption DEF Index
  <2>2. CASE m < o
    <3>1. m \in 0 .. o - 1
      BY <2>1, <2>2
    <3> QED BY <1>2, <1>4, <3>1
  <2>3. CASE o < m
    <3>1. o \in 0 .. m - 1
      BY <2>1, <2>3
    <3> QED BY <1>2, <1>4, <3>1
  <2> QED BY <2>1, <2>2, <2>3
<1> QED BY <1>2, <1>3, <1>5 DEF m

(* The pids of two slots differ. *)
LEMMA OneSlot ==
  ASSUME TypeOK, PathInv, NEW x \in Index, NEW y \in Index, pid[x] = pid[y], pid[x] # NoPid
  PROVE  x = y
BY Found

(* Taking the slot in which the search stopped.                            *)
LEMMA PathStays ==
  ASSUME TypeOK, PathInv, NEW p \in Pids, Stops(p) # {},
         pid' = [pid EXCEPT ![Visited(p, Min(Stops(p)))] = p]
  PROVE  PathInv'
<1> DEFINE m == Min(Stops(p))
           z == Visited(p, m)
<1>1. /\ m \in Index /\ z \in Index /\ pid[z] \in {p, NoPid}
      /\ \A j \in 0 .. m - 1 : pid[Visited(p, j)] \notin {p, NoPid}
  BY Search
<1>2. pid' = [pid EXCEPT ![z] = p]
  OBVIOUS
<1>3. z = Visited(p, m)
  OBVIOUS
<1> HIDE DEF z, m
<1>4. pid'[z] = p /\ \A x \in Index \ {z} : pid'[x] = pid[x]
  BY <1>1, <1>2 DEF TypeOK
<1>5. p # NoPid
  BY Finite
<1> SUFFICES ASSUME NEW x \in Index, pid'[x] # NoPid
             PROVE  \E o \in Index :
                      /\ Visited(pid'[x], o) = x
                      /\ \A j \in 0 .. o - 1 :
                           pid'[Visited(pid'[x], j)] \notin {NoPid, pid'[x]}
  BY DEF PathInv, Visited, pid_hash
<1>6. \A q \in Pids, o \in Index : \A j \in 0 .. o - 1 : j \in Index /\ Visited(q, j) \in Index
  <2> SUFFICES ASSUME NEW q \in Pids, NEW o \in Index, NEW j \in 0 .. o - 1
               PROVE  j \in Index /\ Visited(q, j) \in Index
    OBVIOUS
  <2>1. j \in Index
    BY SizeAssumption DEF Index
  <2> QED BY <2>1, VisitedType
<1>7. CASE x = z
  <2>1. ASSUME NEW j \in 0 .. m - 1 PROVE pid'[Visited(p, j)] \notin {NoPid, p}
    <3>1. Visited(p, j) \in Index /\ Visited(p, j) # z
      BY <1>1, <1>6
    <3> QED BY <1>1, <1>4, <3>1
  <2> QED BY <1>1, <1>3, <1>4, <1>7, <2>1
<1>8. CASE x # z
  <2>1. pid'[x] = pid[x] /\ pid[x] # NoPid /\ pid[x] \in Pids
    BY <1>4, <1>8 DEF TypeOK
  <2>2. PICK o \in Index :
          /\ Visited(pid[x], o) = x
          /\ \A j \in 0 .. o - 1 : pid[Visited(pid[x], j)] \notin {NoPid, pid[x]}
    BY <2>1 DEF PathInv
  <2>3. pid[x] # p
    <3> SUFFICES ASSUME pid[x] = p PROVE FALSE
      OBVIOUS
    <3>1. Visited(p, Min(Stops(p))) = x
      BY <2>1, Found
    <3> QED BY <1>8, <3>1 DEF z, m
  <2>4. ASSUME NEW j \in 0 .. o - 1
        PROVE  pid'[Visited(pid[x], j)] \notin {NoPid, pid[x]}
    <3>1. Visited(pid[x], j) \in Index
      BY <1>6, <2>1
    <3> QED BY <1>4, <1>5, <2>2, <2>3, <3>1
  <2> QED BY <2>1, <2>2, <2>4
<1> QED BY <1>7, <1>8

-----------------------------------------------------------------------------
LEMMA InitTable == Init => TableInv
<1> SUFFICES ASSUME Init PROVE TableInv
  OBVIOUS
<1> USE Finite
<1>1. \A j \in Junk : [usr |-> j, sys |-> j] \in Time
  BY CountAssumption DEF Time, Count
<1>2. samples \in [Sample -> [Index -> Time]]
  BY <1>1 DEF Init
<1>3. alive \in [DOMAIN alive -> Time] /\ DOMAIN alive \subseteq Pids
  <2>1. PICK P \in SUBSET Pids, t \in {0, 1} : alive = [p \in P |-> [usr |-> t, sys |-> 0]]
    BY DEF Init
  <2>2. \A q \in P : [usr |-> t, sys |-> 0] \in Time
    BY CountAssumption DEF Time, Count
  <2> QED BY <2>1, <2>2
<1>4. TypeOK
  <2>1. /\ pc = "loop" /\ sample = -1 /\ stop = FALSE /\ max_samples = MAX_SAMPLES /\ cursor = 0
        /\ pid \in [Index -> {NoPid} \cup Pids]
        /\ last \in [Index -> Time] /\ base \in [Index -> Time] /\ total \in [Index -> Time]
    BY DEF Init
  <2>2. active \in [Index -> BOOLEAN]
    <3>1. active = [x \in Index |-> FALSE]
      BY DEF Init
    <3> QED BY <3>1, Zenon
  <2>3. sample \in -1 .. MAX_SAMPLES /\ max_samples \in -1 .. MAX_SAMPLES
    BY <2>1, SizeAssumption
  <2>4. stop \in BOOLEAN
    BY <2>1
  <2> QED BY <1>2, <2>1, <2>2, <2>3, <2>4 DEF TypeOK
<1>5. PlaceInv /\ PathInv
  BY <1>3 DEF Init, PlaceInv, PathInv
<1> QED BY <1>4, <1>5 DEF TableInv

(* What Record(x, now) leaves in a slot is well typed.                     *)
LEMMA RecordType ==
  ASSUME TypeOK, sample < MAX_SAMPLES, NEW x \in Index, NEW now \in Time, Record(x, now)
  PROVE  /\ last' \in [Index -> Time] /\ base' \in [Index -> Time]
         /\ samples' \in [Sample -> [Index -> Time]] /\ active' \in [Index -> BOOLEAN]
<1>1. last' = [last EXCEPT ![x] = now] /\ last \in [Index -> Time]
  BY DEF Record, TypeOK
<1>2. CASE sample = -1
  BY <1>1, <1>2 DEF Record, TypeOK
<1>3. CASE sample # -1
  <2> DEFINE delta == Sub(now, last[x])
             b == active[x] \/ (delta.usr + delta.sys) % W > 0
  <2>1. /\ samples' = [samples EXCEPT ![sample][x] = delta]
        /\ active' = [active EXCEPT ![x] = b] /\ base' = base
    BY <1>3 DEF Record
  <2>2. delta \in Time
    BY <1>1, SubType
  <2>3. sample \in Sample
    BY <1>3, Finite DEF TypeOK, Sample
  <2>4. b \in BOOLEAN
    <3>1. active[x] \in BOOLEAN
      BY DEF TypeOK
    <3> QED BY <3>1, Zenon
  <2> HIDE DEF delta, b
  <2>5. samples' \in [Sample -> [Index -> Time]]
    BY <2>1, <2>2, <2>3 DEF TypeOK
  <2>6. active' \in [Index -> BOOLEAN]
    <3>1. active \in [Index -> BOOLEAN]
      BY DEF TypeOK
    <3> QED BY <2>1, <2>4, <3>1, Zenon
  <2> QED BY <1>1, <2>1, <2>5, <2>6 DEF TypeOK
<1> QED BY <1>2, <1>3

LEMMA StepVisit ==
  ASSUME TableInv, NEW p \in Pids, Visit(p)
  PROVE  TableInv'
<1> USE DEF TableInv
<1>1. /\ pc = "scan" /\ p \in DOMAIN alive /\ alive[p] \in Time
      /\ UNCHANGED <<sample, stop, max_samples, acts>>
  BY DEF Visit, PlaceInv
<1>2. CASE Stops(p) = {}
  <2>1. pc' = "spin" /\ UNCHANGED <<cursor, pid, last, active, samples, total, base, alive>>
    BY <1>2 DEF Visit, table
  <2> QED BY <1>1, <2>1 DEF TypeOK, PlaceInv, PathInv, Visited, pid_hash
<1>3. CASE Stops(p) # {}
  <2> DEFINE x == Visited(p, Min(Stops(p)))
  <2>1. /\ pid' = [pid EXCEPT ![x] = p] /\ cursor' = p /\ UNCHANGED <<pc, total>>
        /\ \/ Record(x, alive[p]) /\ UNCHANGED alive
           \/ /\ alive' = [q \in DOMAIN alive \ {p} |-> alive[q]]
              /\ UNCHANGED <<last, active, samples, base>>
    BY <1>3 DEF Visit
  <2>2. PathInv'
    BY <1>3, <2>1, PathStays
  <2>3. x \in Index
    BY <1>3, Search
  <2> HIDE DEF x
  <2>4. /\ last' \in [Index -> Time] /\ base' \in [Index -> Time]
        /\ samples' \in [Sample -> [Index -> Time]] /\ active' \in [Index -> BOOLEAN]
    <3>1. sample < MAX_SAMPLES
      BY <1>1 DEF PlaceInv
    <3>2. CASE UNCHANGED <<last, active, samples, base>>
      BY <3>2 DEF TypeOK
    <3> QED BY <1>1, <2>1, <2>3, <3>1, <3>2, RecordType
  <2>5. pid' \in [Index -> {NoPid} \cup Pids] /\ cursor' \in {0} \cup Pids
    BY <2>1, <2>3 DEF TypeOK
  <2>6. TypeOK'
    BY <1>1, <2>1, <2>4, <2>5 DEF TypeOK
  <2>7. PlaceInv'
    <3>1. DOMAIN alive' \subseteq Pids /\ alive' \in [DOMAIN alive' -> Time]
      <4>1. CASE UNCHANGED alive
        BY <4>1 DEF PlaceInv
      <4>2. CASE alive' = [q \in DOMAIN alive \ {p} |-> alive[q]]
        BY <4>2 DEF PlaceInv
      <4> QED BY <2>1, <4>1, <4>2
    <3> QED BY <1>1, <2>1, <3>1 DEF PlaceInv
  <2> QED BY <2>2, <2>6, <2>7
<1> QED BY <1>2, <1>3

(* Steps of main() that leave the table alone. *)
LEMMA StepLoops ==
  ASSUME TableInv, BeginScan \/ EndScan \/ EndGather \/ Interrupt
  PROVE  TableInv'
<1> USE DEF TableInv
<1>1. UNCHANGED <<pid, last, active, samples, total, base, alive, acts>>
  BY DEF BeginScan, EndScan, EndGather, Interrupt, table
<1>2. PathInv'
  BY <1>1 DEF PathInv, Visited, pid_hash
<1>3. CASE BeginScan
  BY <1>1, <1>2, <1>3 DEF BeginScan, TypeOK, PlaceInv
<1>4. CASE EndScan
  <2>1. /\ pc' = "loop" /\ sample' = sample + 1 /\ sample < MAX_SAMPLES
        /\ max_samples' = MAX_SAMPLES /\ UNCHANGED <<stop, max_samples, cursor>>
    BY <1>4 DEF EndScan, PlaceInv
  <2>2. sample' \in -1 .. MAX_SAMPLES
    BY <2>1, Finite DEF TypeOK
  <2> QED BY <1>1, <1>2, <2>1, <2>2 DEF TypeOK, PlaceInv
<1>5. CASE EndGather
  <2>1. /\ pc = "loop" /\ pc' = "report" /\ UNCHANGED <<sample, stop, cursor>>
        /\ max_samples' \in -1 .. MAX_SAMPLES /\ max_samples' <= sample'
        /\ ~stop' => max_samples' = MAX_SAMPLES
    BY <1>5, Finite DEF EndGather, TypeOK, PlaceInv
  <2> QED BY <1>1, <1>2, <2>1 DEF TypeOK, PlaceInv
<1>6. CASE Interrupt
  BY <1>1, <1>2, <1>6 DEF Interrupt, TypeOK, PlaceInv
<1> QED BY <1>3, <1>4, <1>5, <1>6

(* The totals are counters: sums of samples, modulo 2^32.                  *)
LEMMA StepReport ==
  ASSUME TableInv, Report
  PROVE  TableInv'
<1> USE DEF TableInv
<1>1. /\ pc = "report" /\ pc' = "done"
      /\ UNCHANGED <<sample, stop, max_samples, cursor,
                     pid, last, active, samples, base, alive, acts>>
  BY DEF Report
<1>2. \A x \in Index : UsrOf(x) \in Count
  <2> TAKE x \in Index
  <2> DEFINE S == 0 .. max_samples - 1
  <2>1. IsFiniteSet(S) /\ \A s \in S : Usr(x)[s] \in Int
    <3>1. IsFiniteSet(S) /\ S \subseteq Sample
      BY Finite DEF TypeOK
    <3>2. \A s \in Sample : samples[s][x] \in Time
      BY DEF TypeOK
    <3>3. \A s \in Sample : Usr(x)[s] \in Int
      BY <3>2, Finite DEF Usr, Time, Count
    <3> HIDE DEF S
    <3> QED BY <3>1, <3>3
  <2> HIDE DEF S
  <2>2. SumFunctionOnSet(Usr(x), S) \in Int
    BY <2>1, SumInt
  <2>3. SumFunctionOnSet(Usr(x), S) % W \in 0 .. W - 1
    BY <2>2, Finite, ModOf
  <2> QED BY <2>3 DEF UsrOf, Count, S
<1>3. total' \in [Index -> Time]
  <2>1. total' = [x \in Index |-> IF active[x] THEN [usr |-> UsrOf(x), sys |-> UsrOf(x)]
                                               ELSE Zero]
    BY DEF Report
  <2>2. \A x \in Index : [usr |-> UsrOf(x), sys |-> UsrOf(x)] \in Time
    BY <1>2 DEF Time
  <2> QED BY <2>1, <2>2, Finite
<1>4. TypeOK'
  BY <1>1, <1>3 DEF TypeOK, PlaceInv
<1> QED BY <1>1, <1>4 DEF PlaceInv, PathInv, Visited, pid_hash

LEMMA StepMachine ==
  ASSUME TableInv, NEW p \in Pids, Starts(p) \/ Runs(p) \/ Exits(p)
  PROVE  TableInv'
<1> USE DEF TableInv
<1>1. UNCHANGED <<pc, sample, stop, max_samples, cursor,
                  pid, last, active, samples, total, base>>
  BY DEF Starts, Runs, Exits, gather, table
<1>2. DOMAIN alive' \subseteq Pids /\ alive' \in [DOMAIN alive' -> Time]
  <2>1. CASE Starts(p)
    BY <2>1, Finite DEF Starts, PlaceInv
  <2>2. CASE Exits(p)
    BY <2>2 DEF Exits, PlaceInv
  <2>3. CASE Runs(p)
    <3>1. p \in DOMAIN alive /\ alive[p] \in Time
      BY <2>3 DEF Runs, PlaceInv
    <3>2. \E t \in Time : alive' = [alive EXCEPT ![p] = t]
      <4>1. CASE alive[p].usr + 1 \in Count /\ alive' = [alive EXCEPT ![p].usr = @ + 1]
        <5>1. [alive[p] EXCEPT !.usr = alive[p].usr + 1] \in Time
          BY <3>1, <4>1 DEF Time
        <5> QED BY <4>1, <5>1
      <4>2. CASE alive[p].sys + 1 \in Count /\ alive' = [alive EXCEPT ![p].sys = @ + 1]
        <5>1. [alive[p] EXCEPT !.sys = alive[p].sys + 1] \in Time
          BY <3>1, <4>2 DEF Time
        <5> QED BY <4>2, <5>1
      <4> QED BY <2>3, <4>1, <4>2 DEF Runs
    <3> QED BY <3>1, <3>2 DEF PlaceInv
  <2> QED BY <2>1, <2>2, <2>3
<1>3. TypeOK'
  BY <1>1 DEF TypeOK
<1> QED BY <1>1, <1>2, <1>3 DEF PlaceInv, PathInv, Visited, pid_hash

LEMMA StepTable == TableInv /\ [Next]_vars => TableInv'
<1> SUFFICES ASSUME TableInv, [Next]_vars PROVE TableInv'
  OBVIOUS
<1>1. CASE UNCHANGED vars
  BY <1>1 DEF vars, gather, table, TableInv, TypeOK, PlaceInv, PathInv, Visited, pid_hash
<1> QED BY <1>1, StepVisit, StepLoops, StepReport, StepMachine DEF Next, Main, Spin

(* The table, the loops and the paths of the pids, in every behaviour of    *)
(* process-watcher.c:136-265.                                              *)
THEOREM Invariant == Spec => []TableInv
BY InitTable, StepTable, PTL DEF Spec

(* The indices stay inside the table and the samples, the counters inside  *)
(* their width (process-watcher.c:45-57, 136-145).                         *)
THEOREM TypeCorrect == Spec => []TypeOK
<1>1. TableInv => TypeOK
  BY DEF TableInv
<1> QED BY <1>1, Invariant, PTL

(* No pid has two slots, and a search for a pid that has one ends at it:   *)
(* what the probe of process-watcher.c:166-174 relies on, in a table that  *)
(* never forgets a pid.                                                    *)
THEOREM LookupFinds == Spec => []OneSlotPerPid
<1>1. TableInv => OneSlotPerPid
  BY OneSlot, Found DEF TableInv, OneSlotPerPid
<1> QED BY <1>1, Invariant, PTL

-----------------------------------------------------------------------------
(* The samples.  Memory that malloc() maps afresh is zero; in other memory *)
(* the rows of a process that was not there hold whatever was left.        *)

LEMMA UsrSys ==
  ASSUME TypeOK, NEW x \in Index
  PROVE  /\ \A s \in Sample : Usr(x)[s] \in Count /\ Sys(x)[s] \in Count
         /\ \A s \in Sample : Usr(x)[s] \in Int /\ Sys(x)[s] \in Int
         /\ \A s \in Sample : Usr(x)[s] = samples[s][x].usr /\ Sys(x)[s] = samples[s][x].sys
         /\ SumFunctionOnSet(Usr(x), Sample) \in Int
         /\ SumFunctionOnSet(Sys(x), Sample) \in Int
<1>1. \A s \in Sample : samples[s][x] \in Time
  BY DEF TypeOK
<1>2. \A s \in Sample : Usr(x)[s] = samples[s][x].usr /\ Sys(x)[s] = samples[s][x].sys
  BY DEF Usr, Sys
<1>3. \A s \in Sample : Usr(x)[s] \in Count /\ Sys(x)[s] \in Count
  BY <1>1, <1>2 DEF Time
<1>4. \A s \in Sample : Usr(x)[s] \in Int /\ Sys(x)[s] \in Int
  BY <1>3, Finite DEF Count
<1>5. IsFiniteSet(Sample)
  BY Finite
<1> QED BY <1>2, <1>3, <1>4, <1>5, SumInt

(* A slot none of whose samples has been gathered.                         *)
LEMMA AllFresh ==
  ASSUME TypeOK, NEW x \in Index, \A s \in Sample : samples[s][x] = Zero
  PROVE  /\ SumFunctionOnSet(Usr(x), Sample) % W = 0
         /\ SumFunctionOnSet(Sys(x), Sample) % W = 0
<1>1. \A s \in Sample : Usr(x)[s] = 0 /\ Sys(x)[s] = 0
  BY UsrSys DEF Zero
<1>2. SumFunctionOnSet(Usr(x), Sample) = 0 /\ SumFunctionOnSet(Sys(x), Sample) = 0
  BY <1>1, Finite, SumZero
<1> QED BY <1>2, CountAssumption

LEMMA InitTele ==
  ASSUME Junk = {0}, Init
  PROVE  FreshInv /\ TeleInv
<1>1. samples = [s \in Sample |-> [x \in Index |-> Zero]] /\ TypeOK
  BY InitTable DEF Init, TableInv, Zero
<1>2. FreshInv
  BY <1>1 DEF FreshInv
<1>3. \A x \in Index : /\ SumFunctionOnSet(Usr(x), Sample) % W = 0
                       /\ SumFunctionOnSet(Sys(x), Sample) % W = 0
  BY <1>1, AllFresh
<1>4. \A x \in Index : last[x] = Zero /\ base[x] = Zero
  BY DEF Init
<1>5. \A x \in Index : (last[x].usr - base[x].usr) % W = 0 /\ (last[x].sys - base[x].sys) % W = 0
  BY <1>4, CountAssumption DEF Zero
<1> QED BY <1>2, <1>3, <1>5 DEF TeleInv

(* One delta more: the sum telescopes.                                     *)
LEMMA RecordTele ==
  ASSUME TableInv, FreshInv, TeleInv, NEW x \in Index, NEW now \in Time, Record(x, now),
         pc = "scan", pid[x] = NoPid \/ pid[x] > cursor, TypeOK'
  PROVE  TeleInv'
<1> USE DEF TableInv
<1>1. /\ last' = [last EXCEPT ![x] = now] /\ last \in [Index -> Time] /\ base \in [Index -> Time]
      /\ sample \in -1 .. MAX_SAMPLES /\ sample < MAX_SAMPLES /\ MAX_SAMPLES \in Nat
  BY Finite DEF Record, TypeOK, PlaceInv
<1>2. CASE sample = -1
  <2>1. base' = [base EXCEPT ![x] = now] /\ samples' = samples
    BY <1>2 DEF Record
  <2>2. \A y \in Index : Usr(y)' = Usr(y) /\ Sys(y)' = Sys(y)
    BY <2>1 DEF Usr, Sys
  <2>3. ASSUME NEW y \in Index, y # x
        PROVE  last'[y] = last[y] /\ base'[y] = base[y]
    BY <1>1, <2>1, <2>3
  <2>4. last'[x] = now /\ base'[x] = now /\ now.usr \in Int /\ now.sys \in Int
    BY <1>1, <2>1, Finite DEF Time, Count
  <2>5. (last'[x].usr - base'[x].usr) % W = 0 /\ (last'[x].sys - base'[x].sys) % W = 0
    BY <2>4, CountAssumption
  <2>6. \A s \in Sample : samples[s][x] = Zero
    <3>1. \A s \in Sample : s > sample
      BY <1>2, <1>1 DEF Sample
    <3> QED BY <3>1 DEF FreshInv, Ungathered
  <2>7. /\ SumFunctionOnSet(Usr(x), Sample) % W = 0
        /\ SumFunctionOnSet(Sys(x), Sample) % W = 0
    BY <2>6, AllFresh
  <2> QED BY <2>2, <2>3, <2>5, <2>7 DEF TeleInv
<1>3. CASE sample # -1
  <2> DEFINE delta == Sub(now, last[x])
  <2>1. samples' = [samples EXCEPT ![sample][x] = delta] /\ base' = base
    BY <1>3 DEF Record
  <2>2. sample \in Sample /\ delta \in Time /\ samples \in [Sample -> [Index -> Time]]
    BY <1>1, <1>3, SubType DEF Sample, TypeOK
  <2>3. samples[sample][x] = Zero
    BY <2>2 DEF FreshInv, Ungathered
  <2>4. /\ delta.usr = (now.usr - last[x].usr) % W
        /\ delta.sys = (now.sys - last[x].sys) % W
    BY DEF Sub
  <2> HIDE DEF delta
  <2>5. ASSUME NEW y \in Index, y # x
        PROVE  last'[y] = last[y] /\ base'[y] = base[y] /\ Usr(y)' = Usr(y) /\ Sys(y)' = Sys(y)
    <3>1. \A s \in Sample : samples'[s][y] = samples[s][y]
      BY <2>1, <2>2, <2>5
    <3> QED BY <1>1, <2>1, <2>5, <3>1 DEF Usr, Sys
  <2>6. /\ samples'[sample][x] = delta
        /\ \A s \in Sample \ {sample} : samples'[s][x] = samples[s][x]
    BY <2>1, <2>2
  <2>7. last'[x] = now /\ base'[x] = base[x]
    BY <1>1, <2>1
  <2> DEFINE U  == Usr(x)
             S  == Sys(x)
             Un == Usr(x)'
             Sn == Sys(x)'
  <2>8. /\ \A s \in Sample : U[s] \in Int /\ S[s] \in Int /\ Un[s] \in Int /\ Sn[s] \in Int
        /\ U[sample] = 0 /\ S[sample] = 0 /\ Un[sample] = delta.usr /\ Sn[sample] = delta.sys
        /\ \A s \in Sample \ {sample} : Un[s] = U[s] /\ Sn[s] = S[s]
        /\ SumFunctionOnSet(U, Sample) \in Int /\ SumFunctionOnSet(S, Sample) \in Int
    <3>1. \A s \in Sample : U[s] \in Int /\ S[s] \in Int
      BY UsrSys
    <3>2. \A s \in Sample : U[s] = samples[s][x].usr /\ S[s] = samples[s][x].sys
      BY DEF Usr, Sys
    <3>3. \A s \in Sample : Un[s] = samples'[s][x].usr /\ Sn[s] = samples'[s][x].sys
      BY DEF Usr, Sys
    <3>4. delta.usr \in Int /\ delta.sys \in Int
      BY <2>2, Finite DEF Time, Count
    <3>5. SumFunctionOnSet(U, Sample) \in Int /\ SumFunctionOnSet(S, Sample) \in Int
      BY UsrSys
    <3> HIDE DEF U, S, Un, Sn
    <3> QED BY <2>2, <2>3, <2>6, <3>1, <3>2, <3>3, <3>4, <3>5 DEF Zero
  <2>9. delta.usr \in Int /\ delta.sys \in Int
    BY <2>2, Finite DEF Time, Count
  <2>10. /\ SumFunctionOnSet(Un, Sample) = SumFunctionOnSet(U, Sample) + delta.usr
         /\ SumFunctionOnSet(Sn, Sample) = SumFunctionOnSet(S, Sample) + delta.sys
    <3>1. IsFiniteSet(Sample)
      BY Finite
    <3> HIDE DEF U, S, Un, Sn
    <3>2. SumFunctionOnSet(Un, Sample) = SumFunctionOnSet(U, Sample) + (delta.usr - U[sample])
      BY <2>2, <2>8, <2>9, <3>1, SumChange
    <3>3. SumFunctionOnSet(Sn, Sample) = SumFunctionOnSet(S, Sample) + (delta.sys - S[sample])
      BY <2>2, <2>8, <2>9, <3>1, SumChange
    <3> QED BY <2>8, <2>9, <3>2, <3>3
  <2>11. /\ now.usr \in Int /\ now.sys \in Int /\ last[x].usr \in Int /\ last[x].sys \in Int
         /\ base[x].usr \in Int /\ base[x].sys \in Int /\ W \in Nat \ {0}
    BY <1>1, Finite DEF Time, Count
  <2>12. /\ (last[x].usr - base[x].usr) % W = SumFunctionOnSet(U, Sample) % W
         /\ (last[x].sys - base[x].sys) % W = SumFunctionOnSet(S, Sample) % W
    BY DEF TeleInv
  <2> HIDE DEF U, S, Un, Sn
  <2>13. (now.usr - base[x].usr) % W = (SumFunctionOnSet(U, Sample) + delta.usr) % W
    <3> DEFINE n == now.usr
               l == last[x].usr
               b == base[x].usr
               c == SumFunctionOnSet(U, Sample)
               t == SumFunctionOnSet(U, Sample) + delta.usr
    <3>1. n \in Int /\ l \in Int /\ b \in Int /\ c \in Int /\ t \in Int
      BY <2>8, <2>9, <2>11
    <3>2. Drift(l, b, c) /\ Longer(c, n, l, t)
      BY <2>4, <2>12 DEF Drift, Longer
    <3> HIDE DEF n, l, b, c, t
    <3>3. Drift(n, b, t)
      BY <3>1, <3>2, DriftOn
    <3> QED BY <3>3 DEF Drift, n, b, t
  <2>14. (now.sys - base[x].sys) % W = (SumFunctionOnSet(S, Sample) + delta.sys) % W
    <3> DEFINE n == now.sys
               l == last[x].sys
               b == base[x].sys
               c == SumFunctionOnSet(S, Sample)
               t == SumFunctionOnSet(S, Sample) + delta.sys
    <3>1. n \in Int /\ l \in Int /\ b \in Int /\ c \in Int /\ t \in Int
      BY <2>8, <2>9, <2>11
    <3>2. Drift(l, b, c) /\ Longer(c, n, l, t)
      BY <2>4, <2>12 DEF Drift, Longer
    <3> HIDE DEF n, l, b, c, t
    <3>3. Drift(n, b, t)
      BY <3>1, <3>2, DriftOn
    <3> QED BY <3>3 DEF Drift, n, b, t
  <2>15. /\ (last'[x].usr - base'[x].usr) % W = SumFunctionOnSet(Usr(x)', Sample) % W
         /\ (last'[x].sys - base'[x].sys) % W = SumFunctionOnSet(Sys(x)', Sample) % W
    BY <2>7, <2>10, <2>13, <2>14 DEF Un, Sn
  <2>16. \A y \in Index :
           /\ (last'[y].usr - base'[y].usr) % W = SumFunctionOnSet(Usr(y)', Sample) % W
           /\ (last'[y].sys - base'[y].sys) % W = SumFunctionOnSet(Sys(y)', Sample) % W
    <3> TAKE y \in Index
    <3>1. CASE y = x
      BY <2>15, <3>1
    <3>2. CASE y # x
      BY <2>5, <3>2 DEF TeleInv
    <3> QED BY <3>1, <3>2
  <2> QED BY <2>16 DEF TeleInv
<1> QED BY <1>2, <1>3

LEMMA TeleStays ==
  ASSUME TeleInv, UNCHANGED <<last, base, samples>>
  PROVE  TeleInv'
BY DEF TeleInv, Usr, Sys

LEMMA StepTele ==
  ASSUME TableInv, TableInv', FreshInv, TeleInv, [Next]_vars
  PROVE  FreshInv' /\ TeleInv'
<1> USE DEF TableInv
<1>0. sample \in Int /\ Sample \subseteq Int /\ cursor \in Int
      /\ \A x \in Index : pid[x] \in Int /\ (pid[x] # NoPid => pid[x] > 0)
  <2>1. sample \in Int /\ Sample \subseteq Int
    BY Finite DEF TypeOK, Sample
  <2>2. cursor \in Int
    BY PidsAssumption DEF TypeOK
  <2>3. \A x \in Index : pid[x] = NoPid \/ pid[x] \in Nat \ {0}
    BY PidsAssumption DEF TypeOK
  <2> QED BY <2>1, <2>2, <2>3 DEF NoPid
<1>1. ASSUME NEW p \in Pids, Visit(p) PROVE FreshInv' /\ TeleInv'
  <2>1. pc = "scan" /\ p \in DOMAIN alive /\ alive[p] \in Time /\ p > cursor /\ sample' = sample
        /\ p \in Int /\ p # NoPid
    BY <1>1, PidsAssumption, Finite DEF Visit, PlaceInv
  <2>2. CASE Stops(p) = {}
    <3>1. pc' = "spin" /\ UNCHANGED <<cursor, pid, last, samples, base>>
      BY <1>1, <2>2 DEF Visit, table
    <3> QED BY <2>1, <3>1, TeleStays DEF FreshInv, Ungathered
  <2>3. CASE Stops(p) # {}
    <3> DEFINE x == Visited(p, Min(Stops(p)))
    <3>1. /\ pid' = [pid EXCEPT ![x] = p] /\ cursor' = p /\ pc' = pc
          /\ \/ Record(x, alive[p])
             \/ UNCHANGED <<last, samples, base>>
      BY <1>1, <2>3 DEF Visit
    <3>2. x \in Index /\ pid[x] \in {p, NoPid}
      BY <2>3, Search
    <3> HIDE DEF x
    <3>3. TeleInv'
      <4>1. pid[x] = NoPid \/ pid[x] > cursor
        BY <2>1, <3>2
      <4> QED BY <2>1, <3>1, <3>2, <4>1, RecordTele, TeleStays
    <3>4. FreshInv'
      <4> SUFFICES ASSUME NEW s \in Sample, NEW y \in Index, Ungathered(s, y)'
                   PROVE  samples'[s][y] = Zero
        BY DEF FreshInv
      <4>1. pid'[x] = p /\ \A z \in Index \ {x} : pid'[z] = pid[z]
        BY <3>1, <3>2 DEF TypeOK
      <4>2. s > sample \/ (s = sample /\ y # x)
        BY <1>0, <2>1, <3>1, <4>1 DEF Ungathered
      <4>3. Ungathered(s, y)
        BY <1>0, <2>1, <3>1, <4>1, <4>2 DEF Ungathered
      <4>4. samples'[s][y] = samples[s][y]
        <5>1. CASE UNCHANGED samples
          BY <5>1
        <5>2. CASE ~UNCHANGED samples
          <6>1. \E d : samples' = [samples EXCEPT ![sample][x] = d]
            BY <3>1, <5>2 DEF Record
          <6> QED BY <1>0, <4>2, <6>1 DEF TypeOK
        <5> QED BY <5>1, <5>2
      <4> QED BY <4>3, <4>4 DEF FreshInv
    <3> QED BY <3>3, <3>4
  <2> QED BY <2>2, <2>3
<1>2. CASE BeginScan \/ EndScan \/ EndGather \/ Interrupt \/ Report
  <2>1. UNCHANGED <<pid, last, samples, base>>
    BY <1>2 DEF BeginScan, EndScan, EndGather, Interrupt, Report, table
  <2>2. ASSUME NEW s \in Sample, NEW y \in Index, Ungathered(s, y)'
        PROVE  Ungathered(s, y)
    BY <1>0, <1>2, <2>1, <2>2
    DEF BeginScan, EndScan, EndGather, Interrupt, Report, Ungathered
  <2> QED BY <2>1, <2>2, TeleStays DEF FreshInv
<1>3. ASSUME UNCHANGED <<pc, sample, cursor, pid, last, samples, base>>
      PROVE  FreshInv' /\ TeleInv'
  BY <1>3, TeleStays DEF FreshInv, Ungathered
<1>4. ASSUME NEW p \in Pids, Starts(p) \/ Runs(p) \/ Exits(p)
      PROVE  UNCHANGED <<pc, sample, cursor, pid, last, samples, base>>
  BY <1>4 DEF Starts, Runs, Exits, gather, table
<1>5. CASE UNCHANGED vars
  BY <1>3, <1>5 DEF vars, gather, table
<1> QED BY <1>1, <1>2, <1>3, <1>4, <1>5 DEF Next, Main, Spin

(* The samples of a slot add up, modulo 2^32, to what the process has used *)
(* since the base sample, when malloc() gave zeroed memory: whatever exits,*)
(* failed reads and reuses of pids there were (process-watcher.c:192-205). *)
THEOREM Telescopes == Junk = {0} => (Spec => []DeltasTelescope)
<1> SUFFICES ASSUME Junk = {0} PROVE Spec => []DeltasTelescope
  OBVIOUS
<1> DEFINE Tele == FreshInv /\ TeleInv
<1>1. Init => Tele
  BY InitTele
<1>2. TableInv /\ TableInv' /\ Tele /\ [Next]_vars => Tele'
  BY StepTele
<1>3. Tele => DeltasTelescope
  BY DEF TeleInv, DeltasTelescope, Sub
<1> HIDE DEF Tele
<1> QED BY <1>1, <1>2, <1>3, Invariant, PTL DEF Spec

=============================================================================
