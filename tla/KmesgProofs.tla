---------------------------- MODULE KmesgProofs -----------------------------
(***************************************************************************)
(* kmesg loses units but never repeats, reorders or invents one, for every *)
(* number of instances, ring and buffer size, and number of kills.         *)
(***************************************************************************)
EXTENDS Kmesg, SequenceTheorems, FiniteSetTheorems, TLAPS

Entry  == [by : Reader, unit : Nat]
Logged == {log[k].unit : k \in DOMAIN log}

Ascending(s) == \A a, b \in 1 .. Len(s) : a < b => s[a] < s[b]

SeqInv ==
  /\ ring \in Seq(Nat) /\ log \in Seq(Entry)
  /\ buf \in [Reader -> Seq(Nat)]

(* The ring holds the newest units, in order.                              *)
RingInv ==
  /\ Ascending(ring)
  /\ \A x \in Elems(ring), y \in 1 .. produced : y \in Elems(ring) \/ y < x

(* Nothing twice in the file; what an instance appended is in order, and   *)
(* older than what it still holds.                                         *)
LogInv ==
  /\ \A p \in Reader : Ascending(buf[p])
  /\ \A j, k \in 1 .. Len(log) : j < k =>
       /\ log[j].unit # log[k].unit
       /\ log[j].by = log[k].by => log[j].unit < log[k].unit
  /\ \A k \in 1 .. Len(log) : \A x \in Elems(buf[log[k].by]) : log[k].unit < x

(* Every unit emitted is in the kernel, a buffer, the file or lost ...     *)
CoverInv ==
  \A x \in 1 .. produced :
    x \in Elems(ring) \cup Logged \cup lost \/ \E p \in Reader : x \in Elems(buf[p])

(* ... and in one of them only.                                            *)
ApartInv ==
  /\ \A p \in Reader : Elems(buf[p]) \cap (Elems(ring) \cup Logged \cup lost) = {}
  /\ \A p, q \in Reader : p # q => Elems(buf[p]) \cap Elems(buf[q]) = {}
  /\ Elems(ring) \cap (Logged \cup lost) = {} /\ Logged \cap lost = {}

KmesgInv == TypeOK /\ SeqInv /\ RingInv /\ LogInv /\ CoverInv /\ ApartInv

-----------------------------------------------------------------------------
(* The places of a sequence are 1 .. Len(s). *)
LEMMA ElemsOf ==
  ASSUME NEW S, NEW s \in Seq(S)
  PROVE  /\ Len(s) \in Nat /\ DOMAIN s = 1 .. Len(s)
         /\ Elems(s) \subseteq S
         /\ \A k \in 1 .. Len(s) : s[k] \in Elems(s)
         /\ \A x \in Elems(s) : \E k \in 1 .. Len(s) : x = s[k]
<1>1. Len(s) \in Nat /\ DOMAIN s = 1 .. Len(s)
  BY LenProperties
<1> QED BY <1>1, ElementOfSeq DEF Elems

LEMMA ElemsEmpty == Elems(<<>>) = {} /\ <<>> \in Seq(Nat) /\ Len(<<>>) = 0
<1>1. <<>> \in Seq(Nat) /\ Len(<<>>) = 0
  BY EmptySeq
<1>2. Elems(<<>>) = {}
  <2> SUFFICES ASSUME NEW x \in Elems(<<>>) PROVE FALSE
    OBVIOUS
  <2>1. \E k \in 1 .. 0 : x = <<>>[k]
    BY <1>1, ElemsOf
  <2> QED BY <2>1
<1> QED BY <1>1, <1>2

(* A slice of an ascending sequence.                                       *)
LEMMA SliceOf ==
  ASSUME NEW s \in Seq(Nat), NEW a \in 1 .. Len(s) + 1, NEW b \in 0 .. Len(s), a <= b + 1
  PROVE  /\ SubSeq(s, a, b) \in Seq(Nat) /\ Len(SubSeq(s, a, b)) = b - a + 1
         /\ \A k \in 1 .. b - a + 1 : SubSeq(s, a, b)[k] = s[a + k - 1]
         /\ \A x \in Elems(SubSeq(s, a, b)) : \E k \in a .. b : x = s[k]
         /\ \A k \in a .. b : s[k] \in Elems(SubSeq(s, a, b))
         /\ Ascending(s) => Ascending(SubSeq(s, a, b))
<1> DEFINE t == SubSeq(s, a, b)
<1>0. Len(s) \in Nat /\ a \in Int /\ b \in Int
  BY LenProperties
<1>1. /\ t \in Seq(Nat) /\ Len(t) = b - a + 1
      /\ \A k \in 1 .. b - a + 1 : t[k] = s[a + k - 1]
  <2>1. \A k \in a .. b : s[k] \in Nat
    BY <1>0, ElementOfSeq
  <2> QED BY <1>0, <2>1, SubSeqProperties
<1> HIDE DEF t
<1>2. \A x \in Elems(t) : \E k \in a .. b : x = s[k]
  <2> TAKE x \in Elems(t)
  <2>1. PICK k \in 1 .. Len(t) : x = t[k]
    BY <1>1, ElemsOf
  <2>2. a + k - 1 \in a .. b /\ x = s[a + k - 1]
    BY <1>0, <1>1, <2>1
  <2> QED BY <2>2
<1>3. \A k \in a .. b : s[k] \in Elems(t)
  <2> TAKE k \in a .. b
  <2>1. k - a + 1 \in 1 .. Len(t) /\ t[k - a + 1] = s[k]
    BY <1>0, <1>1
  <2> QED BY <1>1, <2>1, ElemsOf
<1>4. Ascending(s) => Ascending(t)
  <2> SUFFICES ASSUME Ascending(s), NEW j \in 1 .. Len(t), NEW k \in 1 .. Len(t), j < k
               PROVE  t[j] < t[k]
    BY DEF Ascending
  <2>1. j \in 1 .. b - a + 1 /\ k \in 1 .. b - a + 1
    BY <1>1
  <2>2. t[j] = s[a + j - 1] /\ t[k] = s[a + k - 1]
    BY <1>1, <2>1
  <2>3. /\ a + j - 1 \in 1 .. Len(s) /\ a + k - 1 \in 1 .. Len(s)
        /\ a + j - 1 < a + k - 1
    BY <1>0, <2>1
  <2> QED BY <2>2, <2>3 DEF Ascending
<1> QED BY <1>1, <1>2, <1>3, <1>4 DEF t

(* What the kernel keeps, and what klogctl(4) returns: the newest n.       *)
LEMMA NewestOf ==
  ASSUME NEW s \in Seq(Nat), NEW m \in Nat
  PROVE  /\ Newest(s, m) \in Seq(Nat) /\ Len(Newest(s, m)) <= m
         /\ Elems(Newest(s, m)) \subseteq Elems(s)
         /\ m > 0 /\ s # <<>> => s[Len(s)] \in Elems(Newest(s, m))
         /\ Ascending(s) =>
              /\ Ascending(Newest(s, m))
              /\ \A x \in Elems(Newest(s, m)), y \in Elems(s) :
                   y \in Elems(Newest(s, m)) \/ y < x
<1>0. Len(s) \in Nat /\ \A x \in Elems(s) : x \in Nat /\ \E k \in 1 .. Len(s) : x = s[k]
  BY ElemsOf
<1>00. s # <<>> => Len(s) > 0
  BY <1>0, EmptySeq
<1>1. CASE Len(s) > m
  <2> DEFINE a == Len(s) - m + 1
  <2>1. a \in 1 .. Len(s) + 1 /\ a <= Len(s) + 1 /\ Len(s) \in 0 .. Len(s)
    BY <1>0, <1>1
  <2>2. Newest(s, m) = SubSeq(s, a, Len(s))
    BY <1>1 DEF Newest
  <2>3. /\ Newest(s, m) \in Seq(Nat) /\ Len(Newest(s, m)) = m
        /\ \A x \in Elems(Newest(s, m)) : \E k \in a .. Len(s) : x = s[k]
        /\ \A k \in a .. Len(s) : s[k] \in Elems(Newest(s, m))
        /\ Ascending(s) => Ascending(Newest(s, m))
    <3>1. Len(s) - a + 1 = m
      BY <1>0
    <3> HIDE DEF a
    <3>2. /\ SubSeq(s, a, Len(s)) \in Seq(Nat)
          /\ Len(SubSeq(s, a, Len(s))) = Len(s) - a + 1
          /\ Ascending(s) => Ascending(SubSeq(s, a, Len(s)))
          /\ \A x \in Elems(SubSeq(s, a, Len(s))) : \E k \in a .. Len(s) : x = s[k]
          /\ \A k \in a .. Len(s) : s[k] \in Elems(SubSeq(s, a, Len(s)))
      BY <2>1, SliceOf
    <3> QED BY <2>2, <3>1, <3>2
  <2>4. Elems(Newest(s, m)) \subseteq Elems(s)
    <3> SUFFICES ASSUME NEW x \in Elems(Newest(s, m)) PROVE x \in Elems(s)
      OBVIOUS
    <3>1. PICK k \in a .. Len(s) : x = s[k]
      BY <2>3
    <3>2. k \in 1 .. Len(s)
      BY <1>0, <2>1
    <3> QED BY <3>1, <3>2, ElemsOf
  <2>5. m > 0 => s[Len(s)] \in Elems(Newest(s, m))
    BY <1>0, <1>1, <2>3
  <2>6. ASSUME Ascending(s), NEW x \in Elems(Newest(s, m)), NEW y \in Elems(s)
        PROVE  y \in Elems(Newest(s, m)) \/ y < x
    <3>1. PICK j \in a .. Len(s) : x = s[j]
      BY <2>3
    <3>2. PICK k \in 1 .. Len(s) : y = s[k]
      BY <1>0
    <3> QED BY <1>0, <1>1, <2>3, <2>6, <3>1, <3>2 DEF Ascending
  <2> QED BY <2>3, <2>4, <2>5, <2>6
<1>2. CASE ~(Len(s) > m)
  <2>1. Newest(s, m) = s
    BY <1>2 DEF Newest
  <2> QED BY <1>0, <1>00, <1>2, <2>1, ElemsOf
<1> QED BY <1>1, <1>2

(* What write() splits off, and the rest.                                  *)
LEMMA SplitOf ==
  ASSUME NEW s \in Seq(Nat), NEW w \in 1 .. Len(s), Ascending(s)
  PROVE  LET f == SubSeq(s, 1, w)
             r == SubSeq(s, w + 1, Len(s))
         IN /\ f \in Seq(Nat) /\ r \in Seq(Nat) /\ Ascending(f) /\ Ascending(r)
            /\ Len(f) = w /\ Len(r) = Len(s) - w
            /\ Elems(f) \cup Elems(r) = Elems(s)
            /\ \A x \in Elems(f), y \in Elems(r) : x < y
<1> DEFINE f == SubSeq(s, 1, w)
           r == SubSeq(s, w + 1, Len(s))
<1>0. Len(s) \in Nat /\ \A x \in Elems(s) : x \in Nat /\ \E k \in 1 .. Len(s) : x = s[k]
  BY ElemsOf
<1>1. /\ f \in Seq(Nat) /\ Len(f) = w /\ Ascending(f)
      /\ \A x \in Elems(f) : \E k \in 1 .. w : x = s[k]
      /\ \A k \in 1 .. w : s[k] \in Elems(f)
  <2>1. 1 \in 1 .. Len(s) + 1 /\ w \in 0 .. Len(s) /\ 1 <= w + 1
    BY <1>0
  <2> QED BY <1>0, <2>1, SliceOf
<1>2. /\ r \in Seq(Nat) /\ Len(r) = Len(s) - w /\ Ascending(r)
      /\ \A x \in Elems(r) : \E k \in w + 1 .. Len(s) : x = s[k]
      /\ \A k \in w + 1 .. Len(s) : s[k] \in Elems(r)
  <2>1. w + 1 \in 1 .. Len(s) + 1 /\ Len(s) \in 0 .. Len(s) /\ w + 1 <= Len(s) + 1
    BY <1>0
  <2>2. Len(s) - (w + 1) + 1 = Len(s) - w
    BY <1>0
  <2> DEFINE a == w + 1
  <2> HIDE DEF a
  <2>3. /\ SubSeq(s, a, Len(s)) \in Seq(Nat)
        /\ Len(SubSeq(s, a, Len(s))) = Len(s) - a + 1
        /\ Ascending(SubSeq(s, a, Len(s)))
        /\ \A x \in Elems(SubSeq(s, a, Len(s))) : \E k \in a .. Len(s) : x = s[k]
        /\ \A k \in a .. Len(s) : s[k] \in Elems(SubSeq(s, a, Len(s)))
    BY <2>1, SliceOf DEF a
  <2> QED BY <2>2, <2>3 DEF a
<1> HIDE DEF f, r
<1>3. Elems(f) \cup Elems(r) = Elems(s)
  <2>1. \A x \in Elems(f) : x \in Elems(s)
    BY <1>0, <1>1, ElemsOf
  <2>2. \A x \in Elems(r) : x \in Elems(s)
    <3> TAKE x \in Elems(r)
    <3>1. PICK k \in w + 1 .. Len(s) : x = s[k]
      BY <1>2
    <3>2. k \in 1 .. Len(s)
      BY <1>0
    <3> QED BY <3>1, <3>2, ElemsOf
  <2>3. \A k \in 1 .. Len(s) : k \in 1 .. w \/ k \in w + 1 .. Len(s)
    BY <1>0
  <2>4. \A x \in Elems(s) : x \in Elems(f) \cup Elems(r)
    BY <1>0, <1>1, <1>2, <2>3
  <2> QED BY <2>1, <2>2, <2>4
<1>4. \A x \in Elems(f), y \in Elems(r) : x < y
  <2> TAKE x \in Elems(f), y \in Elems(r)
  <2>1. PICK j \in 1 .. w : x = s[j]
    BY <1>1
  <2>2. PICK k \in w + 1 .. Len(s) : y = s[k]
    BY <1>2
  <2> QED BY <1>0, <2>1, <2>2 DEF Ascending
<1> QED BY <1>1, <1>2, <1>3, <1>4 DEF f, r

(* The file after a write(): what was there, then the units of t.          *)
LEMMA AppendedOf ==
  ASSUME NEW l \in Seq(Entry), NEW p \in Reader, NEW t \in Seq(Nat)
  PROVE  LET m == l \o Stamped(p, t)
         IN /\ m \in Seq(Entry) /\ Len(m) = Len(l) + Len(t)
            /\ \A k \in 1 .. Len(l) : m[k] = l[k]
            /\ \A k \in Len(l) + 1 .. Len(m) :
                 m[k].by = p /\ k - Len(l) \in 1 .. Len(t) /\ m[k].unit = t[k - Len(l)]
<1> DEFINE u == Stamped(p, t)
           m == l \o u
<1>1. Len(l) \in Nat /\ Len(t) \in Nat /\ DOMAIN t = 1 .. Len(t)
  BY LenProperties
<1>2. u \in Seq(Entry) /\ Len(u) = Len(t)
      /\ \A k \in 1 .. Len(t) : u[k].by = p /\ u[k].unit = t[k]
  <2>1. \A k \in 1 .. Len(t) : t[k] \in Nat
    BY ElementOfSeq
  <2>2. u = [k \in 1 .. Len(t) |-> [by |-> p, unit |-> t[k]]]
    BY <1>1 DEF Stamped
  <2>3. u \in [1 .. Len(t) -> Entry]
    BY <2>1, <2>2 DEF Entry
  <2>4. u \in Seq(Entry) /\ Len(u) = Len(t)
    BY <1>1, <2>3, IsASeq, LenProperties
  <2> QED BY <2>2, <2>4
<1> HIDE DEF u
<1>3. /\ m \in Seq(Entry) /\ Len(m) = Len(l) + Len(u)
      /\ \A k \in 1 .. Len(l) + Len(u) : m[k] = IF k <= Len(l) THEN l[k] ELSE u[k - Len(l)]
  <2>1. u \in Seq(Entry)
    BY <1>2
  <2> QED BY ONLY <2>1, l \in Seq(Entry), ConcatProperties
<1> HIDE DEF m
<1>4. \A k \in 1 .. Len(l) : m[k] = l[k]
  BY <1>1, <1>2, <1>3
<1>5. ASSUME NEW k \in Len(l) + 1 .. Len(m)
      PROVE  m[k].by = p /\ k - Len(l) \in 1 .. Len(t) /\ m[k].unit = t[k - Len(l)]
  <2>1. m[k] = u[k - Len(l)] /\ k - Len(l) \in 1 .. Len(t)
    BY <1>1, <1>2, <1>3
  <2> QED BY <1>2, <2>1
<1> QED BY <1>2, <1>3, <1>4, <1>5 DEF m, u

LEMMA LoggedOf ==
  ASSUME SeqInv
  PROVE  /\ Len(log) \in Nat /\ DOMAIN log = 1 .. Len(log)
         /\ \A k \in 1 .. Len(log) :
              log[k].by \in Reader /\ log[k].unit \in Nat /\ log[k].unit \in Logged
         /\ \A x \in Logged : \E k \in 1 .. Len(log) : x = log[k].unit
<1>1. Len(log) \in Nat /\ DOMAIN log = 1 .. Len(log)
  BY LenProperties DEF SeqInv
<1>2. \A k \in 1 .. Len(log) : log[k] \in Entry
  BY ElementOfSeq DEF SeqInv
<1> QED BY <1>1, <1>2 DEF Logged, Entry

-----------------------------------------------------------------------------
LEMMA InitKmesg == Init => KmesgInv
<1> SUFFICES ASSUME Init PROVE KmesgInv
  OBVIOUS
<1>1. /\ produced = 0 /\ ring = <<>> /\ log = <<>> /\ kills = 0 /\ lost = {}
      /\ pc = [p \in Reader |-> "off"] /\ sz = [p \in Reader |-> BUF] /\ denied = {}
      /\ buf = [p \in Reader |-> <<>>]
  BY DEF Init
<1>2. Elems(ring) = {} /\ Len(ring) = 0 /\ Len(log) = 0 /\ log \in Seq(Entry) /\ ring \in Seq(Nat)
  BY <1>1, ElemsEmpty, EmptySeq
<1>3. \A p \in Reader : buf[p] = <<>> /\ Elems(buf[p]) = {} /\ Len(buf[p]) = 0
  BY <1>1, ElemsEmpty
<1>4. SeqInv
  BY <1>1, <1>2, ElemsEmpty DEF SeqInv
<1>5. Logged = {}
  BY <1>2, <1>4, LoggedOf
<1>6. TypeOK
  <2>1. \A k \in DOMAIN log : log[k] \in [by : Reader, unit : 1 .. produced]
    BY <1>2, <1>4, LoggedOf
  <2>2. \A p \in Reader : pc[p] = "off"
    BY <1>1
  <2>3. pc \in [Reader -> {"off", "poll", "write"}] /\ sz \in [Reader -> {BUF, -1}]
    BY <1>1
  <2>4. produced \in 0 .. MaxUnits /\ kills \in 0 .. MaxKills /\ Len(ring) <= RING
    BY <1>1, <1>2, SizesAssumption, BoundsAssumption
  <2>5. \A p \in Reader : /\ Elems(buf[p]) \subseteq 1 .. produced
                          /\ Len(buf[p]) <= BUF
                          /\ buf[p] # <<>> <=> pc[p] = "write"
    BY <1>3, <2>2, SizesAssumption
  <2> QED BY <1>1, <1>2, <2>1, <2>3, <2>4, <2>5 DEF TypeOK
<1>7. RingInv /\ LogInv
  BY <1>2, <1>3 DEF RingInv, LogInv, Ascending
<1>8. CoverInv /\ ApartInv
  BY <1>1, <1>2, <1>3, <1>5 DEF CoverInv, ApartInv
<1> QED BY <1>4, <1>6, <1>7, <1>8 DEF KmesgInv

(* The kernel: a new unit is newer than all, and a full ring drops older   *)
(* ones than it keeps.                                                     *)
LEMMA StepEmit == KmesgInv /\ Emit => KmesgInv'
<1> SUFFICES ASSUME KmesgInv, Emit PROVE KmesgInv'
  OBVIOUS
<1> USE DEF KmesgInv
<1> DEFINE u == produced + 1
           r == Append(ring, u)
<1>1. /\ produced < MaxUnits /\ produced' = u
      /\ ring' = Newest(r, RING)
      /\ lost' = lost \cup (Elems(ring) \ Elems(ring'))
      /\ UNCHANGED <<log, pc, sz, denied, buf, kills>>
  BY DEF Emit
<1>2. produced \in Nat /\ u \in Nat /\ u > produced
  BY DEF TypeOK
<1> HIDE DEF u
<1>3. /\ r \in Seq(Nat) /\ r # <<>> /\ Len(r) = Len(ring) + 1 /\ Len(ring) \in Nat
      /\ r[Len(r)] = u /\ \A k \in 1 .. Len(ring) : r[k] = ring[k]
  <2>1. ring \in Seq(Nat) /\ Len(ring) \in Nat
    BY LenProperties DEF SeqInv
  <2>2. /\ r \in Seq(Nat) /\ r # <<>> /\ Len(r) = Len(ring) + 1
        /\ r[Len(ring) + 1] = u /\ \A k \in 1 .. Len(ring) : r[k] = ring[k]
    BY <1>2, <2>1, AppendProperties
  <2> QED BY <2>1, <2>2
<1> HIDE DEF r
<1>4. Elems(r) = Elems(ring) \cup {u}
  <2>1. \A x \in Elems(r) : x \in Elems(ring) \cup {u}
    <3> TAKE x \in Elems(r)
    <3>1. PICK k \in 1 .. Len(r) : x = r[k]
      BY <1>3, ElemsOf
    <3>2. k = Len(r) \/ k \in 1 .. Len(ring)
      BY <1>3
    <3> QED BY <1>3, <3>1, <3>2, ElemsOf DEF SeqInv
  <2>2. u \in Elems(r)
    <3>1. Len(r) \in 1 .. Len(r)
      BY <1>3
    <3> QED BY <1>3, <3>1, ElemsOf
  <2>3. \A x \in Elems(ring) : x \in Elems(r)
    <3> TAKE x \in Elems(ring)
    <3>1. PICK k \in 1 .. Len(ring) : x = ring[k]
      BY ElemsOf DEF SeqInv
    <3>2. k \in 1 .. Len(r) /\ r[k] = x
      BY <1>3, <3>1
    <3> QED BY <1>3, <3>2, ElemsOf
  <2> QED BY <2>1, <2>2, <2>3
<1>5. Elems(ring) \subseteq 1 .. produced
  BY DEF TypeOK
<1>6. Ascending(r)
  <2> SUFFICES ASSUME NEW j \in 1 .. Len(r), NEW k \in 1 .. Len(r), j < k PROVE r[j] < r[k]
    BY DEF Ascending
  <2>1. j \in 1 .. Len(ring) /\ r[j] = ring[j] /\ r[j] \in 1 .. produced
    <3>1. j \in 1 .. Len(ring)
      BY <1>3
    <3>2. ring[j] \in Elems(ring)
      BY <3>1, ElemsOf DEF SeqInv
    <3> QED BY <1>3, <1>5, <3>1, <3>2
  <2>2. CASE k = Len(r)
    BY <1>2, <1>3, <2>1, <2>2
  <2>3. CASE k # Len(r)
    <3>1. k \in 1 .. Len(ring) /\ r[k] = ring[k]
      BY <1>3, <2>3
    <3> QED BY <2>1, <3>1 DEF RingInv, Ascending
  <2> QED BY <2>2, <2>3
<1>7. /\ ring' \in Seq(Nat) /\ Len(ring') <= RING /\ Ascending(ring')
      /\ Elems(ring') \subseteq Elems(ring) \cup {u} /\ u \in Elems(ring')
      /\ \A x \in Elems(ring'), y \in Elems(ring) \cup {u} : y \in Elems(ring') \/ y < x
  <2>1. RING \in Nat /\ RING > 0
    BY SizesAssumption
  <2> QED BY <1>1, <1>3, <1>4, <1>6, <2>1, NewestOf
<1>8. Logged' = Logged
  BY <1>1 DEF Logged
<1>9. \A p \in Reader : buf'[p] = buf[p] /\ Elems(buf'[p]) = Elems(buf[p])
                        /\ Elems(buf[p]) \subseteq 1 .. produced
  BY <1>1 DEF TypeOK
<1>10. u \notin Elems(ring) \cup Logged \cup lost /\ \A p \in Reader : u \notin Elems(buf[p])
  <2>1. \A x \in Logged : x \in 1 .. produced
    <3>1. \A k \in DOMAIN log : log[k].unit \in 1 .. produced
      BY DEF TypeOK
    <3> QED BY <3>1 DEF Logged
  <2>2. u \notin 1 .. produced
    BY <1>2
  <2>3. \A x \in lost : x \in 1 .. produced
    BY DEF TypeOK
  <2> QED BY <1>5, <1>9, <2>1, <2>2, <2>3
<1>11. TypeOK'
  <2>1. produced' \in 0 .. MaxUnits
    BY <1>1, <1>2, BoundsAssumption DEF TypeOK, u
  <2>2. Elems(ring') \subseteq 1 .. produced' /\ lost' \subseteq 1 .. produced'
    <3>1. 1 .. produced \subseteq 1 .. produced' /\ u \in 1 .. produced'
      BY <1>1, <1>2 DEF u
    <3>2. lost \subseteq 1 .. produced
      BY DEF TypeOK
    <3> QED BY <1>1, <1>5, <1>7, <3>1, <3>2
  <2>3. \A k \in DOMAIN log' : log'[k] \in [by : Reader, unit : 1 .. produced']
    BY <1>1, <1>2 DEF TypeOK, u
  <2>4. \A p \in Reader : /\ Elems(buf'[p]) \subseteq 1 .. produced'
                          /\ Len(buf'[p]) <= BUF
                          /\ buf'[p] # <<>> <=> pc'[p] = "write"
    BY <1>1, <1>2, <1>9 DEF TypeOK, u
  <2> QED BY <1>1, <1>7, <2>1, <2>2, <2>3, <2>4 DEF TypeOK
<1>12. SeqInv'
  BY <1>1, <1>7 DEF SeqInv
<1>13. RingInv'
  <2> SUFFICES ASSUME NEW x \in Elems(ring'), NEW y \in 1 .. produced', y \notin Elems(ring')
               PROVE  y < x
    BY <1>7 DEF RingInv
  <2>1. CASE y \in Elems(ring) \cup {u}
    BY <1>7, <2>1
  <2>2. CASE y \notin Elems(ring) \cup {u}
    <3>1. y \in 1 .. produced
      BY <1>1, <1>2, <2>2 DEF u
    <3> QED BY <1>1, <1>2, <1>7, <2>2, <3>1 DEF RingInv, u
  <2> QED BY <2>1, <2>2
<1>14. LogInv'
  BY <1>1 DEF LogInv, Ascending
<1>15. CoverInv'
  <2> SUFFICES ASSUME NEW x \in 1 .. produced', x \notin Elems(ring') \cup Logged \cup lost'
               PROVE  \E p \in Reader : x \in Elems(buf[p])
    BY <1>8, <1>9 DEF CoverInv
  <2>1. x \in 1 .. produced \/ x = u
    BY <1>1, <1>2 DEF u
  <2> QED BY <1>1, <1>7, <2>1 DEF CoverInv
<1>16. ApartInv'
  <2>1. Elems(ring') \subseteq Elems(ring) \cup {u} /\ lost' \subseteq lost \cup Elems(ring)
    BY <1>1, <1>7
  <2>2. \A p \in Reader : Elems(buf'[p]) \cap (Elems(ring') \cup Logged' \cup lost') = {}
    BY <1>8, <1>9, <1>10, <2>1 DEF ApartInv
  <2>3. \A p, q \in Reader : p # q => Elems(buf'[p]) \cap Elems(buf'[q]) = {}
    BY <1>9 DEF ApartInv
  <2>4. Elems(ring') \cap (Logged' \cup lost') = {} /\ Logged' \cap lost' = {}
    BY <1>1, <1>8, <1>10, <2>1 DEF ApartInv
  <2> QED BY <2>2, <2>3, <2>4 DEF ApartInv
<1> QED BY <1>11, <1>12, <1>13, <1>14, <1>15, <1>16

(* Only what an instance or the file holds has changed hands: the parts of *)
(* the invariant about the kernel, for the steps that leave it alone.      *)
LEMMA RingStays ==
  ASSUME KmesgInv, UNCHANGED <<produced, ring>>
  PROVE  RingInv' /\ Elems(ring') = Elems(ring)
BY DEF KmesgInv, RingInv, Ascending

(* klogctl(4) moves the newest units into an empty buffer, loses the rest. *)
LEMMA StepPoll ==
  ASSUME KmesgInv, NEW p \in Reader, Poll(p)
  PROVE  KmesgInv'
<1> USE DEF KmesgInv
<1> DEFINE b == Newest(ring, BUF)
<1>1. /\ pc[p] = "poll" /\ sz[p] > 0 /\ ring # <<>>
      /\ buf' = [buf EXCEPT ![p] = Newest(ring, sz[p])]
      /\ ring' = <<>> /\ lost' = lost \cup (Elems(ring) \ Elems(buf'[p]))
      /\ pc' = [pc EXCEPT ![p] = "write"]
      /\ UNCHANGED <<produced, log, sz, denied, kills>>
  BY DEF Poll, Serving
<1>2. sz[p] = BUF /\ BUF \in Nat /\ BUF > 0
  <2>1. sz[p] = BUF \/ sz[p] = -1
    BY DEF TypeOK
  <2> QED BY <1>1, <2>1, SizesAssumption
<1>3. /\ b \in Seq(Nat) /\ Len(b) <= BUF /\ Elems(b) \subseteq Elems(ring) /\ Ascending(b)
      /\ ring[Len(ring)] \in Elems(b)
  BY <1>1, <1>2, NewestOf DEF SeqInv, RingInv
<1> HIDE DEF b
<1>4. buf[p] = <<>>
  <2>1. pc[p] # "write"
    BY <1>1
  <2> QED BY <2>1 DEF TypeOK
<1>5. /\ buf' \in [Reader -> Seq(Nat)] /\ buf'[p] = b
      /\ \A q \in Reader \ {p} : buf'[q] = buf[q]
  <2>1. buf' = [buf EXCEPT ![p] = b]
    BY <1>1, <1>2 DEF b
  <2> QED BY <1>3, <2>1 DEF SeqInv
<1>6. Elems(ring') = {} /\ Len(ring') = 0 /\ ring' \in Seq(Nat) /\ Logged' = Logged
  BY <1>1, ElemsEmpty DEF Logged
<1>7. lost' = lost \cup (Elems(ring) \ Elems(b))
  BY <1>1, <1>5
<1>8. TypeOK'
  <2>1. Elems(b) \subseteq 1 .. produced /\ lost' \subseteq 1 .. produced
    BY <1>3, <1>7 DEF TypeOK
  <2>2. b # <<>>
    BY <1>3, ElemsEmpty
  <2>3. \A q \in Reader : /\ Elems(buf'[q]) \subseteq 1 .. produced
                          /\ Len(buf'[q]) <= BUF
                          /\ buf'[q] # <<>> <=> pc'[q] = "write"
    <3> TAKE q \in Reader
    <3>1. CASE q = p
      BY <1>1, <1>3, <1>5, <2>1, <2>2, <3>1 DEF TypeOK
    <3>2. CASE q # p
      <4>1. buf'[q] = buf[q] /\ pc'[q] = pc[q]
        BY <1>1, <1>5, <3>2 DEF TypeOK
      <4> QED BY <4>1 DEF TypeOK
    <3> QED BY <3>1, <3>2
  <2>4. pc' \in [Reader -> {"off", "poll", "write"}]
    BY <1>1 DEF TypeOK
  <2>5. Len(ring') <= RING
    BY <1>6, SizesAssumption
  <2> QED BY <1>1, <1>6, <2>1, <2>3, <2>4, <2>5 DEF TypeOK
<1>9. SeqInv' /\ RingInv'
  BY <1>1, <1>5, <1>6 DEF SeqInv, RingInv, Ascending
<1>10. LogInv'
  <2>1. \A q \in Reader : Ascending(buf'[q])
    BY <1>3, <1>5 DEF LogInv
  <2>2. ASSUME NEW k \in 1 .. Len(log), NEW x \in Elems(buf'[log[k].by])
        PROVE  log[k].unit < x
    <3>1. /\ log[k].by \in Reader /\ log[k].unit \in Logged
          /\ log[k].unit \in 1 .. produced
      BY LoggedOf DEF TypeOK
    <3>2. CASE log[k].by = p
      <4>1. x \in Elems(ring) /\ log[k].unit \notin Elems(ring)
        BY <1>3, <1>5, <2>2, <3>1, <3>2 DEF ApartInv
      <4> QED BY <3>1, <4>1 DEF RingInv
    <3>3. CASE log[k].by # p
      BY <1>5, <2>2, <3>1, <3>3 DEF LogInv
    <3> QED BY <3>2, <3>3
  <2> QED BY <1>1, <2>1, <2>2 DEF LogInv
<1>11. CoverInv'
  <2> SUFFICES ASSUME NEW x \in 1 .. produced, x \notin Logged \cup lost'
               PROVE  \E q \in Reader : x \in Elems(buf'[q])
    BY <1>1, <1>6 DEF CoverInv
  <2>1. CASE x \in Elems(ring)
    BY <1>5, <1>7, <2>1
  <2>2. CASE x \notin Elems(ring)
    <3>1. PICK q \in Reader : x \in Elems(buf[q])
      BY <1>7, <2>2 DEF CoverInv
    <3>2. q # p
      BY <1>4, <3>1, ElemsEmpty
    <3> QED BY <1>5, <3>1, <3>2
  <2> QED BY <2>1, <2>2
<1>12. ApartInv'
  <2>1. \A q \in Reader : Elems(buf'[q]) \cap (Logged \cup lost') = {}
    <3> TAKE q \in Reader
    <3>1. CASE q = p
      BY <1>3, <1>5, <1>7, <3>1 DEF ApartInv
    <3>2. CASE q # p
      BY <1>5, <1>7, <3>2 DEF ApartInv
    <3> QED BY <3>1, <3>2
  <2>2. ASSUME NEW q \in Reader, NEW r \in Reader, q # r
        PROVE  Elems(buf'[q]) \cap Elems(buf'[r]) = {}
    <3>1. CASE q # p /\ r # p
      BY <1>5, <2>2, <3>1 DEF ApartInv
    <3>2. CASE q = p \/ r = p
      BY <1>3, <1>5, <2>2, <3>2 DEF ApartInv
    <3> QED BY <3>1, <3>2
  <2>3. Logged \cap lost' = {}
    BY <1>7 DEF ApartInv
  <2> QED BY <1>6, <2>1, <2>2, <2>3 DEF ApartInv
<1> QED BY <1>8, <1>9, <1>10, <1>11, <1>12

(* A failed write() and a kill lose what the instance held.                *)
LEMMA StepDrop ==
  ASSUME KmesgInv, NEW p \in Reader, WriteFails(p) \/ Kill(p)
  PROVE  KmesgInv'
<1> USE DEF KmesgInv
<1>1. /\ lost' = lost \cup Elems(buf[p])
      /\ buf' = [buf EXCEPT ![p] = <<>>]
      /\ \E c \in {"poll", "off"} : pc' = [pc EXCEPT ![p] = c]
      /\ kills' \in 0 .. MaxKills
      /\ UNCHANGED <<produced, ring, log, sz, denied>>
  BY BoundsAssumption DEF WriteFails, Kill, TypeOK
<1>2. /\ buf' \in [Reader -> Seq(Nat)] /\ buf'[p] = <<>>
      /\ \A q \in Reader \ {p} : buf'[q] = buf[q] /\ pc'[q] = pc[q]
      /\ pc' \in [Reader -> {"off", "poll", "write"}] /\ pc'[p] # "write"
  BY <1>1, ElemsEmpty DEF SeqInv, TypeOK
<1>3. Elems(buf'[p]) = {} /\ Len(buf'[p]) = 0 /\ Logged' = Logged
  BY <1>1, <1>2, ElemsEmpty DEF Logged
<1>4. TypeOK'
  <2>1. lost' \subseteq 1 .. produced
    BY <1>1 DEF TypeOK
  <2>2. \A q \in Reader : /\ Elems(buf'[q]) \subseteq 1 .. produced
                          /\ Len(buf'[q]) <= BUF
                          /\ buf'[q] # <<>> <=> pc'[q] = "write"
    <3> TAKE q \in Reader
    <3>1. CASE q = p
      BY <1>2, <1>3, <3>1, SizesAssumption
    <3>2. CASE q # p
      BY <1>2, <3>2 DEF TypeOK
    <3> QED BY <3>1, <3>2
  <2> QED BY <1>1, <1>2, <2>1, <2>2 DEF TypeOK
<1>5. SeqInv' /\ RingInv'
  BY <1>1, <1>2, RingStays DEF SeqInv
<1>6. LogInv'
  <2>1. ASSUME NEW q \in Reader PROVE Ascending(buf'[q])
    <3>1. CASE q = p
      BY <1>2, <1>3, <3>1 DEF Ascending
    <3>2. CASE q # p
      BY <1>2, <3>2 DEF LogInv
    <3> QED BY <3>1, <3>2
  <2>2. ASSUME NEW k \in 1 .. Len(log), NEW x \in Elems(buf'[log[k].by])
        PROVE  log[k].unit < x
    <3>1. log[k].by \in Reader /\ log[k].by # p
      BY <1>3, <2>2, LoggedOf
    <3> QED BY <1>2, <2>2, <3>1 DEF LogInv
  <2> QED BY <1>1, <2>1, <2>2 DEF LogInv
<1>7. CoverInv'
  <2> SUFFICES ASSUME NEW x \in 1 .. produced, x \notin Elems(ring) \cup Logged \cup lost'
               PROVE  \E q \in Reader : x \in Elems(buf'[q])
    BY <1>1, <1>3 DEF CoverInv
  <2>1. PICK q \in Reader : x \in Elems(buf[q])
    BY <1>1 DEF CoverInv
  <2> QED BY <1>1, <1>2, <2>1
<1>8. ApartInv'
  <2>1. ASSUME NEW q \in Reader, q # p
        PROVE  Elems(buf'[q]) \cap (Elems(ring) \cup Logged \cup lost') = {}
    BY <1>1, <1>2, <2>1 DEF ApartInv
  <2>2. \A q, r \in Reader : q # r => Elems(buf'[q]) \cap Elems(buf'[r]) = {}
    BY <1>2, <1>3 DEF ApartInv
  <2>3. Elems(ring) \cap (Logged \cup lost') = {} /\ Logged \cap lost' = {}
    BY <1>1 DEF ApartInv
  <2> QED BY <1>1, <1>3, <2>1, <2>2, <2>3 DEF ApartInv
<1> QED BY <1>4, <1>5, <1>6, <1>7, <1>8

(* Starting, waiting and standing still leave the units where they are.    *)
LEMMA StepStill ==
  ASSUME KmesgInv,
         (\E p \in Reader : Start(p) \/ Idle(p)) \/ UNCHANGED vars
  PROVE  KmesgInv'
<1> USE DEF KmesgInv
<1>1. CASE UNCHANGED vars
  BY <1>1, RingStays
  DEF vars, TypeOK, SeqInv, LogInv, Ascending, CoverInv, ApartInv, Logged
<1>2. ASSUME NEW p \in Reader, Start(p) PROVE KmesgInv'
  <2>1. /\ pc[p] = "off" /\ pc' = [pc EXCEPT ![p] = "poll"]
        /\ sz' \in [Reader -> {BUF, -1}] /\ denied' \subseteq Reader
        /\ UNCHANGED <<produced, ring, log, buf, kills, lost>>
    BY <1>2 DEF Start, TypeOK
  <2>2. pc' \in [Reader -> {"off", "poll", "write"}]
    BY <2>1 DEF TypeOK
  <2>3. \A q \in Reader : pc'[q] = "write" <=> pc[q] = "write"
    BY <2>1 DEF TypeOK
  <2>4. TypeOK'
    BY <2>1, <2>2, <2>3 DEF TypeOK
  <2>5. SeqInv' /\ RingInv'
    BY <2>1, RingStays DEF SeqInv
  <2>6. LogInv'
    BY <2>1 DEF LogInv, Ascending
  <2>7. CoverInv' /\ ApartInv'
    BY <2>1 DEF CoverInv, ApartInv, Logged
  <2> QED BY <2>4, <2>5, <2>6, <2>7
<1> QED BY <1>1, <1>2 DEF Idle

(* A write() puts the oldest units of the buffer at the end of the file.   *)
LEMMA WriteGives ==
  ASSUME KmesgInv, NEW p \in Reader, Write(p)
  PROVE  \E f, r \in Seq(Nat) :
           /\ Ascending(f) /\ Ascending(r) /\ Len(f) > 0 /\ Len(r) <= BUF
           /\ Elems(f) \cup Elems(r) = Elems(buf[p])
           /\ \A x \in Elems(f), y \in Elems(r) : x < y
           /\ log' = log \o Stamped(p, f)
           /\ buf' = [buf EXCEPT ![p] = r]
           /\ pc' = IF r = <<>> THEN [pc EXCEPT ![p] = "poll"] ELSE pc
           /\ pc[p] = "write" /\ UNCHANGED <<produced, ring, sz, denied, kills, lost>>
<1> USE DEF KmesgInv
<1>1. PICK w \in 1 .. Len(buf[p]) :
         /\ log' = log \o Stamped(p, SubSeq(buf[p], 1, w))
         /\ buf' = [buf EXCEPT ![p] = SubSeq(buf[p], w + 1, Len(buf[p]))]
  BY DEF Write
<1> DEFINE f == SubSeq(buf[p], 1, w)
           r == SubSeq(buf[p], w + 1, Len(buf[p]))
<1>2. buf[p] \in Seq(Nat) /\ Ascending(buf[p]) /\ Len(buf[p]) \in Nat /\ Len(buf[p]) <= BUF
  BY LenProperties DEF SeqInv, LogInv, TypeOK
<1>3. /\ f \in Seq(Nat) /\ r \in Seq(Nat) /\ Ascending(f) /\ Ascending(r)
      /\ Len(f) = w /\ Len(r) = Len(buf[p]) - w
      /\ Elems(f) \cup Elems(r) = Elems(buf[p])
      /\ \A x \in Elems(f), y \in Elems(r) : x < y
  BY <1>2, SplitOf
<1>4. /\ pc[p] = "write" /\ UNCHANGED <<produced, ring, sz, denied, kills, lost>>
      /\ pc' = IF buf'[p] = <<>> THEN [pc EXCEPT ![p] = "poll"] ELSE pc
  BY DEF Write
<1>5. log' = log \o Stamped(p, f) /\ buf' = [buf EXCEPT ![p] = r]
  BY <1>1
<1> HIDE DEF f, r
<1>6. buf'[p] = r
  BY <1>5 DEF SeqInv
<1>7. Len(f) > 0 /\ Len(r) <= BUF
  BY <1>2, <1>3, SizesAssumption
<1> QED BY <1>3, <1>4, <1>5, <1>6, <1>7

(* The entries a write() adds are new, and newer than p's earlier ones.    *)
LEMMA Grows ==
  ASSUME KmesgInv, NEW p \in Reader, NEW f \in Seq(Nat), Ascending(f),
         Elems(f) \subseteq Elems(buf[p]), log' = log \o Stamped(p, f)
  PROVE  /\ log' \in Seq(Entry) /\ Len(log') = Len(log) + Len(f)
         /\ \A k \in 1 .. Len(log) : log'[k] = log[k]
         /\ \A k \in Len(log) + 1 .. Len(log') :
              /\ log'[k].by = p /\ log'[k].unit \in Elems(f)
              /\ \A j \in 1 .. k - 1 :
                   /\ log'[j].unit # log'[k].unit
                   /\ log'[j].by = p => log'[j].unit < log'[k].unit
         /\ Logged' = Logged \cup Elems(f)
<1> USE DEF KmesgInv
<1>1. log \in Seq(Entry) /\ Len(log) \in Nat /\ Len(f) \in Nat
  BY LenProperties DEF SeqInv
<1>2. /\ log' \in Seq(Entry) /\ Len(log') = Len(log) + Len(f)
      /\ \A k \in 1 .. Len(log) : log'[k] = log[k]
      /\ \A k \in Len(log) + 1 .. Len(log') :
           log'[k].by = p /\ k - Len(log) \in 1 .. Len(f) /\ log'[k].unit = f[k - Len(log)]
  BY <1>1, AppendedOf
<1>3. \A k \in Len(log) + 1 .. Len(log') : log'[k].unit \in Elems(f)
  BY <1>2, ElemsOf
<1>4. ASSUME NEW k \in Len(log) + 1 .. Len(log'), NEW j \in 1 .. k - 1
      PROVE  /\ log'[j].unit # log'[k].unit
             /\ log'[j].by = p => log'[j].unit < log'[k].unit
  <2>1. log'[k].unit \in Elems(buf[p]) /\ log'[k].unit \in Nat
    BY <1>3, ElemsOf
  <2>2. CASE j \in 1 .. Len(log)
    <3>1. log'[j] = log[j] /\ log[j].unit \in Logged
      BY <1>2, <2>2, LoggedOf
    <3>2. log[j].unit # log'[k].unit
      BY <2>1, <3>1 DEF ApartInv
    <3>3. log[j].by = p => log[j].unit < log'[k].unit
      BY <2>1, <2>2 DEF LogInv
    <3> QED BY <3>1, <3>2, <3>3
  <2>3. CASE j \notin 1 .. Len(log)
    <3>1. j \in Len(log) + 1 .. Len(log')
      BY <1>1, <1>2, <2>3
    <3> DEFINE a == j - Len(log)
               b == k - Len(log)
    <3>2. /\ a \in 1 .. Len(f) /\ b \in 1 .. Len(f)
          /\ log'[j].unit = f[a] /\ log'[k].unit = f[b]
      BY <1>2, <3>1
    <3>3. a < b
      BY <1>1
    <3>4. f[a] < f[b] /\ f[a] \in Nat /\ f[b] \in Nat
      <4> HIDE DEF a, b
      <4> QED BY <3>2, <3>3, ElementOfSeq DEF Ascending
    <3> QED BY <3>2, <3>4
  <2> QED BY <2>2, <2>3
<1>5. Logged' = Logged \cup Elems(f)
  <2>1. DOMAIN log = 1 .. Len(log) /\ DOMAIN log' = 1 .. Len(log')
    BY <1>1, <1>2, LenProperties
  <2>2. \A x \in Logged' : x \in Logged \cup Elems(f)
    <3> TAKE x \in Logged'
    <3>1. PICK k \in 1 .. Len(log') : x = log'[k].unit
      BY <2>1 DEF Logged
    <3>2. k \in 1 .. Len(log) \/ k \in Len(log) + 1 .. Len(log')
      BY <1>1, <1>2
    <3> QED BY <1>2, <1>3, <2>1, <3>1, <3>2 DEF Logged
  <2>3. \A x \in Logged : x \in Logged'
    <3> TAKE x \in Logged
    <3>1. PICK k \in 1 .. Len(log) : x = log[k].unit
      BY <2>1 DEF Logged
    <3>2. k \in DOMAIN log' /\ log'[k] = log[k]
      BY <1>1, <1>2, <2>1
    <3> QED BY <3>1, <3>2 DEF Logged
  <2>4. \A x \in Elems(f) : x \in Logged'
    <3> TAKE x \in Elems(f)
    <3>1. PICK j \in 1 .. Len(f) : x = f[j]
      BY ElemsOf
    <3> DEFINE k == Len(log) + j
    <3>2. k \in Len(log) + 1 .. Len(log') /\ k \in DOMAIN log' /\ k - Len(log) = j
      BY <1>1, <1>2, <2>1
    <3> HIDE DEF k
    <3> QED BY <1>2, <3>1, <3>2 DEF Logged
  <2> QED BY <2>2, <2>3, <2>4
<1> QED BY <1>2, <1>3, <1>4, <1>5

LEMMA StepWrite ==
  ASSUME KmesgInv, NEW p \in Reader, Write(p)
  PROVE  KmesgInv'
<1> USE DEF KmesgInv
<1>1. PICK f \in Seq(Nat), r \in Seq(Nat) :
           /\ Ascending(f) /\ Ascending(r) /\ Len(f) > 0 /\ Len(r) <= BUF
           /\ Elems(f) \cup Elems(r) = Elems(buf[p])
           /\ \A x \in Elems(f), y \in Elems(r) : x < y
           /\ log' = log \o Stamped(p, f)
           /\ buf' = [buf EXCEPT ![p] = r]
           /\ pc' = IF r = <<>> THEN [pc EXCEPT ![p] = "poll"] ELSE pc
           /\ pc[p] = "write" /\ UNCHANGED <<produced, ring, sz, denied, kills, lost>>
  BY WriteGives
<1>2. /\ log' \in Seq(Entry) /\ Len(log') = Len(log) + Len(f) /\ Len(log) \in Nat
      /\ \A k \in 1 .. Len(log) : log'[k] = log[k]
      /\ \A k \in Len(log) + 1 .. Len(log') :
           /\ log'[k].by = p /\ log'[k].unit \in Elems(f)
           /\ \A j \in 1 .. k - 1 :
                /\ log'[j].unit # log'[k].unit
                /\ log'[j].by = p => log'[j].unit < log'[k].unit
      /\ Logged' = Logged \cup Elems(f)
  BY <1>1, Grows, LoggedOf
<1>3. /\ buf' \in [Reader -> Seq(Nat)] /\ buf'[p] = r
      /\ \A q \in Reader \ {p} : buf'[q] = buf[q] /\ pc'[q] = pc[q]
      /\ pc' \in [Reader -> {"off", "poll", "write"}]
      /\ pc'[p] = "write" <=> r # <<>>
  <2>1. buf' \in [Reader -> Seq(Nat)] /\ buf'[p] = r /\ \A q \in Reader \ {p} : buf'[q] = buf[q]
    BY <1>1 DEF SeqInv
  <2>2. CASE r = <<>>
    BY <1>1, <2>1, <2>2 DEF TypeOK
  <2>3. CASE r # <<>>
    BY <1>1, <2>1, <2>3 DEF TypeOK
  <2> QED BY <2>1, <2>2, <2>3
<1>4. \A x \in Elems(f) : x \notin Elems(r)
  <2>1. \A x \in Elems(f) : x \in Nat
    BY ElemsOf
  <2> QED BY <1>1, <2>1
<1>5. Elems(f) \subseteq 1 .. produced /\ Elems(r) \subseteq 1 .. produced
  BY <1>1 DEF TypeOK
<1>6. TypeOK'
  <2>1. ASSUME NEW k \in DOMAIN log' PROVE log'[k] \in [by : Reader, unit : 1 .. produced]
    <3>1. k \in 1 .. Len(log) \/ k \in Len(log) + 1 .. Len(log')
      BY <1>2, LenProperties
    <3>2. log'[k] \in Entry
      BY <1>2, <2>1, LenProperties, ElementOfSeq
    <3>3. log'[k].unit \in 1 .. produced
      <4>1. CASE k \in 1 .. Len(log)
        BY <1>2, <4>1, LoggedOf DEF TypeOK
      <4>2. CASE k \in Len(log) + 1 .. Len(log')
        BY <1>2, <1>5, <4>2
      <4> QED BY <3>1, <4>1, <4>2
    <3> QED BY <3>2, <3>3 DEF Entry
  <2>2. \A q \in Reader : /\ Elems(buf'[q]) \subseteq 1 .. produced
                          /\ Len(buf'[q]) <= BUF
                          /\ buf'[q] # <<>> <=> pc'[q] = "write"
    <3> TAKE q \in Reader
    <3>1. CASE q = p
      BY <1>1, <1>3, <1>5, <3>1
    <3>2. CASE q # p
      BY <1>3, <3>2 DEF TypeOK
    <3> QED BY <3>1, <3>2
  <2> QED BY <1>1, <1>3, <2>1, <2>2 DEF TypeOK
<1>7. SeqInv' /\ RingInv'
  BY <1>1, <1>2, <1>3, RingStays DEF SeqInv
<1>8. LogInv'
  <2>1. \A q \in Reader : Ascending(buf'[q])
    BY <1>1, <1>3 DEF LogInv
  <2>2. ASSUME NEW j \in 1 .. Len(log'), NEW k \in 1 .. Len(log'), j < k
        PROVE  /\ log'[j].unit # log'[k].unit
               /\ log'[j].by = log'[k].by => log'[j].unit < log'[k].unit
    <3>1. CASE k \in 1 .. Len(log)
      <4>1. j \in 1 .. Len(log)
        BY <1>2, <2>2, <3>1
      <4> QED BY <1>2, <2>2, <3>1, <4>1 DEF LogInv
    <3>2. CASE k \notin 1 .. Len(log)
      <4>1. k \in Len(log) + 1 .. Len(log') /\ j \in 1 .. k - 1
        BY <1>2, <2>2, <3>2, LenProperties
      <4> QED BY <1>2, <4>1
    <3> QED BY <3>1, <3>2
  <2>3. ASSUME NEW k \in 1 .. Len(log'), NEW x \in Elems(buf'[log'[k].by])
        PROVE  log'[k].unit < x
    <3>1. CASE k \in 1 .. Len(log)
      <4>1. log'[k] = log[k] /\ log[k].by \in Reader
        BY <1>2, <3>1, LoggedOf
      <4>2. x \in Elems(buf[log[k].by])
        BY <1>1, <1>3, <2>3, <4>1
      <4> QED BY <3>1, <4>1, <4>2 DEF LogInv
    <3>2. CASE k \notin 1 .. Len(log)
      <4>1. k \in Len(log) + 1 .. Len(log')
        BY <1>2, <3>2, LenProperties
      <4>2. log'[k].by = p /\ log'[k].unit \in Elems(f)
        BY <1>2, <4>1
      <4> QED BY <1>1, <1>3, <2>3, <4>2
    <3> QED BY <3>1, <3>2
  <2> QED BY <2>1, <2>2, <2>3 DEF LogInv
<1>9. CoverInv'
  <2> SUFFICES ASSUME NEW x \in 1 .. produced, x \notin Elems(ring) \cup Logged' \cup lost
               PROVE  \E q \in Reader : x \in Elems(buf'[q])
    BY <1>1 DEF CoverInv
  <2>1. PICK q \in Reader : x \in Elems(buf[q])
    BY <1>2 DEF CoverInv
  <2> QED BY <1>1, <1>2, <1>3, <2>1
<1>10. ApartInv'
  <2>1. \A q \in Reader : Elems(buf'[q]) \subseteq Elems(buf[q])
    BY <1>1, <1>3
  <2>2. ASSUME NEW q \in Reader
        PROVE  Elems(buf'[q]) \cap (Elems(ring) \cup Logged' \cup lost) = {}
    <3>1. Elems(buf'[q]) \cap (Elems(ring) \cup Logged \cup lost) = {}
      BY <2>1 DEF ApartInv
    <3>2. Elems(buf'[q]) \cap Elems(f) = {}
      <4>1. CASE q = p
        BY <1>3, <1>4, <4>1
      <4>2. CASE q # p
        BY <1>1, <1>3, <4>2 DEF ApartInv
      <4> QED BY <4>1, <4>2
    <3> QED BY <1>2, <3>1, <3>2
  <2>3. \A q, s \in Reader : q # s => Elems(buf'[q]) \cap Elems(buf'[s]) = {}
    BY <2>1 DEF ApartInv
  <2>4. Elems(ring) \cap (Logged' \cup lost) = {} /\ Logged' \cap lost = {}
    BY <1>1, <1>2 DEF ApartInv
  <2> QED BY <1>1, <2>2, <2>3, <2>4 DEF ApartInv
<1> QED BY <1>6, <1>7, <1>8, <1>9, <1>10

LEMMA StepKmesg == KmesgInv /\ [Next]_vars => KmesgInv'
BY StepEmit, StepPoll, StepWrite, StepDrop, StepStill DEF Next, Loop

(* The units in the file, the buffers and the ring, and their order.       *)
THEOREM Invariant == Spec => []KmesgInv
BY InitKmesg, StepKmesg, PTL DEF Spec

(* In particular klogctl(4) never returns more than the buffer holds.      *)
THEOREM TypeCorrect == Spec => []TypeOK
<1>1. KmesgInv => TypeOK
  BY DEF KmesgInv
<1> QED BY <1>1, Invariant, PTL

(* A file that holds no unit twice has as many units as entries.           *)
LEMMA NothingTwice ==
  ASSUME KmesgInv
  PROVE  Cardinality(Logged) = Len(log)
<1> USE DEF KmesgInv
<1> DEFINE g == [k \in 1 .. Len(log) |-> log[k].unit]
<1>1. /\ Len(log) \in Nat
      /\ \A k \in 1 .. Len(log) : log[k].unit \in Logged /\ log[k].unit \in Nat
      /\ \A x \in Logged : \E k \in 1 .. Len(log) : x = log[k].unit
  BY LoggedOf
<1>2. g \in Surjection(1 .. Len(log), Logged)
  BY <1>1 DEF Surjection
<1>3. g \in Injection(1 .. Len(log), Logged)
  <2>1. ASSUME NEW a \in 1 .. Len(log), NEW b \in 1 .. Len(log), g[a] = g[b]
        PROVE  a = b
    <3>1. log[a].unit = log[b].unit
      BY <2>1
    <3>2. a < b \/ b < a \/ a = b
      BY <1>1
    <3> QED BY <3>1, <3>2 DEF LogInv
  <2>2. g \in [1 .. Len(log) -> Logged]
    BY <1>1
  <2> HIDE DEF g
  <2> QED BY <2>1, <2>2 DEF Injection, IsInjective
<1>4. ExistsBijection(1 .. Len(log), Logged)
  BY <1>2, <1>3 DEF ExistsBijection, Bijection
<1> QED BY <1>1, <1>4, FS_CountingElements

(* A unit is in one place: the kernel, one buffer, the file, or lost; no   *)
(* instance gets what another one got (kmesg.c:59).                        *)
THEOREM NothingShared == Spec => []Conserved
<1>1. ASSUME KmesgInv PROVE Conserved
  <2> USE <1>1 DEF KmesgInv
  <2> DEFINE Held(p) == Elems(buf[p])
             Places == {Elems(ring), Logged, lost}
  <2>1. (UNION Places) \cup (UNION {Held(p) : p \in Reader}) = 1 .. produced
    <3>1. Elems(ring) \subseteq 1 .. produced /\ lost \subseteq 1 .. produced
      BY DEF TypeOK
    <3>2. \A p \in Reader : Elems(buf[p]) \subseteq 1 .. produced
      BY DEF TypeOK
    <3>3. Logged \subseteq 1 .. produced
      <4>1. \A k \in DOMAIN log : log[k].unit \in 1 .. produced
        BY DEF TypeOK
      <4> QED BY <4>1 DEF Logged
    <3>4. UNION Places \subseteq 1 .. produced
      BY <3>1, <3>3
    <3>5. UNION {Held(p) : p \in Reader} \subseteq 1 .. produced
      BY <3>2
    <3>6. \A x \in 1 .. produced :
            x \in UNION Places \/ x \in UNION {Held(p) : p \in Reader}
      BY DEF CoverInv
    <3> HIDE DEF Places, Held
    <3> QED BY <3>4, <3>5, <3>6
  <2>2. /\ \A p \in Reader : \A s \in Places : Held(p) \cap s = {}
        /\ \A p, q \in Reader : p # q => Held(p) \cap Held(q) = {}
        /\ Elems(ring) \cap (Logged \cup lost) = {} /\ Logged \cap lost = {}
    BY DEF ApartInv
  <2> QED BY <2>1, <2>2, NothingTwice DEF Conserved, Logged
<1> QED BY <1>1, Invariant, PTL

(* Every step is one of LossyLog, or leaves its variables alone.           *)
LEMMA StepImplements ==
  ASSUME KmesgInv, [Next]_vars
  PROVE  [LL!Next]_<<produced, log>>
<1>1. CASE Emit
  BY <1>1 DEF Emit, LL!Next, LL!Emit
<1>2. ASSUME NEW p \in Reader, Write(p) PROVE LL!Write(p)
  <2>1. PICK f \in Seq(Nat), r \in Seq(Nat) :
             /\ Ascending(f) /\ Len(f) > 0
             /\ Elems(f) \cup Elems(r) = Elems(buf[p])
             /\ log' = log \o Stamped(p, f) /\ UNCHANGED produced
    BY <1>2, WriteGives
  <2>2. /\ log' \in Seq(Entry) /\ Len(log') = Len(log) + Len(f)
        /\ \A k \in 1 .. Len(log) : log'[k] = log[k]
        /\ \A k \in Len(log) + 1 .. Len(log') :
             /\ log'[k].by = p /\ log'[k].unit \in Elems(f)
             /\ \A j \in 1 .. k - 1 :
                  /\ log'[j].unit # log'[k].unit
                  /\ log'[j].by = p => log'[j].unit < log'[k].unit
    BY <2>1, Grows
  <2>3. log \in Seq(Entry) /\ Len(log) \in Nat /\ Len(f) \in Nat
    BY LenProperties DEF KmesgInv, SeqInv
  <2>4. SubSeq(log', 1, Len(log)) = log
    <3>1. \A k \in 1 .. Len(log) : log'[k] \in Entry
      BY <2>2, <2>3, ElementOfSeq
    <3>2. /\ SubSeq(log', 1, Len(log)) \in Seq(Entry)
          /\ Len(SubSeq(log', 1, Len(log))) = Len(log)
          /\ \A k \in 1 .. Len(log) : SubSeq(log', 1, Len(log))[k] = log[k]
      BY <2>2, <2>3, <3>1, SubSeqProperties
    <3> QED BY <2>3, <3>2, SeqEqual
  <2>5. Elems(f) \subseteq 1 .. produced
    BY <2>1 DEF KmesgInv, TypeOK
  <2>6. \A k \in Len(log) + 1 .. Len(log') : LL!Fits(p, k)
    BY <2>2, <2>5 DEF LL!Fits
  <2> QED BY <2>1, <2>2, <2>3, <2>4, <2>6 DEF LL!Write, Entry
<1>3. ASSUME NEW p \in Reader, Start(p) \/ Poll(p) \/ WriteFails(p) \/ Idle(p) \/ Kill(p)
      PROVE  UNCHANGED <<produced, log>>
  BY <1>3 DEF Start, Poll, WriteFails, Idle, Kill, vars
<1>4. CASE UNCHANGED vars
  BY <1>4 DEF vars
<1> QED BY <1>1, <1>2, <1>3, <1>4 DEF Next, Loop, LL!Next

(* kmesg is a lossy log: partial writes, kills and restarts never repeat,  *)
(* reorder, invent or rewrite what an instance logged (kmesg.c:61-70).     *)
THEOREM Implements == Spec => IsLossyLog
<1>1. Init => LL!Init
  BY DEF Init, LL!Init
<1> QED BY <1>1, StepImplements, Invariant, PTL DEF Spec, IsLossyLog, LL!Spec

(***************************************************************************)
(* LossyLog itself, and what Kmesg inherits from it.                       *)
(***************************************************************************)
LEMMA AbstractStep ==
  ASSUME LL!InOrder, produced \in Nat, [LL!Next]_<<produced, log>>
  PROVE  LL!InOrder' /\ produced' \in Nat
<1> DEFINE Known(n) == [by : Reader, unit : 1 .. n]
<1>1. log \in Seq(Known(produced)) /\ Len(log) \in Nat
  BY LenProperties DEF LL!InOrder
<1>2. CASE LL!Emit
  <2>1. produced' = produced + 1 /\ log' = log
    BY <1>2 DEF LL!Emit
  <2>2. Known(produced) \subseteq Known(produced')
    BY <2>1
  <2>3. PICK S : S = Known(produced')
    OBVIOUS
  <2>4. \A k \in 1 .. Len(log) : log[k] \in S
    BY <1>1, <2>2, <2>3, ElementOfSeq
  <2>5. log \in [1 .. Len(log) -> S]
    BY <1>1, <2>4
  <2>6. log \in Seq(S)
    BY <1>1, <2>5, SeqDef
  <2>7. log' \in Seq([by : Reader, unit : 1 .. produced'])
    BY <2>1, <2>3, <2>6
  <2> QED BY <2>1, <2>7 DEF LL!InOrder
<1>3. ASSUME NEW r \in Reader, LL!Write(r)
      PROVE  LL!InOrder' /\ produced' \in Nat
  <2>1. /\ log' \in Seq(Entry) /\ Len(log') > Len(log)
        /\ SubSeq(log', 1, Len(log)) = log /\ produced' = produced
        /\ \A k \in Len(log) + 1 .. Len(log') : LL!Fits(r, k)
    BY <1>3 DEF LL!Write, Entry
  <2>2. Len(log') \in Nat /\ DOMAIN log' = 1 .. Len(log') /\ log' \in [1 .. Len(log') -> Entry]
    BY <2>1, LenProperties
  <2>3. \A k \in 1 .. Len(log) : log'[k] = log[k]
    <3>1. \A k \in 1 .. Len(log) : log'[k] \in Entry
      BY <1>1, <2>1, <2>2
    <3>2. \A k \in 1 .. Len(log) : SubSeq(log', 1, Len(log))[k] = log'[k]
      BY <1>1, <2>1, <2>2, <3>1, SubSeqProperties
    <3> QED BY <2>1, <3>2
  <2>4. \A k \in 1 .. Len(log') : k \in 1 .. Len(log) \/ k \in Len(log) + 1 .. Len(log')
    BY <1>1, <2>2
  <2>5. \A k \in Len(log) + 1 .. Len(log') :
          /\ log'[k].by = r /\ log'[k].unit \in 1 .. produced
          /\ \A j \in 1 .. k - 1 :
               /\ log'[j].unit # log'[k].unit
               /\ log'[j].by = r => log'[j].unit < log'[k].unit
    BY <2>1 DEF LL!Fits
  <2>6. \A k \in 1 .. Len(log') : log'[k] \in Known(produced)
    <3>1. \A k \in 1 .. Len(log) : log[k] \in Known(produced)
      BY <1>1, ElementOfSeq
    <3>2. ASSUME NEW k \in Len(log) + 1 .. Len(log')
          PROVE  log'[k] \in Known(produced)
      <4>1. log'[k] \in Entry /\ log'[k].unit \in 1 .. produced
        BY <1>1, <2>2, <2>5
      <4> QED BY <4>1 DEF Entry
    <3> QED BY <2>3, <2>4, <3>1, <3>2
  <2>7. log' \in Seq(Known(produced))
    <3>1. log' \in [1 .. Len(log') -> Known(produced)]
      BY <2>2, <2>6
    <3> QED BY <2>2, <3>1, SeqDef
  <2>8. ASSUME NEW j \in 1 .. Len(log'), NEW k \in 1 .. Len(log'), j < k
        PROVE  /\ log'[j].unit # log'[k].unit
               /\ log'[j].by = log'[k].by => log'[j].unit < log'[k].unit
    <3>1. CASE k \in 1 .. Len(log)
      <4>1. j \in 1 .. Len(log)
        BY <1>1, <2>2, <2>8, <3>1
      <4> QED BY <2>3, <2>8, <3>1, <4>1 DEF LL!InOrder
    <3>2. CASE k \in Len(log) + 1 .. Len(log')
      <4>1. j \in 1 .. k - 1
        BY <1>1, <2>2, <2>8, <3>2
      <4> QED BY <2>5, <3>2, <4>1
    <3> QED BY <2>4, <3>1, <3>2
  <2> QED BY <2>1, <2>7, <2>8 DEF LL!InOrder
<1>4. CASE UNCHANGED <<produced, log>>
  BY <1>4 DEF LL!InOrder
<1> QED BY <1>2, <1>3, <1>4 DEF LL!Next

(* LossyLog keeps what a logger is for: nothing invented or repeated, each *)
(* reader's part in order.                                                 *)
THEOREM AbstractInOrder == LL!Spec => []LL!InOrder
<1> DEFINE Inv == LL!InOrder /\ produced \in Nat
<1>1. LL!Init => Inv
  <2> SUFFICES ASSUME LL!Init PROVE Inv
    OBVIOUS
  <2>1. produced = 0 /\ log = <<>> /\ Len(<<>>) = 0
    BY ElemsEmpty DEF LL!Init
  <2>2. <<>> \in Seq([by : Reader, unit : 1 .. 0])
    OBVIOUS
  <2> QED BY <2>1, <2>2 DEF LL!InOrder
<1>2. Inv /\ [LL!Next]_<<produced, log>> => Inv'
  BY AbstractStep
<1>3. Inv => LL!InOrder
  OBVIOUS
<1> QED BY <1>1, <1>2, <1>3, PTL DEF LL!Spec

(* Through the refinement the file of kmesg has that order, whatever kills *)
(* and partial writes there were (kmesg.c:59-70).                          *)
THEOREM FileInOrder == Spec => []LL!InOrder
BY Implements, AbstractInOrder, PTL DEF IsLossyLog

=============================================================================
