-------------------------- MODULE PktBufferProofs --------------------------
(***************************************************************************)
(* Proofs about PktBuffer for every set of commands, every size of the two *)
(* rings, every sharing of the work areas and every interleaving of the    *)
(* tasks: its types, that each ring holds byte by byte the commands it     *)
(* should, that a packet can be sent again as it is, whose command a call  *)
(* that waited sets, and when a length can go wrong at all.                *)
(*                                                                         *)
(* A ring is looked at from its read pointer: command i of its queue lies  *)
(* behind the lengths of the commands before it (Before, Laid).  That      *)
(* holds after every insertion, removal and reset (the lemmas on Stored,   *)
(* Dropped and Empty), until a command is copied in a length that is not   *)
(* its own.  A command that waits for room lies in its work area, or a     *)
(* whole one of the other task does (CallInv); the packet under            *)
(* construction is kept beside the resend ring as a tail of it (JobInv).   *)
(***************************************************************************)
EXTENDS PktBuffer, SequenceTheorems, WellFoundedInduction, TLAPS

-----------------------------------------------------------------------------
(* Numbers. *)

LEMMA LeastNumber ==
    ASSUME NEW T \in SUBSET Nat, T # {}
    PROVE  \E m \in T : \A k \in T : m <= k
<1> DEFINE Less == OpToRel(<, Nat)
<1>1. \E m \in T : \A k \in T : <<k, m>> \notin Less
  <2>1. IsWellFoundedOn(Less, Nat)
    BY NatLessThanWellFounded
  <2> HIDE DEF Less
  <2> QED
    BY <2>1, WFMin
<1>2. \A k, m \in Nat : k < m => <<k, m>> \in Less
  BY DEF OpToRel
<1> HIDE DEF Less
<1>3. PICK m \in T : \A k \in T : <<k, m>> \notin Less
  BY <1>1
<1>4. m \in Nat /\ \A k \in T : k \in Nat /\ ~ (k < m)
  BY <1>2, <1>3
<1> QED
  BY <1>4

\* A set of numbers below n with 0 and with the successor of each is all of them.
LEMMA UpTo ==
    ASSUME NEW n \in Nat, NEW T, 0 \in T, \A i \in 1 .. n : i - 1 \in T => i \in T
    PROVE  0 .. n \subseteq T
<1> DEFINE Bad == {i \in 0 .. n : i \notin T}
<1> SUFFICES ASSUME Bad # {}
             PROVE  FALSE
  OBVIOUS
<1>1. PICK m \in Bad : \A k \in Bad : m <= k
  <2>1. Bad \in SUBSET Nat
    OBVIOUS
  <2> HIDE DEF Bad
  <2> QED
    BY <2>1, LeastNumber
<1>2. m \in 1 .. n /\ m - 1 \in 0 .. n /\ ~ (m <= m - 1)
  BY <1>1
<1>3. m - 1 \in T
  BY <1>1, <1>2
<1> QED
  BY <1>1, <1>2, <1>3

LEMMA EvenSum ==
    ASSUME NEW x \in Nat, NEW y \in Nat, NEW z \in Nat, x % 2 = 0, y % 2 = 0, z % 2 = 0
    PROVE  (x + y) % 2 = 0 /\ (x + y - z) % 2 = 0
BY SMT

\* The place x bytes behind place a of a ring.
Place(a, x, siz) == (a + x) % siz

LEMMA PlaceIs ==
    ASSUME NEW siz \in Nat \ {0}, NEW a \in 0 .. siz - 1, NEW x \in 0 .. siz
    PROVE  /\ Place(a, x, siz) = IF a + x < siz THEN a + x ELSE a + x - siz
           /\ Place(a, x, siz) \in 0 .. siz - 1
<1>1. (a + x) % siz = IF a + x < siz THEN a + x ELSE a + x - siz
  BY SMT
<1>2. (IF a + x < siz THEN a + x ELSE a + x - siz) \in 0 .. siz - 1
  OBVIOUS
<1> QED
  BY <1>1, <1>2, Zenon DEF Place

LEMMA PlaceTwice ==
    ASSUME NEW siz \in Nat \ {0}, NEW a \in 0 .. siz - 1, NEW x \in 0 .. siz, NEW y \in 0 .. siz,
           x + y <= siz
    PROVE  Place(Place(a, x, siz), y, siz) = Place(a, x + y, siz)
<1>1. /\ Place(a, x, siz) = IF a + x < siz THEN a + x ELSE a + x - siz
      /\ Place(a, x, siz) \in 0 .. siz - 1
  BY PlaceIs
<1>2. /\ Place(Place(a, x, siz), y, siz) = IF Place(a, x, siz) + y < siz THEN Place(a, x, siz) + y
                                            ELSE Place(a, x, siz) + y - siz
  BY <1>1, PlaceIs
<1>3. x + y \in 0 .. siz
  OBVIOUS
<1>4. Place(a, x + y, siz) = IF a + (x + y) < siz THEN a + (x + y) ELSE a + (x + y) - siz
  BY <1>3, PlaceIs
<1> QED
  BY <1>1, <1>2, <1>4

\* How far place x is behind place y.
LEMMA PlaceApart ==
    ASSUME NEW siz \in Nat \ {0}, NEW a \in 0 .. siz - 1, NEW x \in 0 .. siz - 1, NEW y \in 0 .. siz
    PROVE  (Place(a, x, siz) - Place(a, y, siz)) % siz = IF x < y THEN x - y + siz ELSE x - y
<1> DEFINE p == Place(a, x, siz)
           q == Place(a, y, siz)
<1>1. p = (IF a + x < siz THEN a + x ELSE a + x - siz) /\ p \in 0 .. siz - 1
  BY PlaceIs
<1>2. q = (IF a + y < siz THEN a + y ELSE a + y - siz) /\ q \in 0 .. siz - 1
  BY PlaceIs
<1> HIDE DEF p, q
<1>3. (p - q) % siz = IF p < q THEN p - q + siz ELSE p - q
  BY <1>1, <1>2
<1>4. (IF p < q THEN p - q + siz ELSE p - q) = IF x < y THEN x - y + siz ELSE x - y
  BY <1>1, <1>2
<1> QED
  BY <1>3, <1>4 DEF p, q

-----------------------------------------------------------------------------
(* Bytes before each command of a queue. *)

Sums(q, n, g) ==
    g = [i \in 0 .. n |-> IF i = 0 THEN 0 ELSE g[i - 1] + Length[q[i]]]

LEMMA CommandLength ==
    ASSUME NEW q \in Seq(Cmds), NEW i \in 1 .. Len(q)
    PROVE  q[i] \in Cmds /\ Length[q[i]] \in Nat /\ Length[q[i]] \in 2 .. PKT_RSND_BUFF_SIZ
<1>1. q[i] \in Cmds
  BY ElementOfSeq
<1> QED
  BY <1>1, CmdAssumption, BufferAssumption

LEMMA SumsExist ==
    ASSUME NEW q \in Seq(Cmds)
    PROVE  \A n \in 0 .. Len(q) : \E g \in [0 .. n -> Nat] : Sums(q, n, g)
<1> DEFINE T == {n \in 0 .. Len(q) : \E g \in [0 .. n -> Nat] : Sums(q, n, g)}
<1>0. Len(q) \in Nat
  BY LenProperties
<1>1. 0 \in T
  <2>1. [i \in 0 .. 0 |-> 0] \in [0 .. 0 -> Nat]
    OBVIOUS
  <2>2. Sums(q, 0, [i \in 0 .. 0 |-> 0])
    BY DEF Sums
  <2> QED
    BY <1>0, <2>1, <2>2
<1>2. ASSUME NEW n \in 1 .. Len(q), n - 1 \in T
      PROVE  n \in T
  <2>1. PICK g \in [0 .. n - 1 -> Nat] : Sums(q, n - 1, g)
    BY <1>2
  <2> DEFINE h == [i \in 0 .. n |-> IF i = n THEN g[n - 1] + Length[q[n]] ELSE g[i]]
  <2>2. h \in [0 .. n -> Nat]
    BY <1>0, CommandLength
  <2>3. \A i \in 0 .. n - 1 : g[i] = IF i = 0 THEN 0 ELSE g[i - 1] + Length[q[i]]
    BY <2>1, Zenon DEF Sums
  <2>4. h = [i \in 0 .. n |-> IF i = 0 THEN 0 ELSE h[i - 1] + Length[q[i]]]
    <3>1. \A i \in 0 .. n : h[i] = IF i = 0 THEN 0 ELSE h[i - 1] + Length[q[i]]
      BY <1>0, <2>3
    <3>2. h = [i \in 0 .. n |-> h[i]]
      OBVIOUS
    <3> HIDE DEF h
    <3> QED
      BY <3>1, <3>2, Zenon
  <2> HIDE DEF h
  <2>5. Sums(q, n, h)
    BY <2>4, Zenon DEF Sums
  <2>6. n \in 0 .. Len(q)
    BY <1>0
  <2> QED
    BY <2>2, <2>5, <2>6
<1> HIDE DEF T
<1>3. 0 .. Len(q) \subseteq T
  BY <1>0, <1>1, <1>2, UpTo
<1> QED
  BY <1>3 DEF T

LEMMA BeforeSums ==
    ASSUME NEW q \in Seq(Cmds)
    PROVE  Sums(q, Len(q), Before(q))
<1>1. \E g : g = [i \in 0 .. Len(q) |-> IF i = 0 THEN 0 ELSE g[i - 1] + Length[q[i]]]
  <2>1. Len(q) \in 0 .. Len(q)
    BY LenProperties
  <2> QED
    BY <2>1, SumsExist, Zenon DEF Sums
<1> QED
  BY <1>1, Zenon DEF Before, Sums

LEMMA OneSum ==
    ASSUME NEW q, NEW n \in Nat, NEW g, NEW h, Sums(q, n, g), Sums(q, n, h)
    PROVE  g = h
<1>1. \A i \in 0 .. n : /\ g[i] = IF i = 0 THEN 0 ELSE g[i - 1] + Length[q[i]]
                        /\ h[i] = IF i = 0 THEN 0 ELSE h[i - 1] + Length[q[i]]
  BY Zenon DEF Sums
<1> DEFINE T == {i \in 0 .. n : g[i] = h[i]}
<1>2. 0 \in T /\ \A i \in 1 .. n : i - 1 \in T => i \in T
  BY <1>1
<1>3. 0 .. n \subseteq T
  <2> HIDE DEF T
  <2> QED
    BY <1>2, UpTo
<1>4. \A i \in 0 .. n : g[i] = h[i]
  BY <1>3
<1>5. g = [i \in 0 .. n |-> g[i]] /\ h = [i \in 0 .. n |-> h[i]]
  BY Zenon DEF Sums
<1> QED
  BY <1>4, <1>5, Zenon

\* Every command has two bytes at least, so that the sums grow.
LEMMA BeforeGrows ==
    ASSUME NEW q \in Seq(Cmds)
    PROVE  /\ Before(q) \in [0 .. Len(q) -> Nat]
           /\ Before(q)[0] = 0
           /\ \A i \in 1 .. Len(q) : Before(q)[i] = Before(q)[i - 1] + Length[q[i]]
           /\ \A i \in 0 .. Len(q) : \A j \in i .. Len(q) : Before(q)[i] + 2 * (j - i) <= Before(q)[j]
<1>0. Len(q) \in Nat
  BY LenProperties
<1>1. PICK g \in [0 .. Len(q) -> Nat] : Sums(q, Len(q), g)
  BY <1>0, SumsExist
<1>2. g = Before(q)
  BY <1>0, <1>1, BeforeSums, OneSum
<1>3. \A i \in 0 .. Len(q) : g[i] = IF i = 0 THEN 0 ELSE g[i - 1] + Length[q[i]]
  BY <1>1, Zenon DEF Sums
<1>4. ASSUME NEW i \in 0 .. Len(q)
      PROVE  \A j \in i .. Len(q) : g[i] + 2 * (j - i) <= g[j]
  <2> DEFINE T == {k \in 0 .. Len(q) - i : g[i] + 2 * k <= g[i + k]}
  <2>1. Len(q) - i \in Nat
    BY <1>0
  <2>2. 0 \in T
    BY <1>0
  <2>3. \A k \in 1 .. Len(q) - i : k - 1 \in T => k \in T
    <3> SUFFICES ASSUME NEW k \in 1 .. Len(q) - i, k - 1 \in T
                 PROVE  k \in T
      OBVIOUS
    <3>1. i + k \in 1 .. Len(q) /\ (i + k) - 1 = i + (k - 1)
      BY <1>0
    <3>2. g[i + k] = g[i + (k - 1)] + Length[q[i + k]] /\ Length[q[i + k]] \in 2 .. PKT_RSND_BUFF_SIZ
      BY <1>0, <1>3, <3>1, CommandLength
    <3>3. g[i] \in Nat /\ g[i + k] \in Nat /\ g[i + (k - 1)] \in Nat
      BY <1>0, <1>1, <3>1
    <3>4. g[i] + 2 * (k - 1) <= g[i + (k - 1)] /\ Length[q[i + k]] \in Nat /\ Length[q[i + k]] >= 2
      BY <3>2, BufferAssumption
    <3>5. g[i] + 2 * k <= g[i + k]
      <4> DEFINE x == g[i]
                 y == g[i + k]
                 z == g[i + (k - 1)]
                 m == Length[q[i + k]]
      <4>1. x \in Nat /\ y \in Nat /\ z \in Nat /\ m \in Nat /\ m >= 2 /\ y = z + m /\ x + 2 * (k - 1) <= z
        BY <3>2, <3>3, <3>4
      <4> HIDE DEF x, y, z, m
      <4>2. x + 2 * k <= y
        BY <4>1
      <4> QED
        BY <4>2 DEF x, y
    <3> QED
      BY <1>0, <3>5
  <2> HIDE DEF T
  <2>4. 0 .. Len(q) - i \subseteq T
    BY <2>1, <2>2, <2>3, UpTo
  <2>5. \A j \in i .. Len(q) : j - i \in 0 .. Len(q) - i /\ i + (j - i) = j
    BY <1>0
  <2>6. \A j \in i .. Len(q) : g[i] + 2 * (j - i) <= g[i + (j - i)]
    BY <2>4, <2>5 DEF T
  <2> QED
    BY <2>5, <2>6
<1> QED
  BY <1>0, <1>1, <1>2, <1>3, <1>4

\* A command more.
LEMMA BeforeAppend ==
    ASSUME NEW q \in Seq(Cmds), NEW c \in Cmds
    PROVE  /\ Append(q, c) \in Seq(Cmds) /\ Len(Append(q, c)) = Len(q) + 1
           /\ \A i \in 1 .. Len(q) : Append(q, c)[i] = q[i]
           /\ Append(q, c)[Len(q) + 1] = c
           /\ \A i \in 0 .. Len(q) : Before(Append(q, c))[i] = Before(q)[i]
           /\ Before(Append(q, c))[Len(q) + 1] = Before(q)[Len(q)] + Length[c]
<1> DEFINE p == Append(q, c)
<1>0. Len(q) \in Nat
  BY LenProperties
<1>1. /\ p \in Seq(Cmds) /\ Len(p) = Len(q) + 1 /\ p[Len(q) + 1] = c
      /\ \A i \in 1 .. Len(q) : p[i] = q[i]
  BY AppendProperties
<1> HIDE DEF p
<1>2. /\ Before(q)[0] = 0 /\ Before(p)[0] = 0
      /\ \A i \in 1 .. Len(q) : Before(q)[i] = Before(q)[i - 1] + Length[q[i]]
      /\ \A i \in 1 .. Len(p) : Before(p)[i] = Before(p)[i - 1] + Length[p[i]]
  BY <1>1, BeforeGrows
<1> DEFINE T == {i \in 0 .. Len(q) : Before(p)[i] = Before(q)[i]}
<1>3. 0 \in T /\ \A i \in 1 .. Len(q) : i - 1 \in T => i \in T
  BY <1>0, <1>1, <1>2
<1>4. \A i \in 0 .. Len(q) : Before(p)[i] = Before(q)[i]
  <2>1. 0 .. Len(q) \subseteq T
    <3> HIDE DEF T
    <3> QED
      BY <1>0, <1>3, UpTo
  <2> QED
    BY <2>1
<1>5. Before(p)[Len(q) + 1] = Before(q)[Len(q)] + Length[c]
  <2>1. Len(q) + 1 \in 1 .. Len(p) /\ (Len(q) + 1) - 1 = Len(q) /\ Len(q) \in 0 .. Len(q)
    BY <1>0, <1>1
  <2> QED
    BY <1>1, <1>2, <1>4, <2>1
<1> QED
  BY <1>1, <1>4, <1>5 DEF p

\* The oldest command less.
LEMMA BeforeTail ==
    ASSUME NEW q \in Seq(Cmds), q # <<>>
    PROVE  /\ Tail(q) \in Seq(Cmds) /\ Len(Tail(q)) = Len(q) - 1
           /\ Head(q) = q[1]
           /\ \A i \in 1 .. Len(q) - 1 : Tail(q)[i] = q[i + 1]
           /\ \A i \in 0 .. Len(q) - 1 : Before(Tail(q))[i] = Before(q)[i + 1] - Length[q[1]]
<1> DEFINE p == Tail(q)
<1>0. Len(q) \in Nat \ {0} /\ q[1] \in Cmds /\ Length[q[1]] \in Nat
  <2>1. Len(q) \in Nat /\ Len(q) # 0
    BY LenProperties, EmptySeq, SeqEqual
  <2> QED
    BY <2>1, CommandLength
<1>1. /\ p \in Seq(Cmds) /\ Len(p) = Len(q) - 1
      /\ \A i \in 1 .. Len(q) - 1 : p[i] = q[i + 1]
  BY HeadTailProperties
<1>H. Head(q) = q[1]
  OBVIOUS
<1> HIDE DEF p
<1>2. /\ Before(q)[0] = 0 /\ Before(p)[0] = 0
      /\ Before(q) \in [0 .. Len(q) -> Nat] /\ Before(p) \in [0 .. Len(p) -> Nat]
      /\ \A i \in 1 .. Len(q) : Before(q)[i] = Before(q)[i - 1] + Length[q[i]]
      /\ \A i \in 1 .. Len(p) : Before(p)[i] = Before(p)[i - 1] + Length[p[i]]
  BY <1>1, BeforeGrows
<1> DEFINE T == {i \in 0 .. Len(q) - 1 : Before(p)[i] = Before(q)[i + 1] - Length[q[1]]}
<1>3. 0 \in T
  <2>1. Before(q)[1] = Before(q)[0] + Length[q[1]]
    BY <1>0, <1>2
  <2> QED
    BY <1>0, <1>2, <2>1
<1>4. ASSUME NEW i \in 1 .. Len(q) - 1, i - 1 \in T
      PROVE  i \in T
  <2>1. i \in 1 .. Len(p) /\ i + 1 \in 1 .. Len(q) /\ (i + 1) - 1 = i /\ (i - 1) + 1 = i
    BY <1>0, <1>1
  <2>2. Before(p)[i] = Before(p)[i - 1] + Length[q[i + 1]]
    BY <1>1, <1>2, <2>1
  <2>3. Before(q)[i + 1] = Before(q)[i] + Length[q[i + 1]]
    BY <1>2, <2>1
  <2>4. Before(p)[i - 1] = Before(q)[i] - Length[q[1]]
    BY <1>4, <2>1
  <2>5. Before(q)[i] \in Nat /\ Length[q[i + 1]] \in Nat
    BY <1>2, <2>1, CommandLength
  <2>6. Before(p)[i] = Before(q)[i + 1] - Length[q[1]]
    BY <1>0, <2>2, <2>3, <2>4, <2>5
  <2> QED
    BY <2>1, <2>6
<1>5. \A i \in 0 .. Len(q) - 1 : Before(p)[i] = Before(q)[i + 1] - Length[q[1]]
  <2>1. Len(q) - 1 \in Nat
    BY <1>0
  <2>2. 0 .. Len(q) - 1 \subseteq T
    <3> HIDE DEF T
    <3> QED
      BY <2>1, <1>3, <1>4, UpTo
  <2> QED
    BY <2>2
<1> QED
  BY <1>1, <1>H, <1>5 DEF p

\* Every command, its length bytes included, has an even number of bytes.
EvenLengths ==
    /\ \A c \in Cmds : Length[c] % 2 = 0
    /\ PKT_RSND_BUFF_SIZ % 2 = 0

LEMMA BeforeEven ==
    ASSUME EvenLengths, NEW q \in Seq(Cmds)
    PROVE  \A i \in 0 .. Len(q) : Before(q)[i] % 2 = 0
<1> DEFINE T == {i \in 0 .. Len(q) : Before(q)[i] % 2 = 0}
<1>0. Len(q) \in Nat
  BY LenProperties
<1>1. /\ Before(q)[0] = 0 /\ Before(q) \in [0 .. Len(q) -> Nat]
      /\ \A i \in 1 .. Len(q) : Before(q)[i] = Before(q)[i - 1] + Length[q[i]]
  BY BeforeGrows
<1>2. 0 \in T
  BY <1>0, <1>1
<1>3. ASSUME NEW i \in 1 .. Len(q), i - 1 \in T
      PROVE  i \in T
  <2>1. Length[q[i]] \in Nat /\ Length[q[i]] % 2 = 0
    BY CommandLength DEF EvenLengths
  <2>2. Before(q)[i - 1] \in Nat /\ Before(q)[i - 1] % 2 = 0 /\ Before(q)[i] = Before(q)[i - 1] + Length[q[i]]
    BY <1>0, <1>1, <1>3
  <2>3. Before(q)[i] % 2 = 0
    BY <2>1, <2>2
  <2> QED
    BY <1>0, <2>3
<1>4. 0 .. Len(q) \subseteq T
  <2> HIDE DEF T
  <2> QED
    BY <1>0, <1>2, <1>3, UpTo
<1> QED
  BY <1>4

-----------------------------------------------------------------------------
(* A ring, seen from its read pointer. *)

\* The byte x places behind the read pointer.
At(r, siz, x) == r.buff[Place(r.rp, x, siz)]

\* The byte x places behind place "at".
From(r, siz, at, x) == r.buff[Place(at, x, siz)]

LEMMA RingFields ==
    ASSUME NEW siz \in Nat \ {0}, NEW r \in Ring(siz)
    PROVE  /\ r.buff \in [0 .. siz - 1 -> Bytes]
           /\ r.rp \in 0 .. siz - 1 /\ r.wp \in 0 .. siz - 1
           /\ r.total \in 0 .. siz /\ r.count \in 0 .. siz
           /\ \A x \in 0 .. siz - 1 : At(r, siz, x) \in Bytes
<1>1. /\ r.buff \in [0 .. siz - 1 -> Bytes]
      /\ r.rp \in 0 .. siz - 1 /\ r.wp \in 0 .. siz - 1
      /\ r.total \in 0 .. siz /\ r.count \in 0 .. siz
  BY DEF Ring
<1>2. ASSUME NEW x \in 0 .. siz - 1
      PROVE  Place(r.rp, x, siz) \in 0 .. siz - 1
  <2>1. x \in 0 .. siz
    OBVIOUS
  <2> QED
    BY <1>1, <2>1, PlaceIs
<1> QED
  BY <1>1, <1>2 DEF At

\* What a command is appended to keeps its bytes, and the command's follow them.
LEMMA StoredAt ==
    ASSUME NEW siz \in Nat \ {0}, NEW r \in Ring(siz), NEW bytes \in Seq(Bytes),
           r.wp = Place(r.rp, r.total, siz), r.total + Len(bytes) <= siz, r.count < siz,
           NEW s, s = Stored(r, siz, bytes)
    PROVE  /\ s \in Ring(siz) /\ s.rp = r.rp
           /\ s.total = r.total + Len(bytes) /\ s.count = r.count + 1
           /\ s.wp = Place(s.rp, s.total, siz)
           /\ \A x \in 0 .. r.total - 1 : At(s, siz, x) = At(r, siz, x)
           /\ \A k \in 1 .. Len(bytes) : At(s, siz, r.total + k - 1) = bytes[k]
<1> DEFINE n == Len(bytes)
           Behind(a) == (a - r.wp) % siz
<1>1. /\ r.buff \in [0 .. siz - 1 -> Bytes]
      /\ r.rp \in 0 .. siz - 1 /\ r.wp \in 0 .. siz - 1
      /\ r.total \in 0 .. siz /\ r.count \in 0 .. siz
  BY RingFields
<1>2. n \in Nat /\ r.total + n <= siz /\ \A k \in 1 .. n : bytes[k] \in Bytes
  BY LenProperties, ElementOfSeq
<1> HIDE DEF n
<1>3. /\ s.rp = r.rp /\ s.wp = (r.wp + n) % siz /\ s.total = r.total + n /\ s.count = r.count + 1
      /\ s.buff = [a \in 0 .. siz - 1 |->
                     IF Behind(a) + 1 <= n THEN bytes[Behind(a) + 1] ELSE r.buff[a]]
  BY DEF Stored, n
<1>4. ASSUME NEW x \in 0 .. siz - 1
      PROVE  /\ Place(r.rp, x, siz) \in 0 .. siz - 1
             /\ Behind(Place(r.rp, x, siz)) = IF x < r.total THEN x - r.total + siz ELSE x - r.total
  <2>1. x \in 0 .. siz
    OBVIOUS
  <2>2. Place(r.rp, x, siz) \in 0 .. siz - 1
    BY <1>1, <2>1, PlaceIs
  <2>3. (Place(r.rp, x, siz) - Place(r.rp, r.total, siz)) % siz = IF x < r.total THEN x - r.total + siz ELSE x - r.total
    <3> DEFINE a == r.rp
               all == r.total
    <3>1. a \in 0 .. siz - 1 /\ all \in 0 .. siz
      BY <1>1
    <3> HIDE DEF a, all
    <3>2. (Place(a, x, siz) - Place(a, all, siz)) % siz = IF x < all THEN x - all + siz ELSE x - all
      BY <3>1, PlaceApart
    <3> QED
      BY <3>2 DEF a, all
  <2> QED
    BY <2>2, <2>3, Zenon
<1>5. s.wp = Place(s.rp, s.total, siz)
  <2>1. n \in 0 .. siz
    BY <1>1, <1>2
  <2>2. s.wp = Place(r.wp, n, siz)
    BY <1>3 DEF Place
  <2>3. r.total \in 0 .. siz /\ r.total + n <= siz /\ s.total = r.total + n
    BY <1>1, <1>2, <1>3
  <2>4. Place(Place(r.rp, r.total, siz), n, siz) = Place(r.rp, r.total + n, siz)
    BY <1>1, <2>1, <2>3, PlaceTwice
  <2> QED
    BY <1>3, <2>2, <2>3, <2>4
<1>6. \A a \in 0 .. siz - 1 : Behind(a) \in 0 .. siz - 1
  BY <1>1
<1> HIDE DEF Behind
<1>7. s.buff \in [0 .. siz - 1 -> Bytes]
  <2>1. ASSUME NEW a \in 0 .. siz - 1
        PROVE  (IF Behind(a) + 1 <= n THEN bytes[Behind(a) + 1] ELSE r.buff[a]) \in Bytes
    <3>1. Behind(a) + 1 <= n => Behind(a) + 1 \in 1 .. n
      <4> DEFINE b == Behind(a)
      <4>1. b \in Nat /\ n \in Nat
        BY <1>2, <1>6
      <4> HIDE DEF b
      <4>2. b + 1 <= n => b + 1 \in 1 .. n
        BY <4>1
      <4> QED
        BY <4>2 DEF b
    <3>2. r.buff[a] \in Bytes
      BY <1>1
    <3> QED
      BY <1>2, <3>1, <3>2
  <2> QED
    BY <1>3, <2>1
<1>8. s \in Ring(siz)
  <2>1. s.total \in 0 .. siz
    <3> DEFINE all == r.total
    <3>1. all \in Nat /\ n \in Nat /\ all + n <= siz /\ s.total = all + n
      BY <1>1, <1>2, <1>3
    <3> HIDE DEF all
    <3> QED
      BY <3>1
  <2>4. s.count \in 0 .. siz
    BY <1>1, <1>3
  <2>2. s.wp \in 0 .. siz - 1
    <3>1. s.rp \in 0 .. siz - 1
      BY <1>1, <1>3
    <3> QED
      BY <1>5, <2>1, <3>1, PlaceIs
  <2>3. s = [buff |-> s.buff, rp |-> s.rp, wp |-> s.wp, total |-> s.total, count |-> s.count]
    BY DEF Stored
  <2> QED
    BY <1>1, <1>3, <1>7, <2>1, <2>2, <2>3, <2>4 DEF Ring
<1>9. ASSUME NEW x \in 0 .. r.total - 1
      PROVE  At(s, siz, x) = At(r, siz, x)
  <2>1. x \in 0 .. siz - 1 /\ x < r.total
    BY <1>1
  <2>2. Place(r.rp, x, siz) \in 0 .. siz - 1 /\ Behind(Place(r.rp, x, siz)) = x - r.total + siz
    BY <1>4, <2>1
  <2>3. ~ (Behind(Place(r.rp, x, siz)) + 1 <= n)
    BY <1>1, <1>2, <2>1, <2>2
  <2>4. s.buff[Place(r.rp, x, siz)] = r.buff[Place(r.rp, x, siz)]
    BY <1>3, <2>2, <2>3
  <2> QED
    BY <1>3, <2>4 DEF At
<1>10. ASSUME NEW k \in 1 .. n
       PROVE  At(s, siz, r.total + k - 1) = bytes[k]
  <2> DEFINE x == r.total + k - 1
  <2>1. x \in 0 .. siz - 1 /\ ~ (x < r.total) /\ x - r.total + 1 = k
    <3> DEFINE all == r.total
    <3>1. all \in Nat /\ n \in Nat /\ all + n <= siz
      BY <1>1, <1>2
    <3> HIDE DEF all
    <3>2. /\ all + k - 1 \in 0 .. siz - 1 /\ ~ (all + k - 1 < all)
          /\ (all + k - 1) - all + 1 = k
      BY <3>1
    <3> QED
      BY <3>2 DEF all
  <2> HIDE DEF x
  <2>2. Place(r.rp, x, siz) \in 0 .. siz - 1 /\ Behind(Place(r.rp, x, siz)) = x - r.total
    BY <1>4, <2>1
  <2>3. Behind(Place(r.rp, x, siz)) + 1 = k
    BY <2>1, <2>2
  <2>4. s.buff[Place(r.rp, x, siz)] = bytes[k]
    BY <1>2, <1>3, <2>2, <2>3
  <2>5. At(s, siz, x) = bytes[k]
    BY <1>3, <2>4 DEF At
  <2> QED
    BY <2>5 DEF x
<1> QED
  BY <1>3, <1>5, <1>8, <1>9, <1>10 DEF n

\* Dropping n bytes moves the rest up.
LEMMA DroppedAt ==
    ASSUME NEW siz \in Nat \ {0}, NEW r \in Ring(siz), r.count \in Nat \ {0, 1},
           r.wp = Place(r.rp, r.total, siz), NEW n \in 1 .. r.total,
           NEW s, s = Dropped(r, siz, n)
    PROVE  /\ s \in Ring(siz) /\ s.rp = Place(r.rp, n, siz)
           /\ s.total = r.total - n /\ s.count = r.count - 1
           /\ s.wp = Place(s.rp, s.total, siz)
           /\ \A x \in 0 .. r.total - n - 1 : At(s, siz, x) = At(r, siz, x + n)
<1>1. /\ r.buff \in [0 .. siz - 1 -> Bytes]
      /\ r.rp \in 0 .. siz - 1 /\ r.wp \in 0 .. siz - 1
      /\ r.total \in 0 .. siz /\ r.count \in 0 .. siz
  BY RingFields
<1>2. /\ s.buff = Forgot(r, siz, n) /\ s.rp = Place(r.rp, n, siz) /\ s.wp = r.wp
      /\ s.total = r.total - n /\ s.count = r.count - 1
  BY DEF Dropped, Ring, Place
<1>F. s.buff \in [0 .. siz - 1 -> Bytes]
  <2>1. \A a \in 0 .. siz - 1 : r.buff[a] \in Bytes /\ <<NoCmd, 0>> \in Bytes
    BY <1>1 DEF Bytes
  <2> QED
    BY <1>2, <2>1 DEF Forgot
\* Only the n bytes are forgotten.
<1>K. ASSUME NEW y \in n .. r.total - 1
      PROVE  s.buff[Place(r.rp, y, siz)] = r.buff[Place(r.rp, y, siz)]
  <2>1. y \in 0 .. siz - 1 /\ y \in 0 .. siz /\ 0 \in 0 .. siz /\ ~ (y < 0) /\ y - 0 = y /\ ~ (y < n)
    BY <1>1
  <2>2. Place(r.rp, y, siz) \in 0 .. siz - 1
    BY <1>1, <2>1, PlaceIs
  <2>3. Place(r.rp, 0, siz) = r.rp
    <3>1. r.rp + 0 < siz /\ r.rp + 0 = r.rp
      BY <1>1
    <3> QED
      BY <1>1, <2>1, <3>1, PlaceIs
  <2>4. (Place(r.rp, y, siz) - r.rp) % siz = y
    <3>1. (Place(r.rp, y, siz) - Place(r.rp, 0, siz)) % siz = IF y < 0 THEN y - 0 + siz ELSE y - 0
      BY <1>1, <2>1, PlaceApart
    <3> QED
      BY <2>1, <2>3, <3>1
  <2> QED
    BY <1>2, <2>1, <2>2, <2>4 DEF Forgot
<1>3. n \in 0 .. siz /\ s.rp \in 0 .. siz - 1
  <2>1. n \in 0 .. siz
    BY <1>1
  <2> QED
    BY <1>1, <1>2, <2>1, PlaceIs
<1>4. ASSUME NEW x \in 0 .. r.total - n
      PROVE  Place(s.rp, x, siz) = Place(r.rp, x + n, siz)
  <2>1. x \in 0 .. siz /\ n + x <= siz /\ n + x = x + n
    BY <1>1
  <2>2. Place(Place(r.rp, n, siz), x, siz) = Place(r.rp, n + x, siz)
    <3> DEFINE a == r.rp
    <3>1. a \in 0 .. siz - 1 /\ n \in 0 .. siz
      BY <1>1, <1>3
    <3> HIDE DEF a
    <3>2. Place(Place(a, n, siz), x, siz) = Place(a, n + x, siz)
      BY <2>1, <3>1, PlaceTwice
    <3> QED
      BY <3>2 DEF a
  <2> QED
    BY <1>2, <2>1, <2>2
<1>5. s.wp = Place(s.rp, s.total, siz)
  <2>1. r.total - n \in 0 .. r.total - n /\ (r.total - n) + n = r.total
    BY <1>1
  <2> QED
    BY <1>2, <1>4, <2>1
<1>6. s \in Ring(siz)
  <2>1. s.total \in 0 .. siz /\ s.count \in 0 .. siz
    BY <1>1, <1>2
  <2>2. s = [buff |-> s.buff, rp |-> s.rp, wp |-> s.wp, total |-> s.total, count |-> s.count]
    BY DEF Dropped, Ring
  <2> QED
    BY <1>1, <1>2, <1>3, <1>F, <2>1, <2>2 DEF Ring
<1>7. ASSUME NEW x \in 0 .. r.total - n - 1
      PROVE  At(s, siz, x) = At(r, siz, x + n)
  <2>1. x \in 0 .. r.total - n /\ x + n \in n .. r.total - 1
    BY <1>1
  <2>2. Place(s.rp, x, siz) = Place(r.rp, x + n, siz)
    BY <1>4, <2>1
  <2> QED
    BY <1>K, <2>1, <2>2 DEF At
<1> QED
  BY <1>2, <1>5, <1>6, <1>7

\* Ring r holds the commands of q, oldest first, and starts at an even place
\* when all lengths are even.
Laid(r, siz, q) ==
    /\ q \in Seq(Cmds) /\ r \in Ring(siz)
    /\ r.count = Len(q) /\ r.total = Before(q)[Len(q)]
    /\ r.wp = Place(r.rp, r.total, siz)
    /\ q = <<>> => r.rp = 0
    /\ EvenLengths => r.rp % 2 = 0
    /\ \A i \in 1 .. Len(q) : \A k \in 1 .. Length[q[i]] :
          At(r, siz, Before(q)[i - 1] + k - 1) = <<q[i], k>>

LEMMA ImageIs ==
    ASSUME NEW c \in Cmds
    PROVE  /\ Image(c) \in Seq(Bytes) /\ Len(Image(c)) = Length[c] /\ Length[c] \in Nat /\ Length[c] >= 2
           /\ Length[c] <= PKT_RSND_BUFF_SIZ
           /\ \A k \in 1 .. Length[c] : Image(c)[k] = <<c, k>> /\ <<c, k>> \in Bytes
<1>1. Length[c] \in Nat /\ Length[c] >= 2 /\ Length[c] <= PKT_RSND_BUFF_SIZ
  BY CmdAssumption, BufferAssumption
<1>2. \A k \in 1 .. Length[c] : <<c, k>> \in Bytes
  BY <1>1, BufferAssumption DEF Bytes
<1>3. Image(c) \in Seq(Bytes)
  BY <1>1, <1>2, IsASeq DEF Image
<1>4. Len(Image(c)) = Length[c]
  BY <1>1 DEF Image
<1> QED
  BY <1>1, <1>2, <1>3, <1>4 DEF Image

\* Where the bytes of the i-th command are.
LEMMA LaidFacts ==
    ASSUME NEW siz \in Nat \ {0}, NEW r, NEW q, Laid(r, siz, q), NEW i \in 1 .. Len(q)
    PROVE  /\ Len(q) \in Nat /\ q[i] \in Cmds /\ Length[q[i]] \in Nat /\ Length[q[i]] >= 2
           /\ Before(q)[i - 1] \in Nat /\ Before(q)[i] = Before(q)[i - 1] + Length[q[i]]
           /\ Before(q)[i] <= r.total /\ r.total \in 0 .. siz
<1>1. q \in Seq(Cmds) /\ r \in Ring(siz) /\ r.total = Before(q)[Len(q)]
  BY DEF Laid
<1>2. Len(q) \in Nat
  BY <1>1, LenProperties
<1>3. /\ Before(q) \in [0 .. Len(q) -> Nat]
      /\ Before(q)[i] = Before(q)[i - 1] + Length[q[i]]
      /\ \A j \in i .. Len(q) : Before(q)[i] + 2 * (j - i) <= Before(q)[j]
  <2>1. i \in 0 .. Len(q)
    OBVIOUS
  <2> QED
    BY <1>1, <2>1, BeforeGrows
<1>4. q[i] \in Cmds
  BY <1>1, CommandLength
<1>5. Before(q)[i] <= Before(q)[Len(q)]
  <2>1. Len(q) \in i .. Len(q) /\ i \in 0 .. Len(q) /\ Len(q) \in 0 .. Len(q)
    BY <1>2
  <2>2. Before(q)[i] \in Nat /\ Before(q)[Len(q)] \in Nat
    BY <1>3, <2>1
  <2>3. Before(q)[i] + 2 * (Len(q) - i) <= Before(q)[Len(q)]
    BY <1>3, <2>1
  <2> QED
    BY <1>2, <2>2, <2>3
<1>6. i - 1 \in 0 .. Len(q)
  BY <1>2
<1> QED
  BY <1>1, <1>2, <1>3, <1>4, <1>5, <1>6, ImageIs, RingFields

LEMMA LaidEmpty ==
    ASSUME NEW siz \in Nat \ {0}
    PROVE  Laid(Empty(siz), siz, <<>>)
<1>1. <<>> \in Seq(Cmds) /\ Len(<<>>) = 0 /\ Before(<<>>)[0] = 0
  BY EmptySeq, BeforeGrows
<1>2. Empty(siz) \in Ring(siz)
  BY DEF Empty, Ring, Bytes
<1>3. /\ Empty(siz).count = 0 /\ Empty(siz).total = 0 /\ Empty(siz).wp = 0 /\ Empty(siz).rp = 0
  BY DEF Empty
<1>4. Place(0, 0, siz) = 0
  BY PlaceIs
<1>5. 0 % 2 = 0
  OBVIOUS
<1> QED
  BY <1>1, <1>2, <1>3, <1>4, <1>5 DEF Laid

LEMMA LaidStored ==
    ASSUME NEW siz \in Nat \ {0}, NEW r, NEW q, Laid(r, siz, q), NEW c \in Cmds,
           r.total + Length[c] <= siz, NEW s, s = Stored(r, siz, Image(c))
    PROVE  /\ Laid(s, siz, Append(q, c))
           /\ s.rp = r.rp /\ s.total = r.total + Length[c]
           /\ \A x \in 0 .. r.total - 1 : At(s, siz, x) = At(r, siz, x)
           /\ \A k \in 1 .. Length[c] : At(s, siz, r.total + k - 1) = <<c, k>>
<1> DEFINE p == Append(q, c)
<1>1. /\ q \in Seq(Cmds) /\ r \in Ring(siz) /\ Len(q) \in Nat
      /\ r.count = Len(q) /\ r.total = Before(q)[Len(q)] /\ r.wp = Place(r.rp, r.total, siz)
      /\ (EvenLengths => r.rp % 2 = 0)
      /\ \A i \in 1 .. Len(q) : \A k \in 1 .. Length[q[i]] : At(r, siz, Before(q)[i - 1] + k - 1) = <<q[i], k>>
  BY LenProperties DEF Laid
<1>2. /\ Image(c) \in Seq(Bytes) /\ Len(Image(c)) = Length[c] /\ Length[c] \in Nat /\ Length[c] >= 2
      /\ \A k \in 1 .. Length[c] : Image(c)[k] = <<c, k>>
  BY ImageIs
<1>3. r.count < siz
  <2>1. 0 \in 0 .. Len(q) /\ Len(q) \in 0 .. Len(q)
    BY <1>1
  <2>2. Before(q)[0] = 0 /\ Before(q)[0] + 2 * (Len(q) - 0) <= Before(q)[Len(q)]
    BY <1>1, <2>1, BeforeGrows
  <2>3. r.total \in Nat
    BY <1>1, RingFields
  <2> QED
    BY <1>1, <1>2, <2>2, <2>3
<1>4. /\ s \in Ring(siz) /\ s.rp = r.rp
      /\ s.total = r.total + Length[c] /\ s.count = r.count + 1
      /\ s.wp = Place(s.rp, s.total, siz)
      /\ \A x \in 0 .. r.total - 1 : At(s, siz, x) = At(r, siz, x)
      /\ \A k \in 1 .. Length[c] : At(s, siz, r.total + k - 1) = <<c, k>>
  <2> DEFINE im == Image(c)
  <2>1. /\ im \in Seq(Bytes) /\ Len(im) = Length[c] /\ r.total + Len(im) <= siz
        /\ s = Stored(r, siz, im) /\ \A k \in 1 .. Length[c] : im[k] = <<c, k>>
    BY <1>2
  <2> HIDE DEF im
  <2>2. /\ s \in Ring(siz) /\ s.rp = r.rp
        /\ s.total = r.total + Len(im) /\ s.count = r.count + 1
        /\ s.wp = Place(s.rp, s.total, siz)
        /\ \A x \in 0 .. r.total - 1 : At(s, siz, x) = At(r, siz, x)
        /\ \A k \in 1 .. Len(im) : At(s, siz, r.total + k - 1) = im[k]
    BY <1>1, <1>3, <2>1, StoredAt
  <2> QED
    BY <2>1, <2>2
<1>5. /\ p \in Seq(Cmds) /\ Len(p) = Len(q) + 1 /\ p[Len(q) + 1] = c
      /\ \A i \in 1 .. Len(q) : p[i] = q[i]
      /\ \A i \in 0 .. Len(q) : Before(p)[i] = Before(q)[i]
      /\ Before(p)[Len(q) + 1] = Before(q)[Len(q)] + Length[c]
  BY <1>1, BeforeAppend
<1> HIDE DEF p
<1>6. ASSUME NEW i \in 1 .. Len(p), NEW k \in 1 .. Length[p[i]]
      PROVE  At(s, siz, Before(p)[i - 1] + k - 1) = <<p[i], k>>
  <2>1. CASE i = Len(q) + 1
    <3>1. i - 1 = Len(q) /\ Len(q) \in 0 .. Len(q)
      BY <1>1, <2>1
    <3> QED
      BY <1>1, <1>4, <1>5, <2>1, <3>1
  <2>2. CASE i # Len(q) + 1
    <3>1. i \in 1 .. Len(q) /\ i - 1 \in 0 .. Len(q)
      BY <1>1, <1>5, <2>2
    <3>2. p[i] = q[i] /\ Before(p)[i - 1] = Before(q)[i - 1]
      BY <1>5, <3>1
    <3>3. At(r, siz, Before(q)[i - 1] + k - 1) = <<q[i], k>>
      BY <1>1, <3>1, <3>2
    <3>4. /\ Length[q[i]] \in Nat /\ Before(q)[i - 1] \in Nat
          /\ Before(q)[i - 1] + Length[q[i]] <= r.total /\ r.total \in 0 .. siz
      BY <3>1, LaidFacts
    <3>5. Before(q)[i - 1] + k - 1 \in 0 .. r.total - 1
      <4> DEFINE b == Before(q)[i - 1]
                 m == Length[q[i]]
                 all == r.total
      <4>1. b \in Nat /\ m \in Nat /\ all \in Nat /\ b + m <= all /\ k \in 1 .. m
        BY <3>2, <3>4
      <4> HIDE DEF b, m, all
      <4>2. b + k - 1 \in 0 .. all - 1
        BY <4>1
      <4> QED
        BY <4>2 DEF b, all
    <3> QED
      BY <1>4, <3>2, <3>3, <3>5
  <2> QED
    BY <2>1, <2>2
<1>7. p # <<>>
  BY <1>1, <1>5
<1>8. s.count = Len(p) /\ s.total = Before(p)[Len(p)] /\ (EvenLengths => s.rp % 2 = 0)
  BY <1>1, <1>4, <1>5
<1>9. Laid(s, siz, p)
  BY <1>4, <1>5, <1>6, <1>7, <1>8 DEF Laid
<1> QED
  BY <1>4, <1>9 DEF p

\* The i-th command, and where it starts.
LEMMA LaidPlace ==
    ASSUME NEW siz \in Nat \ {0},
           NEW r, NEW q, Laid(r, siz, q), NEW i \in 1 .. Len(q),
           NEW b, b = Before(q)[i - 1], NEW c, c = q[i],
           NEW at, at = Place(r.rp, b, siz)
    PROVE  /\ c \in Cmds /\ Length[c] \in Nat /\ Length[c] >= 2 /\ b \in Nat /\ b + Length[c] <= siz
           /\ r.rp \in 0 .. siz - 1
           /\ \A k \in 1 .. Length[c] : At(r, siz, b + k - 1) = <<c, k>>
           /\ at \in 0 .. siz - 1
           /\ \A k \in 1 .. Length[c] : From(r, siz, at, k - 1) = <<c, k>>
<1>1. /\ c \in Cmds /\ Length[c] \in Nat /\ Length[c] >= 2 /\ b \in Nat
      /\ b + Length[c] <= siz
  <2>1. /\ q[i] \in Cmds /\ Length[q[i]] \in Nat /\ Length[q[i]] >= 2
        /\ Before(q)[i - 1] \in Nat /\ Before(q)[i] = Before(q)[i - 1] + Length[q[i]]
        /\ Before(q)[i] <= r.total /\ r.total \in 0 .. siz
    BY LaidFacts
  <2> QED
    BY <2>1
<1>2. /\ r.rp \in 0 .. siz - 1
      /\ \A k \in 1 .. Length[c] : At(r, siz, b + k - 1) = <<c, k>>
  BY RingFields DEF Laid
<1>4. at \in 0 .. siz - 1 /\ at = IF r.rp + b < siz THEN r.rp + b ELSE r.rp + b - siz
  <2>1. b \in 0 .. siz
    BY <1>1
  <2> QED
    BY <1>2, <2>1, PlaceIs
<1>5. ASSUME NEW k \in 1 .. Length[c]
      PROVE  From(r, siz, at, k - 1) = <<c, k>>
  <2>1. k - 1 \in 0 .. siz /\ b \in 0 .. siz /\ b + (k - 1) <= siz /\ b + (k - 1) = b + k - 1
    BY <1>1
  <2>2. Place(Place(r.rp, b, siz), k - 1, siz) = Place(r.rp, b + (k - 1), siz)
    BY <1>2, <2>1, PlaceTwice
  <2>3. Place(at, k - 1, siz) = Place(r.rp, b + k - 1, siz)
    BY <2>1, <2>2
  <2>4. At(r, siz, b + k - 1) = <<c, k>>
    BY <1>2
  <2> QED
    BY <2>3, <2>4 DEF At, From
<1> QED
  BY <1>1, <1>2, <1>4, <1>5

\* The length of the i-th command is read as it is; it lies in one piece when all
\* lengths are even.
LEMMA LaidSize ==
    ASSUME NEW siz \in Nat \ {0}, NEW r, NEW q, Laid(r, siz, q), NEW i \in 1 .. Len(q),
           NEW at, at = Place(r.rp, Before(q)[i - 1], siz)
    PROVE  /\ Size(r, at) = Length[q[i]]
           /\ EvenLengths /\ siz % 2 = 0 => Readable(r, siz, at)
<1> DEFINE b == Before(q)[i - 1]
           c == q[i]
<1>0. b = Before(q)[i - 1] /\ c = q[i] /\ at = Place(r.rp, b, siz)
  OBVIOUS
<1> HIDE DEF b, c
<1>1. /\ c \in Cmds /\ Length[c] \in Nat /\ Length[c] >= 2 /\ at \in 0 .. siz - 1
      /\ b \in Nat /\ b + Length[c] <= siz /\ r.rp \in 0 .. siz - 1
      /\ \A k \in 1 .. Length[c] : From(r, siz, at, k - 1) = <<c, k>>
  BY <1>0, LaidPlace
<1>2. r.buff[at] = <<c, 1>> /\ r.buff[(at + 1) % siz] = <<c, 2>>
  <2>1. 1 \in 1 .. Length[c] /\ 2 \in 1 .. Length[c] /\ 1 - 1 = 0 /\ 2 - 1 = 1
    BY <1>1
  <2>2. Place(at, 0, siz) = at
    <3>1. 0 \in 0 .. siz /\ at + 0 = at /\ at < siz
      BY <1>1
    <3> QED
      BY <1>1, <3>1, PlaceIs
  <2>3. Place(at, 1, siz) = (at + 1) % siz
    BY DEF Place
  <2> QED
    BY <1>1, <2>1, <2>2, <2>3 DEF From
<1>3. Size(r, at) = Length[c]
  <2>1. <<c, 1>>[1] = c
    OBVIOUS
  <2> QED
    BY <1>2, <2>1 DEF Size
<1>4. ASSUME EvenLengths, siz % 2 = 0
      PROVE  Readable(r, siz, at)
  <2>1. b % 2 = 0
    <3>1. q \in Seq(Cmds) /\ i - 1 \in 0 .. Len(q)
      BY LenProperties DEF Laid
    <3> QED
      BY <1>0, <1>4, <3>1, BeforeEven
  <2>2. at = IF r.rp + b < siz THEN r.rp + b ELSE r.rp + b - siz
    <3>1. b \in 0 .. siz
      BY <1>1
    <3> QED
      BY <1>0, <1>1, <3>1, PlaceIs
  <2>3. r.rp % 2 = 0
    BY <1>4 DEF Laid
  <2>4. (r.rp + b) % 2 = 0 /\ (r.rp + b - siz) % 2 = 0
    <3> DEFINE a == r.rp
    <3>1. a \in Nat /\ b \in Nat /\ siz \in Nat /\ a % 2 = 0
      BY <1>1, <2>3
    <3> HIDE DEF a
    <3>2. (a + b) % 2 = 0 /\ (a + b - siz) % 2 = 0
      BY <1>4, <2>1, <3>1, EvenSum
    <3> QED
      BY <3>2 DEF a
  <2>5. at % 2 = 0
    BY <2>2, <2>4
  <2>6. at + 1 < siz
    BY <1>1, <1>4, <2>5
  <2>7. (at + 1) % siz = at + 1
    <3>1. at + 1 \in Nat /\ at + 1 < siz
      BY <1>1, <2>6
    <3> QED
      BY <3>1
  <2> QED
    BY <1>1, <1>2, <2>6, <2>7 DEF Readable
<1> QED
  BY <1>3, <1>4 DEF c

\* And so is the command.
LEMMA LaidCopied ==
    ASSUME NEW siz \in Nat \ {0},
           NEW r, NEW q, Laid(r, siz, q), NEW i \in 1 .. Len(q),
           NEW at, at = Place(r.rp, Before(q)[i - 1], siz)
    PROVE  /\ Copied(r, siz, at, Length[q[i]]) = Image(q[i])
           /\ Copied(r, siz, r.rp + Before(q)[i - 1], Length[q[i]]) = Image(q[i])
<1> DEFINE b == Before(q)[i - 1]
           c == q[i]
<1>0. b = Before(q)[i - 1] /\ c = q[i] /\ at = Place(r.rp, b, siz)
  OBVIOUS
<1> HIDE DEF b, c
<1>1. /\ Length[c] \in Nat /\ b \in Nat /\ at \in 0 .. siz - 1 /\ r.rp \in 0 .. siz - 1
      /\ \A k \in 1 .. Length[c] : At(r, siz, b + k - 1) = <<c, k>>
      /\ \A k \in 1 .. Length[c] : From(r, siz, at, k - 1) = <<c, k>>
  BY <1>0, LaidPlace
<1> DEFINE a == r.rp
<1>2. a \in 0 .. siz - 1 /\ \A k \in 1 .. Length[c] : r.buff[Place(a, b + k - 1, siz)] = <<c, k>>
  BY <1>1 DEF At
<1> HIDE DEF a
<1>3. \A k \in 1 .. Length[c] : at + k - 1 = at + (k - 1) /\ a + b + k - 1 = a + (b + k - 1)
  BY <1>1, <1>2
<1>4. Copied(r, siz, at, Length[c]) = Image(c)
  BY <1>1, <1>3 DEF Copied, Image, Place, From
<1>5. Copied(r, siz, a + b, Length[c]) = Image(c)
  BY <1>2, <1>3 DEF Copied, Image, Place
<1> QED
  BY <1>4, <1>5 DEF a, b, c

\* What the module says of a ring.
LEMMA LaidHolds ==
    ASSUME NEW siz \in Nat \ {0}, NEW r, NEW q, Laid(r, siz, q)
    PROVE  Holds(r, siz, q)
<1>1. \A i \in 1 .. Len(q) : Copied(r, siz, r.rp + Before(q)[i - 1], Length[q[i]]) = Image(q[i])
  BY LaidCopied
<1>2. /\ r.count = Len(q) /\ r.total = Before(q)[Len(q)] /\ r.wp = (r.rp + r.total) % siz
      /\ q = <<>> => r.rp = 0
  BY DEF Laid, Place
<1> QED
  BY <1>1, <1>2, Zenon DEF Holds

LEMMA LaidDropped ==
    ASSUME NEW siz \in Nat \ {0}, EvenLengths => siz % 2 = 0,
           NEW r, NEW q, Laid(r, siz, q), q # <<>>,
           NEW s, s = Dropped(r, siz, Length[q[1]])
    PROVE  /\ Laid(s, siz, Tail(q))
           /\ s.total = r.total - Length[q[1]]
           /\ \A x \in 0 .. r.total - Length[q[1]] - 1 : At(s, siz, x) = At(r, siz, x + Length[q[1]])
<1> DEFINE n == Length[q[1]]
           p == Tail(q)
<1>1. /\ q \in Seq(Cmds) /\ r \in Ring(siz) /\ Len(q) \in Nat
      /\ r.count = Len(q) /\ r.total = Before(q)[Len(q)] /\ r.wp = Place(r.rp, r.total, siz)
      /\ (EvenLengths => r.rp % 2 = 0)
      /\ \A i \in 1 .. Len(q) : \A k \in 1 .. Length[q[i]] : At(r, siz, Before(q)[i - 1] + k - 1) = <<q[i], k>>
  BY LenProperties DEF Laid
<1>2. Len(q) # 0
  BY <1>1, EmptySeq, SeqEqual
<1>3. /\ p \in Seq(Cmds) /\ Len(p) = Len(q) - 1
      /\ \A i \in 1 .. Len(q) - 1 : p[i] = q[i + 1]
      /\ \A i \in 0 .. Len(q) - 1 : Before(p)[i] = Before(q)[i + 1] - n
  BY <1>1, BeforeTail
<1>4. /\ n \in Nat /\ n >= 2 /\ n <= r.total /\ r.total \in 0 .. siz /\ Before(q)[1] = n
      /\ (EvenLengths => n % 2 = 0)
  <2>1. /\ q[1] \in Cmds /\ Length[q[1]] \in Nat /\ Length[q[1]] >= 2
        /\ Before(q)[1] = Before(q)[1 - 1] + Length[q[1]]
        /\ Before(q)[1] <= r.total /\ r.total \in 0 .. siz
    BY <1>1, <1>2, LaidFacts
  <2>2. 1 - 1 = 0 /\ Before(q)[0] = 0
    BY <1>1, BeforeGrows
  <2>3. Before(q)[1] = Length[q[1]]
    BY <2>1, <2>2
  <2> QED
    BY <2>1, <2>3 DEF EvenLengths
<1> HIDE DEF n, p
<1>5. CASE Len(q) = 1
  <2>1. s = Empty(siz) /\ s.total = 0
    BY <1>1, <1>5 DEF Dropped, Empty
  <2>2. p = <<>>
    BY <1>3, <1>5, EmptySeq, SeqEqual
  <2>3. r.total = n
    BY <1>1, <1>4, <1>5
  <2>4. Laid(s, siz, p)
    BY <2>1, <2>2, LaidEmpty
  <2>5. \A x \in 0 .. r.total - n - 1 : FALSE
    BY <1>4, <2>3
  <2>6. s.total = r.total - n
    BY <1>4, <2>1, <2>3
  <2> QED
    BY <2>4, <2>5, <2>6 DEF n, p
<1>6. CASE Len(q) # 1
  <2>1. r.count \in Nat \ {0, 1} /\ n \in 1 .. r.total
    BY <1>1, <1>2, <1>4, <1>6
  <2>2. s = Dropped(r, siz, n)
    BY DEF n
  <2>3. /\ s \in Ring(siz) /\ s.rp = Place(r.rp, n, siz)
        /\ s.total = r.total - n /\ s.count = r.count - 1
        /\ s.wp = Place(s.rp, s.total, siz)
        /\ \A x \in 0 .. r.total - n - 1 : At(s, siz, x) = At(r, siz, x + n)
    <3>1. r \in Ring(siz) /\ r.wp = Place(r.rp, r.total, siz)
      BY <1>1
    <3> HIDE DEF Laid, n
    <3> QED
      BY <2>1, <2>2, <3>1, DroppedAt
  <2>4. ASSUME EvenLengths
        PROVE  s.rp % 2 = 0
    <3>1. r.rp \in 0 .. siz - 1 /\ n \in 0 .. siz
      <4>1. r.rp \in 0 .. siz - 1
        BY <1>1, RingFields
      <4>2. n \in 0 .. siz
        BY <1>4
      <4> QED
        BY <4>1, <4>2
    <3>2. s.rp = IF r.rp + n < siz THEN r.rp + n ELSE r.rp + n - siz
      BY <2>3, <3>1, PlaceIs
    <3>3. (r.rp + n) % 2 = 0 /\ (r.rp + n - siz) % 2 = 0
      <4> DEFINE a == r.rp
      <4>1. /\ a \in Nat /\ siz \in Nat /\ n \in Nat
            /\ a % 2 = 0 /\ siz % 2 = 0 /\ n % 2 = 0
        BY <1>1, <1>4, <2>4, <3>1
      <4> HIDE DEF a, n
      <4>2. (a + n) % 2 = 0 /\ (a + n - siz) % 2 = 0
        BY <4>1, EvenSum
      <4> QED
        BY <4>2 DEF a
    <3> QED
      BY <3>2, <3>3
  <2>5. p # <<>>
    BY <1>1, <1>2, <1>3, <1>6
  <2>6. s.count = Len(p) /\ s.total = Before(p)[Len(p)]
    <3>1. Len(q) - 1 \in 0 .. Len(q) - 1 /\ (Len(q) - 1) + 1 = Len(q)
      BY <1>1, <1>2
    <3> QED
      BY <1>1, <1>3, <2>3, <3>1
  <2>7. ASSUME NEW i \in 1 .. Len(p), NEW k \in 1 .. Length[p[i]]
        PROVE  At(s, siz, Before(p)[i - 1] + k - 1) = <<p[i], k>>
    <3>1. i \in 1 .. Len(q) - 1 /\ i + 1 \in 1 .. Len(q) /\ i - 1 \in 0 .. Len(q) - 1 /\ (i - 1) + 1 = i /\ (i + 1) - 1 = i
      BY <1>1, <1>3
    <3>2. p[i] = q[i + 1] /\ Before(p)[i - 1] = Before(q)[i] - n
      BY <1>3, <3>1
    <3>3. At(r, siz, Before(q)[i] + k - 1) = <<p[i], k>>
      BY <1>1, <3>1, <3>2
    <3>4. /\ Length[p[i]] \in Nat /\ Before(q)[i] \in Nat
          /\ Before(q)[i] + Length[p[i]] <= r.total
      <4>1. /\ Length[q[i + 1]] \in Nat /\ Before(q)[(i + 1) - 1] \in Nat
            /\ Before(q)[i + 1] = Before(q)[(i + 1) - 1] + Length[q[i + 1]]
            /\ Before(q)[i + 1] <= r.total
        <5> HIDE DEF p, n
        <5> QED
          BY <3>1, LaidFacts
      <4> QED
        BY <3>1, <3>2, <4>1
    <3>5. Before(p)[i - 1] \in Nat
      <4>1. Before(p) \in [0 .. Len(p) -> Nat]
        BY <1>3, BeforeGrows
      <4>2. i - 1 \in 0 .. Len(p)
        BY <1>1, <1>3
      <4> QED
        BY <4>1, <4>2
    <3>6. Before(p)[i - 1] + k - 1 \in 0 .. r.total - n - 1
      <4>1. k \in 1 .. Length[p[i]] /\ r.total \in Nat
        BY <1>4
      <4> QED
        <5> DEFINE b == Before(q)[i]
                   m == Length[p[i]]
                   d == Before(p)[i - 1]
                   all == r.total
        <5>1. b \in Nat /\ m \in Nat /\ d \in Nat /\ d = b - n /\ b + m <= all /\ k \in 1 .. m
          BY <3>2, <3>4, <3>5
        <5>2. n \in Nat /\ all \in Nat
          BY <1>4, <4>1
        <5> HIDE DEF b, m, d, all
        <5>3. d + k - 1 \in 0 .. all - n - 1
          BY <5>1, <5>2
        <5> QED
          BY <5>3 DEF d, all
    <3>7. (Before(p)[i - 1] + k - 1) + n = Before(q)[i] + k - 1
      BY <1>4, <3>2, <3>4
    <3> QED
      BY <2>3, <3>3, <3>6, <3>7
  <2>8. Laid(s, siz, p)
    BY <1>3, <2>3, <2>4, <2>5, <2>6, <2>7 DEF Laid
  <2> QED
    BY <2>3, <2>8 DEF n, p
<1> QED
  BY <1>5, <1>6

-----------------------------------------------------------------------------
(* All bytes of a queue's commands. *)

\* The first n bytes that ring r holds.
Run(r, siz, n) == [x \in 1 .. n |-> At(r, siz, x - 1)]

\* Command by command.
LEMMA RunGrows ==
    ASSUME NEW siz \in Nat \ {0}, NEW r, NEW q, Laid(r, siz, q), NEW i \in 1 .. Len(q)
    PROVE  /\ Run(r, siz, Before(q)[i]) = Run(r, siz, Before(q)[i - 1]) \o Image(q[i])
           /\ Run(r, siz, Before(q)[i]) \in Seq(Bytes)
<1> DEFINE b == Before(q)[i - 1]
           n == Length[q[i]]
           im == Image(q[i])
           s == Run(r, siz, b)
           t == Run(r, siz, b + n)
<1>1. /\ q \in Seq(Cmds) /\ r \in Ring(siz)
      /\ \A k \in 1 .. n : At(r, siz, b + k - 1) = <<q[i], k>>
  BY DEF Laid
<1>2. b \in Nat /\ n \in Nat /\ b + n <= siz
  <2>1. /\ Length[q[i]] \in Nat /\ Before(q)[i - 1] \in Nat
        /\ Before(q)[i] = Before(q)[i - 1] + Length[q[i]]
        /\ Before(q)[i] <= r.total /\ r.total \in 0 .. siz
    BY LaidFacts
  <2> QED
    BY <2>1
<1>3. im \in Seq(Bytes) /\ Len(im) = n /\ \A k \in 1 .. n : im[k] = <<q[i], k>>
  BY <1>1, CommandLength, ImageIs
<1>4. \A k \in 1 .. n : At(r, siz, b + k - 1) = <<q[i], k>>
  BY <1>1
<1>5. \A x \in 1 .. b + n : At(r, siz, x - 1) \in Bytes
  <2>1. \A x \in 1 .. b + n : x - 1 \in 0 .. siz - 1
    BY <1>2
  <2> QED
    BY <1>1, <2>1, RingFields
<1> HIDE DEF b, n, im
<1>6. s \in Seq(Bytes) /\ Len(s) = b /\ \A x \in 1 .. b : s[x] = At(r, siz, x - 1)
  <2>1. \A x \in 1 .. b : At(r, siz, x - 1) \in Bytes
    BY <1>2, <1>5
  <2>2. s \in Seq(Bytes)
    BY <1>2, <2>1, IsASeq DEF Run
  <2>3. Len(s) = b
    BY <1>2 DEF Run
  <2> QED
    BY <2>2, <2>3 DEF Run
<1>7. t \in Seq(Bytes) /\ Len(t) = b + n /\ \A x \in 1 .. b + n : t[x] = At(r, siz, x - 1)
  <2>1. b + n \in Nat
    BY <1>2
  <2>2. t \in Seq(Bytes)
    BY <1>5, <2>1, IsASeq DEF Run
  <2>3. Len(t) = b + n
    BY <2>1 DEF Run
  <2> QED
    BY <2>2, <2>3 DEF Run
<1> HIDE DEF s, t
<1>8. /\ s \o im \in Seq(Bytes) /\ Len(s \o im) = b + n
      /\ \A x \in 1 .. b + n : (s \o im)[x] = IF x <= b THEN s[x] ELSE im[x - b]
  BY <1>3, <1>6, ConcatProperties
<1>9. ASSUME NEW x \in 1 .. b + n
      PROVE  t[x] = (s \o im)[x]
  <2>1. CASE x <= b
    <3>1. x \in 1 .. b
      BY <1>2, <2>1
    <3> QED
      BY <1>6, <1>7, <1>8, <2>1, <3>1
  <2>2. CASE ~ (x <= b)
    <3>1. x - b \in 1 .. n /\ b + (x - b) - 1 = x - 1
      BY <1>2, <2>2
    <3>2. (s \o im)[x] = <<q[i], x - b>>
      BY <1>3, <1>8, <2>2, <3>1
    <3>3. At(r, siz, b + (x - b) - 1) = <<q[i], x - b>>
      BY <1>4, <3>1
    <3> QED
      BY <1>7, <3>1, <3>2, <3>3
  <2> QED
    BY <2>1, <2>2
<1>10. t = s \o im
  <2> DEFINE u == s \o im
  <2>1. u \in Seq(Bytes) /\ Len(t) = Len(u) /\ \A x \in 1 .. Len(t) : t[x] = u[x]
    BY <1>7, <1>8, <1>9
  <2> HIDE DEF u
  <2>2. t = u
    BY <1>7, <2>1, SeqEqual
  <2> QED
    BY <2>2 DEF u
<1>11. Before(q)[i] = b + n
  BY LaidFacts DEF b, n
<1> QED
  BY <1>7, <1>10, <1>11 DEF im, s, t, b

Flats(q, f) == f = [i \in 0 .. Len(q) |-> IF i = 0 THEN <<>> ELSE f[i - 1] \o Image(q[i])]

LEMMA OneFlat ==
    ASSUME NEW q \in Seq(Cmds), NEW g, NEW h, Flats(q, g), Flats(q, h)
    PROVE  g = h
<1>0. Len(q) \in Nat
  BY LenProperties
<1>1. \A i \in 0 .. Len(q) : /\ g[i] = IF i = 0 THEN <<>> ELSE g[i - 1] \o Image(q[i])
                             /\ h[i] = IF i = 0 THEN <<>> ELSE h[i - 1] \o Image(q[i])
  BY Zenon DEF Flats
<1> DEFINE T == {i \in 0 .. Len(q) : g[i] = h[i]}
<1>2. 0 \in T
  BY <1>0, <1>1
<1>3. ASSUME NEW i \in 1 .. Len(q), i - 1 \in T
      PROVE  i \in T
  <2>1. i \in 0 .. Len(q) /\ i # 0 /\ g[i - 1] = h[i - 1]
    BY <1>0, <1>3
  <2>2. g[i] = g[i - 1] \o Image(q[i]) /\ h[i] = h[i - 1] \o Image(q[i])
    BY <1>1, <2>1, Zenon
  <2>3. g[i] = h[i]
    BY <2>1, <2>2, Zenon
  <2> QED
    BY <2>1, <2>3
<1>4. \A i \in 0 .. Len(q) : g[i] = h[i]
  <2>1. 0 .. Len(q) \subseteq T
    <3> HIDE DEF T
    <3> QED
      BY <1>0, <1>2, <1>3, UpTo
  <2> QED
    BY <2>1
<1>5. g = [i \in 0 .. Len(q) |-> g[i]] /\ h = [i \in 0 .. Len(q) |-> h[i]]
  BY Zenon DEF Flats
<1> QED
  BY <1>4, <1>5, Zenon

\* They are what the ring holds.
LEMMA LaidFlat ==
    ASSUME NEW siz \in Nat \ {0}, NEW r, NEW q, Laid(r, siz, q)
    PROVE  Flat(q) = Run(r, siz, r.total)
<1> DEFINE g == [i \in 0 .. Len(q) |-> Run(r, siz, Before(q)[i])]
<1>1. /\ q \in Seq(Cmds) /\ r \in Ring(siz) /\ Len(q) \in Nat /\ r.total = Before(q)[Len(q)]
      /\ Before(q)[0] = 0
      /\ \A i \in 1 .. Len(q) : \A k \in 1 .. Length[q[i]] : At(r, siz, Before(q)[i - 1] + k - 1) = <<q[i], k>>
  BY LenProperties, BeforeGrows DEF Laid
<1>2. g[0] = <<>>
  <2>1. g[0] = Run(r, siz, 0)
    BY <1>1
  <2>2. Run(r, siz, 0) = <<>>
    BY DEF Run
  <2> QED
    BY <2>1, <2>2
<1>3. ASSUME NEW i \in 1 .. Len(q)
      PROVE  g[i] = g[i - 1] \o Image(q[i])
  <2>1. i \in 0 .. Len(q) /\ i - 1 \in 0 .. Len(q)
    BY <1>1
  <2>2. g[i] = Run(r, siz, Before(q)[i]) /\ g[i - 1] = Run(r, siz, Before(q)[i - 1])
    BY <2>1
  <2>3. Run(r, siz, Before(q)[i]) = Run(r, siz, Before(q)[i - 1]) \o Image(q[i])
    BY RunGrows
  <2> HIDE DEF g
  <2> QED
    BY <2>2, <2>3, Zenon
<1>4. Flats(q, g)
  <2>1. \A i \in 0 .. Len(q) : g[i] = IF i = 0 THEN <<>> ELSE g[i - 1] \o Image(q[i])
    <3> SUFFICES ASSUME NEW i \in 0 .. Len(q)
                 PROVE  g[i] = IF i = 0 THEN <<>> ELSE g[i - 1] \o Image(q[i])
      OBVIOUS
    <3> HIDE DEF g
    <3>1. i = 0 \/ i \in 1 .. Len(q)
      BY <1>1
    <3>2. i \in 1 .. Len(q) => i # 0
      OBVIOUS
    <3> QED
      BY <1>2, <1>3, <3>1, <3>2, Zenon
  <2>2. g = [i \in 0 .. Len(q) |-> g[i]]
    OBVIOUS
  <2> HIDE DEF g
  <2>3. g = [i \in 0 .. Len(q) |-> IF i = 0 THEN <<>> ELSE g[i - 1] \o Image(q[i])]
    BY <2>1, <2>2, Zenon
  <2> QED
    BY <2>3, Zenon DEF Flats
<1>5. g[Len(q)] = Run(r, siz, r.total)
  <2>1. Len(q) \in 0 .. Len(q)
    BY <1>1
  <2> QED
    BY <1>1, <2>1
<1> HIDE DEF g
<1>6. \E f : Flats(q, f) /\ Flat(q) = f[Len(q)]
  BY <1>4, Zenon DEF Flat, Flats
<1>7. PICK f : Flats(q, f) /\ Flat(q) = f[Len(q)]
  BY <1>6
<1>8. f = g
  BY <1>1, <1>4, <1>7, OneFlat
<1> QED
  BY <1>5, <1>7, <1>8

-----------------------------------------------------------------------------
(* The invariant. *)

\* Command d lies in the work area that command c of task t was edited in: it is c,
\* or one of the other task.
Lies(area, d, t, c) ==
    /\ WorkOf[d] = WorkOf[c]
    /\ d # c => d \in CmdsOf[Other(t)]
    /\ \A k \in 1 .. Length[d] : area[k] = <<d, k>>

\* There is a whole command in the work area of one that waits for room.
CallInv ==
    \A t \in Tasks : call[t].pc = "wait" =>
        /\ call[t].cmd \in CmdsOf[t]
        /\ \E d \in Cmds : Lies(work[WorkOf[call[t].cmd]], d, t, call[t].cmd)

\* The packet task does not switch while it builds a packet.
TurnInv == job.pc # "none" => turn = PKT /\ call[PKT].pc = "idle"

\* Two tasks edit commands of different lengths in one work area.
Mixable ==
    \E c \in CmdsOf[OPE], d \in CmdsOf[PKT] : WorkOf[c] = WorkOf[d] /\ Length[c] # Length[d]

\* What goes wrong, and when it can.
HarmCaused ==
    /\ harm = "split" => ~ EvenLengths
    /\ harm = "mixed" => Mixable

\* A new packet consists of the last commands of the resend ring, from the (j + 1)st on.
EndsWith(j) ==
    /\ Len(packet) = rsnd_add_cmd.total - Before(rque)[j]
    /\ \A x \in 1 .. Len(packet) : packet[x] = At(rsnd_add_cmd, PKT_RSND_BUFF_SIZ, Before(rque)[j] + x - 1)

NewPacket ==
    /\ job.pc = "store" => \E c \in Cmds : job.item = Image(c) /\ Len(packet) + Length[c] <= PKT_RSND_BUFF_SIZ
    /\ \E j \in 0 .. Len(rque) : EndsWith(j)

\* A resent packet consists of the first commands of the resend ring.
ResentPacket ==
    /\ job.pc = "read" /\ job.num <= Len(rque)
    /\ job.at = Place(rsnd_add_cmd.rp, Before(rque)[job.num], PKT_RSND_BUFF_SIZ)
    /\ packet = Run(rsnd_add_cmd, PKT_RSND_BUFF_SIZ, Before(rque)[job.num])

JobInv == job.pc # "none" => IF job.type = "S" THEN NewPacket ELSE ResentPacket

\* As long as no command of another length has been mixed in.
Sound ==
    /\ TypeOK
    /\ Laid(snd_buf, PKT_BUFF_SIZ, sque)
    /\ Laid(rsnd_add_cmd, PKT_RSND_BUFF_SIZ, rque)
    /\ CallInv
    /\ TurnInv
    /\ JobInv

\* Then the send ring is within its bounds and the resend ring is as it was.
IInv ==
    /\ TypeOK
    /\ Laid(rsnd_add_cmd, PKT_RSND_BUFF_SIZ, rque)
    /\ HarmCaused
    /\ harm # "mixed" => Sound

CallType == [pc : {"idle", "wait"}, cmd : Cmds \cup {NoCmd}, tries : 0 .. RETRY]
JobType == [pc : {"none", "read", "store"}, type : {"S", "A"}, num : Nat,
            at : 0 .. PKT_RSND_BUFF_SIZ, item : Seq(Bytes)]

HarmType == {"none", "mixed", "split"}

LEMMA SizeFacts ==
    /\ PKT_RSND_BUFF_SIZ \in Nat \ {0} /\ PKT_BUFF_SIZ \in Nat \ {0}
    /\ PKT_BUFF_SIZ = PKT_RSND_BUFF_SIZ + 2 /\ RETRY \in Nat \ {0}
    /\ EvenLengths => PKT_RSND_BUFF_SIZ % 2 = 0 /\ PKT_BUFF_SIZ % 2 = 0
BY BufferAssumption DEF EvenLengths

\* The rings' part of the type invariant follows from what they hold.
LEMMA TypesFrom ==
    ASSUME work' \in [Works -> [1 .. PKT_RSND_BUFF_SIZ -> Bytes]], turn' \in Tasks,
           call' \in [Tasks -> CallType], job' \in JobType, packet' \in Seq(Bytes), harm' \in HarmType,
           snd_buf' \in Ring(PKT_BUFF_SIZ), sque' \in Seq(Cmds), Laid(rsnd_add_cmd, PKT_RSND_BUFF_SIZ, rque)'
    PROVE  TypeOK'
BY DEF TypeOK, Laid, CallType, JobType, HarmType

LEMMA Types ==
    ASSUME Sound
    PROVE  /\ work \in [Works -> [1 .. PKT_RSND_BUFF_SIZ -> Bytes]] /\ turn \in Tasks
           /\ call \in [Tasks -> CallType] /\ job \in JobType /\ packet \in Seq(Bytes)
           /\ Laid(snd_buf, PKT_BUFF_SIZ, sque) /\ Laid(rsnd_add_cmd, PKT_RSND_BUFF_SIZ, rque)
           /\ snd_buf \in Ring(PKT_BUFF_SIZ) /\ sque \in Seq(Cmds)
           /\ CallInv /\ TurnInv /\ JobInv /\ harm \in HarmType
BY DEF Sound, TypeOK, CallType, JobType, HarmType

\* Only the calls, the turn and the send ring change.
LEMMA JobStays ==
    ASSUME JobInv, UNCHANGED <<job, packet, rsnd_add_cmd, rque>>
    PROVE  JobInv'
BY DEF JobInv, NewPacket, ResentPacket, EndsWith, At, Run

LEMMA CallsStay ==
    ASSUME CallInv, UNCHANGED <<call, work>>
    PROVE  CallInv'
BY DEF CallInv

LEMMA TurnStays ==
    ASSUME TurnInv, job.pc # "none" \/ job'.pc = "none", UNCHANGED <<turn, call>>
    PROVE  TurnInv'
BY DEF TurnInv

\* A task that acts while no packet is built.
LEMMA NoPacket ==
    ASSUME Sound, NEW t \in Tasks, Free(t) \/ Back(t)
    PROVE  job.pc = "none"
<1>1. TurnInv
  BY Types
<1> QED
  BY <1>1, CmdAssumption DEF TurnInv, Free, Back, Tasks

LEMMA CallFields ==
    ASSUME NEW x \in CallType
    PROVE  /\ x.pc \in {"idle", "wait"} /\ x.cmd \in Cmds \cup {NoCmd} /\ x.tries \in 0 .. RETRY
           /\ \A n \in 0 .. RETRY : [x EXCEPT !.tries = n] \in CallType
           /\ \A n : [x EXCEPT !.tries = n].pc = x.pc /\ [x EXCEPT !.tries = n].cmd = x.cmd
BY DEF CallType

LEMMA CallMade ==
    /\ NoCall.pc = "idle"
    /\ NoCall \in CallType
    /\ \A c \in Cmds : [pc |-> "wait", cmd |-> c, tries |-> 1] \in CallType
<1>1. 0 \in 0 .. RETRY /\ 1 \in 0 .. RETRY
  BY SizeFacts
<1> QED
  BY <1>1 DEF CallType, NoCall

\* What lies in the work area is appended to the send ring, in the length of command c.
LEMMA InsertKeeps ==
    ASSUME Sound, harm = "none", NEW t \in Tasks, NEW c \in Cmds, NEW d \in Cmds,
           NEW area \in [1 .. PKT_RSND_BUFF_SIZ -> Bytes],
           \A k \in 1 .. Length[d] : area[k] = <<d, k>>, Fits(c), Insert(t, c, area)
    PROVE  /\ sque' = Append(sque, d) /\ sque' \in Seq(Cmds) /\ snd_buf' \in Ring(PKT_BUFF_SIZ)
           /\ call' = [call EXCEPT ![t] = NoCall] /\ call' \in [Tasks -> CallType] /\ turn' = turn
           /\ harm' \in {"none", "mixed"}
           /\ harm' = "none" => Laid(snd_buf, PKT_BUFF_SIZ, sque)'
           /\ Length[c] = Length[d] => harm' = "none"
<1> DEFINE bytes == [k \in 1 .. Length[c] |-> area[k]]
<1>1. /\ Length[c] \in Nat /\ Length[c] >= 2 /\ Length[c] <= PKT_RSND_BUFF_SIZ
      /\ Length[d] \in Nat /\ Length[d] >= 2
      /\ Len(Image(d)) = Length[d] /\ \A k \in 1 .. Length[d] : Image(d)[k] = <<d, k>>
  BY ImageIs
<1>2. area[1][1] = d
  <2>1. 1 \in 1 .. Length[d]
    BY <1>1
  <2> QED
    BY <2>1
<1>3. /\ snd_buf' = Stored(snd_buf, PKT_BUFF_SIZ, bytes) /\ sque' = Append(sque, d)
      /\ harm' = IF bytes = Image(d) THEN harm ELSE "mixed"
      /\ call' = [call EXCEPT ![t] = NoCall] /\ turn' = turn
  BY <1>2 DEF Insert
<1>4. call' \in [Tasks -> CallType] /\ sque' \in Seq(Cmds)
  BY <1>3, Types, CallMade, AppendProperties
<1>5. /\ snd_buf.total + Length[c] <= PKT_BUFF_SIZ
      /\ PKT_BUFF_SIZ \in Nat \ {0} /\ Laid(snd_buf, PKT_BUFF_SIZ, sque)
  BY Types, SizeFacts DEF Fits
<1>6. bytes \in Seq(Bytes) /\ Len(bytes) = Length[c]
  <2>1. \A k \in 1 .. Length[c] : area[k] \in Bytes
    BY <1>1, SizeFacts
  <2>2. bytes \in Seq(Bytes)
    BY <1>1, <2>1, IsASeq
  <2>3. Len(bytes) = Length[c]
    BY <1>1
  <2> QED
    BY <2>2, <2>3
<1>7. bytes = Image(d) <=> Length[c] = Length[d]
  <2>1. ASSUME Length[c] = Length[d]
        PROVE  bytes = Image(d)
    BY <2>1 DEF Image
  <2>2. ASSUME bytes = Image(d)
        PROVE  Length[c] = Length[d]
    <3> HIDE DEF bytes
    <3> QED
      BY <1>1, <1>6, <2>2
  <2> QED
    BY <2>1, <2>2
<1> HIDE DEF bytes
<1>8. snd_buf' \in Ring(PKT_BUFF_SIZ)
  <2>1. /\ snd_buf \in Ring(PKT_BUFF_SIZ) /\ sque \in Seq(Cmds) /\ Len(sque) \in Nat
        /\ snd_buf.count = Len(sque) /\ snd_buf.total = Before(sque)[Len(sque)]
        /\ snd_buf.wp = Place(snd_buf.rp, snd_buf.total, PKT_BUFF_SIZ)
    BY <1>5, LenProperties DEF Laid
  <2>2. snd_buf.total \in Nat
    BY <1>5, <2>1, RingFields
  <2>3. snd_buf.count < PKT_BUFF_SIZ
    <3>1. 0 \in 0 .. Len(sque) /\ Len(sque) \in 0 .. Len(sque)
      BY <2>1
    <3>2. Before(sque)[0] = 0 /\ Before(sque)[0] + 2 * (Len(sque) - 0) <= Before(sque)[Len(sque)]
      BY <2>1, <3>1, BeforeGrows
    <3> QED
      BY <1>1, <1>5, <2>1, <2>2, <3>2
  <2>4. snd_buf.total + Len(bytes) <= PKT_BUFF_SIZ
    BY <1>5, <1>6
  <2> QED
    BY <1>3, <1>5, <1>6, <2>1, <2>3, <2>4, StoredAt
<1>9. ASSUME harm' = "none"
      PROVE  Laid(snd_buf', PKT_BUFF_SIZ, sque')
  <2>1. bytes = Image(d) /\ Length[c] = Length[d]
    BY <1>3, <1>7, <1>9
  <2>2. /\ snd_buf' = Stored(snd_buf, PKT_BUFF_SIZ, Image(d))
        /\ snd_buf.total + Length[d] <= PKT_BUFF_SIZ
    BY <1>3, <1>5, <2>1
  <2> QED
    BY <1>3, <1>5, <2>2, LaidStored
<1> QED
  BY <1>3, <1>4, <1>7, <1>8, <1>9

\* A step of a task between packets: the job is none.
LEMMA CallTypes ==
    ASSUME Sound, job.pc = "none", UNCHANGED <<rsnd_add_cmd, job, packet, rque>>,
           work' \in [Works -> [1 .. PKT_RSND_BUFF_SIZ -> Bytes]], turn' \in Tasks,
           call' \in [Tasks -> CallType], harm' \in HarmType,
           snd_buf' \in Ring(PKT_BUFF_SIZ), sque' \in Seq(Cmds), CallInv',
           harm' # "mixed" => Laid(snd_buf, PKT_BUFF_SIZ, sque)',
           harm' # "split", harm' = "mixed" => Mixable
    PROVE  IInv'
<1>1. /\ Laid(rsnd_add_cmd, PKT_RSND_BUFF_SIZ, rque)' /\ job' \in JobType /\ packet' \in Seq(Bytes)
      /\ JobInv' /\ TurnInv'
  BY Types, JobStays DEF TurnInv
<1>2. TypeOK'
  BY <1>1, TypesFrom
<1> QED
  BY <1>1, <1>2 DEF IInv, Sound, HarmCaused

LEMMA SwitchKeeps ==
    ASSUME Sound, NEW t \in Tasks, Switch(t)
    PROVE  IInv'
<1>1. turn' \in Tasks /\ job.pc = "none"
  BY NoPacket DEF Switch, Other, Tasks
<1>2. UNCHANGED <<snd_buf, rsnd_add_cmd, work, call, job, packet, sque, rque, harm>>
  BY DEF Switch
<1>3. CallInv'
  BY <1>2, Types, CallsStay
<1>4. /\ work' \in [Works -> [1 .. PKT_RSND_BUFF_SIZ -> Bytes]]
      /\ call' \in [Tasks -> CallType] /\ harm' \in HarmType
      /\ snd_buf' \in Ring(PKT_BUFF_SIZ) /\ sque' \in Seq(Cmds)
      /\ Laid(snd_buf, PKT_BUFF_SIZ, sque)' /\ harm' = "none"
  BY <1>2, Types DEF Switch, Free
<1> QED
  BY <1>1, <1>2, <1>3, <1>4, CallTypes

\* Editing a command leaves a whole one in every work area that a command waits in.
LEMMA EditKeeps ==
    ASSUME Sound, NEW t \in Tasks, NEW c \in Cmds, PKTcmd(t, c)
    PROVE  /\ Edited(c) \in [1 .. PKT_RSND_BUFF_SIZ -> Bytes]
           /\ \A k \in 1 .. Length[c] : Edited(c)[k] = <<c, k>>
           /\ work' \in [Works -> [1 .. PKT_RSND_BUFF_SIZ -> Bytes]]
           /\ work'[WorkOf[c]] = Edited(c)
           /\ \A u \in Tasks : call[u].pc = "wait" =>
                 call[u].cmd \in CmdsOf[u] /\ \E d \in Cmds : Lies(work'[WorkOf[call[u].cmd]], d, u, call[u].cmd)
<1>1. call[t].pc = "idle" /\ c \in CmdsOf[t] /\ work' = [work EXCEPT ![WorkOf[c]] = Edited(c)]
  BY DEF PKTcmd, Free
<1>2. Length[c] \in Nat /\ Length[c] <= PKT_RSND_BUFF_SIZ /\ \A k \in 1 .. Length[c] : <<c, k>> \in Bytes
  BY ImageIs
<1>3. WorkOf[c] \in Works
  BY DEF Works
<1>4. Edited(c) \in [1 .. PKT_RSND_BUFF_SIZ -> Bytes] /\ \A k \in 1 .. Length[c] : Edited(c)[k] = <<c, k>>
  <2>1. work[WorkOf[c]] \in [1 .. PKT_RSND_BUFF_SIZ -> Bytes]
    BY <1>3, Types
  <2>2. \A k \in 1 .. PKT_RSND_BUFF_SIZ : (IF k <= Length[c] THEN <<c, k>> ELSE work[WorkOf[c]][k]) \in Bytes
    BY <1>2, <2>1, BufferAssumption
  <2>3. \A k \in 1 .. Length[c] : k \in 1 .. PKT_RSND_BUFF_SIZ /\ k <= Length[c]
    BY <1>2, BufferAssumption
  <2> QED
    BY <2>2, <2>3 DEF Edited
<1>5. work' \in [Works -> [1 .. PKT_RSND_BUFF_SIZ -> Bytes]] /\ work'[WorkOf[c]] = Edited(c)
  BY <1>1, <1>3, <1>4, Types
<1>6. ASSUME NEW u \in Tasks, call[u].pc = "wait"
      PROVE  call[u].cmd \in CmdsOf[u] /\ \E d \in Cmds : Lies(work'[WorkOf[call[u].cmd]], d, u, call[u].cmd)
  <2>1. u # t /\ t = Other(u)
    BY <1>1, <1>6 DEF Tasks, Other
  <2>2. call[u].cmd \in CmdsOf[u] /\ \E d \in Cmds : Lies(work[WorkOf[call[u].cmd]], d, u, call[u].cmd)
    BY <1>6, Types DEF CallInv
  <2> DEFINE e == call[u].cmd
  <2>3. e \in Cmds /\ WorkOf[e] \in Works
    <3>1. e \in Cmds
      BY <2>2, CmdAssumption
    <3> QED
      BY <3>1 DEF Works
  <2> HIDE DEF e
  <2>4. CASE WorkOf[c] = WorkOf[e]
    <3>1. work'[WorkOf[e]] = Edited(c)
      BY <1>5, <2>4
    <3>2. Lies(Edited(c), c, u, e)
      BY <1>1, <1>4, <2>1, <2>4 DEF Lies
    <3> QED
      BY <2>2, <3>1, <3>2 DEF e
  <2>5. CASE WorkOf[c] # WorkOf[e]
    <3>1. work'[WorkOf[e]] = work[WorkOf[e]]
      BY <1>1, <1>3, <2>3, <2>5, Types
    <3> QED
      BY <2>2, <3>1 DEF e
  <2> QED
    BY <2>4, <2>5
<1> QED
  BY <1>4, <1>5, <1>6

LEMMA PKTcmdKeeps ==
    ASSUME Sound, NEW t \in Tasks, NEW c \in Cmds, PKTcmd(t, c)
    PROVE  IInv'
<1>1. /\ call[t].pc = "idle" /\ c \in CmdsOf[t] /\ job.pc = "none" /\ harm = "none"
      /\ UNCHANGED <<rsnd_add_cmd, job, packet, rque>>
  <2>1. Free(t)
    BY DEF PKTcmd
  <2> QED
    BY <2>1, NoPacket DEF PKTcmd, Free
<1>2. /\ Edited(c) \in [1 .. PKT_RSND_BUFF_SIZ -> Bytes] /\ \A k \in 1 .. Length[c] : Edited(c)[k] = <<c, k>>
      /\ work' \in [Works -> [1 .. PKT_RSND_BUFF_SIZ -> Bytes]] /\ work'[WorkOf[c]] = Edited(c)
      /\ \A u \in Tasks : call[u].pc = "wait" =>
            call[u].cmd \in CmdsOf[u] /\ \E d \in Cmds : Lies(work'[WorkOf[call[u].cmd]], d, u, call[u].cmd)
  BY EditKeeps
<1>3. CASE Fits(c) /\ Insert(t, c, Edited(c))
  <2>1. /\ sque' \in Seq(Cmds) /\ snd_buf' \in Ring(PKT_BUFF_SIZ)
        /\ call' = [call EXCEPT ![t] = NoCall] /\ call' \in [Tasks -> CallType] /\ turn' = turn
        /\ harm' = "none" /\ Laid(snd_buf, PKT_BUFF_SIZ, sque)'
    BY <1>1, <1>2, <1>3, InsertKeeps
  <2>2. CallInv'
    <3>1. \A u \in Tasks : call'[u].pc = "wait" => call'[u] = call[u]
      BY <2>1, Types, CallMade
    <3> QED
      BY <1>2, <3>1 DEF CallInv
  <2>3. turn' \in Tasks /\ harm' \in HarmType
    BY <2>1, Types DEF HarmType
  <2> QED
    BY <1>1, <1>2, <2>1, <2>2, <2>3, CallTypes
<1>4. CASE /\ call' = [call EXCEPT ![t] = [pc |-> "wait", cmd |-> c, tries |-> 1]]
           /\ turn' = Other(t) /\ UNCHANGED <<snd_buf, sque, harm>>
  <2>1. call' \in [Tasks -> CallType]
    BY <1>4, Types, CallMade
  <2>2. turn' \in Tasks /\ harm' \in HarmType /\ harm' = "none"
    BY <1>1, <1>4 DEF Other, Tasks, HarmType
  <2>3. Laid(snd_buf, PKT_BUFF_SIZ, sque)' /\ snd_buf' \in Ring(PKT_BUFF_SIZ) /\ sque' \in Seq(Cmds)
    BY <1>4, Types
  <2>4. CallInv'
    <3>1. ASSUME NEW u \in Tasks, call'[u].pc = "wait"
          PROVE  /\ call'[u].cmd \in CmdsOf[u]
                 /\ \E d \in Cmds : Lies(work'[WorkOf[call'[u].cmd]], d, u, call'[u].cmd)
      <4>1. CASE u = t
        <5>1. call'[u].cmd = c
          BY <1>4, <4>1, Types
        <5>2. Lies(work'[WorkOf[c]], c, t, c)
          BY <1>2 DEF Lies
        <5> QED
          BY <1>1, <4>1, <5>1, <5>2
      <4>2. CASE u # t
        <5>1. call'[u] = call[u]
          BY <1>4, <4>2, Types
        <5> QED
          BY <1>2, <3>1, <5>1
      <4> QED
        BY <4>1, <4>2
    <3> QED
      BY <3>1 DEF CallInv
  <2> QED
    BY <1>1, <1>2, <2>1, <2>2, <2>3, <2>4, CallTypes
<1> QED
  BY <1>3, <1>4 DEF PKTcmd

\* The copy of a call that waited: of the command of its caller, or of one of the other
\* task's, and a length that is not that one's is two tasks' commands in one area.
LEMMA RetryCopies ==
    ASSUME Sound, NEW t \in Tasks, NEW c \in Cmds, c = call[t].cmd, SetSendCommandRetry(t),
           Fits(c), Insert(t, c, work[WorkOf[c]])
    PROVE  /\ \E d \in Cmds : /\ sque' = Append(sque, d)
                              /\ d # c => WorkOf[d] = WorkOf[c] /\ d \in CmdsOf[Other(t)]
           /\ sque' \in Seq(Cmds) /\ snd_buf' \in Ring(PKT_BUFF_SIZ)
           /\ call' = [call EXCEPT ![t] = NoCall] /\ call' \in [Tasks -> CallType] /\ turn' = turn
           /\ harm' \in {"none", "mixed"}
           /\ harm' # "mixed" => Laid(snd_buf, PKT_BUFF_SIZ, sque)'
           /\ harm' = "mixed" => Mixable
<1>1. call[t].pc = "wait" /\ harm = "none"
  BY DEF SetSendCommandRetry, Back
<1>2. /\ c \in CmdsOf[t]
      /\ \E d \in Cmds : Lies(work[WorkOf[c]], d, t, c)
  BY <1>1, Types DEF CallInv
<1>3. PICK d \in Cmds : Lies(work[WorkOf[c]], d, t, c)
  BY <1>2
<1>4. /\ WorkOf[d] = WorkOf[c] /\ (d # c => d \in CmdsOf[Other(t)])
      /\ \A k \in 1 .. Length[d] : work[WorkOf[c]][k] = <<d, k>>
  BY <1>3 DEF Lies
<1>5. work[WorkOf[c]] \in [1 .. PKT_RSND_BUFF_SIZ -> Bytes]
  BY Types DEF Works
<1>6. /\ sque' = Append(sque, d) /\ sque' \in Seq(Cmds) /\ snd_buf' \in Ring(PKT_BUFF_SIZ)
      /\ call' = [call EXCEPT ![t] = NoCall] /\ call' \in [Tasks -> CallType] /\ turn' = turn
      /\ harm' \in {"none", "mixed"}
      /\ harm' = "none" => Laid(snd_buf, PKT_BUFF_SIZ, sque)'
      /\ Length[c] = Length[d] => harm' = "none"
  BY <1>1, <1>4, <1>5, InsertKeeps
<1>7. ASSUME harm' = "mixed"
      PROVE  Mixable
  <2>1. Length[c] # Length[d] /\ d \in CmdsOf[Other(t)]
    BY <1>4, <1>6, <1>7
  <2>2. (t = OPE /\ Other(t) = PKT) \/ (t = PKT /\ Other(t) = OPE)
    BY CmdAssumption DEF Tasks, Other
  <2> QED
    BY <1>2, <1>4, <2>1, <2>2 DEF Mixable
<1> QED
  BY <1>4, <1>6, <1>7

LEMMA RetryKeeps ==
    ASSUME Sound, NEW t \in Tasks, SetSendCommandRetry(t)
    PROVE  IInv'
<1> DEFINE c == call[t].cmd
<1>1. /\ call[t].pc = "wait" /\ job.pc = "none" /\ harm = "none"
      /\ UNCHANGED <<rsnd_add_cmd, work, job, packet, rque>>
  <2>1. Back(t)
    BY DEF SetSendCommandRetry
  <2> QED
    BY <2>1, NoPacket DEF SetSendCommandRetry, Back
<1>2. c \in Cmds
  BY <1>1, Types, CmdAssumption DEF CallInv
<1>3. \/ Fits(c) /\ Insert(t, c, work[WorkOf[c]])
      \/ /\ call[t].tries < RETRY
         /\ call' = [call EXCEPT ![t].tries = @ + 1]
         /\ turn' = Other(t)
         /\ UNCHANGED <<snd_buf, sque, harm>>
      \/ /\ call' = [call EXCEPT ![t] = NoCall]
         /\ UNCHANGED <<snd_buf, sque, turn, harm>>
  BY DEF SetSendCommandRetry
<1>C. c = call[t].cmd
  OBVIOUS
<1> HIDE DEF c
\* In every case the ring holds what it should, and whoever waits waits with what it did.
<1>4. /\ snd_buf' \in Ring(PKT_BUFF_SIZ) /\ sque' \in Seq(Cmds)
      /\ harm' # "mixed" => Laid(snd_buf, PKT_BUFF_SIZ, sque)'
      /\ harm' \in {"none", "mixed"} /\ (harm' = "mixed" => Mixable)
      /\ call' \in [Tasks -> CallType] /\ turn' \in Tasks
      /\ \A u \in Tasks : call'[u].pc = "wait" => call[u].pc = "wait" /\ call'[u].cmd = call[u].cmd
  <2>1. CASE Fits(c) /\ Insert(t, c, work[WorkOf[c]])
    <3>1. /\ sque' \in Seq(Cmds) /\ snd_buf' \in Ring(PKT_BUFF_SIZ)
          /\ call' = [call EXCEPT ![t] = NoCall] /\ call' \in [Tasks -> CallType] /\ turn' = turn
          /\ harm' \in {"none", "mixed"}
          /\ harm' # "mixed" => Laid(snd_buf, PKT_BUFF_SIZ, sque)'
          /\ harm' = "mixed" => Mixable
      BY <1>2, <1>C, <2>1, RetryCopies
    <3>2. \A u \in Tasks : call'[u].pc = "wait" => call'[u] = call[u]
      BY <3>1, Types, CallMade
    <3> QED
      BY <3>1, <3>2, Types
  <2>2. CASE /\ call[t].tries < RETRY
             /\ call' = [call EXCEPT ![t].tries = @ + 1]
             /\ turn' = Other(t)
             /\ UNCHANGED <<snd_buf, sque, harm>>
    <3>1. call[t] \in CallType /\ call[t].tries + 1 \in 0 .. RETRY
      <4>1. call[t] \in CallType
        BY Types
      <4>2. call[t].tries \in 0 .. RETRY
        BY <4>1, CallFields
      <4> QED
        BY <2>2, <4>1, <4>2, SizeFacts
    <3>2. call' = [call EXCEPT ![t] = [call[t] EXCEPT !.tries = call[t].tries + 1]]
      BY <2>2
    <3>3. /\ [call[t] EXCEPT !.tries = call[t].tries + 1] \in CallType
          /\ [call[t] EXCEPT !.tries = call[t].tries + 1].pc = call[t].pc
          /\ [call[t] EXCEPT !.tries = call[t].tries + 1].cmd = call[t].cmd
      BY <3>1, CallFields
    <3>4. call' \in [Tasks -> CallType]
      BY <3>2, <3>3, Types
    <3>5. \A u \in Tasks : call'[u].pc = call[u].pc /\ call'[u].cmd = call[u].cmd
      BY <3>2, <3>3, Types
    <3>6. turn' \in Tasks
      BY <2>2 DEF Other, Tasks
    <3>7. /\ Laid(snd_buf, PKT_BUFF_SIZ, sque)' /\ snd_buf' \in Ring(PKT_BUFF_SIZ)
          /\ sque' \in Seq(Cmds) /\ harm' = "none"
      BY <1>1, <2>2, Types
    <3> QED
      BY <3>4, <3>5, <3>6, <3>7
  <2>3. CASE call' = [call EXCEPT ![t] = NoCall] /\ UNCHANGED <<snd_buf, sque, turn, harm>>
    <3>1. call' \in [Tasks -> CallType]
      BY <2>3, Types, CallMade
    <3>2. \A u \in Tasks : call'[u].pc = "wait" => call'[u] = call[u]
      BY <2>3, Types, CallMade
    <3>3. /\ Laid(snd_buf, PKT_BUFF_SIZ, sque)' /\ snd_buf' \in Ring(PKT_BUFF_SIZ)
          /\ sque' \in Seq(Cmds) /\ harm' = "none" /\ turn' \in Tasks
      BY <1>1, <2>3, Types
    <3> QED
      BY <3>1, <3>2, <3>3
  <2> QED
    BY <1>3, <2>1, <2>2, <2>3
<1>5. CallInv'
  BY <1>1, <1>4, Types DEF CallInv
<1>6. work' \in [Works -> [1 .. PKT_RSND_BUFF_SIZ -> Bytes]] /\ harm' \in HarmType /\ harm' # "split"
  BY <1>1, <1>4, Types DEF HarmType
<1> QED
  BY <1>1, <1>4, <1>5, <1>6, CallTypes

LEMMA JobFields ==
    ASSUME NEW x \in JobType
    PROVE  /\ x.pc \in {"none", "read", "store"} /\ x.type \in {"S", "A"} /\ x.num \in Nat
           /\ x.at \in 0 .. PKT_RSND_BUFF_SIZ /\ x.item \in Seq(Bytes)
BY DEF JobType

LEMMA JobMade ==
    ASSUME NEW pc \in {"none", "read", "store"}, NEW type \in {"S", "A"}, NEW num \in Nat,
           NEW at \in 0 .. PKT_RSND_BUFF_SIZ, NEW item \in Seq(Bytes)
    PROVE  [pc |-> pc, type |-> type, num |-> num, at |-> at, item |-> item] \in JobType
BY DEF JobType

LEMMA NoJobMade == NoJob \in JobType /\ NoJob.pc = "none"
<1>1. <<>> \in Seq(Bytes) /\ 0 \in 0 .. PKT_RSND_BUFF_SIZ
  BY EmptySeq, BufferAssumption
<1> QED
  BY <1>1 DEF NoJob, JobType

\* The oldest command is read as it is.
LEMMA HeadRead ==
    ASSUME NEW siz \in Nat \ {0}, NEW r, NEW q, Laid(r, siz, q), q # <<>>
    PROVE  /\ Size(r, r.rp) = Length[q[1]]
           /\ EvenLengths /\ siz % 2 = 0 => Readable(r, siz, r.rp)
           /\ Copied(r, siz, r.rp, Length[q[1]]) = Image(q[1])
           /\ q[1] \in Cmds /\ Head(q) = q[1] /\ Len(q) >= 1 /\ Before(q)[1] = Length[q[1]]
<1>1. q \in Seq(Cmds) /\ Len(q) \in Nat /\ Len(q) # 0 /\ Before(q)[0] = 0 /\ r.rp \in 0 .. siz - 1
  BY LenProperties, EmptySeq, SeqEqual, BeforeGrows, RingFields DEF Laid
<1>2. 1 \in 1 .. Len(q) /\ 1 - 1 = 0
  BY <1>1
<1>3. r.rp = Place(r.rp, Before(q)[1 - 1], siz)
  <2>1. r.rp + 0 = r.rp /\ r.rp < siz /\ 0 \in 0 .. siz
    BY <1>1
  <2>2. Place(r.rp, 0, siz) = r.rp
    BY <1>1, <2>1, PlaceIs
  <2> QED
    BY <1>1, <1>2, <2>2
<1>4. /\ Size(r, r.rp) = Length[q[1]]
      /\ EvenLengths /\ siz % 2 = 0 => Readable(r, siz, r.rp)
  BY <1>2, <1>3, LaidSize
<1>6. Copied(r, siz, r.rp, Length[q[1]]) = Image(q[1])
  BY <1>2, <1>3, LaidCopied
<1>5. /\ q[1] \in Cmds /\ Length[q[1]] \in Nat /\ Before(q)[1] = Before(q)[1 - 1] + Length[q[1]]
  BY <1>2, LaidFacts
<1>7. Head(q) = q[1]
  OBVIOUS
<1>8. Before(q)[1] = Length[q[1]]
  <2> DEFINE n == Length[q[1]]
  <2>1. n \in Nat /\ Before(q)[1] = 0 + n
    BY <1>1, <1>2, <1>5
  <2> HIDE DEF n
  <2>2. Before(q)[1] = n
    BY <2>1
  <2> QED
    BY <2>2 DEF n
<1> QED
  BY <1>1, <1>4, <1>5, <1>6, <1>7, <1>8

\* A step of the packet task that leaves the tasks' calls alone.
LEMMA BuildTypes ==
    ASSUME Sound, UNCHANGED <<work, turn, call>>, job' \in JobType, packet' \in Seq(Bytes),
           Laid(snd_buf, PKT_BUFF_SIZ, sque)', Laid(rsnd_add_cmd, PKT_RSND_BUFF_SIZ, rque)', JobInv',
           (job.pc # "none" \/ job'.pc = "none" \/ Free(PKT)), harm' \in HarmType
    PROVE  Sound'
<1>1. /\ work' \in [Works -> [1 .. PKT_RSND_BUFF_SIZ -> Bytes]] /\ turn' \in Tasks
      /\ call' \in [Tasks -> CallType]
  BY Types
<1>2. CallInv'
  BY Types, CallsStay
<1>3. TypeOK'
  <2>1. snd_buf' \in Ring(PKT_BUFF_SIZ) /\ sque' \in Seq(Cmds)
    BY DEF Laid
  <2> QED
    BY <1>1, <2>1, TypesFrom
<1>4. TurnInv'
  <2>1. CASE job.pc # "none" \/ job'.pc = "none"
    BY <2>1, Types, TurnStays
  <2>2. CASE Free(PKT)
    BY <2>2 DEF Free, TurnInv
  <2> QED
    BY <2>1, <2>2
<1> QED
  BY <1>2, <1>3, <1>4 DEF Sound

LEMMA CreateKeeps ==
    ASSUME Sound, NEW type \in {"S", "A"}, CreatePacket(type)
    PROVE  Sound'
<1> DEFINE R == PKT_RSND_BUFF_SIZ
<1>1. /\ job' = [pc |-> "read", type |-> type, num |-> 0, at |-> rsnd_add_cmd.rp, item |-> <<>>]
      /\ packet' = <<>> /\ UNCHANGED <<snd_buf, rsnd_add_cmd, work, turn, call, sque, rque, harm>> /\ Free(PKT)
  BY DEF CreatePacket, NoJob
<1>2. /\ Laid(rsnd_add_cmd, R, rque) /\ rque \in Seq(Cmds) /\ Len(rque) \in Nat
      /\ rsnd_add_cmd \in Ring(R) /\ rsnd_add_cmd.total = Before(rque)[Len(rque)]
  BY Types, LenProperties DEF Laid
<1>3. R \in Nat \ {0} /\ rsnd_add_cmd.rp \in 0 .. R - 1 /\ rsnd_add_cmd.total \in 0 .. R
  BY <1>2, SizeFacts, RingFields
<1>4. Before(rque)[0] = 0
  BY <1>2, BeforeGrows
<1>5. packet' \in Seq(Bytes) /\ Len(packet') = 0
  BY <1>1, EmptySeq
<1>6. job' \in JobType
  <2>1. "read" \in {"none", "read", "store"} /\ 0 \in Nat /\ rsnd_add_cmd.rp \in 0 .. R /\ <<>> \in Seq(Bytes)
    BY <1>3, EmptySeq
  <2> QED
    BY <1>1, <2>1, JobMade
<1>7. job'.pc = "read" /\ job'.type = type /\ job'.num = 0 /\ job'.at = rsnd_add_cmd.rp
  BY <1>1
<1>8. ASSUME type = "S"
      PROVE  JobInv'
  <2>1. EndsWith(Len(rque))'
    <3>1. Len(packet') = rsnd_add_cmd.total - Before(rque)[Len(rque)]
      BY <1>2, <1>3, <1>5
    <3>2. \A x \in 1 .. Len(packet') : FALSE
      BY <1>5
    <3> QED
      BY <1>1, <3>1, <3>2 DEF EndsWith
  <2>2. Len(rque) \in 0 .. Len(rque) /\ rque' = rque
    BY <1>1, <1>2
  <2>3. NewPacket'
    BY <1>7, <2>1, <2>2 DEF NewPacket
  <2> QED
    BY <1>7, <1>8, <2>3 DEF JobInv
<1>9. ASSUME type # "S"
      PROVE  JobInv'
  <2>1. rsnd_add_cmd.rp = Place(rsnd_add_cmd.rp, 0, R)
    <3>1. rsnd_add_cmd.rp + 0 = rsnd_add_cmd.rp /\ rsnd_add_cmd.rp < R /\ 0 \in 0 .. R
      BY <1>3
    <3> QED
      BY <1>3, <3>1, PlaceIs
  <2>2. Run(rsnd_add_cmd, R, 0) = <<>>
    BY DEF Run
  <2>3. ResentPacket'
    BY <1>1, <1>2, <1>4, <1>7, <2>1, <2>2 DEF ResentPacket
  <2> QED
    BY <1>7, <1>9, <2>3 DEF JobInv
<1>10. /\ Laid(snd_buf, PKT_BUFF_SIZ, sque)' /\ Laid(rsnd_add_cmd, R, rque)'
       /\ UNCHANGED <<work, turn, call>>
       /\ harm' \in HarmType /\ Free(PKT)
  BY <1>1, Types
<1> QED
  BY <1>5, <1>6, <1>8, <1>9, <1>10, BuildTypes

\* What is read is the oldest command, and it fits the packet.
LEMMA Reads ==
    ASSUME Sound, ReadSendCommand
    PROVE  /\ sque # <<>> /\ sque[1] \in Cmds /\ Head(sque) = sque[1] /\ sque' = Tail(sque)
           /\ Length[sque[1]] <= Limit
           /\ snd_buf' = Dropped(snd_buf, PKT_BUFF_SIZ, Length[sque[1]])
           /\ job' = [job EXCEPT !.pc = "store", !.item = Image(sque[1])]
           /\ job.pc = "read" /\ job.type = "S"
           /\ UNCHANGED <<rsnd_add_cmd, work, turn, call, packet, rque, harm>>
<1>1. Laid(snd_buf, PKT_BUFF_SIZ, sque) /\ snd_buf.count = Len(sque) /\ snd_buf.count > 0
  BY Types DEF Laid, ReadSendCommand
<1>2. sque # <<>>
  BY <1>1
<1>3. /\ Size(snd_buf, snd_buf.rp) = Length[sque[1]]
      /\ Copied(snd_buf, PKT_BUFF_SIZ, snd_buf.rp, Length[sque[1]]) = Image(sque[1])
      /\ sque[1] \in Cmds /\ Head(sque) = sque[1]
  <2>1. PKT_BUFF_SIZ \in Nat \ {0}
    BY SizeFacts
  <2> QED
    BY <1>1, <1>2, <2>1, HeadRead
<1>4. /\ Size(snd_buf, snd_buf.rp) <= Limit
      /\ snd_buf' = Dropped(snd_buf, PKT_BUFF_SIZ, Size(snd_buf, snd_buf.rp))
      /\ job' = [job EXCEPT !.pc = "store",
                            !.item = Copied(snd_buf, PKT_BUFF_SIZ, snd_buf.rp,
                                            Size(snd_buf, snd_buf.rp))]
  BY DEF ReadSendCommand
<1> QED
  BY <1>2, <1>3, <1>4 DEF ReadSendCommand

LEMMA ReadKeeps ==
    ASSUME Sound, ReadSendCommand
    PROVE  Sound'
<1> DEFINE c == sque[1]
<1>1. /\ sque # <<>> /\ c \in Cmds /\ sque' = Tail(sque) /\ Length[c] <= Limit
      /\ snd_buf' = Dropped(snd_buf, PKT_BUFF_SIZ, Length[sque[1]])
      /\ job' = [job EXCEPT !.pc = "store", !.item = Image(c)]
      /\ job.pc = "read" /\ job.type = "S"
      /\ UNCHANGED <<rsnd_add_cmd, work, turn, call, packet, rque, harm>>
  BY Reads
<1>2. Laid(snd_buf', PKT_BUFF_SIZ, sque')
  <2>1. Laid(snd_buf, PKT_BUFF_SIZ, sque)
    BY Types
  <2> QED
    BY <1>1, <2>1, SizeFacts, LaidDropped
<1> HIDE DEF c
<1>3. /\ Image(c) \in Seq(Bytes) /\ Length[c] \in Nat
  BY <1>1, ImageIs
<1>4. job' \in JobType /\ job'.pc = "store" /\ job'.type = "S" /\ job'.item = Image(c)
  <2>1. job \in JobType
    BY Types
  <2> QED
    BY <1>1, <1>3, <2>1 DEF JobType
<1>5. packet' = packet /\ packet' \in Seq(Bytes) /\ Len(packet) \in Nat
  BY <1>1, Types, LenProperties
<1>6. Len(packet) + Length[c] <= PKT_RSND_BUFF_SIZ
  BY <1>1, <1>3, <1>5, SizeFacts DEF Limit
<1>7. NewPacket'
  <2>1. NewPacket
    BY <1>1, Types DEF JobInv
  <2>2. \E j \in 0 .. Len(rque') : EndsWith(j)'
    BY <1>1, <2>1 DEF NewPacket, EndsWith, At
  <2>3. \E d \in Cmds : job'.item = Image(d) /\ Len(packet') + Length[d] <= PKT_RSND_BUFF_SIZ
    BY <1>1, <1>4, <1>5, <1>6
  <2> QED
    BY <2>2, <2>3 DEF NewPacket
<1>8. JobInv'
  BY <1>4, <1>7 DEF JobInv
<1>9. /\ Laid(rsnd_add_cmd, PKT_RSND_BUFF_SIZ, rque)' /\ UNCHANGED <<work, turn, call>>
      /\ harm' \in HarmType /\ job.pc # "none"
  BY <1>1, Types
<1> QED
  BY <1>2, <1>4, <1>5, <1>8, <1>9, BuildTypes

\* To make room, only commands that are not in the packet are dropped.
LEMMA DelKeeps ==
    ASSUME Sound, DelReSendCommand
    PROVE  Sound'
<1> DEFINE R == PKT_RSND_BUFF_SIZ
           r == rsnd_add_cmd
           q == rque
<1>0. /\ job.pc = "store" /\ r.total + Len(job.item) > R
      /\ UNCHANGED <<snd_buf, work, turn, call, job, packet, sque, harm>>
  BY DEF DelReSendCommand
<1>1. Laid(r, R, q) /\ R \in Nat \ {0} /\ (EvenLengths => R % 2 = 0)
  BY Types, SizeFacts
<1>2. packet \in Seq(Bytes) /\ packet' \in Seq(Bytes) /\ Len(packet) \in Nat /\ job' \in JobType
  BY <1>0, Types, LenProperties
<1>3. job.type = "S" /\ NewPacket
  <2>1. job.pc # "none"
    BY <1>0
  <2>2. IF job.type = "S" THEN NewPacket ELSE ResentPacket
    BY <2>1, Types DEF JobInv
  <2>3. ~ ResentPacket
    BY <1>0 DEF ResentPacket
  <2> QED
    BY <2>2, <2>3
<1>4. PICK c \in Cmds : job.item = Image(c) /\ Len(packet) + Length[c] <= R
  BY <1>0, <1>3 DEF NewPacket
<1>5. PICK j \in 0 .. Len(q) : EndsWith(j)
  BY <1>3 DEF NewPacket
<1>6. Laid(snd_buf, PKT_BUFF_SIZ, sque)' /\ job.pc # "none" /\ harm' \in HarmType
  BY <1>0, Types
<1>7. CASE r.count = 0
  <2>1. UNCHANGED <<rsnd_add_cmd, rque>>
    BY <1>7 DEF DelReSendCommand
  <2>2. JobInv' /\ Laid(rsnd_add_cmd, PKT_RSND_BUFF_SIZ, rque)'
    BY <1>0, <2>1, Types, JobStays
  <2> QED
    BY <1>0, <1>2, <1>6, <2>2, BuildTypes
<1>8. CASE r.count # 0
  <2>1. /\ q \in Seq(Cmds) /\ r \in Ring(R) /\ Len(q) \in Nat /\ r.count = Len(q) /\ r.total = Before(q)[Len(q)]
        /\ r.total \in 0 .. R
    BY <1>1, LenProperties, RingFields DEF Laid
  <2>2. q # <<>>
    BY <1>8, <2>1
  <2> DEFINE n == Length[q[1]]
             b == Before(q)[j]
  <2>3. r' = Dropped(r, R, Size(r, r.rp))
    BY <1>8 DEF DelReSendCommand
  <2>4. q' = Tail(q)
    BY <1>8 DEF DelReSendCommand
  <2>5. Size(r, r.rp) = n
    BY <1>1, <2>2, HeadRead
  <2>6. /\ Laid(r', R, q') /\ r'.total = r.total - n
        /\ \A x \in 0 .. r.total - n - 1 : At(r', R, x) = At(r, R, x + n)
    BY <1>1, <2>2, <2>3, <2>4, <2>5, LaidDropped
  <2>7. n \in Nat /\ Before(q)[1] = n /\ n <= r.total /\ Before(q)[0] = 0
    <3>1. Before(q)[1] = n /\ 1 \in 1 .. Len(q)
      BY <1>1, <2>1, <2>2, HeadRead
    <3>2. Length[q[1]] \in Nat /\ Before(q)[1] <= r.total
      BY <1>1, <3>1, LaidFacts
    <3> QED
      BY <2>1, <3>1, <3>2, BeforeGrows
  \* The packet ends at the end of the ring and does not fill it.
  <2>8. /\ b \in Nat /\ b <= r.total /\ Len(packet) = r.total - b
        /\ \A x \in 1 .. Len(packet) : packet[x] = At(r, R, b + x - 1)
    <3>1. Len(packet) = r.total - Before(q)[j]
          /\ \A x \in 1 .. Len(packet) : packet[x] = At(r, R, Before(q)[j] + x - 1)
      BY <1>5 DEF EndsWith
    <3>2. Before(q)[j] \in Nat
      BY <2>1, BeforeGrows
    <3> QED
      BY <1>2, <2>1, <3>1, <3>2
  <2>9. b > 0
    <3>1. Len(job.item) = Length[c] /\ Length[c] \in Nat
      BY <1>4, ImageIs
    <3> DEFINE all == r.total
    <3>2. all + Length[c] > R /\ Len(packet) + Length[c] <= R /\ Len(packet) = all - b /\ all \in Nat
      BY <1>0, <1>4, <2>1, <2>8, <3>1
    <3> HIDE DEF all, b
    <3> QED
      BY <1>1, <1>2, <2>8, <3>1, <3>2
  <2>10. j \in 1 .. Len(q) /\ n <= b
    <3>1. j # 0
      BY <2>7, <2>9
    <3>2. j \in 1 .. Len(q) /\ 1 \in 0 .. Len(q)
      BY <2>1, <3>1
    <3>3. Before(q)[1] + 2 * (j - 1) <= Before(q)[j]
      BY <2>1, <3>2, BeforeGrows
    <3> QED
      BY <2>7, <2>8, <3>2, <3>3
  <2>11. j - 1 \in 0 .. Len(q') /\ Before(q')[j - 1] = b - n
    <3>1. /\ Len(Tail(q)) = Len(q) - 1
          /\ \A i \in 0 .. Len(q) - 1 : Before(Tail(q))[i] = Before(q)[i + 1] - Length[q[1]]
      BY <2>1, <2>2, BeforeTail
    <3>2. j - 1 \in 0 .. Len(q) - 1 /\ (j - 1) + 1 = j
      BY <2>1, <2>10
    <3> QED
      BY <2>4, <3>1, <3>2
  <2> HIDE DEF n, b
  <2>12. \A x \in 1 .. Len(packet) : packet[x] = At(r', R, (b - n) + x - 1)
    <3> SUFFICES ASSUME NEW x \in 1 .. Len(packet)
                 PROVE  packet[x] = At(r', R, (b - n) + x - 1)
      OBVIOUS
    <3> DEFINE all == r.total
               y == (b - n) + x - 1
    <3>1. all \in Nat /\ b <= all /\ Len(packet) = all - b /\ x \in 1 .. Len(packet)
          /\ \A z \in 0 .. all - n - 1 : At(r', R, z) = At(r, R, z + n)
      BY <2>1, <2>6, <2>8
    <3> HIDE DEF all
    <3>2. y \in 0 .. all - n - 1 /\ y + n = b + x - 1
      BY <1>2, <2>7, <2>8, <2>10, <3>1
    <3> HIDE DEF y
    <3>3. At(r', R, y) = At(r, R, b + x - 1)
      BY <3>1, <3>2
    <3>4. packet[x] = At(r, R, b + x - 1)
      BY <2>8
    <3> QED
      BY <3>3, <3>4 DEF y
  <2>13. Len(packet) = r'.total - (b - n)
    <3> DEFINE all == r.total
    <3>1. all \in Nat /\ Len(packet) = all - b /\ r'.total = all - n
      BY <2>1, <2>6, <2>8
    <3> HIDE DEF all
    <3> QED
      BY <2>7, <2>8, <3>1
  <2>14. EndsWith(j - 1)'
    BY <1>0, <2>11, <2>12, <2>13 DEF EndsWith
  <2>15. NewPacket'
    BY <1>0, <1>4, <2>11, <2>14 DEF NewPacket
  <2>16. JobInv'
    BY <1>0, <1>3, <2>15 DEF JobInv
  <2>17. Laid(rsnd_add_cmd, PKT_RSND_BUFF_SIZ, rque)'
    BY <2>6
  <2> QED
    BY <1>0, <1>2, <1>6, <2>16, <2>17, BuildTypes
<1> QED
  BY <1>7, <1>8

\* What goes into the packet goes to the end of the resend ring.
LEMMA SetKeeps ==
    ASSUME Sound, SetReSendCommand
    PROVE  Sound'
<1> DEFINE R == PKT_RSND_BUFF_SIZ
           r == rsnd_add_cmd
           q == rque
<1>0. /\ job.pc = "store" /\ r.total + Len(job.item) <= R
      /\ r' = Stored(r, R, job.item) /\ q' = Append(q, job.item[1][1])
      /\ packet' = packet \o job.item
      /\ job' = [job EXCEPT !.pc = "read", !.item = <<>>]
      /\ UNCHANGED <<snd_buf, work, turn, call, sque, harm>>
  BY DEF SetReSendCommand
<1>1. Laid(r, R, q) /\ R \in Nat \ {0}
  BY Types, SizeFacts
<1>2. packet \in Seq(Bytes) /\ Len(packet) \in Nat /\ job \in JobType
  BY Types, LenProperties
<1>3. job.type = "S" /\ NewPacket
  <2>1. job.pc # "none"
    BY <1>0
  <2>2. IF job.type = "S" THEN NewPacket ELSE ResentPacket
    BY <2>1, Types DEF JobInv
  <2>3. ~ ResentPacket
    BY <1>0 DEF ResentPacket
  <2> QED
    BY <2>2, <2>3
<1>4. PICK c \in Cmds : job.item = Image(c)
  BY <1>0, <1>3 DEF NewPacket
<1>5. PICK j \in 0 .. Len(q) : EndsWith(j)
  BY <1>3 DEF NewPacket
<1> DEFINE n == Length[c]
           b == Before(q)[j]
           im == job.item
<1>6. im \in Seq(Bytes) /\ Len(im) = n /\ n \in Nat /\ n >= 2 /\ \A k \in 1 .. n : im[k] = <<c, k>>
  BY <1>4, ImageIs
<1>7. im[1][1] = c
  BY <1>6
<1>8. /\ Laid(r', R, q') /\ r'.total = r.total + n /\ q' = Append(q, c)
      /\ \A x \in 0 .. r.total - 1 : At(r', R, x) = At(r, R, x)
      /\ \A k \in 1 .. n : At(r', R, r.total + k - 1) = <<c, k>>
  <2>1. r.total + Length[c] <= R /\ r' = Stored(r, R, Image(c)) /\ q' = Append(q, c)
    BY <1>0, <1>4, <1>6, <1>7
  <2> QED
    BY <1>1, <2>1, LaidStored
<1>9. /\ q \in Seq(Cmds) /\ r \in Ring(R) /\ Len(q) \in Nat /\ r.total \in 0 .. R /\ r.total = Before(q)[Len(q)]
  BY <1>1, LenProperties, RingFields DEF Laid
<1>10. /\ b \in Nat /\ Len(packet) = r.total - b
       /\ \A x \in 1 .. Len(packet) : packet[x] = At(r, R, b + x - 1)
  <2>1. Before(q)[j] \in Nat
    BY <1>9, BeforeGrows
  <2> QED
    BY <1>5, <2>1 DEF EndsWith
<1>11. j \in 0 .. Len(q') /\ Before(q')[j] = b
  <2>1. Len(Append(q, c)) = Len(q) + 1 /\ \A i \in 0 .. Len(q) : Before(Append(q, c))[i] = Before(q)[i]
    BY <1>9, BeforeAppend
  <2> QED
    BY <1>8, <1>9, <2>1
<1> HIDE DEF n, b, im
<1>12. /\ packet' \in Seq(Bytes) /\ Len(packet') = Len(packet) + n
       /\ \A x \in 1 .. Len(packet) + n : packet'[x] = IF x <= Len(packet) THEN packet[x] ELSE im[x - Len(packet)]
  <2>1. packet' = packet \o im
    BY <1>0 DEF im
  <2> QED
    BY <1>2, <1>6, <2>1, ConcatProperties
<1>13. ASSUME NEW x \in 1 .. Len(packet')
       PROVE  packet'[x] = At(r', R, b + x - 1)
  <2> DEFINE all == r.total
             len == Len(packet)
             y == b + x - 1
  <2>1. all \in Nat /\ len \in Nat /\ len = all - b /\ x \in 1 .. len + n
    BY <1>2, <1>9, <1>10, <1>12
  <2>2. \A z \in 0 .. all - 1 : At(r', R, z) = At(r, R, z)
    BY <1>8
  <2>3. \A k \in 1 .. n : At(r', R, all + k - 1) = im[k]
    BY <1>6, <1>8
  <2>4. packet'[x] = IF x <= len THEN packet[x] ELSE im[x - len]
    BY <1>12, <2>1
  <2> HIDE DEF all
  <2>5. CASE x <= len
    <3>1. packet[x] = At(r, R, y)
      BY <1>10, <2>1, <2>5
    <3>2. y \in 0 .. all - 1
      BY <1>10, <2>1, <2>5
    <3> HIDE DEF y, len
    <3>3. At(r', R, y) = packet'[x]
      BY <2>2, <2>4, <2>5, <3>1, <3>2
    <3> QED
      BY <3>3 DEF y
  <2>6. CASE ~ (x <= len)
    <3> DEFINE k == x - len
    <3>1. k \in 1 .. n /\ all + k - 1 = y
      <4> HIDE DEF len
      <4> QED
        BY <1>6, <1>10, <2>1, <2>6
    <3>2. packet'[x] = im[k]
      BY <2>4, <2>6
    <3> HIDE DEF k, y, len
    <3>3. At(r', R, y) = packet'[x]
      BY <2>3, <3>1, <3>2
    <3> QED
      BY <3>3 DEF y
  <2> QED
    BY <2>5, <2>6
<1>14. Len(packet') = r'.total - b
  <2> DEFINE all == r.total
             len == Len(packet)
  <2>1. all \in Nat /\ len \in Nat /\ len = all - b /\ r'.total = all + n /\ Len(packet') = len + n
    BY <1>2, <1>8, <1>9, <1>10, <1>12
  <2> HIDE DEF all, len
  <2> QED
    BY <1>6, <1>10, <2>1
<1>15. EndsWith(j)'
  BY <1>11, <1>13, <1>14 DEF EndsWith
<1>16. job' \in JobType /\ job'.pc = "read" /\ job'.type = "S"
  <2>1. <<>> \in Seq(Bytes)
    BY EmptySeq
  <2> QED
    BY <1>0, <1>2, <1>3, <2>1 DEF JobType
<1>17. JobInv'
  BY <1>11, <1>15, <1>16 DEF JobInv, NewPacket
<1>18. /\ Laid(snd_buf, PKT_BUFF_SIZ, sque)' /\ Laid(rsnd_add_cmd, PKT_RSND_BUFF_SIZ, rque)'
       /\ job.pc # "none" /\ harm' \in HarmType
  BY <1>0, <1>8, Types
<1> QED
  BY <1>0, <1>12, <1>16, <1>17, <1>18, BuildTypes

\* The next command of a resent packet is the next one of the resend ring.
LEMMA ReReadKeeps ==
    ASSUME Sound, ReadReSendCommand
    PROVE  Sound'
<1> DEFINE R == PKT_RSND_BUFF_SIZ
           r == rsnd_add_cmd
           q == rque
           i == job.num + 1
<1>0. /\ job.pc = "read" /\ job.type = "A" /\ job.num < r.count
      /\ UNCHANGED <<snd_buf, rsnd_add_cmd, work, turn, call, sque, rque, harm>>
  BY DEF ReadReSendCommand
<1>1. Laid(r, R, q) /\ R \in Nat \ {0}
  BY Types, SizeFacts
<1>2. job \in JobType /\ job.num \in Nat
  BY Types, JobFields
<1>3. /\ job.at = Place(r.rp, Before(q)[job.num], R) /\ packet = Run(r, R, Before(q)[job.num])
  <2>1. job.pc # "none" /\ job.type # "S"
    BY <1>0
  <2>2. ResentPacket
    BY <2>1, Types DEF JobInv
  <2> QED
    BY <2>2 DEF ResentPacket
<1> DEFINE size == Size(r, job.at)
<1>4. /\ packet' = packet \o Copied(r, R, job.at, size)
      /\ job' = [job EXCEPT !.num = @ + 1, !.at = (@ + size) % R]
  BY DEF ReadReSendCommand
<1>5. r.count = Len(q) /\ Len(q) \in Nat /\ r \in Ring(R) /\ q \in Seq(Cmds) /\ r.rp \in 0 .. R - 1
  BY <1>1, LenProperties, RingFields DEF Laid
<1>6. i \in 1 .. Len(q) /\ i - 1 = job.num
  BY <1>0, <1>2, <1>5
<1> HIDE DEF i, size
<1>7. /\ q[i] \in Cmds /\ Length[q[i]] \in Nat
      /\ Before(q)[i - 1] \in Nat /\ Before(q)[i] = Before(q)[i - 1] + Length[q[i]]
      /\ Before(q)[i] <= R
  <2>1. /\ q[i] \in Cmds /\ Length[q[i]] \in Nat
        /\ Before(q)[i - 1] \in Nat /\ Before(q)[i] = Before(q)[i - 1] + Length[q[i]]
        /\ Before(q)[i] <= r.total /\ r.total \in 0 .. R
    BY <1>1, <1>6, LaidFacts
  <2> QED
    BY <1>1, <2>1
<1>8. job.at = Place(r.rp, Before(q)[i - 1], R)
  BY <1>3, <1>6
<1>9. size = Length[q[i]] /\ Copied(r, R, job.at, Length[q[i]]) = Image(q[i])
  <2>1. i \in 1 .. Len(q)
    BY <1>6
  <2>2. size = Length[q[i]]
    BY <1>1, <1>8, <2>1, LaidSize DEF size
  <2>3. Copied(r, R, job.at, Length[q[i]]) = Image(q[i])
    BY <1>1, <1>8, <2>1, LaidCopied
  <2> QED
    BY <2>2, <2>3
<1>10. packet' = Run(r, R, Before(q)[i]) /\ packet' \in Seq(Bytes)
  <2>1. /\ Run(r, R, Before(q)[i]) = Run(r, R, Before(q)[i - 1]) \o Image(q[i])
        /\ Run(r, R, Before(q)[i]) \in Seq(Bytes)
    BY <1>1, <1>6, RunGrows
  <2>2. packet' = Run(r, R, Before(q)[i - 1]) \o Image(q[i])
    BY <1>3, <1>4, <1>6, <1>9
  <2> QED
    BY <2>1, <2>2
<1>11. (job.at + size) % R = Place(r.rp, Before(q)[i], R) /\ Place(r.rp, Before(q)[i], R) \in 0 .. R
  <2> DEFINE b == Before(q)[i - 1]
             n == Length[q[i]]
  <2>1. b \in 0 .. R /\ n \in 0 .. R /\ b + n <= R /\ b + n \in 0 .. R
    BY <1>1, <1>7
  <2>2. (job.at + size) % R = Place(Place(r.rp, b, R), n, R)
    BY <1>8, <1>9 DEF Place
  <2> HIDE DEF b, n
  <2>3. Place(Place(r.rp, b, R), n, R) = Place(r.rp, b + n, R)
    BY <1>1, <1>5, <2>1, PlaceTwice
  <2>4. Place(r.rp, b + n, R) \in 0 .. R - 1
    BY <1>1, <1>5, <2>1, PlaceIs
  <2>5. Before(q)[i] = b + n
    BY <1>7 DEF b, n
  <2> QED
    BY <1>1, <2>2, <2>3, <2>4, <2>5
<1>12. /\ job' \in JobType /\ job'.pc = "read" /\ job'.type = "A" /\ job'.num = i
       /\ job'.at = Place(r.rp, Before(q)[i], R)
  <2>1. job' = [job EXCEPT !.num = job.num + 1, !.at = Place(r.rp, Before(q)[i], R)]
    BY <1>4, <1>11
  <2>2. job.num + 1 = i /\ i \in Nat
    BY <1>2 DEF i
  <2> QED
    BY <1>0, <1>2, <1>11, <2>1, <2>2 DEF JobType
<1>13. ResentPacket'
  <2>1. i <= Len(q)
    BY <1>6
  <2> QED
    BY <1>0, <1>10, <1>12, <2>1 DEF ResentPacket
<1>14. JobInv'
  BY <1>12, <1>13 DEF JobInv
<1>15. /\ Laid(snd_buf, PKT_BUFF_SIZ, sque)' /\ Laid(rsnd_add_cmd, PKT_RSND_BUFF_SIZ, rque)'
       /\ job.pc # "none" /\ harm' \in HarmType
  BY <1>0, Types
<1> QED
  BY <1>0, <1>10, <1>12, <1>14, <1>15, BuildTypes

LEMMA ReadyKeeps ==
    ASSUME Sound, PacketReady
    PROVE  Sound'
<1>1. /\ job' = NoJob /\ packet' = <<>>
      /\ UNCHANGED <<snd_buf, rsnd_add_cmd, work, turn, call, sque, rque, harm>>
  BY DEF PacketReady
<1>2. job' \in JobType /\ job'.pc = "none" /\ packet' \in Seq(Bytes)
  BY <1>1, NoJobMade, EmptySeq
<1>3. JobInv'
  BY <1>2 DEF JobInv
<1>4. /\ Laid(snd_buf, PKT_BUFF_SIZ, sque)' /\ Laid(rsnd_add_cmd, PKT_RSND_BUFF_SIZ, rque)'
      /\ harm' \in HarmType
  BY <1>1, Types
<1> QED
  BY <1>1, <1>2, <1>3, <1>4, BuildTypes

LEMMA ClearKeeps ==
    ASSUME Sound, ClearReSendCommand
    PROVE  Sound'
<1>1. /\ job.pc = "none" /\ rsnd_add_cmd' = Empty(PKT_RSND_BUFF_SIZ) /\ rque' = <<>>
      /\ UNCHANGED <<snd_buf, work, turn, call, job, packet, sque, harm>>
  BY DEF ClearReSendCommand, Free
<1>2. Laid(rsnd_add_cmd, PKT_RSND_BUFF_SIZ, rque)'
  BY <1>1, SizeFacts, LaidEmpty
<1>3. JobInv'
  BY <1>1 DEF JobInv
<1>4. /\ job' \in JobType /\ packet' \in Seq(Bytes) /\ Laid(snd_buf, PKT_BUFF_SIZ, sque)'
      /\ job'.pc = "none" /\ harm' \in HarmType
  BY <1>1, Types
<1> QED
  BY <1>1, <1>2, <1>3, <1>4, BuildTypes

\* A length that lies across the end.
LEMMA SplitKeeps ==
    ASSUME Sound, SplitLength
    PROVE  Sound'
<1>1. /\ UNCHANGED <<snd_buf, rsnd_add_cmd, work, turn, call, job, packet, sque, rque>>
      /\ job.pc # "none" /\ harm' \in HarmType
  BY DEF SplitLength, ReadsPastEnd, HarmType
<1>2. JobInv'
  BY <1>1, Types, JobStays
<1>3. /\ job' \in JobType /\ packet' \in Seq(Bytes) /\ Laid(snd_buf, PKT_BUFF_SIZ, sque)'
      /\ Laid(rsnd_add_cmd, PKT_RSND_BUFF_SIZ, rque)'
  BY <1>1, Types
<1> QED
  BY <1>1, <1>2, <1>3, BuildTypes

\* Then not all lengths are even.
LEMMA SplitIsOdd ==
    ASSUME Sound, SplitLength
    PROVE  ~ EvenLengths
<1> SUFFICES ASSUME EvenLengths
             PROVE  FALSE
  OBVIOUS
<1>1. /\ Laid(snd_buf, PKT_BUFF_SIZ, sque) /\ Laid(rsnd_add_cmd, PKT_RSND_BUFF_SIZ, rque)
      /\ JobInv /\ job \in JobType
      /\ snd_buf.count = Len(sque) /\ rsnd_add_cmd.count = Len(rque)
  BY Types DEF Laid
<1>2. PKT_BUFF_SIZ % 2 = 0 /\ PKT_RSND_BUFF_SIZ % 2 = 0
  BY SizeFacts
<1>3. snd_buf.count > 0 => Readable(snd_buf, PKT_BUFF_SIZ, snd_buf.rp)
  BY <1>1, <1>2, SizeFacts, HeadRead
<1>4. rsnd_add_cmd.count > 1 => Readable(rsnd_add_cmd, PKT_RSND_BUFF_SIZ, rsnd_add_cmd.rp)
  BY <1>1, <1>2, SizeFacts, HeadRead
<1>5. ASSUME job.pc = "read", job.type = "A", job.num < rsnd_add_cmd.count
      PROVE  Readable(rsnd_add_cmd, PKT_RSND_BUFF_SIZ, job.at)
  <2>1. job.at = Place(rsnd_add_cmd.rp, Before(rque)[job.num], PKT_RSND_BUFF_SIZ) /\ job.num \in Nat
    BY <1>1, <1>5, JobFields DEF JobInv, ResentPacket
  <2>2. job.num + 1 \in 1 .. Len(rque) /\ (job.num + 1) - 1 = job.num
    <3>1. Len(rque) \in Nat
      BY <1>1, LenProperties DEF Laid
    <3> QED
      BY <1>1, <1>5, <2>1, <3>1
  <2> DEFINE i == job.num + 1
  <2>3. i \in 1 .. Len(rque) /\ job.at = Place(rsnd_add_cmd.rp, Before(rque)[i - 1], PKT_RSND_BUFF_SIZ)
    BY <2>1, <2>2
  <2> HIDE DEF i
  <2> QED
    BY <1>1, <1>2, <2>3, SizeFacts, LaidSize
<1> QED
  BY <1>3, <1>4, <1>5 DEF SplitLength, ReadsPastEnd

-----------------------------------------------------------------------------
(* The invariant holds. *)

LEMMA Start == ASSUME Init PROVE IInv
<1>1. Laid(snd_buf, PKT_BUFF_SIZ, sque) /\ Laid(rsnd_add_cmd, PKT_RSND_BUFF_SIZ, rque)
  BY SizeFacts, LaidEmpty DEF Init
<1>2. job \in JobType /\ JobInv /\ TurnInv
  BY NoJobMade DEF Init, JobInv, TurnInv
<1>3. call \in [Tasks -> CallType] /\ CallInv
  BY CallMade DEF Init, CallInv
<1>4. /\ work \in [Works -> [1 .. PKT_RSND_BUFF_SIZ -> Bytes]]
      /\ turn \in Tasks /\ packet \in Seq(Bytes) /\ harm \in HarmType /\ HarmCaused
  BY EmptySeq DEF Init, Tasks, Bytes, HarmType, HarmCaused
<1>5. TypeOK
  BY <1>1, <1>2, <1>3, <1>4 DEF TypeOK, Laid, CallType, JobType, HarmType
<1> QED
  BY <1>1, <1>2, <1>3, <1>4, <1>5 DEF IInv, Sound

LEMMA Unchanged == ASSUME IInv, UNCHANGED vars PROVE IInv'
<1>1. UNCHANGED <<snd_buf, rsnd_add_cmd, work, turn, call, job, packet, sque, rque, harm>>
  BY Zenon DEF vars
<1>2. TypeOK' /\ HarmCaused' /\ Laid(rsnd_add_cmd, PKT_RSND_BUFF_SIZ, rque)'
  BY <1>1 DEF IInv, TypeOK, HarmCaused
<1>3. Sound => Sound'
  <2> SUFFICES ASSUME Sound
               PROVE  Sound'
    OBVIOUS
  <2>1. JobInv' /\ CallInv' /\ TurnInv' /\ Laid(snd_buf, PKT_BUFF_SIZ, sque)'
    BY <1>1, Types, JobStays, CallsStay DEF TurnInv
  <2> QED
    BY <1>2, <2>1 DEF Sound
<1> QED
  BY <1>1, <1>2, <1>3 DEF IInv

LEMMA BuildKeeps == ASSUME Sound, Build PROVE IInv'
<1>1. Sound'
  BY ReadKeeps, DelKeeps, SetKeeps, ReReadKeeps, ReadyKeeps, SplitKeeps DEF Build
<1>2. HarmCaused'
  <2>1. CASE SplitLength
    BY <2>1, SplitIsOdd DEF HarmCaused, SplitLength
  <2>2. CASE ~ SplitLength
    <3>1. harm' = "none"
      BY <2>2 DEF Build, ReadSendCommand, DelReSendCommand, SetReSendCommand, ReadReSendCommand, PacketReady
    <3> QED
      BY <3>1 DEF HarmCaused
  <2> QED
    BY <2>1, <2>2
<1> QED
  BY <1>1, <1>2 DEF IInv, Sound

\* What happens after harm is not modelled.
LEMMA Halted ==
    ASSUME Next, harm # "none"
    PROVE  Harmed
<1>1. \A t \in Tasks : ~ Free(t) /\ ~ Back(t)
  BY DEF Free, Back
<1>2. PKT \in Tasks
  BY DEF Tasks
<1> QED
  BY <1>1, <1>2 DEF Next, Switch, SetSendCommandRetry, PKTcmd, CreatePacket, Build, ClearReSendCommand

LEMMA Step ==
    ASSUME IInv, [Next]_vars
    PROVE  IInv'
<1>1. CASE harm = "none" /\ Next
  <2>0. Sound
    BY <1>1 DEF IInv
  <2>1. CASE \E t \in Tasks : Switch(t) \/ SetSendCommandRetry(t) \/ (\E c \in Cmds : PKTcmd(t, c))
    BY <2>0, <2>1, SwitchKeeps, RetryKeeps, PKTcmdKeeps
  <2>2. CASE Build
    BY <2>0, <2>2, BuildKeeps
  <2>3. CASE (\E type \in {"S", "A"} : CreatePacket(type)) \/ ClearReSendCommand
    <3>1. Sound'
      BY <2>0, <2>3, CreateKeeps, ClearKeeps
    <3>2. HarmCaused'
      BY <1>1, <2>3 DEF CreatePacket, ClearReSendCommand, HarmCaused
    <3> QED
      BY <3>1, <3>2 DEF IInv, Sound
  <2>4. CASE Harmed
    BY <2>4, Unchanged DEF Harmed
  <2> QED
    BY <1>1, <2>1, <2>2, <2>3, <2>4, Zenon DEF Next
<1>2. CASE harm # "none" /\ Next
  <2>1. Harmed
    BY <1>2, Halted
  <2> QED
    BY <2>1, Unchanged DEF Harmed
<1>3. CASE UNCHANGED vars
  BY <1>3, Unchanged
<1> QED
  BY <1>1, <1>2, <1>3

LEMMA Invariant == Spec => []IInv
<1>1. Init => IInv
  BY Start
<1>2. IInv /\ [Next]_vars => IInv'
  BY Step
<1> QED
  BY <1>1, <1>2, PTL DEF Spec

-----------------------------------------------------------------------------
(* The theorems. *)

\* Pointers, counts and contents of both rings stay within their bounds, and so
\* do the retries of PKTbuf_SetSendCommand and the place PKTbuf_ReadReSendCommand
\* has walked to: also when a command of another length is mixed in.
THEOREM TypeCorrect == Spec => []TypeOK
<1>1. IInv => TypeOK
  BY DEF IInv
<1> QED
  BY <1>1, Invariant, PTL

\* The bytes of each ring are at every step those of the commands it is meant to
\* hold, whatever their number, their lengths and the size of the rings, across
\* wrap-around, refused commands, dropped commands and resets, until a command
\* of another length is mixed in.
THEOREM RingsCorrect == Spec => []RingsHold
<1>1. IInv => RingsHold
  <2> SUFFICES ASSUME Sound
               PROVE  Holds(snd_buf, PKT_BUFF_SIZ, sque) /\ Holds(rsnd_add_cmd, PKT_RSND_BUFF_SIZ, rque)
    BY DEF IInv, RingsHold
  <2> QED
    BY Types, SizeFacts, LaidHolds
<1> QED
  BY <1>1, Invariant, PTL

\* A command of another length is mixed in only when the two tasks edit commands of
\* different lengths in one work area, and a length is read past the end of a ring
\* only when some length is odd.
THEOREM HarmHasCause == Spec => []HarmCaused
<1>1. IInv => HarmCaused
  BY DEF IInv
<1> QED
  BY <1>1, Invariant, PTL

\* A call of PKTbuf_SetSendCommand that waited sets its caller's command or one that
\* the other task edited in the same work area, whatever the commands, the areas and
\* the retries.
THEOREM WaitedIsOwnOrShared == Spec => SetsOwnOrShared
<1> DEFINE Sets(t) ==
        \E c \in Cmds : /\ sque' = Append(sque, c)
                        /\ c # call[t].cmd => /\ WorkOf[c] = WorkOf[call[t].cmd]
                                              /\ c \in CmdsOf[Other(t)]
           Good == \A t \in Tasks : call[t].pc = "wait" /\ turn = t /\ sque' # sque => Sets(t)
<1>1. ASSUME IInv, [Next]_vars, NEW t \in Tasks, call[t].pc = "wait", turn = t, sque' # sque
      PROVE  Sets(t)
  <2>1. harm = "none" /\ Sound
    <3>1. Next /\ ~ Harmed
      BY <1>1 DEF vars, Harmed
    <3> QED
      BY <1>1, <3>1, Halted DEF IInv
  <2>2. SetSendCommandRetry(t)
    <3>1. job.pc = "none"
      BY <1>1, <2>1, NoPacket DEF Back
    <3>2. ~ UNCHANGED vars /\ ~ Harmed
      BY <1>1 DEF vars, Harmed
    <3>3. \A u \in Tasks : ~ Switch(u) /\ \A c \in Cmds : ~ PKTcmd(u, c)
      BY <1>1 DEF Switch, PKTcmd, Free
    <3>4. \A u \in Tasks : SetSendCommandRetry(u) => u = t
      BY <1>1 DEF SetSendCommandRetry, Back
    <3>5. (\A type \in {"S", "A"} : ~ CreatePacket(type)) /\ ~ ClearReSendCommand
      BY <1>1 DEF CreatePacket, ClearReSendCommand
    <3>6. ~ Build
      BY <3>1 DEF Build, ReadSendCommand, DelReSendCommand, SetReSendCommand, ReadReSendCommand,
                  PacketReady, SplitLength, ReadsPastEnd
    <3> QED
      BY <1>1, <3>2, <3>3, <3>4, <3>5, <3>6 DEF Next
  <2> DEFINE c == call[t].cmd
  <2>3. c \in Cmds
    BY <1>1, <2>1, Types, CmdAssumption DEF CallInv
  <2>4. Fits(c) /\ Insert(t, c, work[WorkOf[c]])
    BY <1>1, <2>2 DEF SetSendCommandRetry
  <2>5. c = call[t].cmd
    OBVIOUS
  <2> HIDE DEF c
  <2>6. \E d \in Cmds : sque' = Append(sque, d) /\ (d # c => WorkOf[d] = WorkOf[c] /\ d \in CmdsOf[Other(t)])
    <3> HIDE DEF Sets
    <3>1. Sound /\ c = call[t].cmd /\ SetSendCommandRetry(t) /\ Fits(c) /\ Insert(t, c, work[WorkOf[c]])
      BY <2>1, <2>2, <2>4, <2>5
    <3> QED
      BY <2>3, <3>1, RetryCopies, Zenon
  <2> QED
    BY <2>6 DEF c
<1>2. IInv /\ [Next]_vars => [Good]_vars
  <2> HIDE DEF Sets
  <2> QED
    BY <1>1
<1> QED
  BY <1>2, Invariant, PTL DEF Spec, SetsOwnOrShared

\* A packet that is sent for the first time is what the resend ring holds last,
\* and a packet that is sent again is all that it holds.
THEOREM ResendPossible == Spec => PacketCanBeResent
<1> DEFINE R == PKT_RSND_BUFF_SIZ
           r == rsnd_add_cmd
           q == rque
           Same == IF job.type = "A" THEN packet = Flat(rque) ELSE IsTail(packet, Flat(rque))
<1>1. ASSUME IInv, [Next]_vars, job.pc = "read", job'.pc = "none"
      PROVE  Same
  <2>0. Next /\ harm = "none" /\ Sound
    <3>1. Next /\ ~ Harmed
      BY <1>1 DEF vars, Harmed
    <3> QED
      BY <1>1, <3>1, Halted DEF IInv
  <2>1. PacketReady
    <3>1. ~ UNCHANGED vars /\ ~ Harmed /\ ~ SplitLength
      BY <1>1 DEF vars, Harmed, SplitLength
    <3>2. \A t \in Tasks : ~ Switch(t)
      BY <1>1 DEF Switch
    <3>3. \A t \in Tasks : ~ SetSendCommandRetry(t) /\ \A c \in Cmds : ~ PKTcmd(t, c)
      BY <1>1 DEF SetSendCommandRetry, PKTcmd
    <3>4. \A type \in {"S", "A"} : ~ CreatePacket(type)
      BY <1>1 DEF CreatePacket, NoJob
    <3>5. ~ DelReSendCommand /\ ~ SetReSendCommand /\ ~ ClearReSendCommand
      BY <1>1 DEF DelReSendCommand, SetReSendCommand, ClearReSendCommand
    <3>6. ~ ReadReSendCommand /\ ~ ReadSendCommand
      <4>1. job \in JobType
        BY <2>0, Types
      <4> QED
        BY <1>1, <4>1 DEF ReadReSendCommand, ReadSendCommand, JobType
    <3> QED
      BY <1>1, <3>1, <3>2, <3>3, <3>4, <3>5, <3>6 DEF Next, Build
  <2>2. /\ Laid(r, R, q) /\ R \in Nat \ {0}
        /\ job.type \in {"S", "A"} /\ packet \in Seq(Bytes) /\ Len(packet) \in Nat
    BY <2>0, Types, SizeFacts, JobFields, LenProperties
  <2>3. /\ Flat(q) = Run(r, R, r.total) /\ r.total \in 0 .. R /\ r.total = Before(q)[Len(q)]
        /\ r.count = Len(q) /\ q \in Seq(Cmds) /\ Len(q) \in Nat
    BY <2>2, LaidFlat, RingFields, LenProperties DEF Laid
  <2>4. CASE job.type = "A"
    <3>1. ResentPacket
      <4>1. job.pc # "none" /\ job.type # "S"
        BY <1>1, <2>4
      <4> QED
        BY <2>0, <4>1, Types DEF JobInv
    <3>2. job.num >= r.count /\ job.num <= Len(q) /\ job.num \in Nat
      BY <2>0, <2>1, <2>4, <3>1, Types, JobFields DEF PacketReady, NothingToRead, ResentPacket
    <3>3. job.num = Len(q)
      BY <2>3, <3>2
    <3>4. packet = Run(r, R, r.total)
      BY <2>3, <3>1, <3>3 DEF ResentPacket
    <3> QED
      BY <2>3, <2>4, <3>4
  <2>5. CASE job.type = "S"
    <3>1. PICK j \in 0 .. Len(q) : EndsWith(j)
      <4>1. NewPacket
        BY <1>1, <2>0, <2>5, Types DEF JobInv
      <4> QED
        BY <4>1 DEF NewPacket
    <3> DEFINE b == Before(q)[j]
               all == r.total
               len == Len(packet)
               f == Run(r, R, all)
    <3>2. b \in Nat /\ all \in Nat /\ all <= R /\ len \in Nat /\ len = all - b
      <4>1. Before(q)[j] \in Nat
        BY <2>3, BeforeGrows
      <4> QED
        BY <2>2, <2>3, <3>1, <4>1 DEF EndsWith
    <3>3. \A x \in 1 .. len : packet[x] = At(r, R, b + x - 1)
      BY <3>1 DEF EndsWith
    <3>4. \A x \in 1 .. all : At(r, R, x - 1) \in Bytes
      <4>1. r \in Ring(R) /\ \A x \in 1 .. all : x - 1 \in 0 .. R - 1
        BY <2>2, <2>3, <3>2 DEF Laid
      <4> QED
        BY <2>2, <4>1, RingFields
    <3> HIDE DEF b, all
    <3>5. Len(f) = all /\ \A x \in 1 .. all : f[x] = At(r, R, x - 1) /\ f[x] \in Bytes
      BY <3>2, <3>4 DEF Run
    <3> HIDE DEF f
    <3> DEFINE s == SubSeq(f, b + 1, all)
    <3>6. \A i \in b + 1 .. all : f[i] \in Bytes
      BY <3>2, <3>5
    <3>7. /\ s \in Seq(Bytes) /\ Len(s) = (IF b + 1 <= all THEN all - (b + 1) + 1 ELSE 0)
          /\ \A x \in 1 .. all - (b + 1) + 1 : s[x] = f[(b + 1) + x - 1]
      <4>1. b + 1 \in Int /\ all \in Int
        BY <3>2
      <4> QED
        BY <3>6, <4>1, SubSeqProperties
    <3> HIDE DEF s
    <3>8. Len(s) = len
      <4> HIDE DEF len
      <4> QED
        BY <3>2, <3>7
    <3>9. \A x \in 1 .. len : s[x] = packet[x]
      <4> SUFFICES ASSUME NEW x \in 1 .. len
                   PROVE  s[x] = packet[x]
        OBVIOUS
      <4>1. x \in 1 .. all - (b + 1) + 1 /\ (b + 1) + x - 1 \in 1 .. all /\ ((b + 1) + x - 1) - 1 = b + x - 1
        <5>1. x \in 1 .. len
          OBVIOUS
        <5> HIDE DEF len
        <5> QED
          BY <3>2, <5>1
      <4>2. s[x] = f[(b + 1) + x - 1]
        BY <3>7, <4>1
      <4>3. f[(b + 1) + x - 1] = At(r, R, b + x - 1)
        BY <3>5, <4>1
      <4> QED
        BY <3>3, <4>2, <4>3
    <3>10. packet = s
      BY <2>2, <3>7, <3>8, <3>9, SeqEqual
    <3>11. Len(f) - Len(packet) + 1 = b + 1 /\ Len(packet) <= Len(f)
      <4>1. Len(packet) = len /\ Len(f) = all
        BY <3>5
      <4> HIDE DEF len
      <4> QED
        BY <3>2, <4>1
    <3>12. IsTail(packet, f)
      BY <3>5, <3>10, <3>11 DEF IsTail, s
    <3>13. Flat(rque) = f
      BY <2>3 DEF f, all
    <3> QED
      BY <2>5, <3>12, <3>13
  <2> QED
    BY <2>2, <2>4, <2>5
<1>2. IInv /\ [Next]_vars => [job.pc = "read" /\ job'.pc = "none" => Same]_vars
  <2> HIDE DEF Same
  <2> QED
    BY <1>1
<1> QED
  BY <1>2, Invariant, PTL DEF Spec, PacketCanBeResent
=============================================================================
