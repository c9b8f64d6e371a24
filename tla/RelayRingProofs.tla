---------------------------- MODULE RelayRingProofs ----------------------------
(***************************************************************************)
(* Proofs about the shared-memory relay ring: no wake-up is lost and the   *)
(* backlog is bounded, and every frame comes out whole and in its order,   *)
(* for every capacity, every modulus of the positions and frames of any    *)
(* size.                                                                   *)
(***************************************************************************)
EXTENDS RelayRing, SequenceLemmas

\* A byte: the frame it belongs to, and its place in it.
Byte     == Nat \X Nat
Position == 0..Mod - 1
Latest   == Len(sizes)

\* How far position b is ahead of position a.
Ahead(a, b) == (b + Mod - a) % Mod

\* From where the reader has not taken: while it gives space back, it has taken up to rload.
Base == IF rpc = "free" THEN rload ELSE readPos
\* The bytes of the data area c from position a up to b.
Between(c, a, b) == [i \in 1..Ahead(a, b) |-> c[(a + i - 1) % Cap]]
\* The bytes on their way: the reader's remainder, then the ring.
Waiting == acc \o Between(cell, Base, writePos)

\* q is the last part of the f-th frame, of this size.
Piece(q, f, size) ==
  /\ q \in Seq(Byte) /\ Len(q) \in 1..size
  /\ \A i \in 1..Len(q) : q[i] = <<f, size - Len(q) + i>>

\* The spill p: what is left of one of the frames of sizes s, and all of those after it.
Spilled(p, s) ==
  /\ p \in Seq(Seq(Byte)) /\ Len(p) <= Len(s)
  /\ \A j \in 1..Len(p) : Piece(p[j], Len(s) - Len(p) + j, s[Len(s) - Len(p) + j])
  /\ \A j \in 2..Len(p) : Len(p[j]) = s[Len(s) - Len(p) + j]

\* The backlog p exceeds the ceiling by at most one frame.
Backlog(p) ==
  \E biggest \in FrameSizes \cup {0} :
    /\ \A n \in FrameSizes : n <= biggest
    /\ Bytes(p) <= MaxPending + biggest

\* Where the two sides stand in the ring.
Placed ==
  /\ writePos \in Position /\ readPos \in Position /\ rload \in Position /\ snapshot \in Position
  /\ pushed \in Nat /\ Ahead(readPos, writePos) + pushed <= Cap
  /\ wpc \notin {"store", "flushStore"} => pushed = 0
  /\ rpc = "free" => Ahead(readPos, rload) + Ahead(rload, writePos) = Ahead(readPos, writePos)
  /\ rpc = "arm" => rload = readPos

\* What the writer holds.
Holding ==
  /\ sizes \in Seq(FrameSizes) /\ Latest <= MaxFrames
  /\ age \in 0..MaxAge
  /\ wpc \in {"idle", "store", "arm", "written", "flush", "flushStore", "flushNotify", "flushArm"}
  /\ wclosed \in BOOLEAN /\ overflow \in {"none", "bytes", "age"}
  /\ Spilled(spill, sizes) /\ Backlog(spill)
  /\ wclosed => spill = <<>> /\ wpc \in {"idle", "written"}
  /\ wpc = "store" =>
       /\ spill = <<>> /\ Latest > 0
       /\ rest \in Seq(Byte) /\ pushed + Len(rest) = sizes[Latest]
       /\ \A i \in 1..Len(rest) : rest[i] = <<Latest, pushed + i>>
  /\ wpc = "flushStore" => spill # <<>> /\ pushed \in 1..Len(spill[1])

\* The two waits.
Waits ==
  /\ rpc \in {"idle", "load", "free", "wake", "parse", "arm", "closed"}
  /\ wwait \in {"none", "parked", "woken"} /\ rwait \in {"none", "parked", "woken"}
  /\ rwait = "parked" => rpc = "idle"
  /\ rwait = "parked" /\ readPos # writePos => wpc \notin {"idle", "flushArm"}
  /\ wwait = "parked" /\ ~wclosed /\ readPos # snapshot => rpc \in {"wake", "closed"}
  /\ wpc \in {"idle", "written"} /\ spill # <<>> => wwait # "none"
  /\ wclosed => wwait # "parked"

\* The byte after b in the stream of the frames of sizes s.
Following(s, b) == IF b[2] < s[b[1]] THEN <<b[1], b[2] + 1>> ELSE <<b[1] + 1, 1>>

\* q is that stream from byte `from` up to, and without, byte `to`.
Run(s, q, from, to) ==
  /\ q \in Seq(Byte)
  /\ \A i \in 1..Len(q) : q[i][1] \in 1..Len(s) /\ q[i][2] \in 1..s[q[i][1]]
  /\ IF q = <<>> THEN from = to ELSE q[1] = from /\ Following(s, q[Len(q)]) = to
  /\ \A i \in 1..Len(q) - 1 : q[i + 1] = Following(s, q[i])

\* The byte the writer publishes next.
Outgoing == IF wpc = "store" THEN <<Latest, 1>>
            ELSE IF spill = <<>> THEN <<Latest + 1, 1>> ELSE spill[1][1]

\* q is what follows d delivered frames of sizes s, up to `out` unless the writer is closed.
Flow(s, d, q, out, closed) ==
  \E to : Run(s, q, <<d + 1, 1>>, to) /\ (~closed => to = out)

\* What is on its way continues what was delivered, up to what the writer holds.
Content ==
  /\ cell \in [0..Cap - 1 -> Byte] /\ acc \in Seq(Byte)
  /\ wpc = "store" => \A k \in 1..pushed : cell[(writePos + k - 1) % Cap] = <<Latest, k>>
  /\ wpc = "flushStore" => \A k \in 1..pushed : cell[(writePos + k - 1) % Cap] = spill[1][k]
  /\ rpc # "closed" => Flow(sizes, Len(delivered), Waiting, Outgoing, wclosed)
  /\ delivered \in Seq(Seq(Byte))

RingInv == Placed /\ Holding /\ Waits

-----------------------------------------------------------------------------
(* Arithmetic of the positions.                                              *)

\* A remainder is what is left of a number after a multiple of the modulus.
LEMMA Remainder ==
  ASSUME NEW M \in Nat \ {0}, NEW x \in Int
  PROVE  x % M \in 0..M - 1 /\ \E q \in Int : x = q * M + (x % M)
<1> DEFINE q == x \div M
<1>1. q \in Int /\ x % M \in 0..M - 1
  OBVIOUS
<1>2. x = q * M + (x % M)
  OBVIOUS
<1> QED BY <1>1, <1>2

\* There is one remainder.
LEMMA OneRemainder ==
  ASSUME NEW M \in Nat \ {0}, NEW x \in Int, NEW q \in Int, NEW r \in 0..M - 1, x = q * M + r
  PROVE  x % M = r
OBVIOUS

\* Numbers a multiple of the modulus apart have the same remainder.
LEMMA Congruent ==
  ASSUME NEW M \in Nat \ {0}, NEW x \in Int, NEW y \in Int, NEW z \in Int, x = y + z * M
  PROVE  x % M = y % M
<1>1. PICK q \in Int : y = q * M + (y % M)
  BY Remainder
<1>2. y % M \in 0..M - 1
  BY Remainder
<1> DEFINE r == y % M
<1> HIDE DEF r
<1>3. x = (q + z) * M + r /\ q + z \in Int
  BY <1>1 DEF r
<1>4. r \in 0..M - 1
  BY <1>2 DEF r
<1>5. x % M = r
  BY <1>3, <1>4, OneRemainder
<1> QED BY <1>5 DEF r

\* A number below twice the modulus is reduced once at most.
LEMMA SmallRemainder ==
  ASSUME NEW M \in Nat \ {0}, NEW x \in 0..2 * M - 1
  PROVE  x % M = IF x < M THEN x ELSE x - M
OBVIOUS

\* A number without remainder is a multiple.
LEMMA Multiple ==
  ASSUME NEW M \in Nat \ {0}, NEW x \in Int, x % M = 0
  PROVE  \E q \in Int : x = q * M
<1>1. PICK q \in Int : x = q * M + (x % M)
  BY Remainder
<1> DEFINE z == q * M
<1> HIDE DEF z
<1>2. z \in Int /\ x = z + (x % M)
  <2>1. \A i, j \in Int : i * j \in Int OBVIOUS
  <2> QED BY <1>1, <2>1 DEF z
<1>3. x = z
  BY <1>2
<1> QED BY <1>3 DEF z

\* What the constants are.
LEMMA RingSizes ==
  ASSUME RingAssumption
  PROVE  /\ Cap \in Nat \ {0} /\ Mod \in Nat \ {0} /\ Cap < Mod
         /\ \E m \in Int : Mod = m * Cap
         /\ HeaderBytes \in Nat \ {0} /\ MaxPending \in Nat /\ MaxAge \in Nat /\ MaxFrames \in Nat
<1>1. Cap \in Nat \ {0} /\ Mod \in Nat \ {0} /\ Cap < Mod /\ Mod % Cap = 0
  BY DEF RingAssumption
<1>2. \E m \in Int : Mod = m * Cap
  BY <1>1, Multiple
<1> QED BY <1>1, <1>2 DEF RingAssumption

\* How far ahead a position is, without remainders.
LEMMA AheadIs ==
  ASSUME RingAssumption, NEW a \in Position, NEW b \in Position
  PROVE  /\ Ahead(a, b) = IF a <= b THEN b - a ELSE b - a + Mod
         /\ Ahead(a, b) \in Position
<1>1. Mod \in Nat \ {0} BY RingSizes
<1> DEFINE x == b + Mod - a
<1>2. x \in 0..2 * Mod - 1 /\ a \in Int /\ b \in Int /\ x = b + Mod - a
  BY <1>1 DEF Position
<1>3. Ahead(a, b) = x % Mod
  BY DEF Ahead
<1> HIDE DEF x
<1>4. x % Mod = IF x < Mod THEN x ELSE x - Mod
  BY <1>1, <1>2, SmallRemainder
<1>5. x < Mod <=> ~(a <= b)
  BY <1>1, <1>2
<1>6. a <= b => x - Mod = b - a /\ b - a \in Position
  BY <1>1, <1>2 DEF Position
<1>7. ~(a <= b) => x = b - a + Mod /\ b - a + Mod \in Position
  BY <1>1, <1>2 DEF Position
<1> QED BY <1>3, <1>4, <1>5, <1>6, <1>7

\* How full the ring is: how far the writer is ahead of the reader.
LEMMA UsedIsAhead == Used = Ahead(readPos, writePos)
BY DEF Used, Ahead

\* Moving on by no more than the ring holds.
LEMMA MovedOn ==
  ASSUME RingAssumption, NEW p \in Position, NEW n \in 0..Cap
  PROVE  /\ (p + n) % Mod = IF p + n < Mod THEN p + n ELSE p + n - Mod
         /\ (p + n) % Mod \in Position
<1>1. Mod \in Nat \ {0} /\ Cap \in Nat /\ Cap < Mod BY RingSizes
<1> DEFINE x == p + n
<1>2. x \in 0..2 * Mod - 1
  BY <1>1 DEF Position
<1> HIDE DEF x
<1>3. x % Mod = IF x < Mod THEN x ELSE x - Mod
  BY <1>1, <1>2, SmallRemainder
<1> DEFINE y == x % Mod
<1> HIDE DEF y
<1>4. y = IF x < Mod THEN x ELSE x - Mod
  BY <1>3 DEF y
<1>5. y \in Position
  BY <1>1, <1>2, <1>4 DEF Position
<1>6. y = (p + n) % Mod
  BY DEF x, y
<1>7. x = p + n
  BY DEF x
<1>8. y = IF p + n < Mod THEN p + n ELSE p + n - Mod
  BY <1>4, <1>7, <1>1, <1>2 DEF Position
<1>9. (p + n) % Mod \in Position
  BY <1>5, <1>6
<1>10. (p + n) % Mod = IF p + n < Mod THEN p + n ELSE p + n - Mod
  BY <1>6, <1>8, <1>1 DEF Position
<1> QED BY <1>9, <1>10

\* A publication makes the distance longer by what was published.
LEMMA AheadGrows ==
  ASSUME RingAssumption, NEW a \in Position, NEW b \in Position, NEW n \in Nat,
         Ahead(a, b) + n <= Cap
  PROVE  Ahead(a, (b + n) % Mod) = Ahead(a, b) + n /\ (b + n) % Mod \in Position
<1>1. Mod \in Nat \ {0} /\ Cap \in Nat /\ Cap < Mod BY RingSizes
<1>2. /\ Ahead(a, b) = IF a <= b THEN b - a ELSE b - a + Mod
      /\ Ahead(a, b) \in Position
  BY AheadIs
<1>3. n \in 0..Cap
  BY <1>1, <1>2 DEF Position
<1>4. /\ (b + n) % Mod = IF b + n < Mod THEN b + n ELSE b + n - Mod
      /\ (b + n) % Mod \in Position
  BY <1>3, MovedOn
<1> DEFINE c == (b + n) % Mod
<1> HIDE DEF c
<1>5. Ahead(a, c) = IF a <= c THEN c - a ELSE c - a + Mod
  BY <1>4, AheadIs DEF c
<1>6. c = IF b + n < Mod THEN b + n ELSE b + n - Mod
  BY <1>4 DEF c
<1>7. Ahead(a, c) = Ahead(a, b) + n
  BY <1>1, <1>2, <1>3, <1>5, <1>6 DEF Position
<1> QED BY <1>4, <1>7 DEF c

\* The cell of a byte taken is the cell of the byte that many places before the end.
LEMMA SameCell ==
  ASSUME RingAssumption, NEW a \in Position, NEW b \in Position, NEW i \in Int
  PROVE  (a + i) % Cap = (b + (Cap - Ahead(a, b) + i)) % Cap
<1>1. Cap \in Nat \ {0} /\ Mod \in Nat BY RingSizes
<1>2. PICK m \in Int : Mod = m * Cap BY RingSizes
<1>3. Ahead(a, b) = IF a <= b THEN b - a ELSE b - a + Mod
  BY AheadIs
<1>4. a \in Int /\ b \in Int BY <1>1 DEF Position
<1> DEFINE x == a + i
           d == Ahead(a, b)
           y == b + (Cap - d + i)
<1>5. CASE a <= b
  <2>1. y = x + Cap /\ x \in Int /\ y \in Int
    BY <1>1, <1>3, <1>4, <1>5
  <2> DEFINE z == 1
  <2> HIDE DEF x, y
  <2>2. z \in Int /\ y = x + z * Cap
    BY <2>1, <1>1
  <2> HIDE DEF z
  <2>3. y % Cap = x % Cap
    BY <1>1, <2>1, <2>2, Congruent
  <2> QED BY <2>3 DEF x, y
<1>6. CASE ~(a <= b)
  <2>1. y = x + Cap - Mod /\ x \in Int /\ y \in Int
    BY <1>1, <1>3, <1>4, <1>6
  <2> HIDE DEF x, y
  <2>2. y = x + (1 - m) * Cap /\ 1 - m \in Int
    BY <2>1, <1>1, <1>2
  <2>3. y % Cap = x % Cap
    BY <1>1, <2>1, <2>2, Congruent
  <2> QED BY <2>3 DEF x, y
<1> QED BY <1>5, <1>6

\* Which byte of a push goes into the k-th cell behind the write position.
LEMMA PushedCell ==
  ASSUME RingAssumption, NEW p \in Position, NEW k \in 0..Cap - 1
  PROVE  LET i == (p + k) % Cap
         IN i \in 0..Cap - 1 /\ (i + Cap - (p % Cap)) % Cap = k
<1>1. Cap \in Nat \ {0} /\ Mod \in Nat BY RingSizes
<1>2. p \in Int /\ p + k \in Int /\ k \in Int BY <1>1 DEF Position
<1> DEFINE i == (p + k) % Cap
           r == p % Cap
<1>3. i \in 0..Cap - 1 /\ r \in 0..Cap - 1
  BY <1>1, <1>2, Remainder
<1>4. PICK q \in Int : p + k = q * Cap + i
  BY <1>1, <1>2, Remainder
<1>5. PICK s \in Int : p = s * Cap + r
  BY <1>1, <1>2, Remainder
<1> HIDE DEF i, r
<1>6. i + Cap - r = (s - q + 1) * Cap + k /\ s - q + 1 \in Int /\ i + Cap - r \in Int
  BY <1>1, <1>2, <1>3, <1>4, <1>5
<1>7. (i + Cap - r) % Cap = k
  BY <1>1, <1>6, OneRemainder
<1> QED BY <1>3, <1>7 DEF i, r

-----------------------------------------------------------------------------
(* The bytes of the spill.                                                   *)

\* The spill is a sequence of pieces, each of bytes.
Pieces == Seq(Seq(Byte))

\* The recursive function of Bytes(s), over the first k pieces.
SumUpTo(s, k, f) == f = [n \in 0..k |-> IF n = 0 THEN 0 ELSE f[n - 1] + Len(s[n])]

\* There is a function that sums pieces up, for every length.
LEMMA SumExists ==
  ASSUME NEW s, NEW k \in Nat
  PROVE  \E f : SumUpTo(s, k, f)
<1> DEFINE B == {m \in Nat : ~ \E f : SumUpTo(s, m, f)}
<1>1. SUFFICES ASSUME B # {} PROVE FALSE
  OBVIOUS
<1>2. PICK m \in B : \A j \in B : m <= j
  <2>1. B \in SUBSET Nat OBVIOUS
  <2> HIDE DEF B
  <2> QED BY <1>1, <2>1, LeastNumber
<1>3. m # 0
  <2>1. SumUpTo(s, 0, [n \in 0..0 |-> 0])
    BY DEF SumUpTo
  <2> QED BY <2>1
<1>4. m - 1 \in Nat /\ ~(m <= m - 1)
  BY <1>3
<1>5. PICK f : SumUpTo(s, m - 1, f)
  BY <1>2, <1>4
<1> DEFINE v == f[m - 1] + Len(s[m])
           g == [n \in 0..m |-> IF n = m THEN v ELSE f[n]]
<1>6. SumUpTo(s, m, g)
  <2> SUFFICES ASSUME NEW n \in 0..m
               PROVE  g[n] = IF n = 0 THEN 0 ELSE g[n - 1] + Len(s[n])
    BY DEF SumUpTo
  <2>1. CASE n = m
    BY <2>1, <1>3, <1>4
  <2>2. CASE n # m
    <3>1. n \in 0..m-1 /\ g[n] = f[n] /\ (n # 0 => g[n - 1] = f[n - 1])
      BY <2>2, <1>4
    <3>2. f[n] = IF n = 0 THEN 0 ELSE f[n - 1] + Len(s[n])
      BY <3>1, <1>5 DEF SumUpTo
    <3> QED BY <3>1, <3>2
  <2> QED BY <2>1, <2>2
<1> QED BY <1>6, <1>2

\* The bytes of a sequence of pieces are what that function sums up.
LEMMA BytesUnfold ==
  ASSUME NEW s \in Pieces
  PROVE  \E f : SumUpTo(s, Len(s), f) /\ Bytes(s) = f[Len(s)]
<1> DEFINE f == CHOOSE g : SumUpTo(s, Len(s), g)
<1>1. Len(s) \in Nat BY DEF Pieces
<1>2. SumUpTo(s, Len(s), f)
  BY <1>1, SumExists
<1>3. Bytes(s) = f[Len(s)]
  BY DEF Bytes, SumUpTo
<1> QED BY <1>2, <1>3

\* Its values are numbers.
LEMMA SumsAreNumbers ==
  ASSUME NEW s \in Pieces, NEW f, SumUpTo(s, Len(s), f), NEW n \in 0..Len(s)
  PROVE  f[n] \in Nat
<1> DEFINE B == {m \in 0..Len(s) : f[m] \notin Nat}
<1>1. SUFFICES ASSUME B # {} PROVE FALSE
  OBVIOUS
<1>2. PICK m \in B : \A j \in B : m <= j
  <2>1. B \in SUBSET Nat OBVIOUS
  <2> HIDE DEF B
  <2> QED BY <1>1, <2>1, LeastNumber
<1>3. m \in 0..Len(s) /\ f[m] = IF m = 0 THEN 0 ELSE f[m - 1] + Len(s[m])
  BY DEF SumUpTo
<1>4. CASE m = 0
  BY <1>3, <1>4, <1>2
<1>5. CASE m # 0
  <2>1. m - 1 \in 0..Len(s) /\ ~(m <= m - 1) /\ m \in 1..Len(s)
    BY <1>3, <1>5
  <2>2. f[m - 1] \in Nat
    BY <2>1, <1>2
  <2>3. Len(s[m]) \in Nat
    BY <2>1 DEF Pieces
  <2> QED BY <1>2, <1>3, <1>5, <2>2, <2>3
<1> QED BY <1>4, <1>5

\* The bytes of pieces are counted by a number.
LEMMA BytesIsNumber ==
  ASSUME NEW s \in Pieces
  PROVE  Bytes(s) \in Nat
<1>1. PICK f : SumUpTo(s, Len(s), f) /\ Bytes(s) = f[Len(s)]
  BY BytesUnfold
<1>2. Len(s) \in 0..Len(s) BY DEF Pieces
<1> QED BY <1>1, <1>2, SumsAreNumbers

\* An empty spill has no bytes.
LEMMA NoBytes == Bytes(<<>>) = 0
<1>1. <<>> \in Pieces /\ Len(<<>>) = 0 BY DEF Pieces
<1>2. PICK f : SumUpTo(<<>>, Len(<<>>), f) /\ Bytes(<<>>) = f[Len(<<>>)]
  BY <1>1, BytesUnfold
<1>3. f[0] = 0
  BY <1>1, <1>2 DEF SumUpTo
<1> QED BY <1>1, <1>2, <1>3

\* A piece more at the end.
LEMMA BytesAppend ==
  ASSUME NEW s \in Pieces, NEW b \in Seq(Byte)
  PROVE  Append(s, b) \in Pieces /\ Bytes(Append(s, b)) = Bytes(s) + Len(b)
<1> DEFINE t == Append(s, b)
<1>1. /\ t \in Pieces /\ Len(t) = Len(s) + 1 /\ t[Len(s) + 1] = b
      /\ \A i \in 1..Len(s) : t[i] = s[i]
  BY DEF Pieces
<1>0. Len(s) \in Nat BY DEF Pieces
<1> HIDE DEF t
<1>2. PICK f : SumUpTo(s, Len(s), f) /\ Bytes(s) = f[Len(s)]
  BY BytesUnfold
<1>3. PICK g : SumUpTo(t, Len(t), g) /\ Bytes(t) = g[Len(t)]
  BY <1>1, BytesUnfold
<1> DEFINE B == {m \in 0..Len(s) : f[m] # g[m]}
<1>4. ASSUME B # {} PROVE FALSE
  <2>1. PICK m \in B : \A j \in B : m <= j
    <3>1. B \in SUBSET Nat OBVIOUS
    <3> HIDE DEF B
    <3> QED BY <1>4, <3>1, LeastNumber
  <2>2. f[m] = IF m = 0 THEN 0 ELSE f[m - 1] + Len(s[m])
    BY <1>2 DEF SumUpTo
  <2>3. m \in 0..Len(t) /\ g[m] = IF m = 0 THEN 0 ELSE g[m - 1] + Len(t[m])
    <3>1. m \in 0..Len(t)
      BY <1>0, <1>1
    <3> QED BY <3>1, <1>3 DEF SumUpTo
  <2>4. m # 0
    BY <2>1, <2>2, <2>3
  <2>5. m - 1 \in 0..Len(s) /\ ~(m <= m - 1) /\ m \in 1..Len(s)
    BY <1>0, <2>4
  <2>6. f[m - 1] = g[m - 1] /\ t[m] = s[m]
    BY <2>1, <2>5, <1>1
  <2> QED BY <2>1, <2>2, <2>3, <2>4, <2>6
<1>5. f[Len(s)] = g[Len(s)]
  BY <1>0, <1>4
<1>6. g[Len(s) + 1] = g[Len(s)] + Len(b)
  <2>1. Len(s) + 1 \in 0..Len(t) /\ Len(s) + 1 # 0 /\ Len(s) + 1 - 1 = Len(s)
    BY <1>0, <1>1
  <2> QED BY <2>1, <1>1, <1>3 DEF SumUpTo
<1>7. Bytes(t) = Bytes(s) + Len(b)
  BY <1>1, <1>2, <1>3, <1>5, <1>6
<1> QED BY <1>1, <1>7 DEF t

\* A piece more at the front.
LEMMA BytesCons ==
  ASSUME NEW s \in Pieces, NEW b \in Seq(Byte)
  PROVE  <<b>> \o s \in Pieces /\ Bytes(<<b>> \o s) = Len(b) + Bytes(s)
<1> DEFINE t == <<b>> \o s
<1>1. /\ t \in Pieces /\ Len(t) = Len(s) + 1 /\ t[1] = b
      /\ \A i \in 1..Len(s) : t[i + 1] = s[i]
  BY DEF Pieces
<1>0. Len(s) \in Nat /\ Len(b) \in Nat BY DEF Pieces
<1> HIDE DEF t
<1>2. PICK f : SumUpTo(s, Len(s), f) /\ Bytes(s) = f[Len(s)]
  BY BytesUnfold
<1>3. PICK g : SumUpTo(t, Len(t), g) /\ Bytes(t) = g[Len(t)]
  BY <1>1, BytesUnfold
<1>4. g[0] = 0 /\ f[0] = 0 /\ g[1] = Len(b)
  <2>1. 0 \in 0..Len(t) /\ 1 \in 0..Len(t) /\ 0 \in 0..Len(s)
    BY <1>0, <1>1
  <2>2. g[0] = 0 /\ f[0] = 0
    BY <2>1, <1>2, <1>3 DEF SumUpTo
  <2>3. g[1] = g[0] + Len(t[1])
    BY <2>1, <1>3 DEF SumUpTo
  <2> QED BY <2>2, <2>3, <1>0, <1>1
<1> DEFINE B == {m \in 0..Len(s) : g[m + 1] # Len(b) + f[m]}
<1>5. ASSUME B # {} PROVE FALSE
  <2>1. PICK m \in B : \A j \in B : m <= j
    <3>1. B \in SUBSET Nat OBVIOUS
    <3> HIDE DEF B
    <3> QED BY <1>5, <3>1, LeastNumber
  <2>2. m # 0
    BY <2>1, <1>0, <1>4
  <2>3. m - 1 \in 0..Len(s) /\ ~(m <= m - 1) /\ m \in 1..Len(s) /\ m + 1 \in 0..Len(t)
        /\ m + 1 # 0 /\ m + 1 - 1 = m /\ m - 1 + 1 = m
    BY <1>0, <1>1, <2>2
  <2>4. g[m] = Len(b) + f[m - 1]
    BY <2>1, <2>3
  <2>5. f[m] = f[m - 1] + Len(s[m])
    BY <2>2, <1>2 DEF SumUpTo
  <2>6. g[m + 1] = g[m] + Len(s[m])
    <3>1. g[m + 1] = g[m + 1 - 1] + Len(t[m + 1])
      BY <2>3, <1>3 DEF SumUpTo
    <3> QED BY <3>1, <2>3, <1>1
  <2>7. f[m - 1] \in Nat /\ Len(s[m]) \in Nat
    BY <2>3, <1>2, SumsAreNumbers DEF Pieces
  <2> QED BY <2>1, <2>4, <2>5, <2>6, <2>7, <1>0
<1>6. g[Len(s) + 1] = Len(b) + f[Len(s)]
  BY <1>0, <1>5
<1>7. Bytes(t) = Len(b) + Bytes(s)
  BY <1>1, <1>2, <1>3, <1>6
<1> QED BY <1>1, <1>7 DEF t

\* Sequences of one length with the same elements are one.
LEMMA SameSequence ==
  ASSUME NEW S, NEW p \in Seq(S), NEW q \in Seq(S), Len(p) = Len(q),
         \A i \in 1..Len(p) : p[i] = q[i]
  PROVE  p = q
<1> DEFINE n == Len(p)
<1>1. p \in [1..n -> S] /\ q \in [1..n -> S]
  OBVIOUS
<1>2. \A i \in 1..n : p[i] = q[i]
  OBVIOUS
<1> HIDE DEF n
<1>3. p = [i \in 1..n |-> p[i]] /\ q = [i \in 1..n |-> q[i]]
  BY <1>1
<1>4. [i \in 1..n |-> p[i]] = [i \in 1..n |-> q[i]]
  BY <1>2
<1> QED BY <1>3, <1>4

\* A function on the first m numbers is a sequence.
LEMMA SequenceOf ==
  ASSUME NEW S, NEW m \in Nat, NEW f \in [1..m -> S]
  PROVE  f \in Seq(S) /\ Len(f) = m
OBVIOUS

\* What a sequence holds behind its first n elements.
LEMMA RestOfSequence ==
  ASSUME NEW S, NEW s \in Seq(S), NEW n \in 0..Len(s)
  PROVE  LET r == SubSeq(s, n + 1, Len(s))
         IN r \in Seq(S) /\ Len(r) = Len(s) - n /\ \A i \in 1..Len(r) : r[i] = s[n + i]
OBVIOUS

\* The first piece, and the others.
LEMMA BytesOfFirst ==
  ASSUME NEW s \in Pieces, s # <<>>
  PROVE  /\ Head(s) = s[1] /\ s[1] \in Seq(Byte) /\ Tail(s) \in Pieces
         /\ Len(Tail(s)) = Len(s) - 1 /\ \A i \in 1..Len(s) - 1 : Tail(s)[i] = s[i + 1]
         /\ Bytes(s) = Len(s[1]) + Bytes(Tail(s))
<1>1. /\ Head(s) = s[1] /\ s[1] \in Seq(Byte) /\ Tail(s) \in Pieces
      /\ Len(Tail(s)) = Len(s) - 1 /\ \A i \in 1..Len(s) - 1 : Tail(s)[i] = s[i + 1]
  BY DEF Pieces
<1>2. s = <<s[1]>> \o Tail(s)
  <2> DEFINE r == <<s[1]>> \o Tail(s)
  <2>1. s \in Seq(Seq(Byte)) /\ Len(s) \in Nat /\ Tail(s) \in Seq(Seq(Byte))
    BY <1>1 DEF Pieces
  <2>2. r \in Seq(Seq(Byte)) /\ Len(r) = Len(s) /\ r[1] = s[1]
    BY <1>1, <2>1
  <2>3. \A i \in 1..Len(Tail(s)) : r[i + 1] = Tail(s)[i]
    BY <1>1, <2>1
  <2> HIDE DEF r
  <2>4. ASSUME NEW i \in 1..Len(s) PROVE r[i] = s[i]
    <3>1. CASE i = 1
      BY <3>1, <2>2
    <3>2. CASE i # 1
      <4>1. i - 1 \in 1..Len(Tail(s)) /\ i - 1 + 1 = i
        BY <3>2, <1>1, <2>1
      <4>2. r[i - 1 + 1] = Tail(s)[i - 1]
        BY <4>1, <2>3
      <4>3. Tail(s)[i - 1] = s[i - 1 + 1]
        BY <4>1, <1>1
      <4> QED BY <4>1, <4>2, <4>3
    <3> QED BY <3>1, <3>2
  <2>5. r = s
    BY <2>1, <2>2, <2>4, SameSequence
  <2> QED BY <2>5 DEF r
<1>3. Bytes(<<s[1]>> \o Tail(s)) = Len(s[1]) + Bytes(Tail(s))
  BY <1>1, BytesCons
<1> QED BY <1>1, <1>2, <1>3

\* A single piece.
LEMMA BytesOfOne ==
  ASSUME NEW b \in Seq(Byte)
  PROVE  <<b>> \in Pieces /\ Bytes(<<b>>) = Len(b)
<1>1. <<>> \in Pieces /\ Append(<<>>, b) = <<b>> BY DEF Pieces
<1>2. Len(b) \in Nat OBVIOUS
<1>3. Bytes(Append(<<>>, b)) = 0 + Len(b) /\ Append(<<>>, b) \in Pieces
  BY <1>1, BytesAppend, NoBytes
<1> QED BY <1>1, <1>2, <1>3

-----------------------------------------------------------------------------
(* The spill.                                                                *)

\* A frame has its prefix at least.
LEMMA SizesOfFrames ==
  ASSUME RingAssumption, NEW n \in FrameSizes
  PROVE  n \in Nat /\ n >= HeaderBytes /\ n >= 1 /\ n < Mod + HeaderBytes
<1>1. HeaderBytes \in Nat \ {0} /\ Mod \in Nat BY RingSizes
<1>2. n \in HeaderBytes..(Mod + HeaderBytes - 1)
  BY DEF RingAssumption
<1> QED BY <1>1, <1>2

\* A backlog within the ceiling and one frame more is bounded.
LEMMA WithinOneFrame ==
  ASSUME RingAssumption, NEW n \in FrameSizes \cup {0}, NEW k \in Nat, k <= MaxPending + n
  PROVE  \A p : Bytes(p) = k => Backlog(p)
<1>0. MaxPending \in Nat /\ Mod \in Nat /\ HeaderBytes \in Nat BY RingSizes
<1> DEFINE top == Mod + HeaderBytes
           B   == {top - m : m \in FrameSizes \cup {0}}
<1>1. \A m \in FrameSizes \cup {0} : m \in Nat /\ m < top + 1
  BY <1>0, SizesOfFrames
<1>2. B \in SUBSET Nat /\ B # {}
  <2>1. \A m \in FrameSizes \cup {0} : top - m \in Nat
    BY <1>0, <1>1
  <2> QED BY <2>1
<1>3. PICK x \in B : \A y \in B : x <= y
  <2> HIDE DEF B
  <2> QED BY <1>2, LeastNumber
<1>4. PICK biggest \in FrameSizes \cup {0} : x = top - biggest
  BY <1>3
<1>5. \A m \in FrameSizes \cup {0} : m <= biggest
  <2> TAKE m \in FrameSizes \cup {0}
  <2>1. top - biggest <= top - m
    BY <1>3, <1>4
  <2>2. m \in Nat /\ biggest \in Nat /\ top \in Nat
    BY <1>0, <1>1
  <2> HIDE DEF top
  <2> QED BY <2>1, <2>2
<1>6. k <= MaxPending + biggest
  <2>1. n <= biggest /\ n \in Nat /\ biggest \in Nat
    BY <1>1, <1>5
  <2> QED BY <2>1, <1>0
<1> QED BY <1>5, <1>6 DEF Backlog

\* An empty spill is one.
LEMMA NothingSpilled ==
  ASSUME NEW s \in Seq(FrameSizes)
  PROVE  Spilled(<<>>, s)
<1>1. <<>> \in Seq(Seq(Byte)) /\ Len(<<>>) = 0 /\ Len(s) \in Nat
  OBVIOUS
<1> QED BY <1>1 DEF Spilled

\* A piece is never empty, so a spill without bytes is empty.
LEMMA SpillHasBytes ==
  ASSUME NEW s, NEW p, Spilled(p, s)
  PROVE  /\ p \in Pieces /\ Bytes(p) \in Nat
         /\ p = <<>> <=> Bytes(p) = 0
<1>1. p \in Pieces BY DEF Spilled, Pieces
<1>2. Bytes(p) \in Nat BY <1>1, BytesIsNumber
<1>3. CASE p = <<>>
  BY <1>1, <1>2, <1>3, NoBytes
<1>4. CASE p # <<>>
  <2>1. /\ s = s /\ Tail(p) \in Pieces /\ p[1] \in Seq(Byte)
        /\ Bytes(p) = Len(p[1]) + Bytes(Tail(p))
    BY <1>1, <1>4, BytesOfFirst
  <2>2. Bytes(Tail(p)) \in Nat
    BY <2>1, BytesIsNumber
  <2>3. 1 \in 1..Len(p)
    BY <1>1, <1>4 DEF Pieces
  <2>4. Len(p[1]) # 0 /\ Len(p[1]) \in Nat
    BY <2>1, <2>3 DEF Spilled, Piece
  <2> QED BY <1>1, <1>2, <1>4, <2>1, <2>2, <2>4
<1> QED BY <1>3, <1>4

\* The bytes of a frame, numbered.
LEMMA FrameIs ==
  ASSUME NEW f \in Nat, NEW size \in Nat
  PROVE  /\ FrameBytes(f, size) \in Seq(Byte) /\ Len(FrameBytes(f, size)) = size
         /\ \A k \in 1..size : FrameBytes(f, size)[k] = <<f, k>>
<1>1. \A k \in 1..size : <<f, k>> \in Byte
  BY DEF Byte
<1> QED BY <1>1 DEF FrameBytes

\* A frame accepted behind the spill.
LEMMA SpillGrows ==
  ASSUME RingAssumption, NEW s \in Seq(FrameSizes), NEW p, Spilled(p, s), NEW size \in FrameSizes
  PROVE  LET b == FrameBytes(Len(s) + 1, size)
         IN /\ Spilled(Append(p, b), Append(s, size))
            /\ Bytes(Append(p, b)) = Bytes(p) + size
<1> DEFINE b == FrameBytes(Len(s) + 1, size)
           q == Append(p, b)
           r == Append(s, size)
<1>0. Len(s) \in Nat /\ size \in Nat /\ size >= 1
  BY SizesOfFrames
<1>1. /\ b \in Seq(Byte) /\ Len(b) = size
      /\ \A k \in 1..size : b[k] = <<Len(s) + 1, k>>
  <2> DEFINE f == Len(s) + 1
  <2>1. f \in Nat BY <1>0
  <2> HIDE DEF f
  <2>2. /\ FrameBytes(f, size) \in Seq(Byte) /\ Len(FrameBytes(f, size)) = size
        /\ \A k \in 1..size : FrameBytes(f, size)[k] = <<f, k>>
    BY <1>0, <2>1, FrameIs
  <2> QED BY <2>2 DEF f
<1>2. /\ p \in Seq(Seq(Byte)) /\ p \in Pieces /\ Len(p) <= Len(s) /\ Len(p) \in Nat
  BY DEF Spilled, Pieces
<1> HIDE DEF b
<1>3. /\ q \in Seq(Seq(Byte)) /\ Len(q) = Len(p) + 1 /\ q[Len(p) + 1] = b
      /\ \A i \in 1..Len(p) : q[i] = p[i]
  BY <1>1, <1>2
<1>9. Len(r) = Len(s) + 1 /\ r[Len(s) + 1] = size /\ \A i \in 1..Len(s) : r[i] = s[i]
  OBVIOUS
<1>4. Bytes(q) = Bytes(p) + size
  BY <1>1, <1>2, BytesAppend
<1> HIDE DEF q, r
<1>5. ASSUME NEW j \in 1..Len(q)
      PROVE  /\ Piece(q[j], Len(r) - Len(q) + j, r[Len(r) - Len(q) + j])
             /\ j > 1 => Len(q[j]) = r[Len(r) - Len(q) + j]
  <2>1. CASE j \in 1..Len(p)
    <3>1. /\ Len(r) - Len(q) + j = Len(s) - Len(p) + j
          /\ Len(s) - Len(p) + j \in 1..Len(s) /\ (j > 1 => j \in 2..Len(p))
      BY <1>0, <1>2, <1>3, <1>9, <2>1
    <3>2. q[j] = p[j] /\ r[Len(s) - Len(p) + j] = s[Len(s) - Len(p) + j]
      BY <1>3, <1>9, <2>1, <3>1
    <3>3. /\ Piece(p[j], Len(s) - Len(p) + j, s[Len(s) - Len(p) + j])
          /\ j > 1 => Len(p[j]) = s[Len(s) - Len(p) + j]
      BY <2>1, <3>1 DEF Spilled
    <3> QED BY <3>1, <3>2, <3>3
  <2>2. CASE j = Len(p) + 1
    <3>1. Len(r) - Len(q) + j = Len(s) + 1
      BY <1>0, <1>2, <1>3, <1>9, <2>2
    <3>2. q[j] = b /\ r[Len(s) + 1] = size
      BY <1>3, <1>9, <2>2
    <3>3. Piece(b, Len(s) + 1, size)
      BY <1>0, <1>1 DEF Piece
    <3> QED BY <3>1, <3>2, <3>3, <1>1
  <2> QED BY <2>1, <2>2, <1>2, <1>3, <1>9
<1>6. Len(q) <= Len(r)
  BY <1>0, <1>2, <1>3, <1>9
<1>7. \A j \in 2..Len(q) : j \in 1..Len(q) /\ j > 1
  BY <1>2, <1>3, <1>9
<1>8. Spilled(q, r)
  BY <1>3, <1>9, <1>5, <1>6, <1>7 DEF Spilled
<1> QED BY <1>4, <1>8 DEF q, r, b

\* What a full ring left of a frame is the spill.
LEMMA SpillOpens ==
  ASSUME RingAssumption, NEW s \in Seq(FrameSizes), Len(s) > 0,
         NEW b \in Seq(Byte), b # <<>>, NEW n \in Nat, n + Len(b) = s[Len(s)],
         \A i \in 1..Len(b) : b[i] = <<Len(s), n + i>>
  PROVE  Spilled(<<b>>, s) /\ Bytes(<<b>>) = Len(b) /\ Len(b) <= s[Len(s)] /\ Len(b) \in Nat
<1>1. Len(s) \in Nat /\ Len(b) \in Nat /\ Len(b) > 0 /\ s[Len(s)] \in FrameSizes
  OBVIOUS
<1>2. s[Len(s)] \in Nat
  BY <1>1, SizesOfFrames
<1>3. <<b>> \in Seq(Seq(Byte)) /\ Len(<<b>>) = 1 /\ <<b>>[1] = b
  OBVIOUS
<1> DEFINE p == <<b>>
<1> HIDE DEF p
<1>4. Piece(b, Len(s), s[Len(s)])
  BY <1>1, <1>2 DEF Piece
<1>5. \A j \in 1..Len(p) : j = 1 /\ Len(s) - Len(p) + j = Len(s)
  BY <1>1, <1>3 DEF p
<1>6. Len(p) <= Len(s) /\ p[1] = b /\ 2..Len(p) = {}
  BY <1>1, <1>3 DEF p
<1>7. Spilled(p, s)
  BY <1>3, <1>4, <1>5, <1>6 DEF Spilled, p
<1>8. Bytes(p) = Len(b)
  BY BytesOfOne DEF p
<1> QED BY <1>1, <1>2, <1>7, <1>8 DEF p

\* What a flush leaves of a spill.
AfterFlush(p, n) ==
  IF n = Len(Head(p)) THEN Tail(p)
  ELSE <<SubSeq(Head(p), n + 1, Len(Head(p)))>> \o Tail(p)

\* A flush leaves a spill, with fewer bytes.
LEMMA SpillShrinks ==
  ASSUME RingAssumption, NEW s \in Seq(FrameSizes), NEW p, Spilled(p, s), p # <<>>,
         NEW n \in 1..Len(p[1])
  PROVE  Spilled(AfterFlush(p, n), s) /\ Bytes(AfterFlush(p, n)) <= Bytes(p)
<1> DEFINE t == Tail(p)
           h == p[1]
           c == SubSeq(h, n + 1, Len(h))
           q == <<c>> \o t
           x == Len(s) - Len(p)
<1>0. Len(s) \in Nat /\ Len(p) \in Nat /\ Len(p) <= Len(s) /\ p \in Pieces
      /\ p \in Seq(Seq(Byte)) /\ Len(p) > 0
  BY DEF Spilled, Pieces
<1>1. /\ Head(p) = h /\ h \in Seq(Byte) /\ t \in Pieces /\ t \in Seq(Seq(Byte))
      /\ Len(t) = Len(p) - 1 /\ \A i \in 1..Len(p) - 1 : t[i] = p[i + 1]
      /\ Bytes(p) = Len(h) + Bytes(t)
  BY <1>0, BytesOfFirst DEF Pieces
<1>2. Bytes(t) \in Nat /\ Len(h) \in Nat /\ n \in 1..Len(h)
  BY <1>1, BytesIsNumber
<1>3. /\ \A j \in 1..Len(p) : Piece(p[j], x + j, s[x + j])
      /\ \A j \in 2..Len(p) : Len(p[j]) = s[x + j]
  BY DEF Spilled
<1> HIDE DEF t, h, q
<1>4. CASE n = Len(h)
  <2>1. AfterFlush(p, n) = t
    BY <1>1, <1>4 DEF AfterFlush, t
  <2>2. \A j \in 1..Len(t) : /\ j + 1 \in 1..Len(p) /\ j + 1 \in 2..Len(p) /\ t[j] = p[j + 1]
                             /\ Len(s) - Len(t) + j = x + (j + 1)
    BY <1>0, <1>1
  <2>3. \A j \in 2..Len(t) : j \in 1..Len(t)
    BY <1>0, <1>1
  <2>4. Spilled(t, s)
    <3> HIDE DEF x
    <3>1. \A j \in 1..Len(t) : /\ Piece(t[j], Len(s) - Len(t) + j, s[Len(s) - Len(t) + j])
                               /\ Len(t[j]) = s[Len(s) - Len(t) + j]
      BY <1>3, <2>2
    <3>2. Len(t) <= Len(s)
      BY <1>0, <1>1
    <3> QED BY <3>1, <3>2, <2>3, <1>1 DEF Spilled
  <2> QED BY <2>1, <2>4, <1>1, <1>2
<1>5. CASE n # Len(h)
  <2>1. AfterFlush(p, n) = q
    BY <1>1, <1>5 DEF AfterFlush, t, q
  <2>2. /\ c \in Seq(Byte) /\ Len(c) = Len(h) - n /\ Len(c) \in Nat /\ Len(c) > 0
        /\ \A i \in 1..Len(c) : c[i] = h[n + i]
    BY <1>1, <1>2, <1>5
  <2> HIDE DEF c
  <2>3. /\ q \in Seq(Seq(Byte)) /\ Len(q) = Len(p) /\ q[1] = c
        /\ \A j \in 2..Len(p) : q[j] = p[j]
    <3>1. /\ q \in Seq(Seq(Byte)) /\ Len(q) = Len(t) + 1 /\ q[1] = c
          /\ \A j \in 1..Len(t) : q[j + 1] = t[j]
      BY <1>1, <2>2 DEF q
    <3>2. ASSUME NEW j \in 2..Len(p) PROVE q[j] = p[j]
      <4>1. j - 1 \in 1..Len(t) /\ j - 1 \in 1..Len(p) - 1 /\ j - 1 + 1 = j
        BY <1>0, <1>1
      <4>2. q[j - 1 + 1] = t[j - 1]
        BY <3>1, <4>1
      <4>3. t[j - 1] = p[j - 1 + 1]
        BY <1>1, <4>1
      <4> QED BY <4>1, <4>2, <4>3
    <3> QED BY <3>1, <3>2, <1>0, <1>1
  <2>4. Bytes(q) = Len(c) + Bytes(t)
    BY <1>1, <2>2, BytesCons DEF q
  <2>5. Piece(c, x + 1, s[x + 1])
    <3>1. Piece(h, x + 1, s[x + 1])
      BY <1>0, <1>3 DEF h
    <3>2. x + 1 \in 1..Len(s)
      BY <1>0
    <3>3. s[x + 1] \in Nat
      BY <3>2, SizesOfFrames
    <3> DEFINE size == s[x + 1]
               f == x + 1
    <3> HIDE DEF size, f
    <3>4. /\ Piece(h, f, size) /\ size \in Nat
      BY <3>1, <3>3 DEF size, f
    <3>5. Len(c) \in 1..size
      BY <3>4, <2>2, <1>2 DEF Piece
    <3>6. ASSUME NEW i \in 1..Len(c) PROVE c[i] = <<f, size - Len(c) + i>>
      <4>1. n + i \in 1..Len(h) /\ size - Len(h) + (n + i) = size - Len(c) + i
        BY <2>2, <1>2, <3>4
      <4>2. h[n + i] = <<f, size - Len(h) + (n + i)>>
        BY <4>1, <3>4 DEF Piece
      <4> QED BY <4>1, <4>2, <2>2
    <3>7. Piece(c, f, size)
      BY <3>5, <3>6, <2>2 DEF Piece
    <3> QED BY <3>7 DEF size, f
  <2>6. Spilled(q, s)
    <3>1. \A j \in 1..Len(q) : Piece(q[j], x + j, s[x + j])
      <4> TAKE j \in 1..Len(q)
      <4>1. CASE j = 1
        BY <4>1, <2>3, <2>5
      <4>2. CASE j # 1
        <5>1. j \in 2..Len(p) /\ j \in 1..Len(p)
          BY <4>2, <1>0, <2>3
        <5> QED BY <5>1, <2>3, <1>3
      <4> QED BY <4>1, <4>2
    <3> QED BY <3>1, <2>3, <1>0, <1>3 DEF Spilled
  <2> QED BY <2>1, <2>2, <2>4, <2>6, <1>1, <1>2
<1> QED BY <1>4, <1>5


-----------------------------------------------------------------------------
(* The steps of the writer.                                                  *)

\* A spill with fewer bytes is as bounded.
LEMMA LessBacklog ==
  ASSUME RingAssumption, NEW p \in Pieces, NEW q \in Pieces, Bytes(q) <= Bytes(p), Backlog(p)
  PROVE  Backlog(q)
<1>1. Bytes(p) \in Nat /\ Bytes(q) \in Nat
  BY BytesIsNumber
<1>2. PICK biggest \in FrameSizes \cup {0} :
        (\A n \in FrameSizes : n <= biggest) /\ Bytes(p) <= MaxPending + biggest
  BY DEF Backlog
<1>3. biggest \in Nat /\ MaxPending \in Nat
  BY RingSizes, SizesOfFrames
<1>4. Bytes(q) <= MaxPending + biggest
  BY <1>1, <1>2, <1>3
<1> QED BY <1>2, <1>4 DEF Backlog

\* No spill is within the ceiling.
LEMMA NoBacklog ==
  ASSUME RingAssumption
  PROVE  Backlog(<<>>)
<1>1. MaxPending \in Nat /\ 0 \in FrameSizes \cup {0} /\ 0 \in Nat
  BY RingSizes
<1>2. 0 <= MaxPending + 0
  BY <1>1
<1> QED BY <1>1, <1>2, NoBytes, WithinOneFrame

\* What goes into the ring fits.
LEMMA Fits ==
  ASSUME RingAssumption, Placed, NEW k \in Nat
  PROVE  LET n == Smaller(Free, k)
         IN n \in 0..k /\ Ahead(readPos, writePos) + n <= Cap
<1>1. Cap \in Nat /\ Ahead(readPos, writePos) \in Nat
  BY RingSizes, AheadIs DEF Placed, Position
<1>2. Ahead(readPos, writePos) <= Cap /\ Used = Ahead(readPos, writePos)
  BY <1>1, UsedIsAhead DEF Placed
<1> QED BY <1>1, <1>2 DEF Smaller, Free

\* The producer is closed: nothing is left to be sent, and no wait is parked.
LEMMA ClosingIsSound ==
  ASSUME RingAssumption, RingInv, wpc \in {"idle", "written"},
         wclosed' = TRUE, spill' = <<>>, wwait' \in {"none", "woken"},
         overflow' \in {"none", "bytes", "age"}, wpc' \in {"idle", "written"},
         wpc' # wpc => wpc' = "written",
         UNCHANGED <<ringVars, sizes, age, snapshot, rest, pushed, readerVars, rwait>>
  PROVE  RingInv'
<1>1. Placed'
  BY DEF RingInv, Placed, ringVars, readerVars
<1>2. Spilled(<<>>, sizes) /\ Backlog(<<>>)
  BY NothingSpilled, NoBacklog DEF RingInv, Holding
<1>3. Holding'
  BY <1>2 DEF RingInv, Holding, Latest
<1>4. Waits'
  BY DEF RingInv, Waits, ringVars, readerVars
<1> QED BY <1>1, <1>3, <1>4 DEF RingInv

\* A ceiling refuses the frame.
LEMMA RefusedStep ==
  ASSUME RingAssumption, RingInv, wpc \in {"idle", "written"}, WriteRefused,
         UNCHANGED <<readerVars, rwait>>
  PROVE  RingInv'
<1>1. wwait' \in {"none", "woken"}
  BY DEF WriteRefused, Overflow, CloseWriter, Woken, RingInv, Waits
<1> QED BY <1>1, ClosingIsSound DEF WriteRefused, Overflow, CloseWriter

\* The frame goes behind the spill.
LEMMA BehindStep ==
  ASSUME RingAssumption, RingInv, NEW size \in FrameSizes, wpc \in {"idle", "written"}, ~wclosed,
         Latest < MaxFrames, WriteBehind(FrameBytes(Latest + 1, size)), UNCHANGED <<readerVars, rwait>>
  PROVE  RingInv'
<1> DEFINE b == FrameBytes(Latest + 1, size)
<1>0. /\ Latest \in Nat /\ sizes \in Seq(FrameSizes) /\ Spilled(spill, sizes)
      /\ size \in Nat /\ MaxFrames \in Nat
  BY SizesOfFrames, RingSizes DEF RingInv, Holding, Latest
<1>1. Len(b) = size
  <2>1. Latest + 1 \in Nat BY <1>0
  <2> QED BY <1>0, <2>1, FrameIs
<1>2. /\ Spilled(Append(spill, b), Append(sizes, size))
      /\ Bytes(Append(spill, b)) = Bytes(spill) + size
  BY <1>0, SpillGrows DEF Latest
<1>3. /\ sizes' = Append(sizes, size) /\ spill' = Append(spill, b)
      /\ Bytes(spill) <= MaxPending /\ wpc' = "arm"
      /\ UNCHANGED <<age, snapshot, rest, pushed, wclosed, overflow, wwait>>
      /\ UNCHANGED ringVars /\ UNCHANGED readerVars /\ UNCHANGED rwait
  BY <1>1 DEF WriteBehind, PendingBytes
<1> HIDE DEF b
<1>4. Placed'
  BY <1>3 DEF RingInv, Placed, ringVars, readerVars
<1>5. Backlog(Append(spill, b))
  <2>1. Bytes(spill) \in Nat /\ MaxPending \in Nat
    BY <1>0, SpillHasBytes, RingSizes
  <2> DEFINE k == Bytes(Append(spill, b))
  <2>2. k \in Nat /\ k <= MaxPending + size
    BY <1>0, <1>2, <1>3, <2>1
  <2> QED BY <2>2, WithinOneFrame
<1>6. /\ Append(sizes, size) \in Seq(FrameSizes) /\ Len(Append(sizes, size)) = Latest + 1
      /\ Latest + 1 <= MaxFrames
  BY <1>0 DEF Latest
<1>7. Holding'
  BY <1>2, <1>3, <1>5, <1>6 DEF RingInv, Holding, Latest
<1>8. Waits'
  BY <1>3 DEF RingInv, Waits, ringVars, readerVars
<1> QED BY <1>4, <1>7, <1>8 DEF RingInv

\* Nothing is queued: what fits is copied into the ring.
LEMMA PushStep ==
  ASSUME RingAssumption, RingInv, NEW size \in FrameSizes, wpc \in {"idle", "written"}, ~wclosed,
         Latest < MaxFrames, WritePush(FrameBytes(Latest + 1, size)), UNCHANGED <<readerVars, rwait>>
  PROVE  RingInv'
<1> DEFINE b == FrameBytes(Latest + 1, size)
           n == Smaller(Free, Len(b))
<1>0. /\ Latest \in Nat /\ sizes \in Seq(FrameSizes) /\ Spilled(spill, sizes)
      /\ size \in Nat /\ MaxFrames \in Nat
  BY SizesOfFrames, RingSizes DEF RingInv, Holding, Latest
<1>1. b \in Seq(Byte) /\ Len(b) = size /\ \A k \in 1..size : b[k] = <<Latest + 1, k>>
  <2> DEFINE f == Latest + 1
  <2>1. f \in Nat BY <1>0
  <2> HIDE DEF f
  <2>2. /\ FrameBytes(f, size) \in Seq(Byte) /\ Len(FrameBytes(f, size)) = size
        /\ \A k \in 1..size : FrameBytes(f, size)[k] = <<f, k>>
    BY <1>0, <2>1, FrameIs
  <2> QED BY <2>2 DEF f
<1>2. n \in 0..size /\ Ahead(readPos, writePos) + n <= Cap
  BY <1>0, <1>1, Fits DEF RingInv
<1>3. /\ Bytes(spill) = 0 /\ sizes' = Append(sizes, size) /\ wpc' = "store"
      /\ pushed' = n /\ rest' = SubSeq(b, n + 1, size) /\ snapshot' \in {readPos, snapshot}
      /\ snapshot' # snapshot => snapshot' = readPos
      /\ UNCHANGED <<spill, age, wclosed, overflow, wwait, writePos, readPos>>
      /\ UNCHANGED readerVars /\ UNCHANGED rwait
  BY <1>1 DEF WritePush, PendingBytes, TakeSnapshot
<1> HIDE DEF b, n
<1>4. spill = <<>>
  BY <1>0, <1>3, SpillHasBytes
<1>5. Placed'
  BY <1>2, <1>3 DEF RingInv, Placed, readerVars
<1>6. /\ Append(sizes, size) \in Seq(FrameSizes) /\ Len(Append(sizes, size)) = Latest + 1
      /\ Append(sizes, size)[Latest + 1] = size /\ Latest + 1 <= MaxFrames /\ Latest + 1 > 0
  BY <1>0 DEF Latest
<1>7. /\ rest' \in Seq(Byte) /\ n + Len(rest') = size
      /\ \A i \in 1..Len(rest') : rest'[i] = <<Latest + 1, n + i>>
  <2>1. n \in 0..Len(b) /\ rest' = SubSeq(b, n + 1, Len(b)) /\ n \in Nat
    BY <1>0, <1>1, <1>2, <1>3
  <2>2. /\ rest' \in Seq(Byte) /\ Len(rest') = Len(b) - n
        /\ \A i \in 1..Len(rest') : rest'[i] = b[n + i]
    BY <1>1, <2>1, RestOfSequence
  <2>3. \A i \in 1..Len(rest') : n + i \in 1..size
    BY <1>0, <1>1, <2>1, <2>2
  <2>4. rest' \in Seq(Byte) /\ n + Len(rest') = size
    BY <1>0, <1>1, <2>1, <2>2
  <2>5. ASSUME NEW i \in 1..Len(rest') PROVE rest'[i] = <<Latest + 1, n + i>>
    <3>1. rest'[i] = b[n + i] BY <2>2
    <3>2. b[n + i] = <<Latest + 1, n + i>> BY <1>1, <2>3
    <3> QED BY <3>1, <3>2
  <2> QED BY <2>4, <2>5
<1>8. Spilled(<<>>, Append(sizes, size))
  BY <1>6, NothingSpilled
<1>9. Holding'
  <2>1. Latest' = Latest + 1 /\ sizes' \in Seq(FrameSizes)
    BY <1>3, <1>6 DEF Latest
  <2>2. Spilled(spill', sizes') /\ Backlog(spill') /\ spill' = <<>>
    BY <1>3, <1>4, <1>8, NoBacklog
  <2>3. pushed' + Len(rest') = sizes'[Latest']
    BY <1>3, <1>6, <1>7, <2>1
  <2>4. \A i \in 1..Len(rest') : rest'[i] = <<Latest', pushed' + i>>
    BY <1>3, <1>7, <2>1
  <2>5. Latest' <= MaxFrames /\ Latest' > 0
    BY <2>1, <1>6
  <2>6. age' \in 0..MaxAge /\ wclosed' = FALSE /\ overflow' \in {"none", "bytes", "age"} /\ wpc' = "store"
    BY <1>3 DEF RingInv, Holding
  <2> QED BY <2>1, <2>2, <2>3, <2>4, <2>5, <2>6, <1>7 DEF Holding
<1>10. Waits'
  BY <1>3, <1>4 DEF RingInv, Waits, readerVars
<1> QED BY <1>5, <1>9, <1>10 DEF RingInv

\* write(), whichever of its branches it takes.
LEMMA WriteStep ==
  ASSUME RingAssumption, RingInv, NEW size \in FrameSizes, Write(size)
  PROVE  RingInv'
BY RefusedStep, BehindStep, PushStep DEF Write, Latest


\* The bytes pushed are published; what did not fit opens the spill.
LEMMA StoreStep ==
  ASSUME RingAssumption, RingInv, Store
  PROVE  RingInv'
<1>0. /\ writePos \in Position /\ readPos \in Position /\ rload \in Position /\ pushed \in Nat
      /\ Ahead(readPos, writePos) + pushed <= Cap /\ Cap \in Nat
      /\ wpc = "store" /\ sizes \in Seq(FrameSizes) /\ spill = <<>> /\ ~wclosed
  BY RingSizes DEF RingInv, Placed, Holding, Store
<1>1. /\ Ahead(readPos, writePos') = Ahead(readPos, writePos) + pushed
      /\ writePos' \in Position
  BY <1>0, AheadGrows DEF Store
<1>2. rpc = "free" => Ahead(rload, writePos') = Ahead(rload, writePos) + pushed
  <2>1. Ahead(readPos, rload) \in Nat /\ Ahead(rload, writePos) \in Nat
        /\ Ahead(readPos, writePos) \in Nat
    BY <1>0, AheadIs DEF Position
  <2>2. rpc = "free" => Ahead(rload, writePos) + pushed <= Cap
    BY <1>0, <2>1 DEF RingInv, Placed
  <2> QED BY <1>0, <2>2, AheadGrows DEF Store
<1>3. Placed'
  <2>1. Ahead(readPos, rload) \in Nat /\ Ahead(rload, writePos) \in Nat
        /\ Ahead(readPos, writePos) \in Nat
    BY <1>0, AheadIs DEF Position
  <2>2. pushed' = 0 /\ UNCHANGED <<readPos, snapshot, rload, rpc>>
    BY DEF Store, readerVars
  <2>3. Ahead(readPos', writePos') + pushed' <= Cap
    BY <1>0, <1>1, <2>1, <2>2
  <2>4. rpc' = "free" =>
          Ahead(readPos', rload') + Ahead(rload', writePos') = Ahead(readPos', writePos')
    BY <1>0, <1>1, <1>2, <2>1, <2>2 DEF RingInv, Placed
  <2> QED BY <1>1, <2>2, <2>3, <2>4 DEF RingInv, Placed
<1>4. CASE rest = <<>>
  <2>1. wpc' = "written" /\ UNCHANGED <<spill, age, sizes, wclosed, overflow>>
    BY <1>4 DEF Store
  <2>2. Holding'
    BY <2>1, <1>0 DEF RingInv, Holding, Latest
  <2>3. Waits'
    BY <1>0, <2>1 DEF RingInv, Waits, Store, readerVars
  <2> QED BY <1>3, <2>2, <2>3 DEF RingInv
<1>5. CASE rest # <<>>
  <2>1. /\ wpc' = "arm" /\ spill' = <<rest>> /\ age' = 0
        /\ UNCHANGED <<sizes, wclosed, overflow>>
    BY <1>5 DEF Store
  <2>2. /\ Latest > 0 /\ rest \in Seq(Byte) /\ pushed + Len(rest) = sizes[Latest]
        /\ \A i \in 1..Len(rest) : rest[i] = <<Latest, pushed + i>>
    BY <1>0 DEF RingInv, Holding
  <2>3. /\ Spilled(<<rest>>, sizes) /\ Bytes(<<rest>>) = Len(rest)
        /\ Len(rest) <= sizes[Latest] /\ Len(rest) \in Nat
    BY <1>0, <1>5, <2>2, SpillOpens DEF Latest
  <2>4. Backlog(<<rest>>)
    <3>1. sizes[Latest] \in FrameSizes
      BY <1>0, <2>2 DEF Latest
    <3>2. Len(rest) <= MaxPending + sizes[Latest]
      BY <3>1, <2>3, RingSizes, SizesOfFrames
    <3> QED BY <3>1, <3>2, <2>3, WithinOneFrame
  <2>5. MaxAge \in Nat /\ 0 \in 0..MaxAge
    BY RingSizes
  <2>6. Holding'
    BY <1>0, <2>1, <2>3, <2>4, <2>5 DEF RingInv, Holding, Latest
  <2>7. Waits'
    BY <1>0, <2>1 DEF RingInv, Waits, Store, readerVars
  <2> QED BY <1>3, <2>6, <2>7 DEF RingInv
<1> QED BY <1>4, <1>5

\* The flush wait is armed against the read position the failed push saw.
LEMMA ArmStep ==
  ASSUME RingAssumption, RingInv, Arm
  PROVE  RingInv'
<1>1. Placed'
  BY DEF RingInv, Placed, Arm, ringVars, readerVars
<1>2. Holding'
  BY DEF RingInv, Holding, Latest, Arm
<1>3. Waits'
  BY DEF RingInv, Waits, Holding, Arm, ArmFlush, ringVars, readerVars
<1> QED BY <1>1, <1>2, <1>3 DEF RingInv

\* The reader is notified, by the end of a batch or of a flush.
LEMMA NotifyStep ==
  ASSUME RingAssumption, RingInv, Notify \/ FlushNotify
  PROVE  RingInv'
<1>1. Placed'
  BY DEF RingInv, Placed, Notify, FlushNotify, ringVars, readerVars
<1>2. Holding'
  BY DEF RingInv, Holding, Latest, Notify, FlushNotify
<1>3. Waits'
  BY DEF RingInv, Waits, Notify, FlushNotify, Woken, ringVars, readerVars
<1> QED BY <1>1, <1>2, <1>3 DEF RingInv

\* The flush wait resumes.
LEMMA ResumeStep ==
  ASSUME RingAssumption, RingInv, Resume
  PROVE  RingInv'
<1>1. CASE wclosed' = TRUE
  <2>1. /\ wpc = "idle" /\ wpc' = "idle" /\ wwait' = "none" /\ spill' = <<>>
        /\ overflow' \in {"none", "bytes", "age"}
        /\ UNCHANGED <<ringVars, sizes, age, snapshot, rest, pushed, readerVars, rwait>>
    BY <1>1 DEF Resume, RingInv, Holding
  <2> QED BY <1>1, <2>1, ClosingIsSound
<1>2. CASE wclosed' # TRUE
  <2>1. /\ wpc = "idle" /\ wpc' = "flush" /\ wwait' = "none" /\ ~wclosed
        /\ UNCHANGED <<wclosed, spill, overflow>>
        /\ UNCHANGED <<ringVars, sizes, age, snapshot, rest, pushed, readerVars, rwait>>
    BY <1>2 DEF Resume, RingInv, Holding
  <2>2. Placed'
    BY <2>1 DEF RingInv, Placed, ringVars, readerVars
  <2>3. Holding'
    BY <2>1 DEF RingInv, Holding, Latest
  <2>4. Waits'
    BY <2>1 DEF RingInv, Waits, ringVars, readerVars
  <2> QED BY <2>2, <2>3, <2>4 DEF RingInv
<1> QED BY <1>1, <1>2

\* The oldest frame of the spill is pushed.
LEMMA FlushStep ==
  ASSUME RingAssumption, RingInv, Flush
  PROVE  RingInv'
<1>0. /\ wpc = "flush" /\ Spilled(spill, sizes)
      /\ UNCHANGED <<writePos, readPos, sizes, spill, age, rest, wclosed, overflow, wwait>>
      /\ UNCHANGED readerVars /\ UNCHANGED rwait /\ pushed = 0
  BY DEF Flush, RingInv, Holding, Placed
<1>1. CASE spill = <<>>
  <2>1. wpc' = "flushNotify" /\ UNCHANGED <<snapshot, pushed>>
    BY <1>1 DEF Flush
  <2>2. Placed'
    BY <1>0, <2>1 DEF RingInv, Placed, readerVars
  <2>3. Holding'
    BY <1>0, <2>1 DEF RingInv, Holding, Latest
  <2>4. Waits'
    BY <1>0, <2>1 DEF RingInv, Waits, readerVars
  <2> QED BY <2>2, <2>3, <2>4 DEF RingInv
<1>2. CASE spill # <<>>
  <2> DEFINE b == Head(spill)
             n == Smaller(Free, Len(b))
  <2>1. spill \in Pieces
    BY <1>0, SpillHasBytes
  <2>2. b = spill[1] /\ b \in Seq(Byte) /\ Len(b) \in Nat
    BY <1>2, <2>1, BytesOfFirst
  <2>3. n \in 0..Len(b) /\ Ahead(readPos, writePos) + n <= Cap
    BY <2>2, Fits DEF RingInv
  <2>4. /\ pushed' = n /\ snapshot' \in {readPos, snapshot}
        /\ snapshot' # snapshot => snapshot' = readPos
        /\ wpc' = IF n = 0 THEN "flushNotify" ELSE "flushStore"
    BY <1>2 DEF Flush, TakeSnapshot
  <2> HIDE DEF n, b
  <2>5. Placed'
    BY <1>0, <2>3, <2>4, <2>2 DEF RingInv, Placed, readerVars
  <2>6. wpc' = "flushStore" => spill' # <<>> /\ pushed' \in 1..Len(spill'[1])
    BY <1>0, <1>2, <2>2, <2>3, <2>4
  <2>7. Holding'
    BY <1>0, <2>4, <2>6 DEF RingInv, Holding, Latest
  <2>8. Waits'
    BY <1>0, <2>4 DEF RingInv, Waits, readerVars
  <2> QED BY <2>5, <2>7, <2>8 DEF RingInv
<1> QED BY <1>1, <1>2

\* What was pushed is published and leaves the spill.
LEMMA FlushStoreStep ==
  ASSUME RingAssumption, RingInv, FlushStore
  PROVE  RingInv'
<1>0. /\ writePos \in Position /\ readPos \in Position /\ rload \in Position /\ pushed \in Nat
      /\ Ahead(readPos, writePos) + pushed <= Cap /\ Cap \in Nat
      /\ wpc = "flushStore" /\ sizes \in Seq(FrameSizes) /\ spill # <<>> /\ ~wclosed
      /\ pushed \in 1..Len(spill[1]) /\ Spilled(spill, sizes) /\ Backlog(spill)
  BY RingSizes DEF RingInv, Placed, Holding, FlushStore
<1>1. /\ Ahead(readPos, writePos') = Ahead(readPos, writePos) + pushed
      /\ writePos' \in Position
  BY <1>0, AheadGrows DEF FlushStore
<1>2. rpc = "free" => Ahead(rload, writePos') = Ahead(rload, writePos) + pushed
  <2>1. Ahead(readPos, rload) \in Nat /\ Ahead(rload, writePos) \in Nat
        /\ Ahead(readPos, writePos) \in Nat
    BY <1>0, AheadIs DEF Position
  <2>2. rpc = "free" => Ahead(rload, writePos) + pushed <= Cap
    BY <1>0, <2>1 DEF RingInv, Placed
  <2> QED BY <1>0, <2>2, AheadGrows DEF FlushStore
<1>3. Placed'
  <2>1. Ahead(readPos, rload) \in Nat /\ Ahead(rload, writePos) \in Nat
        /\ Ahead(readPos, writePos) \in Nat
    BY <1>0, AheadIs DEF Position
  <2>2. pushed' = 0 /\ UNCHANGED <<readPos, snapshot, rload, rpc>>
    BY DEF FlushStore, readerVars
  <2>3. Ahead(readPos', writePos') + pushed' <= Cap
    BY <1>0, <1>1, <2>1, <2>2
  <2>4. rpc' = "free" =>
          Ahead(readPos', rload') + Ahead(rload', writePos') = Ahead(readPos', writePos')
    BY <1>0, <1>1, <1>2, <2>1, <2>2 DEF RingInv, Placed
  <2> QED BY <1>1, <2>2, <2>3, <2>4 DEF RingInv, Placed
<1>4. /\ spill' = AfterFlush(spill, pushed) /\ wpc' = "flush" /\ age' = 0
      /\ UNCHANGED <<sizes, wclosed, overflow, snapshot, wwait, rest>>
  BY DEF FlushStore, DropPushed, AfterFlush
<1>5. /\ Spilled(AfterFlush(spill, pushed), sizes)
      /\ Bytes(AfterFlush(spill, pushed)) <= Bytes(spill)
  BY <1>0, SpillShrinks
<1>6. Backlog(AfterFlush(spill, pushed))
  BY <1>0, <1>5, SpillHasBytes, LessBacklog
<1>7. MaxAge \in Nat /\ 0 \in 0..MaxAge
  BY RingSizes
<1>8. Holding'
  BY <1>0, <1>4, <1>5, <1>6, <1>7 DEF RingInv, Holding, Latest
<1>9. Waits'
  BY <1>0, <1>4 DEF RingInv, Waits, FlushStore, readerVars
<1> QED BY <1>3, <1>8, <1>9 DEF RingInv

\* The age timer fires, or the owner closes the producer.
LEMMA CloseStep ==
  ASSUME RingAssumption, RingInv, AgeTimer \/ Close
  PROVE  RingInv'
<1>1. wwait' \in {"none", "woken"} /\ wpc = "idle" /\ overflow' \in {"none", "bytes", "age"}
  BY DEF AgeTimer, Close, Overflow, CloseWriter, Woken, RingInv, Waits, Holding
<1> QED BY <1>1, ClosingIsSound DEF AgeTimer, Close, Overflow, CloseWriter

\* Time passes over an open spill.
LEMMA TickStep ==
  ASSUME RingAssumption, RingInv, Tick
  PROVE  RingInv'
<1>1. age' \in 0..MaxAge
  BY RingSizes DEF Tick, RingInv, Holding
<1>2. Placed'
  BY DEF RingInv, Placed, Tick, ringVars, readerVars
<1>3. Holding'
  BY <1>1 DEF RingInv, Holding, Latest, Tick
<1>4. Waits'
  BY DEF RingInv, Waits, Tick, ringVars, readerVars
<1> QED BY <1>2, <1>3, <1>4 DEF RingInv

-----------------------------------------------------------------------------
(* The steps of the reader.                                                  *)

\* What the writer holds is not the reader's to change.
LEMMA HoldingStays ==
  ASSUME RingInv, UNCHANGED writerVars
  PROVE  Holding'
BY DEF RingInv, Holding, Latest, writerVars

\* The reader copies everything out.
LEMMA LoadStep ==
  ASSUME RingAssumption, RingInv, Load
  PROVE  RingInv'
<1>1. /\ readPos \in Position /\ writePos \in Position /\ Used = Ahead(readPos, writePos)
      /\ Mod \in Nat \ {0}
  BY UsedIsAhead, RingSizes DEF RingInv, Placed
<1>2. Ahead(writePos, writePos) = 0 /\ (Used = 0 => writePos = readPos)
  <2>1. /\ Ahead(writePos, writePos) = IF writePos <= writePos THEN writePos - writePos
                                      ELSE writePos - writePos + Mod
        /\ Ahead(readPos, writePos) = IF readPos <= writePos THEN writePos - readPos
                                     ELSE writePos - readPos + Mod
    BY <1>1, AheadIs
  <2>2. writePos \in 0..Mod - 1 /\ readPos \in 0..Mod - 1
    BY <1>1 DEF Position
  <2> QED BY <1>1, <2>1, <2>2
<1>3. Ahead(readPos, writePos) \in Nat
  BY <1>1, AheadIs DEF Position
<1>4. Placed'
  BY <1>1, <1>2, <1>3 DEF RingInv, Placed, Load, ringVars, writerVars
<1>5. Waits'
  BY DEF RingInv, Waits, Load, ringVars, writerVars
<1> QED BY <1>4, <1>5, HoldingStays DEF RingInv, Load

\* The space is given back.
LEMMA FreeSpaceStep ==
  ASSUME RingAssumption, RingInv, FreeSpace
  PROVE  RingInv'
<1>1. /\ readPos \in Position /\ writePos \in Position /\ rload \in Position /\ rpc = "free"
      /\ pushed \in Nat /\ Cap \in Nat
  BY RingSizes DEF RingInv, Placed, FreeSpace
<1>2. /\ Ahead(readPos, writePos) \in Nat /\ Ahead(readPos, rload) \in Nat
      /\ Ahead(rload, writePos) \in Nat
  BY <1>1, AheadIs DEF Position
<1>3. Ahead(rload, writePos) + pushed <= Cap
  BY <1>1, <1>2 DEF RingInv, Placed
<1>4. Placed'
  BY <1>1, <1>3 DEF RingInv, Placed, FreeSpace, writerVars
<1>5. Waits'
  BY <1>1 DEF RingInv, Waits, FreeSpace, writerVars
<1> QED BY <1>4, <1>5, HoldingStays DEF RingInv, FreeSpace

\* The reader wakes the producer, parses, waits, or resumes.
LEMMA ReadStep ==
  ASSUME RingAssumption, RingInv, WakeWriter \/ Parse \/ ArmWait \/ ResumeDrain \/ CloseReader
  PROVE  RingInv'
<1>1. UNCHANGED <<ringVars, writerVars>>
  BY DEF WakeWriter, Parse, ArmWait, ResumeDrain, CloseReader
<1>2. rload' = rload /\ rpc' \notin {"free", "arm"}
  BY DEF WakeWriter, Parse, Emit, DrainOn, RefuseOversized, ArmWait, ResumeDrain, CloseReader
<1>3. Placed'
  BY <1>1, <1>2 DEF RingInv, Placed, ringVars, writerVars
<1>4. Waits'
  <2>1. CASE WakeWriter
    BY <1>1, <2>1 DEF RingInv, Waits, WakeWriter, Woken, ringVars, writerVars
  <2>2. CASE Parse
    BY <1>1, <2>2 DEF RingInv, Waits, Parse, Emit, DrainOn, RefuseOversized, ringVars, writerVars
  <2>3. CASE ArmWait
    BY <1>1, <2>3 DEF RingInv, Waits, Placed, ArmWait, ringVars, writerVars
  <2>4. CASE ResumeDrain
    BY <1>1, <2>4 DEF RingInv, Waits, ResumeDrain, ringVars, writerVars
  <2>5. CASE CloseReader
    BY <1>1, <2>5 DEF RingInv, Waits, CloseReader, Woken, ringVars, writerVars
  <2> QED BY <2>1, <2>2, <2>3, <2>4, <2>5
<1> QED BY <1>1, <1>3, <1>4, HoldingStays DEF RingInv

-----------------------------------------------------------------------------
\* The invariant holds at first.
LEMMA RingStart ==
  ASSUME RingAssumption, Init
  PROVE  RingInv
<1>0. Mod \in Nat \ {0} /\ Cap \in Nat /\ 0 \in Position /\ MaxFrames \in Nat /\ MaxAge \in Nat
  BY RingSizes DEF Position
<1>1. Ahead(0, 0) = 0
  BY <1>0, AheadIs
<1>2. Placed
  BY <1>0, <1>1 DEF Init, Placed
<1>3. <<>> \in Seq(FrameSizes) /\ Len(<<>>) = 0
  OBVIOUS
<1>4. Holding
  <2>1. Spilled(<<>>, <<>>) /\ Backlog(<<>>)
    BY <1>3, NothingSpilled, NoBacklog
  <2>2. Spilled(spill, sizes) /\ Backlog(spill)
    BY <2>1 DEF Init
  <2>3. /\ sizes = <<>> /\ Latest = 0 /\ age = 0 /\ wpc = "idle" /\ wclosed = FALSE
        /\ overflow = "none"
    BY <1>3 DEF Init, Latest
  <2>4. sizes \in Seq(FrameSizes) /\ Latest <= MaxFrames /\ age \in 0..MaxAge
    BY <1>0, <1>3, <2>3
  <2> QED BY <2>2, <2>3, <2>4 DEF Holding
<1>5. Waits
  BY DEF Init, Waits
<1> QED BY <1>2, <1>4, <1>5 DEF RingInv

\* Every step keeps it.
LEMMA RingStep ==
  ASSUME RingAssumption, RingInv, [Next]_vars
  PROVE  RingInv'
<1>1. CASE UNCHANGED vars
  <2>1. Placed' BY <1>1 DEF RingInv, Placed, vars, ringVars, writerVars, readerVars
  <2>2. Holding' BY <1>1 DEF RingInv, Holding, Latest, vars, writerVars
  <2>3. Waits' BY <1>1 DEF RingInv, Waits, vars, ringVars, writerVars, readerVars
  <2> QED BY <2>1, <2>2, <2>3 DEF RingInv
<1>2. CASE \E size \in FrameSizes : Write(size)
  BY <1>2, WriteStep
<1>3. CASE WriterStep
  BY <1>3, StoreStep, ArmStep, NotifyStep, ResumeStep, FlushStep, FlushStoreStep DEF WriterStep
<1>4. CASE AgeTimer \/ Tick \/ Close
  BY <1>4, CloseStep, TickStep
<1>5. CASE ReaderStep \/ CloseReader
  BY <1>5, LoadStep, FreeSpaceStep, ReadStep DEF ReaderStep
<1> QED BY <1>1, <1>2, <1>3, <1>4, <1>5 DEF Next

\* The invariant is inductive.
LEMMA RingInvHolds ==
  ASSUME RingAssumption
  PROVE  Spec => []RingInv
<1>1. Init => RingInv BY RingStart
<1>2. RingInv /\ [Next]_vars => RingInv' BY RingStep
<1> QED BY <1>1, <1>2, PTL DEF Spec

\* What the run checks follows from it.
LEMMA NothingIsLost ==
  ASSUME RingAssumption, RingInv
  PROVE  NoLostWakeup
<1>1. Spilled(spill, sizes) BY DEF RingInv, Holding
<1>2. RingTypeOK
  <2>1. Used = Ahead(readPos, writePos) /\ Ahead(readPos, writePos) \in Nat /\ Cap \in Nat
    BY UsedIsAhead, AheadIs, RingSizes DEF RingInv, Placed, Position
  <2>2. Used <= Cap /\ pushed \in 0..Cap
    BY <2>1 DEF RingInv, Placed
  <2> QED BY <2>2 DEF RingTypeOK, RingInv, Placed, Holding, Waits, Position, Latest
<1>3. BacklogBounded
  BY DEF BacklogBounded, Backlog, PendingBytes, RingInv, Holding
<1>4. PendingBytes > 0 => spill # <<>>
  BY <1>1, NoBytes DEF PendingBytes
<1> QED BY <1>2, <1>3, <1>4 DEF NoLostWakeup, RingInv, Waits

\* No wake-up is lost (relay-ring.js, _armFlush, _armWait, notify): whatever the
\* capacity, the modulus of the positions and the sizes of the frames, a parked
\* reader with bytes in the ring and a parked writer whose peer has made room are
\* about to be woken, an open spill has its flush armed, and the backlog never
\* exceeds its ceiling by more than one frame.
THEOREM NoWakeupIsLost ==
  ASSUME RingAssumption
  PROVE  Spec => []NoLostWakeup
<1>1. RingInv => NoLostWakeup BY NothingIsLost
<1> QED BY <1>1, RingInvHolds, PTL


-----------------------------------------------------------------------------
(* Parts of the stream of bytes.                                             *)

\* What a concatenation holds.
LEMMA Joined ==
  ASSUME NEW S, NEW p \in Seq(S), NEW q \in Seq(S)
  PROVE  /\ p \o q \in Seq(S) /\ Len(p \o q) = Len(p) + Len(q)
         /\ \A i \in 1..Len(p) : (p \o q)[i] = p[i]
         /\ \A i \in 1..Len(q) : (p \o q)[Len(p) + i] = q[i]
         /\ \A i \in 1..Len(p \o q) : i > Len(p) => (p \o q)[i] = q[i - Len(p)]
OBVIOUS

\* A concatenation with nothing.
LEMMA JoinedToNothing ==
  ASSUME NEW S, NEW p \in Seq(S)
  PROVE  p \o <<>> = p /\ <<>> \o p = p
<1>1. <<>> \in Seq(S) /\ Len(<<>>) = 0
  OBVIOUS
<1>2. /\ p \o <<>> \in Seq(S) /\ Len(p \o <<>>) = Len(p)
      /\ \A i \in 1..Len(p) : (p \o <<>>)[i] = p[i]
  BY <1>1
<1>3. /\ <<>> \o p \in Seq(S) /\ Len(<<>> \o p) = Len(p)
      /\ \A i \in 1..Len(p) : (<<>> \o p)[i] = p[i]
  BY <1>1
<1>4. p \o <<>> = p
  BY <1>2, SameSequence
<1>5. <<>> \o p = p
  BY <1>3, SameSequence
<1> QED BY <1>4, <1>5

\* Concatenation is associative.
LEMMA JoinedTwice ==
  ASSUME NEW S, NEW p \in Seq(S), NEW q \in Seq(S), NEW r \in Seq(S)
  PROVE  (p \o q) \o r = p \o (q \o r)
<1> DEFINE pq == p \o q
           qr == q \o r
           x == pq \o r
           y == p \o qr
<1>1. /\ pq \in Seq(S) /\ Len(pq) = Len(p) + Len(q) /\ \A i \in 1..Len(p) : pq[i] = p[i]
      /\ \A i \in 1..Len(pq) : i > Len(p) => pq[i] = q[i - Len(p)]
  BY Joined
<1>2. /\ qr \in Seq(S) /\ Len(qr) = Len(q) + Len(r) /\ \A i \in 1..Len(q) : qr[i] = q[i]
      /\ \A i \in 1..Len(qr) : i > Len(q) => qr[i] = r[i - Len(q)]
  BY Joined
<1> HIDE DEF pq, qr
<1>9. pq \in Seq(S) /\ qr \in Seq(S) BY <1>1, <1>2
<1>3. /\ x \in Seq(S) /\ Len(x) = Len(pq) + Len(r) /\ \A i \in 1..Len(pq) : x[i] = pq[i]
      /\ \A i \in 1..Len(x) : i > Len(pq) => x[i] = r[i - Len(pq)]
  BY <1>9, Joined
<1>4. /\ y \in Seq(S) /\ Len(y) = Len(p) + Len(qr) /\ \A i \in 1..Len(p) : y[i] = p[i]
      /\ \A i \in 1..Len(y) : i > Len(p) => y[i] = qr[i - Len(p)]
  BY <1>9, Joined
<1> HIDE DEF x, y
<1>5. Len(p) \in Nat /\ Len(q) \in Nat /\ Len(r) \in Nat
  OBVIOUS
<1>6. ASSUME NEW i \in 1..Len(x) PROVE x[i] = y[i]
  <2>1. CASE i \in 1..Len(p)
    BY <2>1, <1>1, <1>3, <1>4, <1>5
  <2>2. CASE i > Len(p) /\ i <= Len(p) + Len(q)
    <3>1. i \in 1..Len(pq) /\ i - Len(p) \in 1..Len(q) /\ i \in 1..Len(y)
      BY <2>2, <1>1, <1>2, <1>3, <1>4, <1>5
    <3> QED BY <3>1, <2>2, <1>1, <1>2, <1>3, <1>4
  <2>3. CASE i > Len(p) + Len(q)
    <3>1. /\ i > Len(pq) /\ i \in 1..Len(y) /\ i > Len(p) /\ i - Len(p) \in 1..Len(qr)
          /\ i - Len(p) > Len(q) /\ i - Len(p) - Len(q) = i - Len(pq)
      BY <2>3, <1>1, <1>2, <1>3, <1>4, <1>5
    <3> QED BY <3>1, <1>2, <1>3, <1>4
  <2> QED BY <2>1, <2>2, <2>3, <1>5
<1>7. Len(x) = Len(y)
  BY <1>1, <1>2, <1>3, <1>4, <1>5
<1>8. x = y
  BY <1>3, <1>4, <1>6, <1>7, SameSequence
<1> QED BY <1>8 DEF x, y, pq, qr

\* A part of the stream that begins where another ends continues it.
LEMMA RunJoin ==
  ASSUME NEW s, NEW q, NEW r, NEW a, NEW b, NEW c, Run(s, q, a, b), Run(s, r, b, c)
  PROVE  Run(s, q \o r, a, c)
<1> DEFINE t == q \o r
<1>0. q \in Seq(Byte) /\ r \in Seq(Byte) /\ Len(q) \in Nat /\ Len(r) \in Nat
  BY DEF Run
<1>1. /\ t \in Seq(Byte) /\ Len(t) = Len(q) + Len(r)
      /\ \A i \in 1..Len(q) : t[i] = q[i]
      /\ \A i \in 1..Len(t) : i > Len(q) => t[i] = r[i - Len(q)]
  BY <1>0, Joined
<1>2. CASE q = <<>>
  <2>1. t = r /\ a = b
    BY <1>0, <1>2, JoinedToNothing DEF Run
  <2> HIDE DEF t
  <2> QED BY <2>1 DEF t
<1>3. CASE r = <<>>
  <2>1. t = q /\ b = c
    BY <1>0, <1>3, JoinedToNothing DEF Run
  <2> HIDE DEF t
  <2> QED BY <2>1 DEF t
<1>4. CASE q # <<>> /\ r # <<>>
  <2> HIDE DEF t
  <2>1. /\ q[1] = a /\ Following(s, q[Len(q)]) = b /\ r[1] = b /\ Following(s, r[Len(r)]) = c
        /\ \A i \in 1..Len(q) - 1 : q[i + 1] = Following(s, q[i])
        /\ \A i \in 1..Len(r) - 1 : r[i + 1] = Following(s, r[i])
        /\ Len(q) > 0 /\ Len(r) > 0
    BY <1>0, <1>4 DEF Run
  <2>2. t # <<>> /\ t[1] = a
    BY <1>0, <1>1, <2>1
  <2>3. Following(s, t[Len(t)]) = c
    <3>1. Len(t) \in 1..Len(t) /\ Len(t) > Len(q) /\ Len(t) - Len(q) = Len(r)
      BY <1>0, <1>1, <2>1
    <3> QED BY <3>1, <1>1, <2>1
  <2>4. ASSUME NEW i \in 1..Len(t)
        PROVE  t[i][1] \in 1..Len(s) /\ t[i][2] \in 1..s[t[i][1]]
    <3>1. CASE i \in 1..Len(q)
      BY <3>1, <1>1 DEF Run
    <3>2. CASE i > Len(q)
      <4>1. i - Len(q) \in 1..Len(r)
        BY <3>2, <1>0, <1>1
      <4> QED BY <4>1, <3>2, <1>1 DEF Run
    <3> QED BY <3>1, <3>2, <1>0
  <2>5. ASSUME NEW i \in 1..Len(t) - 1 PROVE t[i + 1] = Following(s, t[i])
    <3>1. CASE i < Len(q)
      <4>1. i \in 1..Len(q) - 1 /\ i \in 1..Len(q) /\ i + 1 \in 1..Len(q)
        BY <3>1, <1>0
      <4> QED BY <4>1, <1>1, <2>1
    <3>2. CASE i = Len(q)
      <4>1. i \in 1..Len(q) /\ i + 1 \in 1..Len(t) /\ i + 1 > Len(q) /\ i + 1 - Len(q) = 1
        BY <3>2, <1>0, <1>1, <2>1
      <4> QED BY <4>1, <3>2, <1>1, <2>1
    <3>3. CASE i > Len(q)
      <4>1. /\ i \in 1..Len(t) /\ i + 1 \in 1..Len(t) /\ i + 1 > Len(q)
            /\ i - Len(q) \in 1..Len(r) - 1 /\ i + 1 - Len(q) = i - Len(q) + 1
        BY <3>3, <1>0, <1>1
      <4> QED BY SMTT(30), <4>1, <3>3, <1>1, <2>1
    <3> QED BY <3>1, <3>2, <3>3, <1>0
  <2> QED BY <1>1, <2>2, <2>3, <2>4, <2>5 DEF Run, t
<1> QED BY <1>2, <1>3, <1>4

\* What comes behind the first n bytes of a part.
LEMMA RunRest ==
  ASSUME NEW s, NEW q, NEW a, NEW c, Run(s, q, a, c), NEW n \in 1..Len(q)
  PROVE  Run(s, SubSeq(q, n + 1, Len(q)), Following(s, q[n]), c)
<1> DEFINE r == SubSeq(q, n + 1, Len(q))
<1>0. /\ q \in Seq(Byte) /\ Len(q) \in Nat /\ n \in 0..Len(q) /\ q # <<>> /\ n \in Nat /\ n > 0
      /\ \A i \in 1..Len(q) - 1 : q[i + 1] = Following(s, q[i])
      /\ Following(s, q[Len(q)]) = c
  BY DEF Run
<1>1. r \in Seq(Byte) /\ Len(r) = Len(q) - n /\ \A i \in 1..Len(r) : r[i] = q[n + i]
  BY <1>0, RestOfSequence
<1> HIDE DEF r
<1>2. ASSUME NEW i \in 1..Len(r)
      PROVE  r[i][1] \in 1..Len(s) /\ r[i][2] \in 1..s[r[i][1]]
  <2>1. n + i \in 1..Len(q) BY <1>0, <1>1
  <2> QED BY <2>1, <1>1 DEF Run
<1>3. ASSUME NEW i \in 1..Len(r) - 1 PROVE r[i + 1] = Following(s, r[i])
  <2>1. /\ i \in 1..Len(r) /\ i + 1 \in 1..Len(r) /\ n + i \in 1..Len(q) - 1
        /\ n + (i + 1) = n + i + 1
    BY <1>0, <1>1
  <2> QED BY <2>1, <1>0, <1>1
<1>4. CASE n = Len(q)
  <2>1. r = <<>>
    BY <1>0, <1>1, <1>4
  <2> QED BY <2>1, <1>0, <1>1, <1>2, <1>3, <1>4 DEF Run, r
<1>5. CASE n # Len(q)
  <2>1. /\ Len(r) > 0 /\ 1 \in 1..Len(r) /\ Len(r) \in 1..Len(r) /\ n + Len(r) = Len(q)
        /\ n \in 1..Len(q) - 1
    BY <1>0, <1>1, <1>5
  <2>2. r # <<>> /\ r[1] = Following(s, q[n]) /\ Following(s, r[Len(r)]) = c
    BY <2>1, <1>0, <1>1
  <2> QED BY <2>2, <1>1, <1>2, <1>3 DEF Run, r
<1> QED BY <1>4, <1>5

\* A part that begins with a frame has all of its bytes in their order.
LEMMA RunOfFrame ==
  ASSUME NEW s, NEW q, NEW f \in Nat, NEW to, Run(s, q, <<f, 1>>, to),
         s[f] \in Nat, s[f] >= 1, s[f] <= Len(q)
  PROVE  /\ \A k \in 1..s[f] : q[k] = <<f, k>>
         /\ Following(s, q[s[f]]) = <<f + 1, 1>>
<1>0. /\ q \in Seq(Byte) /\ Len(q) \in Nat /\ q # <<>> /\ q[1] = <<f, 1>>
      /\ \A i \in 1..Len(q) - 1 : q[i + 1] = Following(s, q[i])
  BY DEF Run
<1> DEFINE B == {k \in 1..s[f] : q[k] # <<f, k>>}
<1>1. ASSUME B # {} PROVE FALSE
  <2>1. PICK k \in B : \A j \in B : k <= j
    <3>1. B \in SUBSET Nat OBVIOUS
    <3> HIDE DEF B
    <3> QED BY <1>1, <3>1, LeastNumber
  <2>2. k # 1
    BY <2>1, <1>0
  <2>3. k - 1 \in 1..s[f] /\ ~(k <= k - 1) /\ k - 1 \in 1..Len(q) - 1 /\ k - 1 + 1 = k
    BY <1>0, <2>1, <2>2
  <2>4. q[k - 1] = <<f, k - 1>>
    BY <2>1, <2>3
  <2>5. q[k] = Following(s, <<f, k - 1>>)
    BY <2>3, <2>4, <1>0
  <2>6. Following(s, <<f, k - 1>>) = <<f, k - 1 + 1>>
    BY <2>1, <2>3 DEF Following
  <2> QED BY <2>1, <2>3, <2>5, <2>6
<1>2. \A k \in 1..s[f] : q[k] = <<f, k>>
  BY <1>1
<1>3. q[s[f]] = <<f, s[f]>>
  BY <1>2
<1>4. Following(s, <<f, s[f]>>) = <<f + 1, 1>>
  BY DEF Following
<1> QED BY <1>2, <1>3, <1>4

\* Bytes of one frame are a part of the stream.
LEMMA RunWithinFrame ==
  ASSUME NEW s, Len(s) \in Nat, NEW f \in 1..Len(s), s[f] \in Nat, NEW j \in Nat,
         NEW r \in Seq(Byte), j + Len(r) <= s[f], j < s[f],
         \A k \in 1..Len(r) : r[k] = <<f, j + k>>
  PROVE  Run(s, r, <<f, j + 1>>, IF j + Len(r) < s[f] THEN <<f, j + Len(r) + 1>> ELSE <<f + 1, 1>>)
<1> DEFINE size == s[f]
           n == Len(r)
           to == IF j + n < size THEN <<f, j + n + 1>> ELSE <<f + 1, 1>>
<1>0. n \in Nat /\ size \in Nat /\ j + n <= size /\ j < size /\ f \in Nat
  OBVIOUS
<1>1. ASSUME NEW k \in 1..n
      PROVE  r[k][1] = f /\ r[k][2] = j + k /\ j + k \in 1..size
  BY <1>0
<1>2. ASSUME NEW k \in 1..n
      PROVE  Following(s, r[k]) = IF j + k < size THEN <<f, j + k + 1>> ELSE <<f + 1, 1>>
  BY <1>1 DEF Following
<1>3. ASSUME NEW k \in 1..n - 1 PROVE r[k + 1] = Following(s, r[k])
  <2>1. k \in 1..n /\ k + 1 \in 1..n /\ j + k < size /\ j + (k + 1) = j + k + 1
    BY <1>0
  <2> QED BY <2>1, <1>2
<1>4. CASE n = 0
  <2>1. r = <<>> /\ to = <<f, j + 1>>
    BY <1>0, <1>4
  <2> QED BY <2>1, <1>4 DEF Run
<1>5. CASE n # 0
  <2>1. 1 \in 1..n /\ n \in 1..n /\ r # <<>>
    BY <1>0, <1>5
  <2>2. r[1] = <<f, j + 1>> /\ Following(s, r[n]) = to
    BY <2>1, <1>2
  <2>3. \A i \in 1..n : r[i][1] \in 1..Len(s) /\ r[i][2] \in 1..s[r[i][1]]
    BY <1>1
  <2> QED BY <2>1, <2>2, <2>3, <1>3 DEF Run
<1> QED BY <1>4, <1>5

\* A frame accepted more changes nothing of the stream before it.
LEMMA RunStays ==
  ASSUME NEW s \in Seq(FrameSizes), NEW size \in FrameSizes, NEW q, NEW a, NEW b, Run(s, q, a, b)
  PROVE  Run(Append(s, size), q, a, b)
<1> DEFINE r == Append(s, size)
<1>1. Len(s) \in Nat /\ Len(r) = Len(s) + 1 /\ \A i \in 1..Len(s) : r[i] = s[i]
  OBVIOUS
<1> HIDE DEF r
<1>2. q \in Seq(Byte) /\ Len(q) \in Nat
  BY DEF Run
<1>3. ASSUME NEW i \in 1..Len(q)
      PROVE  /\ q[i][1] \in 1..Len(r) /\ q[i][2] \in 1..r[q[i][1]]
             /\ Following(r, q[i]) = Following(s, q[i])
  <2>1. q[i][1] \in 1..Len(s) /\ q[i][2] \in 1..s[q[i][1]]
    BY DEF Run
  <2>2. r[q[i][1]] = s[q[i][1]] /\ q[i][1] \in 1..Len(r)
    BY <2>1, <1>1
  <2> QED BY <2>1, <2>2 DEF Following
<1>4. q # <<>> => Len(q) \in 1..Len(q)
  BY <1>2
<1>5. \A i \in 1..Len(q) - 1 : i \in 1..Len(q)
  BY <1>2
<1>6. Run(r, q, a, b)
  <2>1. \A i \in 1..Len(q) - 1 : q[i + 1] = Following(r, q[i])
    BY <1>3, <1>5 DEF Run
  <2>2. IF q = <<>> THEN a = b ELSE q[1] = a /\ Following(r, q[Len(q)]) = b
    BY <1>3, <1>4 DEF Run
  <2> QED BY <1>2, <1>3, <2>1, <2>2 DEF Run
<1> QED BY <1>6 DEF r


-----------------------------------------------------------------------------
(* The cells of the ring.                                                    *)

\* The cells from one position to another hold bytes.
LEMMA BetweenIs ==
  ASSUME RingAssumption, NEW c \in [0..Cap - 1 -> Byte], NEW a \in Position, NEW b \in Position
  PROVE  /\ Between(c, a, b) \in Seq(Byte) /\ Len(Between(c, a, b)) = Ahead(a, b)
         /\ Ahead(a, b) \in Nat
         /\ \A i \in 1..Ahead(a, b) : Between(c, a, b)[i] = c[(a + i - 1) % Cap]
<1>1. Ahead(a, b) \in Nat /\ a \in Int /\ Cap \in Nat \ {0}
  BY AheadIs, RingSizes DEF Position
<1>2. ASSUME NEW i \in 1..Ahead(a, b) PROVE c[(a + i - 1) % Cap] \in Byte
  <2> DEFINE x == a + i - 1
  <2>1. x \in Int BY <1>1
  <2> HIDE DEF x
  <2>2. x % Cap \in 0..Cap - 1 BY <1>1, <2>1, Remainder
  <2> DEFINE y == x % Cap
  <2> HIDE DEF y
  <2>3. c[y] \in Byte BY <2>2 DEF y
  <2> QED BY <2>3 DEF x, y
<1> DEFINE n == Ahead(a, b)
           v(i) == c[(a + i - 1) % Cap]
<1>3. Between(c, a, b) = [i \in 1..n |-> v(i)]
  BY DEF Between
<1>4. \A i \in 1..n : v(i) \in Byte
  BY <1>2
<1> HIDE DEF n, v
<1>5. n \in Nat
  BY <1>1 DEF n
<1>6. /\ [i \in 1..n |-> v(i)] \in Seq(Byte) /\ Len([i \in 1..n |-> v(i)]) = n
      /\ \A i \in 1..n : [j \in 1..n |-> v(j)][i] = v(i)
  BY <1>4, <1>5
<1> QED BY <1>1, <1>3, <1>6 DEF n, v

\* The k-th byte of a push goes into the k-th cell behind the write position.
LEMMA PushPuts ==
  ASSUME RingAssumption, cell \in [0..Cap - 1 -> Byte], writePos \in Position,
         NEW b \in Seq(Byte), NEW n \in 0..Len(b), n <= Cap, PushCopy(b, n)
  PROVE  /\ cell' \in [0..Cap - 1 -> Byte]
         /\ \A k \in 1..n : cell'[(writePos + k - 1) % Cap] = b[k]
<1>1. Cap \in Nat \ {0} /\ n \in Nat /\ Len(b) \in Nat /\ n <= Len(b)
  BY RingSizes
<1> DEFINE at(i) == (i + Cap - (writePos % Cap)) % Cap
<1>2. cell' = [i \in 0..Cap - 1 |-> IF at(i) < n THEN b[at(i) + 1] ELSE cell[i]]
  BY DEF PushCopy
<1>3. \A i \in 0..Cap - 1 : at(i) \in 0..Cap - 1
  <2> TAKE i \in 0..Cap - 1
  <2>1. writePos % Cap \in Int
    BY <1>1, Remainder DEF Position
  <2> DEFINE x == i + Cap - (writePos % Cap)
  <2>2. x \in Int BY <1>1, <2>1
  <2> HIDE DEF x
  <2>3. x % Cap \in 0..Cap - 1 BY <1>1, <2>2, Remainder
  <2> QED BY <2>3 DEF x
<1>4. ASSUME NEW k \in 1..n PROVE cell'[(writePos + k - 1) % Cap] = b[k]
  <2>1. k - 1 \in 0..Cap - 1 /\ k - 1 < n /\ k - 1 + 1 = k
    BY <1>1
  <2> DEFINE i == (writePos + (k - 1)) % Cap
  <2>2. i \in 0..Cap - 1 /\ at(i) = k - 1
    BY <2>1, PushedCell
  <2>3. writePos + (k - 1) = writePos + k - 1
    BY <1>1 DEF Position
  <2>4. i = (writePos + k - 1) % Cap
    BY <2>3
  <2> HIDE DEF i, at
  <2>5. cell'[i] = b[at(i) + 1]
    BY <1>2, <2>1, <2>2
  <2> QED BY <2>1, <2>2, <2>4, <2>5
<1>5. cell' \in [0..Cap - 1 -> Byte]
  <2> HIDE DEF at
  <2>1. ASSUME NEW i \in 0..Cap - 1
        PROVE  (IF at(i) < n THEN b[at(i) + 1] ELSE cell[i]) \in Byte
    <3> DEFINE w == at(i)
    <3>1. w \in 0..Cap - 1 BY <1>3
    <3> HIDE DEF w
    <3>2. w < n => w + 1 \in 1..Len(b)
      BY <1>1, <3>1
    <3> QED BY <3>2 DEF w
  <2> QED BY <1>2, <2>1
<1> QED BY <1>4, <1>5

\* A push overwrites nothing the reader has not taken.
LEMMA PushKeeps ==
  ASSUME RingAssumption, cell \in [0..Cap - 1 -> Byte], writePos \in Position,
         NEW a \in Position, NEW n \in Nat, Ahead(a, writePos) + n <= Cap, NEW b, PushCopy(b, n)
  PROVE  Between(cell', a, writePos) = Between(cell, a, writePos)
<1>1. Cap \in Nat \ {0} /\ Ahead(a, writePos) \in Nat /\ a \in Int /\ writePos \in Int
  BY RingSizes, AheadIs DEF Position
<1> DEFINE at(i) == (i + Cap - (writePos % Cap)) % Cap
<1>2. cell' = [i \in 0..Cap - 1 |-> IF at(i) < n THEN b[at(i) + 1] ELSE cell[i]]
  BY DEF PushCopy
<1>3. ASSUME NEW j \in 1..Ahead(a, writePos)
      PROVE  cell'[(a + j - 1) % Cap] = cell[(a + j - 1) % Cap]
  <2> DEFINE k == Cap - Ahead(a, writePos) + (j - 1)
             i == (writePos + k) % Cap
  <2>1. k \in 0..Cap - 1 /\ ~(k < n) /\ j - 1 \in Int
    BY <1>1
  <2>2. (a + (j - 1)) % Cap = i
    BY <2>1, SameCell
  <2>3. a + (j - 1) = a + j - 1
    BY <1>1
  <2>4. (a + j - 1) % Cap = i
    BY <2>2, <2>3
  <2> HIDE DEF k
  <2>5. i \in 0..Cap - 1 /\ at(i) = k
    BY <2>1, PushedCell
  <2> HIDE DEF i, at
  <2>6. cell'[i] = cell[i]
    BY <1>2, <2>1, <2>5
  <2> QED BY <2>4, <2>6
<1> QED BY <1>3 DEF Between

\* What is published comes behind what the ring held.
LEMMA Published ==
  ASSUME RingAssumption, NEW c \in [0..Cap - 1 -> Byte], NEW a \in Position, NEW b \in Position,
         NEW n \in Nat, Ahead(a, b) + n <= Cap,
         NEW r \in Seq(Byte), Len(r) = n, \A k \in 1..n : c[(b + k - 1) % Cap] = r[k]
  PROVE  Between(c, a, (b + n) % Mod) = Between(c, a, b) \o r
<1> DEFINE d == (b + n) % Mod
           x == Between(c, a, d)
           y == Between(c, a, b)
           z == y \o r
           m == Ahead(a, b)
<1>1. Cap \in Nat \ {0} /\ a \in Int /\ b \in Int
  BY RingSizes DEF Position
<1>2. Ahead(a, d) = m + n /\ d \in Position
  BY AheadGrows
<1> HIDE DEF d
<1>3. x \in Seq(Byte) /\ Len(x) = m + n /\ \A i \in 1..m + n : x[i] = c[(a + i - 1) % Cap]
  BY ZenonT(60), <1>2, BetweenIs
<1>4. y \in Seq(Byte) /\ Len(y) = m /\ m \in Nat /\ \A i \in 1..m : y[i] = c[(a + i - 1) % Cap]
  BY BetweenIs
<1>5. \A i \in 1..m + n : i > m => c[(a + i - 1) % Cap] = r[i - m]
  <2> SUFFICES ASSUME NEW i \in 1..m + n, i > m PROVE c[(a + i - 1) % Cap] = r[i - m]
    OBVIOUS
  <2> DEFINE k == i - m
  <2>1. k \in 1..n /\ i \in Int /\ m \in Nat /\ k \in Int /\ i = m + k
    BY <1>4
  <2>2. (a + (i - 1)) % Cap = (b + (Cap - m + (i - 1))) % Cap
    BY <2>1, SameCell
  <2> HIDE DEF m, k
  <2>3. /\ a + (i - 1) = a + i - 1
        /\ b + (Cap - m + (i - 1)) = (b + k - 1) + 1 * Cap
        /\ b + k - 1 \in Int /\ b + (Cap - m + (i - 1)) \in Int
    BY <1>1, <2>1
  <2> DEFINE u == b + (Cap - m + (i - 1))
             v == b + k - 1
             one == 1
  <2>4. u = v + one * Cap /\ u \in Int /\ v \in Int /\ one \in Int
    BY <2>3
  <2> HIDE DEF u, v, one
  <2>5. u % Cap = v % Cap
    BY <1>1, <2>4, Congruent
  <2>6. (a + i - 1) % Cap = (b + k - 1) % Cap
    BY <2>2, <2>3, <2>5 DEF u, v
  <2>7. c[(b + k - 1) % Cap] = r[k]
    BY <2>1
  <2> QED BY <2>6, <2>7 DEF k
<1> HIDE DEF x, y, m
<1>6. /\ z \in Seq(Byte) /\ Len(z) = m + n /\ \A i \in 1..m : z[i] = y[i]
      /\ \A i \in 1..m + n : i > m => z[i] = r[i - m]
  <2>1. /\ z \in Seq(Byte) /\ Len(z) = Len(y) + Len(r) /\ \A i \in 1..Len(y) : z[i] = y[i]
        /\ \A i \in 1..Len(z) : i > Len(y) => z[i] = r[i - Len(y)]
    BY ZenonT(60), <1>4, Joined
  <2> QED BY <2>1, <1>4
<1> HIDE DEF z
<1>7. ASSUME NEW i \in 1..Len(x) PROVE x[i] = z[i]
  <2>1. CASE i <= m
    BY <2>1, <1>3, <1>4, <1>6
  <2>2. CASE i > m
    BY <2>2, <1>3, <1>5, <1>6
  <2> QED BY <2>1, <2>2, <1>3, <1>4
<1>8. x = z
  BY <1>3, <1>6, <1>7, SameSequence
<1> QED BY <1>8 DEF x, z, y, d


-----------------------------------------------------------------------------
(* The bytes on their way: the steps of the writer.                          *)

\* Where the reader stands, at most the capacity behind the writer's copy.
LEMMA BaseIsBehind ==
  ASSUME RingAssumption, Placed
  PROVE  /\ Base \in Position /\ Ahead(Base, writePos) + pushed <= Cap
         /\ Ahead(Base, writePos) <= Ahead(readPos, writePos)
<1>1. /\ readPos \in Position /\ writePos \in Position /\ rload \in Position /\ pushed \in Nat
      /\ Cap \in Nat /\ Ahead(readPos, writePos) + pushed <= Cap
  BY RingSizes DEF Placed
<1>2. /\ Ahead(readPos, writePos) \in Nat /\ Ahead(readPos, rload) \in Nat
      /\ Ahead(rload, writePos) \in Nat
  BY <1>1, AheadIs DEF Position
<1> QED BY <1>1, <1>2 DEF Base, Placed

\* A step that moves no byte, and closes the writer or leaves its next byte alone.
LEMMA NoByteMoves ==
  ASSUME Content, wpc' \notin {"store", "flushStore"},
         UNCHANGED <<cell, writePos, readPos, sizes, rload, acc, delivered, rpc>>,
         wclosed' = TRUE \/ (wclosed' = wclosed /\ Outgoing' = Outgoing)
  PROVE  Content'
<1>1. Waiting' = Waiting
  BY DEF Waiting, Base
<1>2. rpc' # "closed" => Flow(sizes', Len(delivered'), Waiting', Outgoing', wclosed')
  BY <1>1 DEF Content, Flow
<1> QED BY <1>2 DEF Content

\* The steps that copy and publish nothing.
LEMMA QuietSteps ==
  ASSUME RingAssumption, RingInv, Content,
         \/ wpc \in {"idle", "written"} /\ WriteRefused /\ UNCHANGED <<readerVars, rwait>>
         \/ Arm \/ Notify \/ Resume \/ FlushNotify \/ AgeTimer \/ Tick \/ Close
  PROVE  Content'
<1>1. /\ UNCHANGED <<cell, writePos, readPos, sizes, rload, acc, delivered, rpc>>
      /\ wpc' \notin {"store", "flushStore"} /\ wpc # "store"
      /\ wclosed' = TRUE \/ (wclosed' = wclosed /\ spill' = spill)
  BY DEF WriteRefused, Arm, Notify, Resume, FlushNotify, AgeTimer, Tick, Close, Overflow,
         CloseWriter, ringVars, readerVars
<1>2. wclosed' = TRUE \/ (wclosed' = wclosed /\ Outgoing' = Outgoing)
  BY <1>1 DEF Outgoing, Latest
<1> QED BY <1>1, <1>2, NoByteMoves

\* A frame goes behind the spill.
LEMMA ContentBehind ==
  ASSUME RingAssumption, RingInv, Content, NEW size \in FrameSizes, wpc \in {"idle", "written"},
         WriteBehind(FrameBytes(Latest + 1, size)), UNCHANGED <<readerVars, rwait>>
  PROVE  Content'
<1> DEFINE b == FrameBytes(Latest + 1, size)
<1>0. /\ Latest \in Nat /\ sizes \in Seq(FrameSizes) /\ Spilled(spill, sizes) /\ size \in Nat
      /\ spill \in Pieces /\ Len(spill) \in Nat
  BY SizesOfFrames, SpillHasBytes DEF RingInv, Holding, Latest, Pieces
<1>1. b \in Seq(Byte) /\ Len(b) = size
  <2>1. Latest + 1 \in Nat BY <1>0
  <2> QED BY <1>0, <2>1, FrameIs
<1>2. /\ sizes' = Append(sizes, size) /\ spill' = Append(spill, b) /\ spill # <<>>
      /\ wpc' = "arm"
      /\ UNCHANGED <<cell, writePos, readPos, rload, acc, delivered, rpc, wclosed>>
  BY <1>1, <1>0, SpillHasBytes, NoBytes DEF WriteBehind, PendingBytes, ringVars, readerVars
<1> HIDE DEF b
<1>3. spill' # <<>> /\ spill'[1] = spill[1]
  BY <1>0, <1>1, <1>2 DEF Pieces
<1>4. Waiting' = Waiting /\ Outgoing' = Outgoing
  BY <1>2, <1>3 DEF Waiting, Base, Outgoing
<1>5. rpc' # "closed" => Flow(sizes', Len(delivered'), Waiting', Outgoing', wclosed')
  BY <1>0, <1>2, <1>4, RunStays DEF Content, Flow
<1> QED BY <1>2, <1>5 DEF Content

\* A frame, or what fits of it, is copied into the ring.
LEMMA ContentPush ==
  ASSUME RingAssumption, RingInv, Content, NEW size \in FrameSizes, wpc \in {"idle", "written"},
         WritePush(FrameBytes(Latest + 1, size)), UNCHANGED <<readerVars, rwait>>
  PROVE  Content'
<1> DEFINE b == FrameBytes(Latest + 1, size)
           n == Smaller(Free, Len(b))
<1>0. /\ Latest \in Nat /\ sizes \in Seq(FrameSizes) /\ Spilled(spill, sizes) /\ size \in Nat
      /\ cell \in [0..Cap - 1 -> Byte] /\ writePos \in Position
  BY SizesOfFrames DEF RingInv, Holding, Placed, Content, Latest
<1>1. b \in Seq(Byte) /\ Len(b) = size /\ \A k \in 1..size : b[k] = <<Latest + 1, k>>
  <2> DEFINE f == Latest + 1
  <2>1. f \in Nat BY <1>0
  <2> HIDE DEF f
  <2>2. /\ FrameBytes(f, size) \in Seq(Byte) /\ Len(FrameBytes(f, size)) = size
        /\ \A k \in 1..size : FrameBytes(f, size)[k] = <<f, k>>
    BY <1>0, <2>1, FrameIs
  <2> QED BY <2>2 DEF f
<1>2. n \in 0..size /\ Ahead(readPos, writePos) + n <= Cap
  BY <1>0, <1>1, Fits DEF RingInv
<1>3. /\ Bytes(spill) = 0 /\ sizes' = Append(sizes, size) /\ wpc' = "store"
      /\ pushed' = n /\ PushCopy(b, n)
      /\ UNCHANGED <<spill, wclosed, writePos, readPos>>
      /\ UNCHANGED <<rload, acc, delivered, rpc>>
  BY <1>1 DEF WritePush, PendingBytes, readerVars
<1> HIDE DEF b, n
<1>4. spill = <<>>
  BY <1>0, <1>3, SpillHasBytes
<1>5. Base \in Position /\ Ahead(Base, writePos) + n <= Cap /\ n <= Cap /\ n \in Nat
  <2>1. /\ Base \in Position /\ Ahead(Base, writePos) <= Ahead(readPos, writePos)
        /\ readPos \in Position
    BY BaseIsBehind DEF RingInv, Placed
  <2>2. Ahead(Base, writePos) \in Nat /\ Ahead(readPos, writePos) \in Nat /\ Cap \in Nat
    BY <1>0, <2>1, AheadIs, RingSizes DEF Position
  <2> QED BY <1>0, <1>2, <2>1, <2>2
<1>6. /\ cell' \in [0..Cap - 1 -> Byte]
      /\ \A k \in 1..n : cell'[(writePos + k - 1) % Cap] = b[k]
  BY <1>0, <1>1, <1>2, <1>3, <1>5, PushPuts
<1>7. Between(cell', Base, writePos) = Between(cell, Base, writePos)
  BY <1>0, <1>3, <1>5, PushKeeps
<1>8. Latest' = Latest + 1
  BY <1>0, <1>3 DEF Latest
<1>9. Waiting' = Waiting
  <2>1. Base' = Base
    BY <1>3 DEF Base
  <2> QED BY <1>3, <1>7, <2>1 DEF Waiting
<1>10. Outgoing' = Outgoing
  BY <1>3, <1>4, <1>8 DEF Outgoing
<1>11. \A k \in 1..pushed' : cell'[(writePos' + k - 1) % Cap] = <<Latest', k>>
  BY <1>0, <1>1, <1>2, <1>3, <1>6, <1>8
<1>12. rpc' # "closed" => Flow(sizes', Len(delivered'), Waiting', Outgoing', wclosed')
  BY <1>0, <1>3, <1>9, <1>10, RunStays DEF Content, Flow
<1> QED BY <1>3, <1>6, <1>11, <1>12 DEF Content

\* What is left of the oldest frame in the spill, or what fits of it, is copied.
LEMMA ContentFlush ==
  ASSUME RingAssumption, RingInv, Content, Flush
  PROVE  Content'
<1>0. /\ wpc = "flush" /\ Spilled(spill, sizes)
      /\ UNCHANGED <<writePos, readPos, sizes, spill, wclosed>>
      /\ UNCHANGED <<rload, acc, delivered, rpc>>
      /\ cell \in [0..Cap - 1 -> Byte] /\ writePos \in Position
  BY DEF Flush, RingInv, Holding, Placed, Content, readerVars
<1>1. wpc' \in {"flushNotify", "flushStore"}
  BY DEF Flush
<1>2. Outgoing' = Outgoing
  BY <1>0, <1>1 DEF Outgoing, Latest
<1>3. CASE spill = <<>>
  <2>1. wpc' = "flushNotify" /\ cell' = cell
    BY <1>3 DEF Flush
  <2> QED BY <1>0, <1>2, <2>1, NoByteMoves
<1>4. CASE spill # <<>>
  <2> DEFINE b == Head(spill)
             n == Smaller(Free, Len(b))
  <2>1. b = spill[1] /\ b \in Seq(Byte) /\ Len(b) \in Nat
    BY <1>0, <1>4, SpillHasBytes, BytesOfFirst
  <2>2. n \in 0..Len(b) /\ Ahead(readPos, writePos) + n <= Cap
    BY <2>1, Fits DEF RingInv
  <2>3. pushed' = n /\ PushCopy(b, n)
    BY <1>4 DEF Flush
  <2> HIDE DEF b, n
  <2>4. Base \in Position /\ Ahead(Base, writePos) + n <= Cap /\ n <= Cap /\ n \in Nat
    <3>1. /\ Base \in Position /\ Ahead(Base, writePos) <= Ahead(readPos, writePos)
          /\ readPos \in Position
      BY BaseIsBehind DEF RingInv, Placed
    <3>2. Ahead(Base, writePos) \in Nat /\ Ahead(readPos, writePos) \in Nat /\ Cap \in Nat
      BY <1>0, <3>1, AheadIs, RingSizes DEF Position
    <3> QED BY <2>1, <2>2, <3>1, <3>2
  <2>5. /\ cell' \in [0..Cap - 1 -> Byte]
        /\ \A k \in 1..n : cell'[(writePos + k - 1) % Cap] = b[k]
    BY <1>0, <2>1, <2>2, <2>3, <2>4, PushPuts
  <2>6. Between(cell', Base, writePos) = Between(cell, Base, writePos)
    BY <1>0, <2>3, <2>4, PushKeeps
  <2>7. Waiting' = Waiting
    <3>1. Base' = Base
      BY <1>0 DEF Base
    <3> QED BY <1>0, <2>6, <3>1 DEF Waiting
  <2>8. \A k \in 1..pushed' : cell'[(writePos' + k - 1) % Cap] = spill'[1][k]
    BY <1>0, <2>1, <2>3, <2>5
  <2>9. rpc' # "closed" => Flow(sizes', Len(delivered'), Waiting', Outgoing', wclosed')
    BY <1>0, <1>2, <2>7 DEF Content
  <2> QED BY <1>0, <1>1, <2>5, <2>8, <2>9 DEF Content
<1> QED BY <1>3, <1>4

\* Publishing the bytes r that come next.
LEMMA ContentPublish ==
  ASSUME RingAssumption, RingInv, Content, writePos' = (writePos + pushed) % Mod, ~wclosed,
         wpc' \notin {"store", "flushStore"},
         UNCHANGED <<cell, readPos, sizes, wclosed, rload, acc, delivered, rpc>>,
         NEW r \in Seq(Byte), Len(r) = pushed, Run(sizes, r, Outgoing, Outgoing'),
         \A k \in 1..pushed : cell[(writePos + k - 1) % Cap] = r[k]
  PROVE  Content'
<1>0. /\ cell \in [0..Cap - 1 -> Byte] /\ writePos \in Position /\ pushed \in Nat
      /\ acc \in Seq(Byte)
  BY DEF RingInv, Placed, Content
<1>1. Base \in Position /\ Ahead(Base, writePos) + pushed <= Cap
  BY BaseIsBehind DEF RingInv
<1>2. Between(cell, Base, (writePos + pushed) % Mod) = Between(cell, Base, writePos) \o r
  BY ZenonT(60), <1>0, <1>1, Published
<1>3. Waiting' = acc \o (Between(cell, Base, writePos) \o r)
  <2>1. Base' = Base
    BY DEF Base
  <2> QED BY <1>2, <2>1 DEF Waiting
<1>4. Between(cell, Base, writePos) \in Seq(Byte)
  BY <1>0, <1>1, BetweenIs
<1>5. Waiting' = Waiting \o r
  <2> DEFINE y == Between(cell, Base, writePos)
  <2>1. y \in Seq(Byte) /\ Waiting' = acc \o (y \o r) /\ Waiting = acc \o y
    BY <1>3, <1>4 DEF Waiting
  <2> HIDE DEF y
  <2>2. (acc \o y) \o r = acc \o (y \o r)
    BY SMTT(30), <1>0, <2>1, JoinedTwice
  <2> QED BY <2>1, <2>2
<1>6. ASSUME rpc # "closed"
      PROVE  Flow(sizes', Len(delivered'), Waiting', Outgoing', wclosed')
  <2>1. Run(sizes, Waiting, <<Len(delivered) + 1, 1>>, Outgoing)
    BY <1>6 DEF Content, Flow
  <2>2. Run(sizes, Waiting \o r, <<Len(delivered) + 1, 1>>, Outgoing')
    BY <2>1, RunJoin
  <2> QED BY <1>5, <2>2 DEF Flow
<1> QED BY <1>6 DEF Content

\* The push of a new frame is published.
LEMMA ContentStore ==
  ASSUME RingAssumption, RingInv, Content, Store
  PROVE  Content'
<1>0. /\ wpc = "store" /\ wpc' \in {"written", "arm"} /\ ~wclosed
      /\ Latest > 0 /\ Latest \in Nat /\ pushed \in Nat
      /\ sizes \in Seq(FrameSizes) /\ spill = <<>> /\ rest \in Seq(Byte)
      /\ pushed + Len(rest) = sizes[Latest]
      /\ \A i \in 1..Len(rest) : rest[i] = <<Latest, pushed + i>>
      /\ \A k \in 1..pushed : cell[(writePos + k - 1) % Cap] = <<Latest, k>>
      /\ writePos' = (writePos + pushed) % Mod
      /\ UNCHANGED <<cell, readPos, sizes, wclosed, rload, acc, delivered, rpc>>
      /\ spill' = IF rest = <<>> THEN spill ELSE <<rest>>
  <2>1. wpc = "store"
    BY DEF Store
  <2>2. /\ ~wclosed /\ Latest > 0 /\ Latest \in Nat /\ sizes \in Seq(FrameSizes) /\ spill = <<>>
        /\ rest \in Seq(Byte) /\ pushed + Len(rest) = sizes[Latest]
    BY <2>1 DEF RingInv, Holding, Latest
  <2>3. \A i \in 1..Len(rest) : rest[i] = <<Latest, pushed + i>>
    BY <2>1 DEF RingInv, Holding
  <2>4. \A k \in 1..pushed : cell[(writePos + k - 1) % Cap] = <<Latest, k>>
    BY <2>1 DEF Content
  <2>5. pushed \in Nat
    BY DEF RingInv, Placed
  <2>6. /\ wpc' \in {"written", "arm"} /\ writePos' = (writePos + pushed) % Mod
        /\ UNCHANGED <<cell, readPos, sizes, wclosed, rload, acc, delivered, rpc>>
        /\ spill' = IF rest = <<>> THEN spill ELSE <<rest>>
    BY DEF Store, readerVars
  <2> QED BY <2>1, <2>2, <2>3, <2>4, <2>5, <2>6
<1>1. sizes[Latest] \in Nat /\ sizes[Latest] >= 1 /\ Latest \in 1..Len(sizes) /\ Len(sizes) \in Nat
  BY <1>0, SizesOfFrames DEF Latest
<1> DEFINE size == sizes[Latest]
           r == [k \in 1..pushed |-> <<Latest, 0 + k>>]
<1>2. /\ r \in Seq(Byte) /\ Len(r) = pushed /\ \A k \in 1..Len(r) : r[k] = <<Latest, 0 + k>>
  <2>1. \A k \in 1..pushed : <<Latest, 0 + k>> \in Byte
    BY <1>0 DEF Byte
  <2> QED BY <1>0, <2>1
<1>3. Len(rest) \in Nat /\ pushed <= size
  BY <1>0, <1>1
<1> HIDE DEF r, size
<1>4. Run(sizes, r, <<Latest, 0 + 1>>,
          IF 0 + Len(r) < size THEN <<Latest, 0 + Len(r) + 1>> ELSE <<Latest + 1, 1>>)
  <2>1. 0 + Len(r) <= size /\ 0 < size /\ 0 \in Nat
    BY <1>1, <1>2, <1>3 DEF size
  <2> QED BY <1>1, <1>2, <2>1, RunWithinFrame DEF size
<1>5. Outgoing = <<Latest, 0 + 1>>
  BY <1>0 DEF Outgoing
<1>6. Outgoing' = IF 0 + Len(r) < size THEN <<Latest, 0 + Len(r) + 1>> ELSE <<Latest + 1, 1>>
  <2>1. Latest' = Latest
    BY <1>0 DEF Latest
  <2>2. CASE rest = <<>>
    <3>1. ~(0 + Len(r) < size)
      BY <1>0, <1>1, <1>2, <2>2 DEF size
    <3> QED BY <3>1, <2>1, <2>2, <1>0 DEF Outgoing
  <2>3. CASE rest # <<>>
    <3>1. 0 + Len(r) < size /\ 1 \in 1..Len(rest)
      BY <1>0, <1>1, <1>2, <1>3, <2>3 DEF size
    <3>2. rest[1] = <<Latest, 0 + Len(r) + 1>>
      BY <1>0, <1>2, <3>1
    <3>3. spill' = <<rest>> /\ spill' # <<>> /\ spill'[1] = rest
      BY <1>0, <2>3
    <3> QED BY <3>1, <3>2, <3>3, <1>0 DEF Outgoing
  <2> QED BY <2>2, <2>3
<1>7. Run(sizes, r, Outgoing, Outgoing')
  BY <1>4, <1>5, <1>6
<1>8. \A k \in 1..pushed : cell[(writePos + k - 1) % Cap] = r[k]
  <2> TAKE k \in 1..pushed
  <2>1. r[k] = <<Latest, 0 + k>> /\ 0 + k = k
    BY SMTT(30), <1>0, <1>2
  <2>2. cell[(writePos + k - 1) % Cap] = <<Latest, k>>
    BY <1>0
  <2> QED BY <2>1, <2>2
<1>9. wpc' \notin {"store", "flushStore"}
  BY <1>0
<1> QED BY <1>0, <1>2, <1>7, <1>8, <1>9, ContentPublish

\* What a flush pushed is published.
LEMMA ContentFlushStore ==
  ASSUME RingAssumption, RingInv, Content, FlushStore
  PROVE  Content'
<1>0. /\ wpc = "flushStore" /\ wpc' = "flush" /\ ~wclosed /\ Latest \in Nat
      /\ sizes \in Seq(FrameSizes) /\ Spilled(spill, sizes) /\ spill # <<>>
      /\ pushed \in 1..Len(spill[1]) /\ spill' = AfterFlush(spill, pushed)
      /\ \A k \in 1..pushed : cell[(writePos + k - 1) % Cap] = spill[1][k]
      /\ writePos' = (writePos + pushed) % Mod
      /\ UNCHANGED <<cell, readPos, sizes, wclosed, rload, acc, delivered, rpc>>
  BY DEF FlushStore, DropPushed, AfterFlush, RingInv, Holding, Content, Latest, readerVars
<1> DEFINE h == spill[1]
           f == Len(sizes) - Len(spill) + 1
           size == sizes[f]
           j == size - Len(h)
           t == Tail(spill)
           r == SubSeq(h, 1, pushed)
<1>1. /\ spill \in Pieces /\ Len(spill) \in Nat /\ Len(spill) > 0
      /\ Len(sizes) \in Nat /\ Len(spill) <= Len(sizes)
  BY <1>0, SpillHasBytes DEF Spilled, Pieces
<1>2. f \in 1..Len(sizes) /\ size \in Nat /\ size >= 1 /\ f \in Nat
  <2>1. f \in 1..Len(sizes) /\ f \in Nat BY <1>1
  <2> HIDE DEF f
  <2> QED BY <2>1, <1>0, SizesOfFrames
<1>3. /\ h \in Seq(Byte) /\ Len(h) \in 1..size
      /\ \A i \in 1..Len(h) : h[i] = <<f, size - Len(h) + i>>
  <2>1. 1 \in 1..Len(spill) /\ Spilled(spill, sizes)
    BY <1>0, <1>1
  <2> HIDE DEF h, size, j, t, r
  <2>2. Piece(spill[1], Len(sizes) - Len(spill) + 1, sizes[Len(sizes) - Len(spill) + 1])
    BY <2>1 DEF Spilled
  <2>3. Piece(h, f, size)
    BY <2>2 DEF h, size
  <2> HIDE DEF f
  <2> QED BY <2>3 DEF Piece
<1>4. /\ Head(spill) = h /\ Len(t) = Len(spill) - 1 /\ t \in Pieces
      /\ \A i \in 1..Len(spill) - 1 : t[i] = spill[i + 1]
  BY <1>0, <1>1, BytesOfFirst
<1>5. /\ r \in Seq(Byte) /\ Len(r) = pushed /\ \A k \in 1..Len(r) : r[k] = h[k]
  BY <1>0, <1>3
<1> HIDE DEF r, t, h, f, size
<1>6. pushed \in 1..Len(h) /\ pushed \in Nat /\ Len(h) \in Nat /\ j \in Nat /\ j < size
  BY <1>0, <1>2, <1>3 DEF h
<1>7. \A k \in 1..Len(r) : r[k] = <<f, j + k>>
  <2> TAKE k \in 1..Len(r)
  <2>1. k \in 1..Len(h)
    BY <1>5, <1>6
  <2> QED BY <2>1, <1>3, <1>5
<1>8. Run(sizes, r, <<f, j + 1>>, IF j + Len(r) < size THEN <<f, j + Len(r) + 1>> ELSE <<f + 1, 1>>)
  <2>1. j + Len(r) <= size
    BY <1>2, <1>3, <1>5, <1>6
  <2> HIDE DEF j
  <2> QED BY <1>1, <1>2, <1>5, <1>6, <1>7, <2>1, RunWithinFrame DEF size
<1>9. Outgoing = <<f, j + 1>>
  <2>1. h[1] = <<f, j + 1>>
    BY <1>3, <1>6
  <2> QED BY <1>0, <2>1 DEF Outgoing, h
<1>10. Outgoing' = IF j + Len(r) < size THEN <<f, j + Len(r) + 1>> ELSE <<f + 1, 1>>
  <2>1. Latest' = Latest /\ wpc' # "store"
    BY <1>0 DEF Latest
  <2>2. CASE pushed = Len(h)
    <3>1. spill' = t /\ ~(j + Len(r) < size)
      <4>1. spill' = t
        BY <1>0, <1>4, <2>2 DEF AfterFlush, t
      <4>2. ~(j + Len(r) < size)
        BY <1>2, <1>5, <1>6, <2>2
      <4> QED BY <4>1, <4>2
    <3>2. CASE t = <<>>
      <4>1. f = Latest
        <5>1. Len(t) = 0
          BY <3>2
        <5>2. Len(t) = Len(spill) - 1 /\ Len(spill) \in Nat /\ Len(sizes) \in Nat
          BY <1>1, <1>4
        <5> DEFINE x == Len(sizes)
                   y == Len(spill)
        <5>4. y - 1 = 0 /\ y \in Nat /\ x \in Nat
          BY <5>1, <5>2
        <5> HIDE DEF x, y
        <5>5. x - y + 1 = x
          BY <5>4
        <5>3. Len(sizes) - Len(spill) + 1 = Len(sizes)
          BY <5>5 DEF x, y
        <5> QED BY <5>3 DEF f, Latest
      <4> QED BY <2>1, <3>1, <3>2, <4>1 DEF Outgoing
    <3>3. CASE t # <<>>
      <4>1. 1 \in 1..Len(spill) - 1 /\ 2 \in 1..Len(spill) /\ 2 \in 2..Len(spill)
        BY <1>1, <1>4, <3>3 DEF Pieces
      <4>2. t[1] = spill[2]
        BY <1>4, <4>1
      <4>3. Piece(spill[2], f + 1, sizes[f + 1]) /\ Len(spill[2]) = sizes[f + 1]
        <5>1. Len(sizes) - Len(spill) + 2 = f + 1
          BY <1>1 DEF f
        <5>2. /\ Piece(spill[2], Len(sizes) - Len(spill) + 2, sizes[Len(sizes) - Len(spill) + 2])
              /\ Len(spill[2]) = sizes[Len(sizes) - Len(spill) + 2]
          BY <1>0, <4>1 DEF Spilled
        <5> QED BY <5>1, <5>2
      <4> DEFINE g == spill[2]
                 x == sizes[f + 1]
      <4> HIDE DEF g, x
      <4>4. Piece(g, f + 1, x) /\ Len(g) = x
        BY <4>3 DEF g, x
      <4>5. Len(g) \in Nat /\ 1 \in 1..Len(g) /\ x - Len(g) + 1 = 1
        BY <4>4 DEF Piece
      <4>6. g[1] = <<f + 1, 1>>
        BY <4>4, <4>5 DEF Piece
      <4> QED BY <2>1, <3>1, <3>3, <4>2, <4>6 DEF Outgoing, g
    <3> QED BY <3>2, <3>3
  <2>3. CASE pushed # Len(h)
    <3> DEFINE c == SubSeq(h, pushed + 1, Len(h))
    <3>1. spill' = <<c>> \o t
      BY <1>0, <1>4, <2>3 DEF AfterFlush, t
    <3>2. c \in Seq(Byte) /\ Len(c) > 0 /\ c[1] = h[pushed + 1] /\ pushed + 1 \in 1..Len(h)
      BY <1>3, <1>6, <2>3
    <3> HIDE DEF c
    <3>3. spill' # <<>> /\ spill'[1] = c
      BY <1>4, <3>1, <3>2 DEF Pieces
    <3>4. j + Len(r) < size /\ c[1] = <<f, j + Len(r) + 1>>
      <4>1. h[pushed + 1] = <<f, j + (pushed + 1)>>
        BY <1>3, <3>2
      <4>2. j + (pushed + 1) = j + Len(r) + 1 /\ j + Len(r) < size
        BY <1>2, <1>3, <1>5, <1>6, <2>3
      <4> QED BY <3>2, <4>1, <4>2
    <3> QED BY <2>1, <3>3, <3>4 DEF Outgoing
  <2> QED BY <2>2, <2>3
<1>11. Run(sizes, r, Outgoing, Outgoing')
  BY <1>8, <1>9, <1>10
<1>12. \A k \in 1..pushed : cell[(writePos + k - 1) % Cap] = r[k]
  BY <1>0, <1>5 DEF h
<1>13. wpc' \notin {"store", "flushStore"}
  BY <1>0
<1> QED BY <1>0, <1>5, <1>11, <1>12, <1>13, ContentPublish


-----------------------------------------------------------------------------
(* The bytes on their way: the steps of the reader.                          *)

\* Everything published is copied out of the ring.
LEMMA ContentLoad ==
  ASSUME RingAssumption, RingInv, Content, Load
  PROVE  Content'
<1>0. /\ cell \in [0..Cap - 1 -> Byte] /\ readPos \in Position /\ writePos \in Position
      /\ acc \in Seq(Byte) /\ rpc = "load" /\ Base = readPos
      /\ UNCHANGED <<ringVars, writerVars, wwait, delivered, rwait>> /\ rload' = writePos
      /\ rpc' = IF Used = 0 THEN "arm" ELSE "free"
      /\ Used = Ahead(readPos, writePos)
  BY UsedIsAhead DEF RingInv, Placed, Content, Load, Base
<1> DEFINE y == Between(cell, readPos, writePos)
<1>1. y \in Seq(Byte) /\ Len(y) = Ahead(readPos, writePos)
  BY <1>0, BetweenIs
<1>2. acc' = Waiting
  BY <1>0 DEF Load, Waiting, Between
<1>3. Waiting \in Seq(Byte)
  BY <1>0, <1>1, Joined DEF Waiting
<1>4. Between(cell', Base', writePos') = <<>>
  <2> DEFINE b == Base'
             z == Between(cell, b, writePos)
  <2>1. b \in Position /\ Ahead(b, writePos) = 0 /\ cell' = cell /\ writePos' = writePos
    <3>1. writePos \in Nat /\ Mod \in Nat \ {0}
      BY <1>0, RingSizes DEF Position
    <3>2. Ahead(writePos, writePos) = 0
      BY <1>0, <3>1, AheadIs
    <3>3. b = IF Used = 0 THEN readPos ELSE writePos
      BY <1>0 DEF Base, ringVars
    <3> QED BY <1>0, <3>2, <3>3 DEF ringVars
  <2> HIDE DEF b
  <2>2. z \in Seq(Byte) /\ Len(z) = 0
    BY <1>0, <2>1, BetweenIs
  <2> HIDE DEF z
  <2>3. z = <<>>
    BY <2>2
  <2> QED BY <2>1, <2>3 DEF z, b
<1>5. Waiting' = Waiting
  <2>1. Waiting' = Waiting \o <<>>
    BY <1>2, <1>4 DEF Waiting
  <2> QED BY <2>1, <1>3, JoinedToNothing
<1>6. Outgoing' = Outgoing /\ Latest' = Latest
  BY <1>0 DEF Outgoing, Latest, writerVars
<1>7. Flow(sizes', Len(delivered'), Waiting', Outgoing', wclosed')
  BY <1>0, <1>5, <1>6 DEF Content, writerVars
<1> QED BY <1>0, <1>2, <1>3, <1>6, <1>7 DEF Content, ringVars, writerVars

\* A complete frame leaves the accumulator: the next one in order, whole.
LEMMA EmittedIs ==
  ASSUME RingAssumption, RingInv, Content, Emit
  PROVE  LET f == Len(delivered) + 1 IN
         /\ f \in 1..Latest /\ sizes[f] \in Nat /\ Declared = sizes[f]
         /\ SubSeq(acc, 1, Declared) = FrameBytes(f, sizes[f])
         /\ Waiting \in Seq(Byte) /\ sizes[f] \in 1..Len(acc)
         /\ Following(sizes, Waiting[sizes[f]]) = <<f + 1, 1>>
<1> DEFINE f == Len(delivered) + 1
           size == sizes[f]
           y == Between(cell, Base, writePos)
           q == acc \o y
<1>0. /\ rpc = "parse" /\ Len(acc) >= HeaderBytes /\ Len(acc) >= Declared
      /\ acc \in Seq(Byte) /\ delivered \in Seq(Seq(Byte)) /\ sizes \in Seq(FrameSizes)
      /\ HeaderBytes >= 1 /\ Len(acc) \in Nat /\ f \in Nat /\ HeaderBytes \in Nat
  BY RingSizes DEF Emit, RingInv, Holding, Content
<1>1. y \in Seq(Byte)
  BY BaseIsBehind, BetweenIs DEF RingInv, Placed, Content
<1> HIDE DEF y
<1>2. q \in Seq(Byte) /\ Len(q) >= Len(acc) /\ \A i \in 1..Len(acc) : q[i] = acc[i]
  BY <1>0, <1>1, Joined
<1>3. PICK to : Run(sizes, Waiting, <<f, 1>>, to)
  BY <1>0 DEF Content, Flow
<1>4. Waiting = q
  BY DEF Waiting, y
<1> HIDE DEF q
<1>5. q # <<>> /\ q[1] = acc[1] /\ 1 \in 1..Len(q)
  BY <1>0, <1>2
<1>6. acc[1] = <<f, 1>> /\ f \in 1..Len(sizes)
  <2>1. q[1] = <<f, 1>> /\ q[1][1] \in 1..Len(sizes)
    BY <1>3, <1>4, <1>5 DEF Run
  <2> HIDE DEF f
  <2> QED BY <2>1, <1>5
<1> HIDE DEF f
<1>7. Declared = size
  BY <1>6 DEF Declared
<1>8. size \in Nat /\ size >= 1
  BY <1>0, <1>6, SizesOfFrames
<1>9. size <= Len(q) /\ size \in 1..Len(acc)
  BY <1>0, <1>2, <1>7, <1>8
<1>10. /\ \A k \in 1..size : q[k] = <<f, k>>
       /\ Following(sizes, q[size]) = <<f + 1, 1>>
  BY <1>0, <1>3, <1>4, <1>8, <1>9, RunOfFrame
<1>11. SubSeq(acc, 1, size) = FrameBytes(f, size)
  <2> HIDE DEF size
  <2> DEFINE x == SubSeq(acc, 1, size)
             z == FrameBytes(f, size)
  <2>1. x \in Seq(Byte) /\ Len(x) = size /\ \A k \in 1..size : x[k] = acc[k]
    BY <1>0, <1>9
  <2>2. z \in Seq(Byte) /\ Len(z) = size /\ \A k \in 1..size : z[k] = <<f, k>>
    BY <1>0, <1>8, FrameIs
  <2>3. \A k \in 1..size : acc[k] = <<f, k>>
    BY SMTT(30), <1>2, <1>9, <1>10
  <2> HIDE DEF x, z
  <2>4. x = z
    BY <2>1, <2>2, <2>3, SameSequence
  <2> QED BY <2>4 DEF x, z
<1> QED BY <1>2, <1>4, <1>6, <1>7, <1>8, <1>9, <1>10, <1>11 DEF f, Latest

\* What is left of the accumulator continues what was emitted.
LEMMA ContentEmit ==
  ASSUME RingAssumption, RingInv, Content, Emit, UNCHANGED <<ringVars, writerVars, rload>>
  PROVE  Content'
<1> DEFINE f == Len(delivered) + 1
           n == sizes[f]
           y == Between(cell, Base, writePos)
<1>0. /\ acc \in Seq(Byte) /\ delivered \in Seq(Seq(Byte)) /\ f \in Nat /\ rpc = "parse"
      /\ rpc' = "parse" /\ Len(delivered) \in Nat
  BY DEF Content, Emit
<1>1. /\ Declared = n /\ SubSeq(acc, 1, Declared) = FrameBytes(f, n) /\ n \in Nat
      /\ n \in 1..Len(acc) /\ Following(sizes, Waiting[n]) = <<f + 1, 1>>
      /\ Waiting \in Seq(Byte)
  BY EmittedIs
<1>2. y \in Seq(Byte)
  BY BaseIsBehind, BetweenIs DEF RingInv, Placed, Content
<1> DEFINE r == SubSeq(acc, n + 1, Len(acc))
<1>3. r \in Seq(Byte) /\ Len(r) = Len(acc) - n /\ \A i \in 1..Len(r) : r[i] = acc[n + i]
  <2> HIDE DEF n
  <2>1. n \in 0..Len(acc)
    BY <1>1
  <2> QED BY <2>1, <1>0, RestOfSequence
<1>4. acc' = r /\ delivered' = Append(delivered, FrameBytes(f, n))
  BY <1>1 DEF Emit
<1>5. Waiting = acc \o y
  BY DEF Waiting
<1>6. Waiting' = r \o y
  <2>1. Base' = Base
    BY <1>0 DEF Base, ringVars
  <2> QED BY <1>4, <2>1 DEF Waiting, ringVars
<1> HIDE DEF y, r, n, f
<1>7. Waiting' = SubSeq(Waiting, n + 1, Len(Waiting)) /\ n \in 1..Len(Waiting)
  <2> DEFINE w == Waiting
             x == SubSeq(w, n + 1, Len(w))
             z == r \o y
  <2>1. /\ w \in Seq(Byte) /\ Len(w) = Len(acc) + Len(y)
        /\ \A i \in 1..Len(acc) : w[i] = acc[i]
        /\ \A i \in 1..Len(w) : i > Len(acc) => w[i] = y[i - Len(acc)]
    BY <1>0, <1>2, <1>5, Joined
  <2>2. /\ z \in Seq(Byte) /\ Len(z) = Len(r) + Len(y)
        /\ \A i \in 1..Len(r) : z[i] = r[i]
        /\ \A i \in 1..Len(z) : i > Len(r) => z[i] = y[i - Len(r)]
    BY ZenonT(60), <1>2, <1>3, Joined
  <2> HIDE DEF w, z
  <2>3. Len(acc) \in Nat /\ Len(y) \in Nat /\ Len(r) \in Nat /\ n \in 0..Len(w) /\ n \in 1..Len(w)
    BY <1>0, <1>1, <1>2, <1>3, <2>1
  <2>4. x \in Seq(Byte) /\ Len(x) = Len(w) - n /\ \A i \in 1..Len(x) : x[i] = w[n + i]
    BY <2>1, <2>3, RestOfSequence
  <2> HIDE DEF x
  <2>5. ASSUME NEW i \in 1..Len(z) PROVE z[i] = x[i]
    <3>1. i \in 1..Len(x) /\ n + i \in 1..Len(w)
      BY <1>1, <1>3, <2>1, <2>2, <2>3, <2>4
    <3>2. CASE i <= Len(r)
      <4>1. i \in 1..Len(r) /\ n + i \in 1..Len(acc)
        BY <3>2, <1>1, <1>3, <2>3
      <4> QED BY <4>1, <3>1, <1>3, <2>1, <2>2, <2>4
    <3>3. CASE i > Len(r)
      <4>1. n + i > Len(acc) /\ (n + i) - Len(acc) = i - Len(r)
        BY <3>3, <1>1, <1>3, <2>3
      <4>2. z[i] = y[i - Len(r)]
        BY <3>3, <2>2
      <4>3. w[n + i] = y[(n + i) - Len(acc)]
        <5> DEFINE k == n + i
        <5>1. k \in 1..Len(w) /\ k > Len(acc)
          BY <3>1, <4>1
        <5> HIDE DEF k
        <5>2. w[k] = y[k - Len(acc)]
          BY <5>1, <2>1
        <5> QED BY <5>2 DEF k
      <4>4. x[i] = w[n + i]
        BY <3>1, <2>4
      <4> QED BY <4>1, <4>2, <4>3, <4>4
    <3> QED BY <3>2, <3>3, <2>3
  <2>6. Len(z) = Len(x)
    BY <1>1, <1>3, <2>1, <2>2, <2>3, <2>4
  <2>7. z = x
    BY <2>2, <2>4, <2>5, <2>6, SameSequence
  <2> QED BY <2>7, <2>3, <1>6 DEF z, x, w
<1>8. PICK to : Run(sizes, Waiting, <<f, 1>>, to) /\ (~wclosed => to = Outgoing)
  BY <1>0 DEF Content, Flow, f
<1>9. Run(sizes, Waiting', <<f + 1, 1>>, to)
  BY <1>1, <1>7, <1>8, RunRest DEF n, f
<1>10. /\ delivered' \in Seq(Seq(Byte)) /\ Len(delivered') + 1 = f + 1
  <2>1. FrameBytes(f, n) \in Seq(Byte)
    BY <1>0, <1>1, FrameIs
  <2> QED BY <2>1, <1>0, <1>4 DEF f
<1>11. Outgoing' = Outgoing /\ Latest' = Latest
  BY DEF Outgoing, Latest, writerVars
<1>12. Flow(sizes', Len(delivered'), Waiting', Outgoing', wclosed')
  BY <1>8, <1>9, <1>10, <1>11 DEF Flow, writerVars
<1> QED BY <1>3, <1>4, <1>10, <1>11, <1>12 DEF Content, ringVars, writerVars

\* The steps of the reader that move no byte, and those that close it.
LEMMA ContentReads ==
  ASSUME RingAssumption, RingInv, Content,
         \/ FreeSpace \/ WakeWriter \/ ArmWait \/ ResumeDrain \/ CloseReader
         \/ (DrainOn \/ RefuseOversized) /\ UNCHANGED <<ringVars, writerVars, rload>>
  PROVE  Content'
<1>1. /\ UNCHANGED <<cell, writePos, writerVars, rload, delivered>>
      /\ rpc' # "closed" => acc' = acc
      /\ acc' = acc \/ acc' = <<>>
  BY DEF FreeSpace, WakeWriter, ArmWait, ResumeDrain, CloseReader, DrainOn, RefuseOversized, ringVars
<1>2. Outgoing' = Outgoing /\ Latest' = Latest
  BY <1>1 DEF Outgoing, Latest, writerVars
<1>3. ASSUME rpc' # "closed"
      PROVE  Flow(sizes', Len(delivered'), Waiting', Outgoing', wclosed')
  <2>1. Base' = Base
    BY <1>1, <1>3 DEF Base, FreeSpace, WakeWriter, ArmWait, ResumeDrain, CloseReader, DrainOn,
                      RefuseOversized, ringVars, RingInv, Waits
  <2>2. Waiting' = Waiting
    BY <1>1, <1>3, <2>1 DEF Waiting
  <2>3. rpc # "closed"
    BY <1>3 DEF FreeSpace, WakeWriter, ArmWait, ResumeDrain, CloseReader, DrainOn, RefuseOversized
  <2> QED BY <1>1, <1>2, <2>2, <2>3 DEF Content, writerVars
<1>4. acc' \in Seq(Byte)
  <2>1. acc \in Seq(Byte) /\ <<>> \in Seq(Byte)
    BY DEF Content
  <2> QED BY <1>1, <2>1
<1> QED BY <1>1, <1>2, <1>3, <1>4 DEF Content, writerVars


-----------------------------------------------------------------------------
(* Frames come out whole and in order.                                       *)

\* Nothing is on its way at first.
LEMMA ContentStart ==
  ASSUME RingAssumption, Init
  PROVE  Content
<1>0. Cap \in Nat \ {0} /\ Mod \in Nat \ {0} /\ 0 \in Position
  BY RingSizes DEF Position
<1>1. cell \in [0..Cap - 1 -> Byte]
  <2>1. <<0, 0>> \in Byte BY DEF Byte
  <2> QED BY <2>1 DEF Init
<1>2. Between(cell, Base, writePos) = <<>>
  <2> DEFINE z == Between(cell, 0, 0)
  <2>1. Ahead(0, 0) = 0
    BY <1>0, AheadIs
  <2>2. z \in Seq(Byte) /\ Len(z) = 0
    BY <1>0, <1>1, <2>1, BetweenIs
  <2>3. Base = 0 /\ writePos = 0
    BY DEF Base, Init
  <2> HIDE DEF z
  <2>4. z = <<>>
    BY <2>2
  <2> QED BY <2>3, <2>4 DEF z
<1>3. acc = <<>> /\ <<>> \in Seq(Byte) /\ <<>> \in Seq(Seq(Byte)) /\ delivered = <<>>
  BY DEF Init
<1>4. Waiting = <<>>
  BY <1>2, <1>3, JoinedToNothing DEF Waiting
<1>5. Len(delivered) = 0 /\ Latest = 0
  BY <1>3 DEF Init, Latest
<1>6. Outgoing = <<0 + 1, 1>>
  BY <1>5 DEF Init, Outgoing
<1>7. Run(sizes, Waiting, <<Len(delivered) + 1, 1>>, Outgoing)
  BY <1>3, <1>4, <1>5, <1>6 DEF Run
<1>8. Flow(sizes, Len(delivered), Waiting, Outgoing, wclosed)
  BY <1>7 DEF Flow
<1>9. wpc = "idle"
  BY DEF Init
<1> QED BY <1>1, <1>3, <1>8, <1>9 DEF Content

\* Every step keeps the bytes on their way in order.
LEMMA ContentStep ==
  ASSUME RingAssumption, RingInv, Content, [Next]_vars
  PROVE  Content'
<1>1. CASE UNCHANGED vars
  <2>1. /\ UNCHANGED <<cell, writePos, readPos, sizes, rload, acc, delivered, rpc>>
        /\ UNCHANGED <<wpc, spill, pushed, wclosed>>
    BY <1>1 DEF vars, ringVars, writerVars, readerVars
  <2>2. Waiting' = Waiting /\ Outgoing' = Outgoing /\ Latest' = Latest
    BY <2>1 DEF Waiting, Base, Outgoing, Latest
  <2> QED BY <2>1, <2>2 DEF Content
<1>2. ASSUME NEW size \in FrameSizes, Write(size) PROVE Content'
  <2>1. /\ wpc \in {"idle", "written"} /\ UNCHANGED <<readerVars, rwait>>
        /\ \/ WriteRefused \/ WriteBehind(FrameBytes(Latest + 1, size))
           \/ WritePush(FrameBytes(Latest + 1, size))
    BY <1>2 DEF Write, Latest
  <2> QED BY <2>1, QuietSteps, ContentBehind, ContentPush
<1>3. CASE WriterStep \/ AgeTimer \/ Tick \/ Close
  BY <1>3, QuietSteps, ContentStore, ContentFlush, ContentFlushStore DEF WriterStep
<1>4. CASE ReaderStep \/ CloseReader
  <2>1. CASE Parse
    <3>1. UNCHANGED <<ringVars, writerVars, rload>> /\ (Emit \/ DrainOn \/ RefuseOversized)
      BY <2>1 DEF Parse
    <3> QED BY <3>1, ContentEmit, ContentReads
  <2>2. CASE ~Parse
    BY <1>4, <2>2, ContentLoad, ContentReads DEF ReaderStep
  <2> QED BY <2>1, <2>2
<1> QED BY <1>1, <1>2, <1>3, <1>4 DEF Next

\* So they are at all times.
LEMMA ContentHolds ==
  ASSUME RingAssumption
  PROVE  Spec => [](RingInv /\ Content)
<1>1. Init => RingInv /\ Content BY RingStart, ContentStart
<1>2. (RingInv /\ Content) /\ [Next]_vars => (RingInv /\ Content)' BY RingStep, ContentStep
<1> QED BY <1>1, <1>2, PTL DEF Spec

\* A frame accepted is one frame more at the end of those accepted.
LEMMA AcceptsOne ==
  ASSUME RingAssumption, RingInv, NEW size \in FrameSizes, Latest < MaxFrames,
         sizes' = Append(sizes, size), UNCHANGED <<delivered, wclosed, rpc>>
  PROVE  Stream!Accept
<1> DEFINE b == FrameBytes(Latest + 1, size)
<1>0. /\ Latest \in Nat /\ sizes \in Seq(FrameSizes) /\ size \in Nat /\ MaxFrames \in Nat
      /\ Latest + 1 \in 1..MaxFrames
  BY SizesOfFrames, RingSizes DEF RingInv, Holding, Latest
<1>1. Len(sizes') = Latest + 1 /\ sizes'[Latest + 1] = size /\ \A f \in 1..Latest : sizes'[f] = sizes[f]
  BY <1>0 DEF Latest
<1>2. \A f \in 1..Latest : FrameBytes(f, sizes[f]) \in Seq(Byte)
  <2> TAKE f \in 1..Latest
  <2>1. f \in Nat /\ f \in 1..Len(sizes) /\ sizes \in Seq(FrameSizes)
    BY <1>0 DEF Latest
  <2>2. sizes[f] \in FrameSizes
    BY <2>1
  <2>3. sizes[f] \in Nat
    BY <2>2, SizesOfFrames
  <2> QED BY <2>1, <2>3, FrameIs
<1>3. b \in Seq(Byte)
  <2> DEFINE f == Latest + 1
  <2>1. f \in Nat BY <1>0
  <2> HIDE DEF f
  <2>2. FrameBytes(f, size) \in Seq(Byte) BY <2>1, <1>0, FrameIs
  <2> QED BY <2>2 DEF f
<1> DEFINE x == Accepted
           y == Accepted'
           n == Latest
<1>4. DOMAIN sizes = 1..n /\ DOMAIN sizes' = 1..(n + 1)
  <2>1. sizes' \in Seq(FrameSizes) BY <1>0
  <2> QED BY <1>0, <1>1, <2>1 DEF Latest
<1>5. /\ x = [f \in 1..n |-> FrameBytes(f, sizes[f])]
      /\ y = [f \in 1..(n + 1) |-> FrameBytes(f, sizes'[f])]
  BY <1>4 DEF Accepted
<1>6. \A f \in 1..(n + 1) : FrameBytes(f, sizes'[f]) = IF f = n + 1 THEN b ELSE FrameBytes(f, sizes[f])
  BY <1>0, <1>1
<1> HIDE DEF b, n, x, y
<1>7. n \in Nat
  BY <1>0 DEF n
<1>8. x \in Seq(Seq(Byte)) /\ Len(x) = n
  BY <1>2, <1>5, <1>7 DEF n
<1>9. y \in Seq(Seq(Byte)) /\ Len(y) = n + 1
  <2>1. \A f \in 1..(n + 1) : FrameBytes(f, sizes'[f]) \in Seq(Byte)
    <3> TAKE f \in 1..(n + 1)
    <3>1. FrameBytes(f, sizes'[f]) = IF f = n + 1 THEN b ELSE FrameBytes(f, sizes[f])
      BY <1>6
    <3>2. CASE f = n + 1
      BY <3>1, <3>2, <1>3
    <3>3. CASE f # n + 1
      <4>1. f \in 1..n
        BY <3>3, <1>7
      <4>2. FrameBytes(f, sizes[f]) \in Seq(Byte)
        BY <4>1, <1>2 DEF n
      <4> QED BY <4>2, <3>1, <3>3
    <3> QED BY <3>2, <3>3
  <2>2. y \in [1..(n + 1) -> Seq(Byte)]
    BY <2>1, <1>5
  <2>3. n + 1 \in Nat
    BY <1>7
  <2> QED BY <2>2, <2>3, SequenceOf
<1>10. y = Append(x, b)
  <2> DEFINE z == Append(x, b)
  <2>1. z \in Seq(Seq(Byte)) /\ Len(z) = n + 1 /\ z[n + 1] = b /\ \A f \in 1..n : z[f] = x[f]
    BY <1>3, <1>8
  <2> HIDE DEF z
  <2>2. ASSUME NEW f \in 1..Len(y) PROVE y[f] = z[f]
    <3>1. f \in 1..(n + 1) /\ y[f] = FrameBytes(f, sizes'[f])
      BY <1>5, <1>9
    <3>2. CASE f = n + 1
      BY <3>1, <3>2, <1>6, <2>1
    <3>3. CASE f # n + 1
      <4>1. f \in 1..n BY <3>1, <3>3, <1>7
      <4> QED BY <4>1, <3>1, <3>3, <1>5, <1>6, <2>1
    <3> QED BY <3>2, <3>3
  <2>3. y = z
    BY <1>9, <2>1, <2>2, SameSequence
  <2> QED BY <2>3 DEF z
<1>11. b \in {FrameBytes(f, m) : f \in 1..MaxFrames, m \in FrameSizes}
  BY <1>0 DEF b
<1> QED BY <1>10, <1>11 DEF Stream!Accept, x, y

\* The reader's emission is the delivery of the next accepted frame.
LEMMA EmitsNext ==
  ASSUME RingAssumption, RingInv, Content, Emit, UNCHANGED <<sizes, wclosed>>
  PROVE  Stream!Deliver
<1> DEFINE f == Len(delivered) + 1
<1>1. /\ f \in 1..Latest /\ SubSeq(acc, 1, Declared) = FrameBytes(f, sizes[f])
  BY EmittedIs
<1>2. Latest \in Nat /\ DOMAIN sizes = 1..Latest /\ Len(delivered) \in Nat
  BY DEF RingInv, Holding, Content, Latest
<1>3. Len(Accepted) = Latest /\ Accepted[f] = FrameBytes(f, sizes[f])
  <2>1. Accepted = [g \in 1..Latest |-> FrameBytes(g, sizes[g])]
    BY <1>2 DEF Accepted
  <2> HIDE DEF f
  <2> DEFINE n == Latest
  <2>2. n \in Nat /\ f \in 1..n /\ Accepted = [g \in 1..n |-> FrameBytes(g, sizes[g])]
    BY <1>1, <1>2, <2>1
  <2> HIDE DEF n
  <2>3. Len(Accepted) = n /\ Accepted[f] = FrameBytes(f, sizes[f])
    BY <2>2
  <2> QED BY <2>3 DEF n
<1>4. Len(delivered) < Len(Accepted)
  BY <1>1, <1>2, <1>3
<1>5. delivered' = Append(delivered, Accepted[f]) /\ rpc' = rpc
  BY <1>1, <1>3 DEF Emit
<1>6. Accepted' = Accepted
  BY DEF Accepted
<1> QED BY <1>4, <1>5, <1>6 DEF Stream!Deliver

\* Neither side opens again, and nothing else shows.
LEMMA ClosesOrStutters ==
  ASSUME UNCHANGED <<sizes, delivered>>, wclosed' = wclosed \/ wclosed' = TRUE,
         rpc = "closed" => rpc' = "closed"
  PROVE  [Stream!Next]_Stream!streamVars
<1>1. Accepted' = Accepted
  BY DEF Accepted
<1> DEFINE o == ~wclosed /\ rpc # "closed"
<1>2. o' = o \/ (o /\ o' = FALSE)
  OBVIOUS
<1> QED BY <1>1, <1>2 DEF Stream!Next, Stream!Close, Stream!streamVars

\* A step of the ring is a step of the stream.
LEMMA StreamStep ==
  ASSUME RingAssumption, RingInv, Content, [Next]_vars
  PROVE  [Stream!Next]_Stream!streamVars
<1>1. CASE UNCHANGED vars
  BY <1>1, ClosesOrStutters DEF vars, writerVars, readerVars
<1>2. ASSUME NEW size \in FrameSizes, Write(size) PROVE [Stream!Next]_Stream!streamVars
  <2> DEFINE b == FrameBytes(Latest + 1, size)
  <2>1. /\ Latest < MaxFrames /\ ~wclosed /\ UNCHANGED readerVars
        /\ WriteRefused \/ WriteBehind(b) \/ WritePush(b)
    BY <1>2 DEF Write, Latest
  <2>2. CASE WriteRefused
    BY <2>1, <2>2, ClosesOrStutters DEF WriteRefused, Overflow, CloseWriter, readerVars
  <2>3. CASE WriteBehind(b) \/ WritePush(b)
    <3>1. Len(b) = size
      <4> DEFINE f == Latest + 1
      <4>1. f \in Nat /\ size \in Nat BY SizesOfFrames DEF RingInv, Holding, Latest
      <4> HIDE DEF f
      <4>2. Len(FrameBytes(f, size)) = size BY <4>1, FrameIs
      <4> QED BY <4>2 DEF f
    <3> HIDE DEF b
    <3>2. sizes' = Append(sizes, size) /\ UNCHANGED <<delivered, wclosed, rpc>>
      BY <2>1, <2>3, <3>1 DEF WriteBehind, WritePush, readerVars
    <3>3. Stream!Accept
      BY <2>1, <3>2, AcceptsOne
    <3> QED BY <3>3 DEF Stream!Next
  <2> QED BY <2>1, <2>2, <2>3
<1>3. CASE WriterStep \/ AgeTimer \/ Tick \/ Close
  <2>1. UNCHANGED <<sizes, delivered, rpc>> /\ (wclosed' = wclosed \/ wclosed' = TRUE)
    BY <1>3 DEF WriterStep, Store, Arm, Notify, Resume, Flush, FlushStore, FlushNotify,
                AgeTimer, Tick, Close, Overflow, CloseWriter, readerVars
  <2> QED BY <2>1, ClosesOrStutters
<1>4. CASE Parse
  <2>1. CASE Emit
    <3>1. Stream!Deliver
      BY <1>4, <2>1, EmitsNext DEF Parse, writerVars
    <3> QED BY <3>1 DEF Stream!Next
  <2>2. CASE ~Emit
    BY <1>4, <2>2, ClosesOrStutters DEF Parse, DrainOn, RefuseOversized, writerVars
  <2> QED BY <2>1, <2>2
<1>5. CASE Load \/ FreeSpace \/ WakeWriter \/ ArmWait \/ ResumeDrain \/ CloseReader
  BY <1>5, ClosesOrStutters
     DEF Load, FreeSpace, WakeWriter, ArmWait, ResumeDrain, CloseReader, writerVars
<1> QED BY <1>1, <1>2, <1>3, <1>4, <1>5 DEF Next, ReaderStep

\* The ring keeps the promise of its header comment (relay-ring.js): whatever the
\* capacity and the sizes of the frames, every frame that comes out is the next one
\* accepted, whole, none twice and none skipped, across wrap-around, spill and a
\* close of either side at any point.  That all of them come out is for the run.
THEOREM FramesInOrder ==
  ASSUME RingAssumption
  PROVE  Spec => Stream!Init /\ [][Stream!Next]_Stream!streamVars
<1>1. Init => Stream!Init
  <2> SUFFICES ASSUME Init PROVE Stream!Init
    OBVIOUS
  <2>1. sizes = <<>> /\ delivered = <<>> /\ wclosed = FALSE /\ rpc = "load"
    BY DEF Init
  <2>2. Accepted = <<>>
    <3>1. DOMAIN sizes = {}
      BY <2>1
    <3>2. Accepted = [f \in {} |-> FrameBytes(f, sizes[f])]
      BY <3>1 DEF Accepted
    <3> QED BY <3>2
  <2> QED BY <2>1, <2>2 DEF Stream!Init
<1>2. RingInv /\ Content /\ [Next]_vars => [Stream!Next]_Stream!streamVars
  BY StreamStep
<1> QED BY <1>1, <1>2, ContentHolds, PTL DEF Spec
=============================================================================
