---------------------------- MODULE FileLoadProofs ----------------------------
(***************************************************************************)
(* Proofs about loads of any number of ranks, threads, files and rows: no  *)
(* thread stores a row outside the part of its rank (RowsStayInParts);     *)
(* each entry is stored in its row, and it is known which ranks look it up *)
(* there (StoredInPlace); and no entry of the files is missing when a rank *)
(* returns (AllLoadedOnReturn).  They hold for contiguous parts if no      *)
(* window starts behind the part, and for round robin parts if the files   *)
(* have no more entries than the table was created for.  The run over all  *)
(* contiguous layouts shows that the first condition is needed.  Of reads  *)
(* with direct IO: each byte of a run is stored at its place, whatever the *)
(* sizes of entries, rows, blocks and buffer (BytesInPlaceAlways).         *)
(***************************************************************************)
EXTENDS FileLoad, DirectRead, NaturalLemmas

Scope == \A l \in Layouts : Fits(l)

-----------------------------------------------------------------------------
LEMMA Rounding ==
  ASSUME NEW n \in Nat, NEW d \in Nat \ {0}
  PROVE  Ceiling(n, d) \in Nat /\ n <= d * Ceiling(n, d)
<1>1. n + d - 1 \in Nat
  OBVIOUS
<1>2. (n + d - 1) \div d \in Nat /\ n + d - 1 < d * ((n + d - 1) \div d) + d
  BY <1>1, Division, Z3
<1>3. QED
  BY <1>2, Z3 DEF Ceiling

\* Contiguous parts.
LEMMA WindowInside ==
  ASSUME NEW l, Fits(l), l.robin = 0, NEW r \in 0 .. l.ranks - 1, NEW t \in 0 .. l.threads - 1
  PROVE  /\ WindowSize(l, r, t) \in Nat /\ WindowStart(l, r, t) \in Nat
         /\ Start(l, r) \in Nat /\ Start(l, r + 1) \in Nat
         /\ Start(l, r) <= WindowStart(l, r, t)
         /\ WindowStart(l, r, t) + WindowSize(l, r, t) <= Start(l, r + 1)
         /\ WindowSize(l, r, t) = Lesser(PerThread(l, r), Start(l, r + 1) - WindowStart(l, r, t))
<1> DEFINE a == Start(l, r)
           b == Start(l, r + 1)
           p == PerThread(l, r)
<1>1. a \in Nat /\ b \in Nat /\ a <= b /\ b - a < SizeModulus
  <2>1. l.ranks \in Nat /\ r \in 0 .. l.ranks /\ r + 1 \in 0 .. l.ranks
    BY DEF Fits
  <2>2. a = l.offsets[r] /\ b = l.offsets[r + 1]
    BY DEF Start
  <2>3. /\ l.offsets \in [0 .. l.ranks -> Nat] /\ l.offsets[r] <= l.offsets[r + 1]
        /\ l.offsets[r + 1] - l.offsets[r] < SizeModulus
    BY Zenon DEF Fits
  <2>4. l.offsets[r] \in Nat /\ l.offsets[r + 1] \in Nat
    BY <2>1, <2>3, Zenon
  <2> HIDE DEF a, b
  <2>5. QED
    BY <2>2, <2>3, <2>4
<1>2. p \in Nat
  <2>1. b - a \in Nat /\ l.threads \in Nat \ {0}
    BY <1>1 DEF Fits
  <2>2. QED
    BY <2>1, Rounding DEF PerThread
<1>3. (l.threads - 1) * p <= b - a
  BY DEF Fits, WindowsInside
<1>4. WindowStart(l, r, t) = a + t * p
  BY DEF WindowStart
<1>5. WindowSize(l, r, t) = Lesser(p, (b - a - t * p) % SizeModulus)
  BY DEF WindowSize, Minus
<1> HIDE DEF a, b, p
<1>6. t * p \in Nat /\ t * p <= b - a
  <2>1. t \in Nat /\ l.threads - 1 \in Nat /\ t <= l.threads - 1
    BY DEF Fits
  <2>2. QED
    BY <1>1, <1>2, <1>3, <2>1, Products
<1>7. (b - a - t * p) % SizeModulus = b - a - t * p
  <2>1. PICK k \in Nat : k = t * p
    BY <1>6
  <2>2. PICK n \in Nat : n = b - a - t * p /\ n < SizeModulus
    <3>1. b - a - k \in Nat /\ b - a - k < SizeModulus
      BY <1>1, <1>6, <2>1, SizeAssumption
    <3>2. QED
      BY <2>1, <3>1
  <2>3. n % SizeModulus = n
    BY <2>2, SizeAssumption, Z3
  <2>4. QED
    BY <2>2, <2>3
<1>8. QED
  BY <1>1, <1>2, <1>4, <1>5, <1>6, <1>7 DEF Lesser, a, b, p

-----------------------------------------------------------------------------
\* Round robin parts.  More entries take no fewer full rounds, and if as many, they
\* leave no fewer entries over.
LEMMA RoundsGrow ==
  ASSUME NEW m \in Nat, NEW n \in Nat, m <= n, NEW d \in Nat \ {0}
  PROVE  /\ m \div d <= n \div d
         /\ m \div d = n \div d => m % d <= n % d
<1>1. PICK q \in Nat, x \in Nat : q = m \div d /\ x = m % d /\ x < d /\ m = (d * q) + x
  BY Division, SMT
<1>2. PICK s \in Nat, y \in Nat : s = n \div d /\ y = n % d /\ y < d /\ n = (d * s) + y
  BY Division, SMT
<1>3. q <= s
  <2>1. SUFFICES ASSUME s + 1 <= q PROVE FALSE
    OBVIOUS
  <2>2. (s + 1) * d <= q * d
    BY <2>1, Products
  <2>3. n < m
    BY <1>1, <1>2, <2>2, Z3
  <2>4. QED
    BY <2>3
<1>4. QED
  BY <1>1, <1>2, <1>3

\* What is left after the full rounds is at most one run for a rank.
LEMMA ExtraBounds ==
  ASSUME NEW x \in Nat, NEW c \in Nat \ {0}, NEW r \in Nat,
         NEW e, e = IF x > (r + 1) * c THEN c ELSE Larger(0, x - r * c)
  PROVE  e \in Nat /\ e <= c /\ e <= x
<1>1. PICK k \in Nat : k = r * c /\ (r + 1) * c = k + c
  BY Z3
<1>2. QED
  BY <1>1 DEF Larger

\* The rounds of a thread are some of the rounds.
LEMMA RoundsInside ==
  ASSUME NEW l, Rounds(l) \in Nat, l.threads \in Nat \ {0}, NEW t \in 0 .. l.threads - 1
  PROVE  /\ RoundsOf(l, t) \in Nat /\ FirstRound(l, t) \in Nat
         /\ FirstRound(l, t) + RoundsOf(l, t) <= Rounds(l)
<1> DEFINE q == Rounds(l)
<1>1. PICK p \in Nat : p = RoundsPerThread(l)
  BY Rounding DEF RoundsPerThread
<1>2. PICK k \in Nat : k = t * p
  BY <1>1, Z3
<1>3. RoundsOf(l, t) = Larger(0, Lesser(p, q - k))
  BY <1>1, <1>2 DEF RoundsOf
<1>4. FirstRound(l, t) = IF RoundsOf(l, t) = 0 THEN q ELSE k
  BY <1>1, <1>2 DEF FirstRound
<1> HIDE DEF q
<1>5. q \in Nat
  BY DEF q
<1>6. QED
  <2>1. FirstRound(l, t) + RoundsOf(l, t) <= q
    BY <1>3, <1>4, <1>5 DEF Larger, Lesser
  <2>2. RoundsOf(l, t) \in Nat /\ FirstRound(l, t) \in Nat
    BY <1>3, <1>4, <1>5 DEF Larger, Lesser
  <2>3. QED
    BY <2>1, <2>2 DEF q

\* The rounds that the files fill, and the rest, fit into the part of a rank.
LEMMA PartHoldsRounds ==
  ASSUME NEW l, Fits(l), l.robin # 0, NEW r \in 0 .. l.ranks - 1
  PROVE  /\ Rounds(l) \in Nat /\ Extra(l, r) \in Nat /\ RowsOfFirst(l) \in Nat
         /\ Rounds(l) * l.robin + Extra(l, r) <= RowsOfFirst(l)
<1>1. PICK c \in Nat \ {0} : c = l.robin
  BY DEF Fits
<1>2. PICK d \in Nat \ {0} : d = l.ranks * c
  <2>1. l.ranks \in Nat \ {0}
    BY DEF Fits
  <2>2. l.ranks * c \in Nat \ {0}
    BY <2>1, Z3
  <2>3. QED
    BY <2>2
<1>3. PICK m \in Nat, n \in Nat : m = FileEntries(l) /\ n = l.rows /\ m <= n
  BY DEF Fits
<1>4. PICK q \in Nat, x \in Nat : q = m \div d /\ x = m % d
  <2>1. m \div d \in Nat /\ m % d \in Nat
    BY Division, Z3
  <2>2. QED
    BY <2>1, Zenon
<1>5. PICK s \in Nat, y \in Nat : s = n \div d /\ y = n % d
  <2>1. n \div d \in Nat /\ n % d \in Nat
    BY Division, Z3
  <2>2. QED
    BY <2>1, Zenon
<1>6. q <= s /\ (q = s => x <= y)
  BY <1>3, <1>4, <1>5, RoundsGrow
<1>7. Rounds(l) = q
  BY <1>1, <1>2, <1>3, <1>4 DEF Rounds
<1>8. RowsOfFirst(l) = s * c + Lesser(y, c)
  BY <1>1, <1>2, <1>3, <1>5 DEF RowsOfFirst
<1>9. Extra(l, r) = IF x > (r + 1) * c THEN c ELSE Larger(0, x - r * c)
  BY <1>1, <1>2, <1>3, <1>4 DEF Extra
<1>10. PICK e \in Nat : e = Extra(l, r) /\ e <= c /\ e <= x
  <2>1. r \in Nat
    BY DEF Fits
  <2>2. QED
    BY <1>9, <2>1, ExtraBounds
<1>11. PICK f \in Nat, g \in Nat : f = q * c /\ g = s * c /\ (q < s => f + c <= g)
  <2>1. q * c \in Nat /\ s * c \in Nat /\ (q < s => q * c + c <= s * c)
    <3>1. q < s => (q + 1) * c <= s * c
      BY Products
    <3>2. (q + 1) * c = q * c + c
      BY Z3
    <3>3. q * c \in Nat /\ s * c \in Nat
      BY Products
    <3>4. QED
      BY <3>1, <3>2, <3>3
  <2>2. QED
    BY <2>1
<1>12. f + e <= g + Lesser(y, c) /\ Lesser(y, c) \in Nat
  <2>1. q = s => f = g
    BY <1>11
  <2>2. QED
    BY <1>6, <1>10, <1>11, <2>1 DEF Lesser
<1>13. QED
  BY <1>1, <1>7, <1>8, <1>10, <1>11, <1>12

-----------------------------------------------------------------------------
\* What a thread is given to read goes to rows of the part of its rank.  The code:
\* the windows and the round robin counts of the two functions that read a file list.
THEOREM WindowsInsideParts ==
  ASSUME Fits(layout), NEW r \in Rank, NEW t \in Thread
  PROVE  LET d == Reader(r, t) IN
         /\ d.total \in Nat /\ d.run \in Nat /\ d.run <= d.total
         /\ d.gap \in Nat
         /\ Start(layout, r) \in Nat /\ Start(layout, r + 1) \in Nat
         /\ FirstRow(r, t) \in Nat /\ Start(layout, r) <= FirstRow(r, t)
         /\ FirstRow(r, t) + d.total <= Start(layout, r + 1)
<1> DEFINE d == Reader(r, t)
<1>1. r \in 0 .. layout.ranks - 1 /\ t \in 0 .. layout.threads - 1
  BY DEF Rank, Thread
<1>2. CASE layout.robin = 0
  <2>1. /\ d.total = WindowSize(layout, r, t) /\ d.run = WindowSize(layout, r, t)
        /\ d.gap = WindowStart(layout, r, t) /\ FirstRow(r, t) = WindowStart(layout, r, t)
    BY <1>2 DEF Reader, Idle, FirstRow
  <2> HIDE DEF d
  <2>2. QED
    BY <1>1, <1>2, <2>1, WindowInside DEF d
<1>3. CASE layout.robin # 0
  <2>1. /\ d.total = CountOf(layout, r, t)
        /\ d.run = Lesser(layout.robin, CountOf(layout, r, t))
        /\ d.gap = (r + FirstRound(layout, t) * layout.ranks) * layout.robin
        /\ FirstRow(r, t) = Start(layout, r) + FirstRound(layout, t) * layout.robin
    BY <1>3 DEF Reader, Idle, FirstRow
  <2>2. PICK c \in Nat, q \in Nat, e \in Nat, w \in Nat, f \in Nat, k \in Nat :
          /\ c = layout.robin /\ q = Rounds(layout) /\ e = Extra(layout, r)
          /\ w = RowsOfFirst(layout) /\ q * c + e <= w
          /\ f = FirstRound(layout, t) /\ k = RoundsOf(layout, t) /\ f + k <= q
    <3>1. layout.robin \in Nat /\ layout.threads \in Nat \ {0}
      BY DEF Fits
    <3>2. QED
      BY <1>1, <1>3, <3>1, PartHoldsRounds, RoundsInside
  <2>3. PICK g \in Nat, h \in Nat : g = f * c /\ h = k * c /\ g + h <= q * c
    <3>1. (f + k) * c <= q * c
      BY <2>2, Products
    <3>2. (f + k) * c = f * c + k * c
      BY Z3
    <3>3. f * c \in Nat /\ k * c \in Nat
      BY Products
    <3>4. QED
      BY <3>1, <3>2, <3>3
  <2>4. PICK s \in Nat : s = Start(layout, r) /\ Start(layout, r + 1) = s + w
    <3>1. Start(layout, r) = r * w /\ Start(layout, r + 1) = (r + 1) * w
      BY <1>3, <2>2 DEF Start
    <3>2. r \in Nat
      BY <1>1 DEF Fits
    <3>3. r * w \in Nat /\ (r + 1) * w = r * w + w
      BY <3>2, Z3
    <3>4. QED
      BY <3>1, <3>3
  <2>5. CountOf(layout, r, t) = h + (IF t = layout.threads - 1 THEN e ELSE 0)
    BY <2>2, <2>3 DEF CountOf
  <2>6. d.gap \in Nat
    <3>1. PICK n \in Nat : n = layout.ranks
      BY DEF Fits
    <3>2. PICK m \in Nat : m = r + f * n
      <4>1. r \in Nat
        BY <1>1 DEF Fits
      <4>2. f * n \in Nat
        BY Products
      <4>3. QED
        BY <4>1, <4>2
    <3>3. m * c \in Nat
      BY Products
    <3>4. QED
      BY <2>1, <2>2, <3>1, <3>2, <3>3
  <2>7. PICK n \in Nat : n = CountOf(layout, r, t) /\ n <= h + e
    BY <2>5
  <2>8. PICK b \in Nat : b = q * c /\ b + e <= w /\ g + h <= b
    <3>1. q * c \in Nat
      BY Products
    <3>2. QED
      BY <2>2, <2>3, <3>1
  <2>9. FirstRow(r, t) = s + g
    BY <2>1, <2>2, <2>3, <2>4
  <2> HIDE DEF d
  <2>10. d.total = n /\ d.run = Lesser(c, n)
    BY <2>1, <2>2, <2>7 DEF d
  <2>11. Lesser(c, n) \in Nat /\ Lesser(c, n) <= n
    BY DEF Lesser
  <2>12. s + g + n <= s + w
    BY <2>7, <2>8
  <2>13. QED
    BY <2>4, <2>6, <2>9, <2>10, <2>11, <2>12 DEF d
<1>4. QED
  BY <1>2, <1>3

-----------------------------------------------------------------------------
Record == [file : Nat \ {0}, off : Nat, gap : Nat, run : Nat, total : Nat, read : Nat]

TypeInv ==
  /\ layout \in Layouts
  /\ stage  \in [Rank -> {"check", "refused", "read", "barrier", "returned"}]
  /\ reader \in [Rank -> [Thread -> Record]]

\* What a thread still has to read at once is some of what it was given to read.
RunsInWindow ==
  \A r \in Rank : stage[r] = "read" =>
    \A t \in Thread : /\ reader[r][t].total = Reader(r, t).total
                      /\ reader[r][t].read + reader[r][t].run <= reader[r][t].total

IInv == TypeInv /\ RunsInWindow /\ RowsOfRank

LEMMA ReaderTyped ==
  ASSUME Fits(layout), NEW r \in Rank, NEW t \in Thread
  PROVE  /\ Reader(r, t) \in Record /\ Reader(r, t).read = 0
         /\ Reader(r, t).run <= Reader(r, t).total
<1> DEFINE d == Reader(r, t)
<1>1. d.total \in Nat /\ d.run \in Nat /\ d.run <= d.total /\ d.gap \in Nat
  BY WindowsInsideParts
<1>2. d = [file |-> 1, off |-> 0, gap |-> d.gap, run |-> d.run, total |-> d.total, read |-> 0]
  BY DEF Reader, Idle
<1> HIDE DEF d
<1>3. d \in Record /\ d.read = 0
  BY <1>1, <1>2 DEF Record
<1>4. QED
  BY <1>1, <1>3 DEF d

LEMMA InitIInv == ASSUME Scope, Init PROVE IInv
<1>1. Idle \in Record
  BY DEF Idle, Record
<1>2. TypeInv
  BY <1>1 DEF Init, TypeInv
<1>3. RunsInWindow /\ RowsOfRank
  BY DEF Init, RunsInWindow, RowsOfRank
<1>4. QED
  BY <1>2, <1>3 DEF IInv

\* A step of one thread keeps the invariant if the thread stays in its window and
\* stores only rows of its rank.
LEMMA OneThread ==
  ASSUME IInv, NEW r \in Rank, NEW t \in Thread, NEW d \in Record,
         UNCHANGED <<layout, stage>>,
         reader' = [reader EXCEPT ![r][t] = d],
         d.total = reader[r][t].total,
         d.read + d.run <= d.total
  PROVE  (TypeInv /\ RunsInWindow)'
<1>1. TypeInv'
  <2>1. [reader[r] EXCEPT ![t] = d] \in [Thread -> Record]
    BY DEF IInv, TypeInv
  <2>2. reader' \in [Rank -> [Thread -> Record]]
    BY <2>1 DEF IInv, TypeInv
  <2>3. QED
    BY <2>2 DEF IInv, TypeInv, Rank, Thread
<1>2. RunsInWindow'
  <2>1. SUFFICES ASSUME NEW q \in Rank, stage[q] = "read", NEW u \in Thread
                 PROVE  /\ reader'[q][u].total = Reader(q, u).total
                        /\ reader'[q][u].read + reader'[q][u].run <= reader'[q][u].total
    BY DEF RunsInWindow, Rank, Thread, Reader, WindowStart, WindowSize, PerThread,
           FirstRound, RoundsOf, Rounds, RoundsPerThread, CountOf, Extra, Start,
           FileEntries, RowsOfFirst
  <2>2. /\ reader[q][u].total = Reader(q, u).total
        /\ reader[q][u].read + reader[q][u].run <= reader[q][u].total
    BY <2>1 DEF IInv, RunsInWindow
  <2>3. reader'[q][u] = IF q = r /\ u = t THEN d ELSE reader[q][u]
    BY DEF IInv, TypeInv
  <2>4. QED
    BY <2>2, <2>3
<1>3. QED
  BY <1>1, <1>2

LEMMA SamePlaces ==
  ASSUME RowsOfRank, UNCHANGED <<layout, copies>>
  PROVE  RowsOfRank'
BY DEF RowsOfRank, Start, RowsOfFirst

LEMMA StartKeeps ==
  ASSUME Scope, IInv, NEW r \in Rank, StartReading(r)
  PROVE  IInv'
<1>1. layout' = layout /\ copies' = copies /\ Rank' = Rank /\ Thread' = Thread
  BY DEF StartReading, Rank, Thread
<1>2. RowsOfRank'
  BY <1>1, SamePlaces DEF IInv
<1>3. CASE FileEntries(layout) > Start(layout, layout.ranks)
  <2>1. stage' = [stage EXCEPT ![r] = "refused"] /\ reader' = reader
    BY <1>3 DEF StartReading
  <2>2. TypeInv'
    BY <1>1, <2>1 DEF IInv, TypeInv
  <2>3. RunsInWindow'
    BY <1>1, <2>1 DEF IInv, TypeInv, RunsInWindow, Reader, WindowStart, WindowSize, PerThread,
           FirstRound, RoundsOf, Rounds, RoundsPerThread, CountOf, Extra, Start,
           FileEntries, RowsOfFirst
  <2>4. QED
    BY <1>2, <2>2, <2>3 DEF IInv
<1>4. CASE ~ (FileEntries(layout) > Start(layout, layout.ranks))
  <2>1. /\ stage' = [stage EXCEPT ![r] = "read"]
        /\ reader' = [reader EXCEPT ![r] = [t \in Thread |-> Reader(r, t)]]
    BY <1>4 DEF StartReading
  <2>2. \A t \in Thread : /\ Reader(r, t) \in Record /\ Reader(r, t).read = 0
                          /\ Reader(r, t).run <= Reader(r, t).total
    BY ReaderTyped DEF Scope, IInv, TypeInv
  <2>3. TypeInv'
    <3>1. [t \in Thread |-> Reader(r, t)] \in [Thread -> Record]
      BY <2>2
    <3>2. reader' \in [Rank -> [Thread -> Record]]
      BY <2>1, <3>1 DEF IInv, TypeInv
    <3>3. stage' \in [Rank -> {"check", "refused", "read", "barrier", "returned"}]
      BY <2>1 DEF IInv, TypeInv
    <3>4. QED
      BY <1>1, <3>2, <3>3 DEF IInv, TypeInv
  <2>4. RunsInWindow'
    <3>1. SUFFICES ASSUME NEW q \in Rank, stage'[q] = "read", NEW u \in Thread
                   PROVE  /\ reader'[q][u].total = Reader(q, u).total
                          /\ reader'[q][u].read + reader'[q][u].run <= reader'[q][u].total
      BY <1>1 DEF RunsInWindow, Reader, WindowStart, WindowSize, PerThread,
             FirstRound, RoundsOf, Rounds, RoundsPerThread, CountOf, Extra, Start,
             FileEntries, RowsOfFirst
    <3>2. CASE q = r
      <4>1. reader'[q][u] = Reader(r, u)
        BY <2>1, <3>2 DEF IInv, TypeInv
      <4>2. Reader(r, u).run \in Nat
        BY <2>2 DEF Record
      <4>3. QED
        BY <2>2, <3>2, <4>1, <4>2
    <3>3. CASE q # r
      <4>1. reader'[q] = reader[q] /\ stage[q] = "read"
        BY <2>1, <3>1, <3>3 DEF IInv, TypeInv
      <4>2. QED
        BY <4>1 DEF IInv, RunsInWindow
    <3>4. QED
      BY <3>2, <3>3
  <2>5. QED
    BY <1>2, <2>3, <2>4 DEF IInv
<1>5. QED
  BY <1>3, <1>4

\* How many entries a file has, in which a thread is that has not read all.
LEMMA FileSize ==
  ASSUME Fits(layout), NEW d \in Record, ~ AtEnd(d)
  PROVE  Size(d) \in Nat
<1>1. layout.files \in Seq(Nat) /\ d.file \in Nat \ {0}
  BY DEF Fits, Record
<1>2. d.file \in 1 .. Len(layout.files)
  BY <1>1 DEF AtEnd
<1>3. QED
  BY <1>1, <1>2 DEF Size

LEMMA PassFileKeeps ==
  ASSUME Scope, IInv, NEW r \in Rank, NEW t \in Thread, PassFile(r, t)
  PROVE  IInv'
<1> DEFINE d == reader[r][t]
           e == [d EXCEPT !.file = @ + 1, !.off = 0, !.gap = d.off + d.gap - Size(d)]
<1>1. /\ UNCHANGED <<layout, stage, copies>> /\ d.off + d.gap >= Size(d)
      /\ reader' = [reader EXCEPT ![r][t] = e] /\ stage[r] = "read" /\ ~ AtEnd(d)
  BY DEF PassFile, Reads
<1>2. d \in Record
  BY DEF IInv, TypeInv
<1>3. d.read + d.run <= d.total
  BY <1>1 DEF IInv, RunsInWindow
<1>4. Size(d) \in Nat
  BY <1>1, <1>2, FileSize DEF Scope, IInv, TypeInv
<1>5. e \in Record /\ e.total = d.total /\ e.read = d.read /\ e.run = d.run
  <2> HIDE DEF d
  <2>1. PICK g \in Nat : g = d.off + d.gap - Size(d)
    BY <1>1, <1>2, <1>4 DEF Record
  <2>2. PICK f \in Nat \ {0} : f = d.file + 1
    BY <1>2 DEF Record
  <2>3. e = [d EXCEPT !.file = f, !.off = 0, !.gap = g]
    BY <2>1, <2>2
  <2> HIDE DEF e
  <2>4. e \in Record
    BY <1>2, <2>3 DEF Record
  <2>5. e.total = d.total /\ e.read = d.read /\ e.run = d.run
    BY <1>2, <2>3 DEF Record
  <2>6. QED
    BY <2>4, <2>5
<1>6. (TypeInv /\ RunsInWindow)'
  <2> HIDE DEF e
  <2>1. QED
    BY <1>1, <1>3, <1>5, OneThread
<1>7. QED
  BY <1>1, <1>6, SamePlaces DEF IInv

LEMMA ReadRunKeeps ==
  ASSUME Scope, IInv, NEW r \in Rank, NEW t \in Thread, ReadRun(r, t)
  PROVE  IInv'
<1> DEFINE d    == reader[r][t]
           n    == Lesser(d.run, Size(d) - d.off - d.gap)
           left == d.run - n
           e    == [d EXCEPT !.off = @ + d.gap + n, !.read = @ + n,
                      !.gap = IF left > 0 THEN 0 ELSE (layout.ranks - 1) * layout.robin,
                      !.run = IF left > 0 THEN left
                              ELSE Lesser(layout.robin, d.total - d.read - n)]
<1>1. /\ UNCHANGED <<layout, stage>> /\ d.off + d.gap < Size(d)
      /\ reader' = [reader EXCEPT ![r][t] = e] /\ stage[r] = "read" /\ ~ AtEnd(d)
      /\ copies' = copies \cup Copied(r, t, n)
  BY DEF ReadRun, Reads
<1>2. d \in Record
  BY DEF IInv, TypeInv
<1>3. d.read + d.run <= d.total /\ d.total = Reader(r, t).total
  BY <1>1 DEF IInv, RunsInWindow
<1>4. Fits(layout)
  BY DEF Scope, IInv, TypeInv
<1>5. Size(d) \in Nat
  BY <1>1, <1>2, <1>4, FileSize
<1>6. n \in Nat /\ n <= d.run
  <2> HIDE DEF d
  <2>1. QED
    BY <1>1, <1>2, <1>5 DEF Record, Lesser
<1>7. e \in Record /\ e.total = d.total /\ e.read + e.run <= d.total
  <2> HIDE DEF d
  <2>1. PICK g \in Nat : g = IF left > 0 THEN 0 ELSE (layout.ranks - 1) * layout.robin
    <3>1. layout.ranks - 1 \in Nat /\ layout.robin \in Nat
      BY <1>4 DEF Fits
    <3>2. (layout.ranks - 1) * layout.robin \in Nat
      BY <3>1, Products
    <3>3. QED
      BY <3>2
  <2>2. PICK m \in Nat : /\ m = IF left > 0 THEN left ELSE Lesser(layout.robin, d.total - d.read - n)
                         /\ d.read + n + m <= d.total
    <3>1. layout.robin \in Nat /\ d.total \in Nat /\ d.read \in Nat /\ d.run \in Nat
      BY <1>2, <1>4 DEF Fits, Record
    <3> HIDE DEF n
    <3>2. QED
      BY <1>3, <1>6, <3>1 DEF Lesser
  <2>3. PICK f \in Nat, i \in Nat : f = d.off + d.gap + n /\ i = d.read + n
    <3> HIDE DEF n
    <3>1. QED
      BY <1>2, <1>6 DEF Record
  <2>4. e = [d EXCEPT !.off = f, !.read = i, !.gap = g, !.run = m]
    BY <2>1, <2>2, <2>3
  <2> HIDE DEF n, e, left
  <2>5. e \in Record
    BY <1>2, <2>4 DEF Record
  <2>6. e.total = d.total /\ e.read = i /\ e.run = m
    BY <1>2, <2>4 DEF Record
  <2>7. QED
    BY <2>2, <2>3, <2>5, <2>6
<1>8. (TypeInv /\ RunsInWindow)'
  <2> HIDE DEF e, n
  <2>1. QED
    BY <1>1, <1>7, OneThread
<1>9. RowsOfRank'
  <2>1. SUFFICES ASSUME NEW c \in copies'
                 PROVE  Start(layout, c.rank) <= c.row /\ c.row < Start(layout, c.rank + 1)
    BY <1>1 DEF RowsOfRank, Start, RowsOfFirst
  <2>2. CASE c \in copies
    BY <2>2 DEF IInv, RowsOfRank
  <2>3. CASE c \in Copied(r, t, n)
    <3>1. PICK k \in 0 .. n - 1 : c.rank = r /\ c.row = FirstRow(r, t) + d.read + k
      BY <2>3 DEF Copied
    <3>2. d.read \in Nat /\ d.run \in Nat /\ d.read + k < Reader(r, t).total
      <4> HIDE DEF n, d
      <4>1. QED
        BY <1>2, <1>3, <1>6, <3>1 DEF Record
    <3>3. /\ Reader(r, t).total \in Nat
          /\ Start(layout, r) \in Nat /\ Start(layout, r + 1) \in Nat
          /\ FirstRow(r, t) \in Nat /\ Start(layout, r) <= FirstRow(r, t)
          /\ FirstRow(r, t) + Reader(r, t).total <= Start(layout, r + 1)
      BY <1>4, WindowsInsideParts
    <3> HIDE DEF n, d
    <3>4. QED
      BY <1>6, <3>1, <3>2, <3>3
  <2>4. QED
    BY <1>1, <2>2, <2>3
<1>10. QED
  BY <1>8, <1>9 DEF IInv

\* Steps in which no thread reads.
LEMMA StageKeeps ==
  ASSUME IInv, NEW r \in Rank, Join(r) \/ Return(r)
  PROVE  IInv'
<1>1. UNCHANGED <<layout, reader, copies>>
  BY DEF Join, Return
<1>2. stage' = [stage EXCEPT ![r] = "barrier"] \/ stage' = [stage EXCEPT ![r] = "returned"]
  BY DEF Join, Return
<1>3. TypeInv'
  BY <1>1, <1>2 DEF IInv, TypeInv, Rank, Thread
<1>4. RunsInWindow'
  <2>1. \A q \in Rank : stage'[q] = "read" => stage[q] = "read"
    BY <1>2 DEF IInv, TypeInv
  <2>2. QED
    BY <1>1, <2>1 DEF IInv, RunsInWindow, Rank, Thread, Reader, WindowStart, WindowSize,
      PerThread, FirstRound, RoundsOf, Rounds, RoundsPerThread, CountOf, Extra, Start,
      FileEntries, RowsOfFirst
<1>5. QED
  BY <1>1, <1>3, <1>4, SamePlaces DEF IInv

LEMMA StutterKeeps == ASSUME IInv, UNCHANGED vars PROVE IInv'
BY DEF vars, IInv, TypeInv, RunsInWindow, RowsOfRank, Rank, Thread, Reader, WindowStart,
  WindowSize, PerThread, FirstRound, RoundsOf, Rounds, RoundsPerThread, CountOf, Extra,
  Start, FileEntries, RowsOfFirst

LEMMA StepIInv == ASSUME Scope, IInv, [Next]_vars PROVE IInv'
<1>1. CASE Next
  <2>1. ASSUME NEW r \in Rank, StartReading(r) PROVE IInv'
    BY <2>1, StartKeeps
  <2>2. ASSUME NEW r \in Rank, NEW t \in Thread, PassFile(r, t) PROVE IInv'
    BY <2>2, PassFileKeeps
  <2>3. ASSUME NEW r \in Rank, NEW t \in Thread, ReadRun(r, t) PROVE IInv'
    BY <2>3, ReadRunKeeps
  <2>4. ASSUME NEW r \in Rank, Join(r) \/ Return(r) PROVE IInv'
    BY <2>4, StageKeeps
  <2>5. CASE Finished
    BY <2>5, StutterKeeps DEF Finished
  <2>6. QED
    BY <1>1, <2>1, <2>2, <2>3, <2>4, <2>5 DEF Next, Step, Read
<1>2. QED
  BY <1>1, StutterKeeps

\* No thread stores a row outside the part of its rank, whatever the layouts that
\* are loaded: the code checks only that the files are not larger than the table.
THEOREM RowsStayInParts == ASSUME Scope PROVE Spec => []RowsOfRank
<1>1. Init => IInv
  BY InitIInv
<1>2. IInv /\ [Next]_vars => IInv'
  BY StepIInv
<1>3. IInv => RowsOfRank
  BY DEF IInv
<1>4. QED
  BY <1>1, <1>2, <1>3, PTL DEF Spec

-----------------------------------------------------------------------------
\* Where the entries of a file begin.
LEMMA NothingBefore ==
  ASSUME NEW l, l.files \in Seq(Nat)
  PROVE  EntriesBefore(l, 1) = 0
<1>1. IsFiniteSet({}) /\ 1 .. 1 - 1 = {}
  BY FS_EmptySet
<1>2. SumFunctionOnSet(l.files, {}) = 0
  BY <1>1, Sums
<1>3. QED
  BY <1>1, <1>2, Zenon DEF EntriesBefore

LEMMA FilesBefore ==
  ASSUME NEW l, l.files \in Seq(Nat), NEW i \in 1 .. Len(l.files)
  PROVE  /\ EntriesBefore(l, i) \in Nat /\ l.files[i] \in Nat
         /\ EntriesBefore(l, i + 1) = EntriesBefore(l, i) + l.files[i]
<1>1. i \in Nat /\ Len(l.files) \in Nat /\ \A x \in 1 .. Len(l.files) : l.files[x] \in Nat
  OBVIOUS
<1>2. IsFiniteSet(1 .. i) /\ IsFiniteSet(1 .. i - 1)
  BY <1>1, FS_Interval
<1>3. (1 .. i) \ {i} = 1 .. i - 1 /\ i \in 1 .. i /\ 1 .. (i + 1) - 1 = 1 .. i
  BY <1>1
<1>4. /\ SumFunctionOnSet(l.files, 1 .. i - 1) \in Nat
      /\ SumFunctionOnSet(l.files, 1 .. i) = l.files[i] + SumFunctionOnSet(l.files, (1 .. i) \ {i})
  <2>1. /\ \A x \in 1 .. i : l.files[x] \in Nat
        /\ \A x \in 1 .. i - 1 : l.files[x] \in Nat
    BY <1>1
  <2>2. PICK f : f = l.files
    OBVIOUS
  <2>3. SumFunctionOnSet(f, 1 .. i - 1) \in Nat
        /\ SumFunctionOnSet(f, 1 .. i) = f[i] + SumFunctionOnSet(f, (1 .. i) \ {i})
    BY <1>2, <1>3, <2>1, <2>2, Sums
  <2>4. QED
    BY <2>2, <2>3
<1>5. PICK m, n : /\ m = SumFunctionOnSet(l.files, 1 .. i - 1)
                  /\ n = SumFunctionOnSet(l.files, 1 .. i)
                  /\ m \in Nat /\ n = l.files[i] + m
  BY <1>3, <1>4, Zenon
<1>6. EntriesBefore(l, i) = m
  BY <1>5 DEF EntriesBefore
<1>7. EntriesBefore(l, i + 1) = n
  BY <1>3, <1>5, Zenon DEF EntriesBefore
<1>8. l.files[i] \in Nat
  BY <1>1
<1>9. QED
  BY <1>5, <1>6, <1>7, <1>8

\* Quotient and rest are the only ones.
LEMMA Quotient ==
  ASSUME NEW d \in Nat \ {0}, NEW q \in Nat, NEW x \in Nat, x < d, NEW n, n = d * q + x
  PROVE  n \in Nat /\ n \div d = q /\ n % d = x
<1>1. n \in Nat
  BY Products
<1>2. PICK p \in Nat, y \in Nat : p = n \div d /\ y = n % d /\ y < d /\ n = d * p + y
  BY <1>1, Division, SMT
<1>3. ASSUME NEW u \in Nat, NEW v \in Nat, NEW a \in Nat, NEW b \in Nat, a < d, b < d,
             d * u + a = d * v + b
      PROVE  u <= v
  <2>1. SUFFICES ASSUME v + 1 <= u PROVE FALSE
    OBVIOUS
  <2>2. (v + 1) * d <= u * d
    BY <2>1, Products
  <2>3. QED
    BY <1>3, <2>2, Z3
<1>4. p <= q /\ q <= p
  BY <1>2, <1>3
<1>5. QED
  BY <1>1, <1>2, <1>4

\* Entry b of run r of round q.
LEMMA RobinEntry ==
  ASSUME NEW c \in Nat \ {0}, NEW n \in Nat \ {0}, NEW r \in 0 .. n - 1, NEW q \in Nat,
         NEW b \in 0 .. c - 1, NEW m, m = q * n + r, NEW e, e = m * c + b
  PROVE  /\ e \in Nat /\ e % c = b
         /\ (e \div c) % n = r /\ (e \div c) \div n = q
<1>1. m \in Nat
  <2>1. q * n \in Nat
    BY Products
  <2>2. QED
    BY <2>1
<1>2. e = c * m + b
  BY <1>1, Z3
<1>3. e \in Nat /\ e \div c = m /\ e % c = b
  BY ONLY c \in Nat \ {0}, b \in 0 .. c - 1, <1>1, <1>2, Quotient
<1>4. m = n * q + r
  BY <1>1, Z3
<1>5. m \div n = q /\ m % n = r
  BY <1>4, Quotient
<1>6. QED
  BY <1>3, <1>5

-----------------------------------------------------------------------------
\* The entry that a thread reads next.
Entry(l, d) == EntriesBefore(l, d.file) + d.off + d.gap

\* A thread is at the entry for its next row: of a window it has read the entries
\* before; of round robin runs, k runs and a entries of the next, and that run goes
\* on to its end or to the last entry of the thread.
AtRun(l, r, t, d, k, a) ==
  /\ d.read = k * l.robin + a
  /\ Entry(l, d) = ((FirstRound(l, t) + k) * l.ranks + r) * l.robin + a
  /\ d.run = Lesser(l.robin - a, d.total - d.read)

Position(l, r, t, d) ==
  /\ l.robin = 0 => /\ d.read + d.run = d.total
                    /\ Entry(l, d) = WindowStart(l, r, t) + d.read
  /\ l.robin # 0 => \/ d.run = 0 /\ d.read = d.total
                    \/ \E k \in Nat, a \in 0 .. l.robin - 1 : AtRun(l, r, t, d, k, a)

InPosition ==
  \A r \in Rank : stage[r] = "read" =>
    \A t \in Thread : Position(layout, r, t, reader[r][t])

\* The first round of a thread is a number, and so is where its rows begin.
LEMMA FirstRoundTyped ==
  ASSUME Fits(layout), layout.robin # 0, NEW r \in Rank, NEW t \in Thread
  PROVE  /\ FirstRound(layout, t) \in Nat /\ Start(layout, r) \in Nat
         /\ layout.robin \in Nat \ {0} /\ layout.ranks \in Nat \ {0}
<1>1. r \in 0 .. layout.ranks - 1 /\ t \in 0 .. layout.threads - 1
  BY DEF Rank, Thread
<1>2. Rounds(layout) \in Nat
  BY <1>1, PartHoldsRounds
<1>3. /\ layout.threads \in Nat \ {0}
      /\ layout.robin \in Nat \ {0} /\ layout.ranks \in Nat \ {0}
  BY DEF Fits
<1>4. FirstRound(layout, t) \in Nat
  BY <1>1, <1>2, <1>3, RoundsInside
<1>5. QED
  BY <1>3, <1>4, WindowsInsideParts

\* The row of an entry of a run is where it belongs, and where its rank finds it.
LEMMA RunInPlace ==
  ASSUME Fits(layout), NEW r \in Rank, NEW t \in Thread, NEW d \in Record,
         Position(layout, r, t, d), NEW j \in Nat, j < d.run
  PROVE  LET e == Entry(layout, d) + j
             w == FirstRow(r, t) + d.read + j
         IN  Place(layout, e) = w /\ MappedIndex(layout, r, e) = w
<1>1. d.run > 0 /\ d.read \in Nat /\ d.run \in Nat /\ d.total \in Nat
  BY DEF Record
<1>2. CASE layout.robin = 0
  BY <1>1, <1>2 DEF Position, FirstRow, Place, MappedIndex
<1>3. CASE layout.robin # 0
  <2>1. PICK f \in Nat, s \in Nat, c \in Nat \ {0}, n \in Nat \ {0} :
          /\ f = FirstRound(layout, t) /\ s = Start(layout, r)
          /\ c = layout.robin /\ n = layout.ranks
    BY <1>3, FirstRoundTyped
  <2>2. PICK k \in Nat, a \in 0 .. c - 1 : AtRun(layout, r, t, d, k, a)
    BY <1>1, <1>3, <2>1 DEF Position
  <2>3. PICK b \in 0 .. c - 1 : b = a + j
    <3>1. d.run <= c - a
      BY <1>1, <2>1, <2>2 DEF AtRun, Lesser
    <3>2. QED
      BY <1>1, <3>1
  <2>4. PICK q \in Nat : q = f + k
    OBVIOUS
  <2>5. r \in 0 .. n - 1
    BY <2>1 DEF Rank
  <2>6. PICK m \in Nat, p \in Nat : m = q * n + r /\ p = m * c
    <3>1. q * n \in Nat
      BY Products
    <3>2. PICK m \in Nat : m = q * n + r
      BY <2>5, <3>1
    <3>3. m * c \in Nat
      BY Products
    <3>4. QED
      BY <3>2, <3>3
  <2>7. Entry(layout, d) = p + a
    BY <2>1, <2>2, <2>4, <2>6 DEF AtRun
  <2>8. PICK e \in Nat : e = p + b /\ e = Entry(layout, d) + j
    BY <2>3, <2>7
  <2>9. e % c = b /\ (e \div c) % n = r /\ (e \div c) \div n = q
    <3>1. e = m * c + b
      BY <2>6, <2>8
    <3>2. QED
      BY ONLY c \in Nat \ {0}, n \in Nat \ {0}, q \in Nat, b \in 0 .. c - 1,
              <2>5, <2>6, <3>1, RobinEntry
  <2>10. PICK g \in Nat, h \in Nat : g = f * c /\ h = k * c /\ c * q = g + h
    <3>1. f * c \in Nat /\ k * c \in Nat
      BY Products
    <3>2. c * q = f * c + k * c
      BY <2>4, Z3
    <3>3. QED
      BY <3>1, <3>2
  <2>11. FirstRow(r, t) + d.read + j = s + g + h + b
    <3>1. d.read = h + a
      BY <2>1, <2>2, <2>10 DEF AtRun
    <3>2. FirstRow(r, t) = s + g
      BY <1>3, <2>1, <2>10 DEF FirstRow
    <3>3. QED
      BY <2>3, <3>1, <3>2
  <2>12. MappedIndex(layout, r, e) = s + c * q + b
    BY <1>3, <2>1, <2>9 DEF MappedIndex
  <2>13. Place(layout, e) = s + c * q + b
    BY <1>3, <2>1, <2>9 DEF Place
  <2>14. QED
    BY <2>8, <2>10, <2>11, <2>12, <2>13
<1>4. QED
  BY <1>2, <1>3

\* A thread begins in position.
LEMMA ReaderInPosition ==
  ASSUME Fits(layout), NEW r \in Rank, NEW t \in Thread
  PROVE  Position(layout, r, t, Reader(r, t))
<1> DEFINE d == Reader(r, t)
<1>1. d.file = 1 /\ d.off = 0 /\ d.read = 0 /\ d.gap \in Nat /\ d.total \in Nat
  BY WindowsInsideParts DEF Reader, Idle
<1>2. EntriesBefore(layout, 1) = 0
  BY NothingBefore DEF Fits
<1>3. Entry(layout, d) = d.gap
  <2> HIDE DEF d
  <2>1. QED
    BY <1>1, <1>2 DEF Entry
<1>4. CASE layout.robin = 0
  <2>1. d.gap = WindowStart(layout, r, t) /\ d.run = d.total
    BY <1>4 DEF Reader, Idle
  <2> HIDE DEF d
  <2>2. Position(layout, r, t, d)
    BY <1>1, <1>3, <1>4, <2>1 DEF Position
  <2>3. QED
    BY <2>2 DEF d
<1>5. CASE layout.robin # 0
  <2>1. PICK f \in Nat, c \in Nat \ {0}, n \in Nat \ {0} :
          /\ f = FirstRound(layout, t) /\ c = layout.robin /\ n = layout.ranks
    BY <1>5, FirstRoundTyped
  <2>2. d.gap = (r + f * n) * c /\ d.run = Lesser(c, d.total)
    BY <1>5, <2>1 DEF Reader, Idle
  <2>3. r \in Nat /\ f * n \in Nat
    BY Products DEF Rank, Fits
  <2>4. d.gap = ((f + 0) * n + r) * c + 0
    <3>1. r + f * n = (f + 0) * n + r
      BY <2>3
    <3>2. PICK m \in Nat : m = r + f * n
      BY <2>3
    <3>3. m * c \in Nat
      BY Products
    <3>4. QED
      BY <2>2, <3>1, <3>2, <3>3
  <2>5. 0 = 0 * c + 0 /\ c - 0 = c /\ 0 \in 0 .. c - 1 /\ d.total - 0 = d.total
    BY <1>1
  <2> HIDE DEF d
  <2>6. AtRun(layout, r, t, d, 0, 0)
    BY <1>1, <1>3, <2>1, <2>2, <2>4, <2>5 DEF AtRun
  <2>7. Position(layout, r, t, d)
    BY <1>5, <2>1, <2>5, <2>6 DEF Position
  <2>8. QED
    BY <2>7 DEF d
<1>6. QED
  BY <1>4, <1>5

\* Passing a file does not change which entry a thread reads next.
LEMMA PassKeepsPosition ==
  ASSUME Fits(layout), NEW r \in Rank, NEW t \in Thread, NEW d \in Record, ~ AtEnd(d),
         Position(layout, r, t, d), NEW e \in Record,
         e.file = d.file + 1, e.off = 0, e.gap = d.off + d.gap - Size(d),
         e.run = d.run, e.total = d.total, e.read = d.read
  PROVE  Position(layout, r, t, e)
<1>1. d.file \in 1 .. Len(layout.files) /\ d.off \in Nat /\ d.gap \in Nat
  BY SMTT(30) DEF AtEnd, Record, Fits
<1>2. PICK m \in Nat, n \in Nat :
        /\ m = EntriesBefore(layout, d.file) /\ n = Size(d)
        /\ EntriesBefore(layout, d.file + 1) = m + n
  BY <1>1, FilesBefore DEF Fits, Size
<1>3. Entry(layout, e) = Entry(layout, d)
  BY <1>1, <1>2 DEF Entry
<1>4. QED
  BY <1>3 DEF Position, AtRun

\* A thread that has read n entries of its run.
AfterRun(l, d, n) ==
  [d EXCEPT !.off = @ + d.gap + n, !.read = @ + n,
            !.gap = IF d.run - n > 0 THEN 0 ELSE (l.ranks - 1) * l.robin,
            !.run = IF d.run - n > 0 THEN d.run - n ELSE Lesser(l.robin, d.total - d.read - n)]

\* After a run, or a part of it, a thread is at the entry for its next row.
LEMMA ReadKeepsPosition ==
  ASSUME Fits(layout), NEW r \in Rank, NEW t \in Thread, NEW d \in Record, ~ AtEnd(d),
         Position(layout, r, t, d), d.read + d.run <= d.total,
         NEW n \in Nat, n <= d.run, NEW e, e = AfterRun(layout, d, n)
  PROVE  Position(layout, r, t, e)
<1>1. PICK left \in Nat : left = d.run - n
  BY DEF Record
<1>2. /\ d.off \in Nat /\ d.gap \in Nat /\ d.run \in Nat /\ d.total \in Nat /\ d.read \in Nat
      /\ e.off = d.off + d.gap + n /\ e.read = d.read + n /\ e.total = d.total
  BY DEF Record, AfterRun
<1>3. left > 0 => e.gap = 0 /\ e.run = left
  BY <1>1 DEF Record, AfterRun
<1>4. left = 0 => /\ e.gap = (layout.ranks - 1) * layout.robin
                  /\ e.run = Lesser(layout.robin, d.total - d.read - n)
  BY <1>1 DEF Record, AfterRun
<1>5. PICK m \in Nat : m = EntriesBefore(layout, d.file)
  <2>1. d.file \in 1 .. Len(layout.files) /\ layout.files \in Seq(Nat)
    BY SMTT(30) DEF AtEnd, Record, Fits
  <2>2. QED
    BY <2>1, FilesBefore
<1>6. Entry(layout, d) = m + d.off + d.gap /\ Entry(layout, e) = m + (d.off + d.gap + n) + e.gap
  <2>1. e.file = d.file
    BY DEF Record, AfterRun
  <2>2. QED
    BY <1>2, <1>5, <2>1 DEF Entry
<1>7. d.read # d.total
  BY DEF AtEnd
<1>8. CASE layout.robin = 0
  <2>1. d.read + d.run = d.total /\ Entry(layout, d) = WindowStart(layout, r, t) + d.read
    BY <1>8 DEF Position
  <2>2. WindowStart(layout, r, t) \in Nat
    BY <1>8, WindowInside DEF Rank, Thread
  <2>3. e.gap = 0
    <3>1. (layout.ranks - 1) * layout.robin = 0
      <4>1. layout.ranks - 1 \in Nat
        BY DEF Fits
      <4>2. QED
        BY <1>8, <4>1, Z3
    <3>2. QED
      BY <1>3, <1>4, <3>1
  <2>4. Entry(layout, e) = WindowStart(layout, r, t) + e.read
    BY <1>2, <1>5, <1>6, <2>1, <2>2, <2>3
  <2>5. e.read + e.run = e.total
    <3>1. left = 0 => e.run = 0
      BY <1>1, <1>2, <1>4, <1>8, <2>1 DEF Lesser
    <3>2. QED
      BY <1>1, <1>2, <1>3, <2>1, <3>1
  <2>6. QED
    BY <1>8, <2>4, <2>5 DEF Position
<1>9. CASE layout.robin # 0
  <2>1. PICK f \in Nat, c \in Nat \ {0}, w \in Nat \ {0} :
          f = FirstRound(layout, t) /\ c = layout.robin /\ w = layout.ranks
    BY <1>9, FirstRoundTyped
  <2>2. PICK k \in Nat, a \in 0 .. c - 1 : AtRun(layout, r, t, d, k, a)
    BY <1>7, <1>9, <2>1 DEF Position
  <2>3. PICK h \in Nat, p \in Nat : h = k * c /\ p = ((f + k) * w + r) * c
    <3>1. PICK i \in Nat : i = f + k
      OBVIOUS
    <3>2. PICK u \in Nat : u = i * w + r
      <4>1. r \in Nat /\ i * w \in Nat
        BY <2>1, Products DEF Rank
      <4>2. QED
        BY <4>1
    <3>3. u * c \in Nat /\ k * c \in Nat
      BY Products
    <3>4. QED
      BY <3>1, <3>2, <3>3
  <2>4. d.read = h + a /\ Entry(layout, d) = p + a /\ d.run = Lesser(c - a, d.total - d.read)
    BY <2>1, <2>2, <2>3 DEF AtRun
  <2>5. CASE left > 0
    <3>1. PICK b \in 0 .. c - 1 : b = a + n
      BY <1>1, <1>2, <2>4, <2>5 DEF Lesser
    <3>2. e.read = h + b /\ Entry(layout, e) = p + b
      <4>1. e.gap = 0
        BY <1>3, <2>5
      <4>2. e.read = h + b
        BY <1>2, <2>4, <3>1
      <4>3. Entry(layout, e) = p + b
        BY <1>2, <1>5, <1>6, <2>4, <3>1, <4>1
      <4>4. QED
        BY <4>2, <4>3
    <3>3. e.run = Lesser(c - b, e.total - e.read)
      BY <1>1, <1>2, <1>3, <2>4, <2>5, <3>1 DEF Lesser
    <3>4. AtRun(layout, r, t, e, k, b)
      BY <2>1, <2>3, <3>2, <3>3 DEF AtRun
    <3>5. QED
      BY <1>9, <2>1, <3>1, <3>4 DEF Position
  <2>6. CASE left = 0 /\ d.read + n = d.total
    <3>1. e.run = 0
      BY <1>2, <1>4, <2>1, <2>6 DEF Lesser
    <3>2. QED
      BY <1>2, <1>9, <2>6, <3>1 DEF Position
  <2>7. CASE left = 0 /\ d.read + n # d.total
    <3>1. n = c - a
      BY <1>1, <1>2, <2>4, <2>7 DEF Lesser
    <3>2. PICK g \in Nat : g = (w - 1) * c /\ g + c = w * c /\ e.gap = g
      <4>1. w - 1 \in Nat /\ (w - 1) * c + c = w * c
        BY Z3
      <4>2. (w - 1) * c \in Nat
        BY <4>1, Products
      <4>3. QED
        BY <1>4, <2>1, <2>7, <4>1, <4>2
    <3>3. e.read = h + c /\ Entry(layout, e) = p + c + g /\ e.run = Lesser(c, e.total - e.read)
      <4>1. e.run = Lesser(c, e.total - e.read)
        BY <1>2, <1>4, <2>1, <2>7
      <4>2. e.read = h + c
        BY <1>2, <2>4, <3>1
      <4>3. Entry(layout, e) = p + c + g
        BY <1>2, <1>5, <1>6, <2>4, <3>1, <3>2
      <4>4. QED
        BY <4>1, <4>2, <4>3
    <3>4. PICK l \in Nat : l = k + 1 /\ l * c = h + c
      <4>1. (k + 1) * c = k * c + c
        BY Z3
      <4>2. QED
        BY <2>3, <4>1
    <3>5. ((f + l) * w + r) * c = p + g + c
      <4>1. r \in Nat
        BY <2>1 DEF Rank
      <4>2. ((f + (k + 1)) * w + r) * c = ((f + k) * w + r) * c + w * c
        BY <4>1, Z3
      <4>3. QED
        BY <2>3, <3>2, <3>4, <4>2
    <3>6. /\ e.read = l * c + 0 /\ Entry(layout, e) = ((f + l) * w + r) * c + 0
          /\ e.run = Lesser(c - 0, e.total - e.read)
      BY <3>2, <3>3, <3>4, <3>5
    <3>7. AtRun(layout, r, t, e, l, 0)
      BY <2>1, <3>6 DEF AtRun
    <3>8. QED
      BY <1>9, <2>1, <3>7 DEF Position
  <2>8. QED
    BY <2>5, <2>6, <2>7
<1>10. QED
  BY <1>8, <1>9

PInv == IInv /\ InPosition /\ CopiedToPlace

LEMMA OneThreadInPosition ==
  ASSUME IInv, InPosition, NEW r \in Rank, NEW t \in Thread, NEW d,
         UNCHANGED <<layout, stage>>, reader' = [reader EXCEPT ![r][t] = d],
         Position(layout, r, t, d)
  PROVE  InPosition'
<1>1. SUFFICES ASSUME NEW q \in Rank, stage[q] = "read", NEW u \in Thread
               PROVE  Position(layout, q, u, reader'[q][u])
  BY DEF InPosition, Rank, Thread
<1>2. reader'[q][u] = IF q = r /\ u = t THEN d ELSE reader[q][u]
  BY DEF IInv, TypeInv
<1>3. Position(layout, q, u, reader[q][u])
  BY <1>1 DEF InPosition
<1>4. QED
  BY <1>2, <1>3

LEMMA StartInPosition ==
  ASSUME Scope, PInv, NEW r \in Rank, StartReading(r)
  PROVE  InPosition' /\ CopiedToPlace'
<1>1. layout' = layout /\ copies' = copies
  BY DEF StartReading
<1>2. CopiedToPlace'
  BY <1>1 DEF PInv, CopiedToPlace
<1>3. ASSUME NEW q \in Rank, stage'[q] = "read", NEW u \in Thread
      PROVE  Position(layout, q, u, reader'[q][u])
  <2>1. CASE FileEntries(layout) > Start(layout, layout.ranks)
    <3>1. stage' = [stage EXCEPT ![r] = "refused"] /\ reader' = reader
      BY <2>1 DEF StartReading
    <3>2. stage[q] = "read"
      BY <1>3, <3>1 DEF PInv, IInv, TypeInv
    <3>3. QED
      BY <3>1, <3>2 DEF PInv, InPosition
  <2>2. CASE ~ (FileEntries(layout) > Start(layout, layout.ranks))
    <3>1. /\ stage' = [stage EXCEPT ![r] = "read"]
          /\ reader' = [reader EXCEPT ![r] = [t \in Thread |-> Reader(r, t)]]
      BY <2>2 DEF StartReading
    <3>2. CASE q = r
      <4>1. reader'[q][u] = Reader(r, u)
        BY <3>1, <3>2 DEF PInv, IInv, TypeInv
      <4>2. QED
        BY <3>2, <4>1, ReaderInPosition DEF Scope, PInv, IInv, TypeInv
    <3>3. CASE q # r
      <4>1. reader'[q] = reader[q] /\ stage[q] = "read"
        BY <1>3, <3>1, <3>3 DEF PInv, IInv, TypeInv
      <4>2. QED
        BY <4>1 DEF PInv, InPosition
    <3>4. QED
      BY <3>2, <3>3
  <2>3. QED
    BY <2>1, <2>2
<1>4. InPosition'
  BY <1>1, <1>3 DEF InPosition, Rank, Thread
<1>5. QED
  BY <1>2, <1>4

LEMMA PassInPosition ==
  ASSUME Scope, PInv, NEW r \in Rank, NEW t \in Thread, PassFile(r, t)
  PROVE  InPosition' /\ CopiedToPlace'
<1> DEFINE d == reader[r][t]
           e == [d EXCEPT !.file = @ + 1, !.off = 0, !.gap = d.off + d.gap - Size(d)]
<1>1. /\ UNCHANGED <<layout, stage, copies>> /\ d.off + d.gap >= Size(d)
      /\ reader' = [reader EXCEPT ![r][t] = e] /\ stage[r] = "read" /\ ~ AtEnd(d)
  BY DEF PassFile, Reads
<1>2. d \in Record /\ Fits(layout)
  BY DEF Scope, PInv, IInv, TypeInv
<1>3. Position(layout, r, t, d)
  BY <1>1 DEF PInv, InPosition
<1>4. PICK g \in Nat : g = d.off + d.gap - Size(d)
  <2>1. Size(d) \in Nat
    BY <1>1, <1>2, FileSize
  <2> HIDE DEF d
  <2>2. QED
    BY <1>1, <1>2, <2>1 DEF Record
<1>5. PICK f \in Nat \ {0} : f = d.file + 1
  BY <1>2 DEF Record
<1>6. e = [d EXCEPT !.file = f, !.off = 0, !.gap = g]
  BY <1>4, <1>5
<1> HIDE DEF d, e
<1>7. /\ e \in Record /\ e.file = d.file + 1 /\ e.off = 0 /\ e.gap = d.off + d.gap - Size(d)
      /\ e.run = d.run /\ e.total = d.total /\ e.read = d.read
  BY <1>2, <1>4, <1>5, <1>6 DEF Record
<1>8. Position(layout, r, t, e)
  BY <1>1, <1>2, <1>3, <1>7, PassKeepsPosition
<1>9. InPosition'
  BY <1>1, <1>8, OneThreadInPosition DEF PInv
<1>10. CopiedToPlace'
  BY <1>1 DEF PInv, CopiedToPlace
<1>11. QED
  BY <1>9, <1>10

LEMMA ReadInPosition ==
  ASSUME Scope, PInv, NEW r \in Rank, NEW t \in Thread, ReadRun(r, t)
  PROVE  InPosition' /\ CopiedToPlace'
<1> DEFINE d == reader[r][t]
           n == Lesser(d.run, Size(d) - d.off - d.gap)
<1>1. /\ UNCHANGED <<layout, stage>> /\ d.off + d.gap < Size(d)
      /\ reader' = [reader EXCEPT ![r][t] = AfterRun(layout, d, n)]
      /\ stage[r] = "read" /\ ~ AtEnd(d)
      /\ copies' = copies \cup Copied(r, t, n)
  BY DEF ReadRun, Reads, AfterRun
<1>2. d \in Record /\ Fits(layout)
  BY DEF Scope, PInv, IInv, TypeInv
<1>3. Position(layout, r, t, d) /\ d.read + d.run <= d.total
  BY <1>1 DEF PInv, InPosition, IInv, RunsInWindow
<1>4. n \in Nat /\ n <= d.run
  <2>1. Size(d) \in Nat
    BY <1>1, <1>2, FileSize
  <2> HIDE DEF d
  <2>2. QED
    BY <1>1, <1>2, <2>1 DEF Record, Lesser
<1>5. Copied(r, t, n) = {[rank |-> r, thread |-> t, row |-> FirstRow(r, t) + d.read + k,
                          entry |-> Entry(layout, d) + k] : k \in 0 .. n - 1}
  BY DEF Copied, Entry
<1>6. d.run \in Nat
  BY <1>2 DEF Record
<1> HIDE DEF d, n
<1>7. Position(layout, r, t, AfterRun(layout, d, n))
  BY <1>1, <1>2, <1>3, <1>4, ReadKeepsPosition
<1>8. InPosition'
  <2>1. PICK e : e = AfterRun(layout, d, n)
    OBVIOUS
  <2>2. QED
    BY <1>1, <1>7, <2>1, OneThreadInPosition DEF PInv
<1>9. CopiedToPlace'
  <2>1. SUFFICES ASSUME NEW c \in copies'
                 PROVE  c.row = Place(layout, c.entry) /\ MappedIndex(layout, c.rank, c.entry) = c.row
    BY <1>1 DEF CopiedToPlace
  <2>2. CASE c \in copies
    BY <2>2 DEF PInv, CopiedToPlace
  <2>3. CASE c \in Copied(r, t, n)
    <3>1. PICK k \in 0 .. n - 1 : /\ c.rank = r /\ c.row = FirstRow(r, t) + d.read + k
                                  /\ c.entry = Entry(layout, d) + k
      BY <1>5, <2>3
    <3>2. k \in Nat /\ k < d.run
      BY <1>4, <1>6
    <3>3. QED
      BY <1>2, <1>3, <3>1, <3>2, RunInPlace
  <2>4. QED
    BY <1>1, <2>2, <2>3
<1>10. QED
  BY <1>8, <1>9

LEMMA StageInPosition ==
  ASSUME PInv, NEW r \in Rank, Join(r) \/ Return(r)
  PROVE  InPosition' /\ CopiedToPlace'
<1>1. UNCHANGED <<layout, reader, copies>>
  BY DEF Join, Return
<1>2. \A q \in Rank : stage'[q] = "read" => stage[q] = "read"
  BY DEF Join, Return, PInv, IInv, TypeInv
<1>3. QED
  BY <1>1, <1>2 DEF PInv, InPosition, CopiedToPlace, Rank, Thread

LEMMA StutterInPosition ==
  ASSUME PInv, UNCHANGED vars
  PROVE  InPosition' /\ CopiedToPlace'
BY DEF vars, PInv, InPosition, CopiedToPlace, Rank, Thread

LEMMA StepPInv == ASSUME Scope, PInv, [Next]_vars PROVE PInv'
<1>1. IInv'
  BY StepIInv DEF PInv
<1>2. CASE Next
  <2>1. ASSUME NEW r \in Rank, StartReading(r) PROVE InPosition' /\ CopiedToPlace'
    BY <2>1, StartInPosition
  <2>2. ASSUME NEW r \in Rank, NEW t \in Thread, PassFile(r, t)
        PROVE  InPosition' /\ CopiedToPlace'
    BY <2>2, PassInPosition
  <2>3. ASSUME NEW r \in Rank, NEW t \in Thread, ReadRun(r, t)
        PROVE  InPosition' /\ CopiedToPlace'
    BY <2>3, ReadInPosition
  <2>4. ASSUME NEW r \in Rank, Join(r) \/ Return(r) PROVE InPosition' /\ CopiedToPlace'
    BY <2>4, StageInPosition
  <2>5. CASE Finished
    BY <1>1, <2>5, StutterInPosition DEF Finished, PInv
  <2>6. QED
    BY <1>1, <1>2, <2>1, <2>2, <2>3, <2>4, <2>5 DEF Next, Step, Read, PInv
<1>3. QED
  BY <1>1, <1>2, StutterInPosition DEF PInv

-----------------------------------------------------------------------------
\* Entry e is among the first n entries that thread t of rank r reads.
AmongFirst(l, r, t, n, e) ==
  IF l.robin = 0 THEN WindowStart(l, r, t) <= e /\ e < WindowStart(l, r, t) + n
  ELSE \E k \in Nat, a \in 0 .. l.robin - 1 :
         /\ k * l.robin + a < n
         /\ e = ((FirstRound(l, t) + k) * l.ranks + r) * l.robin + a

\* The entries of the files that rank r has to read, and those that have been stored.
Share(l, r) ==
  {e \in 0 .. FileEntries(l) - 1 :
     IF l.robin = 0 THEN Start(l, r) <= e /\ e < Start(l, r + 1)
     ELSE (e \div l.robin) % l.ranks = r}

Stored == {c.entry : c \in copies}

\* Of two entries, the one of the later run is behind the other.
LEMMA RunsOrdered ==
  ASSUME NEW c \in Nat \ {0}, NEW u \in Nat, NEW v \in Nat,
         NEW a \in 0 .. c - 1, NEW b \in 0 .. c - 1, u * c + a <= v * c + b
  PROVE  u <= v /\ (u = v => a <= b)
<1>1. u <= v
  <2>1. SUFFICES ASSUME v + 1 <= u PROVE FALSE
    OBVIOUS
  <2>2. (v + 1) * c <= u * c /\ (v + 1) * c = v * c + c
    BY <2>1, Products, Z3
  <2>3. u * c \in Nat /\ v * c \in Nat
    BY Products
  <2>4. QED
    BY <2>2, <2>3
<1>2. u * c \in Nat
  BY Products
<1>3. QED
  BY <1>1, <1>2

\* The files have the entries of the list.
LEMMA FilesEnd ==
  ASSUME NEW l, l.files \in Seq(Nat)
  PROVE  /\ FileEntries(l) \in Nat
         /\ EntriesBefore(l, Len(l.files) + 1) = FileEntries(l)
         /\ \A i \in 1 .. Len(l.files) : EntriesBefore(l, i + 1) <= FileEntries(l)
<1>1. PICK n \in Nat : n = Len(l.files)
  OBVIOUS
<1>2. EntriesBefore(l, n + 1) = FileEntries(l)
  <2>1. DOMAIN l.files = 1 .. n /\ 1 .. (n + 1) - 1 = 1 .. n
    BY <1>1
  <2>2. QED
    BY <2>1, Zenon DEF EntriesBefore, FileEntries, SumFunction
<1>3. EntriesBefore(l, n + 1) \in Nat
  <2>1. CASE n = 0
    BY <2>1, NothingBefore
  <2>2. CASE n # 0
    <3>1. n \in 1 .. n
      BY <2>2
    <3>2. PICK a \in Nat, b \in Nat : EntriesBefore(l, n + 1) = a + b
      BY <1>1, <3>1, FilesBefore
    <3>3. QED
      BY <3>2
  <2>3. QED
    BY <2>1, <2>2
<1>4. PICK m \in Nat : m = FileEntries(l)
  BY <1>2, <1>3
<1>5. \A i \in 1 .. n : EntriesBefore(l, i + 1) <= m
  <2> DEFINE S == {i \in 1 .. n : ~ (EntriesBefore(l, i + 1) <= m)}
  <2>1. SUFFICES ASSUME S # {} PROVE FALSE
    OBVIOUS
  <2>2. PICK i \in S : \A j \in S : j <= i
    <3>1. S \in SUBSET Nat /\ \A j \in S : j <= n
      OBVIOUS
    <3> HIDE DEF S
    <3>2. QED
      BY <1>1, <2>1, <3>1, LargestElement
  <2>3. i \in 1 .. n /\ i # n /\ i + 1 \in 1 .. n
    BY <1>1, <1>2, <1>4
  <2>4. PICK j \in 1 .. n : j = i + 1
    BY <2>3
  <2>5. PICK a \in Nat, b \in Nat : a = EntriesBefore(l, j) /\ EntriesBefore(l, j + 1) = a + b
    BY <1>1, FilesBefore
  <2>6. ~ (a <= m) /\ a + b <= m
    <3>1. j \notin S
      BY <2>2, <2>4
    <3>2. QED
      BY <2>3, <2>4, <2>5, <3>1
  <2>7. QED
    BY <2>6
<1>6. QED
  BY <1>1, <1>2, <1>4, <1>5

LEMMA Divided ==
  ASSUME NEW n \in Nat, NEW d \in Nat, d # 0
  PROVE  \E q \in Nat, x \in Nat : q = n \div d /\ x = n % d /\ n = d * q + x /\ x < d
<1>1. n \div d \in Nat /\ n % d \in Nat /\ n % d < d /\ n = d * (n \div d) + (n % d)
  BY Division, SMT
<1>2. QED
  BY <1>1, Zenon

\* The windows of a part cover it.
LEMMA WindowsCover ==
  ASSUME NEW l, Fits(l), l.robin = 0, NEW r \in 0 .. l.ranks - 1,
         NEW e \in Nat, Start(l, r) <= e, e < Start(l, r + 1)
  PROVE  \E t \in 0 .. l.threads - 1 :
           WindowStart(l, r, t) <= e /\ e < WindowStart(l, r, t) + WindowSize(l, r, t)
<1>1. PICK h \in Nat \ {0} : h = l.threads
  BY DEF Fits
<1>2. PICK a \in Nat, b \in Nat : a = Start(l, r) /\ b = Start(l, r + 1) /\ a <= e /\ e < b
  BY <1>1, WindowInside
<1>3. PICK p \in Nat : p = PerThread(l, r) /\ b - a <= h * p
  <2>1. PICK n \in Nat : n = b - a
    BY <1>2
  <2>2. PerThread(l, r) = Ceiling(n, h)
    BY <1>1, <1>2, <2>1 DEF PerThread
  <2>3. QED
    BY <2>1, <2>2, Rounding
<1>4. PICK y \in Nat : y = e - a /\ y < h * p
  <2>1. h * p \in Nat
    BY Products
  <2>2. QED
    BY <1>2, <1>3, <2>1
<1>5. p # 0
  BY <1>4, Z3
<1>6. PICK t \in Nat, x \in Nat : y = p * t + x /\ x < p
  BY <1>5, Divided
<1>7. t < h
  <2>1. SUFFICES ASSUME h <= t PROVE FALSE
    OBVIOUS
  <2>2. h * p <= t * p /\ t * p = p * t
    BY <2>1, Products, Z3
  <2>3. h * p \in Nat /\ p * t \in Nat
    BY Products
  <2>4. QED
    BY <1>4, <1>6, <2>2, <2>3
<1>8. t \in 0 .. l.threads - 1
  BY <1>1, <1>7
<1>9. PICK k \in Nat : k = t * p /\ y = k + x
  <2>1. t * p = p * t /\ t * p \in Nat
    BY Products, Z3
  <2>2. QED
    BY <1>6, <2>1
<1>10. WindowStart(l, r, t) = a + k
  BY <1>2, <1>3, <1>9 DEF WindowStart
<1>11. WindowSize(l, r, t) = Lesser(p, b - (a + k))
  BY <1>2, <1>3, <1>8, <1>10, WindowInside
<1>12. QED
  BY <1>2, <1>4, <1>6, <1>8, <1>9, <1>10, <1>11 DEF Lesser

\* The rounds of the threads cover the full rounds; what is left after them comes
\* after the rounds of the last thread.
LEMMA RoundsCovered ==
  ASSUME NEW l, Rounds(l) \in Nat, l.threads \in Nat \ {0}
  PROVE  /\ \A q \in 0 .. Rounds(l) - 1 :
              \E t \in 0 .. l.threads - 1, k \in Nat : k < RoundsOf(l, t) /\ FirstRound(l, t) + k = q
         /\ FirstRound(l, l.threads - 1) + RoundsOf(l, l.threads - 1) = Rounds(l)
<1>1. PICK m \in Nat, h \in Nat \ {0} : m = Rounds(l) /\ h = l.threads
  OBVIOUS
<1>2. PICK p \in Nat : p = RoundsPerThread(l) /\ m <= h * p
  BY <1>1, Rounding DEF RoundsPerThread
<1>3. ASSUME NEW t \in Nat, NEW k \in Nat, k = t * p
      PROVE  /\ RoundsOf(l, t) = Larger(0, Lesser(p, m - k))
             /\ FirstRound(l, t) = IF RoundsOf(l, t) = 0 THEN m ELSE k
  BY <1>1, <1>2, <1>3 DEF RoundsOf, FirstRound
<1>4. ASSUME NEW q \in 0 .. m - 1
      PROVE  \E t \in 0 .. h - 1, k \in Nat : k < RoundsOf(l, t) /\ FirstRound(l, t) + k = q
  <2>1. h * p \in Nat
    BY Products
  <2>2. p # 0
    <3>1. q < h * p
      BY <1>2, <2>1
    <3>2. QED
      BY <3>1, Z3
  <2>3. PICK t \in Nat, x \in Nat : q = p * t + x /\ x < p
    <3>1. q \in Nat
      OBVIOUS
    <3>2. QED
      BY <2>2, <3>1, Divided
  <2>4. PICK k \in Nat : k = t * p /\ q = k + x
    <3>1. t * p = p * t /\ t * p \in Nat
      BY Products, Z3
    <3>2. QED
      BY <2>3, <3>1
  <2>5. t < h
    <3>1. SUFFICES ASSUME h <= t PROVE FALSE
      OBVIOUS
    <3>2. h * p <= t * p
      BY <3>1, Products
    <3>3. QED
      BY <1>2, <2>1, <2>4, <3>2
  <2>6. RoundsOf(l, t) = Larger(0, Lesser(p, m - k))
        /\ FirstRound(l, t) = IF RoundsOf(l, t) = 0 THEN m ELSE k
    BY <1>3, <2>4
  <2>7. x < RoundsOf(l, t) /\ FirstRound(l, t) + x = q
    BY <2>3, <2>4, <2>6 DEF Larger, Lesser
  <2>8. QED
    BY <2>5, <2>7
<1>5. FirstRound(l, h - 1) + RoundsOf(l, h - 1) = m
  <2>1. PICK k \in Nat : k = (h - 1) * p /\ m <= k + p
    <3>1. h - 1 \in Nat /\ (h - 1) * p + p = h * p
      BY Z3
    <3>2. (h - 1) * p \in Nat
      BY <3>1, Products
    <3>3. QED
      BY <1>2, <3>1, <3>2
  <2>2. PICK t \in Nat : t = h - 1
    OBVIOUS
  <2>3. RoundsOf(l, t) = Larger(0, Lesser(p, m - k))
        /\ FirstRound(l, t) = IF RoundsOf(l, t) = 0 THEN m ELSE k
    BY <1>3, <2>1, <2>2
  <2>4. QED
    BY <2>1, <2>2, <2>3 DEF Larger, Lesser
<1>6. QED
  BY <1>1, <1>4, <1>5

\* An entry behind the full rounds is one of those that its rank reads in addition.
LEMMA ExtraCovers ==
  ASSUME NEW l, Fits(l), l.robin # 0, NEW r \in 0 .. l.ranks - 1,
         NEW m \in Nat, m = (Rounds(l) * l.ranks) + r, NEW a \in 0 .. l.robin - 1,
         m * l.robin + a < FileEntries(l)
  PROVE  a < Extra(l, r)
<1>1. PICK c \in Nat \ {0}, n \in Nat \ {0} : c = l.robin /\ n = l.ranks
  BY DEF Fits
<1>2. PICK d \in Nat \ {0} : d = n * c
  <2>1. n * c \in Nat \ {0}
    BY Z3
  <2>2. QED
    BY <2>1
<1>3. PICK f \in Nat : f = FileEntries(l)
  BY DEF Fits
<1>4. PICK q \in Nat, x \in Nat : q = f \div d /\ x = f % d /\ f = d * q + x /\ x < d
  BY Divided
<1>5. Rounds(l) = q
  BY <1>1, <1>2, <1>3, <1>4 DEF Rounds
<1>6. Extra(l, r) = IF x > (r + 1) * c THEN c ELSE Larger(0, x - r * c)
  BY <1>1, <1>2, <1>3, <1>4 DEF Extra
<1>7. PICK k \in Nat, g \in Nat : k = r * c /\ (r + 1) * c = k + c /\ g = d * q /\ m * c = g + k
  <2>1. r \in Nat
    BY <1>1
  <2>2. (q * n + r) * c = (n * c) * q + r * c /\ (r + 1) * c = r * c + c
    BY <2>1, Z3
  <2>3. r * c \in Nat /\ d * q \in Nat
    BY <2>1, Products
  <2>4. QED
    BY <1>1, <1>2, <1>5, <2>2, <2>3
<1>8. g + k + a < g + x
  BY <1>1, <1>3, <1>4, <1>7
<1>9. QED
  BY <1>1, <1>6, <1>7, <1>8 DEF Larger

\* Every entry of a rank's share is given to one of its threads.
LEMMA ShareAssigned ==
  ASSUME Fits(layout), NEW r \in Rank, NEW e \in Share(layout, r)
  PROVE  \E t \in Thread : AmongFirst(layout, r, t, Reader(r, t).total, e)
<1>1. layout.files \in Seq(Nat) /\ r \in 0 .. layout.ranks - 1
  BY DEF Fits, Rank
<1>2. PICK f \in Nat : f = FileEntries(layout)
  BY <1>1, FilesEnd
<1>3. e \in Nat /\ e < f
  BY <1>2 DEF Share
<1>4. CASE layout.robin = 0
  <2>1. PICK t \in Thread : /\ WindowStart(layout, r, t) <= e
                            /\ e < WindowStart(layout, r, t) + WindowSize(layout, r, t)
    BY <1>1, <1>3, <1>4, WindowsCover DEF Share, Thread
  <2>2. Reader(r, t).total = WindowSize(layout, r, t)
    BY <1>4 DEF Reader, Idle
  <2>3. QED
    BY <1>4, <2>1, <2>2 DEF AmongFirst
<1>5. CASE layout.robin # 0
  <2>1. PICK c \in Nat \ {0}, n \in Nat \ {0}, h \in Nat \ {0}, w \in Nat :
          /\ c = layout.robin /\ n = layout.ranks /\ h = layout.threads /\ w = Rounds(layout)
    <3>1. Rounds(layout) \in Nat
      BY <1>1, <1>5, PartHoldsRounds
    <3>2. QED
      BY <1>5, <3>1 DEF Fits
  <2>2. PICK i \in Nat, a \in Nat : e = c * i + a /\ a < c
    BY <1>3, Divided
  <2>3. PICK q \in Nat, s \in Nat : i = n * q + s /\ s < n
    BY Divided
  <2>4. s = r
    <3>1. e \div c = i /\ i % n = s
      BY <1>3, <2>2, <2>3, Quotient, ZenonT(30)
    <3>2. QED
      BY <1>5, <2>1, <3>1 DEF Share
  <2>5. i = (q * n) + r /\ e = i * c + a /\ a \in 0 .. c - 1
    <3>1. q * n = n * q /\ i * c = c * i
      BY Z3
    <3>2. QED
      BY <2>2, <2>3, <2>4, <3>1
  <2>6. ASSUME NEW t \in Thread, NEW k \in Nat, FirstRound(layout, t) + k = q,
               k * c + a < Reader(r, t).total
        PROVE  \E u \in Thread : AmongFirst(layout, r, u, Reader(r, u).total, e)
    <3>1. e = ((FirstRound(layout, t) + k) * n + r) * c + a
      BY <2>5, <2>6
    <3>2. QED
      BY <1>5, <2>1, <2>5, <2>6, <3>1 DEF AmongFirst
  <2>7. \A t \in Thread :
          /\ Reader(r, t).total = CountOf(layout, r, t)
          /\ RoundsOf(layout, t) \in Nat /\ FirstRound(layout, t) \in Nat
    BY <1>5, <2>1, RoundsInside DEF Reader, Idle, Thread
  <2>8. PICK x \in Nat : x = Extra(layout, r)
    BY <1>1, <1>5, PartHoldsRounds
  <2>9. CASE q < w
    <3>1. PICK t \in Thread, k \in Nat : k < RoundsOf(layout, t) /\ FirstRound(layout, t) + k = q
      <4>1. q \in 0 .. Rounds(layout) - 1
        BY <2>1, <2>9
      <4>2. QED
        BY <2>1, <4>1, RoundsCovered DEF Thread
    <3>2. PICK m \in Nat : m = RoundsOf(layout, t) /\ k + 1 <= m
      BY <2>7, <3>1
    <3>3. k * c + a < m * c
      <4>1. (k + 1) * c <= m * c /\ (k + 1) * c = k * c + c
        BY <3>2, Products, Z3
      <4>2. k * c \in Nat /\ m * c \in Nat
        BY Products
      <4>3. QED
        BY <2>2, <4>1, <4>2
    <3>4. k * c + a < Reader(r, t).total
      <4>1. CountOf(layout, r, t) = m * c + (IF t = h - 1 THEN x ELSE 0)
        BY <2>1, <2>8, <3>2 DEF CountOf
      <4>2. k * c \in Nat /\ m * c \in Nat
        BY Products
      <4>3. QED
        BY <2>7, <3>3, <4>1, <4>2
    <3>5. QED
      BY <2>6, <3>1, <3>4
  <2>10. CASE ~ (q < w)
    <3>1. q = w
      <4>1. Rounds(layout) = f \div (n * c)
        BY <1>2, <2>1 DEF Rounds
      <4>2. PICK d \in Nat \ {0} : d = n * c
        <5>1. n * c \in Nat \ {0}
          BY Z3
        <5>2. QED
          BY <5>1
      <4>3. PICK v \in Nat, y \in Nat : v = f \div d /\ y = f % d /\ f = d * v + y /\ y < d
        BY Divided
      <4>4. e = d * q + (r * c + a)
        <5>1. r \in Nat
          BY <1>1, <2>1
        <5>2. ((q * n) + r) * c + a = (n * c) * q + (r * c + a)
          BY <5>1, Z3
        <5>3. QED
          BY <2>5, <4>2, <5>2
      <4>5. d * (w + 1) <= d * q \/ q <= w
        <5>1. w + 1 <= q => (w + 1) * d <= q * d /\ (w + 1) * d = d * (w + 1) /\ q * d = d * q
          BY Products, Z3
        <5>2. QED
          BY <5>1
      <4>6. d * (w + 1) = d * w + d /\ d * w \in Nat /\ d * q \in Nat
        BY Products, Z3
      <4>7. r * c + a \in Nat
        <5>1. r \in Nat
          BY <1>1, <2>1
        <5>2. r * c \in Nat
          BY <5>1, Products
        <5>3. QED
          BY <5>2
      <4>8. w = v
        BY <2>1, <4>1, <4>2, <4>3
      <4>9. PICK g \in Nat, j \in Nat, b \in Nat :
              g = d * w /\ j = d * q /\ b = r * c + a /\ (g + d <= j \/ q <= w)
        BY <4>5, <4>6, <4>7
      <4>10. f = g + y /\ e = j + b
        BY <4>3, <4>4, <4>8, <4>9
      <4>11. QED
        BY <1>3, <2>10, <4>3, <4>9, <4>10
    <3>2. a < x
      <4>1. i * layout.robin + a < FileEntries(layout) /\ i = (Rounds(layout) * layout.ranks) + r
        BY <1>2, <1>3, <2>1, <2>5, <3>1
      <4>2. QED
        BY <1>1, <1>5, <2>1, <2>5, <2>8, <4>1, ExtraCovers
    <3>3. PICK t \in Thread : t = h - 1
      BY <2>1 DEF Thread
    <3>4. PICK k \in Nat : k = RoundsOf(layout, t) /\ FirstRound(layout, t) + k = q
      BY <2>1, <2>7, <3>1, <3>3, RoundsCovered
    <3>5. k * c + a < Reader(r, t).total
      <4>1. CountOf(layout, r, t) = k * c + x
        BY <2>1, <2>8, <3>3, <3>4 DEF CountOf
      <4>2. k * c \in Nat
        BY Products
      <4>3. QED
        BY <2>7, <3>2, <4>1, <4>2
    <3>6. QED
      BY <2>6, <3>4, <3>5
  <2>11. QED
    BY <2>9, <2>10
<1>6. QED
  BY <1>4, <1>5

\* What a thread has read after n more entries of its run.
LEMMA RunsRead ==
  ASSUME Fits(layout), NEW r \in Rank, NEW t \in Thread, NEW d \in Record, ~ AtEnd(d),
         Position(layout, r, t, d), NEW n \in Nat, n <= d.run,
         NEW e \in Nat, AmongFirst(layout, r, t, d.read + n, e)
  PROVE  AmongFirst(layout, r, t, d.read, e) \/ \E j \in 0 .. n - 1 : e = Entry(layout, d) + j
<1>1. d.read \in Nat /\ d.run \in Nat /\ d.total \in Nat /\ d.read # d.total
  BY DEF Record, AtEnd
<1>2. CASE layout.robin = 0
  <2>1. PICK s \in Nat : s = WindowStart(layout, r, t)
    BY <1>2, WindowInside DEF Rank, Thread
  <2>2. Entry(layout, d) = s + d.read /\ s <= e /\ e < s + (d.read + n)
    BY <1>2, <2>1 DEF Position, AmongFirst
  <2>3. CASE e < s + d.read
    BY <1>2, <2>1, <2>2, <2>3 DEF AmongFirst
  <2>4. CASE ~ (e < s + d.read)
    <3>1. PICK j \in 0 .. n - 1 : e = (s + d.read) + j
      <4>1. e - (s + d.read) \in 0 .. n - 1 /\ e = (s + d.read) + (e - (s + d.read))
        BY <1>1, <2>2, <2>4
      <4>2. QED
        BY <4>1
    <3>2. QED
      BY <2>2, <3>1
  <2>5. QED
    BY <2>3, <2>4
<1>3. CASE layout.robin # 0
  <2>1. PICK f \in Nat, c \in Nat \ {0}, w \in Nat \ {0} :
          f = FirstRound(layout, t) /\ c = layout.robin /\ w = layout.ranks
    BY <1>3, FirstRoundTyped
  <2>2. PICK i \in Nat, b \in 0 .. c - 1 :
          i * c + b < d.read + n /\ e = ((f + i) * w + r) * c + b
    BY <1>3, <2>1 DEF AmongFirst
  <2>3. CASE i * c + b < d.read
    BY <1>3, <2>1, <2>2, <2>3 DEF AmongFirst
  <2>4. CASE ~ (i * c + b < d.read)
    <3>1. i * c \in Nat
      BY Products
    <3>2. n # 0
      BY <1>1, <2>2, <2>4, <3>1
    <3>3. PICK k \in Nat, a \in 0 .. c - 1 : AtRun(layout, r, t, d, k, a)
      BY <1>1, <1>3, <2>1 DEF Position
    <3>4. PICK h \in Nat : h = k * c
      BY Products
    <3>5. d.read = h + a /\ n <= c - a
      BY <1>1, <2>1, <3>3, <3>4 DEF AtRun, Lesser
    <3>6. k * c + a <= i * c + b
      BY <2>4, <3>1, <3>4, <3>5
    <3>7. k <= i /\ (k = i => a <= b)
      BY <3>6, RunsOrdered
    <3>8. i = k
      <4>1. SUFFICES ASSUME k + 1 <= i PROVE FALSE
        BY <3>7
      <4>2. (k + 1) * c <= i * c /\ (k + 1) * c = k * c + c
        BY <4>1, Products, Z3
      <4>3. QED
        BY <2>2, <3>1, <3>4, <3>5, <4>2
    <3>9. b - a \in 0 .. n - 1
      BY <2>2, <3>4, <3>5, <3>7, <3>8
    <3>10. PICK p \in Nat : p = ((f + k) * w + r) * c
      <4>1. PICK q \in Nat : q = f + k
        OBVIOUS
      <4>2. PICK u \in Nat : u = q * w + r
        <5>1. r \in Nat /\ q * w \in Nat
          BY <2>1, Products DEF Rank
        <5>2. QED
          BY <5>1
      <4>3. u * c \in Nat
        BY Products
      <4>4. QED
        BY <4>1, <4>2, <4>3
    <3>11. Entry(layout, d) = p + a
      BY <2>1, <3>3, <3>10 DEF AtRun
    <3>12. e = (p + a) + (b - a)
      BY <2>2, <3>8, <3>10
    <3>13. QED
      BY <3>9, <3>11, <3>12
  <2>5. QED
    BY <2>3, <2>4
<1>4. QED
  BY <1>2, <1>3

\* A thread that has come to the end of the files has read what it was given, as far
\* as the files have it.
LEMMA EndedRead ==
  ASSUME Fits(layout), NEW r \in Rank, NEW t \in Thread, NEW d \in Record, AtEnd(d),
         d.file <= Len(layout.files) + 1, Position(layout, r, t, d),
         NEW e \in Nat, e < FileEntries(layout), AmongFirst(layout, r, t, d.total, e)
  PROVE  AmongFirst(layout, r, t, d.read, e)
<1>1. CASE d.read = d.total
  BY <1>1
<1>2. CASE d.read # d.total
  <2>1. PICK m \in Nat : m = FileEntries(layout) /\ Entry(layout, d) >= m
    <3>1. d.file = Len(layout.files) + 1 /\ layout.files \in Seq(Nat)
      BY <1>2 DEF AtEnd, Record, Fits
    <3>2. PICK m \in Nat : m = FileEntries(layout) /\ EntriesBefore(layout, d.file) = m
      BY <3>1, FilesEnd
    <3>3. QED
      BY <3>2 DEF Entry, Record
  <2>2. d.read \in Nat /\ d.run \in Nat /\ d.total \in Nat
    BY DEF Record
  <2>3. CASE layout.robin = 0
    <3>1. PICK s \in Nat : s = WindowStart(layout, r, t)
      BY <2>3, WindowInside DEF Rank, Thread
    <3>2. QED
      BY <2>1, <2>2, <2>3, <3>1 DEF Position, AmongFirst
  <2>4. CASE layout.robin # 0
    <3>1. PICK f \in Nat, c \in Nat \ {0}, w \in Nat \ {0} :
            f = FirstRound(layout, t) /\ c = layout.robin /\ w = layout.ranks
      BY <2>4, FirstRoundTyped
    <3>2. PICK k \in Nat, a \in 0 .. c - 1 : AtRun(layout, r, t, d, k, a)
      BY <1>2, <2>4, <3>1 DEF Position
    <3>3. PICK i \in Nat, b \in 0 .. c - 1 : e = ((f + i) * w + r) * c + b
      BY <2>4, <3>1 DEF AmongFirst
    <3>4. PICK h \in Nat, j \in Nat : h = (f + k) * w + r /\ j = (f + i) * w + r
      <4>1. r \in Nat
        BY <3>1 DEF Rank
      <4>2. PICK p \in Nat, q \in Nat : p = f + k /\ q = f + i
        OBVIOUS
      <4>3. p * w \in Nat /\ q * w \in Nat
        BY Products
      <4>4. QED
        BY <4>1, <4>2, <4>3
    <3>5. j * c + b < h * c + a
      <4>1. Entry(layout, d) = h * c + a
        BY <3>1, <3>2, <3>4 DEF AtRun
      <4>2. PICK x \in Nat, y \in Nat : x = j * c /\ y = h * c
        BY Products
      <4>3. e = x + b /\ e < m
        BY <2>1, <3>3, <3>4, <4>2
      <4>4. QED
        BY <2>1, <4>1, <4>2, <4>3
    <3>6. j <= h /\ (j = h => b < a)
      <4>1. j * c \in Nat /\ h * c \in Nat
        BY Products
      <4>2. j * c + b <= h * c + a
        BY <3>5, <4>1
      <4>3. j <= h
        BY <4>2, RunsOrdered
      <4>4. QED
        BY <3>5, <4>1, <4>3
    <3>7. i <= k /\ (i = k => j = h)
      <4>1. PICK p \in Nat, q \in Nat : p = f + k /\ q = f + i
        OBVIOUS
      <4>2. r \in 0 .. w - 1 /\ q * w + r <= p * w + r
        BY <3>1, <3>4, <3>6, <4>1 DEF Rank
      <4>3. q <= p
        BY <4>2, RunsOrdered
      <4>4. QED
        BY <3>4, <4>1, <4>3
    <3>8. i * c + b < k * c + a
      <4>1. PICK x \in Nat, y \in Nat : x = i * c /\ y = k * c /\ (i + 1 <= k => x + c <= y)
        <5>1. i + 1 <= k => (i + 1) * c <= k * c /\ (i + 1) * c = i * c + c
          BY Products, Z3
        <5>2. i * c \in Nat /\ k * c \in Nat
          BY Products
        <5>3. QED
          BY <5>1, <5>2
      <4>2. CASE i = k
        BY <3>6, <3>7, <4>1, <4>2
      <4>3. CASE i # k
        BY <3>7, <4>1, <4>3
      <4>4. QED
        BY <4>2, <4>3
    <3>9. d.read = k * c + a
      BY <3>1, <3>2 DEF AtRun
    <3>10. QED
      BY <2>4, <3>1, <3>3, <3>8, <3>9 DEF AmongFirst
  <2>5. QED
    BY <2>3, <2>4
<1>3. QED
  BY <1>1, <1>2

-----------------------------------------------------------------------------
\* What a thread has read is stored.  A rank whose threads have ended has stored its
\* share, and one that has returned has met all others.
ReadIsStored ==
  \A r \in Rank : stage[r] = "read" =>
    \A t \in Thread :
      /\ reader[r][t].file <= Len(layout.files) + 1
      /\ \A e \in Nat : AmongFirst(layout, r, t, reader[r][t].read, e) => e \in Stored

SharesStored ==
  \A r \in Rank :
    /\ stage[r] \in {"barrier", "returned"} => Share(layout, r) \subseteq Stored
    /\ stage[r] \in {"read", "barrier", "returned"} =>
         FileEntries(layout) <= Start(layout, layout.ranks)
    /\ stage[r] = "returned" => \A q \in Rank : stage[q] \in {"barrier", "returned"}

StoredInFiles == \A e \in Stored : e \in Nat /\ e < FileEntries(layout)

LInv == PInv /\ ReadIsStored /\ SharesStored /\ StoredInFiles

\* The part of it that a step may change.
LParts == ReadIsStored /\ SharesStored /\ StoredInFiles

\* A thread that begins has read nothing.
LEMMA NothingRead ==
  ASSUME Fits(layout), NEW r \in Rank, NEW t \in Thread, NEW e \in Nat
  PROVE  ~ AmongFirst(layout, r, t, 0, e)
<1>1. CASE layout.robin = 0
  <2>1. WindowStart(layout, r, t) \in Nat
    BY <1>1, WindowInside DEF Rank, Thread
  <2>2. QED
    BY <1>1, <2>1 DEF AmongFirst
<1>2. CASE layout.robin # 0
  <2>1. layout.robin \in Nat
    BY DEF Fits
  <2>2. \A k \in Nat : k * layout.robin \in Nat
    BY <2>1, Products
  <2>3. QED
    BY <1>2, <2>1, <2>2 DEF AmongFirst
<1>3. QED
  BY <1>1, <1>2

LEMMA StartLoads ==
  ASSUME Scope, LInv, NEW r \in Rank, StartReading(r)
  PROVE  LParts'
<1>1. layout' = layout /\ copies' = copies /\ Stored' = Stored /\ Fits(layout)
  BY DEF StartReading, Stored, Scope, LInv, PInv, IInv, TypeInv
<1>2. stage[r] = "check"
  BY DEF StartReading
<1>3. StoredInFiles'
  BY <1>1 DEF LInv, StoredInFiles
<1>4. CASE FileEntries(layout) > Start(layout, layout.ranks)
  <2>1. stage' = [stage EXCEPT ![r] = "refused"] /\ reader' = reader
    BY <1>4 DEF StartReading
  <2>2. \A q \in Rank : stage'[q] # "refused" => stage'[q] = stage[q]
    BY <2>1 DEF LInv, PInv, IInv, TypeInv
  <2>3. \A q \in Rank : stage[q] # "returned"
    BY <1>2 DEF LInv, SharesStored
  <2>4. ReadIsStored'
    BY <1>1, <2>1, <2>2 DEF LInv, ReadIsStored, Rank, Thread
  <2>5. SharesStored'
    BY <1>1, <2>2, <2>3 DEF LInv, SharesStored, Rank
  <2>6. QED
    BY <1>3, <2>4, <2>5 DEF LParts
<1>5. CASE ~ (FileEntries(layout) > Start(layout, layout.ranks))
  <2>1. /\ stage' = [stage EXCEPT ![r] = "read"]
        /\ reader' = [reader EXCEPT ![r] = [t \in Thread |-> Reader(r, t)]]
    BY <1>5 DEF StartReading
  <2>2. \A q \in Rank : stage'[q] = IF q = r THEN "read" ELSE stage[q]
    BY <2>1 DEF LInv, PInv, IInv, TypeInv
  <2>3. \A q \in Rank : stage[q] # "returned"
    BY <1>2 DEF LInv, SharesStored
  <2>4. FileEntries(layout) <= Start(layout, layout.ranks)
    <3>1. FileEntries(layout) \in Nat
      BY <1>1, FilesEnd DEF Fits
    <3>2. Start(layout, layout.ranks) \in Nat
      <4>1. layout.ranks - 1 \in Rank /\ (layout.ranks - 1) + 1 = layout.ranks /\ 0 \in Thread
        BY <1>1 DEF Rank, Thread, Fits
      <4>2. QED
        BY <1>1, <4>1, WindowsInsideParts
    <3>3. QED
      BY <1>5, <3>1, <3>2
  <2>5. ReadIsStored'
    <3>1. SUFFICES ASSUME NEW q \in Rank, stage'[q] = "read", NEW u \in Thread
                   PROVE  /\ reader'[q][u].file <= Len(layout.files) + 1
                          /\ \A e \in Nat : AmongFirst(layout, q, u, reader'[q][u].read, e) => e \in Stored
      BY <1>1 DEF ReadIsStored, Rank, Thread
    <3>2. CASE q = r
      <4>1. reader'[q][u] = Reader(r, u)
        BY <2>1, <3>2 DEF LInv, PInv, IInv, TypeInv
      <4>2. Reader(r, u).file = 1 /\ Reader(r, u).read = 0
        BY DEF Reader, Idle
      <4>3. Len(layout.files) \in Nat
        BY <1>1 DEF Fits
      <4>4. QED
        BY <1>1, <3>2, <4>1, <4>2, <4>3, NothingRead
    <3>3. CASE q # r
      <4>1. reader'[q] = reader[q] /\ stage[q] = "read"
        BY <2>1, <3>1, <3>3 DEF LInv, PInv, IInv, TypeInv
      <4>2. QED
        BY <4>1 DEF LInv, ReadIsStored
    <3>4. QED
      BY <3>2, <3>3
  <2>6. SharesStored'
    BY <1>1, <2>2, <2>3, <2>4 DEF LInv, SharesStored, Rank
  <2>7. QED
    BY <1>3, <2>5, <2>6 DEF LParts
<1>6. QED
  BY <1>4, <1>5

\* A step of one thread.
LEMMA ThreadLoads ==
  ASSUME LInv, NEW r \in Rank, NEW t \in Thread, NEW d, stage[r] = "read",
         UNCHANGED <<layout, stage>>, reader' = [reader EXCEPT ![r][t] = d],
         Stored \subseteq Stored', StoredInFiles', d.file <= Len(layout.files) + 1,
         \A e \in Nat : AmongFirst(layout, r, t, d.read, e) => e \in Stored'
  PROVE  LParts'
<1>1. ReadIsStored'
  <2>1. SUFFICES ASSUME NEW q \in Rank, stage[q] = "read", NEW u \in Thread
                 PROVE  /\ reader'[q][u].file <= Len(layout.files) + 1
                        /\ \A e \in Nat : AmongFirst(layout, q, u, reader'[q][u].read, e) => e \in Stored'
    BY DEF ReadIsStored, Rank, Thread
  <2>2. reader'[q][u] = IF q = r /\ u = t THEN d ELSE reader[q][u]
    BY DEF LInv, PInv, IInv, TypeInv
  <2>3. /\ reader[q][u].file <= Len(layout.files) + 1
        /\ \A e \in Nat : AmongFirst(layout, q, u, reader[q][u].read, e) => e \in Stored
    BY <2>1 DEF LInv, ReadIsStored
  <2>4. CASE q = r /\ u = t
    BY <2>2, <2>4
  <2>5. CASE ~ (q = r /\ u = t)
    BY <2>2, <2>3, <2>5
  <2>6. QED
    BY <2>4, <2>5
<1>2. SharesStored'
  BY DEF LInv, SharesStored, Rank
<1>3. QED
  BY <1>1, <1>2 DEF LParts

LEMMA PassLoads ==
  ASSUME Scope, LInv, NEW r \in Rank, NEW t \in Thread, PassFile(r, t)
  PROVE  LParts'
<1> DEFINE d == reader[r][t]
           e == [d EXCEPT !.file = @ + 1, !.off = 0, !.gap = d.off + d.gap - Size(d)]
<1>1. /\ UNCHANGED <<layout, stage, copies>> /\ stage[r] = "read" /\ ~ AtEnd(d)
      /\ reader' = [reader EXCEPT ![r][t] = e]
  BY DEF PassFile, Reads
<1>2. d \in Record /\ Fits(layout)
  BY DEF Scope, LInv, PInv, IInv, TypeInv
<1>3. e.file = d.file + 1 /\ e.read = d.read
  BY <1>2 DEF Record
<1>4. e.file <= Len(layout.files) + 1
  <2>1. Len(layout.files) \in Nat /\ d.file \in Nat
    BY <1>2 DEF Fits, Record
  <2>2. d.file <= Len(layout.files)
    BY <1>1, <2>1 DEF AtEnd
  <2>3. QED
    BY <1>3, <2>1, <2>2
<1>5. Stored' = Stored /\ StoredInFiles'
  BY <1>1 DEF LInv, StoredInFiles, Stored
<1>6. \A x \in Nat : AmongFirst(layout, r, t, e.read, x) => x \in Stored'
  <2> HIDE DEF e
  <2>1. QED
    BY <1>1, <1>3, <1>5 DEF LInv, ReadIsStored
<1> HIDE DEF d, e
<1>7. QED
  BY <1>1, <1>4, <1>5, <1>6, ThreadLoads

LEMMA ReadLoads ==
  ASSUME Scope, LInv, NEW r \in Rank, NEW t \in Thread, ReadRun(r, t)
  PROVE  LParts'
<1> DEFINE d == reader[r][t]
           n == Lesser(d.run, Size(d) - d.off - d.gap)
           e == AfterRun(layout, d, n)
<1>1. /\ UNCHANGED <<layout, stage>> /\ d.off + d.gap < Size(d)
      /\ reader' = [reader EXCEPT ![r][t] = e]
      /\ stage[r] = "read" /\ ~ AtEnd(d)
      /\ copies' = copies \cup Copied(r, t, n)
  BY DEF ReadRun, Reads, AfterRun
<1>2. d \in Record /\ Fits(layout)
  BY DEF Scope, LInv, PInv, IInv, TypeInv
<1>3. Position(layout, r, t, d)
  BY <1>1 DEF LInv, PInv, InPosition
<1>4. d.file \in 1 .. Len(layout.files) /\ layout.files \in Seq(Nat)
  BY <1>1, <1>2, SMTT(30) DEF AtEnd, Record, Fits
<1>5. PICK m \in Nat, z \in Nat, f \in Nat :
        /\ m = EntriesBefore(layout, d.file) /\ z = Size(d)
        /\ f = FileEntries(layout) /\ m + z <= f
  <2> HIDE DEF d
  <2>1. PICK m \in Nat, z \in Nat :
          /\ m = EntriesBefore(layout, d.file) /\ z = layout.files[d.file]
          /\ EntriesBefore(layout, d.file + 1) = m + z
    BY <1>4, FilesBefore
  <2>2. FileEntries(layout) \in Nat /\ m + z <= FileEntries(layout)
    BY <1>4, <2>1, FilesEnd
  <2>3. QED
    BY <2>1, <2>2 DEF Size
<1>6. n \in Nat /\ n <= d.run /\ d.off + d.gap + n <= z
  <2> HIDE DEF d
  <2>1. QED
    BY <1>1, <1>2, <1>5 DEF Record, Lesser
<1>7. Entry(layout, d) \in Nat /\ Entry(layout, d) + n <= f
  <2> HIDE DEF d, n
  <2>1. QED
    BY <1>2, <1>5, <1>6 DEF Entry, Record
<1>8. /\ \A c \in Copied(r, t, n) : \E k \in 0 .. n - 1 : c.entry = Entry(layout, d) + k
      /\ \A k \in 0 .. n - 1 : \E c \in Copied(r, t, n) : c.entry = Entry(layout, d) + k
  <2>1. Copied(r, t, n) = {[rank |-> r, thread |-> t, row |-> FirstRow(r, t) + d.read + k,
                            entry |-> Entry(layout, d) + k] : k \in 0 .. n - 1}
    BY DEF Copied, Entry
  <2> HIDE DEF d, n
  <2>2. \A c \in Copied(r, t, n) : \E k \in 0 .. n - 1 : c.entry = Entry(layout, d) + k
    BY <2>1
  <2>3. ASSUME NEW k \in 0 .. n - 1
        PROVE  \E c \in Copied(r, t, n) : c.entry = Entry(layout, d) + k
    <3>1. PICK c : c = [rank |-> r, thread |-> t, row |-> FirstRow(r, t) + d.read + k,
                        entry |-> Entry(layout, d) + k]
      OBVIOUS
    <3>2. c \in Copied(r, t, n) /\ c.entry = Entry(layout, d) + k
      BY <2>1, <3>1
    <3>3. QED
      BY <3>2
  <2>4. QED
    BY <2>2, <2>3
<1>9. /\ Stored \subseteq Stored'
      /\ \A x \in Stored' : x \in Stored \/ \E k \in 0 .. n - 1 : x = Entry(layout, d) + k
      /\ \A k \in 0 .. n - 1 : Entry(layout, d) + k \in Stored'
  <2> HIDE DEF d, n
  <2>1. QED
    BY <1>1, <1>8 DEF Stored
<1>10. e.file = d.file /\ e.read = d.read + n
  BY <1>2 DEF AfterRun, Record
<1> HIDE DEF d, n, e
<1>11. StoredInFiles'
  <2>1. FileEntries(layout') = f
    BY <1>1, <1>5
  <2>2. ASSUME NEW x \in Stored' PROVE x \in Nat /\ x < f
    <3>1. CASE x \in Stored
      BY <1>5, <3>1 DEF LInv, StoredInFiles
    <3>2. CASE x \notin Stored
      <4>1. PICK k \in 0 .. n - 1 : x = Entry(layout, d) + k
        BY <1>9, <3>2
      <4>2. QED
        BY <1>6, <1>7, <4>1
    <3>3. QED
      BY <3>1, <3>2
  <2>3. QED
    BY <2>1, <2>2 DEF StoredInFiles
<1>12. ASSUME NEW x \in Nat, AmongFirst(layout, r, t, e.read, x) PROVE x \in Stored'
  <2>1. AmongFirst(layout, r, t, d.read, x) \/ \E j \in 0 .. n - 1 : x = Entry(layout, d) + j
    BY <1>1, <1>2, <1>3, <1>6, <1>10, <1>12, RunsRead
  <2>2. AmongFirst(layout, r, t, d.read, x) => x \in Stored
    BY <1>1 DEF LInv, ReadIsStored, d
  <2>3. QED
    BY <1>9, <2>1, <2>2
<1>13. e.file <= Len(layout.files) + 1
  BY <1>4, <1>10
<1>14. QED
  BY <1>1, <1>9, <1>11, <1>12, <1>13, ThreadLoads

LEMMA JoinLoads ==
  ASSUME Scope, LInv, NEW r \in Rank, Join(r)
  PROVE  LParts'
<1>1. /\ UNCHANGED <<layout, reader, copies>> /\ Stored' = Stored /\ Fits(layout)
      /\ stage[r] = "read" /\ \A t \in Thread : AtEnd(reader[r][t])
  BY DEF Join, Stored, Scope, LInv, PInv, IInv, TypeInv
<1>2. \A q \in Rank : stage'[q] = IF q = r THEN "barrier" ELSE stage[q]
  BY DEF Join, LInv, PInv, IInv, TypeInv
<1>3. Share(layout, r) \subseteq Stored
  <2>1. SUFFICES ASSUME NEW e \in Share(layout, r) PROVE e \in Stored
    OBVIOUS
  <2>2. e \in Nat /\ e < FileEntries(layout)
    <3>1. FileEntries(layout) \in Nat
      BY <1>1, FilesEnd DEF Fits
    <3>2. QED
      BY <3>1 DEF Share
  <2>3. PICK t \in Thread : AmongFirst(layout, r, t, Reader(r, t).total, e)
    BY <1>1, ShareAssigned
  <2>4. PICK d \in Record : d = reader[r][t]
    BY DEF LInv, PInv, IInv, TypeInv
  <2>5. /\ AtEnd(d) /\ d.file <= Len(layout.files) + 1 /\ Position(layout, r, t, d)
        /\ d.total = Reader(r, t).total
    BY <1>1, <2>4 DEF LInv, PInv, IInv, InPosition, ReadIsStored, RunsInWindow
  <2>6. AmongFirst(layout, r, t, d.read, e)
    BY <1>1, <2>2, <2>3, <2>5, EndedRead
  <2>7. QED
    BY <1>1, <2>2, <2>4, <2>6 DEF LInv, ReadIsStored
<1>4. ReadIsStored'
  BY <1>1, <1>2 DEF LInv, ReadIsStored, Rank, Thread
<1>5. SharesStored'
  BY <1>1, <1>2, <1>3 DEF LInv, SharesStored, Rank
<1>6. QED
  BY <1>1, <1>4, <1>5 DEF LInv, LParts, StoredInFiles

LEMMA ReturnLoads ==
  ASSUME LInv, NEW r \in Rank, Return(r)
  PROVE  LParts'
<1>1. /\ UNCHANGED <<layout, reader, copies>> /\ Stored' = Stored /\ stage[r] = "barrier"
      /\ \A q \in Rank : stage[q] \in {"barrier", "returned"}
  BY DEF Return, Stored
<1>2. \A q \in Rank : stage'[q] = IF q = r THEN "returned" ELSE stage[q]
  BY DEF Return, LInv, PInv, IInv, TypeInv
<1>3. ReadIsStored'
  BY <1>1, <1>2 DEF ReadIsStored, Rank
<1>4. SharesStored'
  BY <1>1, <1>2 DEF LInv, SharesStored, Rank
<1>5. QED
  BY <1>1, <1>3, <1>4 DEF LInv, LParts, StoredInFiles

LEMMA StepLInv == ASSUME Scope, LInv, [Next]_vars PROVE LInv'
<1>1. PInv'
  BY StepPInv DEF LInv
<1>2. ASSUME UNCHANGED vars PROVE LParts'
  BY <1>2 DEF vars, LInv, LParts, ReadIsStored, SharesStored, StoredInFiles, Stored, Rank, Thread
<1>3. ASSUME Next PROVE LParts'
  <2>1. ASSUME NEW r \in Rank, StartReading(r) PROVE LParts'
    BY <2>1, StartLoads
  <2>2. ASSUME NEW r \in Rank, NEW t \in Thread, PassFile(r, t) PROVE LParts'
    BY <2>2, PassLoads
  <2>3. ASSUME NEW r \in Rank, NEW t \in Thread, ReadRun(r, t) PROVE LParts'
    BY <2>3, ReadLoads
  <2>4. ASSUME NEW r \in Rank, Join(r) \/ Return(r) PROVE LParts'
    BY <2>4, JoinLoads, ReturnLoads
  <2>5. CASE Finished
    BY <1>2, <2>5 DEF Finished
  <2>6. QED
    BY <1>3, <2>1, <2>2, <2>3, <2>4, <2>5 DEF Next, Step, Read
<1>4. LParts'
  BY <1>2, <1>3
<1>5. QED
  BY <1>1, <1>4 DEF LInv, LParts

\* The shares of the ranks are all entries.
LEMMA SharesCover ==
  ASSUME Fits(layout), FileEntries(layout) <= Start(layout, layout.ranks),
         NEW e \in 0 .. FileEntries(layout) - 1
  PROVE  \E r \in Rank : e \in Share(layout, r)
<1>1. PICK n \in Nat \ {0}, f \in Nat : n = layout.ranks /\ f = FileEntries(layout)
  BY FilesEnd DEF Fits
<1>2. e \in Nat /\ e < f
  BY <1>1
<1>3. CASE layout.robin = 0
  <2>1. /\ \A r \in 0 .. n : Start(layout, r) = layout.offsets[r] /\ layout.offsets[r] \in Nat
        /\ Start(layout, 0) = 0
    BY <1>1, <1>3 DEF Start, Fits
  <2> DEFINE S == {r \in 0 .. n : Start(layout, r) <= e}
  <2>2. PICK r \in S : \A q \in S : q <= r
    <3>1. S \in SUBSET Nat /\ 0 \in S /\ \A q \in S : q <= n
      BY <1>2, <2>1
    <3> HIDE DEF S
    <3>2. QED
      BY <3>1, LargestElement
  <2>3. Start(layout, n) \in Nat /\ e < Start(layout, n)
    BY <1>1, <1>2, <2>1
  <2>4. r \in Rank /\ r + 1 \in 0 .. n
    BY <1>1, <1>2, <2>2, <2>3 DEF Rank
  <2>5. PICK q \in 0 .. n : q = r + 1
    BY <2>4
  <2>6. ~ (Start(layout, q) <= e)
    <3>1. q \notin S
      BY <2>2, <2>5
    <3>2. QED
      BY <3>1
  <2>7. e < Start(layout, r + 1)
    BY <1>2, <2>1, <2>5, <2>6
  <2>8. Start(layout, r) <= e
    BY <2>2
  <2>9. QED
    BY <1>3, <2>4, <2>7, <2>8 DEF Share
<1>4. CASE layout.robin # 0
  <2>1. PICK c \in Nat \ {0} : c = layout.robin
    BY <1>4 DEF Fits
  <2>2. PICK q \in Nat : q = e \div c
    BY <1>2, Division
  <2>3. PICK r \in 0 .. n - 1 : r = q % n
    BY Division
  <2>4. QED
    BY <1>1, <1>4, <2>1, <2>2, <2>3 DEF Share, Rank
<1>5. QED
  BY <1>3, <1>4

LEMMA InitLInv == ASSUME Scope PROVE Init => LInv
<1>1. SUFFICES ASSUME Init PROVE LInv
  OBVIOUS
<1>2. PInv
  BY <1>1, InitIInv DEF Init, PInv, InPosition, CopiedToPlace
<1>3. QED
  BY <1>1, <1>2 DEF Init, LInv, ReadIsStored, SharesStored, StoredInFiles, Stored

\* When a rank returns, every entry of the files is in the table, and nothing else
\* has been loaded: the windows and the rounds leave no entry out, the walks of the
\* threads do not, and the barrier holds back all ranks until the last has ended.
THEOREM AllLoadedOnReturn == ASSUME Scope PROVE Spec => []LoadedOnReturn
<1>1. Init => LInv
  BY InitLInv
<1>2. LInv /\ [Next]_vars => LInv'
  BY StepLInv
<1>3. LInv => LoadedOnReturn
  <2>1. SUFFICES ASSUME LInv, NEW r \in Rank, stage[r] = "returned"
                 PROVE  Stored = 0 .. FileEntries(layout) - 1
    BY DEF LoadedOnReturn, Stored
  <2>2. Fits(layout) /\ FileEntries(layout) <= Start(layout, layout.ranks)
    BY <2>1 DEF Scope, LInv, PInv, IInv, TypeInv, SharesStored
  <2>3. FileEntries(layout) \in Nat
    BY <2>2, FilesEnd DEF Fits
  <2>4. \A q \in Rank : Share(layout, q) \subseteq Stored
    BY <2>1 DEF LInv, SharesStored
  <2>5. 0 .. FileEntries(layout) - 1 \subseteq Stored
    BY <2>2, <2>4, SharesCover
  <2>6. Stored \subseteq 0 .. FileEntries(layout) - 1
    BY <2>1, <2>3 DEF LInv, StoredInFiles
  <2>7. QED
    BY <2>5, <2>6
<1>4. QED
  BY <1>1, <1>2, <1>3, PTL DEF Spec

-----------------------------------------------------------------------------
CopiesOfRanks == \A c \in copies : c.rank \in Rank

LEMMA StepCopiesOfRanks == ASSUME CopiesOfRanks, [Next]_vars PROVE CopiesOfRanks'
<1>1. ASSUME UNCHANGED <<layout, copies>> PROVE CopiesOfRanks'
  BY <1>1 DEF CopiesOfRanks, Rank
<1>2. ASSUME NEW r \in Rank, Step(r) PROVE CopiesOfRanks'
  BY <1>1, <1>2 DEF Step, StartReading, Join, Return
<1>3. ASSUME NEW r \in Rank, NEW t \in Thread, PassFile(r, t) PROVE CopiesOfRanks'
  BY <1>1, <1>3 DEF PassFile
<1>4. ASSUME NEW r \in Rank, NEW t \in Thread, ReadRun(r, t) PROVE CopiesOfRanks'
  <2>1. \A n : \A c \in Copied(r, t, n) : c.rank = r
    BY DEF Copied
  <2>2. layout' = layout /\ \E n : copies' = copies \cup Copied(r, t, n)
    BY <1>4 DEF ReadRun
  <2>3. QED
    BY <2>1, <2>2 DEF CopiesOfRanks, Rank
<1>5. CASE UNCHANGED vars
  BY <1>1, <1>5 DEF vars
<1>6. QED
  BY <1>2, <1>3, <1>4, <1>5 DEF Next, Read, Finished

\* In round robin parts the row that a rank computes for an entry depends on where
\* its own part starts, and no two parts start at the same row if a row is stored.
LEMMA OthersLookElsewhere ==
  ASSUME Fits(layout), LInv, CopiesOfRanks
  PROVE  FoundByLoader
<1>1. SUFFICES ASSUME NEW c \in copies
               PROVE  {r \in Rank : MappedIndex(layout, r, c.entry) = c.row}
                        = IF layout.robin = 0 THEN Rank ELSE {c.rank}
  BY DEF FoundByLoader
<1>2. /\ c.row = Place(layout, c.entry) /\ MappedIndex(layout, c.rank, c.entry) = c.row
      /\ Start(layout, c.rank) <= c.row /\ c.row < Start(layout, c.rank + 1)
  BY DEF LInv, PInv, IInv, CopiedToPlace, RowsOfRank
<1>3. c.rank \in Rank /\ c.entry \in Nat
  BY DEF CopiesOfRanks, LInv, StoredInFiles, Stored
<1>4. CASE layout.robin = 0
  BY <1>2, <1>4 DEF Place, MappedIndex
<1>5. CASE layout.robin # 0
  <2>1. PICK e \in Nat, p \in Nat : e = c.entry /\ p = c.rank
    BY <1>3 DEF Rank
  <2>2. PICK b \in Nat \ {0}, n \in Nat \ {0}, w \in Nat :
          b = layout.robin /\ n = layout.ranks /\ w = RowsOfFirst(layout)
    BY <1>3, <1>5, PartHoldsRounds DEF Fits, Rank
  <2>3. PICK x \in Nat, y \in Nat : x = b * ((e \div b) \div n) /\ y = e % b
    <3>1. e \div b \in Nat /\ e % b \in Nat
      BY Division, Z3
    <3>2. PICK q \in Nat : q = (e \div b) \div n
      BY <3>1, Division
    <3>3. PICK x \in Nat : x = b * q
      BY Products
    <3>4. QED
      BY <3>1, <3>2, <3>3
  <2>4. ASSUME NEW r \in Rank
        PROVE  r \in Nat /\ r * w \in Nat /\ MappedIndex(layout, r, e) = r * w + x + y
    <3>1. r \in Nat /\ r * w \in Nat
      BY Products DEF Rank
    <3>2. MappedIndex(layout, r, e) = r * w + b * ((e \div b) \div n) + (e % b)
      BY <1>5, <2>2 DEF MappedIndex, Start
    <3>3. QED
      BY <2>3, <3>1, <3>2
  <2>5. c.row = p * w + x + y /\ p * w \in Nat
    BY <1>2, <1>3, <2>1, <2>4
  <2>6. w # 0
    <3>1. c.row < (p + 1) * w
      BY <1>2, <1>5, <2>1, <2>2 DEF Start
    <3>2. w = 0 => (p + 1) * w = 0
      BY Z3
    <3>3. QED
      BY <2>5, <3>1, <3>2
  <2>7. ASSUME NEW u \in Nat, NEW v \in Nat, u < v PROVE u * w # v * w
    <3>1. (u + 1) * w <= v * w
      BY <2>7, Products
    <3>2. (u + 1) * w = u * w + w /\ u * w \in Nat
      BY Z3
    <3>3. QED
      BY <2>6, <3>1, <3>2
  <2>8. ASSUME NEW r \in Rank, MappedIndex(layout, r, e) = c.row PROVE r = p
    <3>1. r \in Nat /\ r * w = p * w
      BY <2>4, <2>5, <2>8
    <3>2. ~ (r < p) /\ ~ (p < r)
      BY <2>7, <3>1
    <3>3. QED
      BY <3>1, <3>2
  <2>9. QED
    BY <1>2, <1>3, <1>5, <2>1, <2>8
<1>6. QED
  BY <1>4, <1>5

\* Every entry is stored in the row where it belongs, whatever the sizes of files,
\* parts and windows; and who looks it up there is all ranks in contiguous parts, and
\* in round robin parts the rank that has loaded it and no other.  The code: the
\* walks of the two functions that read a file list, against the computation of the
\* index for a lookup.
THEOREM StoredInPlace == ASSUME Scope PROVE Spec => [](CopiedToPlace /\ FoundByLoader)
<1> DEFINE Inv == LInv /\ CopiesOfRanks
<1>1. Init => Inv
  BY InitLInv DEF Init, CopiesOfRanks
<1>2. Inv /\ [Next]_vars => Inv'
  BY StepLInv, StepCopiesOfRanks
<1>3. Inv => CopiedToPlace /\ FoundByLoader
  <2>1. SUFFICES ASSUME LInv, CopiesOfRanks PROVE CopiedToPlace /\ FoundByLoader
    OBVIOUS
  <2>2. Fits(layout)
    BY <2>1 DEF LInv, PInv, IInv, TypeInv, Scope
  <2>3. QED
    BY <2>1, <2>2, OthersLookElsewhere DEF LInv, PInv
<1> HIDE DEF Inv
<1>4. QED
  BY <1>1, <1>2, <1>3, PTL DEF Spec

-----------------------------------------------------------------------------
\* DIRECT READING.
\* An address lies in a piece of the memory of an entry.
LEMMA Within ==
  ASSUME NEW d \in Nat \ {0}, NEW a \in Nat, NEW q \in Nat, NEW lo \in Nat, NEW hi \in Nat,
         lo < d, hi <= d, NEW first, first = (q * d) + lo, NEW size, size = hi - lo
  PROVE  /\ (first <= a /\ a < first + size) <=> (a \div d = q /\ lo <= a % d /\ a % d < hi)
         /\ a \div d = q => a - first = (a % d) - lo
<1> DEFINE n == a \div d
           x == a % d
<1>1. n \in Nat /\ x \in Nat /\ x < d /\ a = (d * n) + x
  BY Division
<1> HIDE DEF n, x
<1>2. d * n \in Nat /\ d * q \in Nat /\ first = (d * q) + lo /\ first + size = (d * q) + hi
  BY <1>1, Z3
<1>3. a < first <=> (n < q \/ (n = q /\ x < lo))
  <2>1. ((d * n) + x < (d * q) + lo) <=> (n < q \/ (n = q /\ x < lo))
    BY <1>1, Compared
  <2>2. QED
    BY <1>1, <1>2, <2>1
<1>4. a < first + size <=> (n < q \/ (n = q /\ x < hi))
  <2>1. CASE hi < d
    <3>1. ((d * n) + x < (d * q) + hi) <=> (n < q \/ (n = q /\ x < hi))
      BY <1>1, <2>1, Compared
    <3>2. QED
      BY <1>1, <1>2, <3>1
  <2>2. CASE hi = d
    <3>1. PICK p \in Nat : p = q + 1
      OBVIOUS
    <3>2. (d * q) + hi = (d * p) + 0
      BY <1>2, <2>2, <3>1, Z3
    <3>3. ((d * n) + x < (d * p) + 0) <=> (n < p \/ (n = p /\ x < 0))
      <4>1. PICK z \in Nat : (z = 0 /\ z < d)
        OBVIOUS
      <4>2. ((d * n) + x < (d * p) + z) <=> (n < p \/ (n = p /\ x < z))
        BY <1>1, <4>1, Compared
      <4>3. QED
        BY <4>1, <4>2
    <3>4. a < first + size <=> (n < p \/ (n = p /\ x < 0))
      BY <1>1, <1>2, <3>2, <3>3
    <3>5. QED
      BY <1>1, <2>2, <3>1, <3>4
  <2>3. QED
    BY <2>1, <2>2
<1>5. n = q => a - first = x - lo
  BY <1>1, <1>2
<1>6. first <= a <=> ~ (a < first)
  BY <1>2
<1>7. QED
  BY <1>1, <1>3, <1>4, <1>5, <1>6 DEF n, x

\* What is read: the bytes of the run that have been stored.
Taken == Lesser(pos + skip, RunEnd(job)) - RunStart(job)

\* The counters follow from how many they are, and so does what is in memory.
DirectInv ==
  /\ job \in Jobs /\ Readable(job)
  /\ pos \in Nat /\ skip \in Nat /\ RunStart(job) <= pos + skip
  /\ skip = 0 \/ (pos + skip = RunStart(job) /\ skip < job.block)
  /\ row = (Taken \div job.entry) * job.stride /\ begun = Taken % job.entry
  /\ mem = [a \in Address(job) |->
              IF Right(a) < RunStart(job) + Taken THEN Right(a) ELSE -1]

LEMMA JobTypes ==
  ASSUME NEW j \in Jobs, Readable(j)
  PROVE  /\ j.entry \in Nat \ {0} /\ j.stride \in Nat \ {0} /\ j.entry <= j.stride
         /\ j.block \in Nat \ {0} /\ j.blocks \in Nat /\ j.block <= j.block * j.blocks
         /\ j.block * j.blocks \in Nat /\ j.entry <= j.block * j.blocks
         /\ j.first \in Nat /\ j.count \in Nat /\ j.entries \in Nat
         /\ RunStart(j) \in Nat /\ RunEnd(j) = RunStart(j) + (j.entry * j.count)
         /\ j.entry * j.count \in Nat /\ j.entries * j.entry \in Nat
         /\ RunEnd(j) <= j.entries * j.entry
         /\ Address(j) \subseteq Nat
<1>1. /\ j.entry \in Nat /\ j.stride \in Nat /\ j.block \in Nat /\ j.blocks \in Nat
      /\ j.entries \in Nat /\ j.first \in Nat /\ j.count \in Nat
  BY JobsAssumption
<1>2. /\ 0 < j.entry /\ j.entry <= j.stride
      /\ 0 < j.block /\ j.entry <= j.block * j.blocks
      /\ j.first + j.count <= j.entries
  BY DEF Readable
<1>3. j.block * j.blocks \in Nat /\ j.block <= j.block * j.blocks
  <2>1. j.blocks # 0
    BY <1>1, <1>2, Z3
  <2>2. PICK k \in Nat : j.blocks = k + 1
    <3>1. j.blocks - 1 \in Nat /\ j.blocks = (j.blocks - 1) + 1
      BY <1>1, <2>1
    <3>2. QED
      BY <3>1
  <2>3. j.block * (k + 1) = (j.block * k) + j.block /\ j.block * k \in Nat
    BY <1>1, Z3
  <2>4. j.block * j.blocks = (j.block * k) + j.block
    BY <2>2, <2>3
  <2>5. QED
    BY <1>1, <2>3, <2>4
<1>4. /\ RunStart(j) \in Nat /\ RunEnd(j) = RunStart(j) + (j.entry * j.count)
      /\ j.entry * j.count \in Nat
  BY <1>1, Z3 DEF RunStart, RunEnd
<1>5. RunEnd(j) <= j.entries * j.entry /\ j.entries * j.entry \in Nat
  <2>1. j.first + j.count \in Nat
    BY <1>1
  <2>2. QED
    BY <1>1, <1>2, <2>1, Products DEF RunEnd
<1>6. Address(j) \subseteq Nat
  BY <1>1 DEF Address
<1>7. QED
  BY <1>1, <1>2, <1>3, <1>4, <1>5, <1>6

\* A read takes at least what the entry begun before lacks, and ends with the run at the
\* latest.
LEMMA Amounts ==
  ASSUME DirectInv, pos < RunEnd(job)
  PROVE  /\ Taken \in Nat /\ Taken = pos + skip - RunStart(job) /\ Useful \in Nat
         /\ Transferred \in Nat /\ 0 < Transferred
         /\ HeadSize \in Nat /\ HeadSize <= Useful
         /\ Taken + Useful = Lesser(pos + Transferred, RunEnd(job)) - RunStart(job)
<1>1. job \in Jobs /\ Readable(job)
  BY DEF DirectInv
<1> DEFINE e == job.entry
           s == RunStart(job)
           E == RunEnd(job)
           k == pos + skip - s
           T == Transferred
<1>2. /\ e \in Nat \ {0} /\ job.block \in Nat \ {0} /\ job.blocks \in Nat
      /\ job.block <= job.block * job.blocks /\ job.block * job.blocks \in Nat
      /\ e <= job.block * job.blocks /\ job.count \in Nat
      /\ s \in Nat /\ E = s + (e * job.count) /\ e * job.count \in Nat
      /\ job.entries * e \in Nat /\ E <= job.entries * e
  BY <1>1, JobTypes
<1>3. /\ pos \in Nat /\ skip \in Nat /\ s <= pos + skip /\ pos < E
      /\ skip = 0 \/ (pos + skip = s /\ skip < job.block)
  BY DEF DirectInv
<1>4. E \in Nat /\ s <= E
  BY <1>2
<1> HIDE DEF s, E
<1>5. Taken = k /\ k \in Nat /\ k <= e * job.count /\ pos + skip <= E
  BY <1>2, <1>3, <1>4 DEF Taken, Lesser, s, E
\* What is left of the run is more than the entry lacks.
<1>6. HeadSize \in Nat /\ HeadSize <= e /\ (HeadSize = 0 \/ (skip = 0 /\ HeadSize <= E - pos))
  <2>1. begun = k % e
    BY <1>5 DEF DirectInv
  <2>2. /\ k \div e \in Nat /\ k % e \in 0 .. e - 1 /\ k = (e * (k \div e)) + (k % e)
    BY <1>2, <1>5, Division
  <2>3. CASE begun = 0
    BY <1>2, <2>3 DEF HeadSize
  <2>4. CASE begun # 0
    <3>1. HeadSize = e - (k % e)
      BY <2>1, <2>4 DEF HeadSize
    <3>2. skip = 0
      <4>1. SUFFICES ASSUME pos + skip = s PROVE FALSE
        BY <1>3
      <4>2. k = 0
        BY <1>2, <1>3, <4>1
      <4>3. e * (k \div e) \in Nat
        BY <1>2, <2>2, Z3
      <4>4. QED
        BY <2>1, <2>2, <2>4, <4>2, <4>3
    <3>3. k \div e < job.count
      <4>1. PICK q \in Nat : q = k \div e
        BY <2>2
      <4>2. PICK x \in Nat : x = k % e /\ x < e /\ 0 < x
        BY <1>2, <2>1, <2>2, <2>4
      <4>3. e * q \in Nat /\ (e * q) + x <= e * job.count
        <5>1. e * q \in Nat
          BY <1>2, <4>1, Z3
        <5>2. k = (e * q) + x
          BY <2>2, <4>1, <4>2
        <5>3. QED
          BY <1>5, <5>1, <5>2
      <4>4. (e * job.count) + 0 < (e * q) + x => FALSE
        BY <1>2, <4>2, <4>3
      <4>5. PICK z \in Nat : z = 0 /\ z < e
        BY <1>2
      <4>6. ((e * q) + x < (e * job.count) + z) <=> (q < job.count \/ (q = job.count /\ x < z))
        BY <1>2, <4>2, <4>5, Compared
      <4>7. ((e * job.count) + z < (e * q) + x) <=> (job.count < q \/ (job.count = q /\ z < x))
        BY <1>2, <4>2, <4>5, Compared
      <4>8. q # job.count /\ ~ (job.count < q)
        BY <4>2, <4>4, <4>5, <4>7
      <4>9. QED
        BY <1>2, <4>1, <4>8
    <3>4. (e * (k \div e)) + e <= e * job.count
      <4>1. PICK q \in Nat : q = k \div e /\ q < job.count
        BY <2>2, <3>3
      <4>2. PICK r \in Nat : job.count = q + 1 + r
        <5>1. job.count - q - 1 \in Nat /\ job.count = q + 1 + (job.count - q - 1)
          BY <1>2, <4>1
        <5>2. QED
          BY <5>1
      <4>3. e * job.count = (e * q) + e + (e * r) /\ e * r \in Nat /\ e * q \in Nat
        BY <1>2, <4>2, Z3
      <4>4. QED
        BY <1>2, <4>1, <4>3
    <3>5. e - (k % e) <= E - pos
      <4>1. PICK A \in Int : A = e * (k \div e)
        BY <1>2, <2>2, Z3
      <4>2. PICK M \in Nat : M = e * job.count
        BY <1>2
      <4>3. A + e <= M /\ k = A + (k % e) /\ k = pos - s /\ E = s + M
        BY <1>2, <1>3, <2>2, <3>2, <3>4, <4>1, <4>2 DEF E
      <4>4. QED
        BY <1>2, <1>3, <2>2, <4>3
    <3>6. QED
      BY <1>2, <2>2, <3>1, <3>2, <3>5
  <2>5. QED
    BY <2>3, <2>4
\* Whole blocks, as many as the buffer holds, or what the file has.
<1>7. /\ T \in Nat /\ 0 < T /\ skip <= T /\ HeadSize <= T
      /\ T >= E - pos \/ T = job.block * job.blocks
  <2>1. E - pos \in Nat
    BY <1>3, <1>4
  <2>2. PICK c \in Nat : c = Ceiling(E - pos, job.block) /\ E - pos <= job.block * c
    BY <1>2, <2>1, Rounding
  <2>3. c * job.block = job.block * c /\ job.block * c \in Nat
        /\ job.blocks * job.block = job.block * job.blocks
    BY <1>2, <2>2, Z3
  <2>4. T = Lesser(Lesser(c, job.blocks) * job.block, job.entries * e - pos)
    BY <2>2 DEF Transferred, E
  <2>5. \/ T = job.block * c \/ T = job.block * job.blocks \/ T = (job.entries * e) - pos
    BY <2>3, <2>4 DEF Lesser
  <2>6. job.entries * e - pos \in Nat /\ job.entries * e - pos >= E - pos
    BY <1>2, <1>3, <1>4, <2>1
  <2>7. T \in Nat /\ (T >= E - pos \/ T = job.block * job.blocks)
    BY <1>2, <2>2, <2>3, <2>5, <2>6
  <2>8. skip <= E - pos /\ 0 < E - pos
    BY <1>3, <1>4, <1>5
  <2>9. QED
    BY <1>2, <1>3, <1>4, <1>6, <2>7, <2>8
<1>8. Useful = Lesser(pos + T, E) - (pos + skip)
  BY <1>3, <1>4, <1>7 DEF Useful, Larger, Lesser, E
<1>9. Useful \in Nat /\ HeadSize <= Useful
  BY <1>2, <1>3, <1>4, <1>5, <1>6, <1>7, <1>8 DEF Lesser
<1>10. k + Useful = Lesser(pos + T, E) - s
  BY <1>2, <1>3, <1>4, <1>7, <1>8 DEF Lesser
<1>11. QED
  BY <1>5, <1>6, <1>7, <1>9, <1>10 DEF E, s

\* How many entries begin before the one that the read begins with, and how many it stores.
BegunBefore == IF begun = 0 THEN Taken \div job.entry ELSE (Taken \div job.entry) + 1

LEMMA Counters ==
  ASSUME DirectInv, pos < RunEnd(job),
         NEW q, q = Taken \div job.entry, NEW m, m = BegunBefore
  PROVE  /\ q \in Nat /\ begun \in Nat /\ begun < job.entry /\ Taken = (job.entry * q) + begun
         /\ row = q * job.stride
         /\ m \in Nat /\ m = (IF begun = 0 THEN q ELSE q + 1)
         /\ Taken + HeadSize = job.entry * m
         /\ RowAfterHead = m * job.stride
         /\ FullEntries \in Nat /\ TailSize \in Nat /\ TailSize < job.entry
         /\ Taken + Useful = (job.entry * (m + FullEntries)) + TailSize
         /\ LastRow = (m + FullEntries) * job.stride
<1> DEFINE e == job.entry
           d == job.stride
<1>1. e \in Nat \ {0} /\ d \in Nat \ {0}
  BY JobTypes DEF DirectInv
<1>2. /\ Taken \in Nat /\ Useful \in Nat /\ HeadSize \in Nat /\ HeadSize <= Useful
  BY Amounts
<1>3. /\ q \in Nat /\ begun \in Nat /\ begun < e /\ Taken = (e * q) + begun
  <2>1. begun = Taken % e
    BY DEF DirectInv
  <2>2. /\ Taken \div e \in Nat /\ Taken % e \in 0 .. e - 1
        /\ Taken = (e * (Taken \div e)) + (Taken % e)
    BY <1>1, <1>2, Division
  <2>3. QED
    BY <1>1, <2>1, <2>2
<1>4. row = q * d
  BY DEF DirectInv
<1>5. m \in Nat /\ m = (IF begun = 0 THEN q ELSE q + 1)
  BY <1>3 DEF BegunBefore
<1>6. e * q \in Nat /\ e * (q + 1) = (e * q) + e /\ (q + 1) * d = (q * d) + d /\ q * d \in Nat
  BY <1>1, <1>3, Z3
<1>7. Taken + HeadSize = e * m
  <2>1. CASE begun = 0
    BY <1>2, <1>3, <1>5, <1>6, <2>1 DEF HeadSize
  <2>2. CASE begun # 0
    <3>1. HeadSize = e - begun
      BY <2>2 DEF HeadSize
    <3>2. Taken + HeadSize = (e * q) + e
      BY <1>1, <1>2, <1>3, <1>6, <3>1
    <3>3. m = q + 1
      BY <1>5, <2>2
    <3>4. QED
      BY <1>6, <3>2, <3>3
  <2>3. QED
    BY <2>1, <2>2
<1>8. RowAfterHead = m * d
  <2>1. CASE begun = 0
    BY <1>4, <1>5, <2>1 DEF RowAfterHead
  <2>2. CASE begun # 0
    <3>1. RowAfterHead = (q * d) + d
      BY <1>4, <2>2 DEF RowAfterHead
    <3>2. m = q + 1
      BY <1>5, <2>2
    <3>3. QED
      BY <1>6, <3>1, <3>2
  <2>3. QED
    BY <2>1, <2>2
<1>9. PICK w \in Nat : w = Useful - HeadSize
  BY <1>2
<1>10. /\ FullEntries \in Nat /\ TailSize \in Nat /\ TailSize < e
       /\ w = (e * FullEntries) + TailSize
  <2>1. FullEntries = w \div e /\ TailSize = w % e
    BY <1>9 DEF FullEntries, TailSize
  <2>2. /\ w \div e \in Nat /\ w % e \in 0 .. e - 1 /\ w = (e * (w \div e)) + (w % e)
    BY <1>1, Division
  <2>3. QED
    BY <1>1, <2>1, <2>2
<1>11. PICK F \in Nat : F = FullEntries
  BY <1>10
<1>12. PICK t \in Nat : t = TailSize
  BY <1>10
<1>13. Taken + Useful = (e * (m + F)) + t
  <2>1. e * (m + F) = (e * m) + (e * F) /\ e * m \in Nat /\ e * F \in Nat
    BY <1>1, <1>5, Z3
  <2>2. w = (e * F) + t
    BY <1>10, <1>11, <1>12
  <2>3. Taken + Useful = (Taken + HeadSize) + w
    BY <1>2, <1>9
  <2>4. QED
    BY <1>7, <2>1, <2>2, <2>3
<1>14. LastRow = (m + F) * d
  <2>1. LastRow = RowAfterHead + F * d
    BY <1>11 DEF LastRow
  <2>2. (m + F) * d = (m * d) + (F * d)
    BY <1>1, <1>5, Z3
  <2>3. QED
    BY <1>8, <2>1, <2>2
<1>15. QED
  BY <1>3, <1>4, <1>5, <1>7, <1>8, <1>10, <1>11, <1>12, <1>13, <1>14

\* What a read stores at an address: the byte of the entry that belongs there, if it is
\* one of those taken now.
LEMMA BytesStored ==
  ASSUME DirectInv, pos < RunEnd(job), NEW a \in Address(job),
         NEW n, n = a \div job.stride, NEW x, x = a % job.stride
  PROVE  /\ n \in Nat /\ x \in Nat
         /\ \A b : b \in StoredAt(a) <=>
              /\ x < job.entry
              /\ ~ ((job.entry * n) + x < Taken) /\ (job.entry * n) + x < Taken + Useful
              /\ b = RunStart(job) + (job.entry * n) + x
<1> DEFINE e == job.entry
           d == job.stride
           s == RunStart(job)
           F == FullEntries
           t == TailSize
<1>1. /\ e \in Nat \ {0} /\ d \in Nat \ {0} /\ e <= d /\ s \in Nat /\ a \in Nat
  BY JobTypes DEF DirectInv
<1>2. n \in Nat /\ x \in Nat /\ x < d /\ n = a \div d /\ x = a % d
  <2>1. a \div d \in Nat /\ a % d \in 0 .. d - 1
    BY <1>1, Division
  <2>2. QED
    BY <1>1, <2>1
<1>3. PICK q : q = Taken \div e
  OBVIOUS
<1>4. PICK m : m = BegunBefore
  OBVIOUS
<1>5. /\ q \in Nat /\ begun \in Nat /\ begun < e /\ Taken = (e * q) + begun
      /\ row = q * d
      /\ m \in Nat /\ m = (IF begun = 0 THEN q ELSE q + 1)
      /\ Taken + HeadSize = e * m
      /\ RowAfterHead = m * d
      /\ F \in Nat /\ t \in Nat /\ t < e
      /\ Taken + Useful = (e * (m + F)) + t
      /\ LastRow = (m + F) * d
  BY <1>3, <1>4, Counters
<1>6. /\ Taken = pos + skip - s /\ Taken \in Nat /\ HeadSize \in Nat /\ Useful \in Nat
      /\ pos \in Nat /\ skip \in Nat
  BY Amounts DEF DirectInv
<1> HIDE DEF s, F, t, e, d
<1>7. PICK v \in Nat : v = s + (e * n) + x
  <2>1. e * n \in Nat
    BY <1>1, <1>2, Z3
  <2>2. QED
    BY <1>1, <1>2, <2>1
\* The rest of the entry begun before.
<1>8. ASSUME NEW b
      PROVE  b \in Piece(a, row + begun, HeadSize, pos + skip) <=>
               (begun # 0 /\ n = q /\ ~ (x < begun) /\ x < e /\ b = v)
  <2>1. CASE begun = 0
    <3>1. HeadSize = 0
      BY <2>1 DEF HeadSize
    <3>2. row + begun \in Nat
      BY <1>1, <1>5, Z3
    <3>3. Piece(a, row + begun, HeadSize, pos + skip) = {}
      BY <1>1, <3>1, <3>2 DEF Piece
    <3>4. QED
      BY <2>1, <3>3
  <2>2. CASE begun # 0
    <3>1. HeadSize = e - begun
      BY <2>2 DEF HeadSize, e
    <3>2. PICK first : first = (q * d) + begun
      OBVIOUS
    <3>3. /\ (first <= a /\ a < first + HeadSize) <=> (n = q /\ begun <= x /\ x < e)
          /\ n = q => a - first = x - begun
      <4>1. PICK lo \in Nat : lo = begun /\ lo < d
        BY <1>1, <1>5
      <4>2. PICK hi \in Nat : hi = e /\ hi <= d
        BY <1>1
      <4>3. PICK size : size = HeadSize /\ size = hi - lo
        BY <3>1, <4>1, <4>2
      <4>4. first = (q * d) + lo
        BY <3>2, <4>1
      <4>5. /\ (first <= a /\ a < first + size) <=> (a \div d = q /\ lo <= a % d /\ a % d < hi)
            /\ a \div d = q => a - first = (a % d) - lo
        <5>1. q \in Nat /\ lo < d /\ hi <= d /\ size = hi - lo
          BY <1>5, <4>1, <4>2, <4>3
        <5>2. d \in Nat \ {0} /\ a \in Nat
          BY <1>1
        <5>3. QED
          BY ONLY <4>4, <5>1, <5>2, Within, lo \in Nat, hi \in Nat
      <4>6. QED
        BY <1>2, <4>1, <4>2, <4>3, <4>5
    <3>4. n = q => pos + skip + (a - first) = v
      <4>1. SUFFICES ASSUME n = q PROVE pos + skip + (a - first) = v
        OBVIOUS
      <4>2. e * q \in Nat
        BY <1>1, <1>5, Z3
      <4>3. pos + skip = s + (e * q) + begun
        BY <1>1, <1>5, <1>6, <4>2
      <4>4. v = s + (e * q) + x
        BY <1>7, <4>1
      <4>5. a - first = x - begun
        BY <3>3, <4>1
      <4>6. QED
        BY <1>1, <1>2, <1>5, <4>2, <4>3, <4>4, <4>5
    <3>5. Piece(a, row + begun, HeadSize, pos + skip) =
            IF first <= a /\ a < first + HeadSize THEN {pos + skip + (a - first)} ELSE {}
      BY <1>5, <3>2 DEF Piece
    <3>6. begun <= x <=> ~ (x < begun)
      BY <1>2, <1>5
    <3>7. QED
      BY <2>2, <3>3, <3>4, <3>5, <3>6
  <2>3. QED
    BY <2>1, <2>2
\* Entries that are read as a whole, and the start of the next.
<1>9. ASSUME NEW f \in Nat, NEW size \in Nat, size <= e, NEW b
      PROVE  b \in Piece(a, RowAfterHead + f * d, size, pos + skip + HeadSize + f * e) <=>
               (n = m + f /\ x < size /\ b = v)
  <2>1. PICK p \in Nat : p = m + f
    BY <1>5
  <2>2. PICK first : first = (p * d) + 0
    OBVIOUS
  <2>3. p * d = (m * d) + (f * d) /\ p * d \in Nat /\ e * p = (e * m) + (f * e) /\ e * p \in Nat
        /\ m * d \in Nat /\ f * d \in Nat /\ e * m \in Nat /\ f * e \in Nat
    BY <1>1, <1>5, <2>1, Z3
  <2>4. /\ (first <= a /\ a < first + size) <=> (n = p /\ 0 <= x /\ x < size)
        /\ n = p => a - first = x - 0
    <3>1. PICK lo \in Nat : lo = 0 /\ lo < d /\ size = size - lo
      BY <1>1
    <3>2. first = (p * d) + lo /\ size <= d
      BY <1>1, <1>9, <2>2, <3>1
    <3>3. /\ (first <= a /\ a < first + size) <=> (n = p /\ lo <= x /\ x < size)
          /\ n = p => a - first = x - lo
      <4>1. /\ (first <= a /\ a < first + size) <=> (a \div d = p /\ lo <= a % d /\ a % d < size)
            /\ a \div d = p => a - first = (a % d) - lo
        BY <1>1, <3>1, <3>2, Within
      <4>2. QED
        BY <1>2, <4>1
    <3>4. QED
      BY <3>1, <3>3
  <2>5. first = RowAfterHead + f * d
    BY <1>5, <2>2, <2>3
  <2>6. n = p => pos + skip + HeadSize + f * e + (a - first) = v
    <3>1. SUFFICES ASSUME n = p PROVE pos + skip + HeadSize + f * e + (a - first) = v
      OBVIOUS
    <3>2. pos + skip + HeadSize = s + (e * m)
      BY <1>1, <1>5, <1>6, <2>3
    <3>3. a - first = x
      BY <1>2, <2>4, <3>1
    <3>4. v = s + (e * p) + x
      BY <1>7, <3>1
    <3>5. QED
      BY <1>1, <1>2, <2>3, <3>2, <3>3, <3>4
  <2>7. Piece(a, RowAfterHead + f * d, size, pos + skip + HeadSize + f * e) =
          IF first <= a /\ a < first + size THEN {pos + skip + HeadSize + f * e + (a - first)} ELSE {}
    BY <2>5 DEF Piece
  <2>8. QED
    BY <1>2, <2>1, <2>4, <2>6, <2>7
<1>10. ASSUME NEW b
       PROVE  b \in StoredAt(a) <=>
                /\ b = v /\ x < e
                /\ \/ begun # 0 /\ n = q /\ ~ (x < begun)
                   \/ \E f \in 0 .. F - 1 : n = m + f
                   \/ n = m + F /\ x < t
  <2>1. LastRow = RowAfterHead + F * d
    BY DEF LastRow, F, d
  <2> DEFINE P(f) == Piece(a, RowAfterHead + f * d, e, pos + skip + HeadSize + f * e)
             A == Piece(a, row + begun, HeadSize, pos + skip)
             U == UNION {P(f) : f \in 0 .. F - 1}
             C == Piece(a, RowAfterHead + F * d, t, pos + skip + HeadSize + F * e)
  <2>2. StoredAt(a) = A \cup U \cup C
    BY <2>1 DEF StoredAt, F, t, e, d
  <2>3. \A f \in 0 .. F - 1 :
          b \in Piece(a, RowAfterHead + f * d, e, pos + skip + HeadSize + f * e) <=>
            (n = m + f /\ x < e /\ b = v)
    BY <1>1, <1>5, <1>9
  <2>4. b \in Piece(a, RowAfterHead + F * d, t, pos + skip + HeadSize + F * e) <=>
          (n = m + F /\ x < t /\ b = v)
    <3>1. t <= e
      BY <1>1, <1>5
    <3>2. QED
      BY <1>5, <1>9, <3>1
  <2>5. x < t => x < e
    BY <1>1, <1>2, <1>5
  <2>6. b \in StoredAt(a) <=> b \in A \/ (\E f \in 0 .. F - 1 : b \in P(f)) \/ b \in C
    <3> HIDE DEF P, A, C
    <3>1. b \in U <=> \E f \in 0 .. F - 1 : b \in P(f)
      OBVIOUS
    <3> HIDE DEF U
    <3>2. QED
      BY <2>2, <3>1
  <2>7. QED
    BY <1>8, <2>3, <2>4, <2>5, <2>6
<1>11. ASSUME x < e PROVE (e * n) + x < Taken <=> (n < q \/ (n = q /\ x < begun))
  <2>1. ((e * n) + x < (e * q) + begun) <=> (n < q \/ (n = q /\ x < begun))
    BY <1>1, <1>2, <1>5, <1>11, Compared
  <2>2. QED
    BY <1>5, <2>1
<1>12. ASSUME x < e
       PROVE  (e * n) + x < Taken + Useful <=> (n < m + F \/ (n = m + F /\ x < t))
  <2>1. PICK p \in Nat : p = m + F
    BY <1>5
  <2>2. ((e * n) + x < (e * p) + t) <=> (n < p \/ (n = p /\ x < t))
    BY <1>1, <1>2, <1>5, <1>12, Compared
  <2>3. QED
    BY <1>5, <2>1, <2>2
<1>13. (\E f \in 0 .. F - 1 : n = m + f) <=> (~ (n < m) /\ n < m + F)
  <2>1. ASSUME ~ (n < m), n < m + F PROVE \E f \in 0 .. F - 1 : n = m + f
    <3>1. n - m \in 0 .. F - 1 /\ n = m + (n - m)
      BY <1>2, <1>5, <2>1
    <3>2. QED
      BY <3>1
  <2>2. ASSUME NEW f \in 0 .. F - 1, n = m + f PROVE ~ (n < m) /\ n < m + F
    BY <1>5, <2>2
  <2>3. QED
    BY <2>1, <2>2
<1>14. ASSUME x < e
       PROVE  (~ (n < q \/ (n = q /\ x < begun)) /\ (n < m + F \/ (n = m + F /\ x < t))) <=>
                \/ begun # 0 /\ n = q /\ ~ (x < begun)
                \/ ~ (n < m) /\ n < m + F
                \/ n = m + F /\ x < t
  BY <1>1, <1>2, <1>5
<1>15. QED
  BY <1>2, <1>7, <1>10, <1>11, <1>12, <1>13, <1>14 DEF e, s

\* What belongs at an address is a byte that the run has, or none.
LEMMA RightByte ==
  ASSUME NEW j \in Jobs, job = j, Readable(j), NEW a \in Address(j),
         NEW n, n = a \div j.stride, NEW x, x = a % j.stride
  PROVE  /\ n < j.count /\ x < j.entry => Right(a) = RunStart(j) + (j.entry * n) + x
         /\ ~ (n < j.count /\ x < j.entry) => Right(a) = -1
         /\ x < j.entry => (n < j.count <=> (j.entry * n) + x < j.entry * j.count)
         /\ j.entry * n \in Nat
<1>1. /\ j.entry \in Nat \ {0} /\ j.stride \in Nat \ {0} /\ j.count \in Nat /\ j.entry * j.count \in Nat
      /\ RunStart(j) \in Nat /\ a \in Nat
  BY JobTypes
<1>2. n \in Nat /\ x \in Nat
  BY <1>1, Division
<1>3. n * j.entry = j.entry * n /\ j.entry * n \in Nat
  BY <1>1, <1>2, Z3
<1>4. Right(a) = IF n < j.count /\ x < j.entry THEN RunStart(j) + n * j.entry + x ELSE -1
  BY DEF Right
<1>5. ASSUME x < j.entry PROVE n < j.count <=> (j.entry * n) + x < j.entry * j.count
  <2>1. PICK z \in Nat : z = 0 /\ z < j.entry
    BY <1>1
  <2>2. ((j.entry * n) + x < (j.entry * j.count) + z) <=> (n < j.count \/ (n = j.count /\ x < z))
    BY <1>1, <1>2, <1>5, <2>1, Compared
  <2>3. QED
    BY <1>1, <1>2, <2>1, <2>2
<1>6. QED
  BY <1>3, <1>4, <1>5

LEMMA ReadKeeps ==
  ASSUME DirectInv, ReadBlocks
  PROVE  DirectInv'
<1> DEFINE e == job.entry
           s == RunStart(job)
           E == RunEnd(job)
<1>1. /\ pos < E /\ job' = job /\ pos' = pos + Transferred /\ skip' = 0
      /\ row' = LastRow /\ begun' = TailSize
      /\ mem' = [a \in Address(job) |->
                   IF StoredAt(a) = {} THEN mem[a] ELSE CHOOSE b \in StoredAt(a) : TRUE]
  BY DEF ReadBlocks
<1>2. /\ job \in Jobs /\ Readable(job) /\ pos \in Nat /\ skip \in Nat
      /\ mem = [a \in Address(job) |-> IF Right(a) < s + Taken THEN Right(a) ELSE -1]
  BY DEF DirectInv
<1>3. /\ e \in Nat \ {0} /\ job.stride \in Nat \ {0} /\ s \in Nat /\ job.count \in Nat
      /\ E = s + (e * job.count) /\ e * job.count \in Nat
  BY <1>2, JobTypes
<1>4. /\ Taken \in Nat /\ Useful \in Nat /\ Transferred \in Nat
      /\ Taken + Useful = Lesser(pos + Transferred, E) - s
  BY <1>1, Amounts
<1> HIDE DEF e, s, E
<1>5. PICK k \in Nat : k = Taken + Useful
  BY <1>4
<1>6. Taken' = k /\ s <= pos + Transferred /\ k <= e * job.count
  <2>1. Taken' = Lesser(pos' + skip', E) - s
    BY <1>1 DEF Taken, E, s
  <2>2. pos' + skip' = pos + Transferred
    BY <1>1, <1>2, <1>4
  <2>3. QED
    BY <1>2, <1>3, <1>4, <1>5, <2>1, <2>2 DEF Lesser
<1>7. row' = (k \div e) * job.stride /\ begun' = k % e
  <2>1. PICK q : q = Taken \div e
    OBVIOUS
  <2>2. PICK m : m = BegunBefore
    OBVIOUS
  <2>3. /\ m \in Nat /\ FullEntries \in Nat /\ TailSize \in Nat /\ TailSize < e
        /\ k = (e * (m + FullEntries)) + TailSize
        /\ LastRow = (m + FullEntries) * job.stride
    BY <1>1, <1>5, <2>1, <2>2, Counters DEF e, E
  <2>4. PICK p \in Nat : p = m + FullEntries
    BY <2>3
  <2>5. k \div e = p /\ k % e = TailSize
    <3>1. PICK d \in Nat \ {0} : d = e
      BY <1>3
    <3>2. PICK t \in Nat : t = TailSize
      BY <2>3
    <3>3. k = (d * p) + t /\ t < d
      BY <2>3, <2>4, <3>1, <3>2
    <3>4. k \div d = p /\ k % d = t
      BY <3>3, OneDivision
    <3>5. QED
      BY <3>1, <3>2, <3>4
  <2>6. QED
    BY <1>1, <2>3, <2>4, <2>5
<1>8. ASSUME NEW a \in Address(job)
      PROVE  mem'[a] = IF Right(a) < s + k THEN Right(a) ELSE -1
  <2>1. PICK n : n = a \div job.stride
    OBVIOUS
  <2>2. PICK x : x = a % job.stride
    OBVIOUS
  <2>3. /\ n \in Nat /\ x \in Nat
        /\ \A b : b \in StoredAt(a) <=>
             /\ x < e /\ ~ ((e * n) + x < Taken) /\ (e * n) + x < Taken + Useful
             /\ b = s + (e * n) + x
    BY <1>1, <2>1, <2>2, BytesStored DEF e, s, E
  <2>4. PICK j \in Jobs : j = job
    BY <1>2
  <2>5. /\ n < job.count /\ x < e => Right(a) = s + (e * n) + x
        /\ ~ (n < job.count /\ x < e) => Right(a) = -1
        /\ x < e => (n < job.count <=> (e * n) + x < e * job.count)
        /\ e * n \in Nat
    <3>1. a \in Address(j) /\ Readable(j) /\ n = a \div j.stride /\ x = a % j.stride
      BY <1>2, <2>1, <2>2, <2>4
    <3>2. /\ n < j.count /\ x < j.entry => Right(a) = RunStart(j) + (j.entry * n) + x
          /\ ~ (n < j.count /\ x < j.entry) => Right(a) = -1
          /\ x < j.entry => (n < j.count <=> (j.entry * n) + x < j.entry * j.count)
          /\ j.entry * n \in Nat
      BY <2>4, <3>1, RightByte
    <3>3. QED
      BY <2>4, <3>2 DEF e, s
  <2>6. PICK c \in Nat : c = e * n
    BY <2>5
  <2>7. mem[a] = IF Right(a) < s + Taken THEN Right(a) ELSE -1
    BY <1>2
  <2>8. mem'[a] = IF StoredAt(a) = {} THEN mem[a] ELSE CHOOSE b \in StoredAt(a) : TRUE
    BY <1>1
  <2>9. CASE x < e /\ ~ (c + x < Taken) /\ c + x < k
    <3>1. PICK v : v = s + c + x
      OBVIOUS
    <3>2. \A b : b \in StoredAt(a) <=> b = v
      BY <1>5, <2>3, <2>6, <2>9, <3>1
    <3>3. StoredAt(a) # {} /\ (CHOOSE b \in StoredAt(a) : TRUE) = v
      BY <3>2
    <3>4. Right(a) = v
      BY <1>3, <1>6, <2>3, <2>5, <2>6, <2>9, <3>1
    <3>5. v < s + k
      BY <1>3, <2>3, <2>9, <3>1
    <3>6. QED
      BY <2>8, <3>3, <3>4, <3>5
  <2>10. CASE ~ (x < e /\ ~ (c + x < Taken) /\ c + x < k)
    <3>1. StoredAt(a) = {}
      BY <1>5, <2>3, <2>6, <2>10
    <3>2. mem'[a] = IF Right(a) < s + Taken THEN Right(a) ELSE -1
      BY <2>7, <2>8, <3>1
    <3>3. CASE n < job.count /\ x < e
      <4>1. Right(a) = s + c + x
        BY <2>5, <2>6, <3>3
      <4>2. c + x < Taken \/ ~ (c + x < k)
        BY <2>10, <3>3
      <4>3. QED
        BY <1>3, <1>4, <1>5, <2>3, <3>2, <4>1, <4>2
    <3>4. CASE ~ (n < job.count /\ x < e)
      BY <2>5, <3>2, <3>4
    <3>5. QED
      BY <3>3, <3>4
  <2>11. QED
    BY <2>9, <2>10
<1>9. mem' = [a \in Address(job) |-> IF Right(a) < s + k THEN Right(a) ELSE -1]
  BY <1>1, <1>8
<1>10. /\ mem' = [a \in Address(job') |-> IF Right(a)' < RunStart(job') + Taken' THEN Right(a)' ELSE -1]
  <2>1. \A a : Right(a)' = Right(a)
    BY <1>1 DEF Right
  <2>2. QED
    BY <1>1, <1>6, <1>9, <2>1 DEF s
<1>11. pos' \in Nat /\ skip' \in Nat /\ RunStart(job') <= pos' + skip'
  BY <1>1, <1>2, <1>4, <1>6 DEF s
<1>12. row' = (Taken' \div job'.entry) * job'.stride /\ begun' = Taken' % job'.entry
  BY <1>1, <1>6, <1>7 DEF e
<1>13. QED
  BY <1>1, <1>2, <1>10, <1>11, <1>12 DEF DirectInv

\* The inductive invariant of a run that is read with direct IO, for any sizes of entries,
\* rows, blocks and buffer: where the next byte goes follows from how many have been stored.
THEOREM DirectInvariance == DirectReads => []DirectInv
<1>1. DirectInit => DirectInv
  <2>1. SUFFICES ASSUME DirectInit PROVE DirectInv
    OBVIOUS
  <2>2. /\ job \in Jobs /\ Readable(job)
        /\ pos = (RunStart(job) \div job.block) * job.block /\ skip = RunStart(job) - pos
        /\ row = 0 /\ begun = 0 /\ mem = [a \in Address(job) |-> -1]
    BY <2>1 DEF DirectInit
  <2>3. /\ job.entry \in Nat \ {0} /\ job.stride \in Nat \ {0} /\ job.block \in Nat \ {0}
        /\ RunStart(job) \in Nat /\ RunEnd(job) = RunStart(job) + (job.entry * job.count)
        /\ job.entry * job.count \in Nat
    BY <2>2, JobTypes
  <2>4. PICK s \in Nat : s = RunStart(job)
    BY <2>3
  <2>5. /\ s \div job.block \in Nat /\ s % job.block \in 0 .. job.block - 1
        /\ s = (job.block * (s \div job.block)) + (s % job.block)
    BY <2>3, Division
  <2>6. pos = job.block * (s \div job.block) /\ pos \in Nat
    <3>1. PICK b \in Nat \ {0} : b = job.block
      BY <2>3
    <3>2. PICK q \in Nat : q = s \div b
      BY <2>5, <3>1
    <3>3. q * b = b * q /\ b * q \in Nat
      BY Z3
    <3>4. pos = q * b
      BY <2>2, <2>4, <3>1, <3>2
    <3>5. QED
      BY <3>1, <3>2, <3>3, <3>4
  <2>7. skip = s % job.block /\ skip \in Nat /\ skip < job.block /\ pos + skip = s
    BY <2>2, <2>3, <2>4, <2>5, <2>6
  <2>8. Taken = 0
    BY <2>3, <2>4, <2>7 DEF Taken, Lesser
  <2>9. 0 \div job.entry = 0 /\ 0 % job.entry = 0
    <3>1. PICK d \in Nat \ {0} : d = job.entry
      BY <2>3
    <3>2. PICK z \in Nat : z = 0
      OBVIOUS
    <3>3. z = (d * z) + z /\ z < d
      BY <3>2, Z3
    <3>4. z \div d = z /\ z % d = z
      BY <3>3, OneDivision
    <3>5. QED
      BY <3>1, <3>2, <3>4
  <2>10. row = (Taken \div job.entry) * job.stride /\ begun = Taken % job.entry
    BY <2>2, <2>3, <2>8, <2>9
  <2>11. ASSUME NEW a \in Address(job)
         PROVE  mem[a] = IF Right(a) < s + Taken THEN Right(a) ELSE -1
    <3>1. PICK j \in Jobs : j = job
      BY <2>2
    <3>2. PICK n : n = a \div j.stride
      OBVIOUS
    <3>3. PICK x : x = a % j.stride
      OBVIOUS
    <3>4. /\ n < j.count /\ x < j.entry => Right(a) = RunStart(j) + (j.entry * n) + x
          /\ ~ (n < j.count /\ x < j.entry) => Right(a) = -1
          /\ j.entry * n \in Nat
      BY <2>2, <3>1, <3>2, <3>3, RightByte
    <3>5. x \in Nat
      <4>1. a \in Nat
        BY <2>2, JobTypes
      <4>2. PICK d \in Nat \ {0} : d = j.stride
        BY <2>3, <3>1
      <4>3. a % d \in 0 .. d - 1
        BY <4>1, Division
      <4>4. QED
        BY <3>3, <4>2, <4>3
    <3>6. ~ (Right(a) < s) \/ Right(a) = -1
      BY <2>4, <3>1, <3>4, <3>5
    <3>7. QED
      BY <2>2, <2>8, <3>6
  <2>12. QED
    BY <2>2, <2>4, <2>6, <2>7, <2>10, <2>11 DEF DirectInv
<1>2. DirectInv /\ [DirectNext]_directVars => DirectInv'
  <2>1. SUFFICES ASSUME DirectInv, [DirectNext]_directVars PROVE DirectInv'
    OBVIOUS
  <2>2. CASE ReadBlocks
    BY <2>1, <2>2, ReadKeeps
  <2>3. CASE UNCHANGED directVars
    BY <2>1, <2>3 DEF directVars, DirectInv, Taken, Right
  <2>4. QED
    BY <2>1, <2>2, <2>3 DEF DirectNext, DirectDone
<1>3. QED
  BY <1>1, <1>2, PTL DEF DirectReads

\* Every byte of a run is stored at its place by the time the reads have passed it, and
\* nothing else is: for any sizes of entries, rows, blocks and buffer.
THEOREM BytesInPlaceAlways == DirectReads => []BytesInPlace
<1>1. DirectInv => BytesInPlace
  <2>1. SUFFICES ASSUME DirectInv, NEW a \in Address(job)
                 PROVE  mem[a] = IF Right(a) < pos THEN Right(a) ELSE -1
    BY DEF BytesInPlace
  <2>2. /\ job \in Jobs /\ Readable(job) /\ pos \in Nat /\ skip \in Nat
        /\ RunStart(job) <= pos + skip
        /\ skip = 0 \/ pos + skip = RunStart(job)
        /\ mem[a] = IF Right(a) < RunStart(job) + Taken THEN Right(a) ELSE -1
    BY <2>1 DEF DirectInv
  <2>3. /\ RunStart(job) \in Nat /\ RunEnd(job) = RunStart(job) + (job.entry * job.count)
        /\ job.entry * job.count \in Nat /\ job.stride \in Nat \ {0} /\ a \in Nat
    BY <2>2, JobTypes
  <2>4. PICK s \in Nat : s = RunStart(job)
    BY <2>3
  <2>5. PICK M \in Nat : M = job.entry * job.count
    BY <2>3
  <2>6. Right(a) = -1 \/ (Right(a) \in Nat /\ s <= Right(a) /\ Right(a) < s + M)
    <3>1. PICK j \in Jobs : j = job
      BY <2>2
    <3>2. PICK n : n = a \div j.stride
      OBVIOUS
    <3>3. PICK x : x = a % j.stride
      OBVIOUS
    <3>4. /\ n < j.count /\ x < j.entry => Right(a) = RunStart(j) + (j.entry * n) + x
          /\ ~ (n < j.count /\ x < j.entry) => Right(a) = -1
          /\ x < j.entry => (n < j.count <=> (j.entry * n) + x < j.entry * j.count)
          /\ j.entry * n \in Nat
      BY <2>1, <2>2, <3>1, <3>2, <3>3, RightByte
    <3>5. x \in Nat
      <4>1. PICK d \in Nat \ {0} : d = j.stride
        BY <2>3, <3>1
      <4>2. a % d \in 0 .. d - 1
        BY <2>3, Division
      <4>3. QED
        BY <3>3, <4>1, <4>2
    <3>6. PICK c \in Nat : c = j.entry * n
      BY <3>4
    <3>7. QED
      BY <2>4, <2>5, <3>1, <3>4, <3>5, <3>6
  <2>7. s + Taken = Lesser(pos + skip, s + M)
    BY <2>2, <2>3, <2>4, <2>5 DEF Taken, Lesser
  <2>8. Right(a) < s + Taken <=> Right(a) < pos
    BY <2>2, <2>4, <2>6, <2>7 DEF Lesser
  <2>9. QED
    BY <2>2, <2>4, <2>8
<1>2. QED
  BY <1>1, DirectInvariance, PTL
=============================================================================
