-------------------------- MODULE StdinReaderProofs -------------------------
(***************************************************************************)
(* Proofs about StdinReader, for rings and line buffers of every size, any *)
(* input and any number of callers: the ring implements LineQueue, the     *)
(* input is cut as Reference says, "eof" is the last answer, and the       *)
(* thread is joined once.                                                  *)
(***************************************************************************)
EXTENDS StdinReader, TLAPS

Index == 0 .. RING_SIZE - 1

\* What a place of the ring holds.
Place == Line \cup {NULL}

Elements(s) == {s[i] : i \in 1 .. Len(s)}

StdinTypeInv ==
  /\ lines \in [Index -> Place] /\ head \in Index /\ tail \in Index
  /\ started \in BOOLEAN /\ joined \in BOOLEAN /\ finished \in BOOLEAN
  /\ eof \in BOOLEAN /\ failed \in BOOLEAN /\ overflow \in BOOLEAN
  /\ newlines \subseteq 1 .. MaxBytes
  /\ thread \in {"none", "reading", "eof", "error", "returning", "gone"}
  /\ read \in 0 .. MaxBytes /\ start \in 1 .. read + 1
  /\ at \in [Callers -> {"idle", "joining"}]
  /\ answer \in [Callers -> {"none", "line", "overflow", "error", "eof", "nothing", "raised"}]
  /\ delivered \in Seq(Place)
  /\ joins \in Nat

\* How far the thread is, and what it has set.
ThreadInv ==
  /\ thread = "none" => head = tail
  /\ ~started => thread = "none" /\ ~joined
  /\ finished <=> thread \in {"returning", "gone"}
  /\ eof => finished

\* joined is set for the one caller that joins.
JoinInv ==
  /\ joins <= 1
  /\ joins = 1 => joined /\ thread = "gone"
  /\ \A c \in Callers : at[c] = "joining" =>
        /\ joined /\ finished /\ joins = 0
        /\ \A d \in Callers : at[d] = "joining" => d = c

\* The thread collects a line that starts at start, has no line feed yet and still fits.
CutInv ==
  /\ IF thread \in {"none", "reading"}
     THEN /\ LineStart(start) /\ (start .. read) \cap newlines = {}
          /\ read - start + 1 < LINE_CAPACITY
     ELSE start = read + 1
  /\ collected = Reference(start - 1)

\* Every collected line was delivered or waits, unless a failure or overflow is recorded.
QueueInv ==
  /\ ~failed /\ ~overflow => collected = Elements(delivered) \cup Elements(Waiting)
  /\ \A c \in Callers : answer[c] = "eof" => eof /\ ~failed /\ ~overflow /\ head = tail

StdinInv == StdinTypeInv /\ ThreadInv /\ JoinInv /\ CutInv /\ QueueInv
-----------------------------------------------------------------------------
\* Remainders.  An index one step or one turn away is brought back by one subtraction.
LEMMA Wraps ==
  ASSUME NEW n \in Nat \ {0}, NEW x \in Int, -n <= x, x < 2 * n
  PROVE  x % n = IF x < 0 THEN x + n ELSE IF x < n THEN x ELSE x - n
<1> DEFINE q == x \div n
           r == x % n
<1>1. q \in Int /\ r \in 0 .. n - 1 /\ x = n * q + r
  OBVIOUS
<1> HIDE DEF q, r
<1>2. q > -2 /\ q < 2
  <2>1. ASSUME q <= -2 PROVE FALSE
    <3>1. n * q <= n * (-2)
      BY <1>1, <2>1
    <3>2. QED
      BY <1>1, <3>1
  <2>2. ASSUME q >= 2 PROVE FALSE
    <3>1. n * q >= n * 2
      BY <1>1, <2>2
    <3>2. QED
      BY <1>1, <3>1
  <2>3. QED
    BY <1>1, <2>1, <2>2
<1>3. q = -1 \/ q = 0 \/ q = 1
  BY <1>1, <1>2
<1>4. r = IF x < 0 THEN x + n ELSE IF x < n THEN x ELSE x - n
  <2>1. CASE q = -1
    BY <1>1, <2>1
  <2>2. CASE q = 0
    BY <1>1, <2>2
  <2>3. CASE q = 1
    BY <1>1, <2>3
  <2>4. QED
    BY <1>3, <2>1, <2>2, <2>3
<1>5. QED
  BY <1>4 DEF r

\* Two different multiples of n are at least n apart; n further on is the next one.
LEMMA Multiples ==
  ASSUME NEW n \in Nat \ {0}, NEW a \in Nat, a % n = 0
  PROVE  /\ (a + n) % n = 0
         /\ \A b \in Nat : b % n = 0 /\ a < b => b - a >= n
<1>1. PICK p \in Int : a = n * p
  <2> DEFINE q == a \div n
             r == a % n
  <2>1. q \in Int /\ r = 0 /\ a = n * q + r
    OBVIOUS
  <2> HIDE DEF q, r
  <2>2. QED
    BY <2>1
<1>2. (a + n) % n = 0
  <2> DEFINE q == (a + n) \div n
             r == (a + n) % n
  <2>1. q \in Int /\ r \in 0 .. n - 1 /\ a + n = n * q + r
    OBVIOUS
  <2> HIDE DEF q, r
  <2>2. n * (p + 1 - q) = r
    BY <1>1, <2>1
  <2>3. p + 1 - q < 1 /\ p + 1 - q > -1
    BY <1>1, <2>1, <2>2
  <2>4. r = 0
    BY <1>1, <2>1, <2>2, <2>3
  <2>5. QED
    BY <2>4 DEF r
<1>3. ASSUME NEW b \in Nat, b % n = 0, a < b PROVE b - a >= n
  <2>1. PICK q \in Int : b = n * q
    <3> DEFINE q == b \div n
               r == b % n
    <3>1. q \in Int /\ r = 0 /\ b = n * q + r
      BY <1>3
    <3> HIDE DEF q, r
    <3>2. QED
      BY <3>1
  <2>2. n * (q - p) = b - a /\ b - a > 0
    BY <1>1, <1>3, <2>1
  <2>3. q - p >= 1
    BY <1>1, <2>1, <2>2
  <2>4. n * (q - p) >= n
    BY <1>1, <2>1, <2>3
  <2>5. QED
    BY <2>2, <2>4
<1>4. QED
  BY <1>2, <1>3
-----------------------------------------------------------------------------
\* The ring.
Size(h, t) == (t - h) % RING_SIZE

After(i) == (i + 1) % RING_SIZE

Placed(r, i, line) == [r EXCEPT ![i] = line]

Content(r, h, t) == [i \in 1 .. Size(h, t) |-> r[(h + i - 1) % RING_SIZE]]

LEMMA Indices ==
  ASSUME NEW h \in Index, NEW t \in Index
  PROVE  /\ Size(h, t) = IF h <= t THEN t - h ELSE t - h + RING_SIZE
         /\ (t + 1) % RING_SIZE = IF t = RING_SIZE - 1 THEN 0 ELSE t + 1
         /\ \A i \in 1 .. RING_SIZE :
               (h + i - 1) % RING_SIZE = IF h + i - 1 < RING_SIZE THEN h + i - 1
                                         ELSE h + i - 1 - RING_SIZE
<1> RING_SIZE \in Nat \ {0} /\ h \in 0 .. RING_SIZE - 1 /\ t \in 0 .. RING_SIZE - 1
  BY StdinAssumption DEF Index
<1>0. \A x \in Int : -RING_SIZE <= x /\ x < 2 * RING_SIZE =>
         x % RING_SIZE = IF x < 0 THEN x + RING_SIZE
                         ELSE IF x < RING_SIZE THEN x ELSE x - RING_SIZE
  BY Wraps, Zenon
<1>1. (t - h) % RING_SIZE = IF t - h < 0 THEN t - h + RING_SIZE
                            ELSE IF t - h < RING_SIZE THEN t - h ELSE t - h - RING_SIZE
  <2>1. t - h \in Int /\ -RING_SIZE <= t - h /\ t - h < 2 * RING_SIZE
    OBVIOUS
  <2>2. QED
    BY <1>0, <2>1
<1>2. (t + 1) % RING_SIZE = IF t + 1 < 0 THEN t + 1 + RING_SIZE
                            ELSE IF t + 1 < RING_SIZE THEN t + 1 ELSE t + 1 - RING_SIZE
  <2>1. t + 1 \in Int /\ -RING_SIZE <= t + 1 /\ t + 1 < 2 * RING_SIZE
    OBVIOUS
  <2>2. QED
    BY <1>0, <2>1
<1>3. ASSUME NEW i \in 1 .. RING_SIZE
      PROVE  (h + i - 1) % RING_SIZE = IF h + i - 1 < RING_SIZE THEN h + i - 1
                                       ELSE h + i - 1 - RING_SIZE
  <2>1. (h + i - 1) % RING_SIZE =
          IF h + i - 1 < 0 THEN h + i - 1 + RING_SIZE
          ELSE IF h + i - 1 < RING_SIZE THEN h + i - 1 ELSE h + i - 1 - RING_SIZE
    <3>1. h + i - 1 \in Int /\ -RING_SIZE <= h + i - 1 /\ h + i - 1 < 2 * RING_SIZE
      OBVIOUS
    <3>2. QED
      BY <1>0, <3>1
  <2>2. QED
    BY <2>1
<1>4. Size(h, t) = IF h <= t THEN t - h ELSE t - h + RING_SIZE
  BY <1>1 DEF Size
<1>5. (t + 1) % RING_SIZE = IF t = RING_SIZE - 1 THEN 0 ELSE t + 1
  BY <1>2
<1>6. QED
  BY <1>3, <1>4, <1>5

\* w is the sequence of the lines of r from h up to t.
IsContent(w, r, h, t) ==
  /\ w \in Seq(Place) /\ Len(w) = Size(h, t)
  /\ \A i \in 1 .. Size(h, t) : w[i] = r[(h + i - 1) % RING_SIZE]

LEMMA ContentType ==
  ASSUME NEW r \in [Index -> Place], NEW h \in Index, NEW t \in Index
  PROVE  IsContent(Content(r, h, t), r, h, t)
<1>1. Size(h, t) \in 0 .. RING_SIZE - 1
  <2>1. Size(h, t) = IF h <= t THEN t - h ELSE t - h + RING_SIZE
    BY Indices, Zenon
  <2>2. QED
    BY <2>1, StdinAssumption DEF Index
<1>2. ASSUME NEW i \in 1 .. Size(h, t) PROVE (h + i - 1) % RING_SIZE \in Index
  <2>1. i \in 1 .. RING_SIZE
    BY <1>1, StdinAssumption
  <2>2. (h + i - 1) % RING_SIZE = IF h + i - 1 < RING_SIZE THEN h + i - 1
                                  ELSE h + i - 1 - RING_SIZE
    BY <2>1, Indices, Zenon
  <2>3. QED
    BY <2>1, <2>2, StdinAssumption DEF Index
<1>3. QED
  BY <1>1, <1>2 DEF Content, IsContent

LEMMA SamePlaces ==
  ASSUME NEW s \in Seq(Place), NEW t \in Seq(Place), Len(s) = Len(t),
         \A i \in 1 .. Len(s) : s[i] = t[i]
  PROVE  s = t
  OBVIOUS

\* A line put into the ring comes last, unless all places but one are used.
LEMMA RingPut ==
  ASSUME NEW r \in [Index -> Place], NEW h \in Index, NEW t \in Index, NEW line \in Place
  PROVE  /\ After(t) \in Index /\ Placed(r, t, line) \in [Index -> Place]
         /\ After(t) = h => Len(Content(r, h, t)) = RING_SIZE - 1
         /\ After(t) # h => /\ Len(Content(r, h, t)) < RING_SIZE - 1
                            /\ Content(Placed(r, t, line), h, After(t)) =
                                 Append(Content(r, h, t), line)
<1> PICK next, q : next = After(t) /\ q = Placed(r, t, line)
  OBVIOUS
<1> USE DEF After
<1> DEFINE w == Content(r, h, t)
           u == Content(q, h, next)
<1>1. next \in Index
  <2>1. next = IF t = RING_SIZE - 1 THEN 0 ELSE t + 1
    BY Indices, Zenon
  <2>2. QED
    BY <2>1, StdinAssumption DEF Index
<1>2. next = h => Len(w) = RING_SIZE - 1
  <2>1. /\ Size(h, t) = IF h <= t THEN t - h ELSE t - h + RING_SIZE
        /\ next = IF t = RING_SIZE - 1 THEN 0 ELSE t + 1
        /\ Len(w) = Size(h, t)
    BY Indices, ContentType, Zenon DEF IsContent
  <2> HIDE DEF w
  <2>2. QED
    BY <2>1, StdinAssumption DEF Index
<1>3. ASSUME next # h
      PROVE  Len(w) < RING_SIZE - 1 /\ u = Append(w, line)
  <2>1. /\ Size(h, next) = Size(h, t) + 1 /\ Size(h, t) \in Nat /\ Size(h, t) < RING_SIZE - 1
        /\ (h + Size(h, t)) % RING_SIZE = t
    <3>1. /\ Size(h, t) = IF h <= t THEN t - h ELSE t - h + RING_SIZE
          /\ Size(h, next) = IF h <= next THEN next - h ELSE next - h + RING_SIZE
          /\ next = IF t = RING_SIZE - 1 THEN 0 ELSE t + 1
      BY <1>1, Indices, Zenon
    <3>2. /\ Size(h, next) = Size(h, t) + 1 /\ Size(h, t) \in Nat /\ Size(h, t) < RING_SIZE - 1
      BY <1>3, <3>1, StdinAssumption DEF Index
    <3>3. (h + (Size(h, t) + 1) - 1) % RING_SIZE =
             IF h + (Size(h, t) + 1) - 1 < RING_SIZE THEN h + (Size(h, t) + 1) - 1
             ELSE h + (Size(h, t) + 1) - 1 - RING_SIZE
      <4>1. Size(h, t) + 1 \in 1 .. RING_SIZE
        BY <3>2, StdinAssumption
      <4>2. QED
        BY <4>1, Indices, Zenon
    <3>4. h + (Size(h, t) + 1) - 1 = h + Size(h, t)
      BY <3>2 DEF Index
    <3>5. QED
      BY <3>1, <3>2, <3>3, <3>4, StdinAssumption DEF Index
  <2>2. /\ w \in Seq(Place) /\ Len(w) = Size(h, t)
        /\ \A i \in 1 .. Size(h, t) : w[i] = r[(h + i - 1) % RING_SIZE]
    BY ContentType, Zenon DEF IsContent
  <2>3. q \in [Index -> Place] /\ q[t] = line /\ \A j \in Index : j # t => q[j] = r[j]
    BY DEF Placed
  <2>4. /\ u \in Seq(Place) /\ Len(u) = Size(h, next)
        /\ \A i \in 1 .. Size(h, next) : u[i] = q[(h + i - 1) % RING_SIZE]
    <3>1. q \in [Index -> Place] /\ h \in Index /\ next \in Index
      BY <1>1, <2>3, Zenon
    <3>2. IsContent(u, q, h, next)
      BY ONLY <3>1, ContentType, Zenon
    <3>3. QED
      BY <3>2, Zenon DEF IsContent
  <2> HIDE DEF w, u
  <2>5. ASSUME NEW i \in 1 .. Size(h, t)
        PROVE  (h + i - 1) % RING_SIZE \in Index /\ (h + i - 1) % RING_SIZE # t
    <3>1. Size(h, t) = IF h <= t THEN t - h ELSE t - h + RING_SIZE
      BY Indices, Zenon
    <3> i \in 1 .. RING_SIZE
      BY <2>1, StdinAssumption
    <3>2. (h + i - 1) % RING_SIZE = IF h + i - 1 < RING_SIZE THEN h + i - 1
                                    ELSE h + i - 1 - RING_SIZE
      BY <3>1, Indices, Zenon
    <3>3. QED
      BY <2>1, <3>1, <3>2, StdinAssumption DEF Index
  <2>6. \A i \in 1 .. Size(h, t) : u[i] = w[i]
    BY <2>1, <2>2, <2>3, <2>4, <2>5
  <2>7. u[Size(h, t) + 1] = line
    <3>1. Size(h, t) + 1 \in 1 .. Size(h, next) /\ h + (Size(h, t) + 1) - 1 = h + Size(h, t)
      BY <2>1 DEF Index
    <3>2. QED
      BY <2>1, <2>3, <2>4, <3>1, Zenon
  <2>8. /\ Append(w, line) \in Seq(Place) /\ Len(Append(w, line)) = Len(u)
        /\ \A i \in 1 .. Len(u) : Append(w, line)[i] = u[i]
    BY <2>1, <2>2, <2>4, <2>6, <2>7
  <2>9. QED
    BY <2>1, <2>2, <2>4, <2>8, SamePlaces
<1>4. Placed(r, t, line) \in [Index -> Place]
  BY DEF Placed
<1>5. QED
  BY <1>1, <1>2, <1>3, <1>4

\* The line taken from the ring is the first, and the others keep their order.
LEMMA RingGet ==
  ASSUME NEW r \in [Index -> Place], NEW h \in Index, NEW t \in Index, h # t
  PROVE  /\ After(h) \in Index /\ Placed(r, h, NULL) \in [Index -> Place]
         /\ Content(r, h, t) \in Seq(Place) /\ Content(r, h, t) # << >>
         /\ Head(Content(r, h, t)) = r[h]
         /\ Content(Placed(r, h, NULL), After(h), t) = Tail(Content(r, h, t))
<1> PICK next, q : next = After(h) /\ q = Placed(r, h, NULL)
  OBVIOUS
<1> USE DEF After
<1> DEFINE w == Content(r, h, t)
           u == Content(q, next, t)
           n == Size(h, t)
<1>1. next = IF h = RING_SIZE - 1 THEN 0 ELSE h + 1
  BY Indices, Zenon
<1>2. next \in Index
  BY <1>1, StdinAssumption DEF Index
<1>3. /\ n = IF h <= t THEN t - h ELSE t - h + RING_SIZE
      /\ Size(next, t) = IF next <= t THEN t - next ELSE t - next + RING_SIZE
  BY <1>2, Indices, Zenon
<1>4. n \in 1 .. RING_SIZE - 1 /\ Size(next, t) = n - 1
  BY <1>1, <1>3, StdinAssumption DEF Index
<1>5. q \in [Index -> Place] /\ \A j \in Index : j # h => q[j] = r[j]
  BY DEF Place, Placed
<1>6. /\ w \in Seq(Place) /\ Len(w) = n
      /\ \A i \in 1 .. n : w[i] = r[(h + i - 1) % RING_SIZE]
  BY ContentType, Zenon DEF IsContent
<1>7. /\ u \in Seq(Place) /\ Len(u) = Size(next, t)
      /\ \A i \in 1 .. Size(next, t) : u[i] = q[(next + i - 1) % RING_SIZE]
  <2>1. q \in [Index -> Place] /\ next \in Index /\ t \in Index
    BY <1>2, <1>5, Zenon
  <2>2. IsContent(u, q, next, t)
    BY ONLY <2>1, ContentType, Zenon
  <2>3. QED
    BY <2>2, Zenon DEF IsContent
<1> HIDE DEF w, u, n
<1>8. \A i \in 1 .. RING_SIZE :
         /\ (h + i - 1) % RING_SIZE = IF h + i - 1 < RING_SIZE THEN h + i - 1
                                      ELSE h + i - 1 - RING_SIZE
         /\ (next + i - 1) % RING_SIZE = IF next + i - 1 < RING_SIZE THEN next + i - 1
                                         ELSE next + i - 1 - RING_SIZE
  BY <1>2, Indices, Zenon
<1>9. Head(w) = r[h] /\ w # << >>
  <2>1. (h + 1 - 1) % RING_SIZE = h
    BY <1>8, StdinAssumption DEF Index
  <2>2. QED
    BY <1>4, <1>6, <2>1
<1>10. ASSUME NEW i \in 1 .. n - 1 PROVE u[i] = w[i + 1]
  <2>1. i \in 1 .. RING_SIZE /\ i + 1 \in 1 .. RING_SIZE
    BY <1>4, StdinAssumption
  <2> DEFINE j == (h + (i + 1) - 1) % RING_SIZE
             k == (next + i - 1) % RING_SIZE
  <2>2. /\ j = IF h + (i + 1) - 1 < RING_SIZE THEN h + (i + 1) - 1
               ELSE h + (i + 1) - 1 - RING_SIZE
        /\ k = IF next + i - 1 < RING_SIZE THEN next + i - 1 ELSE next + i - 1 - RING_SIZE
    BY <1>8, <2>1, Zenon
  <2>4. u[i] = q[k] /\ w[i + 1] = r[j]
    <3>1. i \in 1 .. Size(next, t) /\ i + 1 \in 1 .. n
      BY <1>4
    <3>2. QED
      BY <1>6, <1>7, <3>1, Zenon
  <2> HIDE DEF j, k
  <2>3. k = j /\ k \in Index /\ k # h
    BY <1>1, <1>3, <1>4, <2>1, <2>2, StdinAssumption DEF Index, n
  <2>5. QED
    BY <1>5, <2>3, <2>4, Zenon
<1>11. /\ Tail(w) \in Seq(Place) /\ Len(Tail(w)) = Len(u)
       /\ \A i \in 1 .. Len(u) : u[i] = Tail(w)[i]
  BY <1>4, <1>6, <1>7, <1>9, <1>10
<1>12. u = Tail(w)
  BY <1>7, <1>11, SamePlaces
<1>13. QED
  BY <1>2, <1>5, <1>6, <1>9, <1>12 DEF w, u

LEMMA RingEmpty ==
  ASSUME NEW r \in [Index -> Place], NEW h \in Index
  PROVE  Content(r, h, h) = << >>
<1>1. Content(r, h, h) \in Seq(Place) /\ Len(Content(r, h, h)) = Size(h, h)
  BY ContentType, Zenon DEF IsContent
<1>2. Size(h, h) = 0
  BY Indices DEF Index
<1>3. QED
  BY <1>1, <1>2
-----------------------------------------------------------------------------
\* Cutting.  Reference, and where a line starts, for a text with line feeds at nl.
StartsAt(nl, n) ==
  \E feed \in nl \cup {0} :
     /\ feed < n /\ (feed + 1 .. n - 1) \cap nl = {}
     /\ (n - 1 - feed) % LINE_CAPACITY = 0

IsLine(nl, n, from, to) ==
  /\ from <= n /\ to \in from - 1 .. n
  /\ StartsAt(nl, from)
  /\ (from .. to) \cap nl = {}
  /\ to - from + 1 <= LINE_CAPACITY
  /\ to = n \/ to - from + 1 = LINE_CAPACITY \/ to + 1 \in nl

Cuts(nl, n) == {l \in Line : IsLine(nl, n, l.from, l.to)}

LEMMA CutsIsReference ==
  /\ \A n : LineStart(n) <=> StartsAt(newlines, n)
  /\ \A n : Reference(n) = Cuts(newlines, n)
  /\ LineStart(start)' <=> StartsAt(newlines', start')
  /\ Reference(start - 1)' = Cuts(newlines', start' - 1)
<1>1. \A n : LineStart(n) <=> StartsAt(newlines, n)
  BY Zenon DEF LineStart, StartsAt
<1>2. \A n : Reference(n) = Cuts(newlines, n)
  BY <1>1, Zenon DEF Reference, Cuts, IsLine
<1>3. (\A n : LineStart(n) <=> StartsAt(newlines, n))'
  BY Zenon DEF LineStart, StartsAt
<1>4. LineStart(start)' <=> StartsAt(newlines', start')
  BY Zenon DEF LineStart, StartsAt
<1>5. Reference(start - 1)' = Cuts(newlines', start' - 1)
  BY <1>3, Zenon DEF Reference, Cuts, IsLine
<1>6. QED
  BY <1>1, <1>2, <1>4, <1>5, Zenon

\* Two places where a line may start, with no line feed between them, are at least a
\* buffer apart.
LEMMA StartsApart ==
  ASSUME NEW nl, nl \subseteq 1 .. MaxBytes, NEW a \in Nat, NEW b \in Nat, a < b,
         StartsAt(nl, a), StartsAt(nl, b), (a .. b - 1) \cap nl = {}
  PROVE  b - a >= LINE_CAPACITY
<1>1. PICK f \in nl \cup {0} :
        /\ f < a /\ (f + 1 .. a - 1) \cap nl = {} /\ (a - 1 - f) % LINE_CAPACITY = 0
  BY Zenon DEF StartsAt
<1>2. PICK g \in nl \cup {0} :
        /\ g < b /\ (g + 1 .. b - 1) \cap nl = {} /\ (b - 1 - g) % LINE_CAPACITY = 0
  BY Zenon DEF StartsAt
<1>3. f \in Nat /\ g \in Nat /\ LINE_CAPACITY \in Nat \ {0}
  BY StdinAssumption
<1>4. f = g
  <2>1. ASSUME f < g PROVE FALSE
    <3>1. g \in nl /\ (g \in f + 1 .. a - 1 \/ g \in a .. b - 1)
      BY <1>1, <1>2, <1>3, <2>1
    <3>2. QED
      BY <1>1, <3>1, Zenon
  <2>2. ASSUME g < f PROVE FALSE
    <3>1. f \in nl /\ f \in g + 1 .. b - 1
      BY <1>1, <1>2, <1>3, <2>2
    <3>2. QED
      BY <1>2, <3>1, Zenon
  <2>3. QED
    BY <1>3, <2>1, <2>2
<1>5. PICK x \in Nat, y \in Nat : x = a - 1 - f /\ y = b - 1 - f
  BY <1>1, <1>2, <1>3, <1>4
<1>6. x % LINE_CAPACITY = 0 /\ y % LINE_CAPACITY = 0
  BY <1>1, <1>2, <1>4, <1>5, Zenon
<1>7. x < y
  BY <1>3, <1>5
<1>8. y - x >= LINE_CAPACITY
  BY <1>3, <1>6, <1>7, Multiples, Zenon
<1>9. QED
  BY <1>3, <1>5, <1>8

\* Behind a line that ends where EndsLine says, the next one starts.
LEMMA NextStart ==
  ASSUME NEW nl, nl \subseteq 1 .. MaxBytes, NEW s \in 1 .. MaxBytes, NEW last \in s .. MaxBytes,
         StartsAt(nl, s), (s .. last - 1) \cap nl = {},
         last \in nl \/ last - s + 1 = LINE_CAPACITY
  PROVE  StartsAt(nl, last + 1)
<1>1. LINE_CAPACITY \in Nat \ {0} /\ MaxBytes \in Nat
  BY StdinAssumption
<1>2. CASE last \in nl
  <2>1. /\ last < last + 1 /\ (last + 1 .. (last + 1) - 1) \cap nl = {}
        /\ ((last + 1) - 1 - last) = 0
    BY <1>1
  <2>2. 0 % LINE_CAPACITY = 0
    BY <1>1
  <2>3. QED
    BY <1>2, <2>1, <2>2, Zenon DEF StartsAt
<1>3. CASE last \notin nl /\ last - s + 1 = LINE_CAPACITY
  <2>1. PICK f \in nl \cup {0} :
          /\ f < s /\ (f + 1 .. s - 1) \cap nl = {} /\ (s - 1 - f) % LINE_CAPACITY = 0
    BY Zenon DEF StartsAt
  <2>2. f \in Nat
    OBVIOUS
  <2>3. PICK x \in Nat : x = s - 1 - f
    BY <1>1, <2>1, <2>2
  <2>4. (x + LINE_CAPACITY) % LINE_CAPACITY = 0
    <3>1. x % LINE_CAPACITY = 0
      BY <2>1, <2>3, Zenon
    <3>2. QED
      BY <1>1, <3>1, Multiples, Zenon
  <2>5. (last + 1) - 1 - f = x + LINE_CAPACITY /\ f < last + 1
    BY <1>1, <1>3, <2>1, <2>2, <2>3
  <2>6. (f + 1 .. (last + 1) - 1) \cap nl = {}
    <3>1. ASSUME NEW k \in f + 1 .. (last + 1) - 1, k \in nl PROVE FALSE
      <4>1. k \in f + 1 .. s - 1 \/ k \in s .. last - 1 \/ k = last
        BY <1>1, <2>2, <3>1
      <4>2. QED
        BY <1>3, <2>1, <3>1, <4>1, Zenon
    <3>2. QED
      BY <3>1, Zenon
  <2>7. QED
    BY <2>4, <2>5, <2>6, Zenon DEF StartsAt
<1>4. QED
  BY <1>2, <1>3

CutAt(nl, s, last) == [from |-> s, to |-> IF last \in nl THEN last - 1 ELSE last]

\* The line from s to last is the one that the text up to last has more than the text
\* before s.
LEMMA CutLine ==
  ASSUME NEW nl, nl \subseteq 1 .. MaxBytes, NEW s \in 1 .. MaxBytes, NEW last \in s .. MaxBytes,
         StartsAt(nl, s), (s .. last - 1) \cap nl = {}, last - s + 1 <= LINE_CAPACITY
  PROVE  /\ CutAt(nl, s, last) \in Line
         /\ Cuts(nl, last) = Cuts(nl, s - 1) \cup {CutAt(nl, s, last)}
<1> PICK to : to = IF last \in nl THEN last - 1 ELSE last
  OBVIOUS
<1>1. LINE_CAPACITY \in Nat \ {0} /\ MaxBytes \in Nat /\ s \in Nat /\ last \in Nat /\ s <= last
  BY StdinAssumption
<1>2. /\ to \in s - 1 .. last
      /\ last \in nl => to = last - 1
      /\ last \notin nl => to = last
  BY <1>1
<1>3. [from |-> s, to |-> to] \in Line
  BY <1>1, <1>2 DEF Line
<1>4. IsLine(nl, last, s, to)
  <2>1. (s .. to) \cap nl = {}
    <3>1. ASSUME NEW k \in s .. to, k \in nl PROVE FALSE
      <4>1. k \in s .. last - 1 \/ (k = last /\ last \notin nl)
        BY <1>1, <1>2, <3>1
      <4>2. QED
        BY <3>1, <4>1, Zenon
    <3>2. QED
      BY <3>1, Zenon
  <2>2. s <= last /\ to - s + 1 <= LINE_CAPACITY
    BY <1>1, <1>2
  <2>3. to = last \/ to + 1 \in nl
    <3>1. to = last \/ (last \in nl /\ to + 1 = last)
      BY <1>1, <1>2
    <3>2. QED
      BY <3>1, Zenon
  <2>4. QED
    BY <1>2, <2>1, <2>2, <2>3, Zenon DEF IsLine
<1>5. ASSUME NEW a \in Nat, NEW b \in Nat, a <= last, IsLine(nl, last, a, b), a < s
      PROVE  IsLine(nl, s - 1, a, b)
  <2>1. /\ b \in a - 1 .. last /\ StartsAt(nl, a) /\ (a .. b) \cap nl = {}
        /\ b - a + 1 <= LINE_CAPACITY
        /\ b = last \/ b - a + 1 = LINE_CAPACITY \/ b + 1 \in nl
    BY <1>5, Zenon DEF IsLine
  <2>2. b <= s - 1
    <3> SUFFICES ASSUME b > s - 1 PROVE FALSE
      BY <1>1
    <3>1. \A k \in a .. s - 1 : k \in a .. b
      BY <1>1, <1>5
    <3>2. (a .. s - 1) \cap nl = {}
      BY <2>1, <3>1, Zenon
    <3>3. s - a >= LINE_CAPACITY
      BY <1>1, <1>5, <2>1, <3>2, StartsApart, Zenon
    <3>4. QED
      BY <1>1, <1>5, <2>1, <3>3
  <2>3. a <= s - 1 /\ b \in a - 1 .. s - 1 /\ b # last
    BY <1>1, <1>5, <2>1, <2>2
  <2>4. QED
    BY <2>1, <2>3, Zenon DEF IsLine
<1>6. ASSUME NEW a \in Nat, NEW b \in Nat, IsLine(nl, last, a, b), a >= s
      PROVE  a = s /\ b = to
  <2>1. /\ a <= last /\ b \in a - 1 .. last /\ StartsAt(nl, a) /\ (a .. b) \cap nl = {}
        /\ b - a + 1 <= LINE_CAPACITY
        /\ b = last \/ b - a + 1 = LINE_CAPACITY \/ b + 1 \in nl
    BY <1>6, Zenon DEF IsLine
  <2>2. a = s
    <3> SUFFICES ASSUME a > s PROVE FALSE
      BY <1>1, <1>6
    <3>1. \A k \in s .. a - 1 : k \in s .. last - 1
      BY <1>1, <2>1
    <3>2. (s .. a - 1) \cap nl = {} /\ s < a
      BY <3>1, Zenon
    <3>3. a - s >= LINE_CAPACITY
      BY <1>1, <2>1, <3>2, StartsApart, Zenon
    <3>4. QED
      BY <1>1, <2>1, <3>3
  <2>3. CASE last \in nl
    <3>1. b # last
      BY <1>1, <2>1, <2>2, <2>3
    <3>2. b + 1 \in nl
      BY <1>1, <2>1, <2>2, <3>1
    <3>3. b + 1 \in s .. last - 1 \/ b + 1 = last
      BY <1>1, <2>1, <2>2, <3>1
    <3>4. b + 1 = last
      BY <3>2, <3>3, Zenon
    <3>5. QED
      BY <1>1, <1>2, <2>2, <2>3, <3>4
  <2>4. CASE last \notin nl
    <3>1. b = last \/ b - s + 1 = LINE_CAPACITY \/ b + 1 \in s .. last - 1 \/ b + 1 = last
      BY <1>1, <2>1, <2>2
    <3>2. b = last \/ b - s + 1 = LINE_CAPACITY
      BY <2>1, <2>2, <2>4, <3>1, Zenon
    <3>3. QED
      BY <1>1, <1>2, <2>1, <2>2, <2>4, <3>2
  <2>5. QED
    BY <2>3, <2>4
<1>7. ASSUME NEW a \in Nat, NEW b \in Nat, IsLine(nl, s - 1, a, b)
      PROVE  IsLine(nl, last, a, b)
  <2>1. /\ a <= s - 1 /\ b \in a - 1 .. s - 1 /\ StartsAt(nl, a) /\ (a .. b) \cap nl = {}
        /\ b - a + 1 <= LINE_CAPACITY
        /\ b = s - 1 \/ b - a + 1 = LINE_CAPACITY \/ b + 1 \in nl
    BY <1>7, Zenon DEF IsLine
  <2>2. a <= last /\ b \in a - 1 .. last
    BY <1>1, <2>1
  <2>3. b = s - 1 => b - a + 1 = LINE_CAPACITY
    <3> SUFFICES ASSUME b = s - 1 PROVE b - a + 1 = LINE_CAPACITY
      OBVIOUS
    <3>1. a < s /\ (a .. s - 1) \cap nl = {}
      BY <1>1, <2>1
    <3>2. s - a >= LINE_CAPACITY
      BY <1>1, <2>1, <3>1, StartsApart, Zenon
    <3>3. QED
      BY <1>1, <2>1, <3>2
  <2>4. QED
    BY <2>1, <2>2, <2>3, Zenon DEF IsLine
<1>8. \A l \in Line : l.from \in Nat /\ l.to \in Nat
  BY <1>1 DEF Line
<1>9. \A l \in Line : l.from = s /\ l.to = to => l = [from |-> s, to |-> to]
  BY DEF Line
<1>10. ASSUME NEW l \in Line
       PROVE  IsLine(nl, last, l.from, l.to) <=>
                IsLine(nl, s - 1, l.from, l.to) \/ l = [from |-> s, to |-> to]
  <2>1. PICK a \in Nat, b \in Nat : a = l.from /\ b = l.to
    BY <1>8, Zenon
  <2>2. IsLine(nl, last, a, b) <=> IsLine(nl, s - 1, a, b) \/ (a = s /\ b = to)
    <3>1. CASE IsLine(nl, last, a, b)
      <4>1. a <= last
        BY <3>1, Zenon DEF IsLine
      <4>2. QED
        BY <1>1, <1>5, <1>6, <3>1, <4>1
    <3>2. CASE ~IsLine(nl, last, a, b)
      BY <1>4, <1>7, <3>2, Zenon
    <3>3. QED
      BY <3>1, <3>2
  <2>3. (a = s /\ b = to) <=> l = [from |-> s, to |-> to]
    BY <1>9, <2>1
  <2>4. QED
    BY <2>1, <2>2, <2>3, Zenon
<1>11. CutAt(nl, s, last) = [from |-> s, to |-> to]
  BY DEF CutAt
<1>12. QED
  BY <1>3, <1>10, <1>11, Zenon DEF Cuts

\* Nothing precedes the first byte.
LEMMA NoLines == \A nl : Cuts(nl, 0) = {}
<1>1. \A nl : \A l \in Line : ~IsLine(nl, 0, l.from, l.to)
  BY DEF IsLine, Line
<1>2. QED
  BY <1>1, Zenon DEF Cuts
-----------------------------------------------------------------------------
\* The lines handed out and the lines that wait.
LEMMA ElementsAppend ==
  ASSUME NEW s \in Seq(Place), NEW x \in Place
  PROVE  Append(s, x) \in Seq(Place) /\ Elements(Append(s, x)) = Elements(s) \cup {x}
<1>1. /\ Append(s, x) \in Seq(Place) /\ Len(Append(s, x)) = Len(s) + 1 /\ Len(s) \in Nat
      /\ Append(s, x)[Len(s) + 1] = x
      /\ \A i \in 1 .. Len(s) : Append(s, x)[i] = s[i]
  OBVIOUS
<1>2. \A i : i \in 1 .. Len(s) + 1 <=> i \in 1 .. Len(s) \/ i = Len(s) + 1
  BY <1>1
<1>3. QED
  BY <1>1, <1>2, Zenon DEF Elements

LEMMA ElementsTail ==
  ASSUME NEW s \in Seq(Place), s # << >>
  PROVE  Head(s) \in Place /\ Elements(s) = {Head(s)} \cup Elements(Tail(s))
<1>1. /\ Head(s) \in Place /\ Tail(s) \in Seq(Place) /\ Len(s) \in Nat /\ Len(s) > 0
      /\ Len(Tail(s)) = Len(s) - 1 /\ Head(s) = s[1]
      /\ \A i \in 1 .. Len(s) - 1 : Tail(s)[i] = s[i + 1]
  OBVIOUS
<1>2. ASSUME NEW x PROVE x \in Elements(s) <=> x = Head(s) \/ x \in Elements(Tail(s))
  <2>1. ASSUME NEW i \in 1 .. Len(s), x = s[i]
        PROVE  x = Head(s) \/ x \in Elements(Tail(s))
    <3>1. CASE i = 1
      BY <1>1, <2>1, <3>1, Zenon
    <3>2. CASE i # 1
      <4>1. i - 1 \in 1 .. Len(Tail(s)) /\ (i - 1) + 1 = i
        BY <1>1, <3>2
      <4>2. Tail(s)[i - 1] = s[i]
        BY <1>1, <4>1
      <4>3. QED
        BY <2>1, <4>1, <4>2, Zenon DEF Elements
    <3>3. QED
      BY <3>1, <3>2
  <2>2. ASSUME NEW i \in 1 .. Len(Tail(s)), x = Tail(s)[i]
        PROVE  x \in Elements(s)
    <3>1. i + 1 \in 1 .. Len(s) /\ Tail(s)[i] = s[i + 1]
      BY <1>1
    <3>2. QED
      BY <2>2, <3>1, Zenon DEF Elements
  <2>3. Head(s) \in Elements(s)
    <3>1. 1 \in 1 .. Len(s)
      BY <1>1
    <3>2. QED
      BY <1>1, <3>1, Zenon DEF Elements
  <2>4. QED
    BY <2>1, <2>2, <2>3, Zenon DEF Elements
<1>3. QED
  BY <1>1, <1>2, Zenon
-----------------------------------------------------------------------------
\* The steps.  Each keeps the invariant and is a step of the abstract queue.
QueueStep == [Abstract!Next]_(Abstract!vars)

RingTypeInv ==
  /\ lines \in [Index -> Place] /\ head \in Index /\ tail \in Index
  /\ failed \in BOOLEAN /\ overflow \in BOOLEAN

NothingLost == ~failed /\ ~overflow => collected = Elements(delivered) \cup Elements(Waiting)

LEMMA WaitingIsContent ==
  Waiting = Content(lines, head, tail) /\ Waiting' = Content(lines', head', tail')
  BY DEF Waiting, Content, Size

\* A line is put last, turned away from a full queue or lost with a failure.
LEMMA QueueLine ==
  ASSUME RingTypeInv, NothingLost, ~finished, NEW line \in Line, queue_line(line),
         UNCHANGED <<finished, delivered>>
  PROVE  RingTypeInv' /\ NothingLost' /\ QueueStep /\ head' = head
         /\ collected' = collected \cup {line}
<1> USE DEF RingTypeInv, NothingLost
<1>1. PICK next : next = After(tail)
  OBVIOUS
<1>2. collected' = collected \cup {line}
  BY DEF queue_line
<1>3. /\ next \in Index
      /\ next = head => Len(Waiting) = RING_SIZE - 1
      /\ next # head => Len(Waiting) < RING_SIZE - 1
      /\ Waiting \in Seq(Place)
  <2>1. line \in Place
    BY DEF Place
  <2>2. /\ next \in Index
        /\ next = head => Len(Content(lines, head, tail)) = RING_SIZE - 1
        /\ next # head => Len(Content(lines, head, tail)) < RING_SIZE - 1
    BY <1>1, <2>1, RingPut, Zenon
  <2>3. QED
    BY <2>2, ContentType, WaitingIsContent, Zenon DEF IsContent
<1>4. CASE failed' = TRUE /\ UNCHANGED <<lines, head, tail, overflow>>
  <2>1. Waiting' = Waiting
    BY <1>4, WaitingIsContent
  <2>2. Abstract!Fail
    BY <1>4, <2>1 DEF Abstract!Fail
  <2>3. QED
    BY <1>2, <1>4, <2>2 DEF QueueStep, Abstract!Next
<1>5. CASE next = head /\ overflow' = TRUE /\ UNCHANGED <<lines, head, tail, failed>>
  <2>1. Waiting' = Waiting
    BY <1>5, WaitingIsContent
  <2>2. Abstract!TurnAway
    BY <1>3, <1>5, <2>1 DEF Abstract!TurnAway
  <2>3. QED
    BY <1>2, <1>5, <2>2 DEF QueueStep, Abstract!Next
<1>6. CASE /\ next # head /\ lines' = [lines EXCEPT ![tail] = line] /\ tail' = next
           /\ UNCHANGED <<head, overflow, failed>>
  <2>1. line \in Place /\ lines' \in [Index -> Place]
    BY <1>6 DEF Place
  <2>2. Waiting' = Append(Waiting, line)
    <3>1. /\ lines' = Placed(lines, tail, line) /\ tail' = After(tail) /\ head' = head
          /\ After(tail) # head
      BY <1>1, <1>6 DEF Placed
    <3>2. Content(Placed(lines, tail, line), head, After(tail)) =
            Append(Content(lines, head, tail), line)
      BY ONLY <2>1, <3>1, lines \in [Index -> Place], head \in Index, tail \in Index, RingPut
    <3>3. QED
      BY <3>1, <3>2, WaitingIsContent, Zenon
  <2>3. Abstract!Put(line)
    BY <1>3, <1>6, <2>2 DEF Abstract!Put
  <2>4. Elements(Waiting') = Elements(Waiting) \cup {line}
    BY <1>3, <2>1, <2>2, ElementsAppend
  <2>5. NothingLost'
    BY Zenon, <1>2, <1>6, <2>4 DEF Elements
  <2>6. RingTypeInv'
    BY <1>3, <1>6, <2>1
  <2>7. QED
    BY <1>2, <1>6, <2>3, <2>5, <2>6 DEF QueueStep, Abstract!Next
<1>7. QED
  BY Zenon, <1>1, <1>4, <1>5, <1>6 DEF queue_line, After

LEMMA TypeParts == StdinTypeInv => RingTypeInv
  BY DEF StdinTypeInv, RingTypeInv

\* What the reading thread leaves alone.
LEMMA CallersKept ==
  ASSUME StdinInv, thread = "reading", thread' \in {"reading", "eof", "error"},
         UNCHANGED <<callVars, eof, finished>>, RingTypeInv', NothingLost', head' = head,
         read' \in 0 .. MaxBytes, start' \in 1 .. read' + 1, newlines' = newlines
  PROVE  StdinTypeInv' /\ ThreadInv' /\ JoinInv' /\ QueueInv'
<1> USE DEF callVars, StdinInv
<1>1. StdinTypeInv'
  BY Zenon DEF StdinTypeInv, RingTypeInv
<1>2. ThreadInv' /\ ~finished /\ ~eof
  BY DEF ThreadInv
<1>3. JoinInv'
  BY DEF JoinInv
<1>4. QueueInv'
  BY <1>2 DEF QueueInv, NothingLost
<1>5. QED
  BY <1>1, <1>2, <1>3, <1>4

LEMMA ReadByteStep ==
  ASSUME StdinInv, ReadByte
  PROVE  StdinInv' /\ QueueStep
<1> PICK nl, s, last : nl = newlines /\ s = start /\ last = read + 1
  OBVIOUS
<1>1. /\ thread = "reading" /\ read' = last /\ last \in s .. MaxBytes /\ s \in 1 .. MaxBytes
      /\ nl \subseteq 1 .. MaxBytes /\ newlines' = nl /\ start \in Int
  BY StdinAssumption DEF ReadByte, StdinInv, StdinTypeInv
<1>2. /\ StartsAt(nl, s) /\ (s .. last - 1) \cap nl = {} /\ last - s + 1 <= LINE_CAPACITY
      /\ collected = Cuts(nl, s - 1)
  <2>1. LineStart(start) /\ (start .. read) \cap newlines = {} /\ read - start + 1 < LINE_CAPACITY
        /\ collected = Reference(start - 1)
    BY <1>1 DEF StdinInv, CutInv
  <2>2. last - 1 = read /\ last - s + 1 <= LINE_CAPACITY
    BY <1>1, <2>1, StdinAssumption DEF StdinInv, StdinTypeInv
  <2>3. QED
    BY <2>1, <2>2, CutsIsReference, Zenon
<1>3. ~finished /\ RingTypeInv /\ NothingLost
  BY <1>1 DEF StdinInv, StdinTypeInv, ThreadInv, QueueInv, RingTypeInv, NothingLost
<1>4. CASE EndsLine(last)
  <2>1. PICK line : line = CutAt(nl, s, last)
    OBVIOUS
  <2>2. line \in Line /\ Cuts(nl, last) = Cuts(nl, s - 1) \cup {line}
    BY <1>1, <1>2, <2>1, CutLine, Zenon
  <2>3. queue_line(line) /\ start' = last + 1 /\ thread' = thread
        /\ UNCHANGED <<callVars, eof, finished>>
    BY <1>1, <1>4, <2>1 DEF ReadByte, Stripped, CutAt
  <2>4. RingTypeInv' /\ NothingLost' /\ QueueStep /\ head' = head
        /\ collected' = collected \cup {line}
    BY <1>3, <2>2, <2>3, QueueLine DEF callVars
  <2>5. read' \in 0 .. MaxBytes /\ start' \in 1 .. read' + 1 /\ start' - 1 = last
    BY <1>1, <2>3, StdinAssumption
  <2>6. CutInv'
    <3>1. last \in nl \/ last - s + 1 = LINE_CAPACITY
      BY <1>4 DEF EndsLine
    <3>2. StartsAt(nl, last + 1)
      BY <1>1, <1>2, <3>1, NextStart, Zenon
    <3>3. (start' .. read') \cap newlines' = {} /\ read' - start' + 1 < LINE_CAPACITY
      BY <1>1, <2>3, StdinAssumption
    <3>4. collected' = Reference(start - 1)' /\ LineStart(start)'
      BY <1>1, <1>2, <2>2, <2>3, <2>4, <2>5, <3>2, CutsIsReference, Zenon
    <3>5. QED
      BY <1>1, <2>3, <3>3, <3>4 DEF CutInv
  <2>7. QED
    BY <1>1, <2>3, <2>4, <2>5, <2>6, CallersKept DEF StdinInv
<1>5. CASE ~EndsLine(last)
  <2>1. UNCHANGED <<ringVars, start, collected, thread, callVars, eof, finished>>
    BY <1>1, <1>5 DEF ReadByte
  <2>2. Waiting' = Waiting
    BY <2>1, WaitingIsContent DEF ringVars
  <2>3. RingTypeInv' /\ NothingLost' /\ QueueStep /\ head' = head
    BY <1>3, <2>1, <2>2 DEF RingTypeInv, NothingLost, QueueStep, Abstract!vars, ringVars, callVars,
       Elements
  <2>4. read' \in 0 .. MaxBytes /\ start' \in 1 .. read' + 1
    BY <1>1, <2>1, StdinAssumption
  <2>5. CutInv'
    <3>1. last \notin nl /\ last - s + 1 # LINE_CAPACITY
      BY <1>5 DEF EndsLine
    <3>2. \A k \in s .. last : k \in s .. last - 1 \/ k = last
      BY <1>1
    <3>3. (s .. last) \cap nl = {}
      BY <1>2, <3>1, <3>2, Zenon
    <3>4. last - s + 1 < LINE_CAPACITY
      BY <1>1, <1>2, <3>1, StdinAssumption
    <3>5. collected' = Reference(start - 1)' /\ LineStart(start)'
      BY <1>1, <1>2, <2>1, CutsIsReference, Zenon
    <3>6. QED
      BY <1>1, <2>1, <3>3, <3>4, <3>5 DEF CutInv
  <2>6. QED
    BY <1>1, <2>1, <2>3, <2>4, <2>5, CallersKept DEF StdinInv
<1>6. QED
  BY <1>4, <1>5

LEMMA EndInputStep ==
  ASSUME StdinInv, EndInput
  PROVE  StdinInv' /\ QueueStep
<1> PICK nl, s, last : nl = newlines /\ s = start /\ last = read
  OBVIOUS
<1>1. /\ thread = "reading" /\ thread' \in {"eof", "error"} /\ read' = last
      /\ start' = last + 1 /\ newlines' = nl /\ UNCHANGED <<callVars, eof, finished>>
  BY DEF EndInput
<1>2. last \in 0 .. MaxBytes /\ s \in 1 .. last + 1 /\ nl \subseteq 1 .. MaxBytes /\ MaxBytes \in Nat
  BY StdinAssumption DEF StdinInv, StdinTypeInv
<1>3. /\ StartsAt(nl, s) /\ (s .. last) \cap nl = {} /\ last - s + 1 < LINE_CAPACITY
      /\ collected = Cuts(nl, s - 1)
  <2>1. LineStart(start) /\ (start .. read) \cap newlines = {} /\ read - start + 1 < LINE_CAPACITY
        /\ collected = Reference(start - 1)
    BY <1>1 DEF StdinInv, CutInv
  <2>2. QED
    BY <2>1, CutsIsReference, Zenon
<1>4. ~finished /\ RingTypeInv /\ NothingLost
  BY <1>1 DEF StdinInv, StdinTypeInv, ThreadInv, QueueInv, RingTypeInv, NothingLost
<1>5. read' \in 0 .. MaxBytes /\ start' \in 1 .. read' + 1 /\ start' - 1 = last
  BY <1>1, <1>2
<1>6. /\ RingTypeInv' /\ NothingLost' /\ QueueStep /\ head' = head
      /\ collected' = Cuts(nl, last)
  <2>1. CASE s <= last
    <3>1. PICK line : line = CutAt(nl, s, last)
      OBVIOUS
    <3>2. s \in 1 .. MaxBytes /\ last \in s .. MaxBytes /\ last - s + 1 <= LINE_CAPACITY
          /\ \A k \in s .. last - 1 : k \in s .. last
      BY <1>2, <1>3, <2>1, StdinAssumption
    <3>3. (s .. last - 1) \cap nl = {}
      BY <1>3, <3>2, Zenon
    <3>4. line \in Line /\ Cuts(nl, last) = Cuts(nl, s - 1) \cup {line}
      BY <1>2, <1>3, <3>1, <3>2, <3>3, CutLine, Zenon
    <3>5. queue_line(line)
      BY <2>1, <3>1 DEF EndInput, Stripped, CutAt
    <3>6. QED
      BY <1>1, <1>3, <1>4, <3>4, <3>5, QueueLine DEF callVars
  <2>2. CASE ~(s <= last)
    <3>1. UNCHANGED <<ringVars, collected>> /\ s - 1 = last
      BY <1>2, <2>2 DEF EndInput
    <3>2. Waiting' = Waiting
      BY <3>1, WaitingIsContent DEF ringVars
    <3>3. QED
      BY <1>1, <1>3, <1>4, <3>1, <3>2 DEF RingTypeInv, NothingLost, QueueStep, Abstract!vars,
         ringVars, callVars, Elements
  <2>3. QED
    BY <2>1, <2>2
<1>7. CutInv'
  <2>1. collected' = Reference(start - 1)'
    BY <1>1, <1>5, <1>6, CutsIsReference, Zenon
  <2>2. QED
    BY <1>1, <2>1 DEF CutInv
<1>8. QED
  BY <1>1, <1>5, <1>6, <1>7, CallersKept DEF StdinInv

\* A step that leaves the input, its cutting and the ring alone.
LEMMA RingKept ==
  ASSUME UNCHANGED <<lines, head, tail>>
  PROVE  Waiting' = Waiting /\ Elements(Waiting)' = Elements(Waiting)
<1>1. Waiting' = Waiting
  BY WaitingIsContent
<1>2. QED
  BY <1>1 DEF Elements

LEMMA CutKept ==
  ASSUME CutInv, UNCHANGED <<newlines, start, read, collected>>,
         thread' \in {"none", "reading"} <=> thread \in {"none", "reading"}
  PROVE  CutInv'
<1>1. (LineStart(start)' <=> LineStart(start)) /\ Reference(start - 1)' = Reference(start - 1)
  BY CutsIsReference, Zenon
<1>2. QED
  BY <1>1 DEF CutInv

LEMMA FinishStep ==
  ASSUME StdinInv, Finish
  PROVE  StdinInv' /\ QueueStep
<1>1. /\ thread \in {"eof", "error"} /\ eof' = (thread = "eof")
      /\ failed' = (failed \/ thread = "error") /\ finished' = TRUE /\ thread' = "returning"
      /\ UNCHANGED <<lines, head, tail, overflow, read, start, collected, callVars, newlines>>
  BY DEF Finish
<1>2. Waiting' = Waiting /\ Elements(Waiting)' = Elements(Waiting)
  BY <1>1, RingKept
<1>3. ~finished /\ ~eof /\ failed \in BOOLEAN
  BY <1>1 DEF StdinInv, StdinTypeInv, ThreadInv
<1>4. CutInv'
  BY <1>1, CutKept DEF StdinInv
<1>5. StdinTypeInv'
  BY <1>1 DEF StdinInv, StdinTypeInv, callVars
<1>6. ThreadInv' /\ JoinInv'
  BY <1>1, <1>3 DEF StdinInv, ThreadInv, JoinInv, callVars
<1>7. QueueInv'
  <2>1. ~failed' => ~failed
    BY <1>1, <1>3
  <2>2. \A c \in Callers : answer'[c] # "eof"
    BY <1>1, <1>3 DEF StdinInv, QueueInv, callVars
  <2>3. Elements(delivered)' = Elements(delivered)
    BY <1>1 DEF callVars, Elements
  <2>4. QED
    BY <1>1, <1>2, <2>1, <2>2, <2>3, Zenon DEF StdinInv, QueueInv
<1>8. QueueStep
  <2>1. failed' \in {failed, TRUE}
    BY Zenon, <1>1, <1>3
  <2>2. Abstract!End
    BY Zenon, <1>1, <1>2, <1>3, <2>1 DEF Abstract!End
  <2>3. QED
    BY <2>2 DEF QueueStep, Abstract!Next
<1>9. QED
  BY <1>4, <1>5, <1>6, <1>7, <1>8 DEF StdinInv

LEMMA ReturnStep ==
  ASSUME StdinInv, ThreadReturns
  PROVE  StdinInv' /\ QueueStep
<1>1. /\ thread = "returning" /\ thread' = "gone"
      /\ UNCHANGED <<ringVars, read, start, collected, eof, finished, callVars, newlines>>
  BY DEF ThreadReturns
<1>2. Waiting' = Waiting /\ Elements(Waiting)' = Elements(Waiting)
  BY <1>1, RingKept DEF ringVars
<1>3. CutInv'
  BY <1>1, CutKept DEF StdinInv
<1>4. StdinTypeInv' /\ ThreadInv' /\ JoinInv'
  BY <1>1 DEF StdinInv, StdinTypeInv, ThreadInv, JoinInv, callVars, ringVars
<1>5. QueueInv' /\ QueueStep
  BY <1>1, <1>2 DEF StdinInv, QueueInv, callVars, ringVars, QueueStep, Abstract!vars, Elements
<1>6. QED
  BY <1>3, <1>4, <1>5 DEF StdinInv

\* A call takes the first line, or finds none and tells why.
LEMMA CallStep ==
  ASSUME StdinInv, NEW c \in Callers, readstdin(c)
  PROVE  StdinInv' /\ QueueStep
<1>1. PICK created \in IF started THEN {TRUE} ELSE BOOLEAN :
        /\ thread' = IF ~started /\ created THEN "reading" ELSE thread
        /\ failed' = (failed \/ ~created)
        /\ joined' = (joined \/ ~created \/ MustJoin)
  BY Zenon DEF readstdin
<1>2. /\ at[c] = "idle" /\ started' = TRUE /\ TakeLine
      /\ answer' = [answer EXCEPT ![c] = Answer]
      /\ at' = [at EXCEPT ![c] = IF MustJoin THEN "joining" ELSE "idle"]
      /\ UNCHANGED <<tail, overflow, read, start, collected, eof, finished, joins, newlines>>
  BY DEF readstdin
<1>3. StdinTypeInv /\ ThreadInv /\ JoinInv /\ CutInv /\ QueueInv
  BY DEF StdinInv
<1>4. /\ created \in BOOLEAN /\ failed' \in BOOLEAN /\ joined' \in BOOLEAN
      /\ ~created => ~started /\ failed' = TRUE
      /\ created => failed' = failed
      /\ ~started => head = tail /\ thread = "none" /\ ~finished
      /\ MustJoin <=> ~joined /\ finished
  BY Zenon, <1>1, <1>3 DEF StdinTypeInv, ThreadInv, MustJoin
<1>5. thread' \in {"none", "reading"} <=> thread \in {"none", "reading"}
  BY <1>1, <1>4
<1>6. CutInv'
  BY <1>2, <1>3, <1>5, CutKept
<1>7. JoinInv'
  <2>1. CASE MustJoin
    <3>1. at' = [at EXCEPT ![c] = "joining"] /\ joined' /\ joins = 0
      BY <1>1, <1>2, <1>3, <1>4, <2>1 DEF JoinInv, StdinTypeInv
    <3>2. \A d \in Callers : at[d] # "joining"
      BY <1>3, <1>4, <2>1 DEF JoinInv
    <3>3. \A d \in Callers : at'[d] = "joining" => d = c
      BY <1>3, <3>1, <3>2 DEF StdinTypeInv
    <3>4. QED
      BY <1>2, <1>4, <2>1, <3>1, <3>3 DEF JoinInv
  <2>2. CASE ~MustJoin
    <3>1. at' = at /\ (joined => joined')
      BY <1>1, <1>2, <1>3, <2>2 DEF StdinTypeInv
    <3>2. thread = "gone" => thread' = "gone"
      BY <1>1, <1>4
    <3>3. QED
      BY <1>2, <1>3, <3>1, <3>2 DEF JoinInv
  <2>3. QED
    BY <2>1, <2>2
<1>8. answer'[c] = Answer /\ \A d \in Callers \ {c} : answer'[d] = answer[d]
  BY <1>2, <1>3 DEF StdinTypeInv
<1>9. /\ Answer \in {"line", "overflow", "error", "eof", "nothing"}
      /\ Answer = "eof" => head = tail /\ ~overflow /\ ~failed' /\ eof
  BY Zenon DEF Answer
<1>10. /\ answer' \in [Callers -> {"none", "line", "overflow", "error", "eof", "nothing", "raised"}]
       /\ at' \in [Callers -> {"idle", "joining"}]
  BY <1>2, <1>3, <1>9 DEF StdinTypeInv
<1>11. CASE head = tail
  <2>1. UNCHANGED <<delivered, lines, head, tail>>
    BY <1>2, <1>11 DEF TakeLine
  <2>2. Waiting' = Waiting /\ Elements(Waiting)' = Elements(Waiting)
    BY <2>1, RingKept
  <2>3. StdinTypeInv' /\ ThreadInv'
    BY <1>1, <1>2, <1>3, <1>4, <1>10, <2>1 DEF StdinTypeInv, ThreadInv
  <2>4. QueueInv'
    <3>1. (~failed /\ ~overflow => collected = Elements(delivered) \cup Elements(Waiting))'
      BY <1>2, <1>3, <1>4, <2>1, <2>2 DEF QueueInv, Elements
    <3>2. ASSUME NEW d \in Callers, answer'[d] = "eof"
          PROVE  eof' /\ ~failed' /\ ~overflow' /\ head' = tail'
      <4>1. CASE d = c
        BY <1>2, <1>8, <1>9, <1>11, <2>1, <3>2, <4>1
      <4>2. CASE d # c
        <5>1. eof /\ ~failed /\ ~overflow
          BY <1>3, <1>8, <3>2, <4>2 DEF QueueInv
        <5>2. created
          BY <1>3, <1>4, <5>1 DEF ThreadInv
        <5>3. QED
          BY <1>2, <1>4, <1>11, <2>1, <5>1, <5>2
      <4>3. QED
        BY <4>1, <4>2
    <3>3. QED
      BY <3>1, <3>2 DEF QueueInv
  <2>5. QueueStep
    <3>1. CASE created
      BY <1>2, <1>4, <2>2, <3>1 DEF QueueStep, Abstract!vars
    <3>2. CASE ~created
      <4>1. Abstract!Fail
        BY <1>2, <1>4, <2>2, <3>2 DEF Abstract!Fail
      <4>2. QED
        BY <4>1 DEF QueueStep, Abstract!Next
    <3>3. QED
      BY <3>1, <3>2
  <2>6. QED
    BY <1>6, <1>7, <2>3, <2>4, <2>5 DEF StdinInv
<1>12. CASE head # tail
  <2>1. /\ delivered' = Append(delivered, lines[head]) /\ lines' = Placed(lines, head, NULL)
        /\ head' = After(head)
    BY <1>2, <1>12 DEF TakeLine, Placed, After
  <2>2. started /\ created /\ failed' = failed /\ thread' = thread /\ thread # "none"
    BY <1>1, <1>3, <1>4, <1>12 DEF ThreadInv
  <2>3. lines \in [Index -> Place] /\ head \in Index /\ tail \in Index /\ delivered \in Seq(Place)
    BY <1>3 DEF StdinTypeInv
  <2>4. /\ After(head) \in Index /\ Placed(lines, head, NULL) \in [Index -> Place]
        /\ Content(lines, head, tail) \in Seq(Place) /\ Content(lines, head, tail) # << >>
        /\ Head(Content(lines, head, tail)) = lines[head]
        /\ Content(Placed(lines, head, NULL), After(head), tail) = Tail(Content(lines, head, tail))
    BY ONLY <1>12, <2>3, RingGet
  <2>5. /\ Waiting \in Seq(Place) /\ Waiting # << >> /\ Head(Waiting) = lines[head]
        /\ Waiting' = Tail(Waiting)
    BY <1>2, <2>1, <2>4, WaitingIsContent, Zenon
  <2>6. /\ lines[head] \in Place
        /\ Elements(Waiting) = {lines[head]} \cup Elements(Tail(Waiting))
    BY <2>5, ElementsTail
  <2>7. /\ Append(delivered, lines[head]) \in Seq(Place)
        /\ Elements(Append(delivered, lines[head])) = Elements(delivered) \cup {lines[head]}
    BY <2>3, <2>6, ElementsAppend
  <2>8. Elements(delivered)' \cup Elements(Waiting)' = Elements(delivered) \cup Elements(Waiting)
    <3>1. Elements(delivered)' = Elements(Append(delivered, lines[head]))
      BY <2>1 DEF Elements
    <3>2. Elements(Waiting)' = Elements(Tail(Waiting))
      BY <2>5 DEF Elements
    <3>3. QED
      BY <2>6, <2>7, <3>1, <3>2
  <2>9. StdinTypeInv' /\ ThreadInv'
    BY <1>1, <1>2, <1>3, <1>4, <1>10, <2>1, <2>2, <2>4, <2>7 DEF StdinTypeInv, ThreadInv
  <2>10. QueueInv'
    <3>1. (~failed /\ ~overflow => collected = Elements(delivered) \cup Elements(Waiting))'
      BY <1>2, <1>3, <2>2, <2>8 DEF QueueInv
    <3>2. \A d \in Callers : answer'[d] # "eof"
      BY <1>3, <1>8, <1>9, <1>12 DEF QueueInv
    <3>3. QED
      BY <3>1, <3>2 DEF QueueInv
  <2>11. Abstract!Get
    BY <1>2, <2>2, <2>5 DEF Abstract!Get
  <2>12. QED
    BY <1>6, <1>7, <2>9, <2>10, <2>11 DEF StdinInv, QueueStep, Abstract!Next
<1>13. QED
  BY <1>11, <1>12

LEMMA JoinStep ==
  ASSUME StdinInv, NEW c \in Callers, JoinThread(c) \/ Raise(c)
  PROVE  StdinInv' /\ QueueStep
<1>1. UNCHANGED <<ringVars, threadVars, started, joined, delivered, newlines>>
  BY DEF JoinThread, Raise
<1>2. Waiting' = Waiting /\ Elements(Waiting)' = Elements(Waiting)
  BY <1>1, RingKept DEF ringVars
<1>3. CutInv'
  BY <1>1, CutKept DEF StdinInv, threadVars
<1>4. ThreadInv' /\ QueueStep
  BY <1>1, <1>2 DEF StdinInv, ThreadInv, QueueStep, Abstract!vars, ringVars, threadVars
<1>5. StdinTypeInv'
  BY <1>1 DEF StdinInv, StdinTypeInv, JoinThread, Raise, ringVars, threadVars
<1>6. JoinInv'
  <2>1. CASE JoinThread(c)
    <3>1. /\ at[c] = "joining" /\ thread = "gone" /\ joins' = joins + 1
          /\ at' = [at EXCEPT ![c] = "idle"]
      BY <2>1 DEF JoinThread
    <3>2. joins = 0 /\ joined /\ \A d \in Callers : at[d] = "joining" => d = c
      BY <3>1 DEF StdinInv, JoinInv
    <3>3. \A d \in Callers : at'[d] # "joining"
      BY <3>1, <3>2 DEF StdinInv, StdinTypeInv
    <3>4. QED
      BY <1>1, <3>1, <3>2, <3>3 DEF JoinInv, threadVars
  <2>2. CASE Raise(c)
    BY <1>1, <2>2 DEF StdinInv, JoinInv, Raise, threadVars
  <2>3. QED
    BY <2>1, <2>2
<1>7. QueueInv'
  <2>1. \A d \in Callers : answer'[d] = "eof" => answer[d] = "eof"
    BY DEF StdinInv, StdinTypeInv, JoinThread, Raise
  <2>2. QED
    BY Zenon, <1>1, <1>2, <2>1 DEF StdinInv, QueueInv, ringVars, threadVars, Elements
<1>8. QED
  BY <1>3, <1>4, <1>5, <1>6, <1>7 DEF StdinInv

LEMMA StdinInit ==
  ASSUME Init
  PROVE  StdinInv /\ Abstract!Init
<1> USE StdinAssumption DEF Init
<1>1. StdinTypeInv
  <2>1. lines \in [Index -> Place]
    BY Zenon DEF Index, Place
  <2>2. /\ at \in [Callers -> {"idle", "joining"}]
        /\ answer \in [Callers -> {"none", "line", "overflow", "error", "eof", "nothing", "raised"}]
    BY Zenon
  <2>3. head \in Index /\ tail \in Index /\ read \in 0 .. MaxBytes /\ start \in 1 .. read + 1
    BY DEF Index
  <2>4. delivered \in Seq(Place)
    OBVIOUS
  <2>5. QED
    BY Zenon, <2>1, <2>2, <2>3, <2>4 DEF StdinTypeInv
<1>2. Waiting = << >>
  <2>1. lines \in [Index -> Place] /\ head \in Index /\ head = tail
    BY <1>1 DEF StdinTypeInv
  <2>2. QED
    BY <2>1, RingEmpty, WaitingIsContent
<1>3. ThreadInv /\ JoinInv
  BY DEF ThreadInv, JoinInv
<1>4. CutInv
  <2>1. StartsAt(newlines, 1)
    <3>1. 0 < 1 /\ (0 + 1 .. 1 - 1) \cap newlines = {} /\ 1 - 1 - 0 = 0
      OBVIOUS
    <3>2. 0 % LINE_CAPACITY = 0
      OBVIOUS
    <3>3. QED
      BY <3>1, <3>2, Zenon DEF StartsAt
  <2>2. start = 1 /\ start - 1 = 0 /\ collected = {} /\ read = 0 /\ thread = "none"
    OBVIOUS
  <2>3. LineStart(start) /\ collected = Reference(start - 1)
    BY <2>1, <2>2, CutsIsReference, NoLines, Zenon
  <2>4. (start .. read) \cap newlines = {} /\ read - start + 1 < LINE_CAPACITY
    BY <2>2
  <2>5. QED
    BY <2>2, <2>3, <2>4 DEF CutInv
<1>5. QueueInv
  BY <1>2 DEF QueueInv, Elements
<1>6. Abstract!Init
  BY <1>2 DEF Abstract!Init
<1>7. QED
  BY <1>1, <1>3, <1>4, <1>5, <1>6 DEF StdinInv

LEMMA StdinNext ==
  ASSUME StdinInv, [Next]_vars
  PROVE  StdinInv' /\ QueueStep
<1>1. CASE UNCHANGED vars
  <2>1. Waiting' = Waiting /\ Elements(Waiting)' = Elements(Waiting)
    BY <1>1, RingKept DEF vars, ringVars
  <2>2. CutInv'
    BY <1>1, CutKept DEF StdinInv, vars, threadVars
  <2>3. StdinTypeInv' /\ ThreadInv' /\ JoinInv'
    BY <1>1 DEF StdinInv, StdinTypeInv, ThreadInv, JoinInv, vars, ringVars, threadVars, callVars
  <2>4. QueueInv' /\ QueueStep
    BY Zenon, <1>1, <2>1 DEF StdinInv, QueueInv, vars, ringVars, threadVars, callVars, QueueStep,
       Abstract!vars, Elements
  <2>5. QED
    BY <2>2, <2>3, <2>4 DEF StdinInv
<1>2. QED
  BY <1>1, ReadByteStep, EndInputStep, FinishStep, ReturnStep, CallStep, JoinStep DEF Next

\* The inductive invariant holds in every reachable state.
THEOREM StdinCorrect == Spec => []StdinInv
<1>1. Init => StdinInv
  BY StdinInit
<1>2. StdinInv /\ [Next]_vars => StdinInv'
  BY StdinNext
<1>3. QED
  BY <1>1, <1>2, PTL DEF Spec

\* The ring with its two indices and flags is a bounded queue of lines, whatever its size:
\* lines come out in order and are dropped only when it is full (queue_line, readstdin).
THEOREM RingImplementsQueue == Spec => RingIsLineQueue
<1>1. Init => Abstract!Init
  BY StdinInit
<1>2. StdinInv /\ [Next]_vars => [Abstract!Next]_(Abstract!vars)
  BY StdinNext DEF QueueStep
<1>3. QED
  BY <1>1, <1>2, StdinCorrect, PTL DEF Spec, RingIsLineQueue, Abstract!Spec

\* read_input cuts every input as the reference says, whatever the size of its buffer.
THEOREM InputIsCut == Spec => []CutAsReference
<1>1. StdinInv => CutAsReference
  BY DEF StdinInv, CutInv, CutAsReference
<1>2. QED
  BY <1>1, StdinCorrect, PTL

\* A caller that is told "eof" will see no further line, and every line of the input was
\* returned to some caller (skyuv_client_readstdin).
THEOREM EofComesLast == Spec => []EofIsFinal
<1>1. StdinInv => EofIsFinal
  <2> SUFFICES ASSUME StdinInv, NEW c \in Callers, answer[c] = "eof"
               PROVE  /\ head = tail /\ thread \in {"returning", "gone"}
                      /\ {delivered[i] : i \in 1 .. Len(delivered)} = Reference(read)
    BY DEF EofIsFinal
  <2>1. head = tail /\ ~failed /\ ~overflow /\ thread \in {"returning", "gone"}
    BY DEF StdinInv, QueueInv, ThreadInv
  <2>2. Waiting = << >>
    <3>1. lines \in [Index -> Place] /\ head \in Index
      BY DEF StdinInv, StdinTypeInv
    <3>2. QED
      BY <2>1, <3>1, RingEmpty, WaitingIsContent
  <2>3. Elements(delivered) = collected
    BY <2>1, <2>2 DEF StdinInv, QueueInv, Elements
  <2>4. start = read + 1 /\ start - 1 = read
    BY <2>1 DEF StdinInv, CutInv, StdinTypeInv
  <2>5. QED
    BY <2>1, <2>3, <2>4, Zenon DEF StdinInv, CutInv, Elements
<1>2. QED
  BY <1>1, StdinCorrect, PTL

\* However many callers see that the thread has finished, one of them joins it, once.
THEOREM ThreadJoinedOnce == Spec => []JoinedOnce
<1>1. StdinInv => JoinedOnce
  BY DEF StdinInv, StdinTypeInv, JoinInv, JoinedOnce
<1>2. QED
  BY <1>1, StdinCorrect, PTL
=============================================================================
