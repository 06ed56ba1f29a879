------------------------ MODULE WorkerProcessProofs ------------------------
(***************************************************************************)
(* Theorems about WorkerProcess for every value of its constants: any      *)
(* number of bytes, any retention cap, any number of commands and of       *)
(* processes the child leaves behind, with or without cancellation.        *)
(*                                                                         *)
(* A stream is the bytes 1, 2, 3, ...; what was read of it, kept of it or  *)
(* spooled of it is a stretch Bytes(a, b) of these, so that retention and  *)
(* redaction become statements about the ends of stretches.                *)
(***************************************************************************)
EXTENDS WorkerProcess, SequenceTheorems, TLAPS

\* The bytes after a, up to b.
Bytes(a, b) == [i \in 1 .. b - a |-> a + i]

\* SubSeq, which the SMT solver otherwise expands wherever it meets it.
Part(s, i, j) == SubSeq(s, i, j)

Lesser(m, n) == IF m < n THEN m ELSE n

\* How many of n bytes a head of h bytes still takes.
Room(n, h) == IF n < Cap - h THEN n ELSE Cap - h

Capture ==
  [ total   : Nat,
    head    : Seq(Nat),
    tail    : Seq(Nat),
    pending : Seq(Nat),
    spool   : Seq(Nat),
    spooled : BOOLEAN ]

Exit == { "none", "zero", "nonzero", "signal" }

Result ==
  [ exit       : Exit,
    timed_out  : BOOLEAN,
    sigkill    : BOOLEAN,
    passed     : BOOLEAN,
    structured : Seq(Nat) ]

JournalRow ==
  [ sequence : Nat,
    event    : { "spawn_attempt", "spawn_refused", "completion" } ]

CallState ==
  [ kind      : { "worker", "validation" },
    pc        : PC,
    timed_out : BOOLEAN,
    sigkill   : BOOLEAN,
    known     : BOOLEAN ]

Leader ==
  [ state    : { "none", "running", "zombie", "reaped" },
    stubborn : BOOLEAN,
    exit     : Exit,
    hit      : BOOLEAN ]

Types ==
  /\ call \in CallState
  /\ leader \in Leader
  /\ pipe \in [Stream -> [written : Nat, read : Nat]]
  /\ capture \in [Stream -> Capture]
  /\ journal \in Seq(JournalRow)
  /\ results \in Seq(Result)

\* A child lives while it is waited for, while its on_spawn runs or refuses
\* it, and after a cancellation.
ChildPlaced ==
  Running => call.pc \in { "on_spawn", "refuse_grace", "wait", "grace", "cancelled" }

\* A child that was signalled before its verdict was timed out.
SignalsTold ==
  /\ call.pc \in { "grace", "reap" } => call.timed_out
  /\ call.pc \in { "spawning", "on_spawn", "wait", "grace", "reap", "drain", "finish" }
       => (leader.hit => call.timed_out)

\* Where a command has its first row.
Announced == { "spawning", "finish" } \cup Awaits

\* Between its attempt and its completion a command has its first row; only a
\* worker has an on_spawn.
AttemptJournalled ==
  ~ Worker => /\ call.pc \in Announced => Contains(journal, Row("spawn_attempt"))
              /\ call.pc # "on_spawn"

ResultsJournalled ==
  ~ Worker => \A i \in 1 .. Len(results) :
    \E event \in { "completion", "spawn_refused" } :
      Contains(journal, [sequence |-> i, event |-> event])

\* Where stderr is still cut at a newline: no capture was closed yet.
Open == { "spawning", "on_spawn" } \cup Awaits

\* What a capture keeps are the ends of what was read.
EndsKept(c) ==
  /\ c.head = Bytes(0, Lesser(c.total, Cap))
  /\ c.tail = Bytes(c.total - Lesser(c.total, Cap), c.total)

\* What it spools is a first stretch of what was read, and the rest waits.
SpoolFits(s, c) ==
  c.spooled => /\ Len(c.spool) <= c.total
               /\ c.spool = Bytes(0, Len(c.spool))
               /\ c.pending = Bytes(Len(c.spool), c.total)
               /\ s = "stdout" => Len(c.spool) = c.total

\* Stderr is cut at a newline.
CutAtLine(c) == c.spooled => Len(c.spool) = 0 \/ Newline(Len(c.spool))

CapturesFit ==
  /\ \A s \in Stream : /\ pipe[s].read = capture[s].total
                       /\ EndsKept(capture[s])
                       /\ SpoolFits(s, capture[s])
  /\ call.pc \in Open => CutAtLine(capture["stderr"])

\* The one result of a worker's call.
WorkerResult ==
  Worker =>
    IF call.pc = "returned"
      THEN /\ Len(results) = 1
           /\ \/ capture["stdout"].total = 0
              \/ results[1].structured = Structured(capture["stdout"])
      ELSE /\ results = << >>
           /\ call.pc = "spawning" => capture["stdout"].total = 0

IInv == /\ Types
        /\ ChildPlaced
        /\ SignalsTold
        /\ AttemptJournalled
        /\ ResultsJournalled
        /\ CapturesFit
        /\ WorkerResult
-----------------------------------------------------------------------------
(* Stretches *)

\* A stretch is a sequence of as many bytes as its ends are apart.
LEMMA BytesAreSeq ==
  ASSUME NEW a \in Nat, NEW b \in Nat, a <= b
  PROVE  /\ Bytes(a, b) \in Seq(Nat)
         /\ Len(Bytes(a, b)) = b - a
         /\ \A i \in 1 .. b - a : Bytes(a, b)[i] = a + i
<1>1. \A i \in 1 .. b - a : a + i \in Nat
  OBVIOUS
<1>2. b - a \in Nat
  OBVIOUS
<1>3. Bytes(a, b) \in [1 .. b - a -> Nat]
  BY <1>1 DEF Bytes
<1> QED
  BY <1>2, <1>3 DEF Bytes

\* Stretches that meet join.
LEMMA BytesJoin ==
  ASSUME NEW a \in Nat, NEW b \in Nat, NEW c \in Nat, a <= b, b <= c
  PROVE  Bytes(a, b) \o Bytes(b, c) = Bytes(a, c)
<1>1. PICK s \in Seq(Nat) : /\ s = Bytes(a, b)
                            /\ Len(s) = b - a
                            /\ \A i \in 1 .. b - a : s[i] = a + i
  BY BytesAreSeq
<1>2. PICK t \in Seq(Nat) : /\ t = Bytes(b, c)
                            /\ Len(t) = c - b
                            /\ \A i \in 1 .. c - b : t[i] = b + i
  BY BytesAreSeq
<1>9. a <= c
  OBVIOUS
<1>3. PICK u \in Seq(Nat) : /\ u = Bytes(a, c)
                            /\ Len(u) = c - a
                            /\ \A i \in 1 .. c - a : u[i] = a + i
  BY <1>9, BytesAreSeq
<1>4. /\ s \o t \in Seq(Nat)
      /\ Len(s \o t) = Len(s) + Len(t)
      /\ \A i \in 1 .. Len(s) + Len(t) :
           (s \o t)[i] = IF i <= Len(s) THEN s[i] ELSE t[i - Len(s)]
  BY ConcatProperties, Zenon
<1>5. PICK v \in Seq(Nat) :
        /\ v = s \o t
        /\ Len(v) = Len(s) + Len(t)
        /\ \A i \in 1 .. Len(s) + Len(t) :
             v[i] = IF i <= Len(s) THEN s[i] ELSE t[i - Len(s)]
  BY <1>4, Zenon
<1>6. Len(v) = c - a /\ Len(v) = Len(u)
  BY <1>1, <1>2, <1>3, <1>5
<1>7. ASSUME NEW i \in 1 .. Len(v)
      PROVE  v[i] = u[i]
  <2>1. i \in 1 .. c - a
    BY <1>6
  <2>2. u[i] = a + i
    BY <2>1, <1>3
  <2>3. CASE i <= b - a
    BY <2>1, <2>2, <2>3, <1>1, <1>5, <1>6
  <2>4. CASE i > b - a
    <3>1. i - (b - a) \in 1 .. c - b
      BY <2>1, <2>4
    <3>2. t[i - (b - a)] = b + (i - (b - a))
      BY <3>1, <1>2
    <3>3. v[i] = IF i <= Len(s) THEN s[i] ELSE t[i - Len(s)]
      BY <2>1, <1>5, <1>6
    <3>4. v[i] = t[i - (b - a)]
      BY <3>3, <2>1, <2>4, <1>1
    <3> QED
      BY <3>2, <3>4, <2>1, <2>2
  <2> QED
    BY <2>3, <2>4
<1>8. v = u
  BY <1>6, <1>7, SeqEqual, Zenon
<1> QED
  BY <1>1, <1>2, <1>3, <1>5, <1>8, Zenon

\* A part of a stretch is a stretch.
LEMMA BytesPart ==
  \A a, b, i, j, x, y \in Nat :
    a <= b /\ 1 <= i /\ i <= j + 1 /\ j <= b - a /\ x = a + i - 1 /\ y = a + j
      => Part(Bytes(a, b), i, j) = Bytes(x, y)
<1> SUFFICES ASSUME NEW a \in Nat, NEW b \in Nat, a <= b,
                    NEW i \in Nat, NEW j \in Nat, 1 <= i, i <= j + 1, j <= b - a,
                    NEW x \in Nat, NEW y \in Nat, x = a + i - 1, y = a + j
             PROVE  Part(Bytes(a, b), i, j) = Bytes(x, y)
  OBVIOUS
<1>1. PICK s \in Seq(Nat) : /\ s = Bytes(a, b)
                            /\ Len(s) = b - a
                            /\ \A k \in 1 .. b - a : s[k] = a + k
  BY BytesAreSeq
<1>2. x = a + i - 1 /\ y = a + j /\ x <= y
  OBVIOUS
<1>3. PICK t \in Seq(Nat) : /\ t = Bytes(x, y)
                            /\ Len(t) = y - x
                            /\ \A k \in 1 .. y - x : t[k] = x + k
  BY <1>2, BytesAreSeq
<1>4. \A k \in i .. j : s[k] \in Nat
  <2> TAKE k \in i .. j
  <2>1. k \in 1 .. b - a
    OBVIOUS
  <2> QED
    BY <2>1, <1>1
<1>5. i \in Int /\ j \in Int
  OBVIOUS
<1>6. /\ SubSeq(s, i, j) \in Seq(Nat)
      /\ Len(SubSeq(s, i, j)) = IF i <= j THEN j - i + 1 ELSE 0
      /\ \A k \in 1 .. j - i + 1 : SubSeq(s, i, j)[k] = s[i + k - 1]
  <2>1. SubSeq(s, i, j) \in Seq(Nat)
    BY <1>4, <1>5, SubSeqProperties
  <2>2. Len(SubSeq(s, i, j)) = IF i <= j THEN j - i + 1 ELSE 0
    BY <1>4, <1>5, SubSeqProperties
  <2>3. \A k \in 1 .. j - i + 1 : SubSeq(s, i, j)[k] = s[i + k - 1]
    BY <1>4, <1>5, SubSeqProperties
  <2> QED
    BY <2>1, <2>2, <2>3
<1>7. PICK v \in Seq(Nat) :
        /\ v = SubSeq(s, i, j)
        /\ Len(v) = IF i <= j THEN j - i + 1 ELSE 0
        /\ \A k \in 1 .. j - i + 1 : v[k] = s[i + k - 1]
  BY <1>6, Zenon
<1>8. Len(v) = j - i + 1 /\ Len(v) = Len(t) /\ y - x = Len(v)
  BY <1>2, <1>3, <1>7
<1>9. ASSUME NEW k \in 1 .. Len(v)
      PROVE  v[k] = t[k]
  <2>1. k \in 1 .. y - x /\ k \in 1 .. j - i + 1 /\ i + k - 1 \in 1 .. b - a
    BY <1>2, <1>8
  <2>2. t[k] = x + k
    BY <2>1, <1>3
  <2>3. v[k] = s[i + k - 1]
    BY <2>1, <1>7
  <2>4. s[i + k - 1] = a + (i + k - 1)
    BY <2>1, <1>1
  <2> QED
    BY <2>1, <2>2, <2>3, <2>4, <1>2
<1>10. v = t
  BY <1>8, <1>9, SeqEqual, Zenon
<1> QED
  BY <1>1, <1>2, <1>3, <1>7, <1>10, Zenon DEF Part

\* A stretch that ends where it begins is empty.
LEMMA BytesNone ==
  ASSUME NEW t \in Nat
  PROVE  Bytes(t, t) = << >>
<1>1. t <= t /\ t - t = 0
  OBVIOUS
<1>2. Bytes(t, t) \in Seq(Nat) /\ Len(Bytes(t, t)) = 0
  BY <1>1, BytesAreSeq
<1> QED
  BY <1>2, EmptySeq

\* The last bytes of a stretch.
LEMMA BytesLast ==
  ASSUME NEW a \in Nat, NEW b \in Nat, a <= b, NEW n \in Nat
  PROVE  LastBytes(Bytes(a, b), n) = Bytes(b - Lesser(b - a, n), b)
<1>1. Len(Bytes(a, b)) = b - a
  BY BytesAreSeq
<1>2. CASE b - a > n
  <2>1. PICK i \in Nat, j \in Nat, x \in Nat :
          /\ i = b - a - n + 1 /\ j = b - a /\ x = b - n
          /\ 1 <= i /\ i <= j + 1 /\ j <= b - a
          /\ x = a + i - 1 /\ b = a + j
    BY <1>2
  <2>2. Part(Bytes(a, b), i, j) = Bytes(x, b)
    BY <2>1, BytesPart
  <2>3. LastBytes(Bytes(a, b), n) = SubSeq(Bytes(a, b), i, j)
    BY <1>1, <1>2, <2>1 DEF LastBytes
  <2>4. x = b - Lesser(b - a, n)
    BY <1>2, <2>1 DEF Lesser
  <2> QED
    BY <2>2, <2>3, <2>4, Zenon DEF Part
<1>3. CASE ~ b - a > n
  <2>1. PICK i \in Nat, j \in Nat :
          /\ i = 1 /\ j = b - a
          /\ 1 <= i /\ i <= j + 1 /\ j <= b - a
          /\ a = a + i - 1 /\ b = a + j
    OBVIOUS
  <2>2. Part(Bytes(a, b), i, j) = Bytes(a, b)
    BY <2>1, BytesPart
  <2>3. LastBytes(Bytes(a, b), n) = SubSeq(Bytes(a, b), i, j)
    BY <1>1, <1>3, <2>1 DEF LastBytes
  <2>4. a = b - Lesser(b - a, n)
    BY <1>3 DEF Lesser
  <2> QED
    BY <2>2, <2>3, <2>4, Zenon DEF Part
<1> QED
  BY <1>2, <1>3

\* The cut of a stretch is none or at its last newline.
LEMMA LineCutBytes ==
  ASSUME NEW a \in Nat, NEW b \in Nat, a <= b
  PROVE  /\ LineCut(Bytes(a, b)) \in 0 .. b - a
         /\ LineCut(Bytes(a, b)) # 0 => Newline(a + LineCut(Bytes(a, b)))
<1> DEFINE ends == { i \in 1 .. b - a : Newline(a + i) }
<1>1. PICK s \in Seq(Nat) : /\ s = Bytes(a, b)
                            /\ Len(s) = b - a
                            /\ \A i \in 1 .. b - a : s[i] = a + i
  BY BytesAreSeq
<1>2. { i \in 1 .. Len(s) : Newline(s[i]) } = ends
  BY <1>1
<1>3. LineCut(s) = IF ends = {} THEN 0 ELSE CHOOSE i \in ends : \A j \in ends : j <= i
  <2> DEFINE found == { i \in 1 .. Len(s) : Newline(s[i]) }
             latest(S) == IF S = {} THEN 0 ELSE CHOOSE i \in S : \A j \in S : j <= i
  <2>1. LineCut(s) = latest(found)
    BY DEF LineCut
  <2>2. found = ends
    BY <1>2
  <2>3. latest(found) = latest(ends)
    <3> HIDE DEF found, ends, latest
    <3> QED
      BY <2>2
  <2> QED
    BY <2>1, <2>3
<1>4. CASE ends = {}
  BY <1>1, <1>3, <1>4
<1>5. CASE ends # {}
  <2>1. PICK last \in ends : \A j \in ends : j <= last
    <3>1. CASE Newline(b)
      <4>1. b - a \in ends
        <5>1. PICK k \in ends : TRUE
          BY <1>5
        <5>2. b - a \in 1 .. b - a /\ a + (b - a) = b
          BY <5>1
        <5> QED
          BY <3>1, <5>2
      <4>2. \A j \in 1 .. b - a : j <= b - a
        OBVIOUS
      <4>3. \A j \in ends : j \in 1 .. b - a
        OBVIOUS
      <4> HIDE DEF ends
      <4> QED
        BY <4>1, <4>2, <4>3, Zenon
    <3>2. CASE ~ Newline(b)
      <4>1. PICK k \in ends : TRUE
        BY <1>5
      <4>2. k # b - a
        BY <3>2, <4>1
      <4>3. b - a - 1 \in 1 .. b - a /\ a + (b - a - 1) = b - 1
        BY <4>1, <4>2
      <4>4. Newline(b - 1)
        BY <3>2 DEF Newline
      <4>5. b - a - 1 \in ends
        BY <4>3, <4>4
      <4>6. \A j \in ends : j <= b - a - 1
        BY <3>2, <4>3
      <4> HIDE DEF ends
      <4> QED
        BY <4>5, <4>6, Zenon
    <3> QED
      BY <3>1, <3>2
  <2>2. (CHOOSE i \in ends : \A j \in ends : j <= i) \in ends
    BY <2>1
  <2>3. LineCut(s) \in ends
    BY <1>3, <1>5, <2>2
  <2> QED
    BY <1>1, <2>3
<1> QED
  BY <1>4, <1>5

\* p is the n elements of s after the k-th.
IsPart(p, s, k, n) ==
  /\ p \in Seq(Nat)
  /\ Len(p) = n
  /\ \A i \in 1 .. n : p[i] = s[k + i]

\* SubSeq, element by element.
LEMMA SubSeqOf ==
  ASSUME NEW s \in Seq(Nat), NEW k \in Nat, NEW n \in Nat, k + n <= Len(s),
         NEW from, NEW to, from = k + 1, to = k + n
  PROVE  IsPart(Part(s, from, to), s, k, n)
<1>1. k + 1 \in Int /\ k + n \in Int /\ Len(s) \in Nat
  OBVIOUS
<1>2. \A i \in k + 1 .. k + n : s[i] \in Nat
  <2> TAKE i \in k + 1 .. k + n
  <2>1. i \in 1 .. Len(s)
    BY <1>1
  <2> QED
    BY <2>1, ElementOfSeq, Zenon
<1>3. SubSeq(s, k + 1, k + n) \in Seq(Nat)
  BY <1>1, <1>2, SubSeqProperties
<1>4. Len(SubSeq(s, k + 1, k + n)) = n
  BY <1>1, <1>2, SubSeqProperties
<1>5. \A i \in 1 .. n : SubSeq(s, k + 1, k + n)[i] = s[k + i]
  BY <1>1, <1>2, SubSeqProperties
<1> QED
  BY <1>3, <1>4, <1>5, Zenon DEF Part, IsPart

\* Of two sequences of one length joined, the first and the last so many
\* elements are the two again.
LEMMA JoinEnds ==
  ASSUME NEW head \in Seq(Nat), NEW tail \in Seq(Nat), NEW m \in Nat, m # 0,
         Len(head) = m, Len(tail) = m
  PROVE  /\ Len(head \o tail) = m + m
         /\ SubSeq(head \o tail, 1, m) = head
         /\ LastBytes(head \o tail, m) = tail
<1>1. PICK both \in Seq(Nat) :
        /\ both = head \o tail
        /\ Len(both) = Len(head) + Len(tail)
        /\ \A i \in 1 .. Len(head) + Len(tail) :
             both[i] = IF i <= Len(head) THEN head[i] ELSE tail[i - Len(head)]
  <2>1. /\ head \o tail \in Seq(Nat)
        /\ Len(head \o tail) = Len(head) + Len(tail)
        /\ \A i \in 1 .. Len(head) + Len(tail) :
             (head \o tail)[i] = IF i <= Len(head) THEN head[i] ELSE tail[i - Len(head)]
    BY ConcatProperties, Zenon
  <2> QED
    BY <2>1, Zenon
<1>2. /\ Len(both) = m + m
      /\ \A i \in 1 .. m + m : both[i] = IF i <= m THEN head[i] ELSE tail[i - m]
  BY <1>1
<1>3. SubSeq(both, 1, m) = head
  <2>1. PICK zero \in Nat, from \in Nat, to \in Nat :
          zero + m <= Len(both) /\ from = zero + 1 /\ to = zero + m /\ from = 1 /\ to = m /\ zero = 0
    BY <1>2
  <2>2. PICK part \in Seq(Nat) : /\ part = Part(both, from, to)
                                 /\ Len(part) = m
                                 /\ \A i \in 1 .. m : part[i] = both[zero + i]
    <3>1. IsPart(Part(both, from, to), both, zero, m)
      <4>1. zero + m <= Len(both) /\ from = zero + 1 /\ to = zero + m
        BY <2>1
      <4> QED
        BY <4>1, SubSeqOf
    <3> QED
      BY <3>1, Zenon DEF IsPart
  <2>3. ASSUME NEW i \in 1 .. Len(part)
        PROVE  part[i] = head[i]
    <3>1. i \in 1 .. m /\ i \in 1 .. m + m /\ i <= m /\ zero + i = i
      BY <2>1, <2>2
    <3>2. part[i] = both[i]
      BY <2>2, <3>1
    <3>3. both[i] = head[i]
      BY <1>2, <3>1
    <3> QED
      BY <3>2, <3>3
  <2>4. part = head
    BY <2>2, <2>3, SeqEqual, Zenon
  <2> QED
    BY <2>1, <2>2, <2>4, Zenon DEF Part
<1>4. LastBytes(both, m) = tail
  <2>1. PICK from \in Nat, to \in Nat :
          /\ from = IF Len(both) > m THEN Len(both) - m + 1 ELSE 1
          /\ to = Len(both)
    BY <1>2
  <2>2. LastBytes(both, m) = Part(both, from, to)
    BY <2>1, Zenon DEF LastBytes, Part
  <2>3. m + m <= Len(both) /\ from = m + 1 /\ to = m + m
    BY <2>1, <1>2
  <2>4. PICK part \in Seq(Nat) : /\ part = Part(both, from, to)
                                 /\ Len(part) = m
                                 /\ \A i \in 1 .. m : part[i] = both[m + i]
    <3>1. IsPart(Part(both, from, to), both, m, m)
      BY <2>3, SubSeqOf
    <3> QED
      BY <3>1, Zenon DEF IsPart
  <2>5. ASSUME NEW i \in 1 .. Len(part)
        PROVE  part[i] = tail[i]
    <3>1. i \in 1 .. m /\ m + i \in 1 .. m + m /\ ~ m + i <= m /\ (m + i) - m = i
      BY <2>4
    <3>2. part[i] = both[m + i]
      BY <2>4, <3>1
    <3>3. both[m + i] = tail[(m + i) - m]
      BY <1>2, <3>1
    <3> QED
      BY <3>1, <3>2, <3>3
  <2>6. part = tail
    BY <2>4, <2>5, SeqEqual, Zenon
  <2> QED
    BY <2>2, <2>4, <2>6, Zenon
<1> QED
  BY <1>1, <1>2, <1>3, <1>4, Zenon

\* The first bytes of a stream are a prefix of it.
LEMMA PrefixBytes ==
  ASSUME NEW k \in Nat, NEW t \in Nat, k <= t
  PROVE  IsPrefix(Bytes(0, k), Bytes(0, t))
<1>1. PICK z \in Nat : z = 0
  OBVIOUS
<1>2. z <= k /\ k - z = k /\ z <= t /\ t - z = t /\ 1 \in Nat /\ 1 <= 1 /\ 1 <= k + 1
      /\ k <= k - z /\ k <= t - z /\ z = z + 1 - 1 /\ k = z + k
  BY <1>1
<1>3. Len(Bytes(z, k)) = k /\ Len(Bytes(z, t)) = t
  BY <1>2, BytesAreSeq
<1>4. Part(Bytes(z, k), 1, k) = Bytes(z, k)
  BY <1>2, BytesPart
<1>5. Part(Bytes(z, t), 1, k) = Bytes(z, k)
  BY <1>2, BytesPart
<1> QED
  BY <1>1, <1>3, <1>4, <1>5, Zenon DEF IsPrefix, Part

\* Its last bytes are a suffix of it.
LEMMA SuffixBytes ==
  ASSUME NEW a \in Nat, NEW t \in Nat, a <= t
  PROVE  IsSuffix(Bytes(a, t), Bytes(0, t))
<1>1. PICK s \in Seq(Nat) : /\ s = Bytes(a, t)
                            /\ Len(s) = t - a
                            /\ \A i \in 1 .. t - a : s[i] = a + i
  BY BytesAreSeq
<1>2. PICK u \in Seq(Nat) : /\ u = Bytes(0, t)
                            /\ Len(u) = t
                            /\ \A i \in 1 .. t : u[i] = i
  <2>1. 0 \in Nat /\ 0 <= t /\ t - 0 = t
    OBVIOUS
  <2>2. /\ Bytes(0, t) \in Seq(Nat)
        /\ Len(Bytes(0, t)) = t - 0
        /\ \A i \in 1 .. t - 0 : Bytes(0, t)[i] = 0 + i
    BY <2>1, BytesAreSeq, Zenon
  <2> QED
    BY <2>1, <2>2
<1>3. PICK r \in Seq(Nat) : /\ r = Reverse(s)
                            /\ Len(r) = t - a
                            /\ \A i \in 1 .. t - a : r[i] = t - i + 1
  <2> SUFFICES /\ Reverse(s) \in Seq(Nat)
               /\ Len(Reverse(s)) = t - a
               /\ \A i \in 1 .. t - a : Reverse(s)[i] = t - i + 1
    BY Zenon
  <2>1. ASSUME NEW i \in 1 .. t - a
        PROVE  s[(Len(s) - i) + 1] = t - i + 1 /\ t - i + 1 \in Nat
    <3>1. (Len(s) - i) + 1 \in 1 .. t - a
      BY <1>1
    <3>2. s[(Len(s) - i) + 1] = a + ((Len(s) - i) + 1)
      BY <3>1, <1>1
    <3> QED
      BY <3>2, <1>1
  <2>2. Reverse(s) = [i \in 1 .. t - a |-> t - i + 1]
    BY <2>1, <1>1 DEF Reverse
  <2>3. [i \in 1 .. t - a |-> t - i + 1] \in [1 .. t - a -> Nat] /\ t - a \in Nat
    BY <2>1
  <2> HIDE DEF Reverse
  <2> QED
    BY <2>2, <2>3
<1>4. PICK v \in Seq(Nat) : /\ v = Reverse(u)
                            /\ Len(v) = t
                            /\ \A i \in 1 .. t : v[i] = t - i + 1
  <2> SUFFICES /\ Reverse(u) \in Seq(Nat)
               /\ Len(Reverse(u)) = t
               /\ \A i \in 1 .. t : Reverse(u)[i] = t - i + 1
    BY Zenon
  <2>1. ASSUME NEW i \in 1 .. t
        PROVE  u[(Len(u) - i) + 1] = t - i + 1 /\ t - i + 1 \in Nat
    <3>1. (Len(u) - i) + 1 \in 1 .. t
      BY <1>2
    <3>2. u[(Len(u) - i) + 1] = (Len(u) - i) + 1
      BY <3>1, <1>2
    <3>3. Len(u) = t
      BY <1>2
    <3> QED
      BY <3>2, <3>3
  <2>2. Reverse(u) = [i \in 1 .. t |-> t - i + 1]
    BY <2>1, <1>2 DEF Reverse
  <2>3. [i \in 1 .. t |-> t - i + 1] \in [1 .. t -> Nat]
    BY <2>1
  <2> QED
    BY <2>2, <2>3
<1>5. SubSeq(r, 1, Len(r)) = SubSeq(v, 1, Len(r))
  <2>1. PICK n \in Nat : n = t - a /\ n <= t
    OBVIOUS
  <2>2. PICK zero \in Nat, from \in Nat, to \in Nat :
          /\ zero + n <= Len(r) /\ zero + n <= Len(v)
          /\ from = zero + 1 /\ to = zero + n
          /\ from = 1 /\ to = n /\ zero = 0
    BY <2>1, <1>3, <1>4
  <2>3. PICK x \in Seq(Nat) : /\ x = Part(r, from, to)
                              /\ Len(x) = n
                              /\ \A i \in 1 .. n : x[i] = r[zero + i]
    <3>1. IsPart(Part(r, from, to), r, zero, n)
      <4>1. zero + n <= Len(r) /\ from = zero + 1 /\ to = zero + n
        BY <2>2
      <4> QED
        BY <4>1, SubSeqOf
    <3> QED
      BY <3>1, Zenon DEF IsPart
  <2>4. PICK y \in Seq(Nat) : /\ y = Part(v, from, to)
                              /\ Len(y) = n
                              /\ \A i \in 1 .. n : y[i] = v[zero + i]
    <3>1. IsPart(Part(v, from, to), v, zero, n)
      <4>1. zero + n <= Len(v) /\ from = zero + 1 /\ to = zero + n
        BY <2>2
      <4> QED
        BY <4>1, SubSeqOf
    <3> QED
      BY <3>1, Zenon DEF IsPart
  <2>5. ASSUME NEW i \in 1 .. Len(x)
        PROVE  x[i] = y[i]
    <3>1. i \in 1 .. n /\ i \in 1 .. t - a /\ i \in 1 .. t /\ zero + i = i
      BY <2>1, <2>2, <2>3
    <3>2. x[i] = r[i] /\ y[i] = v[i]
      BY <3>1, <2>3, <2>4
    <3>3. r[i] = t - i + 1 /\ v[i] = t - i + 1
      BY <3>1, <1>3, <1>4
    <3> QED
      BY <3>2, <3>3
  <2>6. x = y
    BY <2>3, <2>4, <2>5, SeqEqual, Zenon
  <2>7. Len(r) = n
    BY <2>1, <1>3
  <2> QED
    BY <2>2, <2>3, <2>4, <2>6, <2>7, Zenon DEF Part
<1>6. Len(r) <= Len(v)
  BY <1>3, <1>4
<1> QED
  BY <1>1, <1>2, <1>3, <1>4, <1>5, <1>6, Zenon DEF IsSuffix, IsPrefix
-----------------------------------------------------------------------------
(* StreamCapture *)

\* A chunk that follows what was read extends the head up to the cap.
LEMMA HeadExtends ==
  ASSUME NEW t \in Nat, NEW n \in Nat, NEW u \in Nat, u = t + n
  PROVE  Bytes(0, Lesser(t, Cap)) \o SubSeq(Bytes(t, u), 1, Room(n, Lesser(t, Cap)))
           = Bytes(0, Lesser(u, Cap))
<1> DEFINE k == Room(n, Lesser(t, Cap))
<1> HIDE DEF k
<1>1. Cap \in Nat
  BY ProcessAssumption
<1>2. PICK x \in Nat, y \in Nat, z \in Nat :
        /\ x = Lesser(t, Cap) /\ y = Lesser(u, Cap) /\ z = t + k /\ x <= y
        /\ k \in Nat /\ k <= n
        /\ IF k = 0 THEN x = y ELSE x = t /\ y = t + k
  <2>1. CASE t < Cap
    BY <1>1, <2>1 DEF Lesser, Room, k
  <2>2. CASE ~ t < Cap
    BY <1>1, <2>2 DEF Lesser, Room, k
  <2> QED
    BY <2>1, <2>2
<1>3. PICK i \in Nat : i = 1
  OBVIOUS
<1>4. Part(Bytes(t, u), i, k) = Bytes(t, z)
  <2>1. t <= u /\ 1 <= i /\ i <= k + 1 /\ k <= u - t /\ t = t + i - 1 /\ z = t + k
    BY <1>2, <1>3
  <2> QED
    BY <2>1, <1>2, BytesPart
<1>5. Bytes(0, x) \o Bytes(t, z) = Bytes(0, y)
  <2>1. CASE k = 0
    <3>1. Bytes(t, z) = << >>
      <4>1. t <= z /\ z - t = 0
        BY <1>2, <2>1
      <4>2. Bytes(t, z) \in Seq(Nat) /\ Len(Bytes(t, z)) = 0
        BY <4>1, <1>2, BytesAreSeq
      <4> QED
        BY <4>2, EmptySeq
    <3>2. Bytes(0, x) \in Seq(Nat)
      BY <1>2, BytesAreSeq
    <3>3. Bytes(0, x) \o << >> = Bytes(0, x)
      BY <3>2, ConcatEmptySeq, Zenon
    <3> QED
      BY <1>2, <2>1, <3>1, <3>3
  <2>2. CASE k # 0
    <3>1. x = t /\ y = z /\ 0 <= t /\ t <= z
      BY <1>2, <2>2
    <3>2. 0 \in Nat /\ 0 <= t /\ t <= z
      BY <3>1
    <3>3. Bytes(0, t) \o Bytes(t, z) = Bytes(0, z)
      BY <3>2, BytesJoin, Zenon
    <3> QED
      BY <3>1, <3>3, Zenon
  <2> QED
    BY <2>1, <2>2
<1> QED
  BY <1>2, <1>3, <1>4, <1>5, Zenon DEF Part, k

\* It moves the tail on.
LEMMA TailMoves ==
  ASSUME NEW t \in Nat, NEW u \in Nat, t <= u, NEW a \in Nat, a = t - Lesser(t, Cap)
  PROVE  LastBytes(Bytes(a, t) \o Bytes(t, u), Cap) = Bytes(u - Lesser(u, Cap), u)
<1>1. Cap \in Nat
  BY ProcessAssumption
<1>2. a <= t /\ a <= u /\ Lesser(u - a, Cap) = Lesser(u, Cap)
  BY <1>1 DEF Lesser
<1>3. Bytes(a, t) \o Bytes(t, u) = Bytes(a, u)
  BY <1>2, BytesJoin, Zenon
<1>4. LastBytes(Bytes(a, u), Cap) = Bytes(u - Lesser(u - a, Cap), u)
  BY <1>1, <1>2, BytesLast, Zenon
<1> QED
  BY <1>2, <1>3, <1>4

\* A chunk that follows what was read leaves a capture that keeps its ends,
\* a spool that is a first stretch, and for stderr one cut at a newline.
LEMMA FeedFits ==
  ASSUME NEW s \in Stream, NEW c \in Capture, NEW n \in Nat, EndsKept(c), SpoolFits(s, c)
  PROVE  LET d == Feed(s, c, Bytes(c.total, c.total + n))
         IN  /\ d \in Capture
             /\ d.total = c.total + n
             /\ d.spooled = c.spooled
             /\ EndsKept(d)
             /\ SpoolFits(s, d)
             /\ s = "stderr" /\ CutAtLine(c) => CutAtLine(d)
<1>1. Cap \in Nat /\ c.total \in Nat
  BY ProcessAssumption DEF Capture
<1>2. PICK t \in Nat, u \in Nat, a \in Nat, x \in Nat, y \in Nat, z \in Nat :
        /\ t = c.total /\ u = t + n /\ t <= u
        /\ x = Lesser(t, Cap) /\ y = Lesser(u, Cap) /\ a = t - x /\ z = u - y
        /\ z <= u /\ y <= u
  BY <1>1 DEF Lesser
<1>3. PICK room : room = Room(n, x)
  OBVIOUS
<1>4. PICK chunk \in Seq(Nat) : chunk = Bytes(t, u) /\ Len(chunk) = n
  <2>1. u - t = n /\ t <= u
    BY <1>2
  <2>2. Bytes(t, u) \in Seq(Nat) /\ Len(Bytes(t, u)) = u - t
    BY <2>1, BytesAreSeq
  <2> QED
    BY <2>1, <2>2, Zenon
<1> DEFINE kept == [c EXCEPT !.total = u, !.head = Bytes(0, y), !.tail = Bytes(z, u)]
<1>5. c.head = Bytes(0, x) /\ c.tail = Bytes(a, t)
  BY <1>2 DEF EndsKept
<1>6. Len(c.head) = x
  <2>1. 0 \in Nat /\ 0 <= x /\ x - 0 = x
    OBVIOUS
  <2> QED
    BY <1>5, <2>1, BytesAreSeq
<1>7. c.head \o SubSeq(chunk, 1, room) = Bytes(0, y)
  <2>1. Bytes(0, Lesser(t, Cap)) \o SubSeq(Bytes(t, u), 1, room) = Bytes(0, Lesser(u, Cap))
    <3>1. u = t + n /\ room = Room(n, Lesser(t, Cap))
      BY <1>2, <1>3
    <3> QED
      BY <3>1, HeadExtends, Zenon
  <2> QED
    BY <2>1, <1>2, <1>4, <1>5
<1>8. LastBytes(c.tail \o chunk, Cap) = Bytes(z, u)
  <2>1. LastBytes(Bytes(a, t) \o Bytes(t, u), Cap) = Bytes(u - Lesser(u, Cap), u)
    BY <1>2, TailMoves
  <2> QED
    BY <2>1, <1>2, <1>4, <1>5
<1>9. Feed(s, c, chunk) = SpoolWrite(s, kept, chunk)
  <2>1. Feed(s, c, chunk) =
          SpoolWrite(s, [c EXCEPT
            !.total = c.total + Len(chunk),
            !.head  = c.head \o SubSeq(chunk, 1, Room(Len(chunk), Len(c.head))),
            !.tail  = LastBytes(c.tail \o chunk, Cap)], chunk)
    BY Zenon DEF Feed, Capture, Room
  <2>2. Room(Len(chunk), Len(c.head)) = room
    BY <1>3, <1>4, <1>6
  <2>3. c.total + Len(chunk) = u
    BY <1>2, <1>4
  <2> QED
    BY <2>1, <2>2, <2>3, <1>7, <1>8, Zenon
<1>10. kept \in Capture
  <2>1. Bytes(0, y) \in Seq(Nat)
    <3>1. 0 \in Nat /\ 0 <= y
      OBVIOUS
    <3> QED
      BY <3>1, BytesAreSeq
  <2>2. Bytes(z, u) \in Seq(Nat)
    BY <1>2, BytesAreSeq
  <2> QED
    BY <2>1, <2>2 DEF Capture
<1>11. kept.total = u /\ kept.head = Bytes(0, y) /\ kept.tail = Bytes(z, u)
       /\ kept.spool = c.spool /\ kept.pending = c.pending /\ kept.spooled = c.spooled
  BY DEF Capture
<1> HIDE DEF kept
<1> DEFINE d == SpoolWrite(s, kept, chunk)
<1>12. CASE ~ c.spooled
  <2>1. d = kept
    BY <1>11, <1>12, Zenon DEF SpoolWrite
  <2>2. EndsKept(d)
    BY <2>1, <1>2, <1>11, Zenon DEF EndsKept
  <2> QED
    BY <2>1, <2>2, <1>2, <1>4, <1>9, <1>10, <1>11, <1>12 DEF SpoolFits, CutAtLine
<1>13. CASE c.spooled /\ s = "stdout"
  <2>1. d = [kept EXCEPT !.spool = c.spool \o chunk]
    BY <1>10, <1>11, <1>13, Zenon DEF SpoolWrite, Capture
  <2>2. c.spool = Bytes(0, t) /\ c.pending = Bytes(t, t)
    BY <1>2, <1>13 DEF SpoolFits
  <2>3. 0 \in Nat /\ 0 <= t /\ 0 <= u /\ t <= t /\ u <= u /\ t - t = 0 /\ u - u = 0 /\ u - 0 = u
    OBVIOUS
  <2>4. Bytes(0, t) \o Bytes(t, u) = Bytes(0, u)
    <3>1. 0 \in Nat /\ 0 <= t /\ t <= u
      BY <1>2
    <3> QED
      BY <3>1, BytesJoin, Zenon
  <2>5. c.spool \o chunk = Bytes(0, u)
    BY <1>4, <2>2, <2>4
  <2>6. Bytes(0, u) \in Seq(Nat) /\ Len(Bytes(0, u)) = u
    BY <2>3, BytesAreSeq
  <2>7. Bytes(t, t) = Bytes(u, u)
    <3>1. Bytes(t, t) \in Seq(Nat) /\ Len(Bytes(t, t)) = 0
      BY <2>3, BytesAreSeq
    <3>2. Bytes(u, u) \in Seq(Nat) /\ Len(Bytes(u, u)) = 0
      BY <2>3, BytesAreSeq
    <3> QED
      BY <3>1, <3>2, EmptySeq
  <2>8. d \in Capture
    BY <2>1, <2>5, <2>6, <1>10 DEF Capture
  <2>9. d.total = u /\ d.head = Bytes(0, y) /\ d.tail = Bytes(z, u)
        /\ d.spool = Bytes(0, u) /\ d.pending = Bytes(t, t) /\ d.spooled = c.spooled
    BY <2>1, <2>2, <2>5, <1>10, <1>11 DEF Capture
  <2>10. EndsKept(d)
    BY <2>9, <1>2, Zenon DEF EndsKept
  <2>11. SpoolFits(s, d)
    BY <2>3, <2>6, <2>7, <2>9 DEF SpoolFits
  <2> QED
    BY <2>8, <2>9, <2>10, <2>11, <1>2, <1>4, <1>9, <1>13, Zenon
<1>14. CASE c.spooled /\ s = "stderr"
  <2>1. PICK p \in Nat : p = Len(c.spool)
    BY DEF Capture
  <2>2. /\ Len(c.spool) <= c.total
        /\ c.spool = Bytes(0, Len(c.spool))
        /\ c.pending = Bytes(Len(c.spool), c.total)
    BY <1>14, Zenon DEF SpoolFits
  <2>3. p <= t /\ p <= u /\ t <= u
    <3>1. Len(c.spool) <= c.total /\ t = c.total /\ t <= u
      BY <2>2, <1>2, Zenon
    <3> QED
      BY <3>1, <2>1
  <2>4. c.spool = Bytes(0, p) /\ c.pending = Bytes(p, t)
    BY <2>1, <2>2, <1>2, Zenon
  <2>5. Bytes(p, t) \o Bytes(t, u) = Bytes(p, u)
    BY <2>3, BytesJoin, Zenon
  <2>6. c.pending \o chunk = Bytes(p, u)
    BY <2>4, <2>5, <1>4
  <2>7. PICK cut \in Nat : /\ cut = LineCut(Bytes(p, u))
                           /\ cut <= u - p
                           /\ cut # 0 => Newline(p + cut)
    <3>1. /\ LineCut(Bytes(p, u)) \in 0 .. u - p
          /\ LineCut(Bytes(p, u)) # 0 => Newline(p + LineCut(Bytes(p, u)))
      BY <2>3, LineCutBytes, Zenon
    <3> QED
      BY <3>1, <2>3
  <2>8. cut <= u - p
    BY <2>7
  <2>9. PICK q \in Nat, i \in Nat, j \in Nat :
          q = p + cut /\ i = cut + 1 /\ j = u - p /\ p <= q /\ q <= u
    BY <2>3, <2>8
  <2>10. Part(Bytes(p, u), 1, cut) = Bytes(p, q)
    <3>1. p <= u /\ 1 \in Nat /\ 1 <= 1 /\ 1 <= cut + 1 /\ cut <= u - p
          /\ p = p + 1 - 1 /\ q = p + cut
      BY <2>3, <2>8, <2>9
    <3> QED
      BY <3>1, BytesPart
  <2>11. Part(Bytes(p, u), i, j) = Bytes(q, u)
    <3>1. p <= u /\ 1 <= i /\ i <= j + 1 /\ j <= u - p /\ q = p + i - 1 /\ u = p + j
      BY <2>3, <2>8, <2>9
    <3> QED
      BY <3>1, BytesPart
  <2>12. Len(Bytes(p, u)) = j
    BY <2>3, <2>9, BytesAreSeq
  <2>13. d = [kept EXCEPT
               !.spool   = c.spool \o SubSeq(Bytes(p, u), 1, cut),
               !.pending = SubSeq(Bytes(p, u), cut + 1, Len(Bytes(p, u)))]
    <3>1. "stderr" # "stdout"
      OBVIOUS
    <3>2. d = [kept EXCEPT
                 !.spool   = c.spool \o SubSeq(c.pending \o chunk, 1, LineCut(c.pending \o chunk)),
                 !.pending = SubSeq(c.pending \o chunk, LineCut(c.pending \o chunk) + 1,
                                    Len(c.pending \o chunk))]
      BY <3>1, <1>10, <1>11, <1>14, Zenon DEF SpoolWrite, Capture
    <3> QED
      BY <3>2, <2>6, <2>7, Zenon
  <2>14. Bytes(0, p) \o Bytes(p, q) = Bytes(0, q)
    <3>1. 0 \in Nat /\ 0 <= p /\ p <= q
      BY <2>9
    <3> QED
      BY <3>1, BytesJoin, Zenon
  <2>15. c.spool \o SubSeq(Bytes(p, u), 1, cut) = Bytes(0, q)
    BY <2>4, <2>9, <2>10, <2>14, Zenon DEF Part
  <2>16. SubSeq(Bytes(p, u), cut + 1, Len(Bytes(p, u))) = Bytes(q, u)
    BY <2>9, <2>11, <2>12, Zenon DEF Part
  <2>17. d = [kept EXCEPT !.spool = Bytes(0, q), !.pending = Bytes(q, u)]
    BY <2>13, <2>15, <2>16, Zenon
  <2>18. Bytes(0, q) \in Seq(Nat) /\ Len(Bytes(0, q)) = q /\ Bytes(q, u) \in Seq(Nat)
    <3>1. 0 \in Nat /\ 0 <= q /\ q - 0 = q
      OBVIOUS
    <3>2. Bytes(0, q) \in Seq(Nat) /\ Len(Bytes(0, q)) = q
      BY <3>1, BytesAreSeq
    <3>3. Bytes(q, u) \in Seq(Nat)
      BY <2>9, BytesAreSeq
    <3> QED
      BY <3>2, <3>3
  <2>19. d \in Capture
    BY <2>17, <2>18, <1>10 DEF Capture
  <2>20. d.total = u /\ d.head = Bytes(0, y) /\ d.tail = Bytes(z, u)
         /\ d.spool = Bytes(0, q) /\ d.pending = Bytes(q, u) /\ d.spooled = c.spooled
    BY <2>17, <1>10, <1>11 DEF Capture
  <2>21. EndsKept(d)
    BY <2>20, <1>2, Zenon DEF EndsKept
  <2>22. SpoolFits(s, d)
    BY <2>9, <2>18, <2>20, <1>14 DEF SpoolFits
  <2>23. CutAtLine(c) => CutAtLine(d)
    <3>1. CASE cut = 0
      BY <3>1, <2>1, <2>9, <2>18, <2>20, <1>14 DEF CutAtLine
    <3>2. CASE cut # 0
      BY <3>2, <2>7, <2>9, <2>18, <2>20 DEF CutAtLine
    <3> QED
      BY <3>1, <3>2
  <2> QED
    BY <2>19, <2>20, <2>21, <2>22, <2>23, <1>2, <1>4, <1>9, Zenon
<1> QED
  BY <1>12, <1>13, <1>14 DEF Stream

\* A capture that has read nothing fits.
LEMMA EmptyFits ==
  ASSUME NEW s \in Stream, NEW spooled \in BOOLEAN
  PROVE  LET d == EmptyCapture(spooled)
         IN  d \in Capture /\ d.total = 0 /\ EndsKept(d) /\ SpoolFits(s, d) /\ CutAtLine(d)
<1> DEFINE d == EmptyCapture(spooled)
<1>1. 0 \in Nat /\ Lesser(0, Cap) = 0 /\ 0 - Lesser(0, Cap) = 0
  <2>1. Cap \in Nat /\ Cap # 0
    BY ProcessAssumption
  <2>2. 0 < Cap
    BY <2>1
  <2> QED
    BY <2>2 DEF Lesser
<1>2. Bytes(0, 0) = << >>
  BY <1>1, BytesNone
<1>3. Len(<< >>) = 0 /\ << >> \in Seq(Nat)
  BY EmptySeq
<1>4. d \in Capture
  BY <1>1, <1>3 DEF EmptyCapture, Capture
<1>5. /\ d.total = 0 /\ d.head = << >> /\ d.tail = << >>
      /\ d.pending = << >> /\ d.spool = << >> /\ d.spooled = spooled
  BY DEF EmptyCapture
<1>6. EndsKept(d)
  <2> HIDE DEF d
  <2> QED
    BY <1>1, <1>2, <1>5, Zenon DEF EndsKept
<1>7. SpoolFits(s, d)
  <2> HIDE DEF d
  <2>1. Len(d.spool) = 0 /\ d.total = 0 /\ 0 <= 0
    BY <1>3, <1>5
  <2>2. d.spool = Bytes(0, Len(d.spool)) /\ d.pending = Bytes(Len(d.spool), d.total)
    BY <2>1, <1>2, <1>5, Zenon
  <2> QED
    BY <2>1, <2>2, Zenon DEF SpoolFits
<1>8. CutAtLine(d)
  <2> HIDE DEF d
  <2> QED
    BY <1>3, <1>5, Zenon DEF CutAtLine
<1> QED
  BY <1>4, <1>5, <1>6, <1>7, <1>8, Zenon

\* A closed capture fits, and what waited is spooled.
LEMMA CloseFits ==
  ASSUME NEW s \in Stream, NEW c \in Capture, EndsKept(c), SpoolFits(s, c)
  PROVE  LET d == Close(c)
         IN  /\ d \in Capture
             /\ d.total = c.total
             /\ d.spooled = c.spooled
             /\ EndsKept(d)
             /\ SpoolFits(s, d)
<1> DEFINE d == Close(c)
<1>1. c.spool \o c.pending \in Seq(Nat) /\ << >> \in Seq(Nat) /\ c.total \in Nat
  BY EmptySeq, ConcatProperties DEF Capture
<1>2. d = [c EXCEPT !.spool = c.spool \o c.pending, !.pending = << >>]
  BY Zenon DEF Close, Capture
<1>3. PICK whole \in Seq(Nat) : whole = c.spool \o c.pending
  BY <1>1, Zenon
<1>4. d = [c EXCEPT !.spool = whole, !.pending = << >>]
  BY <1>2, <1>3, Zenon
<1> HIDE DEF d
<1>5. /\ d \in Capture
      /\ d.total = c.total /\ d.spooled = c.spooled /\ d.head = c.head /\ d.tail = c.tail
      /\ d.spool = whole /\ d.pending = << >>
  BY <1>1, <1>4 DEF Capture
<1>6. EndsKept(d)
  BY <1>5, Zenon DEF EndsKept
<1>7. SpoolFits(s, d)
  <2> SUFFICES ASSUME c.spooled
               PROVE  SpoolFits(s, d)
    BY <1>5, Zenon DEF SpoolFits
  <2>1. PICK p \in Nat, t \in Nat : p = Len(c.spool) /\ t = c.total
    BY <1>1 DEF Capture
  <2>2. c.spool = Bytes(0, p) /\ c.pending = Bytes(p, t)
    BY <2>1, Zenon DEF SpoolFits
  <2>3. 0 \in Nat /\ 0 <= p /\ p <= t
    BY <2>1 DEF SpoolFits
  <2>4. Bytes(0, p) \o Bytes(p, t) = Bytes(0, t)
    BY <2>3, BytesJoin, Zenon
  <2>5. whole = Bytes(0, t)
    BY <2>2, <2>4, <1>3, Zenon
  <2>6. Len(Bytes(0, t)) = t
    <3>1. 0 <= t /\ t - 0 = t
      OBVIOUS
    <3> QED
      BY <3>1, BytesAreSeq
  <2>7. Len(d.spool) = d.total /\ d.total = t /\ t <= t
    BY <2>1, <2>5, <2>6, <1>5
  <2>8. d.spool = Bytes(0, Len(d.spool)) /\ d.pending = Bytes(Len(d.spool), d.total)
    <3>1. Bytes(t, t) = << >>
      BY BytesNone
    <3> QED
      BY <2>5, <2>7, <3>1, <1>5, Zenon
  <2>9. Len(d.spool) <= d.total
    BY <2>7
  <2> QED
    BY <2>7, <2>8, <2>9, Zenon DEF SpoolFits
<1> QED
  BY <1>5, <1>6, <1>7, Zenon DEF d

\* Text: the kept text is what was read, or both its ends and the exact count
\* of what is missing between them.
LEMMA TextIsHonest ==
  ASSUME NEW c \in Capture, EndsKept(c)
  PROVE  LET kept == Text(c)
             read == StreamUpTo(c.total)
         IN  /\ kept.omitted = 0 => kept.bytes = read
             /\ kept.omitted # 0 =>
                  /\ kept.omitted = c.total - Len(kept.bytes)
                  /\ IsPrefix(SubSeq(kept.bytes, 1, Cap), read)
                  /\ IsSuffix(LastBytes(kept.bytes, Cap), read)
<1>1. Cap \in Nat /\ Cap # 0
  BY ProcessAssumption
<1>2. PICK t \in Nat : t = c.total
  BY DEF Capture
<1>3. PICK read \in Seq(Nat) :
        /\ read = Bytes(0, t)
        /\ Len(read) = t
        /\ \A i \in 1 .. t : read[i] = i
  <2>1. 0 \in Nat /\ 0 <= t /\ t - 0 = t
    OBVIOUS
  <2>2. /\ Bytes(0, t) \in Seq(Nat)
        /\ Len(Bytes(0, t)) = t - 0
        /\ \A i \in 1 .. t - 0 : Bytes(0, t)[i] = 0 + i
    BY <2>1, BytesAreSeq, Zenon
  <2> QED
    BY <2>1, <2>2
<1>4. StreamUpTo(c.total) = read
  <2>1. StreamUpTo(t) = [i \in 1 .. t |-> i]
    BY DEF StreamUpTo
  <2>2. Bytes(0, t) = [i \in 1 .. t |-> i]
    BY DEF Bytes
  <2> QED
    BY <2>1, <2>2, <1>2, <1>3, Zenon
<1>5. CASE t <= Cap
  <2>1. Text(c) = [bytes |-> c.head, omitted |-> 0]
    BY <1>2, <1>5, Zenon DEF Text
  <2>2. Lesser(t, Cap) = t
    BY <1>1, <1>5 DEF Lesser
  <2>3. c.head = read
    BY <2>2, <1>2, <1>3, Zenon DEF EndsKept
  <2> QED
    BY <2>1, <2>3, <1>4
<1>6. CASE Cap < t
  <2>1. PICK a \in Nat : a = t - Cap /\ a <= t /\ Lesser(t, Cap) = Cap
    BY <1>1, <1>6 DEF Lesser
  <2>2. c.head = Bytes(0, Cap) /\ c.tail = Bytes(a, t)
    BY <2>1, <1>2, Zenon DEF EndsKept
  <2>3. Len(c.tail) = Cap
    <3>1. t - a = Cap
      BY <1>1, <2>1
    <3> QED
      BY <2>1, <2>2, <3>1, BytesAreSeq
  <2>4. ~ t <= Cap
    BY <1>1, <1>6
  <2>5. CASE t <= 2 * Cap
    <3>1. Text(c) = [bytes   |-> c.head \o SubSeq(c.tail, 2 * Cap - t + 1, Len(c.tail)),
                     omitted |-> 0]
      BY <1>2, <2>4, <2>5, Zenon DEF Text
    <3>2. PICK i \in Nat : i = 2 * Cap - t + 1 /\ 1 <= i /\ i <= Cap + 1
      BY <1>1, <1>6, <2>5
    <3>3. Part(Bytes(a, t), i, Cap) = Bytes(Cap, t)
      <4>1. PICK cap \in Nat : cap = Cap
        BY <1>1
      <4>2. a <= t /\ 1 <= i /\ i <= cap + 1 /\ cap <= t - a /\ cap = a + i - 1 /\ t = a + cap
        BY <4>1, <2>1, <3>2
      <4>3. Part(Bytes(a, t), i, cap) = Bytes(cap, t)
        BY <4>2, BytesPart
      <4> QED
        BY <4>1, <4>3
    <3>4. Bytes(0, Cap) \o Bytes(Cap, t) = Bytes(0, t)
      <4>1. 0 \in Nat /\ 0 <= Cap /\ Cap <= t /\ Cap \in Nat
        BY <1>1, <1>6
      <4> QED
        BY <4>1, BytesJoin, Zenon
    <3>5. c.head \o SubSeq(c.tail, 2 * Cap - t + 1, Len(c.tail)) = read
      BY <2>2, <2>3, <3>2, <3>3, <3>4, <1>3, Zenon DEF Part
    <3>6. Text(c) = [bytes |-> read, omitted |-> 0]
      BY <3>1, <3>5, Zenon
    <3>7. Text(c).omitted = 0 /\ Text(c).bytes = read
      BY <3>6
    <3> QED
      BY <3>7, <1>4, Zenon
  <2>6. CASE 2 * Cap < t
    <3>1. PICK both \in Seq(Nat), head \in Seq(Nat), tail \in Seq(Nat) :
            /\ both = head \o tail /\ head = c.head /\ tail = c.tail
      BY ConcatProperties DEF Capture
    <3>2. Len(head) = Cap
      <4>1. 0 \in Nat /\ 0 <= Cap /\ Cap - 0 = Cap
        BY <1>1
      <4>2. Len(Bytes(0, Cap)) = Cap - 0
        BY <4>1, <1>1, BytesAreSeq, Zenon
      <4>3. head = Bytes(0, Cap)
        BY <3>1, <2>2
      <4> QED
        BY <4>1, <4>2, <4>3, Zenon
    <3>3. Len(tail) = Cap
      BY <2>3, <3>1
    <3>4. /\ Len(both) = Cap + Cap
          /\ SubSeq(both, 1, Cap) = head
          /\ LastBytes(both, Cap) = tail
      <4>1. /\ Len(head \o tail) = Cap + Cap
            /\ SubSeq(head \o tail, 1, Cap) = head
            /\ LastBytes(head \o tail, Cap) = tail
        BY <1>1, <3>2, <3>3, JoinEnds, Zenon
      <4> QED
        BY <4>1, <3>1, Zenon
    <3>5. ~ t <= 2 * Cap
      BY <1>1, <2>6
    <3>6. Text(c) = [bytes |-> both, omitted |-> t - Cap - Cap]
      <4>1. Text(c) = [bytes |-> both, omitted |-> t - Len(head) - Len(tail)]
        BY <1>2, <2>4, <3>1, <3>5, Zenon DEF Text
      <4> QED
        BY <4>1, <3>2, <3>3, Zenon
    <3>7. Text(c).bytes = both /\ Text(c).omitted = t - Cap - Cap
      BY <3>6
    <3>8. PICK kept : kept = Text(c) /\ kept.bytes = both /\ kept.omitted = t - Cap - Cap
      BY <3>7, Zenon
    <3>9. kept.omitted # 0 /\ kept.omitted = t - Len(both)
      BY <1>1, <2>6, <3>4, <3>8
    <3>10. IsPrefix(head, read)
      BY <1>1, <1>3, <1>6, <2>2, <3>1, PrefixBytes
    <3>11. IsSuffix(tail, read)
      BY <2>1, <2>2, <1>3, <3>1, SuffixBytes
    <3> QED
      BY <3>4, <3>8, <3>9, <3>10, <3>11, <1>2, <1>4, Zenon
  <2> QED
    BY <2>5, <2>6, <1>1
<1> QED
  BY <1>1, <1>5, <1>6

\* RecoverLine: a line of bytes, if any.
LEMMA RecoverLineTyped ==
  ASSUME NEW bytes \in Seq(Nat)
  PROVE  RecoverLine(bytes) \in Seq(Nat)
<1>1. CASE Len(bytes) >= 2 /\ Newline(Last(bytes))
  <2>1. PICK n \in Int, m \in Int : n = Len(bytes) /\ m = Len(bytes) - 1 /\ 1 <= m
    BY <1>1
  <2>2. \A i \in m .. n : bytes[i] \in Nat
    <3> TAKE i \in m .. n
    <3>1. i \in 1 .. Len(bytes)
      BY <2>1
    <3> QED
      BY <3>1, ElementOfSeq, Zenon
  <2>3. SubSeq(bytes, m, n) \in Seq(Nat)
    BY <2>2, SubSeqProperties
  <2> QED
    BY <1>1, <2>1, <2>3, Zenon DEF RecoverLine
<1>2. CASE ~ (Len(bytes) >= 2 /\ Newline(Last(bytes)))
  <2>1. RecoverLine(bytes) = << >>
    BY <1>2, Zenon DEF RecoverLine
  <2> QED
    BY <2>1
<1> QED
  BY <1>1, <1>2, Zenon

\* Structured: likewise.
LEMMA StructuredTyped ==
  ASSUME NEW c \in Capture
  PROVE  Structured(c) \in Seq(Nat)
<1>1. RecoverLine(c.spool) \in Seq(Nat) /\ RecoverLine(c.tail) \in Seq(Nat) /\ << >> \in Seq(Nat)
  BY RecoverLineTyped, EmptySeq DEF Capture
<1> QED
  BY <1>1, Zenon DEF Structured

\* Structured: of a stdout that was spooled whole and is longer than what is
\* kept of it, the last line, if it ends.
LEMMA StructuredIsLast ==
  ASSUME NEW c \in Capture, SpoolFits("stdout", c), c.spooled, Truncated(c), Newline(c.total)
  PROVE  Structured(c) = << c.total - 1, c.total >>
<1>1. Cap \in Nat /\ Cap # 0 /\ c.total \in Nat
  BY ProcessAssumption DEF Capture
<1>2. PICK t \in Nat : t = c.total /\ 2 <= t
  <2>1. PICK t \in Nat, m \in Nat : t = c.total /\ m = Cap /\ m # 0
    BY <1>1
  <2>2. t > 2 * m
    BY <2>1 DEF Truncated
  <2>3. 2 <= t
    BY <2>1, <2>2
  <2> QED
    BY <2>1, <2>3
<1>3. Len(c.spool) = t /\ c.spool = Bytes(0, Len(c.spool))
  BY <1>2, Zenon DEF SpoolFits
<1>4. c.spool = Bytes(0, t)
  BY <1>3, Zenon
<1>5. PICK s \in Seq(Nat) : /\ s = Bytes(0, t)
                            /\ Len(s) = t
                            /\ \A i \in 1 .. t : s[i] = i
  <2>1. 0 \in Nat /\ 0 <= t /\ t - 0 = t
    OBVIOUS
  <2>2. /\ Bytes(0, t) \in Seq(Nat)
        /\ Len(Bytes(0, t)) = t - 0
        /\ \A i \in 1 .. t - 0 : Bytes(0, t)[i] = 0 + i
    BY <2>1, BytesAreSeq, Zenon
  <2> QED
    BY <2>1, <2>2
<1>6. Len(s) >= 2 /\ Last(s) = t
  BY <1>2, <1>5 DEF Last
<1>7. RecoverLine(s) = SubSeq(s, Len(s) - 1, Len(s))
  BY <1>2, <1>6, Zenon DEF RecoverLine
<1>8. SubSeq(s, Len(s) - 1, Len(s)) = << t - 1, t >>
  <2>1. PICK k \in Nat, n \in Nat, from \in Nat, to \in Nat :
          /\ k = t - 2 /\ n = 2 /\ from = t - 1 /\ to = t
          /\ k + n <= Len(s) /\ from = k + 1 /\ to = k + n
    BY <1>2, <1>5
  <2>2. IsPart(Part(s, from, to), s, k, n)
    <3>1. k + n <= Len(s) /\ from = k + 1 /\ to = k + n
      BY <2>1
    <3> QED
      BY <3>1, SubSeqOf
  <2>3. PICK p \in Seq(Nat) : /\ p = Part(s, from, to)
                              /\ Len(p) = n
                              /\ \A i \in 1 .. n : p[i] = s[k + i]
    BY <2>2, Zenon DEF IsPart
  <2>4. p[1] = s[t - 1] /\ p[2] = s[t] /\ Len(p) = 2
    <3>1. 1 \in 1 .. n /\ 2 \in 1 .. n /\ k + 1 = t - 1 /\ k + 2 = t
      BY <2>1
    <3> QED
      BY <3>1, <2>1, <2>3
  <2>5. s[t - 1] = t - 1 /\ s[t] = t
    BY <1>2, <1>5
  <2>6. p = << t - 1, t >>
    BY <2>4, <2>5
  <2>7. Len(s) - 1 = from /\ Len(s) = to
    BY <2>1, <1>5
  <2> QED
    BY <2>3, <2>6, <2>7, Zenon DEF Part
<1>9. RecoverLine(c.spool) = << t - 1, t >>
  BY <1>4, <1>5, <1>7, <1>8, Zenon
<1>10. << t - 1, t >> # << >>
  OBVIOUS
<1> QED
  BY <1>2, <1>9, <1>10, Zenon DEF Structured

\* A row that is appended is in the journal, and those before it stay.
LEMMA AppendContains ==
  ASSUME NEW S, NEW s \in Seq(S), NEW x \in S
  PROVE  /\ Contains(Append(s, x), x)
         /\ \A e : Contains(s, e) => Contains(Append(s, x), e)
<1>1. Len(s) \in Nat /\ Len(Append(s, x)) = Len(s) + 1 /\ Append(s, x)[Len(s) + 1] = x
      /\ \A i \in 1 .. Len(s) : Append(s, x)[i] = s[i]
  OBVIOUS
<1>2. Contains(Append(s, x), x)
  <2>1. Len(s) + 1 \in 1 .. Len(Append(s, x))
    BY <1>1
  <2> QED
    BY <1>1, <2>1, Zenon DEF Contains
<1>3. ASSUME NEW e, Contains(s, e)
      PROVE  Contains(Append(s, x), e)
  <2>1. PICK i \in 1 .. Len(s) : s[i] = e
    BY <1>3, Zenon DEF Contains
  <2>2. i \in 1 .. Len(Append(s, x))
    BY <1>1
  <2>3. Append(s, x)[i] = e
    BY <1>1, <2>1
  <2> QED
    BY <2>2, <2>3, Zenon DEF Contains
<1> QED
  BY <1>2, <1>3, Zenon
-----------------------------------------------------------------------------
(* The steps *)

\* Killpg: what is left of the child, and whether it was told.
LEMMA KillpgFacts ==
  ASSUME Types, NEW sig, Killpg(sig)
  PROVE  /\ leader' \in Leader
         /\ leader'.state = "running" => Running /\ sig # "KILL"
         /\ leader'.state = "none" => leader.state = "none"
<1>1. leader \in Leader
  BY DEF Types
<1> QED
  BY <1>1 DEF Killpg, Running, Leader, Exit

\* Report: the result is appended, and the next command or the end follows.
LEMMA ReportFacts ==
  ASSUME Types, NEW r \in Result, Report(r)
  PROVE  /\ results' = Append(results, r)
         /\ results' \in Seq(Result)
         /\ call' \in CallState
         /\ call'.kind = call.kind
         /\ call'.pc \in { "returned", "start" }
         /\ Worker => call'.pc = "returned"
<1>1. call \in CallState /\ results \in Seq(Result)
  BY DEF Types
<1>2. PICK pc \in { "returned", "start" } :
        /\ pc = IF Worker \/ Len(results) + 1 = Commands THEN "returned" ELSE "start"
        /\ call' = [call EXCEPT !.pc = pc, !.timed_out = FALSE, !.sigkill = FALSE,
                                !.known = FALSE]
  BY Zenon DEF Report
<1>3. pc \in PC
  BY DEF PC
<1>4. call' \in CallState /\ call'.kind = call.kind /\ call'.pc = pc
  BY <1>1, <1>2, <1>3 DEF CallState
<1>5. results' = Append(results, r)
  BY Zenon DEF Report
<1>6. results' \in Seq(Result)
  BY <1>1, <1>5
<1>7. Worker => pc = "returned"
  BY <1>2, Zenon
<1> QED
  BY <1>2, <1>4, <1>5, <1>6, <1>7, Zenon

\* The rows that are appended.
LEMMA RowTyped ==
  ASSUME Types, NEW event \in { "spawn_attempt", "spawn_refused", "completion" }
  PROVE  Row(event) \in JournalRow
BY DEF Types, Row, Sequence, JournalRow

LEMMA ChildlessTyped == ChildlessResult \in Result
BY EmptySeq DEF ChildlessResult, Result, Exit

\* The verdict of a child.
Verdict ==
  [ exit       |-> ExitCode,
    timed_out  |-> call.timed_out,
    sigkill    |-> call.sigkill,
    passed     |-> Passed,
    structured |-> IF Worker THEN Structured(capture["stdout"]) ELSE << >> ]

LEMMA VerdictTyped ==
  ASSUME Types
  PROVE  Verdict \in Result
<1>1. Structured(capture["stdout"]) \in Seq(Nat)
  BY StructuredTyped DEF Types, Stream
<1>2. << >> \in Seq(Nat)
  BY EmptySeq
<1>3. ExitCode \in Exit /\ call.timed_out \in BOOLEAN /\ call.sigkill \in BOOLEAN
  BY DEF Types, ExitCode, Leader, Exit, CallState
<1>4. Passed \in BOOLEAN
  BY DEF Passed
<1> QED
  BY <1>1, <1>2, <1>3, <1>4 DEF Verdict, Result

\* A move of the program counter alone.
LEMMA GotoTyped ==
  ASSUME Types, NEW pc \in PC, Goto(pc)
  PROVE  /\ call' \in CallState
         /\ call'.kind = call.kind
         /\ call'.pc = pc
         /\ call'.timed_out = call.timed_out
BY DEF Types, CallState, Goto

\* The steps of the child, the kernel and the pumps leave the call alone.
LEMMA ChildLeavesCall ==
  ASSUME Child \/ Reap \/ Pumps
  PROVE  UNCHANGED << runtime, call, journal, results >>
BY DEF Child, Fork, Write, LeaderExits, MemberExits, Reap, Pumps, Pump

\* The steps that only move on.
Moves ==
  \/ NoRecordNoRun \/ SpawnRefused \/ SpawnAccepted \/ WaitEnds \/ ReapGivenUp
  \/ CompletionLost

\* The steps that close the captures.
Closes == RefusedChildGone \/ DrainEnds \/ Cancel

LEMMA NextCases ==
  ASSUME Next
  PROVE  \/ Child \/ Reap \/ Pumps
         \/ Moves \/ Closes
         \/ TransportRefused \/ SpawnFailed \/ Finish
         \/ \E choice \in BOOLEAN : PrepareRun(choice) \/ Spawn(choice)
         \/ SpawnRejected \/ RefusedChildLingers \/ DeadlinePasses \/ GracePasses
BY DEF Next, Code, Moves, Closes

LEMMA MovesFacts ==
  ASSUME Types, Moves
  PROVE  /\ UNCHANGED << leader, member, pipe, capture, journal, results >>
         /\ call' \in CallState
         /\ call'.kind = call.kind
         /\ call'.timed_out = call.timed_out
         /\ call'.pc # "returned"
         /\ \/ call.pc = "start" /\ call'.pc = "raised"
            \/ call.pc \in { "spawning", "finish" } /\ call'.pc = "raised"
            \/ call.pc = "on_spawn" /\ call'.pc = "wait"
            \/ call.pc \in { "wait", "grace", "reap" } /\ call'.pc = "drain" /\ Reaped
            \/ call.pc = "reap" /\ call'.pc = "drain"
<1>1. "raised" \in PC /\ "wait" \in PC /\ "drain" \in PC
  BY DEF PC, Awaits
<1>2. CASE NoRecordNoRun
  BY <1>1, <1>2, GotoTyped DEF NoRecordNoRun, Processes
<1>3. CASE SpawnRefused
  BY <1>1, <1>3, GotoTyped DEF SpawnRefused, Processes
<1>4. CASE SpawnAccepted
  BY <1>1, <1>4, GotoTyped DEF SpawnAccepted, Processes
<1>5. CASE WaitEnds
  BY <1>1, <1>5, GotoTyped DEF WaitEnds, WaitDone, Processes
<1>6. CASE ReapGivenUp
  BY <1>1, <1>6, GotoTyped DEF ReapGivenUp, Processes
<1>7. CASE CompletionLost
  BY <1>1, <1>7, GotoTyped DEF CompletionLost, Processes
<1> QED
  BY <1>2, <1>3, <1>4, <1>5, <1>6, <1>7 DEF Moves

LEMMA ClosesFacts ==
  ASSUME Types, Closes
  PROVE  /\ UNCHANGED << leader, member, pipe, journal, results >>
         /\ capture' = [s \in Stream |-> Close(capture[s])]
         /\ call' \in CallState
         /\ call'.kind = call.kind
         /\ call'.timed_out = call.timed_out
         /\ \/ call.pc \in { "refuse_grace", "refuse_wait" } /\ call'.pc = "raised" /\ Reaped
            \/ call.pc = "drain" /\ call'.pc = "finish"
            \/ /\ call.pc \in Awaits \cup { "refuse_grace", "refuse_wait" }
               /\ call'.pc = "cancelled"
<1>1. "raised" \in PC /\ "finish" \in PC /\ "cancelled" \in PC
  BY DEF PC
<1>2. CASE RefusedChildGone
  BY <1>1, <1>2, GotoTyped DEF RefusedChildGone, WaitDone
<1>3. CASE DrainEnds
  BY <1>1, <1>3, GotoTyped DEF DrainEnds, StopPumps
<1>4. CASE Cancel
  BY <1>1, <1>4, GotoTyped DEF Cancel
<1> QED
  BY <1>2, <1>3, <1>4 DEF Closes

\* The steps that signal the group.
Signals == SpawnRejected \/ RefusedChildLingers \/ DeadlinePasses \/ GracePasses

LEMMA SignalsFacts ==
  ASSUME Types, Signals
  PROVE  /\ UNCHANGED << pipe, capture, journal, results >>
         /\ leader' \in Leader
         /\ call' \in CallState
         /\ call'.kind = call.kind
         /\ leader'.state = "running" => Running
         /\ \/ /\ call.pc = "on_spawn" /\ call'.pc = "refuse_grace"
            \/ /\ call.pc = "refuse_grace" /\ call'.pc = "refuse_wait"
               /\ leader'.state # "running"
            \/ /\ call.pc = "wait" /\ call'.pc = "grace"
               /\ call'.timed_out
            \/ /\ call.pc = "grace" /\ call'.pc = "reap"
               /\ leader'.state # "running" /\ call'.timed_out = call.timed_out
<1>1. call \in CallState /\ Reaped \in BOOLEAN
  BY DEF Types, Reaped
<1>2. CASE SpawnRejected
  <2>1. leader' \in Leader /\ (leader'.state = "running" => Running)
    BY <1>2, KillpgFacts DEF SpawnRejected
  <2>2. /\ UNCHANGED << pipe, capture, journal, results >>
        /\ call.pc = "on_spawn"
        /\ call' = [call EXCEPT !.pc = "refuse_grace", !.known = Reaped]
    BY <1>2 DEF SpawnRejected
  <2>3. call' \in CallState /\ call'.kind = call.kind /\ call'.pc = "refuse_grace"
    BY <1>1, <2>2 DEF CallState, PC
  <2> QED
    BY <2>1, <2>2, <2>3
<1>3. CASE RefusedChildLingers
  <2>1. leader' \in Leader /\ leader'.state # "running"
    BY <1>3, KillpgFacts DEF RefusedChildLingers
  <2>2. /\ UNCHANGED << pipe, capture, journal, results >>
        /\ call.pc = "refuse_grace"
        /\ call' = [call EXCEPT !.pc = "refuse_wait", !.known = Reaped]
    BY <1>3 DEF RefusedChildLingers
  <2>3. call' \in CallState /\ call'.kind = call.kind /\ call'.pc = "refuse_wait"
    BY <1>1, <2>2 DEF CallState, PC
  <2> QED
    BY <2>1, <2>2, <2>3
<1>4. CASE DeadlinePasses
  <2>1. leader' \in Leader /\ (leader'.state = "running" => Running)
    BY <1>4, KillpgFacts DEF DeadlinePasses
  <2>2. /\ UNCHANGED << pipe, capture, journal, results >>
        /\ call.pc = "wait"
        /\ call' = [call EXCEPT !.pc = "grace", !.timed_out = TRUE, !.known = Reaped]
    BY <1>4 DEF DeadlinePasses
  <2>3. call' \in CallState /\ call'.kind = call.kind /\ call'.pc = "grace" /\ call'.timed_out
    BY <1>1, <2>2 DEF CallState, PC, Awaits
  <2> QED
    BY <2>1, <2>2, <2>3
<1>5. CASE GracePasses
  <2>1. leader' \in Leader /\ leader'.state # "running"
    BY <1>5, KillpgFacts DEF GracePasses
  <2>2. PICK killed \in BOOLEAN :
          /\ UNCHANGED << pipe, capture, journal, results >>
          /\ call.pc = "grace"
          /\ call' = [call EXCEPT !.pc = "reap", !.known = Reaped, !.sigkill = killed]
    BY <1>5, Zenon DEF GracePasses
  <2>3. call' \in CallState /\ call'.kind = call.kind /\ call'.pc = "reap"
        /\ call'.timed_out = call.timed_out
    BY <1>1, <2>2 DEF CallState, PC, Awaits
  <2> QED
    BY <2>1, <2>2, <2>3
<1> QED
  BY <1>2, <1>3, <1>4, <1>5 DEF Signals

\* The steps that report a result.
Reports == (TransportRefused /\ ~ Worker) \/ SpawnFailed \/ Finish

LEMMA ReportsFacts ==
  ASSUME Types, Reports
  PROVE  /\ UNCHANGED << leader, member, pipe, capture >>
         /\ call' \in CallState
         /\ call'.kind = call.kind
         /\ call'.pc \in { "returned", "start" }
         /\ Worker => call'.pc = "returned"
         /\ \E r \in Result :
              /\ results' = Append(results, r)
              /\ \/ call.pc \in { "start", "spawning" } /\ r = ChildlessResult
                 \/ call.pc = "finish" /\ r = Verdict
         /\ results' \in Seq(Result)
         /\ Worker => call.pc # "start" /\ UNCHANGED journal
         /\ ~ Worker => \E event \in { "completion", "spawn_refused" } :
                          journal' = Append(journal, Row(event))
<1>1. CASE TransportRefused /\ ~ Worker
  <2>1. Report(ChildlessResult)
    BY <1>1 DEF TransportRefused
  <2> QED
    BY <1>1, <2>1, ReportFacts, ChildlessTyped DEF TransportRefused, Processes
<1>2. CASE SpawnFailed
  <2>1. Report(ChildlessResult)
    BY <1>2 DEF SpawnFailed
  <2> QED
    BY <1>2, <2>1, ReportFacts, ChildlessTyped DEF SpawnFailed, Processes
<1>3. CASE Finish
  <2>1. Report(Verdict)
    BY <1>3 DEF Finish, Verdict
  <2> QED
    BY <1>3, <2>1, ReportFacts, VerdictTyped DEF Finish, Processes
<1> QED
  BY <1>1, <1>2, <1>3 DEF Reports

\* The steps that prepare and start a child.
LEMMA PrepareFacts ==
  ASSUME Types, NEW choice \in BOOLEAN, PrepareRun(choice)
  PROVE  /\ UNCHANGED results
         /\ leader' = NoLeader /\ pipe' = NoBytes
         /\ \E spooled \in BOOLEAN : capture' = [s \in Stream |-> EmptyCapture(spooled)]
         /\ call' \in CallState
         /\ call'.kind = call.kind
         /\ call.pc = "start" /\ call'.pc = "spawning"
         /\ Worker => UNCHANGED journal
         /\ ~ Worker => journal' = Append(journal, Row("spawn_attempt"))
<1>1. "spawning" \in PC
  BY DEF PC
<1>2. call' \in CallState /\ call'.kind = call.kind /\ call'.pc = "spawning"
  BY <1>1, GotoTyped DEF PrepareRun
<1>3. (Worker /\ choice) \in BOOLEAN
  OBVIOUS
<1> QED
  BY <1>2, <1>3, Zenon DEF PrepareRun

LEMMA SpawnFacts ==
  ASSUME Types, NEW choice \in BOOLEAN, Spawn(choice)
  PROVE  /\ UNCHANGED << pipe, capture, journal, results >>
         /\ leader' \in Leader /\ leader'.hit = FALSE
         /\ call' \in CallState
         /\ call'.kind = call.kind
         /\ call'.timed_out = call.timed_out
         /\ call.pc = "spawning" /\ call'.pc \in { "on_spawn", "wait" }
         /\ ~ Worker => call'.pc = "wait"
<1>1. "on_spawn" \in PC /\ "wait" \in PC
  BY DEF PC, Awaits
<1>2. CASE Worker
  BY <1>1, <1>2, GotoTyped DEF Spawn, NoLeader, Leader, Exit
<1>3. CASE ~ Worker
  BY <1>1, <1>3, GotoTyped DEF Spawn, NoLeader, Leader, Exit
<1> QED
  BY <1>2, <1>3

LEMMA RefusedFacts ==
  ASSUME Types, TransportRefused, Worker
  PROVE  /\ UNCHANGED << leader, pipe, capture, journal, results >>
         /\ call' \in CallState
         /\ call'.kind = call.kind
         /\ call'.timed_out = call.timed_out
         /\ call.pc = "start" /\ call'.pc = "raised"
<1>1. "raised" \in PC
  BY DEF PC
<1> QED
  BY <1>1, GotoTyped DEF TransportRefused, Processes

\* What the child, the kernel and the pumps do to the child.
LEMMA ChildFacts ==
  ASSUME Types, Child \/ Reap \/ Pumps
  PROVE  /\ leader' \in Leader
         /\ leader'.state = "running" => Running
         /\ leader'.hit = leader.hit
         /\ \/ UNCHANGED << pipe, capture >>
            \/ UNCHANGED capture /\ Child /\ \E s \in Stream : Write(s)
            \/ Pumps
<1>1. leader \in Leader
  BY DEF Types
<1>2. CASE Child
  BY <1>1, <1>2 DEF Child, Fork, Write, LeaderExits, MemberExits, Leader, Exit, Running
<1>3. CASE Reap
  BY <1>1, <1>3 DEF Reap, Leader, Exit, Running
<1>4. CASE Pumps
  BY <1>1, <1>4 DEF Pumps, Pump, Leader, Running
<1> QED
  BY <1>2, <1>3, <1>4

\* The cases of a step, as the parts of the invariant need them.
LEMMA StepCases ==
  ASSUME Next
  PROVE  \/ Child \/ Reap \/ Pumps
         \/ Moves \/ Closes \/ Signals \/ Reports
         \/ TransportRefused /\ Worker
         \/ \E choice \in BOOLEAN : PrepareRun(choice) \/ Spawn(choice)
BY NextCases DEF Signals, Reports
-----------------------------------------------------------------------------
(* The parts of the invariant *)

\* Each step keeps the captures what they are.
LEMMA CapturesNext ==
  ASSUME Types, CapturesFit, Next
  PROVE  /\ pipe' \in [Stream -> [written : Nat, read : Nat]]
         /\ capture' \in [Stream -> Capture]
         /\ CapturesFit'
<1> DEFINE Kept == /\ UNCHANGED capture
                   /\ pipe' \in [Stream -> [written : Nat, read : Nat]]
                   /\ \A s \in Stream : pipe'[s].read = pipe[s].read
                   /\ call'.pc \in Open => call.pc \in Open
<1>1. ASSUME Kept
      PROVE  /\ pipe' \in [Stream -> [written : Nat, read : Nat]]
             /\ capture' \in [Stream -> Capture]
             /\ CapturesFit'
  BY <1>1 DEF Types, CapturesFit
<1>2. CASE \E s \in Stream : Write(s)
  <2>1. PICK s \in Stream : Write(s)
    BY <1>2
  <2>2. /\ pipe' = [pipe EXCEPT ![s].written = @ + 1]
        /\ UNCHANGED << call, capture >>
    BY <2>1 DEF Write
  <2>3. pipe' \in [Stream -> [written : Nat, read : Nat]]
    <3>1. PICK p \in [written : Nat, read : Nat] : p = pipe[s]
      BY DEF Types
    <3>2. [p EXCEPT !.written = p.written + 1] \in [written : Nat, read : Nat]
      OBVIOUS
    <3>3. pipe' = [pipe EXCEPT ![s] = [p EXCEPT !.written = p.written + 1]]
      BY <2>2, <3>1, Zenon
    <3> QED
      BY <3>2, <3>3, Zenon DEF Types
  <2>4. \A r \in Stream : pipe'[r].read = pipe[r].read
    BY <2>2 DEF Types
  <2>5. Kept
    BY <2>2, <2>3, <2>4
  <2> QED
    BY <2>5, <1>1
<1>3. CASE UNCHANGED << pipe, capture >> /\ (call'.pc \in Open => call.pc \in Open)
  <2>1. Kept
    BY <1>3 DEF Types
  <2> QED
    BY <2>1, <1>1
<1>4. CASE Pumps
  <2>1. PICK s \in Stream, n \in Nat : Pump(s, n)
    BY <1>4 DEF Pumps
  <2>2. PICK c \in Capture : c = capture[s] /\ EndsKept(c) /\ SpoolFits(s, c)
                             /\ pipe[s].read = c.total
    BY DEF Types, CapturesFit
  <2>3. PICK d \in Capture : /\ d = Feed(s, c, Bytes(c.total, c.total + n))
                             /\ d.total = c.total + n
                             /\ EndsKept(d)
                             /\ SpoolFits(s, d)
                             /\ s = "stderr" /\ CutAtLine(c) => CutAtLine(d)
    <3> DEFINE d == Feed(s, c, Bytes(c.total, c.total + n))
    <3>1. EndsKept(c) /\ SpoolFits(s, c)
      BY <2>2
    <3>2. /\ d \in Capture
          /\ d.total = c.total + n
          /\ EndsKept(d)
          /\ SpoolFits(s, d)
          /\ s = "stderr" /\ CutAtLine(c) => CutAtLine(d)
      BY <3>1, FeedFits, Zenon
    <3> HIDE DEF d
    <3>3. PICK e \in Capture : e = d
      BY <3>2
    <3> QED
      BY <3>2, <3>3, Zenon DEF d
  <2>4. Bytes(c.total, c.total + n) = [i \in 1 .. n |-> pipe[s].read + i]
    <3>1. (c.total + n) - c.total = n
      <4>1. c.total \in Nat
        BY DEF Capture
      <4> QED
        BY <4>1
    <3> QED
      BY <2>2, <3>1, Zenon DEF Bytes
  <2>5. capture' = [capture EXCEPT ![s] = d]
    BY <2>1, <2>2, <2>3, <2>4, Zenon DEF Pump, Types
  <2>6. capture' \in [Stream -> Capture]
    BY <2>5 DEF Types
  <2>7. /\ pipe' = [pipe EXCEPT ![s].read = @ + n]
        /\ UNCHANGED call
    BY <2>1 DEF Pump
  <2>8. pipe' \in [Stream -> [written : Nat, read : Nat]]
    <3>1. PICK p \in [written : Nat, read : Nat] : p = pipe[s]
      BY DEF Types
    <3>2. [p EXCEPT !.read = p.read + n] \in [written : Nat, read : Nat]
      OBVIOUS
    <3>3. pipe' = [pipe EXCEPT ![s] = [p EXCEPT !.read = p.read + n]]
      BY <2>7, <3>1, Zenon
    <3> QED
      BY <3>2, <3>3, Zenon DEF Types
  <2>9. \A r \in Stream : pipe'[r].read = IF r = s THEN c.total + n ELSE pipe[r].read
    BY <2>2, <2>7 DEF Types
  <2>10. \A r \in Stream : capture'[r] = IF r = s THEN d ELSE capture[r]
    BY <2>5 DEF Types
  <2>11. ASSUME NEW r \in Stream
         PROVE  /\ pipe'[r].read = capture'[r].total
                /\ EndsKept(capture'[r])
                /\ SpoolFits(r, capture'[r])
    <3>1. CASE r = s
      BY <3>1, <2>3, <2>9, <2>10, Zenon
    <3>2. CASE r # s
      BY <3>2, <2>9, <2>10, Zenon DEF CapturesFit
    <3> QED
      BY <3>1, <3>2
  <2>12. call'.pc \in Open => CutAtLine(capture'["stderr"])
    <3>1. "stderr" \in Stream
      BY DEF Stream
    <3>2. CASE s = "stderr"
      BY <3>1, <3>2, <2>2, <2>3, <2>7, <2>10, Zenon DEF CapturesFit
    <3>3. CASE s # "stderr"
      BY <3>1, <3>3, <2>7, <2>10, Zenon DEF CapturesFit
    <3> QED
      BY <3>2, <3>3
  <2>13. CapturesFit'
    BY <2>11, <2>12, Zenon DEF CapturesFit
  <2> QED
    BY <2>6, <2>8, <2>13
<1>5. CASE Closes
  <2>1. /\ UNCHANGED pipe
        /\ capture' = [s \in Stream |-> Close(capture[s])]
        /\ call'.pc \notin Open
    BY <1>5, ClosesFacts DEF Open, Awaits
  <2>2. ASSUME NEW s \in Stream
        PROVE  /\ capture'[s] \in Capture
               /\ pipe'[s].read = capture'[s].total
               /\ EndsKept(capture'[s])
               /\ SpoolFits(s, capture'[s])
    <3>1. PICK c \in Capture : c = capture[s] /\ EndsKept(c) /\ SpoolFits(s, c)
                               /\ pipe[s].read = c.total
      BY DEF Types, CapturesFit
    <3>2. PICK d \in Capture : d = Close(c) /\ d.total = c.total /\ EndsKept(d) /\ SpoolFits(s, d)
      BY <3>1, CloseFits, Zenon
    <3>3. capture'[s] = d
      BY <2>1, <3>1, <3>2, Zenon
    <3> QED
      BY <2>1, <3>1, <3>2, <3>3
  <2>3. capture' \in [Stream -> Capture]
    BY <2>1, <2>2
  <2>4. CapturesFit'
    BY <2>1, <2>2, Zenon DEF CapturesFit
  <2> QED
    BY <2>1, <2>3, <2>4 DEF Types
<1>6. CASE \E choice \in BOOLEAN : PrepareRun(choice)
  <2>1. PICK spooled \in BOOLEAN :
          /\ capture' = [s \in Stream |-> EmptyCapture(spooled)]
          /\ pipe' = NoBytes
    BY <1>6, PrepareFacts
  <2>2. ASSUME NEW s \in Stream
        PROVE  /\ capture'[s] \in Capture
               /\ capture'[s].total = 0
               /\ EndsKept(capture'[s])
               /\ SpoolFits(s, capture'[s])
               /\ CutAtLine(capture'[s])
    <3>1. capture'[s] = EmptyCapture(spooled)
      BY <2>1, Zenon
    <3> QED
      BY <3>1, EmptyFits, Zenon
  <2>3. capture' \in [Stream -> Capture]
    BY <2>1, <2>2
  <2>4. pipe' \in [Stream -> [written : Nat, read : Nat]] /\ \A s \in Stream : pipe'[s].read = 0
    BY <2>1 DEF NoBytes
  <2>5. "stderr" \in Stream
    BY DEF Stream
  <2>6. CapturesFit'
    BY <2>2, <2>4, <2>5, Zenon DEF CapturesFit
  <2> QED
    BY <2>3, <2>4, <2>6
<1>7. CASE Moves \/ Signals \/ Reports \/ (TransportRefused /\ Worker)
           \/ \E choice \in BOOLEAN : Spawn(choice)
  <2>1. UNCHANGED << pipe, capture >> /\ (call'.pc \in Open => call.pc \in Open)
    BY <1>7, MovesFacts, SignalsFacts, ReportsFacts, RefusedFacts, SpawnFacts DEF Open, Awaits
  <2> QED
    BY <2>1, <1>3
<1>8. CASE Child \/ Reap
  <2>1. UNCHANGED call
    BY <1>8, ChildLeavesCall
  <2>2. UNCHANGED << pipe, capture >> \/ (\E s \in Stream : Write(s)) \/ Pumps
    BY <1>8, ChildFacts
  <2> QED
    BY <2>1, <2>2, <1>2, <1>3, <1>4
<1> QED
  BY StepCases, <1>4, <1>5, <1>6, <1>7, <1>8

\* The call keeps its kind, and all its state its type.
LEMMA TypesNext ==
  ASSUME Types, CapturesFit, Next
  PROVE  Types' /\ call'.kind = call.kind
<1>1. /\ pipe' \in [Stream -> [written : Nat, read : Nat]]
      /\ capture' \in [Stream -> Capture]
  BY CapturesNext
<1>2. /\ call' \in CallState /\ call'.kind = call.kind
      /\ leader' \in Leader
      /\ journal' \in Seq(JournalRow)
      /\ results' \in Seq(Result)
  <2>1. CASE Child \/ Reap \/ Pumps
    BY <2>1, ChildLeavesCall, ChildFacts DEF Types
  <2>2. CASE Moves
    BY <2>2, MovesFacts DEF Types
  <2>3. CASE Closes
    BY <2>3, ClosesFacts DEF Types
  <2>4. CASE Signals
    BY <2>4, SignalsFacts DEF Types
  <2>5. CASE Reports
    <3>1. call' \in CallState /\ call'.kind = call.kind /\ UNCHANGED leader
          /\ results' \in Seq(Result)
      BY <2>5, ReportsFacts
    <3>2. journal' \in Seq(JournalRow)
      <4>1. CASE Worker
        BY <2>5, <4>1, ReportsFacts DEF Types
      <4>2. CASE ~ Worker
        <5>1. PICK event \in { "completion", "spawn_refused" } :
                journal' = Append(journal, Row(event))
          BY <2>5, <4>2, ReportsFacts
        <5>2. Row(event) \in JournalRow
          BY RowTyped
        <5> QED
          BY <5>1, <5>2 DEF Types
      <4> QED
        BY <4>1, <4>2
    <3> QED
      BY <3>1, <3>2 DEF Types
  <2>6. CASE TransportRefused /\ Worker
    BY <2>6, RefusedFacts DEF Types
  <2>7. CASE \E choice \in BOOLEAN : PrepareRun(choice)
    <3>1. call' \in CallState /\ call'.kind = call.kind /\ UNCHANGED results
          /\ leader' = NoLeader
      BY <2>7, PrepareFacts
    <3>2. NoLeader \in Leader
      BY DEF NoLeader, Leader, Exit
    <3>3. journal' \in Seq(JournalRow)
      <4>1. Row("spawn_attempt") \in JournalRow
        BY RowTyped
      <4>2. UNCHANGED journal \/ journal' = Append(journal, Row("spawn_attempt"))
        BY <2>7, PrepareFacts
      <4>3. journal \in Seq(JournalRow)
        BY DEF Types
      <4> QED
        BY <4>1, <4>2, <4>3
    <3> QED
      BY <3>1, <3>2, <3>3 DEF Types
  <2>8. CASE \E choice \in BOOLEAN : Spawn(choice)
    BY <2>8, SpawnFacts DEF Types
  <2> QED
    BY <2>1, <2>2, <2>3, <2>4, <2>5, <2>6, <2>7, <2>8, StepCases
<1> QED
  BY <1>1, <1>2 DEF Types

\* A child lives where the code knows of it.
LEMMA ChildPlacedNext ==
  ASSUME Types, ChildPlaced, Next
  PROVE  ChildPlaced'
<1>1. CASE Child \/ Reap \/ Pumps
  BY <1>1, ChildLeavesCall, ChildFacts DEF ChildPlaced, Running
<1>2. CASE Moves
  BY <1>2, MovesFacts DEF ChildPlaced, Running, Reaped
<1>3. CASE Closes
  BY <1>3, ClosesFacts DEF ChildPlaced, Running, Reaped, Awaits
<1>4. CASE Signals
  BY <1>4, SignalsFacts DEF ChildPlaced, Running
<1>5. CASE Reports
  BY <1>5, ReportsFacts DEF ChildPlaced, Running
<1>6. CASE TransportRefused /\ Worker
  BY <1>6, RefusedFacts DEF ChildPlaced, Running
<1>7. CASE \E choice \in BOOLEAN : PrepareRun(choice)
  BY <1>7, PrepareFacts DEF ChildPlaced, Running, NoLeader
<1>8. CASE \E choice \in BOOLEAN : Spawn(choice)
  BY <1>8, SpawnFacts DEF ChildPlaced
<1> QED
  BY <1>1, <1>2, <1>3, <1>4, <1>5, <1>6, <1>7, <1>8, StepCases

\* Only a call that timed out has signalled the child it gives a verdict on.
LEMMA SignalsToldNext ==
  ASSUME Types, SignalsTold, Next
  PROVE  SignalsTold'
<1>1. CASE Child \/ Reap \/ Pumps
  BY <1>1, ChildLeavesCall, ChildFacts DEF SignalsTold
<1>2. CASE Moves
  BY <1>2, MovesFacts DEF SignalsTold
<1>3. CASE Closes
  BY <1>3, ClosesFacts DEF SignalsTold, Awaits
<1>4. CASE Signals
  BY <1>4, SignalsFacts DEF SignalsTold
<1>5. CASE Reports
  BY <1>5, ReportsFacts DEF SignalsTold
<1>6. CASE TransportRefused /\ Worker
  BY <1>6, RefusedFacts DEF SignalsTold
<1>7. CASE \E choice \in BOOLEAN : PrepareRun(choice)
  BY <1>7, PrepareFacts DEF SignalsTold, NoLeader
<1>8. CASE \E choice \in BOOLEAN : Spawn(choice)
  BY <1>8, SpawnFacts DEF SignalsTold
<1> QED
  BY <1>1, <1>2, <1>3, <1>4, <1>5, <1>6, <1>7, <1>8, StepCases

\* Each command is announced in the journal until its result is reported.
LEMMA AttemptNext ==
  ASSUME Types, AttemptJournalled, Next
  PROVE  AttemptJournalled'
<1>1. ASSUME UNCHANGED << journal, results >>, call'.kind = call.kind,
             call'.pc \in Announced => call.pc \in Announced,
             call'.pc = "on_spawn" => call.pc = "on_spawn"
      PROVE  AttemptJournalled'
  BY <1>1 DEF AttemptJournalled, Worker, Announced, Row, Sequence
<1>2. CASE Child \/ Reap \/ Pumps
  BY <1>1, <1>2, ChildLeavesCall
<1>3. CASE Moves
  <2>1. CASE Worker
    BY <2>1, <1>3, MovesFacts DEF AttemptJournalled, Worker
  <2>2. CASE ~ Worker
    <3>1. call.pc # "on_spawn"
      BY <2>2 DEF AttemptJournalled
    <3> QED
      BY <3>1, <1>1, <1>3, MovesFacts DEF Announced, Awaits
  <2> QED
    BY <2>1, <2>2
<1>4. CASE Closes
  BY <1>1, <1>4, ClosesFacts DEF Announced, Awaits
<1>5. CASE Signals
  BY <1>1, <1>5, SignalsFacts DEF Announced, Awaits
<1>6. CASE Reports
  BY <1>6, ReportsFacts DEF AttemptJournalled, Announced, Awaits
<1>7. CASE TransportRefused /\ Worker
  BY <1>1, <1>7, RefusedFacts DEF Announced, Awaits
<1>8. CASE \E choice \in BOOLEAN : PrepareRun(choice)
  <2>1. CASE Worker
    BY <2>1, <1>8, PrepareFacts DEF AttemptJournalled, Worker
  <2>2. CASE ~ Worker
    <3>1. journal' = Append(journal, Row("spawn_attempt")) /\ UNCHANGED results
      BY <2>2, <1>8, PrepareFacts
    <3>2. Contains(journal', Row("spawn_attempt"))
      BY <3>1, RowTyped, AppendContains, Zenon DEF Types
    <3>3. Row("spawn_attempt")' = Row("spawn_attempt")
      BY <3>1 DEF Row, Sequence
    <3>4. call'.pc # "on_spawn"
      BY <1>8, PrepareFacts
    <3> QED
      BY <3>2, <3>3, <3>4, Zenon DEF AttemptJournalled
  <2> QED
    BY <2>1, <2>2
<1>9. CASE \E choice \in BOOLEAN : Spawn(choice)
  <2>1. CASE Worker
    BY <2>1, <1>9, SpawnFacts DEF AttemptJournalled, Worker
  <2>2. CASE ~ Worker
    BY <2>2, <1>1, <1>9, SpawnFacts DEF Announced
  <2> QED
    BY <2>1, <2>2
<1> QED
  BY <1>2, <1>3, <1>4, <1>5, <1>6, <1>7, <1>8, <1>9, StepCases

\* Each result that is reported is closed in the journal.
LEMMA ResultsNext ==
  ASSUME Types, ResultsJournalled, CapturesFit, Next
  PROVE  ResultsJournalled'
<1>1. CASE UNCHANGED << journal, results >>
  BY <1>1, TypesNext DEF ResultsJournalled, Worker
<1>2. CASE Worker
  BY <1>2, TypesNext DEF ResultsJournalled, Worker
<1>3. CASE Reports /\ ~ Worker
  <2>1. PICK event \in { "completion", "spawn_refused" } :
          journal' = Append(journal, Row(event))
    BY <1>3, ReportsFacts
  <2>2. PICK r \in Result : results' = Append(results, r)
    BY <1>3, ReportsFacts
  <2>3. Contains(journal', Row(event)) /\ \A e : Contains(journal, e) => Contains(journal', e)
    BY <2>1, RowTyped, AppendContains, Zenon DEF Types
  <2>4. results \in Seq(Result) /\ Len(results) \in Nat /\ Len(results') = Len(results) + 1
    BY <2>2 DEF Types
  <2>5. ASSUME NEW i \in 1 .. Len(results')
        PROVE  \E e \in { "completion", "spawn_refused" } :
                 Contains(journal', [sequence |-> i, event |-> e])
    <3>1. CASE i \in 1 .. Len(results)
      <4>1. PICK e \in { "completion", "spawn_refused" } :
              Contains(journal, [sequence |-> i, event |-> e])
        BY <1>3, <3>1, Zenon DEF ResultsJournalled
      <4> QED
        BY <4>1, <2>3, Zenon
    <3>2. CASE i \notin 1 .. Len(results)
      <4>1. i = Len(results) + 1
        BY <3>2, <2>4
      <4>2. Row(event) = [sequence |-> i, event |-> event]
        BY <4>1 DEF Row, Sequence
      <4> QED
        BY <4>2, <2>3, Zenon
    <3> QED
      BY <3>1, <3>2
  <2> QED
    BY <2>5, Zenon DEF ResultsJournalled
<1>4. CASE (\E choice \in BOOLEAN : PrepareRun(choice)) /\ ~ Worker
  <2>1. journal' = Append(journal, Row("spawn_attempt")) /\ UNCHANGED results
    BY <1>4, PrepareFacts
  <2>2. \A e : Contains(journal, e) => Contains(journal', e)
    BY <2>1, RowTyped, AppendContains, Zenon DEF Types
  <2> QED
    BY <2>1, <2>2, <1>4, Zenon DEF ResultsJournalled
<1> QED
  BY <1>1, <1>2, <1>3, <1>4, StepCases, ChildLeavesCall, MovesFacts, ClosesFacts,
     SignalsFacts, RefusedFacts, SpawnFacts

\* The result of a worker is that of the stream that was read.
LEMMA WorkerResultNext ==
  ASSUME Types, WorkerResult, CapturesFit, Next
  PROVE  WorkerResult'
<1>1. CASE ~ Worker
  BY <1>1, TypesNext DEF WorkerResult, Worker
<1>2. ASSUME Worker, UNCHANGED << results, capture >>,
             call'.pc = "returned" <=> call.pc = "returned",
             call'.pc = "spawning" => call.pc = "spawning"
      PROVE  WorkerResult'
  BY <1>2, TypesNext DEF WorkerResult, Worker
<1>3. CASE Worker /\ (Child \/ Reap \/ Pumps)
  <2>1. UNCHANGED << call, results >>
    BY <1>3, ChildLeavesCall
  <2>2. CASE UNCHANGED capture
    BY <2>1, <2>2, <1>2, <1>3
  <2>3. CASE Pumps
    <3>1. call.pc # "returned" /\ call.pc # "spawning"
      BY <2>3 DEF Pumps, Pump, Pumping, Awaits
    <3> QED
      BY <2>1, <3>1 DEF WorkerResult, Worker
  <2> QED
    BY <1>3, <2>2, <2>3, ChildFacts
<1>4. CASE Worker /\ Moves
  BY <1>2, <1>4, MovesFacts
<1>5. CASE Worker /\ Closes
  <2>1. UNCHANGED results /\ call.pc # "returned" /\ call'.pc # "returned"
        /\ call'.pc # "spawning" /\ call'.kind = call.kind
    BY <1>5, ClosesFacts DEF Awaits
  <2> QED
    BY <2>1 DEF WorkerResult, Worker
<1>6. CASE Worker /\ Signals
  BY <1>2, <1>6, SignalsFacts
<1>7. CASE Worker /\ Reports
  <2>1. UNCHANGED capture /\ call'.kind = call.kind /\ call'.pc = "returned"
    BY <1>7, ReportsFacts
  <2>2. PICK r \in Result : /\ results' = Append(results, r)
                            /\ \/ call.pc = "spawning"
                               \/ call.pc = "finish" /\ r = Verdict
    BY <1>7, ReportsFacts
  <2>3. results = << >> /\ (call.pc = "spawning" => capture["stdout"].total = 0)
    BY <1>7, <2>2 DEF WorkerResult
  <2>4. Len(results') = 1 /\ results'[1] = r
    BY <2>2, <2>3
  <2>5. r = Verdict => r.structured = Structured(capture["stdout"])
    BY <1>7 DEF Verdict
  <2>6. capture["stdout"].total = 0 \/ results'[1].structured = Structured(capture["stdout"])
    BY <2>2, <2>3, <2>4, <2>5, Zenon
  <2> QED
    BY <2>1, <2>4, <2>6, Zenon DEF WorkerResult
<1>8. CASE Worker /\ TransportRefused
  BY <1>2, <1>8, RefusedFacts
<1>9. CASE Worker /\ \E choice \in BOOLEAN : PrepareRun(choice)
  <2>1. PICK spooled \in BOOLEAN : capture' = [s \in Stream |-> EmptyCapture(spooled)]
    BY <1>9, PrepareFacts
  <2>2. capture'["stdout"].total = 0
    BY <2>1 DEF Stream, EmptyCapture
  <2>3. UNCHANGED results /\ call.pc = "start" /\ call'.pc = "spawning" /\ call'.kind = call.kind
    BY <1>9, PrepareFacts
  <2> QED
    BY <2>2, <2>3, <1>9 DEF WorkerResult, Worker
<1>10. CASE Worker /\ \E choice \in BOOLEAN : Spawn(choice)
  BY <1>2, <1>10, SpawnFacts
<1> QED
  BY <1>1, <1>3, <1>4, <1>5, <1>6, <1>7, <1>8, <1>9, <1>10, StepCases
-----------------------------------------------------------------------------
(* The invariant *)

\* A call begins with nothing started, read or reported.
LEMMA InitHolds == Init => IInv
<1> SUFFICES ASSUME Init
             PROVE  IInv
  OBVIOUS
<1>1. PICK timed_out \in { FALSE }, sigkill \in { FALSE }, known \in { FALSE },
           kind \in { "worker", "validation" } :
        call = [kind |-> kind, pc |-> "start", timed_out |-> timed_out,
                sigkill |-> sigkill, known |-> known]
  BY DEF Init
<1>2. call \in CallState /\ call.pc = "start"
  BY <1>1 DEF CallState, PC
<1>3. leader \in Leader /\ leader.state = "none" /\ leader.hit = FALSE
  BY DEF Init, NoLeader, Leader, Exit
<1>4. /\ pipe \in [Stream -> [written : Nat, read : Nat]]
      /\ \A s \in Stream : pipe[s].read = 0
  BY DEF Init, NoBytes
<1>5. /\ capture \in [Stream -> Capture]
      /\ \A s \in Stream : /\ capture[s].total = 0
                           /\ EndsKept(capture[s])
                           /\ SpoolFits(s, capture[s])
                           /\ CutAtLine(capture[s])
  <2>1. capture = [s \in Stream |-> EmptyCapture(FALSE)]
    BY DEF Init
  <2>2. \A s \in Stream :
          /\ EmptyCapture(FALSE) \in Capture /\ EmptyCapture(FALSE).total = 0
          /\ EndsKept(EmptyCapture(FALSE)) /\ SpoolFits(s, EmptyCapture(FALSE))
          /\ CutAtLine(EmptyCapture(FALSE))
    BY EmptyFits
  <2> HIDE DEF EndsKept, SpoolFits, CutAtLine
  <2>3. ASSUME NEW s \in Stream
        PROVE  capture[s] = EmptyCapture(FALSE)
    BY <2>1, Zenon
  <2>4. capture \in [Stream -> Capture]
    BY <2>1, <2>2, Zenon
  <2> QED
    BY <2>2, <2>3, <2>4, Zenon
<1>6. journal = << >> /\ results = << >> /\ journal \in Seq(JournalRow)
      /\ results \in Seq(Result) /\ Len(results) = 0
  BY EmptySeq DEF Init
<1>7. Types
  BY <1>2, <1>3, <1>4, <1>5, <1>6 DEF Types
<1>8. ChildPlaced
  BY <1>3 DEF ChildPlaced, Running
<1>9. SignalsTold
  BY <1>2, <1>3 DEF SignalsTold
<1>10. AttemptJournalled
  BY <1>2 DEF AttemptJournalled, Announced, Awaits
<1>11. ResultsJournalled
  <2>1. 1 .. Len(results) = {}
    BY <1>6
  <2> QED
    BY <2>1, Zenon DEF ResultsJournalled
<1>12. CapturesFit
  <2>1. "stderr" \in Stream
    BY DEF Stream
  <2>2. \A s \in Stream : /\ pipe[s].read = capture[s].total
                          /\ EndsKept(capture[s])
                          /\ SpoolFits(s, capture[s])
    BY <1>4, <1>5, Zenon
  <2> QED
    BY <1>5, <2>1, <2>2, Zenon DEF CapturesFit
<1>13. WorkerResult
  BY <1>2, <1>6 DEF WorkerResult
<1> QED
  BY <1>7, <1>8, <1>9, <1>10, <1>11, <1>12, <1>13, Zenon DEF IInv

\* Every step keeps the invariant.
LEMMA StepHolds == IInv /\ [Next]_vars => IInv'
<1>1. ASSUME IInv, Next
      PROVE  IInv'
  <2>1. /\ Types /\ ChildPlaced /\ SignalsTold /\ AttemptJournalled
        /\ ResultsJournalled /\ CapturesFit /\ WorkerResult
    BY <1>1, Zenon DEF IInv
  <2>2. Types'
    BY <1>1, <2>1, TypesNext, Zenon
  <2>3. ChildPlaced'
    BY <1>1, <2>1, ChildPlacedNext, Zenon
  <2>4. SignalsTold'
    BY <1>1, <2>1, SignalsToldNext, Zenon
  <2>5. AttemptJournalled'
    BY <1>1, <2>1, AttemptNext, Zenon
  <2>6. ResultsJournalled'
    BY <1>1, <2>1, ResultsNext, Zenon
  <2>7. CapturesFit'
    BY <1>1, <2>1, CapturesNext, Zenon
  <2>8. WorkerResult'
    BY <1>1, <2>1, WorkerResultNext, Zenon
  <2> QED
    BY <2>2, <2>3, <2>4, <2>5, <2>6, <2>7, <2>8, Zenon DEF IInv
<1>2. ASSUME IInv, UNCHANGED vars
      PROVE  IInv'
  <2>1. /\ Types /\ ChildPlaced /\ SignalsTold /\ AttemptJournalled
        /\ ResultsJournalled /\ CapturesFit /\ WorkerResult
    BY <1>2, Zenon DEF IInv
  <2>2. UNCHANGED << call, leader, pipe, capture, journal, results >>
    BY <1>2 DEF vars
  <2>3. Types'
    BY <2>1, <2>2 DEF Types
  <2>4. ChildPlaced'
    BY <2>1, <2>2 DEF ChildPlaced, Running
  <2>5. SignalsTold'
    BY <2>1, <2>2 DEF SignalsTold
  <2>6. AttemptJournalled'
    BY <2>1, <2>2 DEF AttemptJournalled, Worker, Row, Sequence
  <2>7. ResultsJournalled'
    BY <2>1, <2>2 DEF ResultsJournalled, Worker
  <2>8. CapturesFit'
    BY <2>1, <2>2 DEF CapturesFit
  <2>9. WorkerResult'
    BY <2>1, <2>2 DEF WorkerResult, Worker
  <2> QED
    BY <2>3, <2>4, <2>5, <2>6, <2>7, <2>8, <2>9, Zenon DEF IInv
<1> QED
  BY <1>1, <1>2, Zenon

\* The invariant holds of every run_worker and run_validations call.
THEOREM ProcessInvariant == Spec => []IInv
<1>1. Init => IInv
  BY InitHolds
<1>2. IInv /\ [Next]_vars => IInv'
  BY StepHolds
<1> QED
  BY <1>1, <1>2, PTL DEF Spec
-----------------------------------------------------------------------------
(* What follows from it *)

\* A call of run_worker or run_validations that returned or raised left no
\* child running, whatever signals the child ignored and however its spawn was
\* refused: killpg and the wait come before every such end.
THEOREM EndedCallsLeaveNone == Spec => []EndedCallsLeaveNoChild
<1>1. IInv => EndedCallsLeaveNoChild
  BY DEF IInv, ChildPlaced, EndedCallsLeaveNoChild
<1> QED
  BY <1>1, ProcessInvariant, PTL

\* StreamCapture.text() is honest for every stream, every cap and every way to
\* cut a stream into chunks: it is all that was read, or both its ends and the
\* exact count of the bytes between them.
THEOREM ExcerptsTellWhatTheyOmit == Spec => []ExcerptsAreHonest
<1>1. ASSUME IInv
      PROVE  ExcerptsAreHonest
  <2>1. ASSUME NEW s \in Stream
        PROVE  capture[s] \in Capture /\ EndsKept(capture[s])
    BY <1>1, <2>1, Zenon DEF IInv, Types, CapturesFit
  <2> QED
    BY <2>1, TextIsHonest, Zenon DEF ExcerptsAreHonest
<1> QED
  BY <1>1, ProcessInvariant, PTL

\* The redacted stderr spool holds whole lines while the pumps run, and with
\* what waits for its line's end it is every byte read.
THEOREM SpoolsAreCutAtLines == Spec => []SpoolsKeepLines
<1>1. ASSUME IInv
      PROVE  SpoolsKeepLines
  <2> DEFINE c == capture["stderr"]
  <2> SUFFICES ASSUME c.spooled
               PROVE  /\ c.spool \o c.pending = StreamUpTo(c.total)
                      /\ Pumping => (c.spool = << >> \/ Newline(Last(c.spool)))
    BY DEF SpoolsKeepLines
  <2>1. c \in Capture /\ SpoolFits("stderr", c) /\ (call.pc \in Open => CutAtLine(c))
    BY <1>1 DEF IInv, Types, CapturesFit, Stream
  <2>2. PICK p \in Nat, t \in Nat : p = Len(c.spool) /\ t = c.total
    BY <2>1 DEF Capture
  <2>3. p <= t /\ c.spool = Bytes(0, p) /\ c.pending = Bytes(p, t)
    BY <2>1, <2>2, Zenon DEF SpoolFits
  <2> HIDE DEF c
  <2>4. c.spool \o c.pending = StreamUpTo(c.total)
    <3>1. 0 \in Nat /\ 0 <= p
      OBVIOUS
    <3>2. Bytes(0, p) \o Bytes(p, t) = Bytes(0, t)
      BY <3>1, <2>3, BytesJoin, Zenon
    <3>3. Bytes(0, t) = StreamUpTo(t)
      BY DEF Bytes, StreamUpTo
    <3> QED
      BY <3>2, <3>3, <2>2, <2>3, Zenon
  <2>5. ASSUME Pumping
        PROVE  c.spool = << >> \/ Newline(Last(c.spool))
    <3>1. CutAtLine(c)
      BY <2>1, <2>5 DEF Pumping, Open
    <3>2. CASE p = 0
      <4>1. c.spool \in Seq(Nat) /\ Len(c.spool) = 0
        BY <2>1, <2>2, <3>2 DEF Capture
      <4> QED
        BY <4>1, EmptySeq
    <3>3. CASE p # 0
      <4>1. Newline(p)
        BY <3>1, <3>3, <2>2 DEF CutAtLine
      <4>2. 0 \in Nat /\ 0 <= p /\ p - 0 = p /\ 0 + p = p /\ p \in 1 .. p - 0
        BY <3>3
      <4>3. Bytes(0, p)[p] = p
        BY <4>2, BytesAreSeq
      <4>4. Last(c.spool) = p
        BY <4>3, <2>2, <2>3, Zenon DEF Last
      <4> QED
        BY <4>1, <4>4
    <3> QED
      BY <3>2, <3>3
  <2> QED
    BY <2>4, <2>5
<1> QED
  BY <1>1, ProcessInvariant, PTL

\* No validation command runs that the journal of orders does not announce,
\* and no result of one stands without the row that closes it.
THEOREM JournalNamesEveryRun == Spec => []JournalCoversRuns
<1>1. IInv => JournalCoversRuns
  BY Zenon DEF IInv, AttemptJournalled, ResultsJournalled, JournalCoversRuns, Announced
<1> QED
  BY <1>1, ProcessInvariant, PTL

\* The structured result on the last line of a worker's stdout is recovered
\* from the spool after any volume of output.
THEOREM LastLineSurvives == Spec => []ResultSurvivesVolume
<1>1. ASSUME IInv
      PROVE  ResultSurvivesVolume
  <2> DEFINE c == capture["stdout"]
  <2> SUFFICES ASSUME Worker, call.pc = "returned", c.spooled,
                      Truncated(c), Newline(c.total)
               PROVE  results[1].structured = << c.total - 1, c.total >>
    BY DEF ResultSurvivesVolume
  <2>1. c \in Capture /\ SpoolFits("stdout", c)
    BY <1>1 DEF IInv, Types, CapturesFit, Stream
  <2>2. c.total = 0 \/ results[1].structured = Structured(c)
    BY <1>1 DEF IInv, WorkerResult
  <2> HIDE DEF c
  <2>3. c.total # 0
    <3>1. Cap \in Nat /\ c.total \in Nat
      BY <2>1, ProcessAssumption DEF Capture
    <3> QED
      BY <3>1 DEF Truncated
  <2>4. Structured(c) = << c.total - 1, c.total >>
    BY <2>1, StructuredIsLast
  <2> QED
    BY <2>2, <2>3, <2>4
<1> QED
  BY <1>1, ProcessInvariant, PTL

\* Only a step that reports adds a result.
LEMMA OnlyReportsAdd ==
  ASSUME Types, Next
  PROVE  Reports \/ UNCHANGED results
<1>1. CASE Child \/ Reap \/ Pumps
  BY <1>1, ChildLeavesCall
<1>2. CASE Moves
  BY <1>2, MovesFacts
<1>3. CASE Closes
  BY <1>3, ClosesFacts
<1>4. CASE Signals
  BY <1>4, SignalsFacts
<1>5. CASE TransportRefused /\ Worker
  BY <1>5, RefusedFacts
<1>6. CASE \E choice \in BOOLEAN : PrepareRun(choice) \/ Spawn(choice)
  BY <1>6, PrepareFacts, SpawnFacts
<1> QED
  BY <1>1, <1>2, <1>3, <1>4, <1>5, <1>6, StepCases, Zenon

\* A validation passes, or a worker exits clean, only by a zero of its own: no
\* signal of the dispatcher came first, and no deadline.
THEOREM PassesAreOwn == Spec => PassesAreEarned
<1>1. ASSUME IInv, [Next]_vars, Len(results') > Len(results), Last(results').passed
      PROVE  leader.exit = "zero" /\ ~ leader.hit /\ ~ Last(results').timed_out
  <2>1. Types /\ SignalsTold /\ results \in Seq(Result)
    BY <1>1, Zenon DEF IInv, Types
  <2>2. results' # results
    <3>1. Len(results) \in Nat
      BY <2>1
    <3> QED
      BY <1>1, <3>1
  <2>3. Next
    BY <1>1, <2>2 DEF vars
  <2>4. Reports
    BY <2>1, <2>2, <2>3, OnlyReportsAdd, Zenon
  <2>5. PICK r \in Result :
          /\ results' = Append(results, r)
          /\ \/ r = ChildlessResult
             \/ call.pc = "finish" /\ r = Verdict
    BY <2>1, <2>4, ReportsFacts, Zenon
  <2>6. Last(results') = r
    <3>1. Last(Append(results, r)) = r
      BY <2>1 DEF Last
    <3> QED
      BY <3>1, <2>5, Zenon
  <2>7. r.passed
    BY <1>1, <2>6, Zenon
  <2>8. r # ChildlessResult
    BY <2>7 DEF ChildlessResult
  <2>9. call.pc = "finish" /\ r = Verdict
    BY <2>5, <2>8
  <2>10. r.passed = Passed /\ r.timed_out = call.timed_out
    BY <2>9 DEF Verdict
  <2>11. ExitCode = "zero" /\ ~ call.timed_out
    BY <2>7, <2>10 DEF Passed
  <2>12. leader.exit = "zero"
    BY <2>11 DEF ExitCode
  <2>13. ~ leader.hit
    BY <2>1, <2>9, <2>11, Zenon DEF SignalsTold
  <2> QED
    BY <2>6, <2>10, <2>11, <2>12, <2>13
<1>2. IInv /\ [Next]_vars =>
        [ Len(results') > Len(results) /\ Last(results').passed
            => leader.exit = "zero" /\ ~ leader.hit /\ ~ Last(results').timed_out ]_vars
  BY <1>1
<1> QED
  BY <1>2, ProcessInvariant, PTL DEF Spec, PassesAreEarned
=============================================================================
