----------------------------- MODULE CursorProofs -----------------------------
(***************************************************************************)
(* Proofs about EventLog, for any tabs, limits, records and faults: the    *)
(* log is the newest records written, whatever its cache holds; a notice   *)
(* is said once; and the cursor passes none that was not said or left out. *)
(***************************************************************************)
EXTENDS EventLog, SequenceTheorems, FiniteSetTheorems, WellFoundedInduction, TLAPS

-----------------------------------------------------------------------------
(* The invariant *)

Until(n) == SubSeq(issued, 1, n)
WasLog(rows) == \E n \in 0..Len(issued) : rows = Newest(Keep, Until(n))
FileSig == [written : Nat, size : Nat]

(* A signature the file has or had: it changes with every replacement.       *)
Seen(sig) == /\ sig \in FileSig /\ sig.written <= written
             /\ sig.written = written => sig = Signature

(* Record i has number i, the log is the newest of them, and what is cached
   under the file's signature is what the file has.                          *)
LogInv ==
  /\ issued \in Seq(Rows) /\ Len(issued) <= MaxSeq
  /\ \A i \in 1..Len(issued) : issued[i].seq = i
  /\ written \in Nat /\ written <= Len(issued)
  /\ written = 0 => issued = <<>>
  /\ log = Newest(Keep, issued)
  /\ Seen(cache.sig) /\ WasLog(cache.rows)
  /\ cache.sig.written = written => cache.rows = log

(* The log an emit goes by is the one it replaces: it alone writes.          *)
WriterInv ==
  /\ writer.step \in {"idle", "read", "write"}
  /\ writer.step = "read" => writer.sig = Signature
  /\ writer.step = "write" => writer.rows = log
  /\ writer.step # "idle" => /\ writer.batch \in Batches
                             /\ Len(issued) + Len(writer.batch) <= MaxSeq

(* What a cursor leaves behind is said or left out.                          *)
Passed(c) == \A i \in Due : i <= c /\ told[i] = 0 => LeftOut(i)

(* So is what an answer leaves out of what it says.                          *)
Passes(events) ==
  \A i \in Due : \A e \in events : i < e /\ i \notin events /\ told[i] = 0 => LeftOut(i)

Upto == {NoCursor} \cup 0..Len(issued)
Polled(p) ==
  /\ p.step \in {"idle", "asked", "stat", "answered"}
  /\ p.step \in {"asked", "stat"} => /\ p.ev \in Upto /\ Passed(p.ev)
                                     /\ p.ev # NoCursor => since # NoCursor
  /\ p.step = "stat" => Seen(p.sig)
  /\ p.step = "answered" => /\ p.top \in 0..Len(issued) /\ p.asked \in BOOLEAN
                            /\ p.events \subseteq 1..Len(issued) /\ Passes(p.events)
                            /\ IF p.asked THEN since # NoCursor ELSE p.events = {}
PollInv == tab = [t \in Tabs |-> tab[t]] /\ \A t \in Tabs : Polled(tab[t])

(* The cursors of the browser: of the first visit, and not beyond the log.   *)
VisitInv ==
  /\ mem \in [Tabs -> Upto] /\ stored \in Upto /\ since \in Upto
  /\ rewound \in BOOLEAN /\ faults \in 0..MaxFaults
  /\ told \in [1..MaxSeq -> Nat]
  /\ since = NoCursor => /\ stored = NoCursor /\ \A t \in Tabs : mem[t] = NoCursor
                         /\ \A n \in 1..MaxSeq : told[n] = 0
  /\ stored = NoCursor => since = NoCursor
  /\ Passed(stored) /\ \A t \in Tabs : Passed(mem[t])

(* As long as no slow first answer put it back, the cursor of localStorage is
   the furthest, and what was said lies behind it.                           *)
SaidInv ==
  ~rewound => /\ since <= stored /\ \A t \in Tabs : mem[t] <= stored
              /\ \A n \in 1..MaxSeq : /\ told[n] <= 1
                                      /\ told[n] # 0 => since < n /\ n <= stored

CursorInv == LogInv /\ WriterInv /\ PollInv /\ VisitInv /\ SaidInv

-----------------------------------------------------------------------------
(* Numbers *)

(* A finite set of numbers that is not empty has a greatest.                 *)
LEMMA MaxIs ==
  ASSUME NEW A, A \subseteq Int, IsFiniteSet(A), A # {}
  PROVE  Max(A) \in A /\ \A k \in A : k <= Max(A)
<1> DEFINE later(x) == {k \in A : x < k}
           T == {later(x) : x \in A}
<1>1. T \subseteq FiniteSubsetsOf(A) /\ T # {}
  <2>1. \A x \in A : later(x) \in SUBSET A
    OBVIOUS
  <2>2. T \subseteq SUBSET A
    BY <2>1
  <2>3. T # {}
    OBVIOUS
  <2> HIDE DEF T
  <2> QED BY <2>2, <2>3, FS_FiniteSubsetsOfFinite
<1>2. PICK B \in T : \A C \in T : ~ (<<C, B>> \in StrictSubsetOrdering(A))
  <2>1. IsWellFoundedOn(StrictSubsetOrdering(A), FiniteSubsetsOf(A))
    BY FS_StrictSubsetOrderingWellFounded
  <2> HIDE DEF T
  <2> QED BY <1>1, <2>1, WFMin
<1>3. PICK m \in A : B = later(m)
  OBVIOUS
<1>4. later(m) = {}
  <2> SUFFICES ASSUME NEW y \in A, m < y PROVE FALSE
    OBVIOUS
  <2>0. y \in Int /\ m \in Int
    OBVIOUS
  <2>1. later(y) \in T /\ later(y) \in SUBSET A /\ later(m) \in SUBSET A
    OBVIOUS
  <2>2. later(y) \subseteq later(m) /\ y \in later(m) /\ y \notin later(y)
    <3>1. \A k \in A : k \in Int /\ (y < k => m < k) /\ ~(k < k)
      BY <2>0
    <3> HIDE DEF T
    <3> QED BY <3>1, <2>0
  <2>3. <<later(y), B>> \in StrictSubsetOrdering(A)
    BY <1>3, <2>1, <2>2 DEF StrictSubsetOrdering
  <2> QED BY <1>2, <2>1, <2>3
<1>5. \A k \in A : m >= k
  <2> SUFFICES ASSUME NEW k \in A PROVE m >= k
    OBVIOUS
  <2>1. k \in Int /\ m \in Int /\ ~(m < k)
    BY <1>4
  <2> QED BY <2>1
<1> HIDE DEF later, T
<1>6. Max(A) \in A /\ \A k \in A : Max(A) >= k
  BY <1>5 DEF Max
<1>7. Max(A) \in Int
  BY <1>6
<1> QED BY <1>6, <1>7

LEMMA MaxOfTwo ==
  ASSUME NEW a \in Int, NEW b \in Int
  PROVE  Max({a, b}) = IF a <= b THEN b ELSE a
<1>1. IsFiniteSet({a, b})
  <2>1. IsFiniteSet({a}) /\ {a, b} = {a} \cup {b}
    BY FS_Singleton
  <2> QED BY <2>1, FS_AddElement
<1>2. Max({a, b}) \in {a, b} /\ a <= Max({a, b}) /\ b <= Max({a, b})
  BY <1>1, MaxIs
<1> QED BY <1>2

(* A number and some numbers up to a limit.                                  *)
LEMMA MaxUpTo ==
  ASSUME NEW n \in Nat, NEW a \in -1..n, NEW S, S \subseteq 0..n
  PROVE  LET m == Max({a} \cup S)
         IN  /\ m \in {a} \cup S /\ a <= m /\ m \in -1..n
             /\ \A k \in S : k <= m
<1>1. IsFiniteSet({a} \cup S)
  <2>1. IsFiniteSet(-1..n) /\ {a} \cup S \in SUBSET (-1..n)
    BY FS_Interval
  <2> QED BY <2>1, FS_Subset
<1>2. {a} \cup S \subseteq Int /\ {a} \cup S # {} /\ {a} \cup S \subseteq -1..n
  OBVIOUS
<1> QED BY <1>1, <1>2, MaxIs

-----------------------------------------------------------------------------
(* The newest rows *)

LEMMA NewestIs ==
  ASSUME NEW R, NEW rows \in Seq(R), NEW k \in Nat \ {0}
  PROVE  LET new == Newest(k, rows)
         IN  /\ new \in Seq(R)
             /\ Len(new) = IF Len(rows) < k THEN Len(rows) ELSE k
             /\ \A i \in 1..Len(new) : new[i] = rows[Len(rows) - Len(new) + i]
<1> DEFINE from == IF Len(rows) < k THEN 1 ELSE Len(rows) - k + 1
<1>1. Len(rows) \in Nat /\ from \in Int /\ from >= 1 /\ from <= Len(rows) + 1
  BY LenProperties
<1>2. Max({1, Len(rows) - k + 1}) = from
  BY <1>1, MaxOfTwo
<1>3. \A i \in from..Len(rows) : rows[i] \in R
  BY <1>1, ElementOfSeq
<1>4. Newest(k, rows) = SubSeq(rows, from, Len(rows))
  BY <1>2 DEF Newest
<1> HIDE DEF from
<1>5. /\ SubSeq(rows, from, Len(rows)) \in Seq(R)
      /\ Len(SubSeq(rows, from, Len(rows))) = IF from <= Len(rows) THEN Len(rows) - from + 1 ELSE 0
      /\ \A i \in 1..(Len(rows) - from + 1) : SubSeq(rows, from, Len(rows))[i] = rows[from + i - 1]
  BY <1>1, <1>3, SubSeqProperties
<1>6. Len(Newest(k, rows)) = Len(rows) - from + 1
  BY <1>1, <1>4, <1>5
<1>7. Len(rows) - from + 1 = IF Len(rows) < k THEN Len(rows) ELSE k
  BY <1>1 DEF from
<1>8. \A i \in 1..Len(Newest(k, rows)) : Newest(k, rows)[i] = rows[Len(rows) - Len(Newest(k, rows)) + i]
  <2> SUFFICES ASSUME NEW i \in 1..(Len(rows) - from + 1)
               PROVE  Newest(k, rows)[i] = rows[Len(rows) - (Len(rows) - from + 1) + i]
    BY <1>6
  <2>1. Len(rows) - (Len(rows) - from + 1) + i = from + i - 1
    BY <1>1
  <2> QED BY <1>4, <1>5, <2>1
<1> QED BY <1>4, <1>5, <1>6, <1>7, <1>8

(* What is kept of the newest and some more is what is kept of all.          *)
LEMMA NewestOfAppended ==
  ASSUME NEW R, NEW rows \in Seq(R), NEW new \in Seq(R), NEW k \in Nat \ {0}
  PROVE  Newest(k, Newest(k, rows) \o new) = Newest(k, rows \o new)
<1> DEFINE kept == Newest(k, rows)
           a == Newest(k, kept \o new)
           b == Newest(k, rows \o new)
           n == Len(rows)
           c == IF n < k THEN n ELSE k
           w == Len(new)
           la == IF c + w < k THEN c + w ELSE k
<1>0. /\ n \in Nat /\ w \in Nat /\ c \in Nat /\ c <= n /\ la \in Nat /\ la <= c + w
      /\ la = (IF c + w < k THEN c + w ELSE k) /\ la = (IF n + w < k THEN n + w ELSE k)
  BY LenProperties
<1>1. kept \in Seq(R) /\ Len(kept) = c /\ \A i \in 1..c : kept[i] = rows[n - c + i]
  BY NewestIs
<1> HIDE DEF kept, n, c, w, la
<1>2. /\ kept \o new \in Seq(R) /\ Len(kept \o new) = c + w
      /\ \A i \in 1..(c + w) : (kept \o new)[i] = IF i <= c THEN kept[i] ELSE new[i - c]
  BY <1>1, ConcatProperties DEF w
<1>3. /\ rows \o new \in Seq(R) /\ Len(rows \o new) = n + w
      /\ \A i \in 1..(n + w) : (rows \o new)[i] = IF i <= n THEN rows[i] ELSE new[i - n]
  BY ConcatProperties DEF n, w
<1>4. /\ a \in Seq(R) /\ Len(a) = la
      /\ \A i \in 1..la : a[i] = (kept \o new)[c + w - la + i]
  <2>1. /\ a \in Seq(R) /\ Len(a) = IF c + w < k THEN c + w ELSE k
        /\ \A i \in 1..Len(a) : a[i] = (kept \o new)[c + w - Len(a) + i]
    <3> DEFINE s == kept \o new
    <3>1. s \in Seq(R) /\ Len(s) = c + w
      BY <1>2
    <3> HIDE DEF s
    <3>2. /\ Newest(k, s) \in Seq(R) /\ Len(Newest(k, s)) = IF Len(s) < k THEN Len(s) ELSE k
          /\ \A i \in 1..Len(Newest(k, s)) : Newest(k, s)[i] = s[Len(s) - Len(Newest(k, s)) + i]
      BY <3>1, NewestIs
    <3>3. /\ Newest(k, s) \in Seq(R) /\ Len(Newest(k, s)) = IF c + w < k THEN c + w ELSE k
          /\ \A i \in 1..Len(Newest(k, s)) : Newest(k, s)[i] = s[c + w - Len(Newest(k, s)) + i]
      BY <1>0, <3>1, <3>2
    <3> QED BY <3>3 DEF s
  <2> HIDE DEF a
  <2> QED BY <1>0, <2>1
<1>5. /\ b \in Seq(R) /\ Len(b) = la
      /\ \A i \in 1..la : b[i] = (rows \o new)[n + w - la + i]
  <2>1. /\ b \in Seq(R) /\ Len(b) = IF n + w < k THEN n + w ELSE k
        /\ \A i \in 1..Len(b) : b[i] = (rows \o new)[n + w - Len(b) + i]
    <3> DEFINE s == rows \o new
    <3>1. s \in Seq(R) /\ Len(s) = n + w
      BY <1>3
    <3> HIDE DEF s
    <3>2. /\ Newest(k, s) \in Seq(R) /\ Len(Newest(k, s)) = IF Len(s) < k THEN Len(s) ELSE k
          /\ \A i \in 1..Len(Newest(k, s)) : Newest(k, s)[i] = s[Len(s) - Len(Newest(k, s)) + i]
      BY <3>1, NewestIs
    <3>3. /\ Newest(k, s) \in Seq(R) /\ Len(Newest(k, s)) = IF n + w < k THEN n + w ELSE k
          /\ \A i \in 1..Len(Newest(k, s)) : Newest(k, s)[i] = s[n + w - Len(Newest(k, s)) + i]
      BY <1>0, <3>1, <3>2
    <3> QED BY <3>3 DEF s
  <2> HIDE DEF b
  <2> QED BY <1>0, <2>1
<1> HIDE DEF a, b
<1>6. \A i \in 1..la : a[i] = b[i]
  <2> SUFFICES ASSUME NEW i \in 1..la
               PROVE  (kept \o new)[c + w - la + i] = (rows \o new)[n + w - la + i]
    BY <1>4, <1>5
  <2> DEFINE p == c + w - la + i
             q == n + w - la + i
  <2>1. p \in 1..(c + w) /\ q \in 1..(n + w) /\ q = p + (n - c)
    BY <1>0
  <2> HIDE DEF p, q
  <2>2. CASE p <= c
    <3>1. p \in 1..c /\ q <= n /\ n - c + p = q
      BY <1>0, <2>1, <2>2
    <3>2. (kept \o new)[p] = rows[q] /\ (rows \o new)[q] = rows[q]
      BY <1>1, <1>2, <1>3, <2>1, <3>1
    <3> QED BY <3>2 DEF p, q
  <2>3. CASE ~(p <= c)
    <3>1. ~(q <= n) /\ p - c = q - n
      BY <1>0, <2>1, <2>3
    <3>2. (kept \o new)[p] = new[p - c] /\ (rows \o new)[q] = new[p - c]
      BY <1>2, <1>3, <2>1, <2>3, <3>1
    <3> QED BY <3>2 DEF p, q
  <2> QED BY <2>2, <2>3
<1>7. a = b
  BY <1>4, <1>5, <1>6, SeqEqual
<1> QED BY <1>7 DEF a, b, kept

-----------------------------------------------------------------------------
(* The log and its cache *)

LEMMA UntilIs ==
  ASSUME LogInv, NEW n \in 0..Len(issued)
  PROVE  /\ Until(n) \in Seq(Rows) /\ Len(Until(n)) = n
         /\ \A i \in 1..n : Until(n)[i] = issued[i]
<1>1. issued \in Seq(Rows) /\ Len(issued) \in Nat
  BY LenProperties DEF LogInv
<1>2. \A i \in 1..n : issued[i] \in Rows
  BY <1>1, ElementOfSeq
<1>3. n \in Int /\ n - 1 + 1 = n /\ n >= 0
  BY <1>1
<1>4. /\ SubSeq(issued, 1, n) \in Seq(Rows)
      /\ Len(SubSeq(issued, 1, n)) = IF 1 <= n THEN n - 1 + 1 ELSE 0
      /\ \A i \in 1..(n - 1 + 1) : SubSeq(issued, 1, n)[i] = issued[1 + i - 1]
  BY <1>2, <1>3, SubSeqProperties
<1>5. Len(SubSeq(issued, 1, n)) = n
  BY <1>3, <1>4
<1>6. \A i \in 1..n : SubSeq(issued, 1, n)[i] = issued[i]
  BY <1>3, <1>4
<1> QED BY <1>4, <1>5, <1>6 DEF Until

(* A log, of now or before, as it was when n records had been written.       *)
LEMMA LogIs ==
  ASSUME LogInv, NEW n \in 0..Len(issued), NEW rows, rows = Newest(Keep, Until(n))
  PROVE  /\ rows \in Seq(Rows) /\ Len(rows) = (IF n < Keep THEN n ELSE Keep)
         /\ \A i \in 1..Len(rows) : /\ n - Len(rows) + i \in 1..Len(issued)
                                    /\ rows[i] = issued[n - Len(rows) + i]
                                    /\ rows[i].seq = n - Len(rows) + i
         /\ LastSeq(rows) = n
<1>0. Keep \in Nat \ {0} /\ n \in Nat /\ Len(issued) \in Nat /\ n <= Len(issued)
  BY BoundsAssumption, LenProperties DEF LogInv
<1> DEFINE u == Until(n)
<1>1. u \in Seq(Rows) /\ Len(u) = n /\ \A i \in 1..n : u[i] = issued[i]
  BY UntilIs
<1> HIDE DEF u
<1>2. /\ rows \in Seq(Rows) /\ Len(rows) = (IF Len(u) < Keep THEN Len(u) ELSE Keep)
      /\ \A i \in 1..Len(rows) : rows[i] = u[Len(u) - Len(rows) + i]
  <2>1. rows = Newest(Keep, u)
    BY DEF u
  <2>2. /\ Newest(Keep, u) \in Seq(Rows) /\ Len(Newest(Keep, u)) = IF Len(u) < Keep THEN Len(u) ELSE Keep
        /\ \A i \in 1..Len(Newest(Keep, u)) : Newest(Keep, u)[i] = u[Len(u) - Len(Newest(Keep, u)) + i]
    BY <1>0, <1>1, NewestIs
  <2> QED BY <2>1, <2>2
<1>3. Len(rows) = (IF n < Keep THEN n ELSE Keep) /\ Len(rows) \in Nat /\ Len(rows) <= n
  BY <1>0, <1>1, <1>2
<1>4. \A i \in 1..Len(rows) : /\ n - Len(rows) + i \in 1..n
                              /\ rows[i] = issued[n - Len(rows) + i]
                              /\ rows[i].seq = n - Len(rows) + i
  <2> SUFFICES ASSUME NEW i \in 1..Len(rows)
               PROVE  /\ n - Len(rows) + i \in 1..n
                      /\ rows[i] = issued[n - Len(rows) + i]
                      /\ rows[i].seq = n - Len(rows) + i
    OBVIOUS
  <2>1. n - Len(rows) + i \in 1..n
    BY <1>0, <1>3
  <2>2. rows[i] = u[n - Len(rows) + i]
    BY <1>0, <1>1, <1>2, <1>3
  <2>3. rows[i] = issued[n - Len(rows) + i]
    BY <1>1, <2>1, <2>2
  <2>4. issued[n - Len(rows) + i].seq = n - Len(rows) + i
    BY <1>0, <2>1 DEF LogInv
  <2> QED BY <2>1, <2>3, <2>4
<1>5. LastSeq(rows) = n
  <2> DEFINE S == {rows[i].seq : i \in DOMAIN rows}
  <2>1. DOMAIN rows = 1..Len(rows)
    BY <1>2, LenProperties
  <2>2. \A k \in S : k \in 1..n
    BY <1>0, <1>3, <1>4, <2>1
  <2>3. n > 0 => n \in S
    <3> SUFFICES ASSUME n > 0 PROVE n \in S
      OBVIOUS
    <3>1. Len(rows) \in 1..Len(rows)
      BY <1>0, <1>3
    <3>2. rows[Len(rows)].seq = n - Len(rows) + Len(rows)
      BY <1>4, <3>1
    <3>3. rows[Len(rows)].seq = n
      BY <1>0, <1>3, <3>2
    <3> QED BY <2>1, <3>1, <3>3
  <2> HIDE DEF S
  <2> DEFINE m == Max({0} \cup S)
  <2>4. S \subseteq 0..n /\ 0 \in -1..n
    BY <1>0, <2>2
  <2>5. m \in {0} \cup S /\ 0 <= m /\ \A k \in S : k <= m
    BY <1>0, <2>4, MaxUpTo
  <2> HIDE DEF m
  <2>6. m = n
    BY <1>0, <2>2, <2>3, <2>5
  <2> QED BY <2>6 DEF m, S, LastSeq
<1>6. \A i \in 1..Len(rows) : n - Len(rows) + i \in 1..Len(issued)
  <2>1. \A j \in 1..n : j \in 1..Len(issued)
    BY <1>0
  <2> QED BY <1>4, <2>1
<1> QED BY <1>2, <1>3, <1>4, <1>5, <1>6

LEMMA LogNow ==
  ASSUME LogInv
  PROVE  /\ WasLog(log) /\ LastSeq(log) = Len(issued) /\ LastSeq(issued) = Len(issued)
         /\ log \in Seq(Rows) /\ Len(log) \in Nat /\ Len(issued) \in Nat
<1>1. Until(Len(issued)) = issued /\ Len(issued) \in Nat
  BY SubSeqFull, LenProperties DEF LogInv, Until
<1>2. Len(issued) \in 0..Len(issued) /\ log = Newest(Keep, Until(Len(issued)))
  BY <1>1 DEF LogInv
<1>3. log \in Seq(Rows) /\ LastSeq(log) = Len(issued)
  BY <1>2, LogIs
<1>4. LastSeq(issued) = Len(issued)
  <2> DEFINE n == Len(issued)
             S == {issued[i].seq : i \in DOMAIN issued}
             m == Max({0} \cup S)
  <2>1. DOMAIN issued = 1..n
    BY LenProperties DEF LogInv
  <2>2. \A k \in S : k \in 1..n
    BY <2>1 DEF LogInv
  <2>3. n > 0 => n \in S
    <3> SUFFICES ASSUME n > 0 PROVE n \in S
      OBVIOUS
    <3>1. n \in 1..n /\ issued[n].seq = n
      BY <1>1 DEF LogInv
    <3> QED BY <2>1, <3>1
  <2> HIDE DEF S
  <2>4. S \subseteq 0..n /\ 0 \in -1..n
    BY <1>1, <2>2
  <2>5. m \in {0} \cup S /\ 0 <= m /\ \A k \in S : k <= m
    BY <1>1, <2>4, MaxUpTo
  <2> HIDE DEF m
  <2>6. m = n
    BY <1>1, <2>2, <2>3, <2>5
  <2> QED BY <2>6 DEF m, S, LastSeq
<1> QED BY <1>1, <1>2, <1>3, <1>4, LenProperties DEF WasLog

(* What a read returns is a log, and under the file's signature the log.     *)
LEMMA ReadIs ==
  ASSUME LogInv, NEW sig, Seen(sig)
  PROVE  WasLog(Read(sig)) /\ (sig.written = written => Read(sig) = log)
<1>1. WasLog(log) /\ WasLog(cache.rows)
  BY LogNow DEF LogInv
<1>2. CASE sig = NoFile
  <2>1. 0 \in 0..Len(issued) /\ Read(sig) = <<>>
    BY <1>2, LogNow DEF Read
  <2>2. Newest(Keep, Until(0)) = <<>>
    <3> DEFINE r == Newest(Keep, Until(0))
    <3>1. r \in Seq(Rows) /\ Len(r) = (IF 0 < Keep THEN 0 ELSE Keep)
      BY <2>1, LogIs
    <3>2. r \in Seq(Rows) /\ Len(r) = 0
      BY <3>1, BoundsAssumption
    <3> HIDE DEF r
    <3>3. r = <<>>
      BY <3>2, EmptySeq
    <3> QED BY <3>3 DEF r
  <2>3. sig.written = written => log = <<>>
    <3> SUFFICES ASSUME sig.written = written PROVE log = <<>>
      OBVIOUS
    <3>1. written = 0 /\ issued = <<>>
      BY <1>2 DEF NoFile, LogInv
    <3>2. Len(issued) = 0 /\ Until(0) = issued
      BY <3>1, SubSeqFull, EmptySeq DEF Until, LogInv
    <3> QED BY <2>2, <3>2 DEF LogInv
  <2> QED BY <2>1, <2>2, <2>3 DEF WasLog
<1>3. CASE sig # NoFile /\ Cached(sig)
  BY <1>1, <1>3 DEF Read, Cached, LogInv
<1>4. CASE sig # NoFile /\ ~Cached(sig)
  BY <1>1, <1>4 DEF Read
<1> QED BY <1>2, <1>3, <1>4

LEMMA RememberKeepsLog ==
  ASSUME LogInv, NEW sig, Seen(sig), Remember(sig), UNCHANGED <<log, written, issued>>
  PROVE  LogInv'
<1>1. Seen(cache.sig)' /\ WasLog(cache.rows)' /\ (cache'.sig.written = written' => cache'.rows = log')
  <2>1. CASE sig = NoFile
    <3>1. cache' = cache
      BY <2>1 DEF Remember
    <3> QED BY <3>1 DEF LogInv, Seen, Signature, WasLog, Until
  <2>2. CASE sig # NoFile
    <3>1. cache'.sig = sig /\ cache'.rows = Read(sig)
      BY <2>2 DEF Remember
    <3>2. WasLog(Read(sig)) /\ (sig.written = written => Read(sig) = log)
      BY ReadIs
    <3> QED BY <3>1, <3>2 DEF Seen, Signature, WasLog, Until
  <2> QED BY <2>1, <2>2
<1> QED BY <1>1 DEF LogInv

-----------------------------------------------------------------------------
(* Records are only added *)

(* Counting the records after one of them.                                   *)
Newer(i) == {j \in DOMAIN issued : j > i}
LEMMA LeftOutIf ==
  ASSUME LogInv, NEW i, NEW S, S \subseteq Newer(i)
  PROVE  /\ Cardinality(S) >= Keep => LeftOut(i)
         /\ (\A j \in S : issued[j].mine) /\ Cardinality(S) >= Most => LeftOut(i)
<1> DEFINE newer == Newer(i)
           M == {j \in newer : issued[j].mine}
<1>0. Keep \in Int /\ Most \in Int
  BY BoundsAssumption
<1>1. IsFiniteSet(newer)
  <2>1. DOMAIN issued = 1..Len(issued) /\ IsFiniteSet(1..Len(issued))
    BY LenProperties, FS_Interval DEF LogInv
  <2>2. newer \in SUBSET (1..Len(issued))
    BY <2>1 DEF Newer
  <2> HIDE DEF newer
  <2> QED BY <2>1, <2>2, FS_Subset
<1>2. S \in SUBSET newer /\ M \in SUBSET newer
  OBVIOUS
<1> HIDE DEF newer
<1>3. IsFiniteSet(S) /\ Cardinality(S) <= Cardinality(newer)
  BY <1>1, <1>2, FS_Subset
<1>4. IsFiniteSet(M)
  BY <1>1, <1>2, FS_Subset
<1>5. (\A j \in S : issued[j].mine) => Cardinality(S) <= Cardinality(M)
  <2> SUFFICES ASSUME \A j \in S : issued[j].mine PROVE Cardinality(S) <= Cardinality(M)
    OBVIOUS
  <2>1. S \in SUBSET M
    BY <1>2
  <2> HIDE DEF M
  <2> QED BY <1>4, <2>1, FS_Subset
<1>6. Cardinality(S) \in Int /\ Cardinality(newer) \in Int /\ Cardinality(M) \in Int
  BY <1>1, <1>3, <1>4, FS_CardinalityType
<1>7. LeftOut(i) <=> Cardinality(newer) >= Keep \/ Cardinality(M) >= Most
  BY DEF LeftOut, newer, Newer
<1> HIDE DEF M
<1> QED BY <1>0, <1>3, <1>5, <1>6, <1>7

LEMMA Grows ==
  ASSUME LogInv, NEW new \in Seq(Rows), issued' = issued \o new
  PROVE  /\ issued' \in Seq(Rows) /\ Len(issued') = Len(issued) + Len(new)
         /\ \A i \in 1..Len(issued) : i \in 1..Len(issued') /\ issued'[i] = issued[i]
         /\ \A i \in 1..Len(new) : issued'[Len(issued) + i] = new[i]
<1>0. issued \in Seq(Rows) /\ Len(issued) \in Nat /\ Len(new) \in Nat
  BY LenProperties DEF LogInv
<1>1. /\ issued \o new \in Seq(Rows) /\ Len(issued \o new) = Len(issued) + Len(new)
      /\ \A i \in 1..Len(issued) + Len(new) :
           (issued \o new)[i] = IF i <= Len(issued) THEN issued[i] ELSE new[i - Len(issued)]
  BY <1>0, ConcatProperties
<1>2. \A i \in 1..Len(issued) : i \in 1..Len(issued) + Len(new) /\ i <= Len(issued)
  BY <1>0
<1>3. \A i \in 1..Len(new) : /\ Len(issued) + i \in 1..Len(issued) + Len(new) /\ ~(Len(issued) + i <= Len(issued))
                             /\ Len(issued) + i - Len(issued) = i
  BY <1>0
<1> QED BY <1>1, <1>2, <1>3

LEMMA LeftOutStays ==
  ASSUME LogInv, NEW new \in Seq(Rows), issued' = issued \o new,
         NEW i \in 1..Len(issued), LeftOut(i)
  PROVE  LeftOut(i)'
<1> DEFINE newer == {j \in DOMAIN issued : j > i}
           M == {j \in newer : issued[j].mine}
           after == {j \in DOMAIN issued' : j > i}
           N == {j \in after : issued'[j].mine}
<1>1. DOMAIN issued = 1..Len(issued) /\ DOMAIN issued' = 1..Len(issued') /\ IsFiniteSet(1..Len(issued'))
  <2>1. issued' \in Seq(Rows) /\ Len(issued') \in Nat
    BY Grows, LenProperties
  <2> QED BY <2>1, LenProperties, FS_Interval DEF LogInv
<1>2. newer \in SUBSET after /\ M \in SUBSET N /\ after \in SUBSET (1..Len(issued')) /\ N \in SUBSET (1..Len(issued'))
  BY <1>1, Grows
<1> HIDE DEF newer, M, after, N
<1>3. IsFiniteSet(after) /\ IsFiniteSet(N)
  BY <1>1, <1>2, FS_Subset
<1>4. /\ IsFiniteSet(newer) /\ Cardinality(newer) <= Cardinality(after)
      /\ IsFiniteSet(M) /\ Cardinality(M) <= Cardinality(N)
  BY <1>2, <1>3, FS_Subset
<1>5. /\ Cardinality(newer) \in Int /\ Cardinality(after) \in Int
      /\ Cardinality(M) \in Int /\ Cardinality(N) \in Int /\ Keep \in Int /\ Most \in Int
  BY <1>3, <1>4, FS_CardinalityType, BoundsAssumption
<1>6. Cardinality(newer) >= Keep \/ Cardinality(M) >= Most
  BY DEF LeftOut, newer, M
<1>7. Cardinality(after) >= Keep \/ Cardinality(N) >= Most
  BY <1>4, <1>5, <1>6
<1> QED BY <1>7 DEF LeftOut, after, N

(* The batch as it is numbered and written.                                  *)
LEMMA EmitWrites ==
  ASSUME LogInv, WriterInv, EmitWrite
  PROVE  /\ LogInv' /\ written' = written + 1
         /\ \E new \in Seq(Rows) : issued' = issued \o new
<1> DEFINE new == Numbered(writer.rows, writer.batch)
           n == Len(issued)
           w == Len(writer.batch)
<1>0. n \in Nat /\ LastSeq(log) = n /\ writer.rows = log /\ n + w <= MaxSeq /\ MaxSeq \in Nat
  BY LogNow, BoundsAssumption DEF EmitWrite, WriterInv
<1>1. /\ w \in {1, 2} /\ DOMAIN writer.batch = 1..w
      /\ \A i \in 1..w : writer.batch[i] \in BOOLEAN
  <2>1. writer.batch \in Batches
    BY DEF EmitWrite, WriterInv
  <2>2. CASE writer.batch \in [1..1 -> BOOLEAN]
    <3>1. writer.batch \in Seq(BOOLEAN)
      BY <2>2, SeqDef
    <3>2. 1..w = 1..1 /\ w \in Nat
      BY <2>2, <3>1, LenProperties
    <3> HIDE DEF w
    <3>3. w = 1
      <4>1. 1 \in 1..w
        BY <3>2
      <4>2. w \in 1..w
        BY <3>2, <4>1
      <4> QED BY <3>2, <4>2
    <3> QED BY <2>2, <3>3
  <2>3. CASE writer.batch \in [1..2 -> BOOLEAN]
    <3>1. writer.batch \in Seq(BOOLEAN)
      BY <2>3, SeqDef
    <3>2. 1..w = 1..2 /\ w \in Nat
      BY <2>3, <3>1, LenProperties
    <3> HIDE DEF w
    <3>3. w = 2
      <4>1. 2 \in 1..w
        BY <3>2
      <4>2. w \in 1..w
        BY <3>2, <4>1
      <4> QED BY <3>2, <4>1, <4>2
    <3> QED BY <2>3, <3>3
  <2> QED BY <2>1, <2>2, <2>3 DEF Batches
<1> HIDE DEF w
<1>2. new = [i \in 1..w |-> [seq |-> n + i, mine |-> writer.batch[i]]]
  BY <1>0, <1>1 DEF Numbered
<1> HIDE DEF new
<1>3. \A i \in 1..w : [seq |-> n + i, mine |-> writer.batch[i]] \in Rows
  <2> SUFFICES ASSUME NEW i \in 1..w PROVE [seq |-> n + i, mine |-> writer.batch[i]] \in Rows
    OBVIOUS
  <2>1. n + i \in 1..MaxSeq
    BY <1>0, <1>1
  <2> QED BY <1>1, <2>1 DEF Rows
<1>4. new \in Seq(Rows) /\ Len(new) = w /\ \A i \in 1..w : new[i].seq = n + i
  <2>1. new \in [1..w -> Rows]
    BY <1>2, <1>3
  <2>2. new \in Seq(Rows)
    BY <1>1, <2>1, SeqDef
  <2>3. DOMAIN new = 1..w /\ DOMAIN new = 1..Len(new) /\ Len(new) \in Nat
    BY <2>1, <2>2, LenProperties
  <2>4. Len(new) = w
    BY <1>1, <2>3
  <2> QED BY <1>2, <2>2, <2>4
<1>5. issued' = issued \o new /\ log' = Newest(Keep, log \o new) /\ written' = written + 1 /\ cache' = cache
  BY <1>0 DEF EmitWrite, Rotated, new
<1>6. /\ issued' \in Seq(Rows) /\ Len(issued') = n + w
      /\ \A i \in 1..Len(issued') : issued'[i].seq = i
  <2>1. /\ issued' \in Seq(Rows) /\ Len(issued') = n + w
        /\ \A i \in 1..n : issued'[i] = issued[i] /\ issued[i].seq = i
        /\ \A i \in 1..w : issued'[n + i] = new[i] /\ new[i].seq = n + i
    BY <1>4, <1>5, Grows DEF LogInv
  <2>2. ASSUME NEW i \in 1..(n + w) PROVE issued'[i].seq = i
    <3>1. CASE i <= n
      BY <1>0, <2>1, <3>1
    <3>2. CASE i > n
      <4>1. i - n \in 1..w /\ n + (i - n) = i
        BY <1>0, <1>1, <3>2
      <4> QED BY <2>1, <4>1
    <3> QED BY <1>0, <1>1, <3>1, <3>2
  <2> QED BY <2>1, <2>2
<1>7. log' = Newest(Keep, issued')
  BY <1>4, <1>5, NewestOfAppended, BoundsAssumption DEF LogInv
<1>8. WasLog(cache.rows)'
  <2>1. PICK k \in 0..n : cache.rows = Newest(Keep, Until(k))
    BY DEF LogInv, WasLog
  <2>2. k \in 0..Len(issued')
    BY <1>0, <1>1, <1>6, <2>1
  <2>3. Until(k)' = Until(k)
    <3>1. Until(k) \in Seq(Rows) /\ Len(Until(k)) = k /\ \A i \in 1..k : Until(k)[i] = issued[i]
      BY UntilIs
    <3>2. \A i \in 1..k : issued'[i] \in Rows /\ issued'[i] = issued[i]
      <4>1. \A i \in 1..k : i \in 1..n /\ i \in 1..Len(issued')
        BY <1>0, <1>1, <1>6
      <4> QED BY <1>4, <1>5, <1>6, <4>1, Grows, ElementOfSeq
    <3>3. /\ SubSeq(issued', 1, k) \in Seq(Rows)
          /\ Len(SubSeq(issued', 1, k)) = IF 1 <= k THEN k - 1 + 1 ELSE 0
          /\ \A i \in 1..(k - 1 + 1) : SubSeq(issued', 1, k)[i] = issued'[1 + i - 1]
      BY <1>0, <2>1, <3>2, SubSeqProperties
    <3>4. k \in Nat
      BY <1>0
    <3>5. Len(SubSeq(issued', 1, k)) = k /\ \A i \in 1..k : SubSeq(issued', 1, k)[i] = issued'[i]
      BY <3>3, <3>4
    <3> QED BY <3>1, <3>2, <3>3, <3>5, SeqEqual DEF Until
  <2> QED BY <1>5, <2>1, <2>2, <2>3 DEF WasLog
<1>9. Seen(cache.sig)' /\ cache'.sig.written # written' /\ written' \in Nat /\ written' <= n + w /\ written' # 0
  <2>1. written \in Nat /\ written <= n /\ cache.sig \in FileSig /\ cache.sig.written <= written
    BY DEF LogInv, Seen
  <2>2. cache.sig.written \in Nat
    BY <2>1 DEF FileSig
  <2> QED BY <1>0, <1>1, <1>5, <2>1, <2>2 DEF Seen
<1> QED BY <1>0, <1>4, <1>5, <1>6, <1>7, <1>8, <1>9 DEF LogInv

-----------------------------------------------------------------------------
(* Answers *)

LEMMA Numbers ==
  ASSUME LogInv
  PROVE  /\ Len(issued) \in Nat /\ DOMAIN issued = 1..Len(issued) /\ Len(issued) <= MaxSeq /\ MaxSeq \in Nat
         /\ \A i \in Due : i \in 1..Len(issued) /\ i \in 1..MaxSeq /\ issued[i].mine /\ i > since
         /\ \A i \in 1..Len(issued) : issued[i].seq = i
         /\ Upto \subseteq Int /\ \A c \in Upto : c <= Len(issued) /\ c >= -1
<1>1. issued \in Seq(Rows) /\ Len(issued) \in Nat /\ DOMAIN issued = 1..Len(issued)
      /\ MaxSeq \in Nat /\ Len(issued) <= MaxSeq /\ \A i \in 1..Len(issued) : issued[i].seq = i
  BY LenProperties, BoundsAssumption DEF LogInv
<1>2. \A i \in 1..Len(issued) : i \in 1..MaxSeq
  BY <1>1
<1> QED BY <1>1, <1>2 DEF Due, Upto, NoCursor

LEMMA AfterIs ==
  ASSUME LogInv, NEW n \in 0..Len(issued), NEW rows, rows = Newest(Keep, Until(n)), NEW ev, NEW m
  PROVE  m \in After(rows, ev) <=>
           /\ m \in (n - Len(rows) + 1)..n /\ issued[m].mine /\ m > ev
<1>0. /\ rows \in Seq(Rows) /\ Len(rows) \in Nat /\ DOMAIN rows = 1..Len(rows) /\ n \in Nat
      /\ \A j \in 1..Len(rows) : rows[j] = issued[n - Len(rows) + j] /\ rows[j].seq = n - Len(rows) + j
  BY LogIs, LogNow, LenProperties
<1>1. m \in After(rows, ev) <=> \E j \in 1..Len(rows) : rows[j].seq = m /\ rows[j].mine /\ rows[j].seq > ev
  BY <1>0 DEF After, ToSet
<1>2. ASSUME NEW j \in 1..Len(rows), rows[j].seq = m, rows[j].mine, rows[j].seq > ev
      PROVE  m \in (n - Len(rows) + 1)..n /\ issued[m].mine /\ m > ev
  <2>1. m = n - Len(rows) + j /\ rows[j] = issued[m]
    BY <1>0, <1>2
  <2> QED BY <1>0, <1>2, <2>1
<1>3. ASSUME m \in (n - Len(rows) + 1)..n, issued[m].mine, m > ev
      PROVE  \E j \in 1..Len(rows) : rows[j].seq = m /\ rows[j].mine /\ rows[j].seq > ev
  <2> DEFINE j == m - (n - Len(rows))
  <2>1. j \in 1..Len(rows) /\ n - Len(rows) + j = m
    BY <1>0, <1>3
  <2> HIDE DEF j
  <2> QED BY <1>0, <1>3, <2>1
<1> QED BY <1>1, <1>2, <1>3

(* An answer leaves out only what is old or said, or what may be.            *)
LEMMA AnswerIs ==
  ASSUME LogInv, NEW rows, WasLog(rows), NEW ev \in Upto, Passed(ev), ev # NoCursor => since # NoCursor
  PROVE  Polled(EventsSince(rows, ev))
<1> DEFINE due == After(rows, ev)
           p == EventsSince(rows, ev)
<1>1. PICK n \in 0..Len(issued) : rows = Newest(Keep, Until(n))
  BY DEF WasLog
<1>0. Len(issued) \in Nat /\ n \in Nat /\ n <= Len(issued) /\ Len(rows) \in Nat /\ Len(rows) <= n
      /\ Len(rows) = (IF n < Keep THEN n ELSE Keep) /\ Keep \in Nat \ {0} /\ Most \in Nat \ {0}
      /\ ev \in Int
  <2>1. Len(rows) = (IF n < Keep THEN n ELSE Keep)
    BY <1>1, LogIs
  <2> QED BY <2>1, Numbers, BoundsAssumption
<1>2. \A m : m \in due <=> m \in (n - Len(rows) + 1)..n /\ issued[m].mine /\ m > ev
  BY <1>1, AfterIs
<1>3. \A m \in due : m \in 1..Len(issued) /\ m \in 1..n
  BY <1>0, <1>2
<1>4. /\ p.step = "answered" /\ p.top = n /\ p.asked = (ev # NoCursor)
      /\ p.events = IF ev = NoCursor THEN {} ELSE {k \in due : Cardinality({m \in due : m > k}) < Most}
  <2>1. LastSeq(rows) = n
    BY <1>1, LogIs
  <2> QED BY <2>1 DEF EventsSince
<1> HIDE DEF p
<1>5. Passes(p.events)
  <2> SUFFICES ASSUME NEW i \in Due, NEW e \in p.events, i < e, i \notin p.events, told[i] = 0
               PROVE  LeftOut(i)
    BY DEF Passes
  <2> DEFINE S == {m \in due : m > i}
  <2>0. /\ ev # NoCursor /\ e \in due /\ i \in 1..Len(issued) /\ issued[i].mine
        /\ i \in due => ~(Cardinality(S) < Most)
    BY <1>4, Numbers
  <2>1. CASE i <= ev
    BY <2>1 DEF Passed
  <2>2. CASE i \in due
    <3>1. S \subseteq Newer(i) /\ \A j \in S : issued[j].mine
      BY <1>2, <1>3, Numbers DEF Newer
    <3>2. Cardinality(S) \in Nat
      <4>1. IsFiniteSet(1..n) /\ S \in SUBSET (1..n)
        BY <1>0, <1>3, FS_Interval
      <4> HIDE DEF S
      <4> QED BY <4>1, FS_Subset, FS_CardinalityType
    <3>3. Cardinality(S) >= Most
      BY <1>0, <2>0, <2>2, <3>2
    <3> HIDE DEF S
    <3> QED BY <3>1, <3>3, LeftOutIf
  <2>3. CASE i > ev /\ i \notin due
    <3>1. i < n - Len(rows) + 1 /\ i < n
      <4>1. i < n
        BY <1>0, <1>3, <2>0
      <4> QED BY <1>0, <1>2, <2>0, <2>3, <4>1
    <3>2. Len(rows) = Keep
      BY <1>0, <2>0, <3>1
    <3>3. Cardinality((i + 1)..n) = n - i
      <4>1. i + 1 \in Int /\ n \in Int /\ i + 1 <= n
        BY <1>0, <2>0, <3>1
      <4>2. Cardinality((i + 1)..n) = IF i + 1 > n THEN 0 ELSE n - (i + 1) + 1
        BY <4>1, FS_Interval
      <4> QED BY <2>0, <4>1, <4>2
    <3>4. Cardinality((i + 1)..n) >= Keep
      BY <1>0, <2>0, <3>1, <3>2, <3>3
    <3>5. (i + 1)..n \subseteq Newer(i)
      BY <1>0, <2>0, Numbers DEF Newer
    <3> QED BY <3>4, <3>5, LeftOutIf
  <2>4. i \in Int
    BY <2>0
  <2> QED BY <1>0, <2>1, <2>2, <2>3, <2>4
<1>6. p.events \subseteq 1..Len(issued)
  BY <1>3, <1>4
<1>7. p.top \in 0..Len(issued) /\ p.asked \in BOOLEAN
  BY <1>0, <1>4
<1> QED BY <1>4, <1>5, <1>6, <1>7 DEF Polled, p

-----------------------------------------------------------------------------
(* What has been passed stays passed *)

Goes == \E new \in Seq(Rows) : issued' = issued \o new
SaysMore == \A n \in 1..MaxSeq : told'[n] = 0 => told[n] = 0
FileGoesOn == (written' = written /\ log' = log) \/ written' = written + 1

LEMMA StillGoes ==
  ASSUME LogInv, issued' = issued
  PROVE  Goes
<1>1. <<>> \in Seq(Rows) /\ issued \o <<>> = issued
  BY EmptySeq, ConcatEmptySeq DEF LogInv
<1> QED BY <1>1 DEF Goes

LEMMA DueStays ==
  ASSUME LogInv, Goes, since' = since, SaysMore, NEW i \in Due', i <= Len(issued), told'[i] = 0
  PROVE  i \in Due /\ told[i] = 0 /\ (LeftOut(i) => LeftOut(i)')
<1>1. PICK new \in Seq(Rows) : issued' = issued \o new
  BY DEF Goes
<1>2. /\ DOMAIN issued' = 1..Len(issued') /\ Len(issued) \in Nat
      /\ \A j \in 1..Len(issued) : issued'[j] = issued[j]
  BY <1>1, Grows, LenProperties, Numbers
<1>3. i \in 1..Len(issued)
  BY <1>2 DEF Due
<1>4. i \in Due
  BY <1>2, <1>3, Numbers DEF Due
<1>5. told[i] = 0
  BY <1>4, Numbers DEF SaysMore
<1> QED BY <1>1, <1>3, <1>4, <1>5, LeftOutStays

LEMMA PassedStays ==
  ASSUME LogInv, Goes, since' = since, SaysMore, NEW c \in Upto, Passed(c)
  PROVE  Passed(c)'
<1> SUFFICES ASSUME NEW i \in Due', i <= c, told'[i] = 0 PROVE LeftOut(i)'
  BY DEF Passed
<1>1. i \in Int
  <2>1. PICK new \in Seq(Rows) : issued' = issued \o new
    BY DEF Goes
  <2>2. DOMAIN issued' = 1..Len(issued')
    BY <2>1, Grows, LenProperties
  <2> QED BY <2>2 DEF Due
<1>2. i <= Len(issued)
  BY <1>1, Numbers
<1>3. i \in Due /\ told[i] = 0 /\ (LeftOut(i) => LeftOut(i)')
  BY <1>2, DueStays
<1> QED BY <1>3 DEF Passed

LEMMA PolledStays ==
  ASSUME LogInv, Goes, since' = since, SaysMore, FileGoesOn, NEW p, Polled(p)
  PROVE  Polled(p)'
<1>1. PICK new \in Seq(Rows) : issued' = issued \o new
  BY DEF Goes
<1>2. /\ DOMAIN issued' = 1..Len(issued') /\ Len(issued') \in Nat /\ Len(issued) \in Nat
      /\ Len(issued) <= Len(issued')
  BY <1>1, Grows, LenProperties, Numbers
<1>3. Upto \subseteq Upto'
  BY <1>2 DEF Upto
<1>4. p.step \in {"asked", "stat"} => p.ev \in Upto' /\ Passed(p.ev)' /\ (p.ev # NoCursor => since' # NoCursor)
  BY <1>3, PassedStays DEF Polled
<1>5. ASSUME p.step = "stat" PROVE Seen(p.sig)'
  <2>1. p.sig \in FileSig /\ p.sig.written <= written /\ (p.sig.written = written => p.sig = Signature)
    BY <1>5 DEF Polled, Seen
  <2>2. p.sig.written \in Nat /\ written \in Nat
    BY <2>1 DEF FileSig, LogInv
  <2> QED BY <2>1, <2>2 DEF FileGoesOn, Seen, Signature, FileSig
<1>6. ASSUME p.step = "answered"
      PROVE  /\ p.top \in 0..Len(issued') /\ p.asked \in BOOLEAN
             /\ p.events \subseteq 1..Len(issued') /\ Passes(p.events)'
             /\ IF p.asked THEN since' # NoCursor ELSE p.events = {}
  <2>1. /\ p.top \in 0..Len(issued) /\ p.asked \in BOOLEAN /\ p.events \subseteq 1..Len(issued)
        /\ Passes(p.events) /\ (IF p.asked THEN since # NoCursor ELSE p.events = {})
    BY <1>6 DEF Polled
  <2>2. Passes(p.events)'
    <3> SUFFICES ASSUME NEW i \in Due', NEW e \in p.events, i < e, i \notin p.events, told'[i] = 0
                 PROVE  LeftOut(i)'
      BY DEF Passes
    <3>1. i \in Int /\ e \in 1..Len(issued)
      BY <1>2, <2>1 DEF Due
    <3>2. i <= Len(issued)
      BY <1>2, <3>1
    <3>3. i \in Due /\ told[i] = 0 /\ (LeftOut(i) => LeftOut(i)')
      BY <3>2, DueStays
    <3> QED BY <2>1, <3>3 DEF Passes
  <2>3. p.top \in 0..Len(issued') /\ p.events \subseteq 1..Len(issued')
    BY <1>2, <2>1
  <2> QED BY <2>1, <2>2, <2>3
<1> QED BY <1>4, <1>5, <1>6 DEF Polled

-----------------------------------------------------------------------------
(* The steps *)

LEMMA FaultIs ==
  ASSUME VisitInv, Fault \/ faults' = faults
  PROVE  faults' \in 0..MaxFaults
BY BoundsAssumption DEF VisitInv, Fault

LEMMA VisitStays ==
  ASSUME LogInv, Goes, VisitInv, SaidInv, UNCHANGED <<browser, said>>, faults' \in 0..MaxFaults
  PROVE  VisitInv' /\ SaidInv'
<1>1. SaysMore /\ since' = since
  BY DEF SaysMore, said
<1>2. Upto \subseteq Upto'
  <2>1. PICK new \in Seq(Rows) : issued' = issued \o new
    BY DEF Goes
  <2>2. Len(issued') \in Nat /\ Len(issued) \in Nat /\ Len(issued) <= Len(issued')
    BY <2>1, Grows, LenProperties, Numbers
  <2> QED BY <2>2 DEF Upto
<1>3. Passed(stored)' /\ \A t \in Tabs : Passed(mem[t])'
  <2>1. stored \in Upto /\ Passed(stored) /\ \A t \in Tabs : mem[t] \in Upto /\ Passed(mem[t])
    BY DEF VisitInv
  <2>2. \A c \in Upto : Passed(c) => Passed(c)'
    BY <1>1, PassedStays
  <2>3. mem' = mem /\ stored' = stored
    BY DEF browser
  <2> QED BY <2>1, <2>2, <2>3 DEF Passed
<1>4. VisitInv'
  BY <1>2, <1>3 DEF VisitInv, browser, said
<1> QED BY <1>4 DEF SaidInv, browser, said

LEMMA ServerSteps ==
  ASSUME CursorInv, \/ \E mines \in Batches : Emit(mines)
                    \/ EmitRead \/ EmitWrite \/ EmitFails \/ Crash
  PROVE  CursorInv'
<1> USE DEF CursorInv
<1>0. UNCHANGED <<browser, said>> /\ (Fault \/ faults' = faults)
  BY DEF Emit, EmitRead, EmitWrite, EmitFails, Crash
<1>1. faults' \in 0..MaxFaults /\ SaysMore /\ since' = since
  BY <1>0, FaultIs DEF SaysMore, said
<1>2. ASSUME LogInv', Goes PROVE VisitInv' /\ SaidInv'
  BY <1>0, <1>1, <1>2, VisitStays
<1>3. ASSUME Goes, FileGoesOn, tab' = tab PROVE PollInv'
  <2>1. \A p : Polled(p) => Polled(p)'
    BY <1>1, <1>3, PolledStays
  <2> QED BY <1>3, <2>1 DEF PollInv
<1>4. ASSUME NEW mines \in Batches, Emit(mines) PROVE CursorInv'
  <2>1. /\ UNCHANGED <<log, written, cache, tab, issued>> /\ writer'.step = "read" /\ writer'.batch = mines
        /\ writer'.sig = Signature /\ LastSeq(issued) + Len(mines) <= MaxSeq
    BY <1>4 DEF Emit
  <2>2. LogInv'
    BY <2>1 DEF LogInv, Seen, Signature, WasLog, Until
  <2>3. WriterInv'
    BY <2>1, LogNow DEF WriterInv, Signature
  <2> QED BY <1>2, <1>3, <2>1, <2>2, <2>3, StillGoes DEF FileGoesOn
<1>5. CASE EmitRead
  <2>1. /\ UNCHANGED <<log, written, tab, issued>> /\ writer.step = "read" /\ writer.sig = Signature
        /\ Remember(writer.sig) /\ writer'.step = "write" /\ writer'.batch = writer.batch
        /\ writer'.rows = Read(writer.sig)
    BY <1>5 DEF EmitRead, WriterInv
  <2>2. Seen(Signature)
    BY LogNow DEF Seen, Signature, FileSig, LogInv
  <2>3. LogInv'
    BY <2>1, <2>2, RememberKeepsLog
  <2>4. Read(writer.sig) = log
    BY <2>1, <2>2, ReadIs DEF Signature
  <2>5. WriterInv'
    BY <2>1, <2>4 DEF WriterInv
  <2> QED BY <1>2, <1>3, <2>1, <2>3, <2>5, StillGoes DEF FileGoesOn
<1>6. CASE EmitWrite
  <2>1. LogInv' /\ written' = written + 1 /\ Goes
    BY <1>6, EmitWrites DEF Goes
  <2>2. writer' = Idle /\ tab' = tab
    BY <1>6 DEF EmitWrite
  <2>3. WriterInv'
    BY <2>2 DEF WriterInv, Idle
  <2> QED BY <1>2, <1>3, <2>1, <2>2, <2>3 DEF FileGoesOn
<1>7. CASE EmitFails
  <2>1. UNCHANGED <<log, written, cache, tab, issued>> /\ writer' = Idle
    BY <1>7 DEF EmitFails
  <2>2. LogInv'
    BY <2>1 DEF LogInv, Seen, Signature, WasLog, Until
  <2>3. WriterInv'
    BY <2>1 DEF WriterInv, Idle
  <2> QED BY <1>2, <1>3, <2>1, <2>2, <2>3, StillGoes DEF FileGoesOn
<1>8. CASE Crash
  <2>1. /\ UNCHANGED <<log, written, issued>> /\ writer' = Idle /\ tab' = [t \in Tabs |-> Idle]
        /\ cache' = [sig |-> NoFile, rows |-> <<>>]
    BY <1>8 DEF Crash
  <2>2. LogInv'
    <3>1. written \in Nat /\ (written = 0 => issued = <<>>) /\ log = Newest(Keep, issued)
      BY DEF LogInv
    <3>2. Newest(Keep, Until(0)) = <<>> /\ 0 \in 0..Len(issued) /\ Until(0) = <<>>
      <4>1. 0 \in 0..Len(issued)
        BY LogNow
      <4> DEFINE r == Newest(Keep, Until(0))
      <4>2. r \in Seq(Rows) /\ Len(r) = 0
        BY <4>1, LogIs, BoundsAssumption
      <4> HIDE DEF r
      <4>3. r = <<>>
        BY <4>2, EmptySeq
      <4>4. Until(0) = <<>>
        BY SubSeqEmpty DEF Until
      <4> QED BY <4>1, <4>3, <4>4 DEF r
    <3>3. WasLog(cache.rows)'
      BY <2>1, <3>2 DEF WasLog, Until
    <3>4. written = 0 => log = <<>>
      BY <3>1, <3>2
    <3>5. written = 0 => Signature = NoFile
      BY <3>4, EmptySeq DEF Signature, NoFile
    <3>6. Seen(cache.sig)' /\ (cache'.sig.written = written' => cache'.rows = log')
      BY <2>1, <3>1, <3>4, <3>5 DEF Seen, FileSig, NoFile, Signature
    <3> QED BY <2>1, <3>3, <3>6 DEF LogInv
  <2>3. WriterInv'
    BY <2>1 DEF WriterInv, Idle
  <2>4. PollInv'
    BY <2>1 DEF PollInv, Polled, Idle
  <2> QED BY <1>2, <2>1, <2>2, <2>3, <2>4, StillGoes
<1> QED BY <1>4, <1>5, <1>6, <1>7, <1>8

LEMMA CursorIs ==
  ASSUME LogInv, VisitInv, NEW t \in Tabs
  PROVE  /\ Cursor(t) \in Upto /\ Passed(Cursor(t)) /\ mem[t] <= Cursor(t) /\ stored <= Cursor(t)
         /\ Cursor(t) = (IF mem[t] <= stored THEN stored ELSE mem[t])
         /\ Cursor(t) = NoCursor <=> since = NoCursor
<1>1. mem[t] \in Upto /\ stored \in Upto /\ mem[t] \in Int /\ stored \in Int /\ stored >= -1
  BY Numbers DEF VisitInv
<1>2. Cursor(t) = (IF mem[t] <= stored THEN stored ELSE mem[t])
  BY <1>1, MaxOfTwo DEF Cursor
<1>3. Cursor(t) = NoCursor <=> since = NoCursor
  BY <1>1, <1>2 DEF VisitInv, NoCursor
<1> QED BY <1>1, <1>2, <1>3 DEF VisitInv

(* A step of one poll that leaves the log, the cursors and what was said.    *)
LEMMA PollSteps ==
  ASSUME CursorInv, NEW t \in Tabs, Ask(t) \/ PollStat(t) \/ PollRead(t) \/ Lose(t)
  PROVE  CursorInv'
<1> USE DEF CursorInv
<1>0. UNCHANGED <<log, written, writer, browser, said, issued>> /\ (Fault \/ faults' = faults)
  BY DEF Ask, PollStat, PollRead, Lose, server
<1>1. faults' \in 0..MaxFaults /\ SaysMore /\ since' = since /\ Goes /\ FileGoesOn
  BY <1>0, FaultIs, StillGoes DEF SaysMore, said, FileGoesOn
<1>2. VisitInv' /\ SaidInv'
  BY <1>0, <1>1, VisitStays
<1>3. WriterInv'
  BY <1>0 DEF WriterInv, Signature
<1>4. LogInv'
  <2>1. CASE PollRead(t)
    <3>1. Seen(tab[t].sig)
      BY <2>1 DEF PollRead, PollInv, Polled
    <3> QED BY <1>0, <2>1, <3>1, RememberKeepsLog DEF PollRead
  <2>2. CASE ~PollRead(t)
    <3>1. cache' = cache
      BY <2>2 DEF Ask, PollStat, Lose, server
    <3> QED BY <1>0, <3>1 DEF LogInv, Seen, Signature, WasLog, Until
  <2> QED BY <2>1, <2>2
<1>5. \E p : Polled(p) /\ tab' = [tab EXCEPT ![t] = p]
  <2>1. CASE Ask(t)
    <3> DEFINE p == [step |-> "asked", ev |-> Cursor(t)]
    <3>1. Polled(p)
      BY CursorIs DEF Polled
    <3> QED BY <2>1, <3>1 DEF Ask
  <2>2. CASE PollStat(t)
    <3> DEFINE p == [step |-> "stat", ev |-> tab[t].ev, sig |-> Signature]
    <3>1. Polled(tab[t]) /\ tab[t].step = "asked" /\ tab' = [tab EXCEPT ![t] = p]
      BY <2>2 DEF PollStat, PollInv
    <3>2. Seen(Signature)
      BY LogNow DEF Seen, Signature, FileSig, LogInv
    <3>3. Polled(p)
      BY <3>1, <3>2 DEF Polled
    <3> QED BY <3>1, <3>3
  <2>3. CASE PollRead(t)
    <3> DEFINE p == EventsSince(Read(tab[t].sig), tab[t].ev)
    <3>1. Polled(tab[t]) /\ tab[t].step = "stat" /\ tab' = [tab EXCEPT ![t] = p]
      BY <2>3 DEF PollRead, PollInv
    <3>2. Seen(tab[t].sig) /\ tab[t].ev \in Upto /\ Passed(tab[t].ev) /\ (tab[t].ev # NoCursor => since # NoCursor)
      BY <3>1 DEF Polled
    <3>3. WasLog(Read(tab[t].sig))
      BY <3>2, ReadIs
    <3>4. Polled(p)
      BY <3>2, <3>3, AnswerIs
    <3> QED BY <3>1, <3>4
  <2>4. CASE Lose(t)
    BY <2>4 DEF Lose, Polled, Idle
  <2> QED BY <2>1, <2>2, <2>3, <2>4
<1>6. PollInv'
  <2>1. PICK p : Polled(p) /\ tab' = [tab EXCEPT ![t] = p]
    BY <1>5
  <2>2. \A q : Polled(q) => Polled(q)'
    BY <1>1, PolledStays
  <2>3. tab' = [s \in Tabs |-> tab'[s]] /\ \A s \in Tabs : tab'[s] = IF s = t THEN p ELSE tab[s]
    BY <2>1 DEF PollInv
  <2>4. \A s \in Tabs : Polled(tab'[s])
    BY <2>1, <2>3 DEF PollInv
  <2> HIDE DEF PollInv
  <2>5. \A s \in Tabs : Polled(tab[s])'
    BY <2>2, <2>4
  <2> QED BY <2>3, <2>5 DEF PollInv
<1> QED BY <1>2, <1>3, <1>4, <1>6

(* The steps that move a cursor or say something leave the server alone.     *)
LEMMA ServerStays ==
  ASSUME LogInv, WriterInv, UNCHANGED <<server, issued>>
  PROVE  LogInv' /\ WriterInv'
BY DEF server, LogInv, WriterInv, Seen, Signature, WasLog, Until

(* Its poll done, a tab is idle; the others' go on.                          *)
LEMMA OthersStay ==
  ASSUME LogInv, PollInv, NEW t \in Tabs, tab' = [tab EXCEPT ![t] = Idle],
         UNCHANGED <<server, issued>>, since' = since, SaysMore
  PROVE  PollInv'
<1>1. Goes /\ FileGoesOn
  BY StillGoes DEF FileGoesOn, server
<1>2. \A q : Polled(q) => Polled(q)'
  BY <1>1, PolledStays
<1>3. tab' = [s \in Tabs |-> tab'[s]] /\ \A s \in Tabs : tab'[s] = IF s = t THEN Idle ELSE tab[s]
  BY DEF PollInv
<1>4. \A s \in Tabs : Polled(tab'[s])
  BY <1>3 DEF PollInv, Polled, Idle
<1>5. \A s \in Tabs : Polled(tab[s])'
  BY <1>2, <1>4
<1> QED BY <1>3, <1>5 DEF PollInv

LEMMA ReloadStep ==
  ASSUME CursorInv, NEW t \in Tabs, Reload(t)
  PROVE  CursorInv'
<1> USE DEF CursorInv
<1>0. /\ UNCHANGED <<server, stored, issued, said>> /\ mem' = [mem EXCEPT ![t] = NoCursor]
      /\ tab' = [tab EXCEPT ![t] = Idle] /\ faults' \in 0..MaxFaults
  BY FaultIs DEF Reload
<1>1. SaysMore /\ since' = since
  BY <1>0 DEF SaysMore, said
<1>2. LogInv' /\ WriterInv' /\ PollInv'
  BY <1>0, <1>1, ServerStays, OthersStay
<1>3. \A s \in Tabs : mem'[s] = IF s = t THEN NoCursor ELSE mem[s]
  BY <1>0 DEF VisitInv
<1>4. NoCursor \in Upto /\ \A c \in Upto : (Passed(c) => Passed(c)') /\ Passed(NoCursor)'
  <2>1. Goes
    BY <1>0, StillGoes
  <2>2. Passed(NoCursor)
    BY Numbers DEF Passed, NoCursor
  <2> QED BY <1>1, <2>1, <2>2, PassedStays DEF Upto
<1>5. \A s \in Tabs : Passed(mem[s])'
  <2>1. \A s \in Tabs : mem'[s] \in Upto /\ Passed(mem'[s])
    BY <1>3, Numbers DEF VisitInv, Passed, Upto, NoCursor
  <2> HIDE DEF CursorInv
  <2>2. \A s \in Tabs : \E c \in Upto : c = mem'[s] /\ Passed(c)'
    BY <1>4, <2>1
  <2> QED BY <2>2 DEF Passed
<1>6. Passed(stored)'
  <2>1. stored \in Upto /\ Passed(stored) /\ stored' = stored
    BY <1>0 DEF VisitInv
  <2> QED BY <1>4, <2>1 DEF Passed
<1>7. Upto' = Upto
  BY <1>0 DEF Upto
<1>8. mem' \in [Tabs -> Upto]
  BY <1>0, <1>4 DEF VisitInv
<1>9. VisitInv'
  BY <1>0, <1>3, <1>5, <1>6, <1>7, <1>8 DEF VisitInv, said
<1>10. SaidInv'
  <2>1. NoCursor <= stored
    BY Numbers DEF VisitInv, NoCursor
  <2> QED BY <1>0, <1>3, <2>1 DEF SaidInv, said
<1> QED BY <1>2, <1>9, <1>10

(* The first answer of the browser's first visit: nothing is due before it.  *)
LEMMA FirstVisitStep ==
  ASSUME CursorInv, NEW t \in Tabs, Handle(t), FirstVisit(t, tab[t])
  PROVE  CursorInv'
<1> USE DEF CursorInv
<1>t. PICK top : top = tab[t].top
  OBVIOUS
<1>0. /\ UNCHANGED <<server, faults, issued, told, rewound>> /\ tab' = [tab EXCEPT ![t] = Idle]
      /\ mem' = [mem EXCEPT ![t] = top] /\ stored' = top /\ since' = top /\ tab[t].step = "answered"
  BY <1>t DEF Handle, FirstVisit, Put
<1>1. /\ since = NoCursor /\ \A s \in Tabs : mem[s] = NoCursor
      /\ \A n \in 1..MaxSeq : told[n] = 0
  BY CursorIs DEF FirstVisit, VisitInv
<1>2. top \in 0..Len(issued) /\ top \in Upto /\ top # NoCursor /\ top \in Int
  <2>1. top \in 0..Len(issued)
    BY <1>t, <1>0 DEF PollInv, Polled
  <2> QED BY <2>1, Numbers DEF Upto, NoCursor
<1>3. LogInv' /\ WriterInv'
  BY <1>0, ServerStays
<1>4. \A i \in Due' : i > top /\ i \in Int
  BY <1>0, <1>2, <1>3, Numbers DEF Due, LogInv
<1>5. Passed(top)' /\ Passed(NoCursor)' /\ Passes({})'
  BY <1>0, <1>2, <1>4 DEF Passed, Passes, NoCursor
<1>6. \A s \in Tabs : mem'[s] = IF s = t THEN top ELSE NoCursor
  BY <1>0, <1>1 DEF VisitInv
<1>7. Upto' = Upto /\ mem' \in [Tabs -> Upto]
  BY <1>0, <1>2 DEF Upto, VisitInv
<1>8. VisitInv'
  <2>1. \A s \in Tabs : Passed(mem[s])'
    BY <1>5, <1>6 DEF Passed
  <2>2. Passed(stored)'
    BY <1>0, <1>5 DEF Passed
  <2> QED BY <1>0, <1>2, <1>7, <2>1, <2>2 DEF VisitInv
<1>9. SaidInv'
  <2>1. NoCursor <= top
    BY <1>2 DEF NoCursor
  <2> QED BY <1>0, <1>1, <1>2, <1>6, <2>1 DEF SaidInv
<1>10. PollInv'
  <2>1. ASSUME NEW p, Polled(p) PROVE Polled(p)'
    <3>1. p.step \in {"asked", "stat"} => p.ev = NoCursor
      BY <1>1, <2>1 DEF Polled
    <3>2. p.step = "answered" => p.events = {} /\ ~p.asked
      BY <1>1, <2>1 DEF Polled
    <3>3. p.step = "stat" => Seen(p.sig)'
      BY <1>0, <2>1 DEF Polled, Seen, Signature, server
    <3>4. p.step = "answered" => p.top \in 0..Len(issued')
      BY <1>0, <2>1 DEF Polled
    <3>5. p.step \in {"asked", "stat"} => p.ev \in Upto' /\ Passed(p.ev)'
      BY <1>5, <3>1 DEF Passed, Upto
    <3>6. p.step = "answered" => Passes(p.events)'
      BY <3>2 DEF Passes
    <3> QED BY <2>1, <3>1, <3>2, <3>3, <3>4, <3>5, <3>6 DEF Polled
  <2>2. tab' = [s \in Tabs |-> tab'[s]] /\ \A s \in Tabs : tab'[s] = IF s = t THEN Idle ELSE tab[s]
    BY <1>0 DEF PollInv
  <2>3. \A s \in Tabs : Polled(tab'[s])
    BY <2>2 DEF PollInv, Polled, Idle
  <2>4. \A s \in Tabs : Polled(tab[s])'
    BY <2>1, <2>3
  <2> QED BY <2>2, <2>4 DEF PollInv
<1> QED BY <1>3, <1>8, <1>9, <1>10

(* An answer to a poll without a cursor where there is one by now.           *)
LEMMA StartedAgainStep ==
  ASSUME CursorInv, NEW t \in Tabs, Handle(t), StartedAgain(t, tab[t])
  PROVE  CursorInv'
<1> USE DEF CursorInv
<1> DEFINE top == tab[t].top
<1>0. /\ UNCHANGED <<server, faults, issued, told, since>> /\ tab' = [tab EXCEPT ![t] = Idle]
      /\ tab[t].step = "answered" /\ Cursor(t) # NoCursor
  BY DEF Handle, StartedAgain
<1>1. SaysMore /\ since' = since /\ Goes
  BY <1>0, StillGoes DEF SaysMore
<1>2. LogInv' /\ WriterInv' /\ PollInv'
  BY <1>0, <1>1, ServerStays, OthersStay
<1>3. CASE top < Cursor(t)
  <2>1. mem' = [mem EXCEPT ![t] = top] /\ stored' = top /\ rewound' = TRUE
    BY <1>3 DEF StartedAgain, Put
  <2>2. top \in 0..Len(issued) /\ top \in Upto /\ top # NoCursor /\ top \in Int
    <3>1. top \in 0..Len(issued)
      BY <1>0 DEF PollInv, Polled
    <3> QED BY <3>1, Numbers DEF Upto, NoCursor
  <2> HIDE DEF top
  <2>3. Passed(top)
    <3>1. Passed(Cursor(t)) /\ Cursor(t) \in Int
      BY CursorIs, Numbers
    <3>2. \A i \in Due : i \in Int /\ (i <= top => i <= Cursor(t))
      BY <1>3, <2>2, <3>1, Numbers
    <3> QED BY <3>1, <3>2 DEF Passed
  <2>4. since # NoCursor
    BY <1>0, CursorIs
  <2>5. \A c \in Upto : Passed(c) => Passed(c)'
    BY <1>1, PassedStays
  <2>6. \A s \in Tabs : mem'[s] = IF s = t THEN top ELSE mem[s]
    BY <2>1 DEF VisitInv
  <2>7. \A s \in Tabs : mem'[s] \in Upto /\ Passed(mem'[s])
    BY <2>2, <2>3, <2>6 DEF VisitInv
  <2>8. \A s \in Tabs : Passed(mem[s])'
    <3> HIDE DEF CursorInv
    <3>1. \A s \in Tabs : \E c \in Upto : c = mem'[s] /\ Passed(c)'
      BY <2>5, <2>7
    <3> QED BY <3>1 DEF Passed
  <2>9. Passed(stored)'
    BY <2>1, <2>2, <2>3, <2>5 DEF Passed
  <2>10. Upto' = Upto /\ mem' \in [Tabs -> Upto]
    BY <1>0, <2>1, <2>2 DEF Upto, VisitInv
  <2>11. VisitInv'
    BY <1>0, <2>1, <2>2, <2>4, <2>8, <2>9, <2>10 DEF VisitInv
  <2> QED BY <1>2, <2>1, <2>11 DEF SaidInv
<1>4. CASE ~(top < Cursor(t))
  <2>1. UNCHANGED <<browser, said>> /\ faults' \in 0..MaxFaults
    BY <1>0, <1>4 DEF StartedAgain, said, VisitInv
  <2>2. VisitInv' /\ SaidInv'
    BY <1>1, <2>1, VisitStays
  <2> QED BY <1>2, <2>2
<1> QED BY <1>3, <1>4

(* What an answer holds beyond the cursor is said, and the cursor goes on.   *)
LEMMA NotifyStep ==
  ASSUME CursorInv, NEW t \in Tabs, Handle(t), Notify(t, tab[t])
  PROVE  CursorInv'
<1> USE DEF CursorInv
<1>s. PICK S : S = Pick(t, tab[t].events)
  OBVIOUS
<1>e. PICK events \in SUBSET (1..Len(issued)) : events = tab[t].events
  BY DEF Handle, PollInv, Polled
<1>c. PICK cursor \in Upto : cursor = Cursor(t) /\ Passed(cursor) /\ cursor # NoCursor
  BY CursorIs DEF Notify
<1>t. PICK top : top = Max({cursor} \cup events)
  OBVIOUS
<1>0. /\ UNCHANGED <<server, faults, issued, since, rewound>> /\ tab' = [tab EXCEPT ![t] = Idle]
      /\ tab[t].step = "answered" /\ tab[t].asked
      /\ S = {n \in events : n > cursor}
      /\ told' = [n \in 1..MaxSeq |-> told[n] + IF n \in S THEN 1 ELSE 0]
      /\ IF top > cursor THEN mem' = [mem EXCEPT ![t] = top] /\ stored' = top ELSE UNCHANGED browser
  BY <1>s, <1>e, <1>c, <1>t DEF Handle, Notify, Put, Say, Pick
<1>1. /\ top \in {cursor} \cup events /\ cursor <= top /\ top \in Upto /\ top \in Int /\ cursor \in Int
      /\ cursor >= 0 /\ top # NoCursor /\ \A k \in events : k <= top
  <2>1. Len(issued) \in Nat /\ cursor \in -1..Len(issued) /\ events \subseteq 0..Len(issued)
    BY Numbers DEF Upto, NoCursor
  <2>2. top \in {cursor} \cup events /\ cursor <= top /\ top \in -1..Len(issued) /\ \A k \in events : k <= top
    BY <1>t, <2>1, MaxUpTo
  <2> QED BY <1>c, <2>1, <2>2 DEF Upto, NoCursor
<1>2. /\ told \in [1..MaxSeq -> Nat] /\ told' \in [1..MaxSeq -> Nat]
      /\ \A n \in 1..MaxSeq : told'[n] = IF n \in S THEN told[n] + 1 ELSE told[n]
  BY <1>0 DEF VisitInv
<1>3. SaysMore /\ since' = since /\ Goes
  BY <1>0, <1>2, StillGoes DEF SaysMore
<1>4. LogInv' /\ WriterInv' /\ PollInv'
  BY <1>0, <1>3, ServerStays, OthersStay
<1>5. since # NoCursor
  BY <1>c, CursorIs
<1>6. \A c \in Upto : Passed(c) => Passed(c)'
  BY <1>3, PassedStays
<1>7. Passed(top)'
  <2> SUFFICES ASSUME NEW i \in Due', i <= top, told'[i] = 0 PROVE LeftOut(i)'
    BY DEF Passed
  <2>1. i \in Due /\ i \in 1..MaxSeq /\ LeftOut(i)' = LeftOut(i) /\ i \in Int
    <3>1. i \in Due
      BY <1>0 DEF Due
    <3> QED BY <1>0, <3>1, Numbers DEF LeftOut
  <2>2. told[i] = 0 /\ i \notin S
    BY <1>2, <2>1
  <2>3. CASE i <= cursor
    BY <1>c, <2>1, <2>2, <2>3 DEF Passed
  <2>4. CASE i > cursor
    <3>1. i \notin events
      BY <1>0, <2>2, <2>4
    <3>2. top \in events /\ i < top
      BY <1>1, <2>1, <2>4, <3>1
    <3>3. Passes(events)
      BY <1>0, <1>e DEF PollInv, Polled
    <3> QED BY <2>1, <2>2, <3>1, <3>2, <3>3 DEF Passes
  <2> QED BY <1>1, <2>1, <2>3, <2>4
<1>8. Upto' = Upto /\ mem \in [Tabs -> Upto] /\ stored \in Upto
  BY <1>0 DEF Upto, VisitInv
<1>9. VisitInv'
  <2>1. CASE top > cursor
    <3>1. mem' = [mem EXCEPT ![t] = top] /\ stored' = top
      BY <1>0, <2>1
    <3>2. \A s \in Tabs : \E c \in Upto : c = mem'[s] /\ Passed(c)'
      BY <1>1, <1>6, <1>7, <1>8, <3>1 DEF VisitInv
    <3>3. (\A s \in Tabs : Passed(mem[s])') /\ Passed(stored)'
      BY <1>7, <3>1, <3>2 DEF Passed
    <3> QED BY <1>0, <1>1, <1>2, <1>5, <1>8, <3>1, <3>3 DEF VisitInv
  <2>2. CASE ~(top > cursor)
    <3>1. mem' = mem /\ stored' = stored
      BY <1>0, <2>2 DEF browser
    <3>2. (\A s \in Tabs : \E c \in Upto : c = mem'[s] /\ Passed(c)') /\ \E c \in Upto : c = stored' /\ Passed(c)'
      BY <1>6, <1>8, <3>1 DEF VisitInv
    <3>3. (\A s \in Tabs : Passed(mem[s])') /\ Passed(stored)'
      BY <3>2 DEF Passed
    <3>4. stored = NoCursor => since = NoCursor
      BY DEF VisitInv
    <3> QED BY <1>0, <1>2, <1>5, <1>8, <3>1, <3>3, <3>4 DEF VisitInv
  <2> QED BY <2>1, <2>2
<1>10. SaidInv'
  <2> SUFFICES ASSUME ~rewound
               PROVE  /\ since <= stored' /\ \A s \in Tabs : mem'[s] <= stored'
                      /\ \A n \in 1..MaxSeq : /\ told'[n] <= 1
                                              /\ told'[n] # 0 => since < n /\ n <= stored'
    BY <1>0 DEF SaidInv
  <2>1. /\ since <= stored /\ (\A s \in Tabs : mem[s] <= stored)
        /\ \A n \in 1..MaxSeq : told[n] <= 1 /\ (told[n] # 0 => since < n /\ n <= stored)
        /\ since \in Int /\ stored \in Int /\ (\A s \in Tabs : mem[s] \in Int)
    BY Numbers DEF SaidInv, VisitInv
  <2>2. cursor = stored
    BY <1>c, <2>1, CursorIs
  <2>3. stored' = top /\ \A s \in Tabs : mem'[s] = mem[s] \/ mem'[s] = top
    BY <1>0, <1>1, <1>8, <2>2 DEF browser
  <2>4. \A s \in Tabs : mem'[s] <= stored'
    BY <1>1, <2>1, <2>2, <2>3
  <2>5. ASSUME NEW n \in 1..MaxSeq
        PROVE  told'[n] <= 1 /\ (told'[n] # 0 => since < n /\ n <= stored')
    <3>0. n \in Int /\ told[n] \in Nat
      BY <1>2
    <3>1. CASE n \in S
      <4>1. n > stored /\ n <= top
        BY <1>0, <1>1, <2>2, <3>1
      <4>2. told[n] = 0
        BY <2>1, <3>0, <4>1
      <4> QED BY <1>2, <2>1, <2>3, <3>0, <3>1, <4>1, <4>2
    <3>2. CASE n \notin S
      BY <1>1, <1>2, <2>1, <2>2, <2>3, <3>0, <3>2
    <3> QED BY <3>1, <3>2
  <2>6. since <= stored'
    BY <1>1, <2>1, <2>2, <2>3
  <2> QED BY <2>4, <2>5, <2>6
<1> QED BY <1>4, <1>9, <1>10

-----------------------------------------------------------------------------
(* The theorems *)

LEMMA InitCursor == Init => CursorInv
<1> SUFFICES ASSUME Init PROVE CursorInv
  OBVIOUS
<1> DEFINE first == <<[seq |-> 1, mine |-> TRUE]>>
<1>0. log \in {<<>>, first} /\ issued = log /\ written = Len(log) /\ Keep \in Nat \ {0} /\ MaxSeq \in Nat \ {0}
  BY BoundsAssumption DEF Init
<1>1. /\ first \in Seq(Rows) /\ Len(first) = 1 /\ first[1].seq = 1
  BY <1>0 DEF Rows
<1>2. /\ issued \in Seq(Rows) /\ Len(issued) \in {0, 1} /\ written = Len(issued)
      /\ \A i \in 1..Len(issued) : issued[i].seq = i
      /\ Len(issued) = 0 => issued = <<>>
  <2>1. <<>> \in Seq(Rows) /\ Len(<<>>) = 0
    BY EmptySeq
  <2>2. CASE log = <<>>
    BY <1>0, <2>1, <2>2
  <2>3. CASE log = first
    <3> HIDE DEF first
    <3>1. issued = first /\ Len(issued) = 1 /\ written = 1
      BY <1>0, <1>1, <2>3
    <3>2. \A i \in 1..Len(issued) : i = 1
      BY <3>1
    <3>3. \A i \in 1..Len(issued) : issued[i].seq = i
      BY <1>1, <3>1, <3>2
    <3> QED BY <1>1, <3>1, <3>3
  <2> QED BY <1>0, <2>2, <2>3
<1>3. Newest(Keep, <<>>) = <<>>
  <2> DEFINE r == Newest(Keep, <<>>)
  <2>1. <<>> \in Seq(Rows) /\ Len(<<>>) = 0
    BY EmptySeq
  <2>2. r \in Seq(Rows) /\ Len(r) = IF Len(<<>>) < Keep THEN Len(<<>>) ELSE Keep
    BY <1>0, <2>1, NewestIs
  <2>3. r \in Seq(Rows) /\ Len(r) = 0
    BY <1>0, <2>1, <2>2
  <2> HIDE DEF r
  <2>4. r = <<>>
    BY <2>3, EmptySeq
  <2> QED BY <2>4 DEF r
<1>4. log = Newest(Keep, issued)
  <2>1. CASE log = <<>>
    BY <1>0, <1>3, <2>1
  <2>2. CASE log = first
    <3> DEFINE r == Newest(Keep, first)
    <3>1. /\ r \in Seq(Rows) /\ Len(r) = IF Len(first) < Keep THEN Len(first) ELSE Keep
          /\ \A i \in 1..Len(r) : r[i] = first[Len(first) - Len(r) + i]
      BY <1>0, <1>1, NewestIs
    <3> HIDE DEF r, first
    <3>2. Len(r) = Len(first)
      BY <1>0, <1>1, <3>1
    <3>3. \A i \in 1..Len(r) : r[i] = first[i]
      BY <1>1, <3>1, <3>2
    <3>4. r = first
      BY <1>1, <3>1, <3>2, <3>3, SeqEqual
    <3> QED BY <1>0, <2>2, <3>4 DEF r
  <2> QED BY <1>0, <2>1, <2>2
<1>5. LogInv
  <2>1. 0 \in 0..Len(issued) /\ Until(0) = <<>>
    BY <1>2, SubSeqEmpty DEF Until
  <2>2. cache = [sig |-> NoFile, rows |-> <<>>]
    BY DEF Init
  <2>3. WasLog(cache.rows)
    BY <1>3, <2>1, <2>2 DEF WasLog
  <2>4. Seen(cache.sig) /\ (cache.sig.written = written => cache.rows = log)
    <3>1. written = 0 => log = <<>> /\ Len(log) = 0
      BY <1>0, <1>2
    <3> QED BY <1>2, <2>2, <3>1 DEF Seen, FileSig, NoFile, Signature
  <2> QED BY <1>0, <1>2, <1>4, <2>3, <2>4 DEF LogInv
<1>6. WriterInv
  BY DEF Init, WriterInv, Idle
<1>7. PollInv
  BY DEF Init, PollInv, Polled, Idle
<1>8. /\ NoCursor \in Upto /\ Passed(NoCursor) /\ mem = [t \in Tabs |-> NoCursor] /\ stored = NoCursor
      /\ since = NoCursor /\ told = [n \in 1..MaxSeq |-> 0] /\ rewound = FALSE /\ faults = 0
  BY <1>5, Numbers DEF Init, Upto, Passed, NoCursor
<1>9. VisitInv
  <2>1. mem \in [Tabs -> Upto] /\ stored \in Upto /\ since \in Upto /\ told \in [1..MaxSeq -> Nat]
    BY <1>8
  <2>2. faults \in 0..MaxFaults /\ rewound \in BOOLEAN
    <3>1. 0 \in 0..MaxFaults
      BY BoundsAssumption
    <3>2. faults = 0 /\ rewound = FALSE
      BY DEF Init
    <3> QED BY <3>1, <3>2
  <2>3. \A t \in Tabs : mem[t] = NoCursor
    BY <1>8
  <2>4. \A n \in 1..MaxSeq : told[n] = 0
    BY <1>8
  <2>5. Passed(stored) /\ \A t \in Tabs : Passed(mem[t])
    BY <1>8, <2>3
  <2> QED BY <1>8, <2>1, <2>2, <2>3, <2>4, <2>5 DEF VisitInv
<1>10. SaidInv
  BY <1>8 DEF SaidInv, NoCursor
<1> QED BY <1>5, <1>6, <1>7, <1>9, <1>10 DEF CursorInv

LEMMA CursorInvStays ==
  ASSUME CursorInv, [Next]_vars
  PROVE  CursorInv'
<1>1. CASE UNCHANGED vars
  <2>1. UNCHANGED <<server, browser, said, issued, tab, faults>>
    BY <1>1 DEF vars
  <2>2. LogInv' /\ WriterInv'
    BY <2>1, ServerStays DEF CursorInv
  <2>3. Goes /\ SaysMore /\ FileGoesOn /\ faults' \in 0..MaxFaults
    BY <2>1, StillGoes DEF CursorInv, SaysMore, said, FileGoesOn, server, VisitInv
  <2>4. VisitInv' /\ SaidInv'
    BY <2>1, <2>3, VisitStays DEF CursorInv
  <2>5. PollInv'
    <3>1. \A p : Polled(p) => Polled(p)'
      BY <2>1, <2>3, PolledStays DEF CursorInv, said
    <3> QED BY <2>1, <3>1 DEF CursorInv, PollInv
  <2> QED BY <2>2, <2>4, <2>5 DEF CursorInv
<1>2. ASSUME NEW t \in Tabs, Handle(t) PROVE CursorInv'
  <2>1. FirstVisit(t, tab[t]) \/ StartedAgain(t, tab[t]) \/ Notify(t, tab[t])
    BY <1>2 DEF Handle
  <2> QED BY <1>2, <2>1, FirstVisitStep, StartedAgainStep, NotifyStep
<1> QED BY <1>1, <1>2, ServerSteps, PollSteps, ReloadStep DEF Next, Poll

THEOREM CursorInvHolds == Spec => []CursorInv
BY InitCursor, CursorInvStays, PTL DEF Spec

(* The shapes of the state, from the invariant.                              *)
LEMMA Shapes ==
  ASSUME CursorInv
  PROVE  TypeOK
<1> USE DEF CursorInv
<1>0. Keep \in Nat \ {0} /\ MaxSeq \in Nat \ {0} /\ Len(issued) \in Nat /\ Len(issued) <= MaxSeq
  BY Numbers, BoundsAssumption
<1>1. ASSUME NEW rows, WasLog(rows) PROVE IsLog(rows, Keep)
  <2>1. PICK n \in 0..Len(issued) : rows = Newest(Keep, Until(n))
    BY <1>1 DEF WasLog
  <2>2. /\ rows \in Seq(Rows) /\ Len(rows) = (IF n < Keep THEN n ELSE Keep)
        /\ \A i \in 1..Len(rows) : rows[i].seq = n - Len(rows) + i
    BY <2>1, LogIs
  <2>3. DOMAIN rows = 1..Len(rows) /\ Len(rows) \in Nat /\ Len(rows) <= Keep
    BY <1>0, <2>2, LenProperties
  <2>4. \A i, j \in 1..Len(rows) : i < j => n - Len(rows) + i < n - Len(rows) + j
    BY <1>0, <2>3
  <2> QED BY <2>2, <2>3, <2>4 DEF IsLog
<1>2. IsLog(log, Keep) /\ IsLog(cache.rows, Keep)
  BY <1>1, LogNow DEF LogInv
<1>3. IsLog(issued, MaxSeq)
  BY <1>0, Numbers DEF IsLog, LogInv
<1>4. written \in 0..MaxSeq /\ cache.sig.written \in 0..written
  <2>1. written \in Nat /\ written <= Len(issued) /\ cache.sig.written \in Nat /\ cache.sig.written <= written
    BY DEF LogInv, Seen, FileSig
  <2> QED BY <1>0, <2>1
<1>5. Upto \subseteq Cursors /\ \A k \in 0..Len(issued) : k \in 0..MaxSeq
  BY <1>0 DEF Upto, Cursors
<1>6. \A t \in Tabs : /\ tab[t].step \in {"idle", "asked", "stat", "answered"}
                      /\ tab[t].step = "asked" => tab[t].ev \in Cursors
                      /\ tab[t].step = "answered" => tab[t].top \in 0..MaxSeq
  BY <1>5 DEF PollInv, Polled
<1>7. mem \in [Tabs -> Cursors] /\ stored \in Cursors /\ since \in Cursors
  BY <1>5 DEF VisitInv
<1> QED BY <1>2, <1>3, <1>4, <1>6, <1>7 DEF TypeOK, WriterInv, VisitInv

(* Whatever emits, polls, lost answers, reloads and crashes do, and for any  *)
(* number of tabs and records: events.jsonl is the newest records written    *)
(* and no number is used twice, a notice is said once and only if it is of   *)
(* after the first visit, and the cursor passes none that was neither said   *)
(* nor left out by the limits - the put back cursor aside, as CursorHolds    *)
(* has it.                                                                   *)
THEOREM CursorAlwaysHolds == Spec => []CursorHolds
<1>1. ASSUME CursorInv PROVE LogIsTheNewestWritten
  <2>1. \A i, j \in DOMAIN issued : i < j => issued[i].seq < issued[j].seq
    BY <1>1, Numbers DEF CursorInv
  <2> QED BY <1>1, <2>1 DEF CursorInv, LogInv, LogIsTheNewestWritten
<1>2. ASSUME CursorInv PROVE SaidOnceAndNothingOld
  <2>1. \A n \in 1..MaxSeq : told[n] = 1 => told[n] # 0
    OBVIOUS
  <2> QED BY <1>2, <2>1 DEF CursorInv, SaidInv, SaidOnceAndNothingOld
<1>3. ASSUME CursorInv PROVE NothingPassedOver
  <2>1. \A i \in Due : issued[i].seq = i
    BY <1>3, Numbers DEF CursorInv
  <2> QED BY <1>3, <2>1 DEF CursorInv, VisitInv, Passed, NothingPassedOver
<1>4. CursorInv => CursorHolds
  BY <1>1, <1>2, <1>3, Shapes DEF CursorHolds
<1> QED BY <1>4, CursorInvHolds, PTL
=============================================================================
