-------------------------- MODULE LogIngest_proofs --------------------------
(***************************************************************************)
(* What LogIngest promises, proved for any number of processes that make   *)
(* passes, any lines, and any sizes of the tail, the window and a batch.   *)
(***************************************************************************)
EXTENDS LogIngest, FiniteSetTheorems, WellFoundedInduction, TLAPS

(***************************************************************************)
(* Sets of numbers, and the place of a number in one.                      *)
(***************************************************************************)
LEMMA Least ==
  ASSUME NEW S \in SUBSET Nat, S # {}
  PROVE  \E m \in S : \A n \in S : m <= n
<1>1. PICK m \in S : \A n \in S : ~ (<<n, m>> \in OpToRel(<, Nat))
  BY NatLessThanWellFounded, WFMin
<1>2. \A n \in S : ~ (n < m)
  BY <1>1 DEF OpToRel
<1> QED
  BY <1>2

LEMMA Greatest ==
  ASSUME NEW n \in Nat, NEW S \in SUBSET (1 .. n), S # {}
  PROVE  Max(S) \in S /\ \A i \in S : i <= Max(S)
<1> DEFINE Bounds == {m \in Nat : \A i \in S : i <= m}
<1>1. n \in Bounds
  OBVIOUS
<1>2. PICK m \in Bounds : \A k \in Bounds : m <= k
  BY <1>1, Least
<1>3. m \in S
  <2>1. SUFFICES ASSUME m \notin S PROVE FALSE
    OBVIOUS
  <2>2. \A i \in S : i <= m /\ i # m /\ i \in Nat /\ i >= 1
    BY <1>2, <2>1
  <2>3. ASSUME NEW i \in S PROVE i <= m - 1
    <3>1. i \in Nat /\ m \in Nat /\ i <= m /\ i # m
      BY <1>2, <2>2
    <3> QED
      BY <3>1
  <2>4. m - 1 \in Nat
    <3>1. PICK i \in S : TRUE
      OBVIOUS
    <3>2. i <= m /\ i >= 1 /\ i \in Nat /\ m \in Nat
      BY <1>2, <2>2
    <3> QED
      BY <3>2
  <2>5. m - 1 \in Bounds
    BY <2>3, <2>4
  <2> QED
    BY <1>2, <2>5
<1>4. \E x \in S : \A y \in S : x >= y
  BY <1>2, <1>3
<1> QED
  BY <1>4 DEF Max

LEMMA Finite ==
  ASSUME NEW n \in Nat, NEW S \in SUBSET (1 .. n)
  PROVE  IsFiniteSet(S) /\ Cardinality(S) \in Nat
<1>1. IsFiniteSet(1 .. n)
  BY FS_Interval
<1>2. IsFiniteSet(S)
  BY <1>1, FS_Subset
<1> QED
  BY <1>2, FS_CardinalityType

\* Among equal lines, at most m have one of the first m places.
LEMMA FewHaveLowRank ==
  ASSUME NEW n \in Nat, NEW S \in SUBSET (1 .. n), NEW m \in Nat
  PROVE  Cardinality({i \in S : Rank(i, S) <= m}) <= m
<1> DEFINE Low == {i \in S : Rank(i, S) <= m}
<1>1. CASE Low = {}
  BY <1>1, FS_EmptySet
<1>2. CASE Low # {}
  <2>1. Max(Low) \in Low /\ \A i \in Low : i <= Max(Low)
    BY <1>2, Greatest
  <2> DEFINE UpTo == {j \in S : j <= Max(Low)}
  <2>2. Low \in SUBSET UpTo /\ UpTo \in SUBSET (1 .. n)
    BY <2>1
  <2>3. Cardinality(Low) <= Cardinality(UpTo)
    BY <2>2, Finite, FS_Subset
  <2>4. Cardinality(UpTo) <= m
    BY <2>1 DEF Rank
  <2>5. Cardinality(Low) \in Nat /\ Cardinality(UpTo) \in Nat
    BY <2>2, Finite
  <2> QED
    BY <2>3, <2>4, <2>5
<1> QED
  BY <1>1, <1>2

\* A place is a number, and a later member has a later one.
LEMMA RankGrows ==
  ASSUME NEW n \in Nat, NEW S \in SUBSET (1 .. n), NEW i \in S, NEW j \in S, i <= j
  PROVE  Rank(i, S) <= Rank(j, S) /\ Rank(i, S) \in Nat /\ Rank(j, S) \in Nat
<1>1. \A k \in S : k <= i => k <= j
  OBVIOUS
<1>2. {k \in S : k <= i} \in SUBSET {k \in S : k <= j} /\ {k \in S : k <= j} \in SUBSET (1 .. n)
  BY <1>1
<1>3. {k \in S : k <= i} \in SUBSET (1 .. n)
  BY <1>2
<1> QED
  BY <1>2, <1>3, Finite, FS_Subset DEF Rank

\* Where one has a later place, the first m are all there.
LEMMA FirstPlacesTaken ==
  ASSUME NEW n \in Nat, NEW S \in SUBSET (1 .. n), NEW m \in Nat,
         NEW b \in S, Rank(b, S) > m
  PROVE  Cardinality({i \in S : Rank(i, S) <= m}) >= m
<1>1. PICK h \in {i \in S : Rank(i, S) > m} : \A i \in {j \in S : Rank(j, S) > m} : h <= i
  <2> DEFINE High == {i \in S : Rank(i, S) > m}
  <2>1. High \in SUBSET Nat
    <3>1. \A i \in S : i \in Nat
      OBVIOUS
    <3> QED
      BY <3>1
  <2>2. b \in High
    BY Zenon
  <2> HIDE DEF High
  <2>3. \E h \in High : \A i \in High : h <= i
    BY <2>1, <2>2, Least
  <2> QED
    BY <2>3 DEF High
<1>2. h \in S /\ Rank(h, S) > m /\ \A i \in S : Rank(i, S) > m => h <= i
  BY <1>1
<1>3. ASSUME NEW i \in S PROVE Rank(i, S) \in Nat
  <2>1. i <= i
    OBVIOUS
  <2> QED
    BY <2>1, RankGrows
<1> DEFINE Low == {i \in S : Rank(i, S) <= m}
           UpTo == {j \in S : j <= h}
<1>4. UpTo \ {h} \in SUBSET Low
  <2>1. ASSUME NEW j \in S, j <= h, j # h PROVE Rank(j, S) <= m
    BY <1>2, <1>3, <2>1
  <2> QED
    BY <2>1
<1>5. Low \in SUBSET (1 .. n) /\ UpTo \in SUBSET (1 .. n) /\ h \in UpTo
  BY <1>2
<1>6. Cardinality(UpTo) = Rank(h, S)
  BY DEF Rank
<1> HIDE DEF Low, UpTo
<1>7. Cardinality(UpTo \ {h}) = Rank(h, S) - 1
  BY <1>5, <1>6, Finite, FS_RemoveElement
<1>8. Cardinality(UpTo \ {h}) <= Cardinality(Low) /\ Cardinality(Low) \in Nat
  BY <1>4, <1>5, Finite, FS_Subset
<1>9. Cardinality(Low) >= m
  BY <1>2, <1>3, <1>7, <1>8
<1> QED
  BY <1>9 DEF Low

LEMMA Disjoint ==
  ASSUME NEW n \in Nat, NEW S \in SUBSET (1 .. n), NEW T \in SUBSET (1 .. n), S \cap T = {}
  PROVE  Cardinality(S \cup T) = Cardinality(S) + Cardinality(T)
<1>1. IsFiniteSet(S) /\ Cardinality(S) \in Nat /\ IsFiniteSet(T) /\ Cardinality(T) \in Nat
  BY Finite
<1>2. Cardinality(S \cup T) = Cardinality(S) + Cardinality(T) - Cardinality(S \cap T)
  BY <1>1, FS_Union
<1>3. Cardinality(S \cap T) = 0
  BY FS_EmptySet
<1> QED
  BY <1>1, <1>2, <1>3

\* The members of a set up to a place, and those beyond it.
LEMMA ByPlace ==
  ASSUME NEW n \in Nat, NEW S \in SUBSET (1 .. n), NEW m \in Nat
  PROVE  /\ Cardinality(S) = Cardinality({i \in S : Rank(i, S) <= m}) + Cardinality({i \in S : Rank(i, S) > m})
         /\ Cardinality({i \in S : Rank(i, S) <= m}) \in Nat /\ Cardinality({i \in S : Rank(i, S) > m}) \in Nat
<1> DEFINE low == {i \in S : Rank(i, S) <= m}
           high == {i \in S : Rank(i, S) > m}
<1>1. ASSUME NEW i \in S PROVE Rank(i, S) <= m <=> ~(Rank(i, S) > m)
  <2>1. i <= i
    OBVIOUS
  <2>2. Rank(i, S) \in Nat
    BY <2>1, RankGrows
  <2> QED
    BY <2>2
<1>2. low \cup high = S /\ low \cap high = {} /\ low \in SUBSET (1 .. n) /\ high \in SUBSET (1 .. n)
  BY <1>1
<1> HIDE DEF low, high
<1>3. Cardinality(S) = Cardinality(low) + Cardinality(high) /\ Cardinality(low) \in Nat /\ Cardinality(high) \in Nat
  BY <1>2, Disjoint, Finite
<1> QED
  BY <1>3 DEF low, high

LEMMA Monotone ==
  ASSUME NEW n \in Nat, NEW T \in SUBSET (1 .. n), NEW S \in SUBSET T
  PROVE  Cardinality(S) <= Cardinality(T) /\ Cardinality(S) \in Nat /\ Cardinality(T) \in Nat
BY Finite, FS_Subset


(***************************************************************************)
(* The inductive invariant of NoneSkipped.                                 *)
(***************************************************************************)
TypeOK ==
  /\ clock \in Nat \ {0}
  /\ log \in Seq([ts : Nat \ {0}, err : BOOLEAN, msg : Messages]) /\ from \in 1 .. Len(log) + 1
  /\ db \in Seq([at : Nat, msg : Messages, source : {"ingestor", "stream"}])
  /\ cursor \in Nat
  /\ step \in [Ingestors -> {"idle", "sift", "store", "more"}]
  /\ since \in [Ingestors -> Nat]
  /\ todo \in [Ingestors -> SUBSET DOMAIN log]
  /\ first \in Nat /\ owed \in SUBSET Output /\ blurred \in BOOLEAN

\* The log is written in the order of its times.
LogInv ==
  /\ \A i \in DOMAIN log : log[i].ts <= clock
  /\ \A i, j \in DOMAIN log : i < j => log[i].ts <= log[j].ts

\* What is left of a pass that stores is lines of stdout; nobody has a cursor before
\* somebody has stored one.
PassInv ==
  /\ cursor <= clock
  /\ \A p \in Ingestors :
       /\ since[p] <= clock
       /\ step[p] = "idle" => todo[p] = {}
       /\ step[p] \in {"store", "more"} => todo[p] # {} /\ todo[p] \subseteq StdOut
       /\ cursor = 0 => since[p] = 0

\* A line no pass was given is later than every cursor and every line of a pass.
AheadInv ==
  \A j \in Output \ owed : j >= from /\ j >= first =>
    /\ cursor <= log[j].ts
    /\ \A p \in Ingestors : since[p] <= log[j].ts /\ \A i \in todo[p] : i < j

\* Before there is a cursor, a pass has all of the present tail up to its own last line.
TailInv ==
  \A p \in Ingestors : cursor = 0 =>
    \A i \in todo[p] : \A j \in Output : TailFrom <= j /\ j <= i => j \in todo[p]

\* A line of a container that is gone is earlier than all of the present one.
GoneInv ==
  \A i \in owed : i < from =>
    /\ log[i].ts < clock
    /\ \A j \in DOMAIN log : j >= from => log[i].ts < log[j].ts

OrderInv == TypeOK /\ LogInv /\ PassInv /\ AheadInv /\ TailInv /\ GoneInv

\* Of the lines with this record that are owed, each has a row.
Settled(r) == Cardinality(Lines(r, owed)) <= Cardinality(Rows(r))

\* What the cursor has passed, and what is gone, is stored.
PassedInv ==
  \A i \in owed : log[i].ts < cursor \/ i < from => Settled(Record(i))

\* What is before the cursor a pass knows is stored; what it will move the cursor past is
\* stored, or the pass still has it.
CoverInv ==
  \A p \in Ingestors, i \in owed :
    /\ step[p] # "idle" /\ log[i].ts < since[p] => Settled(Record(i))
    /\ step[p] = "sift" =>
         \/ Settled(Record(i))
         \/ /\ since[p] <= log[i].ts
            /\ (\E b \in todo[p] : log[i].ts < log[b].ts) => Lines(Record(i), owed) \subseteq todo[p]
    /\ step[p] \in {"store", "more"} /\ (\E b \in todo[p] : log[i].ts < log[b].ts) =>
         Cardinality(Lines(Record(i), owed))
           <= Cardinality(Rows(Record(i))) + Cardinality(Lines(Record(i), todo[p]))

SkipInv == OrderInv /\ (TimesTell => PassedInv /\ CoverInv)

(***************************************************************************)
(* Facts about the log and the rows.                                       *)
(***************************************************************************)
LEMMA Constants ==
  /\ Grain \in Nat \ {0} /\ TailLines \in Nat \ {0} /\ Window \in Nat \ {0}
  /\ BatchSize \in Nat \ {0} /\ MaxTime \in Nat
BY IngestAssumption

LEMMA MicroType == \A ts \in Nat : Micro(ts) \in Nat
BY Constants DEF Micro

LEMMA MicroOrder == \A a, b \in Nat : a <= b => Micro(a) <= Micro(b)
BY Constants DEF Micro

LEMMA SeqFacts ==
  ASSUME NEW R, NEW s \in Seq(R)
  PROVE  /\ Len(s) \in Nat /\ DOMAIN s = 1 .. Len(s)
         /\ \A i \in 1 .. Len(s) : s[i] \in R
OBVIOUS

LEMMA LogFacts ==
  ASSUME TypeOK
  PROVE  /\ Len(log) \in Nat /\ DOMAIN log = 1 .. Len(log) /\ from \in Nat /\ from >= 1 /\ from <= Len(log) + 1
         /\ \A i \in 1 .. Len(log) : log[i].ts \in Nat /\ log[i].ts > 0 /\ log[i].err \in BOOLEAN /\ log[i].msg \in Messages
         /\ Output \in SUBSET (1 .. Len(log)) /\ owed \in SUBSET (1 .. Len(log)) /\ owed \in SUBSET Output
         /\ StdOut \in SUBSET (1 .. Len(log)) /\ Output \in SUBSET StdOut
         /\ \A i \in Output : Record(i)[2] # Blank
         /\ \A p \in Ingestors : todo[p] \in SUBSET (1 .. Len(log))
<1>1. Len(log) \in Nat /\ DOMAIN log = 1 .. Len(log)
  BY DEF TypeOK
<1>2. \A i \in 1 .. Len(log) : log[i] \in [ts : Nat \ {0}, err : BOOLEAN, msg : Messages]
  BY SeqFacts DEF TypeOK
<1>3. \A i \in 1 .. Len(log) : log[i].ts \in Nat /\ log[i].ts > 0 /\ log[i].err \in BOOLEAN /\ log[i].msg \in Messages
  BY <1>2
<1>4. from \in Nat /\ from >= 1 /\ from <= Len(log) + 1
  BY <1>1 DEF TypeOK
<1>5. /\ Output \in SUBSET (1 .. Len(log)) /\ owed \in SUBSET Output
      /\ StdOut \in SUBSET (1 .. Len(log)) /\ Output \in SUBSET StdOut
  BY <1>1 DEF TypeOK, Output, StdOut
<1>6. \A p \in Ingestors : todo[p] \in SUBSET (1 .. Len(log))
  BY <1>1 DEF TypeOK
<1>7. \A i \in Output : Record(i)[2] # Blank
  BY DEF Output, Record
<1> QED
  BY <1>1, <1>3, <1>4, <1>5, <1>6, <1>7

LEMMA RowFacts ==
  ASSUME TypeOK
  PROVE  /\ Len(db) \in Nat /\ DOMAIN db = 1 .. Len(db)
         /\ \A k \in 1 .. Len(db) : db[k].at \in Nat /\ db[k].msg \in Messages /\ db[k].source \in {"ingestor", "stream"}
         /\ \A r : Rows(r) \in SUBSET (1 .. Len(db)) /\ Ingested(r) \in SUBSET Rows(r)
<1>1. Len(db) \in Nat /\ DOMAIN db = 1 .. Len(db)
  BY DEF TypeOK
<1>2. \A k \in 1 .. Len(db) : db[k] \in [at : Nat, msg : Messages, source : {"ingestor", "stream"}]
  BY SeqFacts DEF TypeOK
<1>3. \A r : Rows(r) \in SUBSET (1 .. Len(db)) /\ Ingested(r) \in SUBSET Rows(r)
  BY <1>1 DEF Rows, Ingested
<1> QED
  BY <1>1, <1>2, <1>3

\* What a line adds to the log.
LEMMA WriteFacts ==
  ASSUME TypeOK, Write
  PROVE  /\ Len(log)' = Len(log) + 1 /\ DOMAIN log' = 1 .. Len(log) + 1
         /\ log' \in Seq([ts : Nat \ {0}, err : BOOLEAN, msg : Messages])
         /\ \A i \in 1 .. Len(log) : log'[i] = log[i]
         /\ log'[Len(log) + 1].ts = clock
         /\ UNCHANGED <<clock, from, db, cursor, step, since, todo, first, owed, blurred>>
<1>1. PICK m \in Messages, e \in BOOLEAN : log' = Append(log, [ts |-> clock, err |-> e, msg |-> m])
  BY DEF Write
<1>2. [ts |-> clock, err |-> e, msg |-> m] \in [ts : Nat \ {0}, err : BOOLEAN, msg : Messages]
  BY DEF TypeOK
<1>3. Len(log)' = Len(log) + 1 /\ DOMAIN log' = 1 .. Len(log) + 1
  BY <1>1, <1>2 DEF TypeOK
<1>4. log' \in Seq([ts : Nat \ {0}, err : BOOLEAN, msg : Messages])
  BY <1>1, <1>2 DEF TypeOK
<1>5. (\A i \in 1 .. Len(log) : log'[i] = log[i]) /\ log'[Len(log) + 1].ts = clock
  BY <1>1, <1>2 DEF TypeOK
<1> QED
  BY <1>3, <1>4, <1>5 DEF Write, passVars, histVars


LEMMA TailFacts ==
  ASSUME TypeOK
  PROVE  /\ TailFrom \in Nat /\ from <= TailFrom /\ TailFrom <= Len(log) + 1
         /\ DockerLogs \in SUBSET (from .. Len(log)) /\ DockerLogs \in SUBSET (1 .. Len(log))
<1>1. TailFrom \in Nat /\ from <= TailFrom /\ TailFrom <= Len(log) + 1
  BY LogFacts, Constants DEF TailFrom
<1>2. DockerLogs \in SUBSET (from .. Len(log))
  BY <1>1, LogFacts DEF DockerLogs
<1>3. from .. Len(log) \in SUBSET (1 .. Len(log))
  BY LogFacts
<1> QED
  BY <1>1, <1>2, <1>3

\* A line to store is one that was printed, on stdout; without a cursor all are.
LEMMA FreshFacts ==
  ASSUME TypeOK, NEW p \in Ingestors
  PROVE  /\ Fresh(p) \in SUBSET todo[p] /\ Fresh(p) \in SUBSET StdOut
         /\ since[p] = 0 => \A i \in todo[p] : i \in StdOut => i \in Fresh(p)
<1> DEFINE out == todo[p] \cap StdOut
<1>1. out \in SUBSET todo[p] /\ out \in SUBSET StdOut /\ out \in SUBSET (1 .. Len(log))
  BY LogFacts
<1>2. Fresh(p) \in SUBSET out
  BY DEF Fresh
<1>3. ASSUME since[p] = 0, NEW i \in out
      PROVE  i \in Fresh(p)
  <2>1. Rows(Record(i)) \cap Boundary(p) = {}
    BY <1>3 DEF Boundary
  <2>2. Cardinality(Rows(Record(i)) \cap Boundary(p)) = 0
    BY <2>1, FS_EmptySet
  <2> DEFINE S == {j \in Lines(Record(i), out) : j <= i}
  <2>3. i \in S /\ S \in SUBSET (1 .. Len(log))
    BY <1>1, LogFacts DEF Lines
  <2>4. IsFiniteSet(S) /\ Cardinality(S) \in Nat /\ Cardinality(S) # 0
    BY <2>3, Finite, LogFacts, FS_EmptySet
  <2>5. Rank(i, Lines(Record(i), out)) > 0
    BY <2>4 DEF Rank
  <2> QED
    BY <2>2, <2>5 DEF Fresh
<1> QED
  BY <1>1, <1>2, <1>3

\* A batch is the first lines of those left.
LEMMA BatchFacts ==
  ASSUME TypeOK, NEW p \in Ingestors, todo[p] # {}
  PROVE  /\ Batch(p) \in SUBSET todo[p] /\ Batch(p) \in SUBSET (1 .. Len(log))
         /\ Max(Batch(p)) \in Batch(p) /\ \A i \in Batch(p) : i <= Max(Batch(p))
         /\ \A i \in Batch(p), j \in todo[p] \ Batch(p) : i < j
<1>1. Len(log) \in Nat /\ todo[p] \in SUBSET (1 .. Len(log))
  BY LogFacts
<1>2. Batch(p) \in SUBSET todo[p] /\ Batch(p) \in SUBSET (1 .. Len(log))
  BY <1>1 DEF Batch
<1>3. Batch(p) # {}
  <2>1. \A i \in todo[p] : i \in Nat
    BY <1>1
  <2>2. PICK i \in todo[p] : \A j \in todo[p] : i <= j
    BY <2>1, Least
  <2>3. \A j \in todo[p] : j <= i => j = i
    BY <2>1, <2>2
  <2>4. {j \in todo[p] : j <= i} = {i}
    BY <2>1, <2>3
  <2>5. Rank(i, todo[p]) = 1
    BY <2>4, FS_Singleton DEF Rank
  <2> QED
    BY <2>5, Constants DEF Batch
<1>4. ASSUME NEW i \in Batch(p), NEW j \in todo[p] \ Batch(p) PROVE i < j
  <2>1. i \in Nat /\ j \in Nat /\ i \in todo[p]
    BY <1>1, <1>2
  <2>2. ASSUME j <= i PROVE Rank(j, todo[p]) <= BatchSize
    <3>1. Rank(j, todo[p]) <= Rank(i, todo[p]) /\ Rank(j, todo[p]) \in Nat /\ Rank(i, todo[p]) \in Nat
      BY <1>1, <2>1, <2>2, RankGrows
    <3> QED
      BY <3>1, Constants DEF Batch
  <2> QED
    BY <2>1, <2>2 DEF Batch
<1> QED
  BY <1>1, <1>2, <1>3, <1>4, Greatest


\* The last source time of a batch is that of the last line in it that says something.
LEMMA LastFacts ==
  ASSUME TypeOK, LogInv, NEW p \in Ingestors, todo[p] # {}
  PROVE  /\ LastTs(p) \in Nat
         /\ \/ LastTs(p) = since[p] /\ Batch(p) \cap Output = {}
            \/ \E b \in Batch(p) \cap Output : LastTs(p) = log[b].ts /\ log[b].ts > 0
         /\ \A i \in Batch(p) \cap Output : log[i].ts <= LastTs(p)
<1> DEFINE stamped == Batch(p) \cap Output
<1>1. stamped \in SUBSET (1 .. Len(log)) /\ Len(log) \in Nat /\ DOMAIN log = 1 .. Len(log)
  BY BatchFacts, LogFacts
<1>2. CASE stamped = {}
  BY <1>2 DEF LastTs, TypeOK
<1>3. CASE stamped # {}
  <2>1. Max(stamped) \in stamped /\ \A i \in stamped : i <= Max(stamped)
    BY <1>1, <1>3, Greatest
  <2>2. LastTs(p) = log[Max(stamped)].ts
    BY <1>3 DEF LastTs
  <2> HIDE DEF stamped
  <2>3. PICK b \in stamped : b = Max(stamped)
    BY <2>1
  <2>4. b \in 1 .. Len(log) /\ log[b].ts \in Nat /\ log[b].ts > 0 /\ LastTs(p) = log[b].ts
    BY <1>1, <2>2, <2>3, LogFacts
  <2>5. \A i \in stamped : log[i].ts <= log[b].ts
    <3> TAKE i \in stamped
    <3>1. i \in 1 .. Len(log) /\ i <= b
      BY <1>1, <2>1, <2>3
    <3>2. i = b \/ i < b
      BY <1>1, <2>4, <3>1
    <3> QED
      BY <1>1, <2>4, <3>1, <3>2 DEF LogInv
  <2> QED
    BY <2>3, <2>4, <2>5 DEF stamped
<1> QED
  BY <1>2, <1>3


(***************************************************************************)
(* The order of lines, cursors and passes.                                 *)
(***************************************************************************)
LEMMA InitOrder == Init => OrderInv
<1> SUFFICES ASSUME Init PROVE OrderInv
  OBVIOUS
<1>1. TypeOK
  <2>1. Len(log) = 0 /\ from \in 1 .. Len(log) + 1
    BY DEF Init
  <2>2. \A R : <<>> \in Seq(R)
    OBVIOUS
  <2>3. owed \in SUBSET Output /\ todo \in [Ingestors -> SUBSET DOMAIN log]
    BY DEF Init
  <2>4. /\ step \in [Ingestors -> {"idle", "sift", "store", "more"}]
        /\ since \in [Ingestors -> Nat]
        /\ cursor \in Nat /\ first \in Nat /\ clock \in Nat \ {0}
    BY DEF Init
  <2>5. log = <<>> /\ db = <<>> /\ blurred \in BOOLEAN
    BY Zenon DEF Init
  <2> QED
    BY <2>1, <2>2, <2>3, <2>4, <2>5 DEF TypeOK
<1>2. LogInv /\ PassInv /\ AheadInv /\ TailInv /\ GoneInv
  BY DEF Init, LogInv, PassInv, AheadInv, TailInv, GoneInv, Output, StdOut
<1> QED
  BY <1>1, <1>2 DEF OrderInv

LEMMA TickOrder == OrderInv /\ Tick => OrderInv'
<1> SUFFICES ASSUME OrderInv, Tick PROVE OrderInv'
  OBVIOUS
<1>1. UNCHANGED <<log, from, db, cursor, step, since, todo, first, owed, blurred>> /\ clock' = clock + 1
  BY DEF Tick, passVars, histVars
<1>2. clock \in Nat /\ clock > 0 /\ cursor \in Nat /\ \A p \in Ingestors : since[p] \in Nat
  BY DEF OrderInv, TypeOK
<1>3. TypeOK'
  BY <1>1, <1>2 DEF OrderInv, TypeOK, Output, StdOut
<1>4. LogInv'
  <2>1. \A i \in DOMAIN log : log[i].ts \in Nat
    BY LogFacts DEF OrderInv
  <2> QED
    BY <1>1, <1>2, <2>1 DEF OrderInv, LogInv
<1>5. PassInv'
  BY <1>1, <1>2 DEF OrderInv, PassInv, Output, StdOut
<1>6. AheadInv' /\ TailInv'
  BY <1>1 DEF OrderInv, AheadInv, TailInv, Output, StdOut, TailFrom
<1>7. GoneInv'
  <2>1. \A i \in owed : log[i].ts \in Nat
    BY LogFacts DEF OrderInv
  <2> QED
    BY <1>1, <1>2, <2>1 DEF OrderInv, GoneInv
<1> QED
  BY <1>3, <1>4, <1>5, <1>6, <1>7 DEF OrderInv

LEMMA WriteOrder == OrderInv /\ Write => OrderInv'
<1> SUFFICES ASSUME OrderInv, Write PROVE OrderInv'
  OBVIOUS
<1>0. TypeOK
  BY DEF OrderInv
<1>1. /\ Len(log)' = Len(log) + 1 /\ DOMAIN log' = 1 .. Len(log) + 1
      /\ log' \in Seq([ts : Nat \ {0}, err : BOOLEAN, msg : Messages])
      /\ \A i \in 1 .. Len(log) : log'[i] = log[i]
      /\ log'[Len(log) + 1].ts = clock
      /\ UNCHANGED <<clock, from, db, cursor, step, since, todo, first, owed, blurred>>
  BY <1>0, WriteFacts
<1>2. /\ Len(log) \in Nat /\ DOMAIN log = 1 .. Len(log) /\ from \in Nat /\ from >= 1 /\ from <= Len(log) + 1
      /\ \A i \in 1 .. Len(log) : log[i].ts \in Nat
      /\ owed \in SUBSET (1 .. Len(log)) /\ \A p \in Ingestors : todo[p] \in SUBSET (1 .. Len(log))
  BY <1>0, LogFacts
<1>3. \A i \in 1 .. Len(log) + 1 : i \in 1 .. Len(log) \/ i = Len(log) + 1
  BY <1>2
<1>4. Output \in SUBSET Output' /\ \A j \in Output' : j \in Output \/ j = Len(log) + 1
  BY <1>1, <1>2, <1>3 DEF Output, StdOut
<1>5. TypeOK'
  <2>1. owed' \in SUBSET Output'
    BY <1>0, <1>1, <1>4 DEF TypeOK
  <2>2. todo' \in [Ingestors -> SUBSET (DOMAIN log')]
    <3>1. 1 .. Len(log) \in SUBSET (1 .. Len(log) + 1)
      BY <1>2
    <3> QED
      BY <1>0, <1>1, <1>2, <3>1 DEF TypeOK
  <2>3. from' \in 1 .. Len(log') + 1
    BY <1>1, <1>2
  <2> QED
    BY <1>0, <1>1, <2>1, <2>2, <2>3 DEF TypeOK
<1>6. clock \in Nat /\ \A i \in 1 .. Len(log) : log[i].ts <= clock
  BY <1>2 DEF OrderInv, TypeOK, LogInv
<1>7. LogInv'
  <2>1. \A i \in DOMAIN log' : (log[i].ts)' <= clock'
    BY <1>1, <1>2, <1>3, <1>6
  <2>2. ASSUME NEW i \in DOMAIN log', NEW j \in DOMAIN log', i < j PROVE (log[i].ts)' <= (log[j].ts)'
    <3>1. i \in 1 .. Len(log)
      BY <1>1, <1>2, <2>2
    <3>2. CASE j \in 1 .. Len(log)
      BY <1>1, <1>2, <2>2, <3>1, <3>2 DEF OrderInv, LogInv
    <3>3. CASE j = Len(log) + 1
      BY <1>1, <1>6, <3>1, <3>3
    <3> QED
      BY <1>1, <1>3, <3>2, <3>3
  <2> QED
    BY <2>1, <2>2 DEF LogInv
<1>8. PassInv'
  <2>1. StdOut \in SUBSET StdOut'
    <3>1. 1 .. Len(log) \in SUBSET (1 .. Len(log) + 1)
      BY <1>2
    <3> QED
      BY <1>1, <1>2, <3>1 DEF StdOut
  <2> QED
    BY <1>1, <2>1 DEF OrderInv, PassInv
<1>9. AheadInv'
  <2>1. ASSUME NEW j \in Output' \ owed', j >= from, j >= first
        PROVE  cursor <= log'[j].ts /\ \A p \in Ingestors : since[p] <= log'[j].ts /\ \A i \in todo[p] : i < j
    <3>1. CASE j \in Output
      BY <1>1, <1>2, <2>1, <3>1 DEF OrderInv, AheadInv, Output, StdOut
    <3>2. CASE j = Len(log) + 1
      BY <1>1, <1>2, <1>6, <3>2 DEF OrderInv, PassInv
    <3> QED
      BY <1>4, <2>1, <3>1, <3>2
  <2> QED
    BY <1>1, <2>1 DEF AheadInv
<1>10. TailInv'
  <2>1. TailFrom <= TailFrom' /\ TailFrom \in Nat /\ TailFrom' \in Nat
    BY <1>1, <1>2, Constants DEF TailFrom
  <2>2. ASSUME NEW p \in Ingestors, cursor = 0, NEW i \in todo[p], NEW j \in Output', TailFrom' <= j, j <= i
        PROVE  j \in todo[p]
    <3>1. i \in 1 .. Len(log)
      BY <1>2
    <3>2. j \in Nat /\ j # Len(log) + 1
      BY <1>1, <1>2, <2>2, <3>1 DEF Output, StdOut
    <3>3. j \in Output
      BY <1>4, <3>2
    <3>4. TailFrom <= j
      BY <2>1, <2>2, <3>2
    <3> QED
      BY <2>2, <3>3, <3>4 DEF OrderInv, TailInv
  <2> QED
    BY <1>1, <2>2 DEF TailInv
<1>11. GoneInv'
  <2>1. ASSUME NEW i \in owed, i < from
        PROVE  log'[i].ts < clock /\ \A j \in DOMAIN log' : j >= from => log'[i].ts < log'[j].ts
    <3>1. log'[i] = log[i] /\ log[i].ts < clock
      BY <1>1, <1>2, <2>1 DEF OrderInv, GoneInv
    <3>2. \A j \in DOMAIN log : j >= from => log[i].ts < log[j].ts
      BY <2>1 DEF OrderInv, GoneInv
    <3> QED
      BY <1>1, <1>2, <1>3, <3>1, <3>2
  <2> QED
    BY <1>1, <2>1 DEF GoneInv
<1> QED
  BY <1>5, <1>7, <1>8, <1>9, <1>10, <1>11 DEF OrderInv

LEMMA RecreateOrder == OrderInv /\ Recreate => OrderInv'
<1> SUFFICES ASSUME OrderInv, Recreate PROVE OrderInv'
  OBVIOUS
<1>1. /\ from' = Len(log) + 1 /\ owed' = {i \in owed : log[i].ts < cursor}
      /\ UNCHANGED <<clock, log, db, cursor, step, since, todo, first, blurred>>
  BY DEF Recreate, passVars
<1>2. /\ Len(log) \in Nat /\ DOMAIN log = 1 .. Len(log) /\ from \in Nat /\ from <= Len(log) + 1
      /\ \A i \in 1 .. Len(log) : log[i].ts \in Nat
      /\ Output \in SUBSET (1 .. Len(log)) /\ owed \in SUBSET (1 .. Len(log))
  BY LogFacts DEF OrderInv
<1>3. TypeOK'
  BY <1>1, <1>2 DEF OrderInv, TypeOK, Output, StdOut
<1>4. LogInv' /\ PassInv'
  BY <1>1 DEF OrderInv, LogInv, PassInv, Output, StdOut
<1>5. Output' = Output
  BY <1>1 DEF Output, StdOut
<1>6. \A j \in 1 .. Len(log) : ~(j >= Len(log) + 1)
  BY <1>2
<1>7. AheadInv'
  BY <1>1, <1>2, <1>5, <1>6 DEF AheadInv
<1>8. TailInv'
  <2>1. TailFrom' = Len(log) + 1
    BY <1>1, <1>2, Constants DEF TailFrom
  <2>2. \A j \in Output' : ~(TailFrom' <= j)
    BY <1>2, <1>5, <2>1
  <2> QED
    BY <2>2 DEF TailInv
<1>9. GoneInv'
  <2>1. \A i \in owed' : log[i].ts < clock
    <3>1. cursor <= clock /\ cursor \in Nat /\ clock \in Nat
      BY DEF OrderInv, TypeOK, PassInv
    <3> QED
      BY <1>1, <1>2, <3>1
  <2> QED
    BY <1>1, <1>2, <1>6, <2>1 DEF GoneInv
<1> QED
  BY <1>3, <1>4, <1>7, <1>8, <1>9 DEF OrderInv

LEMMA StreamOrder == OrderInv /\ StoreLogLine => OrderInv'
<1> SUFFICES ASSUME OrderInv, StoreLogLine PROVE OrderInv'
  OBVIOUS
<1>1. UNCHANGED <<clock, log, from, cursor, step, since, todo, first, owed, blurred>>
  BY DEF StoreLogLine, passVars, histVars
<1>2. db' \in Seq([at : Nat, msg : Messages, source : {"ingestor", "stream"}])
  <2>1. PICK i \in from .. Len(log) :
          db' = Append(db, [at |-> Micro(clock), msg |-> log[i].msg, source |-> "stream"])
    BY DEF StoreLogLine
  <2>2. i \in 1 .. Len(log) /\ log[i].msg \in Messages
    BY LogFacts DEF OrderInv
  <2>3. [at |-> Micro(clock), msg |-> log[i].msg, source |-> "stream"]
          \in [at : Nat, msg : Messages, source : {"ingestor", "stream"}]
    BY <2>2, MicroType DEF OrderInv, TypeOK
  <2> QED
    BY <2>1, <2>3 DEF OrderInv, TypeOK
<1>3. TypeOK'
  BY <1>1, <1>2 DEF OrderInv, TypeOK, Output, StdOut
<1> QED
  BY <1>1, <1>3 DEF OrderInv, LogInv, PassInv, AheadInv, TailInv, GoneInv, Output, StdOut, TailFrom


LEMMA BeginOrder == ASSUME NEW p \in Ingestors PROVE OrderInv /\ Begin(p) => OrderInv'
<1> SUFFICES ASSUME OrderInv, Begin(p) PROVE OrderInv'
  OBVIOUS
<1>1. /\ step[p] = "idle" /\ step' = [step EXCEPT ![p] = "sift"]
      /\ since' = [since EXCEPT ![p] = cursor]
      /\ todo' = [todo EXCEPT ![p] = DockerLogs]
      /\ first' = IF cursor = 0 THEN TailFrom ELSE first
      /\ owed' = (IF cursor = 0 THEN {} ELSE owed) \cup {i \in DockerLogs \cap Output : i >= first'}
      /\ blurred' \in BOOLEAN
      /\ UNCHANGED <<clock, log, from, db, cursor>>
  BY DEF Begin
<1>2. /\ Len(log) \in Nat /\ DOMAIN log = 1 .. Len(log) /\ from \in Nat /\ from <= Len(log) + 1
      /\ \A i \in 1 .. Len(log) : log[i].ts \in Nat
      /\ Output \in SUBSET (1 .. Len(log)) /\ owed \in SUBSET (1 .. Len(log))
  BY LogFacts DEF OrderInv
<1>3. /\ TailFrom \in Nat /\ from <= TailFrom /\ TailFrom <= Len(log) + 1
      /\ DockerLogs \in SUBSET (from .. Len(log)) /\ DockerLogs \in SUBSET (1 .. Len(log))
  BY TailFacts DEF OrderInv
<1>4. Output' = Output /\ StdOut' = StdOut /\ TailFrom' = TailFrom
  BY <1>1 DEF Output, StdOut, TailFrom
<1>5. owed' \in SUBSET Output
  BY <1>1, <1>2, <1>3 DEF Output, StdOut, OrderInv, TypeOK
<1>6. TypeOK'
  <2>1. todo' \in [Ingestors -> SUBSET DOMAIN log] /\ since' \in [Ingestors -> Nat]
    BY <1>1, <1>2, <1>3 DEF OrderInv, TypeOK
  <2>2. step' \in [Ingestors -> {"idle", "sift", "store", "more"}] /\ first' \in Nat
    BY <1>1, <1>3 DEF OrderInv, TypeOK
  <2> QED
    BY <1>1, <1>4, <1>5, <2>1, <2>2 DEF OrderInv, TypeOK
<1>7. LogInv'
  BY <1>1 DEF OrderInv, LogInv
<1>8. PassInv'
  <2>1. step'[p] = "sift" /\ since'[p] = cursor
    BY <1>1 DEF OrderInv, TypeOK
  <2>2. \A q \in Ingestors \ {p} : step'[q] = step[q] /\ since'[q] = since[q] /\ todo'[q] = todo[q]
    BY <1>1 DEF OrderInv, TypeOK
  <2> QED
    BY <1>1, <1>4, <2>1, <2>2 DEF OrderInv, PassInv
<1>9. AheadInv'
  <2> SUFFICES ASSUME NEW j \in Output, j \notin owed', j >= from, j >= first' PROVE FALSE
    BY <1>1, <1>4 DEF AheadInv
  <2>1. j \in 1 .. Len(log)
    BY <1>2
  <2>2. CASE cursor = 0
    BY <1>1, <2>1, <2>2, <1>2, <1>3 DEF DockerLogs
  <2>3. CASE cursor # 0
    <3>1. j \notin owed /\ j >= first
      BY <1>1, <2>3
    <3>2. cursor <= log[j].ts
      BY <3>1 DEF OrderInv, AheadInv
    <3>3. j \in DockerLogs
      BY <1>2, <2>1, <2>3, <3>2 DEF DockerLogs, OrderInv, TypeOK
    <3> QED
      BY <1>1, <2>1, <3>3
  <2> QED
    BY <2>2, <2>3
<1>10. TailInv'
  <2> SUFFICES ASSUME NEW q \in Ingestors, cursor = 0, NEW i \in todo'[q], NEW j \in Output, TailFrom <= j, j <= i
               PROVE  j \in todo'[q]
    BY <1>1, <1>4 DEF TailInv
  <2>1. CASE q = p
    <3>1. todo'[q] = TailFrom .. Len(log)
      BY <1>1, <2>1 DEF DockerLogs, OrderInv, TypeOK
    <3> QED
      BY <1>2, <3>1
  <2>2. CASE q # p
    <3>1. todo'[q] = todo[q]
      BY <1>1, <2>2 DEF OrderInv, TypeOK
    <3> QED
      BY <3>1 DEF OrderInv, TailInv
  <2> QED
    BY <2>1, <2>2
<1>11. GoneInv'
  <2> SUFFICES ASSUME NEW i \in owed', i < from
               PROVE  log[i].ts < clock /\ \A j \in DOMAIN log : j >= from => log[i].ts < log[j].ts
    BY <1>1 DEF GoneInv
  <2>1. i \notin DockerLogs
    <3>1. \A k \in from .. Len(log) : ~(k < from)
      BY <1>2
    <3> QED
      BY <1>3, <3>1
  <2>2. i \in owed
    BY <1>1, <2>1
  <2> QED
    BY <2>2 DEF OrderInv, GoneInv
<1> QED
  BY <1>6, <1>7, <1>8, <1>9, <1>10, <1>11 DEF OrderInv

LEMMA SiftedOrder == ASSUME NEW p \in Ingestors PROVE OrderInv /\ Sifted(p) => OrderInv'
<1> SUFFICES ASSUME OrderInv, Sifted(p) PROVE OrderInv'
  OBVIOUS
<1>1. /\ step[p] = "sift" /\ step' = [step EXCEPT ![p] = IF Fresh(p) = {} THEN "idle" ELSE "store"]
      /\ todo' = [todo EXCEPT ![p] = Fresh(p)]
      /\ blurred' \in BOOLEAN
      /\ UNCHANGED <<clock, log, from, db, cursor, first, owed>>
      /\ since' = [since EXCEPT ![p] = IF Fresh(p) = {} THEN 0 ELSE since[p]]
  BY DEF Sifted
<1>2. /\ Fresh(p) \in SUBSET todo[p] /\ Fresh(p) \in SUBSET StdOut
      /\ since[p] = 0 => \A i \in todo[p] : i \in StdOut => i \in Fresh(p)
      /\ Output \in SUBSET StdOut
  BY FreshFacts, LogFacts DEF OrderInv
<1>3. Output' = Output /\ StdOut' = StdOut /\ TailFrom' = TailFrom
  BY <1>1 DEF Output, StdOut, TailFrom
<1>4. /\ todo'[p] = Fresh(p) /\ step'[p] = IF Fresh(p) = {} THEN "idle" ELSE "store"
      /\ \A q \in Ingestors \ {p} : step'[q] = step[q] /\ todo'[q] = todo[q]
      /\ \A q \in Ingestors : since'[q] = since[q] \/ since'[q] = 0
  BY <1>1 DEF OrderInv, TypeOK
<1>5. TypeOK'
  <2>1. todo' \in [Ingestors -> SUBSET DOMAIN log]
    BY <1>1, <1>2 DEF OrderInv, TypeOK
  <2>2. step' \in [Ingestors -> {"idle", "sift", "store", "more"}]
    BY <1>1 DEF OrderInv, TypeOK
  <2>3. since' \in [Ingestors -> Nat]
    BY <1>1 DEF OrderInv, TypeOK
  <2> QED
    BY <1>1, <1>3, <2>1, <2>2, <2>3 DEF OrderInv, TypeOK
<1>6. LogInv' /\ GoneInv'
  BY <1>1 DEF OrderInv, LogInv, GoneInv
<1>7. PassInv'
  <2>1. clock \in Nat
    BY DEF OrderInv, TypeOK
  <2> QED
    BY <1>1, <1>2, <1>3, <1>4, <2>1 DEF OrderInv, PassInv
<1>8. AheadInv'
  <2>1. \A q \in Ingestors : todo'[q] \subseteq todo[q]
    BY <1>2, <1>4
  <2>2. \A j \in Output : log[j].ts \in Nat
    BY LogFacts DEF OrderInv
  <2> QED
    BY <1>1, <1>3, <1>4, <2>1, <2>2 DEF OrderInv, AheadInv
<1>9. TailInv'
  <2> SUFFICES ASSUME NEW q \in Ingestors, cursor = 0, NEW i \in todo'[q], NEW j \in Output, TailFrom <= j, j <= i
               PROVE  j \in todo'[q]
    BY <1>1, <1>3 DEF TailInv
  <2>1. i \in todo[q] /\ j \in todo[q]
    BY <1>2, <1>4 DEF OrderInv, TailInv
  <2>2. since[q] = 0
    BY DEF OrderInv, PassInv
  <2> QED
    BY <1>2, <1>4, <2>1, <2>2
<1> QED
  BY <1>5, <1>6, <1>7, <1>8, <1>9 DEF OrderInv

LEMMA AbortOrder == ASSUME NEW p \in Ingestors PROVE OrderInv /\ Abort(p) => OrderInv'
<1> SUFFICES ASSUME OrderInv, Abort(p) PROVE OrderInv'
  OBVIOUS
<1>1. /\ step' = [step EXCEPT ![p] = "idle"] /\ todo' = [todo EXCEPT ![p] = {}]
      /\ since' = [since EXCEPT ![p] = 0]
      /\ UNCHANGED <<clock, log, from, db, cursor, first, owed, blurred>>
  BY DEF Abort, histVars
<1>2. Output' = Output /\ StdOut' = StdOut /\ TailFrom' = TailFrom
  BY <1>1 DEF Output, StdOut, TailFrom
<1>3. /\ todo'[p] = {} /\ step'[p] = "idle" /\ since'[p] = 0
      /\ \A q \in Ingestors \ {p} : step'[q] = step[q] /\ todo'[q] = todo[q] /\ since'[q] = since[q]
      /\ clock \in Nat
  BY <1>1 DEF OrderInv, TypeOK
<1>4. TypeOK'
  BY <1>1, <1>2 DEF OrderInv, TypeOK
<1>5. LogInv' /\ GoneInv'
  BY <1>1 DEF OrderInv, LogInv, GoneInv
<1>6. PassInv'
  BY <1>1, <1>2, <1>3 DEF OrderInv, PassInv
<1>7. AheadInv' /\ TailInv'
  <2>1. \A j \in Output : log[j].ts \in Nat
    BY LogFacts DEF OrderInv
  <2> QED
    BY <1>1, <1>2, <1>3, <2>1 DEF OrderInv, AheadInv, TailInv
<1> QED
  BY <1>4, <1>5, <1>6, <1>7 DEF OrderInv

\* What a commit does: rows for a batch of lines, in order, and a cursor that stays or
\* comes to the time of the last of them that has one.
LEMMA CommitFacts ==
  ASSUME OrderInv, NEW p \in Ingestors, Commit(p)
  PROVE  /\ todo[p] # {} /\ todo[p] \subseteq StdOut /\ step[p] \in {"store", "more"}
         /\ cursor' = cursor \/ cursor' = LastTs(p)
         /\ cursor' = 0 => cursor = 0 /\ LastTs(p) = 0
         /\ todo'[p] = todo[p] \ Batch(p)
         /\ step'[p] = IF todo[p] = Batch(p) THEN "idle" ELSE "more"
         /\ since'[p] = IF todo[p] = Batch(p) THEN 0 ELSE LastTs(p)
         /\ \A q \in Ingestors \ {p} : step'[q] = step[q] /\ todo'[q] = todo[q] /\ since'[q] = since[q]
         /\ UNCHANGED <<clock, log, from, first, owed, blurred>>
<1>1. todo[p] # {} /\ todo[p] \subseteq StdOut /\ step[p] \in {"store", "more"}
  BY DEF OrderInv, PassInv, Commit
<1>2. cursor' = IF LastTs(p) = 0 \/ (step[p] = "store" /\ LastTs(p) = since[p]) THEN cursor ELSE LastTs(p)
  BY DEF Commit, Moved
<1>3. cursor = 0 => since[p] = 0
  BY DEF OrderInv, PassInv
<1>4. /\ todo'[p] = todo[p] \ Batch(p)
      /\ step'[p] = IF todo[p] = Batch(p) THEN "idle" ELSE "more"
      /\ since'[p] = IF todo[p] = Batch(p) THEN 0 ELSE LastTs(p)
      /\ \A q \in Ingestors \ {p} : step'[q] = step[q] /\ todo'[q] = todo[q] /\ since'[q] = since[q]
  BY DEF Commit, OrderInv, TypeOK
<1> QED
  BY <1>1, <1>2, <1>3, <1>4 DEF Commit, histVars


\* The rows of a commit: one more of each record for each line of the batch that has it,
\* but for empty lines.
LEMMA CommitRows ==
  ASSUME OrderInv, NEW p \in Ingestors, Commit(p)
  PROVE  /\ db' \in Seq([at : Nat, msg : Messages, source : {"ingestor", "stream"}])
         /\ \A r : r[2] # Blank =>
              /\ Cardinality(Rows(r)') = Cardinality(Rows(r)) + Cardinality(Lines(r, Batch(p)))
              /\ Cardinality(Ingested(r)') = Cardinality(Ingested(r)) + Cardinality(Lines(r, Batch(p)))
         /\ \A k \in DOMAIN db' : (k \in DOMAIN db /\ db'[k] = db[k])
                                    \/ \E i \in Batch(p) : db'[k] = Row(i)
<1> DEFINE B == Batch(p)
           n == Len(db)
           m == Cardinality(B)
<1>1. B \in SUBSET (1 .. Len(log)) /\ Len(log) \in Nat
  BY CommitFacts, BatchFacts, LogFacts DEF OrderInv
<1>2. IsFiniteSet(B) /\ m \in Nat
  BY <1>1, Finite
<1>3. PICK s \in InOrder(B) : db' = db \o [k \in DOMAIN s |-> Row(s[k])]
  BY DEF Commit
<1> HIDE DEF B, m
<1>4. s \in [1 .. m -> B] /\ \A k, l \in 1 .. m : k < l => s[k] < s[l]
  BY <1>3 DEF InOrder, m
<1>5. \A k, l \in 1 .. m : s[k] = s[l] => k = l
  <2>1. \A k \in 1 .. m : s[k] \in Nat
    <3>1. \A i \in B : i \in Nat
      BY <1>1
    <3> QED
      BY <1>4, <3>1
  <2>2. ASSUME NEW k \in 1 .. m, NEW l \in 1 .. m, s[k] = s[l] PROVE k = l
    BY <1>2, <1>4, <2>1, <2>2
  <2> QED
    BY <2>2
<1>6. \A i \in B : \E k \in 1 .. m : s[k] = i
  <2>1. s \in Injection(1 .. m, B)
    BY <1>4, <1>5 DEF Injection, IsInjective
  <2>2. Cardinality(1 .. m) = m
    BY <1>2, FS_Interval
  <2>3. s \in Surjection(1 .. m, B)
    BY <1>2, <2>1, <2>2, FS_Injection DEF m
  <2> QED
    BY <2>3 DEF Surjection
<1> DEFINE new == [k \in 1 .. m |-> Row(s[k])]
<1>7. DOMAIN s = 1 .. m /\ db' = db \o new
  BY <1>3, <1>4
<1>8. \A k \in 1 .. m : Row(s[k]) \in [at : Nat, msg : Messages, source : {"ingestor", "stream"}]
  <2>1. clock \in Nat
    BY DEF OrderInv, TypeOK
  <2>2. \A k \in 1 .. m : log[s[k]].ts \in Nat /\ log[s[k]].msg \in Messages
    BY <1>1, <1>4, LogFacts DEF OrderInv
  <2>3. \A k \in 1 .. m : Micro(IF log[s[k]].msg = Blank THEN clock ELSE log[s[k]].ts) \in Nat
    BY <2>1, <2>2, MicroType
  <2> QED
    BY <2>2, <2>3 DEF Row
<1>9. new \in Seq([at : Nat, msg : Messages, source : {"ingestor", "stream"}]) /\ Len(new) = m
  BY <1>2, <1>8
<1>10. db \in Seq([at : Nat, msg : Messages, source : {"ingestor", "stream"}]) /\ n \in Nat /\ DOMAIN db = 1 .. n
  BY DEF OrderInv, TypeOK
<1>11. /\ db' \in Seq([at : Nat, msg : Messages, source : {"ingestor", "stream"}])
       /\ DOMAIN db' = 1 .. n + m
       /\ \A k \in 1 .. n : db'[k] = db[k]
       /\ \A k \in 1 .. m : db'[n + k] = new[k]
  <2> HIDE DEF new
  <2> DEFINE R == [at : Nat, msg : Messages, source : {"ingestor", "stream"}]
  <2>1. db \in Seq(R) /\ new \in Seq(R) /\ Len(new) = m /\ Len(db) = n
    BY <1>9, <1>10
  <2>2. db' = db \o new
    BY <1>7
  <2> HIDE DEF R, n
  <2>3. /\ db \o new \in Seq(R) /\ DOMAIN (db \o new) = 1 .. Len(db) + Len(new)
        /\ \A k \in 1 .. Len(db) : (db \o new)[k] = db[k]
        /\ \A k \in 1 .. Len(new) : (db \o new)[Len(db) + k] = new[k]
    BY <2>1
  <2> QED
    BY <2>1, <2>2, <2>3 DEF R
<1>12. \A k \in 1 .. m : new[k] = Row(s[k])
  OBVIOUS
<1> HIDE DEF new
<1>13. \A k \in 1 .. n + m : k \in 1 .. n \/ \E l \in 1 .. m : k = n + l
  <2> TAKE k \in 1 .. n + m
  <2>1. CASE k <= n
    BY <1>10, <2>1
  <2>2. CASE k > n
    <3>1. k - n \in 1 .. m /\ k = n + (k - n)
      BY <1>2, <1>10, <2>2
    <3> QED
      BY <3>1
  <2> QED
    BY <1>2, <1>10, <2>1, <2>2
<1>14. ASSUME NEW r, r[2] # Blank
       PROVE  /\ Cardinality(Rows(r)') = Cardinality(Rows(r)) + Cardinality(Lines(r, B))
              /\ Cardinality(Ingested(r)') = Cardinality(Ingested(r)) + Cardinality(Lines(r, B))
  <2> DEFINE Added == {n + k : k \in {l \in 1 .. m : Record(s[l]) = r}}
  <2>1. Added \in SUBSET (1 .. n + m) /\ Added \cap (1 .. n) = {}
    <3>1. \A k \in 1 .. m : n + k \in 1 .. n + m /\ ~(n + k \in 1 .. n)
      BY <1>2, <1>10
    <3> QED
      BY <3>1
  <2>2. Cardinality(Added) = Cardinality(Lines(r, B))
    <3> DEFINE L == {l \in 1 .. m : Record(s[l]) = r}
               f == [l \in L |-> s[l]]
               g == [l \in L |-> n + l]
    <3>1. f \in Bijection(L, Lines(r, B))
      <4>1. f \in [L -> Lines(r, B)]
        BY <1>4 DEF Lines
      <4>2. \A k, l \in L : f[k] = f[l] => k = l
        BY <1>5
      <4>3. \A i \in Lines(r, B) : \E l \in L : f[l] = i
        BY <1>6 DEF Lines
      <4> HIDE DEF f, L
      <4> QED
        BY <4>1, <4>2, <4>3 DEF Bijection, Injection, IsInjective, Surjection
    <3>2. g \in Bijection(L, Added)
      <4>1. g \in [L -> Added]
        OBVIOUS
      <4>2. \A k, l \in L : g[k] = g[l] => k = l
        BY <1>2, <1>10
      <4>3. \A i \in Added : \E l \in L : g[l] = i
        OBVIOUS
      <4> HIDE DEF g, L, Added
      <4> QED
        BY <4>1, <4>2, <4>3 DEF Bijection, Injection, IsInjective, Surjection
    <3>3. L \in SUBSET (1 .. m)
      OBVIOUS
    <3> HIDE DEF f, g, L, Added
    <3>4. IsFiniteSet(L)
      BY <1>2, <3>3, Finite
    <3> QED
      BY <3>1, <3>2, <3>4, FS_Bijection DEF ExistsBijection
  <2>3. ASSUME NEW k \in 1 .. m
        PROVE  (<<new[k].at, new[k].msg>> = r <=> Record(s[k]) = r) /\ new[k].source = "ingestor"
    <3> DEFINE at == Micro(IF log[s[k]].msg = Blank THEN clock ELSE log[s[k]].ts)
    <3>0. new[k] = [at |-> at, msg |-> log[s[k]].msg, source |-> "ingestor"]
      BY <1>12 DEF Row
    <3>1. new[k].at = at /\ new[k].msg = log[s[k]].msg /\ new[k].source = "ingestor"
      <4> HIDE DEF at
      <4> QED
        BY <3>0
    <3>2. log[s[k]].msg # Blank => new[k].at = Micro(log[s[k]].ts)
      BY <3>1
    <3>3. log[s[k]].msg = Blank => <<new[k].at, new[k].msg>>[2] = Blank /\ Record(s[k])[2] = Blank
      BY <3>1 DEF Record
    <3> QED
      BY <1>14, <3>1, <3>2, <3>3 DEF Record
  <2>4. Rows(r)' = {k \in 1 .. n + m : <<db'[k].at, db'[k].msg>> = r}
    BY <1>11 DEF Rows, Stored
  <2>5. Rows(r) = {k \in 1 .. n : <<db[k].at, db[k].msg>> = r}
    BY <1>10 DEF Rows, Stored
  <2>6. 1 .. n \in SUBSET (1 .. n + m)
    BY <1>2, <1>10
  <2>7. Rows(r)' = Rows(r) \cup Added
    <3>1. \A k \in 1 .. n : k \in Rows(r)' <=> k \in Rows(r)
      BY <1>11, <2>4, <2>5, <2>6
    <3>2. \A l \in 1 .. m : n + l \in 1 .. n + m
      BY <1>2, <1>10
    <3>3. \A l \in 1 .. m : n + l \in Rows(r)' <=> Record(s[l]) = r
      BY <1>11, <2>3, <2>4, <3>2
    <3>4. \A l \in 1 .. m : n + l \in Added <=> Record(s[l]) = r
      BY <1>2, <1>10
    <3>5. \A k \in Rows(r)' \cup Rows(r) \cup Added : k \in 1 .. n \/ \E l \in 1 .. m : k = n + l
      BY <1>13, <2>4, <2>5
    <3> HIDE DEF Added
    <3>6. \A l \in 1 .. m : ~(n + l \in Rows(r))
      BY <1>2, <1>10, <2>5
    <3>7. ASSUME NEW k PROVE k \in Rows(r)' <=> k \in Rows(r) \cup Added
      <4>1. CASE k \in 1 .. n
        BY <2>1, <3>1, <4>1
      <4>2. CASE \E l \in 1 .. m : k = n + l
        BY <3>3, <3>4, <3>6, <4>2
      <4>3. CASE ~(k \in Rows(r)' \cup Rows(r) \cup Added)
        BY <4>3
      <4> QED
        BY <3>5, <4>1, <4>2, <4>3
    <3> QED
      BY <3>7
  <2>8. Ingested(r)' = {k \in Rows(r)' : db'[k].source = "ingestor"}
    BY DEF Ingested
  <2>9. Ingested(r) = {k \in Rows(r) : db[k].source = "ingestor"}
    BY DEF Ingested
  <2>10. Ingested(r)' = Ingested(r) \cup Added
    BY <1>11, <2>3, <2>5, <2>7, <2>8, <2>9
  <2>11. Rows(r) \in SUBSET (1 .. n) /\ Ingested(r) \in SUBSET (1 .. n)
    BY <2>5, <2>9
  <2> HIDE DEF Added
  <2>12. Rows(r) \in SUBSET (1 .. n + m) /\ Ingested(r) \in SUBSET (1 .. n + m) /\ n + m \in Nat
    BY <1>2, <1>10, <2>6, <2>11
  <2>13. Rows(r) \cap Added = {} /\ Ingested(r) \cap Added = {}
    BY <2>1, <2>11
  <2>14. Cardinality(Rows(r) \cup Added) = Cardinality(Rows(r)) + Cardinality(Added)
    BY <2>1, <2>12, <2>13, Disjoint
  <2>15. Cardinality(Ingested(r) \cup Added) = Cardinality(Ingested(r)) + Cardinality(Added)
    BY <2>1, <2>12, <2>13, Disjoint
  <2> QED
    BY <2>2, <2>7, <2>10, <2>14, <2>15
<1>15. ASSUME NEW k \in DOMAIN db'
       PROVE  (k \in DOMAIN db /\ db'[k] = db[k]) \/ \E i \in B : db'[k] = Row(i)
  <2>1. k \in 1 .. n \/ \E l \in 1 .. m : k = n + l
    BY <1>11, <1>13
  <2>2. \A l \in 1 .. m : s[l] \in B /\ db'[n + l] = Row(s[l])
    BY <1>4, <1>11, <1>12
  <2> QED
    BY <1>10, <1>11, <2>1, <2>2
<1> QED
  BY <1>11, <1>14, <1>15 DEF B


LEMMA CommitOrder == ASSUME NEW p \in Ingestors PROVE OrderInv /\ Commit(p) => OrderInv'
<1> SUFFICES ASSUME OrderInv, Commit(p) PROVE OrderInv'
  OBVIOUS
<1>1. /\ todo[p] # {} /\ todo[p] \subseteq StdOut
      /\ cursor' = cursor \/ cursor' = LastTs(p)
      /\ cursor' = 0 => cursor = 0 /\ LastTs(p) = 0
      /\ todo'[p] = todo[p] \ Batch(p)
      /\ step'[p] = IF todo[p] = Batch(p) THEN "idle" ELSE "more"
      /\ since'[p] = IF todo[p] = Batch(p) THEN 0 ELSE LastTs(p)
      /\ \A q \in Ingestors \ {p} : step'[q] = step[q] /\ todo'[q] = todo[q] /\ since'[q] = since[q]
      /\ UNCHANGED <<clock, log, from, first, owed, blurred>>
  BY CommitFacts
<1>2. Output' = Output /\ StdOut' = StdOut /\ TailFrom' = TailFrom
  BY <1>1 DEF Output, StdOut, TailFrom
<1>3. Batch(p) \in SUBSET todo[p] /\ Batch(p) \in SUBSET (1 .. Len(log))
  BY <1>1, BatchFacts DEF OrderInv
<1>4. /\ LastTs(p) \in Nat
      /\ \/ LastTs(p) = since[p] /\ Batch(p) \cap Output = {}
         \/ \E b \in Batch(p) \cap Output : LastTs(p) = log[b].ts /\ log[b].ts > 0
  BY <1>1, LastFacts DEF OrderInv
<1>5. TypeOK'
  <2>1. todo' \in [Ingestors -> SUBSET DOMAIN log]
    BY DEF Commit, OrderInv, TypeOK
  <2>2. step' \in [Ingestors -> {"idle", "sift", "store", "more"}]
    BY DEF Commit, OrderInv, TypeOK
  <2>3. since' \in [Ingestors -> Nat]
    BY <1>4 DEF Commit, OrderInv, TypeOK
  <2>4. cursor' \in Nat
    BY <1>1, <1>4 DEF OrderInv, TypeOK
  <2> QED
    BY <1>1, <1>2, <2>1, <2>2, <2>3, <2>4, CommitRows DEF OrderInv, TypeOK
<1>6. LogInv' /\ GoneInv'
  BY <1>1 DEF OrderInv, LogInv, GoneInv
<1>7. LastTs(p) <= clock
  BY <1>3, <1>4, LogFacts DEF OrderInv, PassInv, LogInv
<1>8. PassInv'
  <2>1. clock \in Nat /\ cursor' <= clock' /\ \A q \in Ingestors : since'[q] <= clock'
    <3>1. clock \in Nat
      BY DEF OrderInv, TypeOK
    <3> QED
      BY <1>1, <1>7, <3>1 DEF OrderInv, PassInv
  <2>2. cursor' = 0 => \A q \in Ingestors : since'[q] = 0
    BY <1>1 DEF OrderInv, PassInv
  <2>3. ASSUME NEW q \in Ingestors
        PROVE  /\ step'[q] = "idle" => todo'[q] = {}
               /\ step'[q] \in {"store", "more"} => todo'[q] # {} /\ todo'[q] \subseteq StdOut
    BY <1>1, <1>3 DEF OrderInv, PassInv
  <2> QED
    BY <1>2, <2>1, <2>2, <2>3, Zenon DEF PassInv
<1>9. AheadInv'
  <2> SUFFICES ASSUME NEW j \in Output, j \notin owed, j >= from, j >= first
               PROVE  cursor' <= log[j].ts /\ \A q \in Ingestors : since'[q] <= log[j].ts /\ \A i \in todo'[q] : i < j
    BY <1>1, <1>2 DEF AheadInv
  <2>1. cursor <= log[j].ts /\ \A q \in Ingestors : since[q] <= log[j].ts /\ \A i \in todo[q] : i < j
    BY DEF OrderInv, AheadInv
  <2>2. j \in 1 .. Len(log) /\ DOMAIN log = 1 .. Len(log) /\ log[j].ts \in Nat
    BY LogFacts DEF OrderInv
  <2>3. \A b \in Batch(p) : log[b].ts <= log[j].ts
    BY <1>3, <2>1, <2>2 DEF OrderInv, LogInv
  <2>4. LastTs(p) <= log[j].ts
    BY <1>4, <2>1, <2>3
  <2>5. \A q \in Ingestors : todo'[q] \subseteq todo[q]
    BY <1>1
  <2>6. \A q \in Ingestors : since'[q] <= log[j].ts
    BY <1>1, <2>1, <2>2, <2>4
  <2> QED
    BY <1>1, <2>1, <2>4, <2>5, <2>6
<1>10. TailInv'
  <2> SUFFICES ASSUME NEW q \in Ingestors, cursor' = 0, NEW i \in todo'[q], NEW j \in Output, TailFrom <= j, j <= i
               PROVE  j \in todo'[q]
    BY <1>2 DEF TailInv
  <2>1. cursor = 0 /\ i \in todo[q]
    BY <1>1
  <2>2. j \in todo[q]
    BY <2>1 DEF OrderInv, TailInv
  <2>3. j \notin Batch(p)
    BY <1>1, <1>4
  <2> QED
    BY <1>1, <2>2, <2>3
<1> QED
  BY <1>5, <1>6, <1>8, <1>9, <1>10 DEF OrderInv

LEMMA OrderNext == OrderInv /\ [Next]_vars => OrderInv'
<1> SUFFICES ASSUME OrderInv, [Next]_vars PROVE OrderInv'
  OBVIOUS
<1>1. CASE UNCHANGED vars
  BY <1>1 DEF vars, OrderInv, TypeOK, LogInv, PassInv, AheadInv, TailInv, GoneInv, Output, StdOut, TailFrom
<1>2. CASE Tick \/ Write \/ Recreate \/ StoreLogLine
  BY <1>2, TickOrder, WriteOrder, RecreateOrder, StreamOrder
<1>3. CASE \E p \in Ingestors : Pass(p)
  BY <1>3, BeginOrder, SiftedOrder, CommitOrder, AbortOrder DEF Pass
<1> QED
  BY <1>1, <1>2, <1>3 DEF Next

(***************************************************************************)
(* What is stored: no line is skipped.                                     *)
(***************************************************************************)

\* Lines of one record were written at one time.
LEMMA OneTime ==
  ASSUME TypeOK, TimesTell, NEW i \in Output, NEW j \in Output, Record(i) = Record(j)
  PROVE  log[i].ts = log[j].ts
BY DEF TimesTell, Output, StdOut

LEMMA Counts ==
  ASSUME TypeOK, NEW r
  PROVE  /\ Cardinality(Rows(r)) \in Nat /\ Cardinality(Lines(r, owed)) \in Nat
         /\ \A p \in Ingestors : Cardinality(Lines(r, todo[p])) \in Nat
<1>1. Rows(r) \in SUBSET (1 .. Len(db)) /\ Len(db) \in Nat
  BY RowFacts
<1>2. Len(log) \in Nat /\ owed \in SUBSET (1 .. Len(log)) /\ \A p \in Ingestors : todo[p] \in SUBSET (1 .. Len(log))
  BY LogFacts
<1>3. Lines(r, owed) \in SUBSET (1 .. Len(log)) /\ \A p \in Ingestors : Lines(r, todo[p]) \in SUBSET (1 .. Len(log))
  BY <1>2 DEF Lines
<1> QED
  BY <1>1, <1>2, <1>3, Finite

LEMMA CountsNext ==
  ASSUME TypeOK', NEW r
  PROVE  Cardinality(Rows(r)') \in Nat /\ Cardinality(Ingested(r)') \in Nat
<1>1. Rows(r)' \in SUBSET DOMAIN db' /\ Len(db') \in Nat /\ DOMAIN db' = 1 .. Len(db')
  BY DEF Rows, TypeOK
<1>2. Ingested(r)' \in SUBSET DOMAIN db'
  BY <1>1 DEF Ingested
<1> QED
  BY <1>1, <1>2, Finite

\* A step that leaves the lines owed and stored and loses no rows keeps what is settled.
LEMMA SettledStays ==
  ASSUME TypeOK, TypeOK', UNCHANGED <<log, owed>>,
         NEW r, Cardinality(Rows(r)) <= Cardinality(Rows(r)'), Settled(r)
  PROVE  Settled(r)'
<1>1. Lines(r, owed)' = Lines(r, owed)
  BY DEF Lines, Record, Micro
<1>2. Cardinality(Rows(r)) \in Nat /\ Cardinality(Lines(r, owed)) \in Nat
  BY Counts
<1>3. Cardinality(Rows(r)') \in Nat
  BY CountsNext
<1> QED
  BY <1>1, <1>2, <1>3 DEF Settled


\* A row more, of a stream, takes none away.
LEMMA StreamRows ==
  ASSUME TypeOK, StoreLogLine
  PROVE  \A r : /\ Cardinality(Rows(r)) <= Cardinality(Rows(r)')
                /\ Cardinality(Ingested(r)') = Cardinality(Ingested(r))
<1>1. PICK i \in from .. Len(log) :
        db' = Append(db, [at |-> Micro(clock), msg |-> log[i].msg, source |-> "stream"])
  BY DEF StoreLogLine
<1>2. Len(db) \in Nat /\ DOMAIN db = 1 .. Len(db)
  BY RowFacts
<1>3. /\ DOMAIN db' = 1 .. Len(db) + 1 /\ \A k \in 1 .. Len(db) : db'[k] = db[k]
      /\ db'[Len(db) + 1].source = "stream"
  BY <1>1, <1>2 DEF TypeOK
<1>4. \A k \in 1 .. Len(db) + 1 : k \in 1 .. Len(db) \/ k = Len(db) + 1
  BY <1>2
<1>5. 1 .. Len(db) \in SUBSET (1 .. Len(db) + 1)
  BY <1>2
<1> TAKE r
<1>6. Rows(r) \in SUBSET Rows(r)' /\ Rows(r)' \in SUBSET (1 .. Len(db) + 1)
  BY <1>2, <1>3, <1>5 DEF Rows, Stored
<1>7. Ingested(r)' = Ingested(r)
  <2>1. \A k \in 1 .. Len(db) : k \in Rows(r)' <=> k \in Rows(r)
    BY <1>2, <1>3, <1>5 DEF Rows, Stored
  <2>2. ASSUME NEW k PROVE k \in Ingested(r)' <=> k \in Ingested(r)
    <3>1. k \in Ingested(r)' <=> k \in Rows(r)' /\ db'[k].source = "ingestor"
      BY DEF Ingested
    <3>2. k \in Ingested(r) <=> k \in Rows(r) /\ db[k].source = "ingestor"
      BY DEF Ingested
    <3>3. k \in Rows(r) => k \in 1 .. Len(db)
      BY <1>2 DEF Rows
    <3>4. k \in Rows(r)' => k \in 1 .. Len(db) \/ k = Len(db) + 1
      BY <1>4, <1>6
    <3>5. k = Len(db) + 1 => ~(k \in 1 .. Len(db)) /\ db'[k].source # "ingestor"
      BY <1>2, <1>3
    <3> QED
      BY <1>3, <2>1, <3>1, <3>2, <3>3, <3>4, <3>5
  <2> QED
    BY <2>2
<1>8. Len(db) + 1 \in Nat
  BY <1>2
<1>9. Cardinality(Rows(r)) <= Cardinality(Rows(r)')
  BY <1>6, <1>8, Monotone
<1> QED
  BY <1>7, <1>9


CountInv == TimesTell => PassedInv /\ CoverInv

\* Steps that touch no line, cursor or pass, but for a pass that ends.
LEMMA OthersCount ==
  ASSUME OrderInv, OrderInv', CountInv, UNCHANGED <<log, from, owed, cursor>>,
         \A r : Cardinality(Rows(r)) <= Cardinality(Rows(r)'),
         \A q \in Ingestors : step'[q] = "idle" \/ UNCHANGED <<step[q], since[q], todo[q]>>
  PROVE  CountInv'
<1> SUFFICES ASSUME TimesTell PROVE PassedInv' /\ CoverInv'
  BY DEF CountInv, TimesTell, Output, StdOut, Record, Micro
<1>1. PassedInv /\ CoverInv /\ TypeOK /\ TypeOK'
  BY DEF CountInv, OrderInv
<1>2. \A i : Record(i)' = Record(i)
  BY DEF Record, Micro
<1>3. \A r : Settled(r) => Settled(r)'
  BY <1>1, SettledStays
<1>4. PassedInv'
  BY <1>1, <1>2, <1>3 DEF PassedInv
<1>5. CoverInv'
  <2> SUFFICES ASSUME NEW q \in Ingestors, NEW i \in owed, step'[q] # "idle"
               PROVE  /\ step[q] # "idle" /\ log[i].ts < since[q] => Settled(Record(i))'
                      /\ step[q] = "sift" =>
                           \/ Settled(Record(i))'
                           \/ /\ since[q] <= log[i].ts
                              /\ (\E b \in todo[q] : log[i].ts < log[b].ts) => Lines(Record(i), owed)' \subseteq todo[q]
                      /\ step[q] \in {"store", "more"} /\ (\E b \in todo[q] : log[i].ts < log[b].ts) =>
                           Cardinality(Lines(Record(i), owed)')
                             <= Cardinality(Rows(Record(i))') + Cardinality(Lines(Record(i), todo[q])')
    BY <1>2 DEF CoverInv
  <2>1. Lines(Record(i), owed)' = Lines(Record(i), owed) /\ Lines(Record(i), todo[q])' = Lines(Record(i), todo[q])
    BY <1>2 DEF Lines
  <2>2. Settled(Record(i)) => Settled(Record(i))'
    BY <1>2, <1>3
  <2>3. Cardinality(Rows(Record(i))) <= Cardinality(Rows(Record(i))')
    BY <1>2
  <2>4. /\ Cardinality(Rows(Record(i))) \in Nat /\ Cardinality(Lines(Record(i), owed)) \in Nat
        /\ Cardinality(Lines(Record(i), todo[q])) \in Nat
    BY <1>1, Counts
  <2>5. Cardinality(Rows(Record(i))') \in Nat
    <3>1. \A r : Cardinality(Rows(r)') \in Nat
      BY <1>1, CountsNext
    <3> QED
      BY <1>2, <3>1
  <2> QED
    BY <1>1, <2>1, <2>2, <2>3, <2>4, <2>5 DEF CoverInv
<1> QED
  BY <1>4, <1>5


LEMMA WriteCount == OrderInv /\ OrderInv' /\ CountInv /\ Write => CountInv'
<1> SUFFICES ASSUME OrderInv, OrderInv', CountInv, Write, TimesTell' PROVE PassedInv' /\ CoverInv'
  BY DEF CountInv
<1>1. /\ Len(log)' = Len(log) + 1 /\ DOMAIN log' = 1 .. Len(log) + 1
      /\ \A i \in 1 .. Len(log) : log'[i] = log[i]
      /\ UNCHANGED <<clock, from, db, cursor, step, since, todo, first, owed, blurred>>
  BY WriteFacts DEF OrderInv
<1>2. /\ Len(log) \in Nat /\ DOMAIN log = 1 .. Len(log) /\ owed \in SUBSET (1 .. Len(log))
      /\ \A p \in Ingestors : todo[p] \in SUBSET (1 .. Len(log))
  BY LogFacts DEF OrderInv
<1>3. \A i \in 1 .. Len(log) : Record(i)' = Record(i)
  BY <1>1 DEF Record, Micro
<1>4. TimesTell
  <2>1. 1 .. Len(log) \in SUBSET (1 .. Len(log) + 1)
    BY <1>2
  <2>2. Output \in SUBSET Output' /\ Output \in SUBSET (1 .. Len(log))
    BY <1>1, <1>2, <2>1 DEF Output, StdOut
  <2> QED
    BY <1>1, <1>3, <2>2 DEF TimesTell
<1>5. PassedInv /\ CoverInv
  BY <1>4 DEF CountInv
<1>6. ASSUME NEW r, NEW S \in SUBSET (1 .. Len(log)) PROVE {i \in S : Record(i)' = r} = Lines(r, S)
  BY <1>3 DEF Lines
<1>7. \A r : Lines(r, owed)' = Lines(r, owed) /\ \A q \in Ingestors : Lines(r, todo[q])' = Lines(r, todo[q])
  BY <1>1, <1>2, <1>6 DEF Lines
<1>8. \A r : Rows(r)' = Rows(r)
  BY <1>1 DEF Rows, Stored
<1>9. \A i \in owed : Record(i)' = Record(i) /\ log'[i] = log[i]
  BY <1>1, <1>2, <1>3
<1>10. \A q \in Ingestors : \A i \in todo[q] : log'[i] = log[i]
  BY <1>1, <1>2
<1>11. \A r : Settled(r)' <=> Settled(r)
  BY <1>7, <1>8 DEF Settled
<1>12. PassedInv'
  BY <1>1, <1>5, <1>9, <1>11 DEF PassedInv
<1>13. CoverInv'
  BY <1>1, <1>5, <1>7, <1>8, <1>9, <1>10, <1>11 DEF CoverInv
<1> QED
  BY <1>12, <1>13

LEMMA RecreateCount == OrderInv /\ OrderInv' /\ CountInv /\ Recreate => CountInv'
<1> SUFFICES ASSUME OrderInv, OrderInv', CountInv, Recreate, TimesTell PROVE PassedInv' /\ CoverInv'
  BY DEF CountInv, Recreate, TimesTell, Output, StdOut, Record, Micro
<1>1. /\ from' = Len(log) + 1 /\ owed' = {i \in owed : log[i].ts < cursor}
      /\ UNCHANGED <<clock, log, db, cursor, step, since, todo, first, blurred>>
  BY DEF Recreate, passVars
<1>2. PassedInv /\ CoverInv /\ TypeOK
  BY DEF CountInv, OrderInv
<1>3. /\ \A i : Record(i)' = Record(i)
      /\ \A r : Rows(r)' = Rows(r) /\ \A q \in Ingestors : Lines(r, todo[q])' = Lines(r, todo[q])
  BY <1>1 DEF Record, Micro, Rows, Stored, Lines
<1>4. \A r : Lines(r, owed)' \in SUBSET Lines(r, owed)
  BY <1>1, <1>3 DEF Lines
<1>5. ASSUME NEW r
      PROVE  /\ Cardinality(Lines(r, owed)') <= Cardinality(Lines(r, owed)) /\ Cardinality(Lines(r, owed)') \in Nat
             /\ Cardinality(Lines(r, owed)) \in Nat /\ Cardinality(Rows(r)) \in Nat
             /\ \A q \in Ingestors : Cardinality(Lines(r, todo[q])) \in Nat
  <2>1. Lines(r, owed) \in SUBSET (1 .. Len(log)) /\ Len(log) \in Nat
    BY <1>2, LogFacts DEF Lines
  <2> QED
    BY <1>2, <1>4, <2>1, Monotone, Counts
<1>6. \A r : Settled(r) => Settled(r)'
  <2> TAKE r
  <2> QED
    BY <1>3, <1>5 DEF Settled
<1>7. PassedInv'
  BY <1>1, <1>2, <1>3, <1>6 DEF PassedInv
<1>8. CoverInv'
  <2> SUFFICES ASSUME NEW q \in Ingestors, NEW i \in owed
               PROVE  /\ step[q] # "idle" /\ log[i].ts < since[q] => Settled(Record(i))'
                      /\ step[q] = "sift" =>
                           \/ Settled(Record(i))'
                           \/ /\ since[q] <= log[i].ts
                              /\ (\E b \in todo[q] : log[i].ts < log[b].ts) => Lines(Record(i), owed)' \subseteq todo[q]
                      /\ step[q] \in {"store", "more"} /\ (\E b \in todo[q] : log[i].ts < log[b].ts) =>
                           Cardinality(Lines(Record(i), owed)')
                             <= Cardinality(Rows(Record(i))) + Cardinality(Lines(Record(i), todo[q]))
    <3>1. \A i \in owed' : i \in owed
      BY <1>1
    <3> QED
      BY <1>1, <1>3, <3>1 DEF CoverInv
  <2>1. Settled(Record(i)) => Settled(Record(i))'
    BY <1>3, <1>6
  <2>2. Lines(Record(i), owed)' \in SUBSET Lines(Record(i), owed)
    BY <1>3, <1>4
  <2>3. \A r : /\ Cardinality(Lines(r, owed)') <= Cardinality(Lines(r, owed)) /\ Cardinality(Lines(r, owed)') \in Nat
               /\ Cardinality(Lines(r, owed)) \in Nat /\ Cardinality(Rows(r)) \in Nat
               /\ Cardinality(Lines(r, todo[q])) \in Nat
    BY <1>5
  <2>4. Cardinality(Lines(Record(i), owed)') <= Cardinality(Lines(Record(i), owed))
        /\ Cardinality(Lines(Record(i), owed)') \in Nat
        /\ Cardinality(Lines(Record(i), owed)) \in Nat /\ Cardinality(Rows(Record(i))) \in Nat
        /\ Cardinality(Lines(Record(i), todo[q])) \in Nat
    BY <1>3, <2>3
  <2> QED
    BY <1>2, <2>1, <2>2, <2>4 DEF CoverInv
<1> QED
  BY <1>7, <1>8


\* A pass begins: the lines it adds to those owed are later than what any other pass or
\* the cursor claims to have covered.
LEMMA BeginCount == ASSUME NEW p \in Ingestors PROVE OrderInv /\ OrderInv' /\ CountInv /\ Begin(p) => CountInv'
<1> SUFFICES ASSUME OrderInv, OrderInv', CountInv, Begin(p), TimesTell PROVE PassedInv' /\ CoverInv'
  BY DEF CountInv, Begin, TimesTell, Output, StdOut, Record, Micro
<1>1. /\ owed' = (IF cursor = 0 THEN {} ELSE owed) \cup {i \in DockerLogs \cap Output : i >= first'}
      /\ cursor # 0 => first' = first
      /\ UNCHANGED <<clock, log, from, db, cursor>>
      /\ step'[p] = "sift" /\ since'[p] = cursor /\ todo'[p] = DockerLogs
      /\ \A q \in Ingestors \ {p} : step'[q] = step[q] /\ since'[q] = since[q] /\ todo'[q] = todo[q]
  BY DEF Begin, OrderInv, TypeOK
<1>2. /\ Len(log) \in Nat /\ DOMAIN log = 1 .. Len(log) /\ from \in Nat
      /\ \A i \in 1 .. Len(log) : log[i].ts \in Nat
      /\ owed \in SUBSET Output /\ Output \in SUBSET (1 .. Len(log))
      /\ \A q \in Ingestors : todo[q] \in SUBSET (1 .. Len(log))
  BY LogFacts DEF OrderInv
<1>3. /\ PassedInv /\ CoverInv /\ TypeOK
      /\ cursor \in Nat /\ \A q \in Ingestors : since[q] \in Nat /\ step[q] \in {"idle", "sift", "store", "more"}
  BY DEF CountInv, OrderInv, TypeOK
<1>4. /\ \A i : Record(i)' = Record(i)
      /\ \A r : Rows(r)' = Rows(r) /\ \A S : {i \in S : Record(i)' = r} = Lines(r, S)
  BY <1>1 DEF Record, Micro, Rows, Stored, Lines
<1>5. \A r : Lines(r, owed)' = Lines(r, owed') /\ \A q \in Ingestors : Lines(r, todo[q])' = Lines(r, todo'[q])
  BY <1>4 DEF Lines
<1>6. owed' \in SUBSET Output /\ DockerLogs \in SUBSET (from .. Len(log)) /\ DockerLogs \in SUBSET (1 .. Len(log))
  <2>1. Output' = Output
    BY <1>1 DEF Output, StdOut
  <2> QED
    BY <2>1, TailFacts DEF OrderInv, TypeOK
<1>7. \A q \in Ingestors : \A i \in Output, b \in todo[q] : log[i].ts < log[b].ts => i < b
  <2> SUFFICES ASSUME NEW q \in Ingestors, NEW i \in Output, NEW b \in todo[q], log[i].ts < log[b].ts PROVE i < b
    OBVIOUS
  <2>1. i \in DOMAIN log /\ b \in DOMAIN log /\ i \in Nat /\ b \in Nat /\ log[i].ts \in Nat /\ log[b].ts \in Nat
    BY <1>2
  <2>2. b < i => log[b].ts <= log[i].ts
    BY <2>1 DEF OrderInv, LogInv
  <2> QED
    BY <2>1, <2>2
<1>8. \A i, j \in Output : Record(i) = Record(j) => log[i].ts = log[j].ts
  BY <1>3, OneTime
<1> DEFINE Paid(i) == Cardinality(Lines(Record(i), owed')) <= Cardinality(Rows(Record(i)))
<1>11. \A i : Settled(Record(i))' <=> Paid(i)
  BY <1>4, <1>5 DEF Settled
<1>9. CASE cursor = 0
  <2>1. DockerLogs = TailFrom .. Len(log) /\ owed' \in SUBSET DockerLogs
    BY <1>1, <1>9 DEF DockerLogs
  <2>2. \A i \in owed' : ~(i < from)
    BY <1>2, <1>6, <2>1
  <2>3. PassedInv'
    BY <1>1, <1>2, <1>6, <1>9, <2>2 DEF PassedInv
  <2>4. ASSUME NEW q \in Ingestors \ {p}, NEW i \in owed', NEW b \in todo[q], log[i].ts < log[b].ts
        PROVE  Lines(Record(i), owed') \in SUBSET Lines(Record(i), todo[q])
    <3> SUFFICES ASSUME NEW j \in owed', Record(j) = Record(i) PROVE j \in todo[q]
      BY DEF Lines
    <3>1. log[j].ts = log[i].ts
      BY <1>6, <1>8
    <3>2. j < b /\ j \in Output
      BY <1>6, <1>7, <2>4, <3>1
    <3>3. TailFrom <= j /\ j <= b
      BY <1>2, <2>1, <3>2, TailFacts DEF OrderInv
    <3> QED
      BY <1>9, <3>2, <3>3 DEF OrderInv, TailInv
  <2>5. ASSUME NEW i \in owed'
        PROVE  /\ Lines(Record(i), owed') \subseteq DockerLogs
               /\ cursor <= log[i].ts /\ ~(log[i].ts < cursor)
    <3>1. log[i].ts \in Nat
      BY <1>2, <1>6
    <3>2. Lines(Record(i), owed') \subseteq owed'
      BY DEF Lines
    <3>3. cursor <= log[i].ts /\ ~(log[i].ts < cursor)
      BY <1>9, <3>1
    <3> QED
      BY <2>1, <3>2, <3>3
  <2>6. ASSUME NEW q \in Ingestors \ {p}, NEW i \in owed'
        PROVE  /\ since[q] <= log[i].ts /\ ~(log[i].ts < since[q])
               /\ (\E b \in todo[q] : log[i].ts < log[b].ts) => Lines(Record(i), owed') \subseteq todo[q]
               /\ (\E b \in todo[q] : log[i].ts < log[b].ts) =>
                         Cardinality(Lines(Record(i), owed'))
                           <= Cardinality(Rows(Record(i))) + Cardinality(Lines(Record(i), todo[q]))
    <3>1. since[q] = 0 /\ log[i].ts \in Nat
      BY <1>2, <1>6, <1>9 DEF OrderInv, PassInv
    <3>2. ASSUME NEW b \in todo[q], log[i].ts < log[b].ts
          PROVE  /\ Lines(Record(i), owed') \subseteq todo[q]
                 /\ Cardinality(Lines(Record(i), owed'))
                      <= Cardinality(Rows(Record(i))) + Cardinality(Lines(Record(i), todo[q]))
      <4>1. Lines(Record(i), owed') \in SUBSET Lines(Record(i), todo[q])
        BY <2>4, <3>2
      <4>2. Lines(Record(i), todo[q]) \in SUBSET (1 .. Len(log))
        BY <1>2 DEF Lines
      <4>3. /\ Cardinality(Lines(Record(i), owed')) <= Cardinality(Lines(Record(i), todo[q]))
            /\ Cardinality(Lines(Record(i), owed')) \in Nat /\ Cardinality(Lines(Record(i), todo[q])) \in Nat
        BY <1>2, <4>1, <4>2, Monotone
      <4>4. Cardinality(Rows(Record(i))) \in Nat
        BY <1>3, Counts
      <4> QED
        BY <4>1, <4>3, <4>4 DEF Lines
    <3> QED
      BY <3>1, <3>2
  <2>7. ASSUME NEW q \in Ingestors, NEW i \in owed', NEW r, r = Record(i)
        PROVE  /\ ~(log[i].ts < since'[q]) /\ since'[q] <= log[i].ts
               /\ (\E b \in todo'[q] : log[i].ts < log[b].ts) => Lines(r, owed') \subseteq todo'[q]
               /\ step'[q] \in {"store", "more"} /\ (\E b \in todo'[q] : log[i].ts < log[b].ts) =>
                    Cardinality(Lines(r, owed')) <= Cardinality(Rows(r)) + Cardinality(Lines(r, todo'[q]))
    <3>1. CASE q = p
      BY <1>1, <2>5, <2>7, <3>1
    <3>2. CASE q # p
      BY <1>1, <2>6, <2>7, <3>2
    <3> QED
      BY <3>1, <3>2
  <2>8. CoverInv'
    <3> SUFFICES ASSUME NEW q \in Ingestors, NEW i \in owed', NEW r, r = Record(i)
                 PROVE  /\ step'[q] # "idle" /\ log[i].ts < since'[q] => Settled(r)'
                        /\ step'[q] = "sift" =>
                             \/ Settled(r)'
                             \/ /\ since'[q] <= log[i].ts
                                /\ (\E b \in todo'[q] : log[i].ts < log[b].ts) => Lines(r, owed') \subseteq todo'[q]
                        /\ step'[q] \in {"store", "more"} /\ (\E b \in todo'[q] : log[i].ts < log[b].ts) =>
                             Cardinality(Lines(r, owed')) <= Cardinality(Rows(r)) + Cardinality(Lines(r, todo'[q]))
      <4>1. UNCHANGED log
        BY <1>1
      <4> QED
        BY <1>4, <1>5, <4>1 DEF CoverInv
    <3> QED
      BY <2>7
  <2> QED
    BY <2>3, <2>8
<1>10. CASE cursor # 0
  <2>1. owed \in SUBSET owed' /\ \A i \in owed' : i \in owed \/ i \in DockerLogs
    BY <1>1, <1>10
  <2>2. ASSUME NEW j \in owed' \ owed
        PROVE  /\ j \in DockerLogs /\ j >= from /\ cursor <= log[j].ts
               /\ \A q \in Ingestors : since[q] <= log[j].ts /\ \A b \in todo[q] : ~(log[j].ts < log[b].ts)
    <3>1. j \in Output /\ j \in DockerLogs /\ j >= first
      BY <1>1, <1>6, <1>10, <2>1
    <3>2. j >= from
      <4>1. \A k \in from .. Len(log) : k >= from
        BY <1>2
      <4> QED
        BY <1>6, <3>1, <4>1
    <3>3. cursor <= log[j].ts /\ \A q \in Ingestors : since[q] <= log[j].ts /\ \A b \in todo[q] : b < j
      BY <3>1, <3>2 DEF OrderInv, AheadInv
    <3>4. ASSUME NEW q \in Ingestors, NEW b \in todo[q] PROVE ~(log[j].ts < log[b].ts)
      <4>1. j \in Nat /\ b \in Nat /\ b < j
        BY <1>2, <3>1, <3>3
      <4> QED
        BY <1>7, <3>1, <4>1
    <3> QED
      BY <3>1, <3>2, <3>3, <3>4
  \* No new line has the record of one that is passed, gone, or covered.
  <2>3. ASSUME NEW i \in owed,
               \/ log[i].ts < cursor \/ i < from
               \/ \E q \in Ingestors : log[i].ts < since[q] \/ \E b \in todo[q] : log[i].ts < log[b].ts
        PROVE  Lines(Record(i), owed') = Lines(Record(i), owed)
    <3> SUFFICES ASSUME NEW j \in owed' \ owed, Record(j) = Record(i) PROVE FALSE
      BY <2>1 DEF Lines
    <3>1. log[j].ts = log[i].ts /\ log[i].ts \in Nat /\ j \in DOMAIN log
      BY <1>2, <1>6, <1>8
    <3>2. j >= from /\ cursor <= log[i].ts
      BY <2>2, <3>1
    <3>3. \A q \in Ingestors : since[q] <= log[i].ts /\ \A b \in todo[q] : ~(log[i].ts < log[b].ts)
      BY <2>2, <3>1
    <3>4. ~(i < from)
      <4>1. i < from => log[i].ts < log[j].ts
        BY <3>1, <3>2 DEF OrderInv, GoneInv
      <4> QED
        BY <3>1, <4>1
    <3> QED
      BY <1>3, <2>3, <3>1, <3>2, <3>3, <3>4
  <2>4. ASSUME NEW i \in owed', log[i].ts < cursor \/ i < from
        PROVE  i \in owed /\ Paid(i)
    <3>1. i \in owed
      <4>1. i \in Nat /\ log[i].ts \in Nat
        BY <1>2, <1>6
      <4> QED
        BY <1>2, <1>3, <2>2, <2>4, <4>1
    <3>2. Lines(Record(i), owed') = Lines(Record(i), owed)
      BY <2>3, <2>4, <3>1
    <3>3. Settled(Record(i))
      BY <1>3, <2>4, <3>1 DEF PassedInv
    <3> QED
      BY <3>1, <3>2, <3>3 DEF Settled
  <2>5. PassedInv'
    BY <1>1, <1>4, <1>11, <2>4 DEF PassedInv
  <2>6. ASSUME NEW i \in owed'
        PROVE  /\ Paid(i) \/ (cursor <= log[i].ts /\ Lines(Record(i), owed') \subseteq DockerLogs)
               /\ log[i].ts < cursor => Paid(i)
    <3>1. log[i].ts \in Nat
      BY <1>2, <1>6
    <3>2. CASE log[i].ts < cursor
      BY <2>4, <3>2
    <3>3. CASE \E j \in owed' : Record(j) = Record(i) /\ j < from
      <4>1. PICK j \in owed' : Record(j) = Record(i) /\ j < from
        BY <3>3
      <4>2. Paid(j)
        BY <2>4, <4>1
      <4> QED
        BY <4>1, <4>2
    <3>4. CASE cursor <= log[i].ts /\ \A j \in owed' : Record(j) = Record(i) => ~(j < from)
      <4> SUFFICES ASSUME NEW j \in owed', Record(j) = Record(i) PROVE j \in DockerLogs
        BY <1>3, <3>1, <3>4 DEF Lines
      <4>1. log[j].ts = log[i].ts /\ j \in 1 .. Len(log) /\ j >= from
        BY <1>2, <1>6, <1>8, <3>4
      <4> QED
        BY <1>2, <1>10, <3>4, <4>1 DEF DockerLogs
    <3> QED
      BY <1>3, <2>4, <3>1, <3>2, <3>3, <3>4
  <2>7. ASSUME NEW q \in Ingestors \ {p}, NEW i \in owed'
        PROVE  /\ step[q] # "idle" /\ log[i].ts < since[q] => Paid(i)
               /\ step[q] = "sift" =>
                    \/ Paid(i)
                    \/ /\ since[q] <= log[i].ts
                       /\ (\E b \in todo[q] : log[i].ts < log[b].ts) => Lines(Record(i), owed') \subseteq todo[q]
               /\ step[q] \in {"store", "more"} /\ (\E b \in todo[q] : log[i].ts < log[b].ts) =>
                    Cardinality(Lines(Record(i), owed'))
                      <= Cardinality(Rows(Record(i))) + Cardinality(Lines(Record(i), todo[q]))
    <3>1. CASE i \notin owed
      <4>1. since[q] <= log[i].ts /\ (\A b \in todo[q] : ~(log[i].ts < log[b].ts)) /\ log[i].ts \in Nat
        BY <1>2, <1>6, <2>2, <3>1
      <4> QED
        BY <1>3, <4>1
    <3>2. CASE i \in owed /\ (log[i].ts < since[q] \/ \E b \in todo[q] : log[i].ts < log[b].ts)
      <4>1. Lines(Record(i), owed') = Lines(Record(i), owed)
        BY <2>3, <3>2
      <4>2. Paid(i) <=> Settled(Record(i))
        BY <4>1 DEF Settled
      <4> QED
        BY <1>3, <3>2, <4>1, <4>2 DEF CoverInv
    <3>4. log[i].ts \in Nat
      BY <1>2, <1>6
    <3>3. CASE since[q] <= log[i].ts /\ ~(\E b \in todo[q] : log[i].ts < log[b].ts)
      BY <1>3, <3>3, <3>4
    <3> QED
      BY <1>3, <3>1, <3>2, <3>3, <3>4
  <2>8. CoverInv'
    BY <1>1, <1>4, <1>5, <1>11, <2>6, <2>7 DEF CoverInv
  <2> QED
    BY <2>5, <2>8
<1> QED
  BY <1>9, <1>10


\* The lines of stdout a pass has.
Printed(p) == todo[p] \cap StdOut

\* Of the lines of a record at the cursor's time, sifting takes off the first ones, as
\* many as there are rows of it in sight; of any other record it takes off none.
LEMMA FreshLines ==
  ASSUME NEW p \in Ingestors, NEW r, r[2] # Blank
  PROVE  Lines(r, Fresh(p)) =
           IF r[1] = Micro(since[p])
           THEN {i \in Lines(r, Printed(p)) : Rank(i, Lines(r, Printed(p))) > Cardinality(Rows(r) \cap Boundary(p))}
           ELSE Lines(r, Printed(p))
<1>1. Fresh(p) = {i \in Printed(p) : i \in AtCursor(p) =>
                     Rank(i, Lines(Record(i), Printed(p))) > Cardinality(Rows(Record(i)) \cap Boundary(p))}
  BY DEF Fresh, Printed
<1>2. \A i : i \in Lines(r, Fresh(p)) <=> i \in Fresh(p) /\ Record(i) = r
  BY DEF Lines
<1>3. \A i : i \in Lines(r, Printed(p)) <=> i \in Printed(p) /\ Record(i) = r
  BY DEF Lines
<1>4. \A i \in Printed(p) : Record(i) = r => (i \in AtCursor(p) <=> r[1] = Micro(since[p]))
  <2> SUFFICES ASSUME NEW i \in Printed(p), Record(i) = r PROVE i \in AtCursor(p) <=> r[1] = Micro(since[p])
    OBVIOUS
  <2>1. log[i].msg # Blank
    BY DEF Record
  <2> QED
    BY <2>1 DEF AtCursor, Printed, Output
<1> QED
  BY <1>1, <1>2, <1>3, <1>4

LEMMA SiftedCount == ASSUME NEW p \in Ingestors PROVE OrderInv /\ OrderInv' /\ CountInv /\ Sifted(p) => CountInv'
<1> SUFFICES ASSUME OrderInv, OrderInv', CountInv, Sifted(p), TimesTell PROVE PassedInv' /\ CoverInv'
  BY DEF CountInv, Sifted, TimesTell, Output, StdOut, Record, Micro
<1>1. /\ UNCHANGED <<clock, log, from, db, cursor, first, owed>>
      /\ step[p] = "sift" /\ step'[p] = (IF Fresh(p) = {} THEN "idle" ELSE "store") /\ todo'[p] = Fresh(p)
      /\ step'[p] = "idle" \/ since'[p] = since[p]
      /\ \A q \in Ingestors \ {p} : step'[q] = step[q] /\ since'[q] = since[q] /\ todo'[q] = todo[q]
  BY DEF Sifted, OrderInv, TypeOK
<1>2. PassedInv /\ CoverInv /\ TypeOK
  BY DEF CountInv, OrderInv
<1>3. /\ \A i : Record(i)' = Record(i)
      /\ \A r : Rows(r)' = Rows(r) /\ Lines(r, owed)' = Lines(r, owed)
      /\ \A r : \A q \in Ingestors : Lines(r, todo[q])' = Lines(r, todo'[q])
  BY <1>1 DEF Record, Micro, Rows, Stored, Lines
<1>4. \A r : Settled(r)' <=> Settled(r)
  BY <1>3 DEF Settled
<1>5. PassedInv'
  BY <1>1, <1>2, <1>3, <1>4 DEF PassedInv
<1>6. Fresh(p) \in SUBSET todo[p] /\ todo[p] \in SUBSET (1 .. Len(log)) /\ Len(log) \in Nat
      /\ owed \in SUBSET Output /\ owed \in SUBSET StdOut
  BY <1>2, FreshFacts, LogFacts
<1>7. ASSUME NEW i \in owed, NEW b \in Fresh(p), log[i].ts < log[b].ts
      PROVE  Cardinality(Lines(Record(i), owed))
               <= Cardinality(Rows(Record(i))) + Cardinality(Lines(Record(i), Fresh(p)))
  <2> DEFINE r == Record(i)
             L == Lines(r, Printed(p))
             c == Cardinality(Rows(r) \cap Boundary(p))
  <2>0. r[2] # Blank
    BY <1>2, LogFacts
  <2>1. L \in SUBSET (1 .. Len(log)) /\ Lines(r, Fresh(p)) \in SUBSET (1 .. Len(log)) /\ Lines(r, owed) \in SUBSET (1 .. Len(log))
    BY <1>2, <1>6, LogFacts DEF Lines, Printed
  <2>2. /\ Cardinality(L) \in Nat /\ Cardinality(Lines(r, Fresh(p))) \in Nat /\ Cardinality(Lines(r, owed)) \in Nat
        /\ Cardinality(Rows(r)) \in Nat
    BY <1>2, <1>6, <2>1, Finite, Counts
  <2>3. c \in Nat /\ c <= Cardinality(Rows(r))
    <3>1. Rows(r) \in SUBSET (1 .. Len(db)) /\ Len(db) \in Nat /\ Rows(r) \cap Boundary(p) \in SUBSET Rows(r)
      BY <1>2, RowFacts
    <3> QED
      BY <3>1, Monotone
  <2>4. CASE Settled(r)
    BY <2>2, <2>4 DEF Settled
  <2>5. CASE Lines(r, owed) \subseteq todo[p]
    <3>1. Lines(r, owed) \in SUBSET L
      BY <1>6, <2>5 DEF Lines, Printed
    <3>2. Cardinality(Lines(r, owed)) <= Cardinality(L)
      BY <1>6, <2>1, <3>1, Monotone
    <3>3. CASE r[1] = Micro(since[p])
      <4> DEFINE low == {j \in L : Rank(j, L) <= c}
                 high == {j \in L : Rank(j, L) > c}
      <4>1. Lines(r, Fresh(p)) = high
        BY <2>0, <3>3, FreshLines
      <4>2. Cardinality(low) <= c
        BY <1>6, <2>1, <2>3, FewHaveLowRank
      <4>3. Cardinality(L) = Cardinality(low) + Cardinality(high) /\ Cardinality(low) \in Nat /\ Cardinality(high) \in Nat
        BY <1>6, <2>1, <2>3, ByPlace
      <4> HIDE DEF low, high, L
      <4> QED
        BY <2>2, <2>3, <3>2, <4>1, <4>2, <4>3
    <3>4. CASE r[1] # Micro(since[p])
      <4>1. Lines(r, Fresh(p)) = L
        BY <2>0, <3>4, FreshLines
      <4> QED
        BY <2>2, <3>2, <4>1
    <3> QED
      BY <3>3, <3>4
  <2>6. Settled(r) \/ Lines(r, owed) \subseteq todo[p]
    BY <1>1, <1>2, <1>6, <1>7 DEF CoverInv
  <2> QED
    BY <2>4, <2>5, <2>6
<1>8. CoverInv'
  BY <1>1, <1>2, <1>3, <1>4, <1>7 DEF CoverInv
<1> QED
  BY <1>5, <1>8

LEMMA CommitCount == ASSUME NEW p \in Ingestors PROVE OrderInv /\ OrderInv' /\ CountInv /\ Commit(p) => CountInv'
<1> SUFFICES ASSUME OrderInv, OrderInv', CountInv, Commit(p), TimesTell' PROVE PassedInv' /\ CoverInv'
  BY DEF CountInv
<1>1. /\ todo[p] # {} /\ step[p] \in {"store", "more"}
      /\ cursor' = cursor \/ cursor' = LastTs(p)
      /\ step'[p] = "idle" \/ since'[p] = LastTs(p)
      /\ todo'[p] = todo[p] \ Batch(p)
      /\ step'[p] = IF todo[p] = Batch(p) THEN "idle" ELSE "more"
      /\ \A q \in Ingestors \ {p} : step'[q] = step[q] /\ since'[q] = since[q] /\ todo'[q] = todo[q]
      /\ UNCHANGED <<clock, log, from, first, owed, blurred>>
  BY CommitFacts
<1>2. PassedInv /\ CoverInv /\ TypeOK /\ TypeOK' /\ TimesTell
  <2>1. TimesTell
    BY <1>1 DEF TimesTell, Output, StdOut, Record, Micro
  <2> QED
    BY <2>1 DEF CountInv, OrderInv
<1>3. /\ Batch(p) \in SUBSET todo[p] /\ Batch(p) \in SUBSET (1 .. Len(log))
      /\ \A i \in Batch(p), j \in todo[p] \ Batch(p) : i < j
      /\ \/ LastTs(p) = since[p]
         \/ \E b \in Batch(p) \cap Output : LastTs(p) = log[b].ts
  BY <1>1, <1>2, BatchFacts, LastFacts DEF OrderInv
<1>4. /\ \A i : Record(i)' = Record(i)
      /\ \A r : Lines(r, owed)' = Lines(r, owed) /\ \A q \in Ingestors : Lines(r, todo[q])' = Lines(r, todo'[q])
  BY <1>1 DEF Record, Micro, Lines
<1>5. ASSUME NEW r, r[2] # Blank
      PROVE  /\ Cardinality(Rows(r)') = Cardinality(Rows(r)) + Cardinality(Lines(r, Batch(p)))
             /\ Cardinality(Lines(r, todo[p])) = Cardinality(Lines(r, Batch(p))) + Cardinality(Lines(r, todo[p] \ Batch(p)))
             /\ Cardinality(Rows(r)) \in Nat /\ Cardinality(Lines(r, owed)) \in Nat
             /\ Cardinality(Lines(r, Batch(p))) \in Nat /\ Cardinality(Lines(r, todo[p] \ Batch(p))) \in Nat
             /\ \A q \in Ingestors : Cardinality(Lines(r, todo[q])) \in Nat
  <2>1. /\ Lines(r, todo[p]) = Lines(r, Batch(p)) \cup Lines(r, todo[p] \ Batch(p))
        /\ Lines(r, Batch(p)) \cap Lines(r, todo[p] \ Batch(p)) = {}
    BY <1>3 DEF Lines
  <2>2. /\ Lines(r, Batch(p)) \in SUBSET (1 .. Len(log)) /\ Lines(r, todo[p] \ Batch(p)) \in SUBSET (1 .. Len(log))
        /\ Len(log) \in Nat
    BY <1>2, <1>3, LogFacts DEF Lines
  <2>3. Cardinality(Lines(r, todo[p])) = Cardinality(Lines(r, Batch(p))) + Cardinality(Lines(r, todo[p] \ Batch(p)))
    BY <2>1, <2>2, Disjoint
  <2> QED
    BY <1>2, <1>5, <2>2, <2>3, CommitRows, Counts, Finite
<1>6. \A r : r[2] # Blank => Cardinality(Rows(r)) <= Cardinality(Rows(r)')
  <2> TAKE r
  <2> QED
    BY <1>5
<1>7. \A r : r[2] # Blank /\ Settled(r) => Settled(r)'
  BY <1>1, <1>2, <1>6, SettledStays
<1>8. \A i \in owed : Record(i)[2] # Blank
  BY <1>2, LogFacts
\* What is before the last source time of the batch has its rows.
<1>9. ASSUME NEW i \in owed, log[i].ts < LastTs(p) PROVE Settled(Record(i))'
  <2>1. CASE LastTs(p) = since[p]
    <3>1. Settled(Record(i))
      BY <1>1, <1>2, <1>9, <2>1 DEF CoverInv
    <3> QED
      BY <1>4, <1>7, <1>8, <3>1
  <2>2. CASE \E b \in Batch(p) \cap Output : LastTs(p) = log[b].ts
    <3>0. PICK b \in Batch(p) \cap Output : log[i].ts < log[b].ts
      BY <1>9, <2>2
    <3>1. Cardinality(Lines(Record(i), owed)) <= Cardinality(Rows(Record(i))) + Cardinality(Lines(Record(i), todo[p]))
      BY <1>1, <1>2, <1>3, <3>0 DEF CoverInv
    <3>2. Lines(Record(i), todo[p] \ Batch(p)) \cap Output = {}
      <4> SUFFICES ASSUME NEW j \in todo[p] \ Batch(p), j \in Output, Record(j) = Record(i) PROVE FALSE
        BY DEF Lines
      <4>1. i \in Output /\ b \in 1 .. Len(log) /\ j \in 1 .. Len(log) /\ i \in 1 .. Len(log) /\ DOMAIN log = 1 .. Len(log)
        BY <1>2, <1>3, LogFacts
      <4>2. log[j].ts = log[i].ts
        BY <1>2, <4>1, OneTime
      <4>3. b < j
        BY <1>3, <3>0
      <4>4. log[b].ts <= log[j].ts
        BY <4>1, <4>3 DEF OrderInv, LogInv
      <4>5. log[i].ts \in Nat /\ log[b].ts \in Nat
        BY <1>2, <4>1, LogFacts
      <4> QED
        BY <3>0, <4>2, <4>4, <4>5
    <3>3. Lines(Record(i), todo[p] \ Batch(p)) = {}
      <4> SUFFICES ASSUME NEW j \in todo[p] \ Batch(p), Record(j) = Record(i) PROVE FALSE
        BY DEF Lines
      <4>1. j \in StdOut
        BY CommitFacts
      <4>2. j \in Output
        BY <1>8, <4>1 DEF Output, Record
      <4> QED
        BY <3>2, <4>2 DEF Lines
    <3>4. Cardinality(Lines(Record(i), todo[p] \ Batch(p))) = 0
      BY <3>3, FS_EmptySet
    <3>5. PICK r : r = Record(i)
      OBVIOUS
    <3>6. /\ Cardinality(Rows(r)') = Cardinality(Rows(r)) + Cardinality(Lines(r, Batch(p)))
          /\ Cardinality(Lines(r, todo[p])) = Cardinality(Lines(r, Batch(p))) + Cardinality(Lines(r, todo[p] \ Batch(p)))
          /\ Cardinality(Lines(r, Batch(p))) \in Nat
      BY <1>5, <1>8, <3>5
    <3>7. Settled(r)'
      BY <1>4, <3>1, <3>4, <3>5, <3>6 DEF Settled
    <3> QED
      BY <1>4, <3>5, <3>7
  <2> QED
    BY <1>3, <2>1, <2>2
<1>10. PassedInv'
  <2> SUFFICES ASSUME NEW i \in owed, log[i].ts < cursor' \/ i < from PROVE Settled(Record(i))'
    BY <1>1, <1>4 DEF PassedInv
  <2>1. CASE log[i].ts < cursor \/ i < from
    <3>1. Settled(Record(i))
      BY <1>2, <2>1 DEF PassedInv
    <3> QED
      BY <1>4, <1>7, <1>8, <3>1
  <2>2. CASE log[i].ts < LastTs(p)
    BY <1>9, <2>2
  <2> QED
    BY <1>1, <2>1, <2>2
<1>11. CoverInv'
  <2> SUFFICES ASSUME NEW q \in Ingestors, NEW i \in owed, NEW r, r = Record(i)
               PROVE  /\ step'[q] # "idle" /\ log[i].ts < since'[q] => Settled(r)'
                      /\ step'[q] = "sift" =>
                           \/ Settled(r)'
                           \/ /\ since'[q] <= log[i].ts
                              /\ (\E b \in todo'[q] : log[i].ts < log[b].ts) => Lines(r, owed) \subseteq todo'[q]
                      /\ step'[q] \in {"store", "more"} /\ (\E b \in todo'[q] : log[i].ts < log[b].ts) =>
                           Cardinality(Lines(r, owed)) <= Cardinality(Rows(r)') + Cardinality(Lines(r, todo'[q]))
    BY <1>1, <1>4 DEF CoverInv
  <2>1. r[2] # Blank /\ (Settled(r) => Settled(r)')
    BY <1>7, <1>8
  <2>2. /\ Cardinality(Rows(r)') = Cardinality(Rows(r)) + Cardinality(Lines(r, Batch(p)))
        /\ Cardinality(Lines(r, todo[p])) = Cardinality(Lines(r, Batch(p))) + Cardinality(Lines(r, todo[p] \ Batch(p)))
        /\ Cardinality(Rows(r)) \in Nat /\ Cardinality(Lines(r, owed)) \in Nat
        /\ Cardinality(Lines(r, Batch(p))) \in Nat /\ Cardinality(Lines(r, todo[p] \ Batch(p))) \in Nat
        /\ \A d \in Ingestors : Cardinality(Lines(r, todo[d])) \in Nat
    BY <1>5, <2>1
  <2>3. CASE q = p
    <3>1. step'[q] # "sift"
      BY <1>1, <2>3
    <3>2. (\E b \in todo'[q] : log[i].ts < log[b].ts) => \E b \in todo[p] : log[i].ts < log[b].ts
      BY <1>1, <2>3
    <3>3. (\E b \in todo[p] : log[i].ts < log[b].ts) =>
             Cardinality(Lines(r, owed)) <= Cardinality(Rows(r)) + Cardinality(Lines(r, todo[p]))
      BY <1>1, <1>2 DEF CoverInv
    <3>4. Cardinality(Lines(r, todo'[q])) = Cardinality(Lines(r, todo[p] \ Batch(p)))
      BY <1>1, <2>3
    <3>5. Cardinality(Lines(r, owed)) <= Cardinality(Rows(r)) + Cardinality(Lines(r, todo[p])) =>
             Cardinality(Lines(r, owed)) <= Cardinality(Rows(r)') + Cardinality(Lines(r, todo'[q]))
      BY <2>2, <3>4
    <3>6. step'[q] # "idle" /\ log[i].ts < since'[q] => Settled(r)'
      BY <1>1, <1>4, <1>9, <2>3
    <3> QED
      BY <3>1, <3>2, <3>3, <3>5, <3>6
  <2>4. CASE q # p
    BY <1>1, <1>2, <2>1, <2>2, <2>4 DEF CoverInv
  <2> QED
    BY <2>3, <2>4
<1> QED
  BY <1>10, <1>11

LEMMA SkipNext == SkipInv /\ [Next]_vars => SkipInv'
<1> SUFFICES ASSUME OrderInv, CountInv, [Next]_vars PROVE OrderInv' /\ CountInv'
  BY DEF SkipInv, CountInv
<1>1. OrderInv' /\ TypeOK
  BY OrderNext DEF OrderInv
<1>2. \A r : Cardinality(Rows(r)) \in Nat
  BY <1>1, Counts
<1>3. CASE UNCHANGED vars
  <2>1. \A r : Rows(r)' = Rows(r)
    BY <1>3 DEF vars, Rows, Stored
  <2> QED
    BY <1>1, <1>2, <1>3, <2>1, OthersCount DEF vars
<1>4. CASE Tick
  <2>1. \A r : Rows(r)' = Rows(r)
    BY <1>4 DEF Tick, Rows, Stored
  <2> QED
    BY <1>1, <1>2, <1>4, <2>1, OthersCount DEF Tick, passVars, histVars
<1>5. CASE StoreLogLine
  <2>1. \A r : Cardinality(Rows(r)) <= Cardinality(Rows(r)')
    BY <1>1, <1>5, StreamRows
  <2> QED
    BY <1>1, <1>5, <2>1, OthersCount DEF StoreLogLine, passVars, histVars
<1>6. CASE Write \/ Recreate
  BY <1>1, <1>6, WriteCount, RecreateCount
<1>7. ASSUME NEW p \in Ingestors, Abort(p) PROVE CountInv'
  <2>1. \A r : Rows(r)' = Rows(r)
    BY <1>7 DEF Abort, Rows, Stored
  <2>2. \A q \in Ingestors : step'[q] = "idle" \/ UNCHANGED <<step[q], since[q], todo[q]>>
    BY <1>7 DEF Abort, OrderInv, TypeOK
  <2> QED
    BY <1>1, <1>2, <1>7, <2>1, <2>2, OthersCount DEF Abort, histVars
<1>8. CASE \E p \in Ingestors : Pass(p)
  BY <1>1, <1>7, <1>8, BeginCount, SiftedCount, CommitCount DEF Pass
<1> QED
  BY <1>1, <1>3, <1>4, <1>5, <1>6, <1>8 DEF Next

LEMMA SkipInvariant == Spec => []SkipInv
<1>1. Init => SkipInv
  <2>1. Init => PassedInv /\ CoverInv
    BY DEF Init, PassedInv, CoverInv
  <2> QED
    BY <2>1, InitOrder DEF SkipInv
<1> QED
  BY <1>1, SkipNext, PTL DEF Spec

\* For any processes, lines and sizes, whichever passes are cut short and however they
\* overlap: _ingest_single_service_logs never moves the cursor past a line it was given
\* and has not stored, as long as microseconds tell lines of the same text apart.
THEOREM NothingSkipped == Spec => []NoneSkipped
<1>1. SkipInv => NoneSkipped
  BY DEF SkipInv, PassedInv, NoneSkipped, Settled
<1> QED
  BY <1>1, SkipInvariant, PTL


(***************************************************************************)
(* What is stored is stored once.                                          *)
(***************************************************************************)

\* One pass at a time, which goes on from the cursor; what passes have stored of lines
\* that say something is not later than the cursor; and of each record of such lines they
\* have stored, and the pass has yet to store, no more than the lines there are.
Alone == \A p, q \in Ingestors : p # q => step[p] = "idle" \/ step[q] = "idle"

StoredBehind ==
  \A k \in DOMAIN db :
    db[k].source = "ingestor" /\ db[k].msg # Blank => cursor # 0 /\ db[k].at <= Micro(cursor)

GoesOn ==
  \A p \in Ingestors :
    /\ step[p] # "idle" => since[p] = cursor
    /\ \A i \in todo[p] : cursor <= log[i].ts

Once ==
  \A r : r[2] # Blank =>
    /\ Cardinality(Ingested(r)) <= Cardinality(Lines(r, Output))
    /\ \A p \in Ingestors : step[p] \in {"store", "more"} =>
         Cardinality(Ingested(r)) + Cardinality(Lines(r, todo[p])) <= Cardinality(Lines(r, Output))

UniqueInv == ~blurred => Alone /\ StoredBehind /\ GoesOn /\ Once

LEMMA OutputCounts ==
  ASSUME TypeOK, NEW r
  PROVE  /\ Lines(r, Output) \in SUBSET (1 .. Len(log)) /\ Len(log) \in Nat
         /\ Cardinality(Lines(r, Output)) \in Nat /\ Cardinality(Ingested(r)) \in Nat
         /\ Cardinality(Ingested(r)) <= Cardinality(Rows(r))
<1>1. Lines(r, Output) \in SUBSET (1 .. Len(log)) /\ Len(log) \in Nat
  BY LogFacts DEF Lines
<1>2. Rows(r) \in SUBSET (1 .. Len(db)) /\ Ingested(r) \in SUBSET Rows(r) /\ Len(db) \in Nat
  BY RowFacts
<1> QED
  BY <1>1, <1>2, Finite, Monotone

\* Steps that add no line and no row of a pass, and begin no pass.
LEMMA OthersUnique ==
  ASSUME OrderInv, UniqueInv, UNCHANGED <<log, cursor, blurred>>,
         \A r : Cardinality(Ingested(r)') = Cardinality(Ingested(r)), StoredBehind => StoredBehind',
         \A q \in Ingestors : (step'[q] = "idle" /\ todo'[q] = {}) \/ UNCHANGED <<step[q], since[q], todo[q]>>
  PROVE  UniqueInv'
<1> SUFFICES ASSUME ~blurred PROVE Alone' /\ StoredBehind' /\ GoesOn' /\ Once'
  BY DEF UniqueInv
<1>1. Alone /\ StoredBehind /\ GoesOn /\ Once
  BY DEF UniqueInv
<1>2. Alone' /\ StoredBehind'
  BY <1>1 DEF Alone
<1>3. GoesOn'
  BY <1>1 DEF GoesOn
<1>4. Once'
  <2>1. \A r : Lines(r, Output)' = Lines(r, Output) /\ \A q \in Ingestors : Lines(r, todo[q])' = Lines(r, todo'[q])
    BY DEF Lines, Output, StdOut, Record, Micro
  <2> QED
    BY <1>1, <2>1 DEF Once
<1> QED
  BY <1>2, <1>3, <1>4

LEMMA WriteUnique == OrderInv /\ OrderInv' /\ UniqueInv /\ Write => UniqueInv'
<1> SUFFICES ASSUME OrderInv, OrderInv', UniqueInv, Write, ~blurred' PROVE Alone' /\ StoredBehind' /\ GoesOn' /\ Once'
  BY DEF UniqueInv
<1>1. /\ Len(log)' = Len(log) + 1 /\ DOMAIN log' = 1 .. Len(log) + 1
      /\ \A i \in 1 .. Len(log) : log'[i] = log[i]
      /\ UNCHANGED <<clock, from, db, cursor, step, since, todo, first, owed, blurred>>
  BY WriteFacts DEF OrderInv
<1>2. /\ Len(log) \in Nat /\ DOMAIN log = 1 .. Len(log)
      /\ \A p \in Ingestors : todo[p] \in SUBSET (1 .. Len(log))
  BY LogFacts DEF OrderInv
<1>3. Alone /\ StoredBehind /\ GoesOn /\ Once
  BY <1>1, Zenon DEF UniqueInv
<1>4. Alone' /\ StoredBehind'
  BY <1>1, <1>3 DEF Alone, StoredBehind, Micro
<1>5. GoesOn'
  <2>1. \A q \in Ingestors : \A i \in todo[q] : log'[i] = log[i]
    BY <1>1, <1>2
  <2> QED
    BY <1>1, <1>3, <2>1 DEF GoesOn
<1>6. Output \in SUBSET Output' /\ Output' \in SUBSET (1 .. Len(log) + 1) /\ Len(log) + 1 \in Nat
  <2>1. 1 .. Len(log) \in SUBSET (1 .. Len(log) + 1)
    BY <1>2
  <2> QED
    BY <1>1, <1>2, <2>1 DEF Output, StdOut
<1>7. \A i \in 1 .. Len(log) : Record(i)' = Record(i)
  BY <1>1 DEF Record, Micro
<1>8. \A r : Lines(r, Output) \in SUBSET Lines(r, Output)' /\ Lines(r, Output)' \in SUBSET (1 .. Len(log) + 1)
  <2>1. Output \in SUBSET (1 .. Len(log))
    BY <1>2 DEF Output, StdOut
  <2> QED
    BY <1>6, <1>7, <2>1 DEF Lines
<1>9. \A r : \A q \in Ingestors : Lines(r, todo[q])' = Lines(r, todo[q])
  BY <1>1, <1>2, <1>7 DEF Lines
<1>10. \A r : Ingested(r)' = Ingested(r)
  BY <1>1 DEF Ingested, Rows, Stored
<1>11. \A r : /\ Cardinality(Lines(r, Output)) <= Cardinality(Lines(r, Output)')
              /\ Cardinality(Lines(r, Output)) \in Nat /\ Cardinality(Lines(r, Output)') \in Nat
              /\ Cardinality(Ingested(r)) \in Nat /\ \A q \in Ingestors : Cardinality(Lines(r, todo[q])) \in Nat
  BY <1>6, <1>8, Monotone, OutputCounts, Counts DEF OrderInv
<1>12. Once'
  <2> SUFFICES ASSUME NEW r, r[2] # Blank
               PROVE  /\ Cardinality(Ingested(r)') <= Cardinality(Lines(r, Output)')
                      /\ \A q \in Ingestors : step[q] \in {"store", "more"} =>
                           Cardinality(Ingested(r)') + Cardinality(Lines(r, todo[q])') <= Cardinality(Lines(r, Output)')
    BY <1>1 DEF Once
  <2>1. Cardinality(Ingested(r)) <= Cardinality(Lines(r, Output))
    BY <1>3 DEF Once
  <2>2. \A q \in Ingestors : step[q] \in {"store", "more"} =>
          Cardinality(Ingested(r)) + Cardinality(Lines(r, todo[q])) <= Cardinality(Lines(r, Output))
    BY <1>3 DEF Once
  <2>3. Ingested(r)' = Ingested(r) /\ \A q \in Ingestors : Lines(r, todo[q])' = Lines(r, todo[q])
    BY <1>9, <1>10
  <2>4. /\ Cardinality(Lines(r, Output)) <= Cardinality(Lines(r, Output)')
        /\ Cardinality(Lines(r, Output)) \in Nat /\ Cardinality(Lines(r, Output)') \in Nat
        /\ Cardinality(Ingested(r)) \in Nat /\ \A q \in Ingestors : Cardinality(Lines(r, todo[q])) \in Nat
    BY <1>11
  <2> QED
    BY <2>1, <2>2, <2>3, <2>4
<1> QED
  BY <1>4, <1>5, <1>12

LEMMA BeginUnique == ASSUME NEW p \in Ingestors PROVE OrderInv /\ UniqueInv /\ Begin(p) => UniqueInv'
<1> SUFFICES ASSUME OrderInv, UniqueInv, Begin(p), ~blurred' PROVE Alone' /\ StoredBehind' /\ GoesOn' /\ Once'
  BY DEF UniqueInv
<1>1. ~blurred /\ \A q \in Ingestors : step[q] = "idle"
  BY Zenon DEF Begin
<1>2. Alone /\ StoredBehind /\ GoesOn /\ Once
  BY <1>1 DEF UniqueInv
<1>3. /\ step'[p] = "sift" /\ since'[p] = cursor /\ todo'[p] = DockerLogs
      /\ \A q \in Ingestors \ {p} : step'[q] = "idle" /\ todo'[q] = {}
      /\ UNCHANGED <<clock, log, from, db, cursor>>
  BY <1>1 DEF Begin, OrderInv, TypeOK, PassInv
<1>4. Alone' /\ StoredBehind'
  BY <1>2, <1>3 DEF Alone, StoredBehind, Micro
<1>5. \A i \in DockerLogs : cursor <= log[i].ts
  <2>1. \A i \in DockerLogs : log[i].ts \in Nat
    BY LogFacts, TailFacts DEF OrderInv
  <2> QED
    BY <2>1 DEF DockerLogs, OrderInv, TypeOK
<1>6. GoesOn'
  BY <1>3, <1>5 DEF GoesOn
<1>7. Once'
  <2>1. \A r : Ingested(r)' = Ingested(r) /\ Lines(r, Output)' = Lines(r, Output)
    BY <1>3 DEF Ingested, Rows, Stored, Lines, Output, StdOut, Record, Micro
  <2>2. \A q \in Ingestors : ~(step'[q] \in {"store", "more"})
    BY <1>3
  <2>3. \A r : r[2] # Blank => Cardinality(Ingested(r)) <= Cardinality(Lines(r, Output))
    BY <1>2 DEF Once
  <2> QED
    BY <2>1, <2>2, <2>3 DEF Once
<1> QED
  BY <1>4, <1>6, <1>7

LEMMA SiftedUnique == ASSUME NEW p \in Ingestors PROVE OrderInv /\ UniqueInv /\ Sifted(p) => UniqueInv'
<1> SUFFICES ASSUME OrderInv, UniqueInv, Sifted(p), ~blurred' PROVE Alone' /\ StoredBehind' /\ GoesOn' /\ Once'
  BY DEF UniqueInv
<1>1. /\ ~blurred
      /\ since[p] # 0 => \A i \in AtCursor(p) : Rows(Record(i)) \subseteq Newest
  BY Zenon DEF Sifted
<1>2. Alone /\ StoredBehind /\ GoesOn /\ Once /\ TypeOK
  BY <1>1 DEF UniqueInv, OrderInv
<1>3. /\ UNCHANGED <<log, db, cursor>> /\ (since'[p] = cursor \/ Fresh(p) = {}) /\ step[p] = "sift" /\ since[p] = cursor
      /\ step'[p] = (IF Fresh(p) = {} THEN "idle" ELSE "store") /\ todo'[p] = Fresh(p)
      /\ \A q \in Ingestors \ {p} : step'[q] = "idle" /\ todo'[q] = {}
  <2>1. step[p] = "sift" /\ \A q \in Ingestors \ {p} : step[q] = "idle"
    BY <1>2 DEF Sifted, Alone
  <2> QED
    BY <1>2, <2>1 DEF Sifted, OrderInv, TypeOK, PassInv, GoesOn
<1>4. Fresh(p) \in SUBSET todo[p] /\ Fresh(p) \in SUBSET StdOut
  BY <1>2, FreshFacts
<1>5. Alone' /\ StoredBehind'
  BY <1>2, <1>3 DEF Alone, StoredBehind, Micro
<1>6. GoesOn'
  BY <1>2, <1>3, <1>4 DEF GoesOn
<1>7. ASSUME NEW r, r[2] # Blank
      PROVE  Cardinality(Ingested(r)) + Cardinality(Lines(r, Fresh(p))) <= Cardinality(Lines(r, Output))
  <2>1. /\ Cardinality(Lines(r, Output)) \in Nat /\ Cardinality(Ingested(r)) \in Nat
        /\ Cardinality(Ingested(r)) <= Cardinality(Rows(r)) /\ Cardinality(Ingested(r)) <= Cardinality(Lines(r, Output))
        /\ Lines(r, Output) \in SUBSET (1 .. Len(log)) /\ Len(log) \in Nat /\ Cardinality(Rows(r)) \in Nat
    BY <1>2, <1>7, OutputCounts, Counts DEF Once
  <2>2. /\ Lines(r, Fresh(p)) \in SUBSET Lines(r, Output) /\ Lines(r, Printed(p)) \in SUBSET Lines(r, Output)
        /\ Cardinality(Lines(r, Fresh(p))) \in Nat
        /\ Cardinality(Lines(r, Fresh(p))) <= Cardinality(Lines(r, Output))
    <3>0. \A i \in StdOut : Record(i) = r => i \in Output
      BY <1>7 DEF Output, Record
    <3>1. Lines(r, Fresh(p)) \in SUBSET Lines(r, Output)
      BY <1>4, <3>0 DEF Lines
    <3>3. Lines(r, Printed(p)) \in SUBSET Lines(r, Output)
      BY <3>0 DEF Lines, Printed
    <3> QED
      BY <2>1, <3>1, <3>3, Monotone
  <2>3. CASE Lines(r, Fresh(p)) = {}
    BY <2>1, <2>3, FS_EmptySet
  <2>4. CASE Ingested(r) = {}
    BY <2>2, <2>4, FS_EmptySet
  <2>5. CASE Lines(r, Fresh(p)) # {} /\ Ingested(r) # {}
    <3>1. PICK i \in Fresh(p) : Record(i) = r
      BY <2>5 DEF Lines
    <3>2. PICK k \in Rows(r) : db[k].source = "ingestor"
      BY <2>5 DEF Ingested
    <3>3. i \in todo[p] /\ log[i].ts \in Nat /\ r[1] = Micro(log[i].ts) /\ Micro(cursor) <= r[1]
      <4>1. i \in todo[p] /\ log[i].ts \in Nat
        BY <1>2, <1>4, LogFacts
      <4>2. cursor <= log[i].ts /\ cursor \in Nat
        BY <1>2, <4>1 DEF GoesOn, TypeOK
      <4>3. r[1] = Micro(log[i].ts)
        BY <3>1 DEF Record
      <4> QED
        BY <4>1, <4>2, <4>3, MicroOrder
    <3>4. \A l \in Rows(r) : db[l].at = r[1]
      BY DEF Rows, Stored
    <3>5. cursor # 0 /\ r[1] = Micro(cursor)
      <4>1. cursor # 0 /\ r[1] <= Micro(cursor)
        <5>1. db[k].msg # Blank /\ k \in DOMAIN db
          BY <1>7 DEF Rows, Stored
        <5> QED
          BY <1>2, <3>2, <3>4, <5>1 DEF StoredBehind
      <4>2. Micro(cursor) \in Nat /\ r[1] \in Nat
        BY <1>2, <3>3, MicroType DEF TypeOK
      <4> QED
        BY <3>3, <4>1, <4>2
    <3>6. Rows(r) \cap Boundary(p) = Rows(r)
      <4>1. Rows(r) \subseteq Newest
        <5>1. i \in Output
          BY <1>4, <1>7, <3>1 DEF Output, Record
        <5>2. i \in AtCursor(p)
          BY <1>3, <3>1, <3>3, <3>5, <5>1 DEF AtCursor
        <5> QED
          BY <1>1, <1>3, <3>1, <3>5, <5>2
      <4>2. Micro(cursor) \in Nat
        BY <1>2, MicroType DEF TypeOK
      <4>3. \A l \in Rows(r) : l \in Boundary(p)
        BY <1>3, <3>4, <3>5, <4>1, <4>2 DEF Boundary
      <4> QED
        BY <4>3
    <3> DEFINE L == Lines(r, Printed(p))
               c == Cardinality(Rows(r))
               low == {j \in L : Rank(j, L) <= c}
               high == {j \in L : Rank(j, L) > c}
    <3>7. Lines(r, Fresh(p)) = high
      BY <1>3, <1>7, <3>5, <3>6, FreshLines
    <3>8. L \in SUBSET (1 .. Len(log))
      BY <2>1, <2>2
    <3>9. i \in L /\ Rank(i, L) > c
      BY <3>1, <3>7 DEF Lines
    <3>10. Cardinality(low) >= c
      BY <2>1, <3>8, <3>9, FirstPlacesTaken
    <3>11. Cardinality(L) = Cardinality(low) + Cardinality(high) /\ Cardinality(low) \in Nat /\ Cardinality(high) \in Nat
      BY <2>1, <3>8, ByPlace
    <3>12. Cardinality(L) <= Cardinality(Lines(r, Output))
      BY <2>1, <2>2, Monotone
    <3> HIDE DEF L, low, high
    <3> QED
      BY <2>1, <3>7, <3>10, <3>11, <3>12
  <2> QED
    BY <2>3, <2>4, <2>5
<1>8. Once'
  <2>1. \A r : /\ Ingested(r)' = Ingested(r) /\ Lines(r, Output)' = Lines(r, Output)
               /\ Lines(r, todo[p])' = Lines(r, Fresh(p))
    BY <1>3 DEF Ingested, Rows, Stored, Lines, Output, StdOut, Record, Micro
  <2>2. \A q \in Ingestors : step'[q] \in {"store", "more"} => q = p
    BY <1>3
  <2>3. \A r : r[2] # Blank => Cardinality(Ingested(r)) <= Cardinality(Lines(r, Output))
    BY <1>2 DEF Once
  <2> QED
    BY <1>7, <2>1, <2>2, <2>3 DEF Once
<1> QED
  BY <1>5, <1>6, <1>8

LEMMA CommitUnique == ASSUME NEW p \in Ingestors PROVE OrderInv /\ UniqueInv /\ Commit(p) => UniqueInv'
<1> SUFFICES ASSUME OrderInv, UniqueInv, Commit(p), ~blurred' PROVE Alone' /\ StoredBehind' /\ GoesOn' /\ Once'
  BY DEF UniqueInv
<1>1. /\ todo[p] # {} /\ step[p] \in {"store", "more"} /\ (cursor' = 0 => LastTs(p) = 0)
      /\ todo'[p] = todo[p] \ Batch(p)
      /\ step'[p] = IF todo[p] = Batch(p) THEN "idle" ELSE "more"
      /\ since'[p] = IF todo[p] = Batch(p) THEN 0 ELSE LastTs(p)
      /\ \A q \in Ingestors \ {p} : step'[q] = step[q] /\ todo'[q] = todo[q]
      /\ UNCHANGED <<clock, log, from, first, owed, blurred>>
  BY CommitFacts
<1>2. ~blurred
  BY <1>1, Zenon
<1>3. Alone /\ StoredBehind /\ GoesOn /\ Once /\ TypeOK
  BY <1>2 DEF UniqueInv, OrderInv
<1>4. \A q \in Ingestors \ {p} : step'[q] = "idle" /\ todo'[q] = {}
  <2>1. \A q \in Ingestors \ {p} : step[q] = "idle"
    BY <1>1, <1>3 DEF Alone
  <2> QED
    BY <1>1, <2>1 DEF OrderInv, PassInv
<1>5. /\ Batch(p) \in SUBSET todo[p] /\ Batch(p) \in SUBSET (1 .. Len(log))
      /\ \A i \in Batch(p), j \in todo[p] \ Batch(p) : i < j
      /\ LastTs(p) \in Nat
      /\ LastTs(p) = since[p] \/ \E b \in Batch(p) \cap Output : LastTs(p) = log[b].ts /\ log[b].ts > 0
      /\ \A i \in Batch(p) \cap Output : log[i].ts <= LastTs(p)
  BY <1>1, <1>3, BatchFacts, LastFacts DEF OrderInv
<1>6. /\ \A i \in 1 .. Len(log) : log[i].ts \in Nat /\ log[i].ts > 0
      /\ DOMAIN log = 1 .. Len(log) /\ todo[p] \in SUBSET (1 .. Len(log)) /\ Len(log) \in Nat
      /\ \A i, j \in 1 .. Len(log) : i < j => log[i].ts <= log[j].ts
  BY <1>3, LogFacts DEF OrderInv, LogInv
<1>7. cursor \in Nat /\ cursor <= LastTs(p) /\ cursor' = LastTs(p)
  <2>1. since[p] = cursor /\ cursor \in Nat
    BY <1>1, <1>3 DEF GoesOn, TypeOK
  <2>2. cursor <= LastTs(p)
    BY <1>3, <1>5, <2>1 DEF GoesOn
  <2>3. cursor' = IF LastTs(p) = 0 \/ (step[p] = "store" /\ LastTs(p) = since[p]) THEN cursor ELSE LastTs(p)
    BY DEF Commit, Moved
  <2> QED
    BY <1>5, <2>1, <2>2, <2>3
<1>8. Alone'
  BY <1>4 DEF Alone
<1>9. StoredBehind'
  <2> SUFFICES ASSUME NEW k \in DOMAIN db', db'[k].source = "ingestor", db'[k].msg # Blank
               PROVE  LastTs(p) # 0 /\ db'[k].at <= Micro(LastTs(p))
    BY <1>7 DEF StoredBehind, Micro
  <2>1. CASE k \in DOMAIN db /\ db'[k] = db[k]
    <3>1. db[k].at \in Nat /\ db[k].at <= Micro(cursor) /\ cursor # 0
      BY <1>3, <2>1, RowFacts DEF StoredBehind
    <3>2. Micro(cursor) <= Micro(LastTs(p)) /\ Micro(cursor) \in Nat /\ Micro(LastTs(p)) \in Nat
      BY <1>5, <1>7, MicroOrder, MicroType
    <3> QED
      BY <1>5, <1>7, <2>1, <3>1, <3>2
  <2>2. CASE \E i \in Batch(p) : db'[k] = Row(i)
    <3>1. PICK i \in Batch(p) : db'[k] = Row(i)
      BY <2>2
    <3>2. db'[k].msg = log[i].msg
      BY <3>1 DEF Row
    <3>3. db'[k].at = Micro(log[i].ts)
      BY <3>1, <3>2 DEF Row
    <3>4. i \in Output
      BY <3>2, CommitFacts, <1>5 DEF Output
    <3>5. log[i].ts <= LastTs(p) /\ log[i].ts \in Nat /\ log[i].ts > 0
      BY <1>5, <1>6, <3>4
    <3> QED
      BY <1>5, <3>3, <3>5, MicroOrder
  <2> QED
    BY <2>1, <2>2, CommitRows
<1>10. GoesOn'
  <2>1. \A j \in todo[p] \ Batch(p) : LastTs(p) <= log[j].ts
    <3> TAKE j \in todo[p] \ Batch(p)
    <3>1. since[p] = cursor /\ cursor <= log[j].ts
      BY <1>1, <1>3 DEF GoesOn
    <3>2. \A b \in Batch(p) : log[b].ts <= log[j].ts
      BY <1>5, <1>6
    <3> QED
      BY <1>5, <3>1, <3>2
  <2> QED
    BY <1>1, <1>4, <1>7, <2>1 DEF GoesOn
<1>11. Once'
  <2> SUFFICES ASSUME NEW r, r[2] # Blank
               PROVE  /\ Cardinality(Ingested(r)') <= Cardinality(Lines(r, Output))
                      /\ Cardinality(Ingested(r)') + Cardinality(Lines(r, todo[p] \ Batch(p))) <= Cardinality(Lines(r, Output))
    <3>1. \A r : Lines(r, Output)' = Lines(r, Output) /\ Lines(r, todo[p])' = Lines(r, todo[p] \ Batch(p))
      BY <1>1 DEF Lines, Output, StdOut, Record, Micro
    <3>2. \A q \in Ingestors : step'[q] \in {"store", "more"} => q = p
      BY <1>4
    <3> QED
      BY <3>1, <3>2 DEF Once
  <2>1. Cardinality(Ingested(r)') = Cardinality(Ingested(r)) + Cardinality(Lines(r, Batch(p)))
    BY CommitRows
  <2>2. Cardinality(Ingested(r)) + Cardinality(Lines(r, todo[p])) <= Cardinality(Lines(r, Output))
    BY <1>1, <1>3 DEF Once
  <2>3. Cardinality(Lines(r, todo[p])) = Cardinality(Lines(r, Batch(p))) + Cardinality(Lines(r, todo[p] \ Batch(p)))
    <3>1. /\ Lines(r, todo[p]) = Lines(r, Batch(p)) \cup Lines(r, todo[p] \ Batch(p))
          /\ Lines(r, Batch(p)) \cap Lines(r, todo[p] \ Batch(p)) = {}
      BY <1>5 DEF Lines
    <3>2. /\ Lines(r, Batch(p)) \in SUBSET (1 .. Len(log)) /\ Lines(r, todo[p] \ Batch(p)) \in SUBSET (1 .. Len(log))
          /\ Len(log) \in Nat
      BY <1>5, <1>6 DEF Lines
    <3> QED
      BY <3>1, <3>2, Disjoint
  <2>4. /\ Cardinality(Lines(r, Batch(p))) \in Nat /\ Cardinality(Lines(r, todo[p] \ Batch(p))) \in Nat
        /\ Cardinality(Ingested(r)) \in Nat /\ Cardinality(Lines(r, Output)) \in Nat
    <3>1. Lines(r, Batch(p)) \in SUBSET (1 .. Len(log)) /\ Lines(r, todo[p] \ Batch(p)) \in SUBSET (1 .. Len(log))
      BY <1>5, <1>6 DEF Lines
    <3> QED
      BY <1>3, <1>6, <3>1, Finite, OutputCounts
  <2> QED
    BY <2>1, <2>2, <2>3, <2>4
<1> QED
  BY <1>8, <1>9, <1>10, <1>11

LEMMA UniqueNext == OrderInv /\ UniqueInv /\ [Next]_vars => UniqueInv'
<1> SUFFICES ASSUME OrderInv, UniqueInv, [Next]_vars PROVE UniqueInv'
  OBVIOUS
<1>1. OrderInv' /\ TypeOK
  BY OrderNext DEF OrderInv
<1>2. CASE UNCHANGED vars
  <2>1. \A r : Ingested(r)' = Ingested(r)
    BY <1>2 DEF vars, Ingested, Rows, Stored
  <2>2. StoredBehind => StoredBehind'
    BY <1>2 DEF vars, StoredBehind, Micro
  <2> QED
    BY <1>2, <2>1, <2>2, OthersUnique DEF vars
<1>3. CASE Tick \/ Recreate
  <2>1. UNCHANGED <<log, db, cursor, step, since, todo, blurred>>
    BY <1>3 DEF Tick, Recreate, passVars, histVars
  <2>2. \A r : Ingested(r)' = Ingested(r)
    BY <2>1 DEF Ingested, Rows, Stored
  <2>3. StoredBehind => StoredBehind'
    BY <2>1 DEF StoredBehind, Micro
  <2> QED
    BY <2>1, <2>2, <2>3, OthersUnique
<1>4. CASE StoreLogLine
  <2>1. \A r : Cardinality(Ingested(r)') = Cardinality(Ingested(r))
    BY <1>1, <1>4, StreamRows
  <2>2. StoredBehind => StoredBehind'
    <3>1. \A k \in DOMAIN db' : (k \in DOMAIN db /\ db'[k] = db[k]) \/ db'[k].source = "stream"
      <4>1. PICK i \in from .. Len(log) :
              db' = Append(db, [at |-> Micro(clock), msg |-> log[i].msg, source |-> "stream"])
        BY <1>4 DEF StoreLogLine
      <4> QED
        BY <1>1, <4>1 DEF TypeOK
    <3> QED
      BY <1>4, <3>1 DEF StoredBehind, StoreLogLine, Micro
  <2> QED
    BY <1>4, <2>1, <2>2, OthersUnique DEF StoreLogLine, passVars, histVars
<1>5. CASE Write
  BY <1>1, <1>5, WriteUnique
<1>6. ASSUME NEW p \in Ingestors, Abort(p) PROVE UniqueInv'
  <2>1. \A r : Ingested(r)' = Ingested(r)
    BY <1>6 DEF Abort, Ingested, Rows, Stored
  <2>2. StoredBehind => StoredBehind'
    BY <1>6 DEF Abort, StoredBehind, Micro
  <2>3. \A q \in Ingestors : (step'[q] = "idle" /\ todo'[q] = {}) \/ UNCHANGED <<step[q], since[q], todo[q]>>
    BY <1>6 DEF Abort, OrderInv, TypeOK
  <2> QED
    BY <1>6, <2>1, <2>2, <2>3, OthersUnique DEF Abort, histVars
<1>7. CASE \E p \in Ingestors : Pass(p)
  BY <1>6, <1>7, BeginUnique, SiftedUnique, CommitUnique DEF Pass
<1> QED
  BY <1>2, <1>3, <1>4, <1>5, <1>7 DEF Next

\* For any processes, lines and sizes, wherever a pass is cut short: as long as no two of
\* them overlap and the window shows each the rows of its cursor's time,
\* _ingest_single_service_logs stores no line that says something more often than stdout
\* has it, however far the empty lines at the end of a pass leave the cursor behind.
THEOREM StoredOnce == Spec => []NoDuplicates
<1>1. Init => OrderInv /\ UniqueInv
  <2> SUFFICES ASSUME Init PROVE UniqueInv
    BY InitOrder
  <2>1. TypeOK /\ Len(log) = 0 /\ db = <<>>
    BY InitOrder DEF Init, OrderInv
  <2>2. Alone /\ StoredBehind /\ GoesOn
    BY DEF Init, Alone, StoredBehind, GoesOn
  <2>3. \A r : Ingested(r) = {}
    BY DEF Init, Ingested, Rows
  <2>4. \A r : Cardinality(Ingested(r)) = 0
    BY <2>3, FS_EmptySet
  <2>5. \A p \in Ingestors : ~(step[p] \in {"store", "more"})
    BY DEF Init
  <2>6. Once
    BY <2>1, <2>4, <2>5, OutputCounts DEF Once
  <2> QED
    BY <2>2, <2>6 DEF UniqueInv
<1>2. (OrderInv /\ UniqueInv) /\ [Next]_vars => (OrderInv /\ UniqueInv)'
  BY OrderNext, UniqueNext
<1>3. OrderInv /\ UniqueInv => NoDuplicates
  BY DEF UniqueInv, Once, NoDuplicates, Stored
<1> QED
  BY <1>1, <1>2, <1>3, PTL DEF Spec
=============================================================================
