---------------------------- MODULE PulpDb_proofs ---------------------------
(***************************************************************************)
(* Proofs about PulpDb, for any fields, values, messages, number of        *)
(* messages and of tables, size of a clump and of a chunk.                 *)
(***************************************************************************)
EXTENDS PulpDb, DataLemmas, FiniteSetTheorems, SequenceTheorems

-----------------------------------------------------------------------------
\* What is claimed of the references of a key

Buffers == [key : Tokens, refs : Seq(Nat)]
Tables == [field : Fields, buffers : Seq(Buffers), room : Nat]

Place == 0 .. Len(messages) - 1
Placed(refs) == refs \in Seq(Nat) /\ \A i \in DOMAIN refs : refs[i] < Len(messages)
Sorted(refs) == \A i, j \in DOMAIN refs : i < j => refs[i] <= refs[j]

RefsOf(t, key) == IF BufferOf(t, key) > 0 THEN t.buffers[BufferOf(t, key)].refs ELSE <<>>
Held(f, key) == IF Known(f) THEN RefsOf(objects[key_tables[f]], key) ELSE <<>>

Counted(refs, f, key, i) ==
  \/ Given(refs, i) = Asked(i, f, key)
  \/ i \in raised /\ Given(refs, i) < Asked(i, f, key)
Exact(refs, f, key) == Placed(refs) /\ Sorted(refs) /\ \A i \in DOMAIN messages : Counted(refs, f, key, i)

\* How often the append in progress has filed its message so far
FiledSoFar(key) == Cardinality({j \in 1 .. filed : Values[j] = key})

InProgress(refs, f, key) ==
  \A i \in DOMAIN messages :
    IF i = Len(messages) /\ f \in adding THEN Given(refs, i) = 0
    ELSE IF i = Len(messages) /\ f = filing THEN Given(refs, i) = FiledSoFar(key)
    ELSE Counted(refs, f, key, i)

-----------------------------------------------------------------------------
\* The invariant

Master ==
  /\ phase \in {"w", "closing", "flushed", "closed", "dead"}
  /\ messages \in Seq(Messages) /\ raised \subseteq DOMAIN messages
  /\ stored \in 0 .. Len(messages) /\ Len(messages) - stored < Clump
  /\ phase \in {"flushed", "closed"} => stored = Len(messages) /\ objects = <<>>

Appending ==
  /\ adding \subseteq Fields /\ filing \in Fields \cup {None} /\ filed \in Nat
  /\ adding # {} => messages # <<>> /\ adding \subseteq DOMAIN messages[Len(messages)].index
  /\ filing # None =>
       /\ messages # <<>> /\ filing \in DOMAIN messages[Len(messages)].index \ adding
       /\ filing \in DOMAIN key_tables /\ filed <= Len(Values)

Table1(t) ==
  /\ Len(t.buffers) <= t.room
  /\ IF t.buffers = <<>> THEN t.room = 0 ELSE \E e \in 0 .. t.room : t.room = Power[e]
  /\ \A i \in DOMAIN t.buffers : t.buffers[i].refs # <<>> /\ Placed(t.buffers[i].refs)
  /\ \A i, j \in DOMAIN t.buffers : t.buffers[i].key = t.buffers[j].key => i = j

Stack ==
  /\ objects \in Seq(Tables)
  /\ \A o \in DOMAIN objects : Table1(objects[o])
  /\ DOMAIN key_tables \subseteq Fields /\ key_tables \in [DOMAIN key_tables -> Nat]
  /\ \A o \in DOMAIN objects : objects[o].buffers # <<>> =>
       objects[o].field \in DOMAIN key_tables /\ key_tables[objects[o].field] = o
  /\ phase = "w" => \A f \in DOMAIN key_tables :
       key_tables[f] \in DOMAIN objects /\ objects[key_tables[f]].field = f

Counts ==
  /\ phase = "w" => \A f \in Fields : \A key \in Tokens :
       Placed(Held(f, key)) /\ Sorted(Held(f, key)) /\ InProgress(Held(f, key), f, key)
  /\ phase = "closing" => \A o \in DOMAIN objects : objects[o].buffers # <<>> =>
       \A key \in Tokens : Exact(RefsOf(objects[o], key), objects[o].field, key)

Streams1(streams) == streams \in Seq(Seq(Nat)) /\ \A n \in DOMAIN streams : Placed(streams[n])
StreamOf(files, key) == IF key \in DOMAIN files.ttrie THEN files.cpref[files.ttrie[key]] ELSE <<>>

Disk(d) ==
  DOMAIN d = Fields /\ \A f \in Fields : DOMAIN d[f] = {"meta", "dpref", "cpref", "ttrie"}

Stored ==
  /\ Disk(disk)
  /\ phase = "w" => \A f \in Fields : disk[f].ttrie = None
  /\ \A f \in Fields : disk[f].ttrie # None => Streams1(disk[f].cpref)
  /\ \A f \in Fields : disk[f].ttrie \notin {None, Begun} =>
       \A key \in Tokens : Exact(StreamOf(disk[f], key), f, key)
  /\ \A f \in Fields : disk[f].meta # None =>
       disk[f].ttrie # None \/ \E o \in DOMAIN objects : objects[o].field = f
  /\ phase = "closing" => \A o \in DOMAIN objects : objects[o].buffers # <<>> =>
       \/ disk[objects[o].field].ttrie = None
       \/ o = Closed /\ converting.step = "write" /\ disk[objects[o].field].ttrie = Begun

Converted(key) ==
  /\ converting.trie[key] \in DOMAIN Files.cpref
  /\ Files.cpref[converting.trie[key]] = RefsOf(Table, key)
Begins(part, refs) == Len(part) < Len(refs) /\ \A i \in DOMAIN part : part[i] = refs[i]

Conversion ==
  /\ phase = "w" => converting.step = "start"
  /\ phase = "closing" /\ objects # <<>> =>
       /\ converting.step \in {"flush", "next", "copy", "write"} =>
            /\ Table.buffers # <<>>
            /\ converting.left \subseteq Keys(Table)
            /\ converting.trie \in [Keys(Table) -> Nat]
            /\ converting = [step |-> converting.step, left |-> converting.left,
                             trie |-> converting.trie]
            /\ \A k \in converting.left : converting.trie[k] = BufferOf(Table, k)
       /\ converting.step = "flush" => converting.left = Keys(Table)
       /\ converting.step \in {"next", "copy"} =>
            Files.dpref = [i \in DOMAIN Table.buffers |-> Table.buffers[i].refs]
       /\ converting.step \in {"next", "copy", "write"} =>
            /\ Streams1(Files.cpref)
            /\ \A k \in Keys(Table) \ converting.left : Converted(k)
       /\ converting.step = "copy" =>
            /\ converting.left # {} /\ Files.cpref # <<>>
            /\ Begins(Files.cpref[Len(Files.cpref)], RefsOf(Table, NextKey))
            /\ \A k \in Keys(Table) \ converting.left : converting.trie[k] < Len(Files.cpref)
       /\ converting.step = "write" => converting.left = {}

Reading ==
  /\ reader \in {"none", "opening", "r", "exited"}
  /\ IF reader = "none" THEN opened = Nothing ELSE phase \in {"closed", "dead"}
  /\ DOMAIN opened \subseteq Fields
  /\ \A f \in DOMAIN opened : opened[f] = disk[f] /\ disk[f].ttrie # None
  /\ OpensOnceClosed

Answered ==
  /\ answer # None => reader = "r" /\ answer.op \in {"lookup", "msg"}
  /\ answer # None /\ answer.op = "lookup" =>
       /\ answer.field \in DOMAIN opened /\ answer.key \in Tokens
       /\ answer.refs \in Streams(opened[answer.field], answer.key)
  /\ answer # None /\ answer.op = "msg" =>
       answer.ref \in Place /\ answer.message = Read(answer.ref)

IInv == Master /\ Appending /\ Stack /\ Counts /\ Stored /\ Conversion /\ Reading /\ Answered

-----------------------------------------------------------------------------
\* Numbers

LEMMA PowerUnfolds ==
  /\ Power[0] = 1
  /\ \A e \in Nat : Power[e] \in Nat /\ Power[e + 1] = 2 * Power[e]
<1> DEFINE twice == [p \in Nat \X Nat |-> 2 * p[1]]
<1>1. Recursion(Nat, 1, twice)
  <2>1. twice \in [Nat \X Nat -> Nat] OBVIOUS
  <2>2. QED BY <2>1 DEF Recursion
<1>2. PICK g : Unfolds(g, Nat, 1, twice) BY <1>1, RecursionExists
<1>3. g \in [Nat -> Nat] /\ g[0] = 1 /\ \A n \in Nat : g[n + 1] = twice[<<g[n], n + 1>>]
  BY <1>2 DEF Unfolds
<1>4. \A n \in Nat : g[n + 1] = 2 * g[n]
  <2>1. SUFFICES ASSUME NEW n \in Nat PROVE g[n + 1] = 2 * g[n] OBVIOUS
  <2>2. <<g[n], n + 1>> \in Nat \X Nat BY <1>3
  <2>3. QED BY <1>3, <2>2
<1> HIDE DEF twice
<1> DEFINE Step(h, e) == IF e = 0 THEN 1 ELSE 2 * h[e - 1]
<1>5. g = [e \in Nat |-> Step(g, e)]
  <2>1. ASSUME NEW e \in Nat PROVE g[e] = Step(g, e)
    <3>1. CASE e = 0 BY <1>3, <3>1
    <3>2. CASE e # 0
      <4>1. e - 1 \in Nat BY <3>2
      <4>2. g[(e - 1) + 1] = 2 * g[e - 1] BY <1>4, <4>1
      <4>3. QED BY <3>2, <4>2
    <3>3. QED BY <3>1, <3>2
  <2>2. QED BY <1>3, <2>1
<1>6. Power = [e \in Nat |-> Step(Power, e)]
  <2>1. Power = CHOOSE h : h = [e \in Nat |-> Step(h, e)] BY DEF Power
  <2>2. QED BY <1>5, <2>1
<1>7. Power[0] = 1 BY <1>6
<1>8. ASSUME NEW e \in Nat PROVE Power[e + 1] = 2 * Power[e]
  <2>1. Power[e + 1] = Step(Power, e + 1) BY <1>6
  <2>2. QED BY <2>1
<1>9. Nat \subseteq {e \in Nat : Power[e] \in Nat}
  <2> DEFINE T == {e \in Nat : Power[e] \in Nat}
  <2>1. 0 \in T BY <1>7
  <2>2. \A n \in Nat : n \in T => n + 1 \in T BY <1>8
  <2> HIDE DEF T
  <2>3. Nat \subseteq T BY <2>1, <2>2, NatSetInduction
  <2>4. QED BY <2>3 DEF T
<1>10. QED BY <1>7, <1>8, <1>9

\* Powers are positive, and an exponent is below its power.
LEMMA PowerGrows == \A e \in Nat : Power[e] \in Nat /\ e < Power[e]
<1> DEFINE T == {e \in Nat : e < Power[e]}
<1>1. 0 \in T BY PowerUnfolds
<1>2. ASSUME NEW n \in Nat, n \in T PROVE n + 1 \in T
  <2>1. Power[n] \in Nat /\ n < Power[n] /\ Power[n + 1] = 2 * Power[n]
    BY <1>2, PowerUnfolds
  <2>2. QED BY <2>1
<1> HIDE DEF T
<1>3. Nat \subseteq T BY <1>1, <1>2, NatSetInduction
<1>4. QED BY <1>3, PowerUnfolds DEF T

\* Where a value comes among the first n of a sequence; how often.
Where(s, n, v) == {j \in 1 .. n : s[j] = v}

LEMMA WhereFinite ==
  ASSUME NEW s, NEW n \in Nat, NEW v
  PROVE  IsFiniteSet(Where(s, n, v)) /\ Cardinality(Where(s, n, v)) \in Nat
<1>1. IsFiniteSet(1 .. n) BY FS_Interval
<1>2. Where(s, n, v) \in SUBSET (1 .. n) BY DEF Where
<1>3. IsFiniteSet(Where(s, n, v)) BY <1>1, <1>2, FS_Subset
<1>4. QED BY <1>3, FS_CardinalityType

\* Nothing among none, and one more with the next if the next is the value.
LEMMA NoneOfNone ==
  ASSUME NEW s, NEW v
  PROVE  Cardinality(Where(s, 0, v)) = 0
<1>1. Where(s, 0, v) = {} BY DEF Where
<1>2. QED BY <1>1, FS_EmptySet

LEMMA OneMore ==
  ASSUME NEW s, NEW n \in Nat, NEW v
  PROVE  Cardinality(Where(s, n + 1, v)) =
           IF s[n + 1] = v THEN Cardinality(Where(s, n, v)) + 1 ELSE Cardinality(Where(s, n, v))
<1>1. IsFiniteSet(Where(s, n, v)) BY WhereFinite
<1>2. CASE s[n + 1] = v
  <2>1. Where(s, n + 1, v) = Where(s, n, v) \cup {n + 1} BY <1>2 DEF Where
  <2>2. n + 1 \notin Where(s, n, v) BY DEF Where
  <2>3. QED BY <1>1, <1>2, <2>1, <2>2, FS_AddElement
<1>3. CASE s[n + 1] # v
  <2>1. Where(s, n + 1, v) = Where(s, n, v) BY <1>3 DEF Where
  <2>2. QED BY <1>3, <2>1
<1>4. QED BY <1>2, <1>3

LEMMA NoMoreThanAll ==
  ASSUME NEW s, NEW n \in Nat, NEW m \in 0 .. n, NEW v
  PROVE  Cardinality(Where(s, m, v)) <= Cardinality(Where(s, n, v))
<1>1. IsFiniteSet(Where(s, n, v)) BY WhereFinite
<1>2. Where(s, m, v) \in SUBSET Where(s, n, v) BY DEF Where
<1>3. QED BY <1>1, <1>2, FS_Subset

\* Given and Asked are such counts.
LEMMA GivenIs ==
  ASSUME NEW refs \in Seq(Nat), NEW i \in Nat
  PROVE  /\ Given(refs, i) = Cardinality(Where(refs, Len(refs), i - 1))
         /\ Given(refs, i) \in Nat
<1>1. {j \in DOMAIN refs : refs[j] = i - 1} = Where(refs, Len(refs), i - 1) BY DEF Where
<1>2. Given(refs, i) = Cardinality(Where(refs, Len(refs), i - 1)) BY <1>1 DEF Given
<1>3. Len(refs) \in Nat OBVIOUS
<1>4. QED BY <1>2, <1>3, WhereFinite

LEMMA GivenOfNone ==
  ASSUME NEW i \in Nat
  PROVE  Given(<<>>, i) = 0
<1>1. {j \in DOMAIN <<>> : <<>>[j] = i - 1} = {} OBVIOUS
<1>2. QED BY <1>1, FS_EmptySet DEF Given

LEMMA GivenAppended ==
  ASSUME NEW refs \in Seq(Nat), NEW i \in Nat, NEW ref \in Nat
  PROVE  Given(Append(refs, ref), i) = IF ref = i - 1 THEN Given(refs, i) + 1 ELSE Given(refs, i)
<1> DEFINE more == Append(refs, ref)
<1>1. more \in Seq(Nat) /\ Len(more) = Len(refs) + 1 /\ more[Len(refs) + 1] = ref
      /\ \A j \in 1 .. Len(refs) : more[j] = refs[j]
  BY AppendIs
<1> HIDE DEF more
<1>2. Where(more, Len(refs), i - 1) = Where(refs, Len(refs), i - 1) BY <1>1 DEF Where
<1>3. Given(more, i) = Cardinality(Where(more, Len(refs) + 1, i - 1)) BY <1>1, GivenIs
<1>4. Given(refs, i) = Cardinality(Where(refs, Len(refs), i - 1)) BY GivenIs
<1>5. Len(refs) \in Nat OBVIOUS
<1>6. Cardinality(Where(more, Len(refs) + 1, i - 1)) =
        IF more[Len(refs) + 1] = i - 1 THEN Cardinality(Where(more, Len(refs), i - 1)) + 1
                                       ELSE Cardinality(Where(more, Len(refs), i - 1))
  BY <1>5, OneMore
<1>7. Given(more, i) = IF ref = i - 1 THEN Given(refs, i) + 1 ELSE Given(refs, i)
  BY <1>1, <1>2, <1>3, <1>4, <1>6
<1>8. QED BY <1>7 DEF more

\* A message no reference reaches is given no time.
LEMMA GivenNone ==
  ASSUME NEW refs \in Seq(Nat), NEW n \in Nat, \A j \in DOMAIN refs : refs[j] < n
  PROVE  Given(refs, n + 1) = 0
<1>1. {j \in DOMAIN refs : refs[j] = (n + 1) - 1} = {} OBVIOUS
<1>2. QED BY <1>1, FS_EmptySet DEF Given

-----------------------------------------------------------------------------
\* The buffers of a table

LEMMA TableIs ==
  ASSUME NEW t \in Tables
  PROVE  /\ t = [field |-> t.field, buffers |-> t.buffers, room |-> t.room]
         /\ t.field \in Fields /\ t.room \in Nat
         /\ t.buffers \in Seq(Buffers) /\ Len(t.buffers) \in Nat
         /\ DOMAIN t.buffers = 1 .. Len(t.buffers)
         /\ t.buffers = <<>> <=> Len(t.buffers) = 0
         /\ \A i \in 1 .. Len(t.buffers) : t.buffers[i] \in Buffers
<1>1. /\ t = [field |-> t.field, buffers |-> t.buffers, room |-> t.room]
      /\ t.field \in Fields /\ t.room \in Nat /\ t.buffers \in Seq(Buffers)
  BY DEF Tables
<1>2. QED BY <1>1, SequenceIs

LEMMA BufferIs ==
  ASSUME NEW t \in Tables, NEW key
  PROVE  /\ BufferOf(t, key) \in 0 .. Len(t.buffers)
         /\ BufferOf(t, key) > 0 => t.buffers[BufferOf(t, key)].key = key
         /\ \A i \in DOMAIN t.buffers : t.buffers[i].key = key => BufferOf(t, key) > 0
<1> DEFINE I == {i \in 1 .. Len(t.buffers) : t.buffers[i].key = key}
<1>1. BufferOf(t, key) = IF I # {} THEN Min(I) ELSE 0 BY DEF BufferOf, SelectInSeq
<1>2. I \in SUBSET Nat /\ I \subseteq 1 .. Len(t.buffers) /\ Len(t.buffers) \in Nat BY TableIs
<1>3. \A i \in DOMAIN t.buffers : t.buffers[i].key = key => i \in I BY TableIs
<1>4. \A i \in I : t.buffers[i].key = key OBVIOUS
<1> HIDE DEF I
<1>5. CASE I = {} BY <1>1, <1>2, <1>3, <1>5
<1>6. CASE I # {}
  <2>1. \E x \in I : \A y \in I : x <= y BY <1>2, <1>6, LeastNatural
  <2>2. Min(I) \in I BY <2>1 DEF Min
  <2>3. Min(I) \in 1 .. Len(t.buffers) BY <1>2, <2>2
  <2>4. QED BY <1>1, <1>2, <1>4, <1>6, <2>2, <2>3
<1>7. QED BY <1>5, <1>6

LEMMA KeysAre ==
  ASSUME NEW t \in Tables
  PROVE  /\ Keys(t) \subseteq Tokens
         /\ \A k : k \in Keys(t) <=> BufferOf(t, k) > 0
         /\ t.buffers # <<>> <=> Keys(t) # {}
<1>1. /\ t.buffers \in Seq(Buffers) /\ DOMAIN t.buffers = 1 .. Len(t.buffers)
      /\ \A i \in 1 .. Len(t.buffers) : t.buffers[i] \in Buffers
      /\ Len(t.buffers) \in Nat /\ (t.buffers = <<>> <=> Len(t.buffers) = 0)
  BY TableIs
<1>2. Keys(t) = {t.buffers[i].key : i \in DOMAIN t.buffers} BY DEF Keys, ToSet
<1>3. \A k : k \in Keys(t) <=> \E i \in DOMAIN t.buffers : t.buffers[i].key = k BY <1>2
<1>4. ASSUME NEW i \in DOMAIN t.buffers PROVE t.buffers[i].key \in Tokens BY <1>1 DEF Buffers
<1>5. ASSUME NEW k PROVE k \in Keys(t) <=> BufferOf(t, k) > 0
  <2>1. BufferOf(t, k) \in 0 .. Len(t.buffers) BY BufferIs
  <2>2. BufferOf(t, k) > 0 => BufferOf(t, k) \in DOMAIN t.buffers BY <1>1, <2>1
  <2>3. QED BY <1>3, <2>2, BufferIs
<1>6. t.buffers # <<>> <=> DOMAIN t.buffers # {} BY <1>1
<1>7. QED BY <1>3, <1>4, <1>5, <1>6

\* A key has one buffer.
LEMMA BufferOnly ==
  ASSUME NEW t \in Tables, NEW i \in DOMAIN t.buffers,
         \A j, l \in DOMAIN t.buffers : t.buffers[j].key = t.buffers[l].key => j = l
  PROVE  BufferOf(t, t.buffers[i].key) = i
<1> DEFINE b == BufferOf(t, t.buffers[i].key)
<1>1. b \in 0 .. Len(t.buffers) /\ b > 0 /\ t.buffers[b].key = t.buffers[i].key BY BufferIs
<1>2. b \in DOMAIN t.buffers BY <1>1, TableIs
<1>3. QED BY <1>1, <1>2

LEMMA RefsOfTyped ==
  ASSUME NEW t \in Tables, NEW key
  PROVE  RefsOf(t, key) \in Seq(Nat)
<1>1. BufferOf(t, key) > 0 => BufferOf(t, key) \in 1 .. Len(t.buffers) BY BufferIs, TableIs
<1>2. ASSUME NEW i \in 1 .. Len(t.buffers) PROVE t.buffers[i].refs \in Seq(Nat)
  BY TableIs DEF Buffers
<1>3. <<>> \in Seq(Nat) OBVIOUS
<1>4. QED BY <1>1, <1>2, <1>3 DEF RefsOf

\* kds__append to a key that is there
LEMMA FiledThere ==
  ASSUME NEW t \in Tables, Table1(t), NEW key \in Tokens, NEW ref \in Nat,
         ref < Len(messages), BufferOf(t, key) > 0
  PROVE  LET u == Filed(t, key, ref) IN
         /\ u \in Tables /\ Table1(u) /\ u.field = t.field /\ u.buffers # <<>>
         /\ RefsOf(u, key) = Append(RefsOf(t, key), ref)
         /\ \A k : k # key => RefsOf(u, k) = RefsOf(t, k)
<1> DEFINE u == Filed(t, key, ref)
           i == BufferOf(t, key)
           more == Append(t.buffers[i].refs, ref)
           n == Len(t.buffers)
<1>1. i \in 1 .. n /\ t.buffers[i].key = key BY BufferIs, TableIs
<1>2. /\ t.buffers \in Seq(Buffers) /\ n \in Nat /\ DOMAIN t.buffers = 1 .. n
      /\ t = [field |-> t.field, buffers |-> t.buffers, room |-> t.room]
      /\ t.field \in Fields /\ t.room \in Nat
      /\ \A j \in 1 .. n : t.buffers[j] \in Buffers
  BY TableIs
<1>3. /\ t.buffers[i].refs \in Seq(Nat) /\ more \in Seq(Nat)
      /\ Len(more) = Len(t.buffers[i].refs) + 1 /\ more[Len(more)] = ref
      /\ \A j \in 1 .. Len(t.buffers[i].refs) : more[j] = t.buffers[i].refs[j]
  <2>1. t.buffers[i].refs \in Seq(Nat) BY <1>1, <1>2 DEF Buffers
  <2> DEFINE old == t.buffers[i].refs
  <2> HIDE DEF i
  <2>2. old \in Seq(Nat) BY <2>1
  <2> HIDE DEF old
  <2>3. /\ Append(old, ref) \in Seq(Nat) /\ Len(Append(old, ref)) = Len(old) + 1
        /\ Append(old, ref)[Len(old) + 1] = ref
        /\ \A j \in 1 .. Len(old) : Append(old, ref)[j] = old[j]
    BY <2>2, AppendIs
  <2>4. QED BY <2>2, <2>3 DEF old
<1> HIDE DEF i, more, n
<1>4. u = [t EXCEPT !.buffers[i].refs = more]  BY DEF u, i, Filed, more
<1> HIDE DEF u
<1>5. /\ u = [field |-> t.field, buffers |-> u.buffers, room |-> t.room]
      /\ u.buffers = [t.buffers EXCEPT ![i] = [t.buffers[i] EXCEPT !.refs = more]]
  BY <1>1, <1>2, <1>4
<1>6. [t.buffers[i] EXCEPT !.refs = more] = [key |-> key, refs |-> more]
  <2>1. t.buffers[i] = [key |-> t.buffers[i].key, refs |-> t.buffers[i].refs]
    BY <1>1, <1>2 DEF Buffers
  <2>2. QED BY <1>1, <2>1
<1>7. /\ u.buffers \in Seq(Buffers)
      /\ Len(u.buffers) = n /\ DOMAIN u.buffers = 1 .. n
      /\ u.buffers[i] = [key |-> key, refs |-> more]
      /\ \A j \in 1 .. n : j # i => u.buffers[j] = t.buffers[j]
  <2> DEFINE b == [key |-> key, refs |-> more]
  <2>1. b \in Buffers BY <1>3 DEF Buffers
  <2>2. u.buffers = [t.buffers EXCEPT ![i] = b] BY <1>5, <1>6
  <2> HIDE DEF b
  <2>3. u.buffers \in Seq(Buffers) /\ Len(u.buffers) = Len(t.buffers) BY <1>1, <1>2, <2>1, <2>2
  <2>4. Len(u.buffers) = n BY <2>3 DEF n
  <2>5. QED BY <1>1, <1>2, <2>2, <2>3, <2>4 DEF b
<1>8. u \in Tables BY <1>2, <1>5, <1>7 DEF Tables
<1>9. \A j \in 1 .. n : u.buffers[j].key = t.buffers[j].key BY <1>1, <1>7
<1>10. ASSUME NEW k PROVE BufferOf(u, k) = BufferOf(t, k)
  <2>1. {j \in 1 .. Len(u.buffers) : u.buffers[j].key = k} =
        {j \in 1 .. Len(t.buffers) : t.buffers[j].key = k}
    BY <1>2, <1>7, <1>9 DEF n
  <2>2. QED BY <2>1 DEF BufferOf, SelectInSeq
<1>11. Table1(u)
  <2>1. more # <<>> /\ Placed(more)
    <3> DEFINE old == t.buffers[i].refs
    <3>1. Placed(old) BY <1>1, <1>2 DEF Table1
    <3>2. /\ Len(old) \in Nat /\ DOMAIN old = 1 .. Len(old) /\ DOMAIN more = 1 .. Len(more)
          /\ (more = <<>> <=> Len(more) = 0)
      BY <1>3, SequenceIs
    <3> HIDE DEF old
    <3>3. ASSUME NEW j \in DOMAIN more PROVE more[j] < Len(messages)
      <4>1. Len(more) = Len(old) + 1 /\ \A l \in 1 .. Len(old) : more[l] = old[l]
        BY <1>3 DEF old
      <4>2. j \in 1 .. Len(old) \/ j = Len(more) BY <3>2, <4>1
      <4>3. QED BY <1>3, <3>1, <3>2, <4>1, <4>2 DEF Placed
    <3>4. more # <<>> BY <1>3, <3>2 DEF old
    <3>5. QED BY <1>3, <3>3, <3>4 DEF Placed
  <2>2. \A j \in DOMAIN u.buffers : u.buffers[j].refs # <<>> /\ Placed(u.buffers[j].refs)
    BY <1>2, <1>7, <2>1 DEF Table1
  <2>3. \A j, l \in DOMAIN u.buffers : u.buffers[j].key = u.buffers[l].key => j = l
    BY <1>2, <1>7, <1>9 DEF Table1
  <2>4. u.room = t.room BY <1>5
  <2>5. u.buffers # <<>> /\ t.buffers # <<>> BY <1>1, <1>2, <1>7, <1>8, TableIs
  <2>6. Len(u.buffers) = Len(t.buffers) BY <1>7 DEF n
  <2>7. QED BY <2>5, <2>6, <1>7, <2>2, <2>3, <2>4 DEF Table1
<1>12. u.buffers # <<>> /\ u.field = t.field BY <1>1, <1>2, <1>5, <1>7, <1>8, TableIs
<1>13. RefsOf(u, key) = Append(RefsOf(t, key), ref)
  <2>1. RefsOf(t, key) = t.buffers[i].refs BY DEF RefsOf, i
  <2>2. RefsOf(u, key) = u.buffers[i].refs BY <1>10 DEF RefsOf, i
  <2>3. u.buffers[i].refs = more BY <1>7
  <2>4. QED BY <2>1, <2>2, <2>3 DEF more
<1>14. ASSUME NEW k, k # key PROVE RefsOf(u, k) = RefsOf(t, k)
  <2>1. CASE BufferOf(t, k) > 0
    <3>1. BufferOf(t, k) \in 1 .. n /\ t.buffers[BufferOf(t, k)].key = k
      BY <1>2, <2>1, BufferIs DEF n
    <3>2. BufferOf(t, k) # i BY <1>1, <1>14, <3>1
    <3>3. u.buffers[BufferOf(t, k)] = t.buffers[BufferOf(t, k)] BY <1>7, <3>1, <3>2
    <3>4. QED BY <1>10, <2>1, <3>3 DEF RefsOf
  <2>2. CASE ~(BufferOf(t, k) > 0) BY <1>10, <2>2 DEF RefsOf
  <2>3. QED BY <2>1, <2>2
<1>15. QED BY <1>8, <1>11, <1>12, <1>13, <1>14 DEF u

\* The array of the buffers grows in time.
LEMMA RoomEnough ==
  ASSUME NEW t \in Tables, Table1(t)
  PROVE  /\ Room(t) \in Nat /\ Len(t.buffers) + 1 <= Room(t)
         /\ \E e \in 0 .. Room(t) : Room(t) = Power[e]
<1> DEFINE n == Len(t.buffers)
<1>1. n \in Nat /\ (n = 0 <=> t.buffers = <<>>) /\ t.room \in Nat BY TableIs
<1>2. n <= t.room BY DEF Table1
<1>3. \A e \in Nat : Power[e] \in Nat /\ e < Power[e] BY PowerGrows
<1>4. Room(t) = IF n = 0 THEN 1 ELSE IF \E e \in 0 .. n : n = Power[e] THEN 2 * n ELSE t.room
  BY DEF Room
<1>5. t.buffers = <<>> \/ \E e \in 0 .. t.room : t.room = Power[e] BY DEF Table1
<1> HIDE DEF n
<1>6. CASE n = 0
  <2>1. Power[0] = 1 BY PowerUnfolds
  <2>2. Room(t) = 1 /\ 0 \in 0 .. 1 BY <1>4, <1>6
  <2>3. QED BY <1>6, <2>1, <2>2 DEF n
<1>7. CASE n # 0 /\ \E e \in 0 .. n : n = Power[e]
  <2>1. PICK e \in 0 .. n : n = Power[e] BY <1>7
  <2>2. e \in Nat /\ Power[e + 1] = 2 * n BY <1>1, <2>1, PowerUnfolds
  <2>3. Room(t) = 2 * n BY <1>4, <1>7
  <2>4. e + 1 \in 0 .. 2 * n BY <1>1, <1>7, <2>1
  <2>5. 2 * n \in Nat /\ n + 1 <= 2 * n BY <1>1, <1>7
  <2>6. QED BY <2>2, <2>3, <2>4, <2>5 DEF n
<1>8. CASE n # 0 /\ ~ \E e \in 0 .. n : n = Power[e]
  <2>1. PICK e \in 0 .. t.room : t.room = Power[e] BY <1>1, <1>5, <1>8
  <2>2. n # t.room
    <3>1. SUFFICES ASSUME n = t.room PROVE FALSE OBVIOUS
    <3>2. e \in 0 .. n /\ n = Power[e] BY <2>1, <3>1
    <3>3. QED BY <1>8, <3>2
  <2>3. Room(t) = t.room BY <1>4, <1>8
  <2>4. n + 1 <= t.room BY <1>1, <1>2, <2>2
  <2>5. QED BY <1>1, <2>1, <2>3, <2>4 DEF n
<1>9. QED BY <1>6, <1>7, <1>8

\* kds__append to a new key
LEMMA FiledNew ==
  ASSUME NEW t \in Tables, Table1(t), NEW key \in Tokens, NEW ref \in Nat,
         ref < Len(messages), ~(BufferOf(t, key) > 0)
  PROVE  LET u == Filed(t, key, ref) IN
         /\ u \in Tables /\ Table1(u) /\ u.field = t.field /\ u.buffers # <<>>
         /\ RefsOf(u, key) = Append(RefsOf(t, key), ref)
         /\ \A k : k # key => RefsOf(u, k) = RefsOf(t, k)
<1> DEFINE u == Filed(t, key, ref)
           n == Len(t.buffers)
           new == [key |-> key, refs |-> <<ref>>]
<1>1. /\ t.buffers \in Seq(Buffers)
      /\ t = [field |-> t.field, buffers |-> t.buffers, room |-> t.room]
      /\ t.field \in Fields /\ t.room \in Nat /\ n \in Nat
  BY TableIs
<1>2. new \in Buffers BY DEF Buffers
<1>3. u = [field |-> t.field, buffers |-> Append(t.buffers, new), room |-> Room(t)]
  BY <1>1 DEF Filed
<1> HIDE DEF u
<1>4. /\ u.buffers \in Seq(Buffers)
      /\ Len(u.buffers) = n + 1 /\ n \in Nat
      /\ u.buffers[n + 1] = new
      /\ \A j \in 1 .. n : u.buffers[j] = t.buffers[j]
  <2>1. u.buffers = Append(t.buffers, new) BY <1>3
  <2>2. n \in Nat BY <1>1
  <2> HIDE DEF new
  <2>3. QED BY <1>1, <1>2, <2>1, <2>2, AppendIs
<1>5. DOMAIN t.buffers = 1 .. n /\ DOMAIN u.buffers = 1 .. n + 1 /\ u.buffers # <<>>
  BY <1>4, TableIs, SequenceIs
<1>6. \A j \in 1 .. n + 1 : j \in 1 .. n \/ j = n + 1 BY <1>4
<1>7. \A j \in 1 .. n : t.buffers[j].key # key BY <1>5, BufferIs
<1>8. u \in Tables
  <2>1. Room(t) \in Nat BY RoomEnough
  <2>2. QED BY <1>1, <1>3, <1>4, <2>1 DEF Tables
<1>9. new.key = key /\ new.refs = <<ref>> OBVIOUS
<1> HIDE DEF new, n
<1>10. \A j, l \in DOMAIN u.buffers : u.buffers[j].key = u.buffers[l].key => j = l
  <2>1. SUFFICES ASSUME NEW j \in 1 .. n + 1, NEW l \in 1 .. n + 1,
                        u.buffers[j].key = u.buffers[l].key
                 PROVE  j = l
    BY <1>5
  <2>2. CASE j \in 1 .. n /\ l \in 1 .. n BY <1>4, <1>5, <2>1, <2>2 DEF Table1
  <2>3. CASE j = n + 1 /\ l \in 1 .. n BY <1>4, <1>7, <1>9, <2>1, <2>3
  <2>4. CASE l = n + 1 /\ j \in 1 .. n BY <1>4, <1>7, <1>9, <2>1, <2>4
  <2>5. CASE j = n + 1 /\ l = n + 1 BY <2>5
  <2>6. QED BY <1>6, <2>2, <2>3, <2>4, <2>5
<1>11. Table1(u)
  <2>1. Placed(<<ref>>) /\ <<ref>> # <<>> BY DEF Placed
  <2>2. \A j \in DOMAIN u.buffers : u.buffers[j].refs # <<>> /\ Placed(u.buffers[j].refs)
    BY <1>4, <1>5, <1>6, <1>9, <2>1 DEF Table1
  <2>3. u.room = Room(t) /\ u.buffers # <<>> BY <1>3, <1>5
  <2>4. Len(u.buffers) <= u.room BY <1>4, <2>3, RoomEnough DEF n
  <2>5. \E e \in 0 .. u.room : u.room = Power[e] BY <2>3, RoomEnough
  <2>6. QED BY <1>10, <2>2, <2>3, <2>4, <2>5 DEF Table1
<1>12. u.buffers # <<>> /\ u.field = t.field BY <1>3, <1>5
<1>13. RefsOf(u, key) = Append(RefsOf(t, key), ref)
  <2>1. RefsOf(t, key) = <<>> BY DEF RefsOf
  <2>2. n + 1 \in DOMAIN u.buffers /\ n + 1 > 0 BY <1>4, <1>5
  <2>3. BufferOf(u, u.buffers[n + 1].key) = n + 1 BY <1>8, <1>10, <2>2, BufferOnly
  <2>4. BufferOf(u, key) = n + 1 BY <1>4, <1>9, <2>3
  <2>5. RefsOf(u, key) = u.buffers[n + 1].refs BY <2>2, <2>4 DEF RefsOf
  <2>6. QED BY <1>4, <1>9, <2>1, <2>5
<1>14. ASSUME NEW k, k # key PROVE RefsOf(u, k) = RefsOf(t, k)
  <2>1. CASE BufferOf(t, k) > 0
    <3> DEFINE j == BufferOf(t, k)
    <3>1. j \in 1 .. n /\ t.buffers[j].key = k BY <1>4, <2>1, BufferIs DEF n
    <3> HIDE DEF j
    <3>2. j \in DOMAIN u.buffers /\ u.buffers[j] = t.buffers[j] BY <1>4, <1>5, <3>1
    <3>3. BufferOf(u, u.buffers[j].key) = j BY <1>8, <1>10, <3>2, BufferOnly
    <3>4. BufferOf(u, k) = j /\ j > 0 BY <1>4, <3>1, <3>2, <3>3
    <3>5. QED BY <3>2, <3>4 DEF RefsOf, j
  <2>2. CASE ~(BufferOf(t, k) > 0)
    <3>1. \A j \in 1 .. n : t.buffers[j].key # k BY <1>5, <2>2, BufferIs
    <3>2. \A j \in DOMAIN u.buffers : u.buffers[j].key # k BY <1>4, <1>5, <1>6, <1>9, <1>14, <3>1
    <3>3. ~(BufferOf(u, k) > 0)
      <4>1. SUFFICES ASSUME BufferOf(u, k) > 0 PROVE FALSE OBVIOUS
      <4>2. BufferOf(u, k) \in DOMAIN u.buffers BY <1>4, <1>5, <1>8, <4>1, BufferIs
      <4>3. QED BY <1>8, <3>2, <4>1, <4>2, BufferIs
    <3>4. QED BY <2>2, <3>3 DEF RefsOf
  <2>3. QED BY <2>1, <2>2
<1>15. QED BY <1>8, <1>11, <1>12, <1>13, <1>14 DEF u

-----------------------------------------------------------------------------
\* What a step that leaves the messages alone leaves true

LEMMA PlacedKept ==
  ASSUME messages' = messages
  PROVE  /\ \A refs : Placed(refs)' <=> Placed(refs)
         /\ \A t : Table1(t)' <=> Table1(t)
         /\ \A streams : Streams1(streams)' <=> Streams1(streams)
<1>1. ASSUME NEW refs PROVE Placed(refs)' <=> Placed(refs) BY DEF Placed
<1>2. ASSUME NEW t PROVE Table1(t)' <=> Table1(t) BY <1>1 DEF Table1
<1>3. ASSUME NEW streams PROVE Streams1(streams)' <=> Streams1(streams) BY <1>1 DEF Streams1
<1>4. QED BY <1>1, <1>2, <1>3

LEMMA CountedKept ==
  ASSUME messages' = messages, raised' = raised
  PROVE  /\ \A i, f, key : Asked(i, f, key)' = Asked(i, f, key)
         /\ \A refs, f, key, i : Counted(refs, f, key, i)' <=> Counted(refs, f, key, i)
         /\ \A refs, f, key : Exact(refs, f, key)' <=> Exact(refs, f, key)
<1>1. ASSUME NEW i, NEW f, NEW key PROVE Asked(i, f, key)' = Asked(i, f, key) BY DEF Asked
<1>2. ASSUME NEW refs, NEW f, NEW key, NEW i
      PROVE  Counted(refs, f, key, i)' <=> Counted(refs, f, key, i)
  BY <1>1 DEF Counted
<1>3. ASSUME NEW refs, NEW f, NEW key PROVE Exact(refs, f, key)' <=> Exact(refs, f, key)
  BY <1>2, PlacedKept DEF Exact
<1>4. QED BY <1>1, <1>2, <1>3

LEMMA ProgressKept ==
  ASSUME UNCHANGED <<messages, raised, append>>
  PROVE  \A refs, f, key : InProgress(refs, f, key)' <=> InProgress(refs, f, key)
<1>1. /\ messages' = messages /\ raised' = raised /\ adding' = adding
      /\ filing' = filing /\ filed' = filed
  BY DEF append
<1>2. ASSUME NEW key PROVE FiledSoFar(key)' = FiledSoFar(key) BY <1>1 DEF FiledSoFar, Values
<1>3. ASSUME NEW refs, NEW f, NEW key
      PROVE  InProgress(refs, f, key)' <=> InProgress(refs, f, key)
  BY <1>1, <1>2, CountedKept DEF InProgress
<1>4. QED BY <1>3

LEMMA HeldKept ==
  ASSUME UNCHANGED <<objects, key_tables>>
  PROVE  \A f, key : Held(f, key)' = Held(f, key)
BY DEF Held, Known

-----------------------------------------------------------------------------
\* What a step leaves true when it changes nothing of it

LEMMA AppendingKept ==
  ASSUME Appending, UNCHANGED <<messages, append, key_tables>>
  PROVE  Appending'
BY DEF Appending, append, Values

LEMMA StackKept ==
  ASSUME Stack, UNCHANGED <<messages, objects, key_tables>>, phase' = "w" => phase = "w"
  PROVE  Stack'
<1>1. \A o \in DOMAIN objects : Table1(objects[o])' BY PlacedKept DEF Stack
<1>2. QED BY <1>1 DEF Stack

LEMMA CountsKept ==
  ASSUME Counts, UNCHANGED <<messages, raised, append, objects, key_tables>>,
         phase' = "w" => phase = "w", phase' = "closing" => phase = "closing"
  PROVE  Counts'
<1>1. messages' = messages /\ raised' = raised /\ objects' = objects OBVIOUS
<1>2. ASSUME phase' = "w", NEW f \in Fields, NEW key \in Tokens
      PROVE  Placed(Held(f, key))' /\ Sorted(Held(f, key))' /\ InProgress(Held(f, key), f, key)'
  <2> DEFINE refs == Held(f, key)
  <2>1. refs' = refs BY HeldKept
  <2>2. Placed(refs) /\ Sorted(refs) /\ InProgress(refs, f, key) BY <1>2 DEF Counts
  <2>3. PICK r : r = refs OBVIOUS
  <2>4. Placed(r)' /\ Sorted(r) /\ InProgress(r, f, key)'
    BY <1>1, <2>2, <2>3, PlacedKept, ProgressKept
  <2>5. QED BY <2>1, <2>3, <2>4 DEF Sorted
<1>3. ASSUME phase' = "closing", NEW o \in DOMAIN objects, objects[o].buffers # <<>>,
             NEW key \in Tokens
      PROVE  Exact(RefsOf(objects[o], key), objects[o].field, key)'
  <2>1. PICK r, f : r = RefsOf(objects[o], key) /\ f = objects[o].field OBVIOUS
  <2>2. Exact(r, f, key) BY <1>3, <2>1 DEF Counts
  <2>3. Exact(r, f, key)' BY <1>1, <2>2, CountedKept
  <2>4. QED BY <1>1, <2>1, <2>3
<1>4. QED BY <1>1, <1>2, <1>3 DEF Counts

LEMMA StoredKept ==
  ASSUME Stored, UNCHANGED <<messages, raised, objects, converting, disk>>,
         phase' = "w" => phase = "w", phase' = "closing" => phase = "closing"
  PROVE  Stored'
<1>1. ASSUME NEW f \in Fields, NEW key \in Tokens, disk[f].ttrie \notin {None, Begun}
      PROVE  Exact(StreamOf(disk[f], key), f, key)'
  <2>1. PICK r : r = StreamOf(disk[f], key) OBVIOUS
  <2>2. Exact(r, f, key) BY <1>1, <2>1 DEF Stored
  <2>3. Exact(r, f, key)' BY <2>2, CountedKept
  <2>4. StreamOf(disk[f], key)' = r BY <2>1 DEF StreamOf
  <2>5. QED BY <2>3, <2>4
<1>2. \A f \in Fields : disk[f].ttrie # None => Streams1(disk[f].cpref)'
  BY PlacedKept DEF Stored
<1>3. QED BY <1>1, <1>2 DEF Stored, Closed

LEMMA ConversionKept ==
  ASSUME Conversion, UNCHANGED <<messages, objects, converting, disk>>,
         phase' = "w" => phase = "w", phase' = "closing" => phase = "closing"
  PROVE  Conversion'
<1>1. Table' = Table /\ Files' = Files BY DEF Table, Closed, Files
<1>2. \A k : Converted(k)' <=> Converted(k) BY <1>1 DEF Converted
<1>3. \A s : Streams1(s)' <=> Streams1(s) BY PlacedKept
<1>4. NextKey' = NextKey BY DEF NextKey
<1>5. QED BY <1>1, <1>2, <1>3, <1>4 DEF Conversion

\* While messages are appended no table is converted, and no table that could be read
\* is on the disk; in a process that ended nothing is converted any more.
LEMMA Writing ==
  ASSUME phase' = "w", converting'.step = "start", (\A f \in Fields : disk'[f].ttrie = None),
         Disk(disk)',
         \A f \in Fields : disk'[f].meta # None =>
           \E o \in DOMAIN objects' : objects'[o].field = f
  PROVE  Stored' /\ Conversion'
<1>1. Stored' BY DEF Stored
<1>2. Conversion' BY DEF Conversion
<1>3. QED BY <1>1, <1>2

LEMMA Ended ==
  ASSUME phase' \notin {"w", "closing"}
  PROVE  Counts' /\ Conversion'
<1>1. Counts' BY DEF Counts
<1>2. Conversion' BY DEF Conversion
<1>3. QED BY <1>1, <1>2

WriterInv == Master /\ Appending /\ Stack /\ Counts /\ Stored /\ Conversion

-----------------------------------------------------------------------------
\* PulpWritter.append

LEMMA Clumps ==
  ASSUME NEW n \in Nat
  PROVE  Whole(n) \in 0 .. n /\ n - Whole(n) < Clump
<1>1. Clump \in Nat \ {0} BY BoundsAssumption
<1>2. /\ n \div Clump \in Nat /\ n % Clump \in 0 .. Clump - 1
      /\ n = (n \div Clump) * Clump + (n % Clump)
  BY <1>1, PlaceOf
<1>3. (n \div Clump) * Clump \in Nat BY <1>1, <1>2, BlocksOrdered
<1>4. QED BY <1>1, <1>2, <1>3 DEF Whole

LEMMA Append1Inv ==
  ASSUME WriterInv, NEW m \in Messages, Append1(m)
  PROVE  WriterInv'
<1>0. PICK n \in Nat : n = Len(messages) BY SequenceIs DEF WriterInv, Master
<1>1. /\ phase = "w" /\ adding = {} /\ filing = None
      /\ messages' = Append(messages, m) /\ stored' = Whole(Len(messages'))
      /\ adding' = DOMAIN m.index
      /\ phase' = phase /\ raised' = raised /\ filing' = filing /\ filed' = filed
      /\ objects' = objects /\ key_tables' = key_tables /\ converting' = converting
      /\ disk' = disk
  BY DEF Append1
<1>2. /\ messages \in Seq(Messages) /\ n \in Nat /\ DOMAIN messages = 1 .. n
      /\ raised \subseteq 1 .. n
  BY <1>0, SequenceIs DEF WriterInv, Master
<1>3. /\ messages' \in Seq(Messages) /\ Len(messages') = n + 1
      /\ messages'[n + 1] = m /\ \A i \in 1 .. n : messages'[i] = messages[i]
  BY <1>0, <1>1, <1>2, AppendIs
<1>4. DOMAIN messages' = 1 .. n + 1 /\ messages' # <<>> BY <1>2, <1>3, SequenceIs
<1>5. Master'
  <2>1. stored' \in 0 .. Len(messages') /\ Len(messages') - stored' < Clump
    BY <1>1, <1>2, <1>3, Clumps
  <2>2. raised' \subseteq DOMAIN messages' BY <1>1, <1>2, <1>4
  <2>3. QED BY <1>1, <1>3, <2>1, <2>2 DEF Master
<1>6. Appending'
  <2>1. DOMAIN m.index \subseteq Fields BY MessagesAssumption
  <2>2. filed \in Nat BY DEF WriterInv, Appending
  <2>3. QED BY <1>1, <1>3, <1>4, <2>1, <2>2 DEF Appending
<1>7. \A r : Placed(r) => Placed(r)' BY <1>0, <1>2, <1>3 DEF Placed
<1>8. Stack'
  <2>1. \A t : Table1(t) => Table1(t)' BY <1>7 DEF Table1
  <2>2. Stack BY DEF WriterInv
  <2>3. QED BY <1>1, <2>1, <2>2 DEF Stack
<1>9. ASSUME NEW f \in Fields, NEW key \in Tokens
      PROVE  Placed(Held(f, key))' /\ Sorted(Held(f, key))' /\ InProgress(Held(f, key), f, key)'
  <2>1. PICK r : r = Held(f, key) OBVIOUS
  <2>2. Placed(r) /\ Sorted(r) /\ InProgress(r, f, key) BY <1>1, <2>1 DEF WriterInv, Counts
  <2>3. Held(f, key)' = r BY <1>1, <2>1, HeldKept
  <2>4. r \in Seq(Nat) /\ \A j \in DOMAIN r : r[j] < n BY <1>0, <2>2 DEF Placed
  <2>5. Given(r, n + 1) = 0 BY <1>2, <2>4, GivenNone
  <2>6. f # filing' BY <1>1, NoneAssumption
  <2>7. ASSUME f \notin adding' PROVE Counted(r, f, key, n + 1)'
    <3>1. Asked(n + 1, f, key)' = 0 BY <1>1, <1>3, <2>7 DEF Asked
    <3>2. QED BY <2>5, <3>1 DEF Counted
  <2>8. ASSUME NEW i \in 1 .. n PROVE Counted(r, f, key, i)'
    <3>1. Counted(r, f, key, i) BY <1>0, <1>1, <1>2, <2>2, <2>8, NoneAssumption DEF InProgress
    <3>2. Asked(i, f, key)' = Asked(i, f, key) BY <1>3, <2>8 DEF Asked
    <3>3. QED BY <1>1, <3>1, <3>2 DEF Counted
  <2>9. InProgress(r, f, key)'
    <3>1. \A i \in 1 .. n + 1 : i = n + 1 \/ i \in 1 .. n BY <1>2
    <3>2. n + 1 \notin 1 .. n BY <1>2
    <3>3. QED BY <1>3, <1>4, <2>5, <2>6, <2>7, <2>8, <3>1, <3>2 DEF InProgress
  <2>10. Placed(r)' BY <1>7, <2>2
  <2>11. QED BY <2>2, <2>3, <2>9, <2>10 DEF Sorted
<1>10. Counts' BY <1>1, <1>9 DEF Counts
<1>11. Stored' /\ Conversion' BY <1>1, Writing DEF WriterInv, Stored, Conversion
<1>12. QED BY <1>5, <1>6, <1>8, <1>10, <1>11 DEF WriterInv

\* The values a message has for a field, and how often one is among them
LEMMA ValuesOf ==
  ASSUME messages \in Seq(Messages), NEW i \in DOMAIN messages,
         NEW f \in DOMAIN messages[i].index
  PROVE  /\ messages[i].index[f] \in Seq(Tokens \cup {Unfit})
         /\ Len(messages[i].index[f]) \in Nat
         /\ \A key : Asked(i, f, key) =
              Cardinality(Where(messages[i].index[f], Len(messages[i].index[f]), key))
<1>1. messages[i] \in Messages OBVIOUS
<1>2. messages[i].index[f] \in Seq(Tokens \cup {Unfit}) BY <1>1, MessagesAssumption
<1>3. PICK vals \in Seq(Tokens \cup {Unfit}) : vals = messages[i].index[f] BY <1>2
<1>4. Len(vals) \in Nat /\ DOMAIN vals = 1 .. Len(vals) BY SequenceIs
<1>5. ASSUME NEW key PROVE Asked(i, f, key) = Cardinality(Where(vals, Len(vals), key))
  <2>1. Asked(i, f, key) = Cardinality({j \in DOMAIN vals : vals[j] = key}) BY <1>3 DEF Asked
  <2>2. QED BY <1>4, <2>1 DEF Where
<1>6. QED BY <1>3, <1>4, <1>5

LEMMA AskedNat ==
  ASSUME messages \in Seq(Messages), NEW i \in DOMAIN messages, NEW f, NEW key
  PROVE  Asked(i, f, key) \in Nat
<1>1. CASE f \in DOMAIN messages[i].index BY <1>1, ValuesOf, WhereFinite
<1>2. CASE f \notin DOMAIN messages[i].index BY <1>2 DEF Asked
<1>3. QED BY <1>1, <1>2

\* What the writer's steps below start from
LEMMA WritingFacts ==
  ASSUME WriterInv, phase = "w"
  PROVE  /\ messages \in Seq(Messages) /\ Len(messages) \in Nat
         /\ DOMAIN messages = 1 .. Len(messages)
         /\ messages # <<>> => Len(messages) \in DOMAIN messages
         /\ objects \in Seq(Tables) /\ Len(objects) \in Nat
         /\ DOMAIN objects = 1 .. Len(objects)
         /\ \A o \in DOMAIN objects : objects[o] \in Tables
         /\ \A f \in Fields : disk[f].ttrie = None
         /\ converting.step = "start"
<1>1. messages \in Seq(Messages) /\ objects \in Seq(Tables) BY DEF WriterInv, Master, Stack
<1>2. /\ Len(messages) \in Nat /\ DOMAIN messages = 1 .. Len(messages)
      /\ (messages = <<>> <=> Len(messages) = 0)
      /\ Len(objects) \in Nat /\ DOMAIN objects = 1 .. Len(objects)
      /\ \A o \in DOMAIN objects : objects[o] \in Tables
  BY <1>1, SequenceIs
<1>3. messages # <<>> => Len(messages) \in DOMAIN messages BY <1>2
<1>4. (\A f \in Fields : disk[f].ttrie = None) /\ converting.step = "start"
  BY DEF WriterInv, Stored, Conversion
<1>5. QED BY <1>1, <1>2, <1>3, <1>4

LEMMA MasterKept ==
  ASSUME Master, phase = "w", phase' \in {"w", "closing"}, UNCHANGED <<messages, stored>>,
         raised' \subseteq DOMAIN messages
  PROVE  Master'
BY DEF Master

\* The table a field is filed in from here on
LEMMA NewTableInv ==
  ASSUME WriterInv, NEW f \in Fields, StartField(f), ~Known(f)
  PROVE  /\ Stack' /\ Stored' /\ Conversion'
         /\ \A g \in Fields : \A key : Held(g, key)' = Held(g, key)
<1>1. PICK at \in Nat : at = Len(objects) + 1 BY WritingFacts DEF StartField
<1>2. /\ phase = "w" /\ phase' = phase /\ messages' = messages /\ converting' = converting
      /\ objects' = Append(objects, NewTable(f))
      /\ key_tables' = [g \in DOMAIN key_tables \cup {f} |-> IF g = f THEN at ELSE key_tables[g]]
      /\ disk' = [disk EXCEPT ![f].meta = Begun, ![f].dpref = Begun]
  BY <1>1 DEF StartField
<1>3. /\ objects \in Seq(Tables) /\ DOMAIN objects = 1 .. at - 1
      /\ \A o \in DOMAIN objects : objects[o] \in Tables
  BY <1>1, <1>2, WritingFacts
<1>4. NewTable(f) \in Tables /\ NewTable(f).buffers = <<>> /\ NewTable(f).field = f
  <2>1. <<>> \in Seq(Buffers) OBVIOUS
  <2>2. QED BY <2>1 DEF NewTable, Tables
<1>5. /\ objects' \in Seq(Tables) /\ DOMAIN objects' = 1 .. at
      /\ objects'[at] = NewTable(f) /\ \A o \in 1 .. at - 1 : objects'[o] = objects[o]
  <2>1. /\ objects' \in Seq(Tables) /\ Len(objects') = at
        /\ objects'[at] = NewTable(f) /\ \A o \in 1 .. at - 1 : objects'[o] = objects[o]
    BY <1>1, <1>2, <1>3, <1>4, AppendIs
  <2>2. QED BY <2>1, SequenceIs
<1>6. \A o \in 1 .. at : o = at \/ o \in 1 .. at - 1 BY <1>1
<1>7. Stack BY DEF WriterInv
<1>8. Stack'
  <2>0. PICK objs : objs = objects' OBVIOUS
  <2>1. \A o \in DOMAIN objs : Table1(objs[o])'
    <3>1. Table1(NewTable(f)) BY DEF Table1, NewTable
    <3>2. \A o \in 1 .. at - 1 : Table1(objects[o]) BY <1>3, <1>7 DEF Stack
    <3>3. \A o \in DOMAIN objs : Table1(objs[o]) BY <1>5, <1>6, <2>0, <3>1, <3>2
    <3>4. QED BY <1>2, <3>3, PlacedKept
  <2>2. DOMAIN key_tables' \subseteq Fields /\ key_tables' \in [DOMAIN key_tables' -> Nat]
    BY <1>1, <1>2, <1>7 DEF Stack
  <2>3. ASSUME NEW o \in 1 .. at, objects'[o].buffers # <<>>
        PROVE  objects'[o].field \in DOMAIN key_tables' /\ key_tables'[objects'[o].field] = o
    <3>1. o \in 1 .. at - 1 BY <1>4, <1>5, <1>6, <2>3
    <3>2. objects'[o] = objects[o] /\ o \in DOMAIN objects BY <1>3, <1>5, <3>1
    <3>3. objects[o].field \in DOMAIN key_tables /\ key_tables[objects[o].field] = o
      BY <1>7, <2>3, <3>2 DEF Stack
    <3>4. objects[o].field # f BY <2>3, <3>2, <3>3 DEF Known
    <3>5. QED BY <1>2, <3>2, <3>3, <3>4
  <2>4. ASSUME NEW g \in DOMAIN key_tables'
        PROVE  key_tables'[g] \in DOMAIN objects' /\ objects'[key_tables'[g]].field = g
    <3>1. CASE g = f BY <1>1, <1>2, <1>4, <1>5, <3>1
    <3>2. CASE g # f
      <4>1. g \in DOMAIN key_tables /\ key_tables'[g] = key_tables[g] BY <1>2, <3>2
      <4>2. key_tables[g] \in 1 .. at - 1 /\ objects[key_tables[g]].field = g
        BY <1>2, <1>3, <1>7, <4>1 DEF Stack
      <4>3. key_tables[g] \in 1 .. at BY <1>1, <4>2
      <4>4. QED BY <1>5, <4>1, <4>2, <4>3
    <3>3. QED BY <3>1, <3>2
  <2>5. QED BY <1>5, <2>0, <2>1, <2>2, <2>3, <2>4 DEF Stack
<1>9. ASSUME NEW g \in Fields, NEW key PROVE Held(g, key)' = Held(g, key)
  <2>1. CASE g = f
    <3>1. Held(g, key) = <<>> BY <2>1 DEF Held
    <3>2. g \in DOMAIN key_tables' /\ key_tables'[g] = at BY <1>2, <2>1
    <3>3. objects'[at].buffers = <<>> BY <1>4, <1>5
    <3>4. ~Known(g)' BY <3>2, <3>3 DEF Known
    <3>5. Held(g, key)' = <<>> BY <3>4 DEF Held
    <3>6. QED BY <3>1, <3>5
  <2>2. CASE g # f /\ g \notin DOMAIN key_tables
    <3>1. g \notin DOMAIN key_tables' BY <1>2, <2>2
    <3>2. QED BY <2>2, <3>1 DEF Held, Known
  <2>3. CASE g # f /\ g \in DOMAIN key_tables
    <3>1. g \in DOMAIN key_tables' /\ key_tables'[g] = key_tables[g] BY <1>2, <2>3
    <3>2. key_tables[g] \in 1 .. at - 1 BY <1>2, <1>3, <1>7, <2>3 DEF Stack
    <3>3. objects'[key_tables'[g]] = objects[key_tables[g]] BY <1>5, <3>1, <3>2
    <3>4. Known(g)' <=> Known(g) BY <2>3, <3>1, <3>3 DEF Known
    <3>5. QED BY <3>3, <3>4 DEF Held
  <2>4. QED BY <2>1, <2>2, <2>3
<1>10. Stored' /\ Conversion'
  <2>1. /\ Disk(disk)
        /\ \A g \in Fields : disk[g].ttrie = None
        /\ \A g \in Fields : disk[g].meta # None =>
             disk[g].ttrie # None \/ \E o \in DOMAIN objects : objects[o].field = g
    BY <1>2 DEF WriterInv, Stored
  <2>2. /\ Disk(disk)' /\ disk'[f].ttrie = disk[f].ttrie
        /\ \A g \in Fields : g # f => disk'[g] = disk[g]
    BY <1>2, <2>1 DEF Disk
  <2>3. ASSUME NEW g \in Fields, disk'[g].meta # None
        PROVE  \E o \in DOMAIN objects' : objects'[o].field = g
    <3>1. CASE g = f BY <1>1, <1>4, <1>5, <3>1
    <3>2. CASE g # f
      <4>1. PICK o \in DOMAIN objects : objects[o].field = g BY <2>1, <2>2, <2>3, <3>2
      <4>2. o \in DOMAIN objects' /\ objects'[o] = objects[o] BY <1>1, <1>3, <1>5
      <4>3. QED BY <4>1, <4>2
    <3>3. QED BY <3>1, <3>2
  <2>4. \A g \in Fields : disk'[g].ttrie = None BY <2>1, <2>2
  <2>5. phase' = "w" /\ converting'.step = "start" BY <1>2, WritingFacts
  <2>6. QED BY <2>2, <2>3, <2>4, <2>5, Writing
<1>11. QED BY <1>8, <1>9, <1>10

LEMMA StartFieldInv ==
  ASSUME WriterInv, NEW f \in Fields, StartField(f)
  PROVE  WriterInv'
<1>1. /\ phase = "w" /\ filing = None /\ f \in adding
      /\ adding' = adding \ {f} /\ filing' = f /\ filed' = 0
      /\ phase' = phase /\ messages' = messages /\ raised' = raised /\ stored' = stored
      /\ converting' = converting
  BY DEF StartField
<1>2. /\ messages \in Seq(Messages) /\ Len(messages) \in DOMAIN messages /\ messages # <<>>
      /\ adding \subseteq Fields /\ adding \subseteq DOMAIN messages[Len(messages)].index
  BY <1>1, WritingFacts DEF WriterInv, Appending
<1>3. Master' BY <1>1, MasterKept DEF WriterInv, Master
<1>4. /\ Stack' /\ Stored' /\ Conversion' /\ f \in DOMAIN key_tables'
      /\ \A g \in Fields : \A key : Held(g, key)' = Held(g, key)
  <2>1. CASE Known(f)
    <3>1. objects' = objects /\ key_tables' = key_tables /\ disk' = disk
      BY <2>1 DEF StartField
    <3>2. Stack' /\ Stored' /\ Conversion'
      BY <1>1, <3>1, StackKept, StoredKept, ConversionKept DEF WriterInv
    <3>3. QED BY <2>1, <3>1, <3>2, HeldKept DEF Known
  <2>2. CASE ~Known(f)
    <3>1. f \in DOMAIN key_tables' BY <2>2 DEF StartField
    <3>2. QED BY <2>2, <3>1, NewTableInv
  <2>3. QED BY <2>1, <2>2
<1>5. Appending'
  <2>1. messages[Len(messages)].index[f] \in Seq(Tokens \cup {Unfit})
        /\ Len(messages[Len(messages)].index[f]) \in Nat
    BY <1>1, <1>2, ValuesOf
  <2>2. Values' = messages[Len(messages)].index[f] BY <1>1 DEF Values
  <2>3. filed' <= Len(Values') BY <1>1, <2>1, <2>2
  <2>4. QED BY <1>1, <1>2, <1>4, <2>3 DEF Appending
<1>6. ASSUME NEW g \in Fields, NEW key \in Tokens
      PROVE  Placed(Held(g, key))' /\ Sorted(Held(g, key))' /\ InProgress(Held(g, key), g, key)'
  <2>1. PICK r : r = Held(g, key) OBVIOUS
  <2>2. Placed(r) /\ Sorted(r) /\ InProgress(r, g, key) BY <1>1, <2>1 DEF WriterInv, Counts
  <2>3. Held(g, key)' = r BY <1>4, <2>1
  <2>4. \A i : Counted(r, g, key, i)' <=> Counted(r, g, key, i) BY <1>1, CountedKept
  <2>5. FiledSoFar(key)' = 0
    <3>1. FiledSoFar(key)' = Cardinality({j \in 1 .. 0 : Values'[j] = key})
      BY <1>1 DEF FiledSoFar
    <3>2. {j \in 1 .. 0 : Values'[j] = key} = {} OBVIOUS
    <3>3. QED BY <3>1, <3>2, FS_EmptySet
  <2>6. g # filing BY <1>1, NoneAssumption
  <2>7. InProgress(r, g, key)' BY <1>1, <2>2, <2>4, <2>5, <2>6 DEF InProgress
  <2>8. Placed(r)' BY <1>1, <2>2, PlacedKept
  <2>9. QED BY <2>2, <2>3, <2>7, <2>8 DEF Sorted
<1>7. Counts' BY <1>1, <1>6 DEF Counts
<1>8. QED BY <1>3, <1>4, <1>5, <1>7 DEF WriterInv

\* What FileValue and FinishField start from
LEMMA FilingFacts ==
  ASSUME WriterInv, phase = "w", filing # None
  PROVE  /\ Len(messages) \in DOMAIN messages /\ filing \in Fields
         /\ Values \in Seq(Tokens \cup {Unfit}) /\ Len(Values) \in Nat
         /\ filed \in Nat /\ filed <= Len(Values)
         /\ \A key : FiledSoFar(key) = Cardinality(Where(Values, filed, key))
         /\ \A key : Asked(Len(messages), filing, key) =
                       Cardinality(Where(Values, Len(Values), key))
         /\ filing \in DOMAIN key_tables /\ key_tables[filing] \in DOMAIN objects
         /\ objects[key_tables[filing]].field = filing
         /\ \A key : Held(filing, key) = RefsOf(objects[key_tables[filing]], key)
<1>1. /\ filing \in Fields /\ messages # <<>> /\ filed \in Nat /\ filed <= Len(Values)
      /\ filing \in DOMAIN messages[Len(messages)].index /\ filing \in DOMAIN key_tables
  BY DEF WriterInv, Appending
<1>2. messages \in Seq(Messages) /\ Len(messages) \in DOMAIN messages BY <1>1, WritingFacts
<1>3. /\ Values \in Seq(Tokens \cup {Unfit}) /\ Len(Values) \in Nat
      /\ \A key : Asked(Len(messages), filing, key) = Cardinality(Where(Values, Len(Values), key))
  BY <1>1, <1>2, ValuesOf DEF Values
<1>4. \A key : FiledSoFar(key) = Cardinality(Where(Values, filed, key))
  BY DEF FiledSoFar, Where
<1>5. /\ key_tables[filing] \in DOMAIN objects
      /\ objects[key_tables[filing]].field = filing
  BY <1>1 DEF WriterInv, Stack
<1>6. ASSUME NEW key PROVE Held(filing, key) = RefsOf(objects[key_tables[filing]], key)
  <2> DEFINE t == objects[key_tables[filing]]
  <2>1. CASE Known(filing) BY <2>1 DEF Held
  <2>2. CASE ~Known(filing)
    <3>1. t \in Tables /\ t.buffers = <<>> BY <1>1, <1>5, <2>2, WritingFacts DEF Known
    <3>2. Keys(t) = {} BY <3>1, KeysAre
    <3>3. ~(BufferOf(t, key) > 0) BY <3>1, <3>2, KeysAre
    <3>4. RefsOf(t, key) = <<>> BY <3>3 DEF RefsOf
    <3>5. QED BY <2>2, <3>4 DEF Held
  <2>3. QED BY <2>1, <2>2
<1>7. QED BY <1>1, <1>2, <1>3, <1>4, <1>5, <1>6

\* A value that raises ends the append: what was filed before it stays.
LEMMA UnfitInv ==
  ASSUME WriterInv, FileValue, Values[filed + 1] = Unfit
  PROVE  WriterInv'
<1>1. /\ phase = "w" /\ filing # None
      /\ adding' = {} /\ filing' = None /\ filed' = 0
      /\ raised' = raised \cup {Len(messages)} /\ objects' = objects
      /\ phase' = phase /\ messages' = messages /\ stored' = stored
      /\ key_tables' = key_tables /\ converting' = converting /\ disk' = disk
  BY DEF FileValue
<1>2. PICK n \in Nat : n = Len(messages) BY <1>1, WritingFacts
<1>3. DOMAIN messages = 1 .. n /\ n \in 1 .. n /\ messages \in Seq(Messages)
  BY <1>1, <1>2, WritingFacts, FilingFacts
<1>4. Master'
  <2>1. raised' \subseteq DOMAIN messages BY <1>1, <1>2, <1>3 DEF WriterInv, Master
  <2>2. QED BY <1>1, <2>1, MasterKept DEF WriterInv
<1>5. Appending' BY <1>1 DEF Appending
<1>6. Stack' BY <1>1, StackKept DEF WriterInv
<1>7. ASSUME NEW g \in Fields, NEW key \in Tokens
      PROVE  Placed(Held(g, key))' /\ Sorted(Held(g, key))' /\ InProgress(Held(g, key), g, key)'
  <2>1. PICK r : r = Held(g, key) OBVIOUS
  <2>2. Placed(r) /\ Sorted(r) /\ InProgress(r, g, key) BY <1>1, <2>1 DEF WriterInv, Counts
  <2>3. Held(g, key)' = r BY <1>1, <2>1, HeldKept
  <2>4. ASSUME NEW i \in 1 .. n PROVE Asked(i, g, key)' = Asked(i, g, key)
    BY <1>1 DEF Asked
  <2>5. ASSUME NEW i \in 1 .. n, Counted(r, g, key, i) PROVE Counted(r, g, key, i)'
    BY <1>1, <2>4, <2>5 DEF Counted
  <2>6. Given(r, n) <= Asked(n, g, key)
    <3>1. Asked(n, g, key) \in Nat BY <1>3, AskedNat
    <3>2. Given(r, n) \in Nat BY <2>2, GivenIs DEF Placed
    <3>3. CASE g \in adding BY <1>2, <1>3, <2>2, <3>1, <3>3 DEF InProgress
    <3>4. CASE g \notin adding /\ g = filing
      <4>1. Given(r, n) = FiledSoFar(key) BY <1>2, <1>3, <2>2, <3>4 DEF InProgress
      <4>2. PICK vals, m : vals = Values /\ m = filed OBVIOUS
      <4>3. Len(vals) \in Nat /\ m \in 0 .. Len(vals) BY <1>1, <4>2, FilingFacts
      <4>4. Cardinality(Where(vals, m, key)) <= Cardinality(Where(vals, Len(vals), key))
        BY <4>3, NoMoreThanAll
      <4>5. QED BY <1>1, <1>2, <3>4, <4>1, <4>2, <4>4, FilingFacts
    <3>5. CASE g \notin adding /\ g # filing
      <4>1. Counted(r, g, key, n) BY <1>2, <1>3, <2>2, <3>5 DEF InProgress
      <4>2. QED BY <3>1, <3>2, <4>1 DEF Counted
    <3>6. QED BY <3>3, <3>4, <3>5
  <2>7. ASSUME NEW i \in 1 .. n PROVE Counted(r, g, key, i)'
    <3>1. CASE i = n
      <4>1. n \in raised' BY <1>1, <1>2
      <4>2. Asked(n, g, key) \in Nat /\ Given(r, n) \in Nat
        BY <1>3, <2>2, AskedNat, GivenIs DEF Placed
      <4>3. Given(r, n) = Asked(n, g, key) \/ Given(r, n) < Asked(n, g, key) BY <2>6, <4>2
      <4>4. QED BY <2>4, <3>1, <4>1, <4>3 DEF Counted
    <3>2. CASE i # n BY <1>2, <1>3, <2>2, <2>5, <3>2 DEF InProgress
    <3>3. QED BY <3>1, <3>2
  <2>8. g # None BY NoneAssumption
  <2>9. InProgress(r, g, key)' BY <1>1, <1>3, <2>7, <2>8 DEF InProgress
  <2>10. Placed(r)' BY <1>1, <2>2, PlacedKept
  <2>11. QED BY <2>2, <2>3, <2>9, <2>10 DEF Sorted
<1>8. Counts' BY <1>1, <1>7 DEF Counts
<1>9. Stored' /\ Conversion' BY <1>1, Writing DEF WriterInv, Stored, Conversion
<1>10. QED BY <1>4, <1>5, <1>6, <1>8, <1>9 DEF WriterInv

\* kds__append of a value that does not
LEMMA FitInv ==
  ASSUME WriterInv, FileValue, Values[filed + 1] # Unfit
  PROVE  WriterInv'
<1>1. PICK v, o, n : v = Values[filed + 1] /\ o = key_tables[filing] /\ n = Len(messages)
  OBVIOUS
<1>2. PICK t, u, x, m : t = objects[o] /\ u = Filed(t, v, n - 1) /\ x = filing /\ m = filed
  OBVIOUS
<1>3. /\ phase = "w" /\ filing # None /\ filed < Len(Values)
      /\ objects' = [objects EXCEPT ![o] = u] /\ filed' = m + 1
      /\ adding' = adding /\ filing' = filing /\ raised' = raised
      /\ phase' = phase /\ messages' = messages /\ stored' = stored
      /\ key_tables' = key_tables /\ converting' = converting /\ disk' = disk
  BY <1>1, <1>2 DEF FileValue
<1>4. /\ n \in Nat /\ n \in 1 .. n /\ DOMAIN messages = 1 .. n
      /\ objects \in Seq(Tables) /\ t \in Tables /\ x \in Fields /\ m \in Nat
      /\ x \in DOMAIN key_tables /\ o \in DOMAIN objects /\ t.field = x
      /\ \A key : Held(x, key) = RefsOf(t, key)
  BY <1>1, <1>2, <1>3, WritingFacts, FilingFacts
<1>5. v \in Tokens
  <2>1. PICK vals : vals = Values OBVIOUS
  <2>2. vals \in Seq(Tokens \cup {Unfit}) /\ Len(vals) \in Nat /\ m + 1 \in 1 .. Len(vals)
    BY <1>2, <1>3, <1>4, <2>1, FilingFacts
  <2>3. vals[m + 1] \in Tokens \cup {Unfit} BY <2>2
  <2>4. QED BY <1>1, <1>2, <2>1, <2>3
<1>6. n - 1 \in Nat /\ n - 1 < Len(messages) BY <1>1, <1>4
<1>7. Table1(t) BY <1>2, <1>4 DEF WriterInv, Stack
<1>8. /\ u \in Tables /\ Table1(u) /\ u.field = x /\ u.buffers # <<>>
      /\ RefsOf(u, v) = Append(RefsOf(t, v), n - 1)
      /\ \A k : k # v => RefsOf(u, k) = RefsOf(t, k)
  <2>1. CASE BufferOf(t, v) > 0 BY <1>2, <1>4, <1>5, <1>6, <1>7, <2>1, FiledThere
  <2>2. CASE ~(BufferOf(t, v) > 0) BY <1>2, <1>4, <1>5, <1>6, <1>7, <2>2, FiledNew
  <2>3. QED BY <2>1, <2>2
<1>9. /\ objects' \in Seq(Tables) /\ DOMAIN objects' = DOMAIN objects /\ objects'[o] = u
      /\ \A p \in DOMAIN objects : p # o => objects'[p] = objects[p]
  BY <1>3, <1>4, <1>8
<1>10. Master' BY <1>3, MasterKept DEF WriterInv, Master
<1>11. Appending'
  <2>1. Values' = Values BY <1>3 DEF Values
  <2>2. m + 1 \in Nat /\ m + 1 <= Len(Values) BY <1>2, <1>3, <1>4, FilingFacts
  <2>3. QED BY <1>3, <1>4, <2>1, <2>2 DEF WriterInv, Appending
<1>12. \A p \in DOMAIN objects : objects'[p].field = objects[p].field
  BY <1>2, <1>4, <1>8, <1>9
<1>13. Stack'
  <2>1. PICK objs : objs = objects' OBVIOUS
  <2>2. \A p \in DOMAIN objs : Table1(objs[p]) BY <1>8, <1>9, <2>1 DEF WriterInv, Stack
  <2>3. \A p \in DOMAIN objs : Table1(objs[p])' BY <1>3, <2>2, PlacedKept
  <2>4. ASSUME NEW p \in DOMAIN objects, objects'[p].buffers # <<>>
        PROVE  objects[p].field \in DOMAIN key_tables /\ key_tables[objects[p].field] = p
    <3>1. CASE p = o BY <1>1, <1>2, <1>4, <3>1
    <3>2. CASE p # o BY <1>9, <2>4, <3>2 DEF WriterInv, Stack
    <3>3. QED BY <3>1, <3>2
  <2>5. \A g \in DOMAIN key_tables :
          key_tables[g] \in DOMAIN objects /\ objects[key_tables[g]].field = g
    BY <1>3 DEF WriterInv, Stack
  <2>6. DOMAIN key_tables \subseteq Fields /\ key_tables \in [DOMAIN key_tables -> Nat]
    BY DEF WriterInv, Stack
  <2>7. QED BY <1>3, <1>9, <1>12, <2>1, <2>3, <2>4, <2>5, <2>6 DEF Stack
<1>14. ASSUME NEW g \in Fields, g # x, NEW key PROVE Held(g, key)' = Held(g, key)
  <2>1. CASE g \in DOMAIN key_tables
    <3>1. key_tables[g] \in DOMAIN objects /\ objects[key_tables[g]].field = g
      BY <1>3, <2>1 DEF WriterInv, Stack
    <3>2. key_tables[g] # o BY <1>2, <1>4, <1>14, <3>1
    <3>3. objects'[key_tables'[g]] = objects[key_tables[g]] BY <1>3, <1>9, <3>1, <3>2
    <3>4. QED BY <1>3, <3>3 DEF Held, Known
  <2>2. CASE g \notin DOMAIN key_tables BY <1>3, <2>2 DEF Held, Known
  <2>3. QED BY <2>1, <2>2
<1>15. ASSUME NEW key PROVE Held(x, key)' = RefsOf(u, key)
  <2>1. x \in DOMAIN key_tables' /\ key_tables'[x] = o BY <1>1, <1>2, <1>3, <1>4
  <2>2. Known(x)' BY <1>8, <1>9, <2>1 DEF Known
  <2>3. QED BY <1>9, <2>1, <2>2 DEF Held
<1>16. \A r, g, key, i : Counted(r, g, key, i)' <=> Counted(r, g, key, i)
  BY <1>3, CountedKept
<1>17. ASSUME NEW key
       PROVE  FiledSoFar(key)' = IF v = key THEN FiledSoFar(key) + 1 ELSE FiledSoFar(key)
  <2>1. PICK vals : vals = Values OBVIOUS
  <2>2. Values' = vals BY <1>3, <2>1 DEF Values
  <2>3. FiledSoFar(key) = Cardinality(Where(vals, m, key)) BY <1>2, <1>3, <2>1, FilingFacts
  <2>4. FiledSoFar(key)' = Cardinality(Where(vals, m + 1, key))
    BY <1>3, <2>2 DEF FiledSoFar, Where
  <2>5. vals[m + 1] = v BY <1>1, <1>2, <2>1
  <2>6. Cardinality(Where(vals, m + 1, key)) =
          IF vals[m + 1] = key THEN Cardinality(Where(vals, m, key)) + 1
                               ELSE Cardinality(Where(vals, m, key))
    BY <1>4, OneMore
  <2>7. QED BY <2>3, <2>4, <2>5, <2>6
<1>18. ASSUME NEW g \in Fields, NEW key \in Tokens
       PROVE  Placed(Held(g, key))' /\ Sorted(Held(g, key))' /\ InProgress(Held(g, key), g, key)'
  <2>1. PICK r : r = Held(g, key) OBVIOUS
  <2>2. Placed(r) /\ Sorted(r) /\ InProgress(r, g, key) BY <1>3, <2>1 DEF WriterInv, Counts
  <2>3. CASE g # x \/ key # v
    <3>1. Held(g, key)' = r BY <1>4, <1>8, <1>14, <1>15, <2>1, <2>3
    <3>2. Placed(r)' BY <1>3, <2>2, PlacedKept
    <3>3. g = filing => FiledSoFar(key)' = FiledSoFar(key) BY <1>2, <1>17, <2>3
    <3>4. InProgress(r, g, key)' BY <1>3, <1>16, <2>2, <3>3 DEF InProgress
    <3>5. QED BY <2>2, <3>1, <3>2, <3>4 DEF Sorted
  <2>4. CASE g = x /\ key = v
    <3>1. PICK s : s = Append(r, n - 1) OBVIOUS
    <3>2. Held(g, key)' = s BY <1>4, <1>8, <1>15, <2>1, <2>4, <3>1
    <3>3. /\ r \in Seq(Nat) /\ Len(r) \in Nat /\ DOMAIN r = 1 .. Len(r)
          /\ \A j \in DOMAIN r : r[j] \in Nat /\ r[j] < n
      BY <1>1, <2>2, SequenceIs DEF Placed
    <3>4. /\ s \in Seq(Nat) /\ Len(s) = Len(r) + 1 /\ s[Len(r) + 1] = n - 1
          /\ \A j \in 1 .. Len(r) : s[j] = r[j]
      BY <1>6, <3>1, <3>3, AppendIs
    <3>5. DOMAIN s = 1 .. Len(r) + 1 BY <3>4, SequenceIs
    <3>6. \A j \in DOMAIN s : j \in 1 .. Len(r) \/ j = Len(r) + 1 BY <3>3, <3>5
    <3>7. Placed(s)
      <4>1. \A j \in DOMAIN s : s[j] < n BY <1>4, <3>3, <3>4, <3>6
      <4>2. QED BY <1>1, <3>4, <4>1 DEF Placed
    <3>8. Sorted(s)
      <4>1. SUFFICES ASSUME NEW i \in DOMAIN s, NEW j \in DOMAIN s, i < j PROVE s[i] <= s[j]
        BY DEF Sorted
      <4>2. i \in 1 .. Len(r) BY <3>3, <3>5, <4>1
      <4>3. CASE j \in 1 .. Len(r) BY <2>2, <3>3, <3>4, <4>1, <4>2, <4>3 DEF Sorted
      <4>4. CASE j = Len(r) + 1
        <5>1. s[i] = r[i] /\ r[i] \in Nat /\ r[i] < n BY <3>3, <3>4, <4>2
        <5>2. QED BY <1>4, <3>4, <4>4, <5>1
      <4>5. QED BY <3>6, <4>3, <4>4
    <3>9. ASSUME NEW i \in 1 .. n
          PROVE  Given(s, i) = IF i = n THEN Given(r, i) + 1 ELSE Given(r, i)
      <4>1. i \in Nat BY <1>4
      <4>2. Given(s, i) = IF n - 1 = i - 1 THEN Given(r, i) + 1 ELSE Given(r, i)
        BY <1>6, <3>1, <3>3, <4>1, GivenAppended
      <4>3. n - 1 = i - 1 <=> i = n BY <1>4, <4>1
      <4>4. QED BY <4>2, <4>3
    <3>10. g = filing /\ g \notin adding
      BY <1>2, <1>3, <2>4 DEF WriterInv, Appending
    <3>11. ASSUME NEW i \in 1 .. n
           PROVE  IF i = n THEN Given(s, i) = FiledSoFar(key)' ELSE Counted(s, g, key, i)'
      <4>1. CASE i = n
        <5>1. Given(r, n) = FiledSoFar(key) BY <1>1, <1>4, <2>2, <3>10 DEF InProgress
        <5>2. QED BY <1>17, <2>4, <3>9, <4>1, <5>1
      <4>2. CASE i # n
        <5>1. Counted(r, g, key, i) BY <1>1, <1>4, <2>2, <4>2 DEF InProgress
        <5>2. Counted(s, g, key, i) BY <3>9, <4>2, <5>1 DEF Counted
        <5>3. QED BY <1>16, <4>2, <5>2
      <4>3. QED BY <4>1, <4>2
    <3>12. InProgress(s, g, key)'
      BY <1>1, <1>3, <1>4, <3>10, <3>11 DEF InProgress
    <3>13. Placed(s)' BY <1>3, <3>7, PlacedKept
    <3>14. QED BY <3>2, <3>8, <3>12, <3>13 DEF Sorted
  <2>5. QED BY <2>3, <2>4
<1>19. Counts' BY <1>3, <1>18 DEF Counts
<1>20. Stored' /\ Conversion'
  <2>1. ASSUME NEW g \in Fields, disk'[g].meta # None
        PROVE  \E p \in DOMAIN objects' : objects'[p].field = g
    <3>1. PICK p \in DOMAIN objects : objects[p].field = g
      BY <1>3, <2>1, WritingFacts DEF WriterInv, Stored
    <3>2. QED BY <1>9, <1>12, <3>1
  <2>2. Disk(disk)' /\ \A g \in Fields : disk'[g].ttrie = None
    BY <1>3, WritingFacts DEF WriterInv, Stored
  <2>3. converting'.step = "start" BY <1>3, WritingFacts
  <2>4. QED BY <1>3, <2>1, <2>2, <2>3, Writing
<1>21. QED BY <1>10, <1>11, <1>13, <1>19, <1>20 DEF WriterInv

LEMMA FinishFieldInv ==
  ASSUME WriterInv, FinishField
  PROVE  WriterInv'
<1>1. /\ phase = "w" /\ filing # None /\ filed = Len(Values)
      /\ filing' = None /\ filed' = 0
      /\ phase' = phase /\ messages' = messages /\ raised' = raised /\ stored' = stored
      /\ adding' = adding /\ objects' = objects /\ key_tables' = key_tables
      /\ converting' = converting /\ disk' = disk
  BY DEF FinishField
<1>2. Master' BY <1>1, MasterKept DEF WriterInv, Master
<1>3. Appending' BY <1>1 DEF WriterInv, Appending
<1>4. Stack' BY <1>1, StackKept DEF WriterInv
<1>5. ASSUME NEW g \in Fields, NEW key \in Tokens
      PROVE  Placed(Held(g, key))' /\ Sorted(Held(g, key))' /\ InProgress(Held(g, key), g, key)'
  <2>1. PICK r : r = Held(g, key) OBVIOUS
  <2>2. Placed(r) /\ Sorted(r) /\ InProgress(r, g, key) BY <1>1, <2>1 DEF WriterInv, Counts
  <2>3. Held(g, key)' = r BY <1>1, <2>1, HeldKept
  <2>4. \A i : Counted(r, g, key, i)' <=> Counted(r, g, key, i) BY <1>1, CountedKept
  <2>5. ASSUME g = filing, g \notin adding PROVE Counted(r, g, key, Len(messages))
    <3>1. Given(r, Len(messages)) = FiledSoFar(key)
      BY <1>1, <2>2, <2>5, FilingFacts DEF InProgress
    <3>2. Asked(Len(messages), g, key) = FiledSoFar(key) BY <1>1, <2>5, FilingFacts
    <3>3. QED BY <3>1, <3>2 DEF Counted
  <2>6. g # None BY NoneAssumption
  <2>7. InProgress(r, g, key)' BY <1>1, <2>2, <2>4, <2>5, <2>6 DEF InProgress
  <2>8. Placed(r)' BY <1>1, <2>2, PlacedKept
  <2>9. QED BY <2>2, <2>3, <2>7, <2>8 DEF Sorted
<1>6. Counts' BY <1>1, <1>5 DEF Counts
<1>7. Stored' /\ Conversion' BY <1>1, StoredKept, ConversionKept DEF WriterInv
<1>8. QED BY <1>2, <1>3, <1>4, <1>6, <1>7 DEF WriterInv

LEMMA ExitInv ==
  ASSUME WriterInv, Exit
  PROVE  WriterInv'
<1>1. /\ phase = "w" /\ phase' = "closing" /\ adding = {} /\ filing = None
      /\ messages' = messages /\ raised' = raised /\ stored' = stored
      /\ append' = append /\ objects' = objects /\ key_tables' = key_tables
      /\ converting' = converting /\ disk' = disk
  BY DEF Exit
<1>2. Master' BY <1>1, MasterKept DEF WriterInv, Master
<1>3. Appending' BY <1>1, AppendingKept DEF WriterInv
<1>4. Stack' BY <1>1, StackKept DEF WriterInv
<1>5. ASSUME NEW o \in DOMAIN objects, objects[o].buffers # <<>>, NEW key \in Tokens
      PROVE  Exact(RefsOf(objects[o], key), objects[o].field, key)'
  <2>1. PICK r, f : r = RefsOf(objects[o], key) /\ f = objects[o].field OBVIOUS
  <2>2. f \in Fields /\ f \in DOMAIN key_tables /\ key_tables[f] = o
    BY <1>1, <1>5, <2>1, WritingFacts, TableIs DEF WriterInv, Stack
  <2>3. Held(f, key) = r BY <1>5, <2>1, <2>2 DEF Held, Known
  <2>4. Placed(r) /\ Sorted(r) /\ InProgress(r, f, key)
    BY <1>1, <2>2, <2>3 DEF WriterInv, Counts
  <2>5. f # None BY <2>2, NoneAssumption
  <2>6. Exact(r, f, key) BY <1>1, <2>4, <2>5 DEF Exact, InProgress
  <2>7. Exact(r, f, key)' BY <1>1, <2>6, CountedKept
  <2>8. QED BY <1>1, <2>1, <2>7
<1>6. Counts' BY <1>1, <1>5 DEF Counts
<1>7. Stored'
  <2>1. Disk(disk) /\ (\A f \in Fields : disk[f].ttrie = None)
        /\ \A f \in Fields : disk[f].meta # None => \E o \in DOMAIN objects : objects[o].field = f
    BY <1>1 DEF WriterInv, Stored
  <2>2. \A o \in DOMAIN objects : objects[o].field \in Fields
    BY <1>1, WritingFacts, TableIs
  <2>3. QED BY <1>1, <2>1, <2>2 DEF Stored
<1>8. Conversion'
  <2>1. converting'.step = "start" BY <1>1, WritingFacts
  <2>2. QED BY <1>1, <2>1 DEF Conversion
<1>9. QED BY <1>2, <1>3, <1>4, <1>6, <1>7, <1>8 DEF WriterInv

-----------------------------------------------------------------------------
\* PulpWritter.__exit__

LEMMA DieInv ==
  ASSUME WriterInv, Die
  PROVE  WriterInv'
<1>1. /\ phase' = "dead" /\ messages' = messages /\ raised' = raised /\ stored' = stored
      /\ append' = append /\ objects' = objects /\ key_tables' = key_tables
      /\ converting' = converting /\ disk' = disk
  BY DEF Die
<1>2. Master' BY <1>1 DEF WriterInv, Master
<1>3. Appending' /\ Stack' /\ Stored'
  BY <1>1, AppendingKept, StackKept, StoredKept DEF WriterInv
<1>4. Counts' /\ Conversion' BY <1>1, Ended
<1>5. QED BY <1>2, <1>3, <1>4 DEF WriterInv

\* The table on top of the stack, which is the one that is closed
LEMMA ClosingFacts ==
  ASSUME WriterInv, objects # <<>>
  PROVE  /\ Closed \in DOMAIN objects /\ Closed = Len(objects) /\ Len(objects) \in Nat
         /\ DOMAIN objects = 1 .. Len(objects) /\ objects \in Seq(Tables)
         /\ Table \in Tables /\ Table1(Table) /\ Table.field \in Fields
         /\ Files = disk[Table.field] /\ Disk(disk)
         /\ Table = objects[Closed]
<1>1. objects \in Seq(Tables) /\ Disk(disk) BY DEF WriterInv, Stack, Stored
<1>2. Closed \in DOMAIN objects /\ DOMAIN objects = 1 .. Len(objects) /\ Len(objects) \in Nat
  BY <1>1, SequenceIs DEF Closed
<1>3. Table \in Tables BY <1>1, <1>2 DEF Table
<1>4. Table1(Table) BY <1>2 DEF WriterInv, Stack, Table
<1>5. Table.field \in Fields BY <1>3, TableIs
<1>6. QED BY <1>1, <1>2, <1>3, <1>4, <1>5 DEF Files, Table, Closed

LEMMA ClosingKept ==
  ASSUME WriterInv, phase = "closing",
         UNCHANGED <<phase, messages, raised, stored, append, objects, key_tables>>
  PROVE  Master' /\ Appending' /\ Stack' /\ Counts'
<1>1. Master' BY DEF WriterInv, Master
<1>2. Appending' /\ Stack' /\ Counts' BY AppendingKept, StackKept, CountsKept DEF WriterInv
<1>3. QED BY <1>1, <1>2

\* Until its last two steps a conversion changes nothing that is read from the table.
LEMMA StoredMoves ==
  ASSUME WriterInv, phase = "closing", objects # <<>>,
         UNCHANGED <<phase, messages, raised, objects>>, Disk(disk)',
         converting.step # "write", converting'.step # "write",
         \A g \in Fields : disk'[g].ttrie = disk[g].ttrie,
         \A g \in Fields : disk[g].ttrie # None => disk'[g].cpref = disk[g].cpref,
         \A g \in Fields : disk'[g].meta # None => disk[g].meta # None \/ g = Table.field
  PROVE  Stored'
<1>1. ASSUME NEW g \in Fields, disk'[g].ttrie # None PROVE Streams1(disk[g].cpref)'
  <2>1. PICK c : c = disk[g].cpref OBVIOUS
  <2>2. Streams1(c) BY <1>1, <2>1 DEF WriterInv, Stored
  <2>3. Streams1(c)' BY <2>2, PlacedKept
  <2>4. disk'[g].cpref = c BY <1>1, <2>1
  <2>5. QED BY <2>3, <2>4
<1>2. ASSUME NEW g \in Fields, NEW key \in Tokens, disk'[g].ttrie \notin {None, Begun}
      PROVE  Exact(StreamOf(disk[g], key), g, key)'
  <2>1. PICK r : r = StreamOf(disk[g], key) OBVIOUS
  <2>2. Exact(r, g, key) BY <1>2, <2>1 DEF WriterInv, Stored
  <2>3. Exact(r, g, key)' BY <2>2, CountedKept
  <2>4. disk'[g].cpref = disk[g].cpref /\ disk'[g].ttrie = disk[g].ttrie BY <1>2
  <2>5. StreamOf(disk[g], key)' = r BY <2>1, <2>4 DEF StreamOf
  <2>6. QED BY <2>3, <2>5
<1>3. ASSUME NEW g \in Fields, disk'[g].meta # None
      PROVE  disk'[g].ttrie # None \/ \E o \in DOMAIN objects : objects[o].field = g
  <2>1. CASE g = Table.field BY <2>1, ClosingFacts
  <2>2. CASE g # Table.field BY <1>3, <2>2 DEF WriterInv, Stored
  <2>3. QED BY <2>1, <2>2
<1>4. ASSUME NEW o \in DOMAIN objects, objects[o].buffers # <<>>
      PROVE  disk'[objects[o].field].ttrie = None
  <2>1. disk[objects[o].field].ttrie = None BY <1>4 DEF WriterInv, Stored
  <2>2. objects[o].field \in Fields
    <3>1. objects \in Seq(Tables) BY ClosingFacts
    <3>2. objects[o] \in Tables BY <3>1
    <3>3. QED BY <3>2, TableIs
  <2>3. QED BY <2>1, <2>2
<1>5. QED BY <1>1, <1>2, <1>3, <1>4 DEF Stored

LEMMA StartOptimizeInv ==
  ASSUME WriterInv, StartOptimize
  PROVE  WriterInv'
<1>1. PICK f, v : f = Table.field /\ v = [messages |-> Total(Table), keys |-> Len(Table.buffers)]
  OBVIOUS
<1>2. /\ phase = "closing" /\ objects # <<>> /\ converting.step = "start"
      /\ disk' = [disk EXCEPT ![f].meta = v]
      /\ converting' = [step |-> "trie", left |-> {}, trie |-> Nothing]
      /\ phase' = phase /\ messages' = messages /\ raised' = raised /\ stored' = stored
      /\ append' = append /\ objects' = objects /\ key_tables' = key_tables
  BY <1>1 DEF StartOptimize, Closing
<1>3. Master' /\ Appending' /\ Stack' /\ Counts' BY <1>2, ClosingKept
<1>4. Stored'
  <2>1. f \in Fields /\ Disk(disk) BY <1>1, <1>2, ClosingFacts
  <2>2. /\ Disk(disk)' /\ disk'[f].ttrie = disk[f].ttrie /\ disk'[f].cpref = disk[f].cpref
        /\ \A g \in Fields : g # f => disk'[g] = disk[g]
    BY <1>2, <2>1 DEF Disk
  <2>3. converting'.step = "trie" BY <1>2
  <2>4. /\ \A g \in Fields : disk'[g].ttrie = disk[g].ttrie
        /\ \A g \in Fields : disk'[g].cpref = disk[g].cpref
        /\ \A g \in Fields : disk'[g].meta # None => disk[g].meta # None \/ g = Table.field
    BY <1>1, <2>2
  <2>5. QED BY <1>2, <2>2, <2>3, <2>4, StoredMoves
<1>5. Conversion'
  <2>1. phase' = "closing" /\ converting'.step = "trie" BY <1>2
  <2>2. QED BY <2>1 DEF Conversion
<1>6. QED BY <1>3, <1>4, <1>5 DEF WriterInv

LEMMA ConvertTrieInv ==
  ASSUME WriterInv, ConvertTrie
  PROVE  WriterInv'
<1>1. phase = "closing" /\ objects # <<>> /\ converting.step = "trie"
  BY DEF ConvertTrie, Closing
<1>2. CASE Table.buffers = <<>> BY <1>2, DieInv DEF ConvertTrie
<1>3. CASE Table.buffers # <<>>
  <2>1. PICK t : t = Table OBVIOUS
  <2>2. /\ converting' = [step |-> "flush", left |-> Keys(t),
                          trie |-> [k \in Keys(t) |-> BufferOf(t, k)]]
        /\ phase' = phase /\ messages' = messages /\ raised' = raised /\ stored' = stored
        /\ append' = append /\ objects' = objects /\ key_tables' = key_tables
        /\ disk' = disk
    BY <1>3, <2>1 DEF ConvertTrie
  <2>3. Master' /\ Appending' /\ Stack' /\ Counts' BY <1>1, <2>2, ClosingKept
  <2>4. converting'.step = "flush" BY <2>2
  <2>5. Stored'
    <3>1. Disk(disk)' BY <1>1, <2>2, ClosingFacts
    <3>2. QED BY <1>1, <2>2, <2>4, <3>1, StoredMoves
  <2>6. Conversion'
    <3>1. t \in Tables /\ Table' = t BY <1>1, <2>1, <2>2, ClosingFacts DEF Table, Closed
    <3>2. \A k : BufferOf(t, k) \in Nat BY <3>1, BufferIs, TableIs
    <3>3. /\ converting'.left = Keys(t) /\ converting'.trie \in [Keys(t) -> Nat]
          /\ \A k \in Keys(t) : converting'.trie[k] = BufferOf(t, k)
          /\ converting' = [step |-> converting'.step, left |-> converting'.left,
                            trie |-> converting'.trie]
      BY <2>2, <3>2
    <3>4. QED BY <1>1, <1>3, <2>1, <2>2, <2>4, <3>1, <3>3 DEF Conversion
  <2>7. QED BY <2>3, <2>5, <2>6 DEF WriterInv
<1>4. QED BY <1>2, <1>3

\* What is known while a table is converted
LEMMA ConversionFacts ==
  ASSUME WriterInv, phase = "closing", objects # <<>>,
         converting.step \in {"flush", "next", "copy", "write"}
  PROVE  /\ Table.buffers # <<>> /\ converting.left \subseteq Keys(Table)
         /\ converting.trie \in [Keys(Table) -> Nat]
         /\ converting = [step |-> converting.step, left |-> converting.left,
                          trie |-> converting.trie]
         /\ \A k \in converting.left : converting.trie[k] = BufferOf(Table, k)
         /\ disk[Table.field].ttrie =
              IF converting.step = "write" THEN disk[Table.field].ttrie ELSE None
BY ClosingFacts DEF WriterInv, Conversion, Stored

LEMMA FlushBuffersInv ==
  ASSUME WriterInv, FlushBuffers
  PROVE  WriterInv'
<1>1. PICK t, f, v : /\ t = Table /\ f = Table.field
                     /\ v = [i \in DOMAIN Table.buffers |-> Table.buffers[i].refs]
  OBVIOUS
<1>2. /\ phase = "closing" /\ objects # <<>> /\ converting.step = "flush"
      /\ disk' = [disk EXCEPT ![f].dpref = v, ![f].cpref = <<>>]
      /\ converting' = [converting EXCEPT !.step = "next"]
      /\ phase' = phase /\ messages' = messages /\ raised' = raised /\ stored' = stored
      /\ append' = append /\ objects' = objects /\ key_tables' = key_tables
  BY <1>1 DEF FlushBuffers, Closing
<1>3. Master' /\ Appending' /\ Stack' /\ Counts' BY <1>2, ClosingKept
<1>4. f \in Fields /\ Disk(disk) /\ disk[f].ttrie = None
  BY <1>1, <1>2, ClosingFacts, ConversionFacts
<1>5. /\ Disk(disk)' /\ disk'[f].ttrie = disk[f].ttrie /\ disk'[f].meta = disk[f].meta
      /\ disk'[f].dpref = v /\ disk'[f].cpref = <<>>
      /\ \A g \in Fields : g # f => disk'[g] = disk[g]
  BY <1>2, <1>4 DEF Disk
<1>6. /\ converting'.step = "next" /\ converting'.left = converting.left
      /\ converting'.trie = converting.trie
      /\ converting' = [step |-> converting'.step, left |-> converting'.left,
                        trie |-> converting'.trie]
  <2>1. PICK l, m : converting = [step |-> "flush", left |-> l, trie |-> m]
    BY <1>2, ConversionFacts
  <2>2. converting' = [step |-> "next", left |-> l, trie |-> m] BY <1>2, <2>1
  <2>3. QED BY <2>1, <2>2
<1>7. Stored'
  <2>1. /\ \A g \in Fields : disk'[g].ttrie = disk[g].ttrie
        /\ \A g \in Fields : disk[g].ttrie # None => disk'[g].cpref = disk[g].cpref
        /\ \A g \in Fields : disk'[g].meta # None => disk[g].meta # None
    BY <1>4, <1>5
  <2>2. QED BY <1>2, <1>5, <1>6, <2>1, StoredMoves
<1>8. Conversion'
  <2>1. Table' = t /\ Files' = disk'[f] BY <1>1, <1>2 DEF Table, Closed, Files
  <2>2. converting.left = Keys(t) BY <1>1, <1>2 DEF WriterInv, Conversion
  <2>3. Streams1(<<>>)' BY DEF Streams1
  <2>4. /\ t.buffers # <<>> /\ converting.trie \in [Keys(t) -> Nat]
        /\ \A k \in converting.left : converting.trie[k] = BufferOf(t, k)
    BY <1>1, <1>2, ConversionFacts
  <2>5. QED BY <1>1, <1>2, <1>5, <1>6, <2>1, <2>2, <2>3, <2>4 DEF Conversion
<1>9. QED BY <1>3, <1>7, <1>8 DEF WriterInv

\* The references a key's buffer gave to the dpref file
LEMMA RefsOfKey ==
  ASSUME NEW t \in Tables, Table1(t), NEW k \in Keys(t)
  PROVE  /\ BufferOf(t, k) \in DOMAIN t.buffers /\ RefsOf(t, k) = t.buffers[BufferOf(t, k)].refs
         /\ RefsOf(t, k) \in Seq(Nat) /\ Len(RefsOf(t, k)) > 0 /\ Placed(RefsOf(t, k))
<1>1. BufferOf(t, k) > 0 /\ BufferOf(t, k) \in DOMAIN t.buffers BY KeysAre, BufferIs, TableIs
<1>2. RefsOf(t, k) = t.buffers[BufferOf(t, k)].refs BY <1>1 DEF RefsOf
<1>3. RefsOf(t, k) # <<>> /\ Placed(RefsOf(t, k)) BY <1>1, <1>2 DEF Table1
<1>4. RefsOf(t, k) \in Seq(Nat) BY RefsOfTyped
<1>5. QED BY <1>1, <1>2, <1>3, <1>4, SequenceIs

\* The next of the keys is one of them.
LEMMA NextKeyIs ==
  ASSUME converting.left \subseteq Tokens, converting.left # {}
  PROVE  NextKey \in converting.left
<1>1. PICK left : left = converting.left OBVIOUS
<1>2. left \in SUBSET Nat /\ left # {} BY <1>1, TokensAssumption
<1>3. \E x \in left : \A y \in left : x <= y BY <1>2, LeastNatural
<1>4. Min(left) \in left BY <1>3 DEF Min
<1>5. QED BY <1>1, <1>4 DEF NextKey

LEMMA StartStreamInv ==
  ASSUME WriterInv, StartStream
  PROVE  WriterInv'
<1>1. PICK t, f, c : t = Table /\ f = Table.field /\ c = Files.cpref OBVIOUS
<1>2. /\ phase = "closing" /\ objects # <<>> /\ converting.step = "next" /\ converting.left # {}
      /\ disk' = [disk EXCEPT ![f].cpref = Append(@, <<>>)]
      /\ converting' = [converting EXCEPT !.step = "copy"]
      /\ phase' = phase /\ messages' = messages /\ raised' = raised /\ stored' = stored
      /\ append' = append /\ objects' = objects /\ key_tables' = key_tables
  BY <1>1 DEF StartStream, Closing
<1>3. Master' /\ Appending' /\ Stack' /\ Counts' BY <1>2, ClosingKept
<1>4. /\ f \in Fields /\ Disk(disk) /\ disk[f].ttrie = None /\ c = disk[f].cpref
      /\ t \in Tables /\ Table1(t)
  BY <1>1, <1>2, ClosingFacts, ConversionFacts
<1>5. /\ Disk(disk)' /\ disk'[f].ttrie = disk[f].ttrie /\ disk'[f].meta = disk[f].meta
      /\ disk'[f].dpref = disk[f].dpref /\ disk'[f].cpref = Append(c, <<>>)
      /\ \A g \in Fields : g # f => disk'[g] = disk[g]
  BY <1>2, <1>4 DEF Disk
<1>6. /\ converting'.step = "copy" /\ converting'.left = converting.left
      /\ converting'.trie = converting.trie
      /\ converting' = [step |-> converting'.step, left |-> converting'.left,
                        trie |-> converting'.trie]
  <2>1. PICK l, m : converting = [step |-> "next", left |-> l, trie |-> m]
    BY <1>2, ConversionFacts
  <2>2. converting' = [step |-> "copy", left |-> l, trie |-> m] BY <1>2, <2>1
  <2>3. QED BY <2>1, <2>2
<1>7. Stored'
  <2>1. /\ \A g \in Fields : disk'[g].ttrie = disk[g].ttrie
        /\ \A g \in Fields : disk[g].ttrie # None => disk'[g].cpref = disk[g].cpref
        /\ \A g \in Fields : disk'[g].meta # None => disk[g].meta # None
    BY <1>4, <1>5
  <2>2. QED BY <1>2, <1>5, <1>6, <2>1, StoredMoves
<1>8. Conversion'
  <2>1. Table' = t /\ Files' = disk'[f] /\ NextKey' = NextKey
    BY <1>1, <1>2, <1>6 DEF Table, Closed, Files, NextKey
  <2>2. /\ t.buffers # <<>> /\ converting.left \subseteq Keys(t)
        /\ converting.trie \in [Keys(t) -> Nat]
        /\ \A k \in converting.left : converting.trie[k] = BufferOf(t, k)
    BY <1>1, <1>2, ConversionFacts
  <2>3. /\ disk[f].dpref = [i \in DOMAIN t.buffers |-> t.buffers[i].refs]
        /\ Streams1(c)
        /\ \A k \in Keys(t) \ converting.left :
             converting.trie[k] \in DOMAIN c /\ c[converting.trie[k]] = RefsOf(t, k)
    BY <1>1, <1>2, <1>4, ClosingFacts DEF WriterInv, Conversion, Converted
  <2>4. PICK d : d = Append(c, <<>>) OBVIOUS
  <2>5. /\ c \in Seq(Seq(Nat)) /\ Len(c) \in Nat /\ DOMAIN c = 1 .. Len(c)
        /\ d \in Seq(Seq(Nat)) /\ Len(d) = Len(c) + 1 /\ DOMAIN d = 1 .. Len(c) + 1
        /\ d[Len(d)] = <<>> /\ (\A i \in 1 .. Len(c) : d[i] = c[i]) /\ d # <<>>
    <3>1. c \in Seq(Seq(Nat)) /\ <<>> \in Seq(Nat) BY <2>3 DEF Streams1
    <3>2. Len(c) \in Nat /\ DOMAIN c = 1 .. Len(c) BY <3>1, SequenceIs
    <3>3. /\ d \in Seq(Seq(Nat)) /\ Len(d) = Len(c) + 1 /\ d[Len(c) + 1] = <<>>
          /\ \A i \in 1 .. Len(c) : d[i] = c[i]
      BY <2>4, <3>1, AppendIs
    <3>4. DOMAIN d = 1 .. Len(d) /\ (d = <<>> <=> Len(d) = 0) BY <3>3, SequenceIs
    <3>5. QED BY <3>1, <3>2, <3>3, <3>4
  <2>6. Streams1(d)'
    <3>1. Placed(<<>>) BY DEF Placed
    <3>2. \A i \in DOMAIN d : i \in DOMAIN c \/ i = Len(d) BY <2>5
    <3>3. Streams1(d) BY <2>3, <2>5, <3>1, <3>2 DEF Streams1
    <3>4. QED BY <1>2, <3>3, PlacedKept
  <2>7. ASSUME NEW k \in Keys(t) \ converting.left
        PROVE  /\ converting.trie[k] \in DOMAIN d /\ converting.trie[k] < Len(d)
               /\ d[converting.trie[k]] = RefsOf(t, k)
    BY <2>3, <2>5
  <2>8. Begins(d[Len(d)], RefsOf(t, NextKey))
    <3>1. NextKey \in Keys(t) BY <1>2, <1>4, <2>2, NextKeyIs, KeysAre
    <3>2. Len(RefsOf(t, NextKey)) > 0 BY <1>4, <3>1, RefsOfKey
    <3>3. Len(<<>>) = 0 /\ DOMAIN <<>> = {} OBVIOUS
    <3>4. QED BY <2>5, <3>2, <3>3 DEF Begins
  <2>9. disk'[f].cpref = d BY <1>5, <2>4
  <2>10. ASSUME NEW k \in Keys(t) \ converting.left PROVE Converted(k)'
    BY <1>6, <2>1, <2>7, <2>9 DEF Converted
  <2>11. QED
    BY <1>2, <1>5, <1>6, <2>1, <2>2, <2>3, <2>5, <2>6, <2>7, <2>8, <2>9, <2>10 DEF Conversion
<1>9. QED BY <1>3, <1>7, <1>8 DEF WriterInv

\* What is handed over continues the stream, and at the end completes it.
LEMMA ChunkGoesOn ==
  ASSUME NEW refs \in Seq(Nat), NEW part \in Seq(Nat), Begins(part, refs)
  PROVE  LET more == part \o HandedOver(refs, Len(part)) IN
         /\ more \in Seq(Nat)
         /\ IF CopyDone(refs, Len(part)) THEN more = refs ELSE Begins(more, refs)
<1>1. PICK done, len, e : /\ done = Len(part) /\ len = Len(refs)
                          /\ e = IF done + Chunk < len THEN done + Chunk ELSE len
  OBVIOUS
<1>2. done \in Nat /\ len \in Nat /\ Chunk \in Nat \ {0} BY <1>1, BoundsAssumption
<1>3. done < len /\ (\A i \in 1 .. done : part[i] = refs[i])
      /\ DOMAIN part = 1 .. done /\ DOMAIN refs = 1 .. len
  BY <1>1, SequenceIs DEF Begins
<1>4. e \in Nat /\ done < e /\ e <= len BY <1>1, <1>2, <1>3
<1>5. PICK x : x = SubSeq(refs, done + 1, e) OBVIOUS
<1>6. /\ x \in Seq(Nat) /\ Len(x) = e - done
      /\ \A i \in 1 .. e - done : x[i] = refs[done + i]
  <2>1. \A i \in done + 1 .. e : refs[i] \in Nat BY <1>1, <1>2, <1>3, <1>4, SequenceIs
  <2>2. PICK m \in Int : m = done + 1 BY <1>2
  <2>3. /\ SubSeq(refs, m, e) \in Seq(Nat)
        /\ Len(SubSeq(refs, m, e)) = IF m <= e THEN e - m + 1 ELSE 0
        /\ \A i \in 1 .. e - m + 1 : SubSeq(refs, m, e)[i] = refs[m + i - 1]
    BY <1>4, <2>1, <2>2, SubSeqProperties
  <2>4. m <= e /\ e - m + 1 = e - done BY <1>2, <1>4, <2>2
  <2>5. \A i \in 1 .. e - done : m + i - 1 = done + i BY <1>2, <1>4, <2>2
  <2>6. QED BY <1>5, <2>2, <2>3, <2>4, <2>5
<1>7. PICK more : more = part \o x OBVIOUS
<1>8. /\ more \in Seq(Nat) /\ Len(more) = e
      /\ \A i \in 1 .. e : more[i] = refs[i]
  <2>1. /\ more \in Seq(Nat) /\ Len(more) = done + (e - done)
        /\ \A i \in 1 .. done + (e - done) :
             more[i] = IF i <= done THEN part[i] ELSE x[i - done]
    <3>1. /\ part \o x \in Seq(Nat) /\ Len(part \o x) = Len(part) + Len(x)
          /\ \A i \in 1 .. Len(part) + Len(x) :
               (part \o x)[i] = IF i <= Len(part) THEN part[i] ELSE x[i - Len(part)]
      BY <1>6, ConcatProperties
    <3>2. QED BY <1>1, <1>6, <1>7, <3>1
  <2>2. ASSUME NEW i \in 1 .. e PROVE more[i] = refs[i]
    <3>1. CASE i \in 1 .. done BY <1>2, <1>3, <1>4, <2>1, <3>1
    <3>2. CASE i \notin 1 .. done
      <4>1. i - done \in 1 .. e - done BY <1>2, <1>4, <3>2
      <4>2. more[i] = x[i - done] BY <1>2, <1>4, <2>1, <3>2
      <4>3. done + (i - done) = i BY <1>2, <1>4
      <4>4. QED BY <1>6, <4>1, <4>2, <4>3
    <3>3. QED BY <3>1, <3>2
  <2>3. QED BY <1>2, <1>4, <2>1, <2>2
<1>9. more = part \o HandedOver(refs, Len(part)) BY <1>1, <1>5, <1>7 DEF HandedOver
<1>10. DOMAIN more = 1 .. e BY <1>8, SequenceIs
<1>11. CASE CopyDone(refs, Len(part))
  <2>1. e = len BY <1>1, <1>2, <1>11 DEF CopyDone
  <2>2. more = refs BY <1>1, <1>8, <2>1, SeqEqual
  <2>3. QED BY <1>8, <1>9, <1>11, <2>2
<1>12. CASE ~CopyDone(refs, Len(part))
  <2>1. e < len BY <1>1, <1>2, <1>12 DEF CopyDone
  <2>2. Begins(more, refs) BY <1>1, <1>8, <1>10, <2>1 DEF Begins
  <2>3. QED BY <1>8, <1>9, <1>12, <2>2
<1>13. QED BY <1>11, <1>12

LEMMA CopyChunkInv ==
  ASSUME WriterInv, CopyChunk
  PROVE  WriterInv'
<1>1. PICK t, f, c, key, refs, n : /\ t = Table /\ f = Table.field /\ c = Files.cpref
                                   /\ key = NextKey /\ n = Len(c)
                                   /\ refs = Files.dpref[converting.trie[key]]
  OBVIOUS
<1>2. PICK part, more : part = Last(c) /\ more = HandedOver(refs, Len(part)) OBVIOUS
<1>3. PICK l, m : l = converting.left /\ m = converting.trie OBVIOUS
<1>4. /\ phase = "closing" /\ objects # <<>> /\ converting.step = "copy"
      /\ disk' = [disk EXCEPT ![f].cpref[n] = @ \o more]
      /\ converting' = IF ~CopyDone(refs, Len(part)) THEN converting
                       ELSE [step |-> "next", left |-> l \ {key}, trie |-> [m EXCEPT ![key] = n]]
      /\ phase' = phase /\ messages' = messages /\ raised' = raised /\ stored' = stored
      /\ append' = append /\ objects' = objects /\ key_tables' = key_tables
  BY <1>1, <1>2, <1>3 DEF CopyChunk, Closing
<1>5. Master' /\ Appending' /\ Stack' /\ Counts' BY <1>4, ClosingKept
<1>6. /\ f \in Fields /\ Disk(disk) /\ disk[f].ttrie = None /\ c = disk[f].cpref
      /\ t \in Tables /\ Table1(t)
  BY <1>1, <1>4, ClosingFacts, ConversionFacts
<1>7. /\ t.buffers # <<>> /\ l \subseteq Keys(t) /\ m \in [Keys(t) -> Nat]
      /\ converting = [step |-> "copy", left |-> l, trie |-> m]
      /\ \A k \in l : m[k] = BufferOf(t, k)
  BY <1>1, <1>3, <1>4, ConversionFacts
<1>8. /\ disk[f].dpref = [i \in DOMAIN t.buffers |-> t.buffers[i].refs]
      /\ Streams1(c) /\ l # {} /\ c # <<>> /\ Begins(c[n], RefsOf(t, key))
      /\ \A k \in Keys(t) \ l : m[k] \in DOMAIN c /\ c[m[k]] = RefsOf(t, k) /\ m[k] < n
  BY <1>1, <1>3, <1>4, <1>6, ClosingFacts DEF WriterInv, Conversion, Converted
<1>9. /\ c \in Seq(Seq(Nat)) /\ n \in Nat /\ n \in 1 .. n /\ DOMAIN c = 1 .. n
      /\ c[n] = part /\ part \in Seq(Nat) /\ Placed(part)
  <2>1. c \in Seq(Seq(Nat)) /\ \A i \in DOMAIN c : Placed(c[i]) BY <1>8 DEF Streams1
  <2>2. n \in Nat /\ n \in 1 .. n /\ DOMAIN c = 1 .. n BY <1>1, <1>8, <2>1, SequenceIs
  <2>3. c[n] = part BY <1>1, <1>2 DEF Last
  <2>4. QED BY <2>1, <2>2, <2>3
<1>10. key \in l /\ key \in Keys(t) BY <1>1, <1>3, <1>6, <1>7, <1>8, NextKeyIs, KeysAre
<1>11. refs = RefsOf(t, key) /\ refs \in Seq(Nat) /\ Placed(refs)
  <2>1. /\ BufferOf(t, key) \in DOMAIN t.buffers
        /\ RefsOf(t, key) = t.buffers[BufferOf(t, key)].refs
        /\ RefsOf(t, key) \in Seq(Nat) /\ Placed(RefsOf(t, key))
    BY <1>6, <1>10, RefsOfKey
  <2>2. refs = disk[f].dpref[m[key]] BY <1>1, <1>3, <1>4, ClosingFacts
  <2>3. QED BY <1>7, <1>8, <1>10, <2>1, <2>2
<1>12. PICK whole : whole = part \o more OBVIOUS
<1>13. /\ whole \in Seq(Nat)
       /\ IF CopyDone(refs, Len(part)) THEN whole = refs ELSE Begins(whole, refs)
  BY <1>2, <1>8, <1>9, <1>11, <1>12, ChunkGoesOn
<1>14. Placed(whole)
  <2>1. CASE CopyDone(refs, Len(part)) BY <1>11, <1>13, <2>1
  <2>2. CASE ~CopyDone(refs, Len(part))
    <3>1. DOMAIN whole = 1 .. Len(whole) /\ DOMAIN refs = 1 .. Len(refs)
          /\ Len(whole) \in Nat /\ Len(refs) \in Nat
      BY <1>11, <1>13, SequenceIs
    <3>2. Len(whole) < Len(refs) /\ \A i \in DOMAIN whole : whole[i] = refs[i]
      BY <1>13, <2>2 DEF Begins
    <3>3. \A i \in DOMAIN whole : i \in DOMAIN refs BY <3>1, <3>2
    <3>4. QED BY <1>11, <1>13, <3>2, <3>3 DEF Placed
  <2>3. QED BY <2>1, <2>2
<1>15. PICK d : d = [c EXCEPT ![n] = whole] OBVIOUS
<1>16. /\ d \in Seq(Seq(Nat)) /\ Len(d) = n /\ DOMAIN d = 1 .. n /\ d[n] = whole
       /\ \A i \in 1 .. n : i # n => d[i] = c[i]
  <2>1. /\ d \in Seq(Seq(Nat)) /\ Len(d) = Len(c)
        /\ \A i \in 1 .. Len(c) : d[i] = IF i = n THEN whole ELSE c[i]
    BY <1>1, <1>9, <1>13, <1>15, ExceptSeq
  <2>2. DOMAIN d = 1 .. Len(d) BY <2>1, SequenceIs
  <2>3. QED BY <1>1, <1>9, <2>1, <2>2
<1>17. /\ Disk(disk)' /\ disk'[f].ttrie = disk[f].ttrie /\ disk'[f].meta = disk[f].meta
       /\ disk'[f].dpref = disk[f].dpref /\ disk'[f].cpref = d
       /\ \A g \in Fields : g # f => disk'[g] = disk[g]
  <2>1. disk' = [disk EXCEPT ![f].cpref[n] = whole] BY <1>4, <1>6, <1>9, <1>12 DEF Disk
  <2>2. QED BY <1>6, <1>9, <1>15, <2>1 DEF Disk
<1>18. converting'.step \in {"copy", "next"} BY <1>4
<1>19. Stored'
  <2>1. /\ \A g \in Fields : disk'[g].ttrie = disk[g].ttrie
        /\ \A g \in Fields : disk[g].ttrie # None => disk'[g].cpref = disk[g].cpref
        /\ \A g \in Fields : disk'[g].meta # None => disk[g].meta # None
    BY <1>6, <1>17
  <2>2. QED BY <1>4, <1>17, <1>18, <2>1, StoredMoves
<1>20. Streams1(d)'
  <2>1. \A i \in 1 .. n : Placed(d[i]) BY <1>8, <1>9, <1>14, <1>16 DEF Streams1
  <2>2. Streams1(d) BY <1>16, <2>1 DEF Streams1
  <2>3. QED BY <1>4, <2>2, PlacedKept
<1>21. Table' = t /\ Files' = disk'[f] BY <1>1, <1>4 DEF Table, Closed, Files
<1>22. ASSUME NEW k \in Keys(t) \ l
       PROVE  m[k] \in DOMAIN d /\ d[m[k]] = RefsOf(t, k) /\ m[k] < Len(d)
  BY <1>8, <1>9, <1>16
<1>23. CASE ~CopyDone(refs, Len(part))
  <2>1. converting' = converting BY <1>4, <1>23
  <2>2. NextKey' = key BY <1>1, <2>1 DEF NextKey
  <2>3. Begins(d[Len(d)], RefsOf(t, key)) BY <1>11, <1>13, <1>16, <1>23
  <2>4. d # <<>> BY <1>9, <1>16, SequenceIs
  <2>5. ASSUME NEW k \in Keys(t) \ l PROVE Converted(k)'
    BY <1>3, <1>17, <1>21, <1>22, <2>1 DEF Converted
  <2>6. Conversion'
    BY <1>3, <1>4, <1>7, <1>8, <1>17, <1>20, <1>21, <1>22, <2>1, <2>2, <2>3, <2>4, <2>5
    DEF Conversion
  <2>7. QED BY <1>5, <1>19, <2>6 DEF WriterInv
<1>24. CASE CopyDone(refs, Len(part))
  <2>1. PICK m2 : m2 = [m EXCEPT ![key] = n] OBVIOUS
  <2>2. converting' = [step |-> "next", left |-> l \ {key}, trie |-> m2] BY <1>4, <1>24, <2>1
  <2>3. /\ converting'.step = "next" /\ converting'.left = l \ {key} /\ converting'.trie = m2
        /\ converting' = [step |-> converting'.step, left |-> converting'.left,
                          trie |-> converting'.trie]
    BY <2>2
  <2>4. /\ m2 \in [Keys(t) -> Nat] /\ m2[key] = n
        /\ \A k \in Keys(t) : k # key => m2[k] = m[k]
    BY <1>7, <1>9, <1>10, <2>1
  <2>5. ASSUME NEW k \in Keys(t) \ (l \ {key})
        PROVE  m2[k] \in DOMAIN d /\ d[m2[k]] = RefsOf(t, k)
    <3>1. CASE k = key BY <1>9, <1>11, <1>13, <1>16, <1>24, <2>4, <3>1
    <3>2. CASE k # key BY <1>22, <2>4, <3>2
    <3>3. QED BY <3>1, <3>2
  <2>6. ASSUME NEW k \in Keys(t) \ (l \ {key}) PROVE Converted(k)'
    BY <1>17, <1>21, <2>3, <2>5 DEF Converted
  <2>7. \A k \in l \ {key} : m2[k] = BufferOf(t, k) BY <1>7, <2>4
  <2>8. Conversion'
    <3>1. PICK l2 : l2 = l \ {key} OBVIOUS
    <3>2. /\ converting'.step = "next" /\ converting'.left = l2 /\ converting'.trie = m2
          /\ converting' = [step |-> converting'.step, left |-> converting'.left,
                            trie |-> converting'.trie]
          /\ l2 \subseteq Keys(t)
          /\ \A k \in l2 : m2[k] = BufferOf(t, k)
          /\ \A k \in Keys(t) \ l2 : Converted(k)'
      BY <1>7, <2>3, <2>6, <2>7, <3>1
    <3>3. /\ phase' = "closing" /\ Table' = t /\ t.buffers # <<>> /\ m2 \in [Keys(t) -> Nat]
          /\ Files' = disk'[f] /\ disk'[f].cpref = d
          /\ disk'[f].dpref = [i \in DOMAIN t.buffers |-> t.buffers[i].refs]
      BY <1>4, <1>7, <1>8, <1>17, <1>21, <2>4
    <3>4. QED BY <1>20, <3>2, <3>3 DEF Conversion
  <2>9. QED BY <1>5, <1>19, <2>8 DEF WriterInv
<1>25. QED BY <1>23, <1>24

\* The field of a table that has keys is of no other table that has.
LEMMA OneTable ==
  ASSUME WriterInv, NEW o \in DOMAIN objects, NEW p \in DOMAIN objects,
         objects[o].buffers # <<>>, objects[p].buffers # <<>>, objects[o].field = objects[p].field
  PROVE  o = p
BY DEF WriterInv, Stack

LEMMA StartTtrieInv ==
  ASSUME WriterInv, StartTtrie
  PROVE  WriterInv'
<1>1. PICK t, f : t = Table /\ f = Table.field OBVIOUS
<1>2. /\ phase = "closing" /\ objects # <<>> /\ converting.step = "next" /\ converting.left = {}
      /\ disk' = [disk EXCEPT ![f].dpref = None, ![f].ttrie = Begun]
      /\ converting' = [converting EXCEPT !.step = "write"]
      /\ phase' = phase /\ messages' = messages /\ raised' = raised /\ stored' = stored
      /\ append' = append /\ objects' = objects /\ key_tables' = key_tables
  BY <1>1 DEF StartTtrie, Closing
<1>3. Master' /\ Appending' /\ Stack' /\ Counts' BY <1>2, ClosingKept
<1>4. /\ f \in Fields /\ Disk(disk) /\ disk[f].ttrie = None /\ t.buffers # <<>>
      /\ Closed \in DOMAIN objects /\ t = objects[Closed] /\ objects \in Seq(Tables)
      /\ \A o \in DOMAIN objects : objects[o] \in Tables
  BY <1>1, <1>2, ClosingFacts, ConversionFacts
<1>5. PICK c : c = disk[f].cpref OBVIOUS
<1>6. /\ converting.trie \in [Keys(t) -> Nat] /\ Streams1(c)
      /\ \A k \in Keys(t) : Converted(k)
  BY <1>1, <1>2, <1>5, ClosingFacts, ConversionFacts DEF WriterInv, Conversion
<1>7. /\ Disk(disk)' /\ disk'[f].ttrie = Begun /\ disk'[f].meta = disk[f].meta
      /\ disk'[f].cpref = c /\ \A g \in Fields : g # f => disk'[g] = disk[g]
  BY <1>2, <1>4, <1>5 DEF Disk
<1>8. /\ converting'.step = "write" /\ converting'.left = {}
      /\ converting'.trie = converting.trie
      /\ converting' = [step |-> converting'.step, left |-> converting'.left,
                        trie |-> converting'.trie]
  <2>1. PICK m : converting = [step |-> "next", left |-> {}, trie |-> m]
    BY <1>2, ConversionFacts
  <2>2. converting' = [step |-> "write", left |-> {}, trie |-> m] BY <1>2, <2>1
  <2>3. QED BY <2>1, <2>2
<1>9. Stored'
  <2>1. ASSUME NEW g \in Fields, disk'[g].ttrie # None PROVE Streams1(disk[g].cpref)'
    <3>1. PICK s : s = disk[g].cpref OBVIOUS
    <3>2. Streams1(s) BY <1>5, <1>6, <1>7, <2>1, <3>1 DEF WriterInv, Stored
    <3>3. Streams1(s)' BY <1>2, <3>2, PlacedKept
    <3>4. disk'[g].cpref = s BY <1>5, <1>7, <3>1
    <3>5. QED BY <3>3, <3>4
  <2>2. ASSUME NEW g \in Fields, NEW key \in Tokens, disk'[g].ttrie \notin {None, Begun}
        PROVE  Exact(StreamOf(disk[g], key), g, key)'
    <3>1. g # f /\ disk'[g] = disk[g] BY <1>7, <2>2
    <3>2. PICK r : r = StreamOf(disk[g], key) OBVIOUS
    <3>3. Exact(r, g, key) BY <2>2, <3>1, <3>2 DEF WriterInv, Stored
    <3>4. Exact(r, g, key)' BY <1>2, <3>3, CountedKept
    <3>5. StreamOf(disk[g], key)' = r BY <3>1, <3>2 DEF StreamOf
    <3>6. QED BY <3>4, <3>5
  <2>3. ASSUME NEW g \in Fields, disk'[g].meta # None
        PROVE  disk'[g].ttrie # None \/ \E o \in DOMAIN objects : objects[o].field = g
    <3>1. CASE g = f BY <1>1, <1>4, <3>1
    <3>2. CASE g # f BY <1>7, <2>3, <3>2 DEF WriterInv, Stored
    <3>3. QED BY <3>1, <3>2
  <2>4. ASSUME NEW o \in DOMAIN objects, objects[o].buffers # <<>>
        PROVE  \/ disk'[objects[o].field].ttrie = None
               \/ o = Closed /\ disk'[objects[o].field].ttrie = Begun
    <3>1. CASE o = Closed BY <1>1, <1>4, <1>7, <3>1
    <3>2. CASE o # Closed
      <4>1. objects[o].field # f BY <1>1, <1>4, <2>4, <3>2, OneTable
      <4>2. objects[o].field \in Fields BY <1>4, TableIs
      <4>3. disk[objects[o].field].ttrie = None BY <1>2, <2>4, <3>2 DEF WriterInv, Stored
      <4>4. QED BY <1>7, <4>1, <4>2, <4>3
    <3>3. QED BY <3>1, <3>2
  <2>5. Closed' = Closed BY <1>2 DEF Closed
  <2>6. QED BY <1>2, <1>7, <1>8, <2>1, <2>2, <2>3, <2>4, <2>5 DEF Stored
<1>10. Conversion'
  <2>1. Table' = t /\ Files' = disk'[f] /\ Files = disk[f]
    BY <1>1, <1>2, ClosingFacts DEF Table, Closed, Files
  <2>2. Streams1(c)' BY <1>2, <1>6, PlacedKept
  <2>3. ASSUME NEW k \in Keys(t) PROVE Converted(k)'
    BY <1>1, <1>5, <1>6, <1>7, <1>8, <2>1 DEF Converted
  <2>4. QED BY <1>2, <1>4, <1>6, <1>7, <1>8, <2>1, <2>2, <2>3 DEF Conversion
<1>11. QED BY <1>3, <1>9, <1>10 DEF WriterInv

LEMMA FinishTtrieInv ==
  ASSUME WriterInv, FinishTtrie
  PROVE  WriterInv'
<1>1. PICK t, f, m, n : t = Table /\ f = Table.field /\ m = converting.trie /\ n = Closed OBVIOUS
<1>2. /\ phase = "closing" /\ objects # <<>> /\ converting.step = "write"
      /\ disk' = [disk EXCEPT ![f].ttrie = m]
      /\ converting' = AtStart /\ objects' = RemoveAt(objects, n)
      /\ phase' = phase /\ messages' = messages /\ raised' = raised /\ stored' = stored
      /\ append' = append /\ key_tables' = key_tables
  BY <1>1 DEF FinishTtrie, Closing
<1>3. Master' /\ Appending'
  <2>1. Master' BY <1>2 DEF WriterInv, Master
  <2>2. QED BY <1>2, <2>1, AppendingKept DEF WriterInv
<1>4. /\ f \in Fields /\ Disk(disk) /\ t \in Tables /\ t = objects[n]
      /\ n \in DOMAIN objects /\ n = Len(objects) /\ n \in Nat /\ DOMAIN objects = 1 .. n
      /\ objects \in Seq(Tables) /\ \A o \in DOMAIN objects : objects[o] \in Tables
  BY <1>1, <1>2, ClosingFacts
<1>5. /\ t.buffers # <<>> /\ m \in [Keys(t) -> Nat]
      /\ Streams1(disk[f].cpref)
      /\ \A k \in Keys(t) : m[k] \in DOMAIN disk[f].cpref
                            /\ disk[f].cpref[m[k]] = RefsOf(t, k)
  BY <1>1, <1>2, ClosingFacts, ConversionFacts DEF WriterInv, Conversion, Converted
<1>6. PICK objs : objs = objects' OBVIOUS
<1>7. /\ objs \in Seq(Tables) /\ DOMAIN objs = 1 .. n - 1
      /\ \A o \in 1 .. n - 1 : objs[o] = objects[o] /\ o \in DOMAIN objects
  <2>1. PICK front : front = SubSeq(objects, 1, n - 1) OBVIOUS
  <2>2. front \in Seq(Tables) /\ DOMAIN front = 1 .. n - 1
        /\ \A i \in 1 .. n - 1 : front[i] = objects[i]
    <3>1. PICK e \in Int : e = n - 1 BY <1>4
    <3>2. \A i \in 1 .. e : objects[i] \in Tables BY <1>4, <3>1
    <3>3. /\ SubSeq(objects, 1, e) \in Seq(Tables)
          /\ Len(SubSeq(objects, 1, e)) = IF 1 <= e THEN e - 1 + 1 ELSE 0
          /\ \A i \in 1 .. e - 1 + 1 : SubSeq(objects, 1, e)[i] = objects[1 + i - 1]
      BY <3>2, SubSeqProperties
    <3>4. Len(front) = e /\ front \in Seq(Tables) /\ \A i \in 1 .. e : front[i] = objects[i]
      BY <1>4, <2>1, <3>1, <3>3
    <3>5. DOMAIN front = 1 .. Len(front) BY <3>4, SequenceIs
    <3>6. QED BY <3>1, <3>4, <3>5
  <2>3. SubSeq(objects, n + 1, Len(objects)) = <<>> BY <1>4, SubSeqEmpty
  <2>4. objs = front \o <<>> BY <1>2, <1>6, <2>1, <2>3 DEF RemoveAt
  <2>5. objs = front BY <2>2, <2>4, ConcatEmptySeq
  <2>6. QED BY <1>4, <2>2, <2>5
<1>8. \A o \in 1 .. n - 1 : objects[o].buffers # <<>> => objects[o].field # f
  BY <1>1, <1>4, <1>5, <1>7, OneTable
<1>9. Stack'
  <2>1. \A o \in DOMAIN objs : Table1(objs[o])
    BY <1>7 DEF WriterInv, Stack
  <2>2. \A o \in DOMAIN objs : Table1(objs[o])' BY <1>2, <2>1, PlacedKept
  <2>3. \A o \in DOMAIN objs : objs[o].buffers # <<>> =>
          objs[o].field \in DOMAIN key_tables /\ key_tables[objs[o].field] = o
    BY <1>7 DEF WriterInv, Stack
  <2>4. DOMAIN key_tables \subseteq Fields /\ key_tables \in [DOMAIN key_tables -> Nat]
    BY DEF WriterInv, Stack
  <2>5. QED BY <1>2, <1>6, <1>7, <2>2, <2>3, <2>4 DEF Stack
<1>10. ASSUME NEW o \in DOMAIN objects, objects[o].buffers # <<>>, NEW key \in Tokens
       PROVE  Exact(RefsOf(objects[o], key), objects[o].field, key)
  BY <1>2, <1>10 DEF WriterInv, Counts
<1>11. Counts'
  <2>1. ASSUME NEW o \in DOMAIN objs, objs[o].buffers # <<>>, NEW key \in Tokens
        PROVE  Exact(RefsOf(objs[o], key), objs[o].field, key)'
    <3>1. PICK r, g : r = RefsOf(objs[o], key) /\ g = objs[o].field OBVIOUS
    <3>2. Exact(r, g, key) BY <1>7, <1>10, <2>1, <3>1
    <3>3. Exact(r, g, key)' BY <1>2, <3>2, CountedKept
    <3>4. QED BY <3>1, <3>3
  <2>2. QED BY <1>2, <1>6, <2>1 DEF Counts
<1>12. /\ Disk(disk)' /\ disk'[f].ttrie = m /\ disk'[f].cpref = disk[f].cpref
       /\ \A g \in Fields : g # f => disk'[g] = disk[g]
  BY <1>2, <1>4 DEF Disk
<1>13. Stored'
  <2>1. ASSUME NEW g \in Fields, disk'[g].ttrie # None PROVE Streams1(disk[g].cpref)'
    <3>1. PICK s : s = disk[g].cpref OBVIOUS
    <3>2. Streams1(s) BY <1>5, <1>12, <2>1, <3>1 DEF WriterInv, Stored
    <3>3. Streams1(s)' BY <1>2, <3>2, PlacedKept
    <3>4. disk'[g].cpref = s BY <1>12, <3>1
    <3>5. QED BY <3>3, <3>4
  <2>2. ASSUME NEW g \in Fields, NEW key \in Tokens, disk'[g].ttrie \notin {None, Begun}
        PROVE  Exact(StreamOf(disk[g], key), g, key)'
    <3>1. CASE g = f
      <4>1. PICK r : r = RefsOf(t, key) OBVIOUS
      <4>2. Exact(r, f, key) BY <1>1, <1>4, <1>5, <1>10, <4>1
      <4>3. Exact(r, f, key)' BY <1>2, <4>2, CountedKept
      <4>4. StreamOf(disk[g], key)' = IF key \in Keys(t) THEN disk[f].cpref[m[key]] ELSE <<>>
        BY <1>5, <1>12, <3>1 DEF StreamOf
      <4>5. key \notin Keys(t) => RefsOf(t, key) = <<>> BY <1>4, KeysAre DEF RefsOf
      <4>6. StreamOf(disk[g], key)' = r BY <1>5, <4>1, <4>4, <4>5
      <4>7. QED BY <3>1, <4>3, <4>6
    <3>2. CASE g # f
      <4>1. disk'[g] = disk[g] BY <1>12, <3>2
      <4>2. PICK r : r = StreamOf(disk[g], key) OBVIOUS
      <4>3. Exact(r, g, key) BY <2>2, <4>1, <4>2 DEF WriterInv, Stored
      <4>4. Exact(r, g, key)' BY <1>2, <4>3, CountedKept
      <4>5. StreamOf(disk[g], key)' = r BY <4>1, <4>2 DEF StreamOf
      <4>6. QED BY <4>4, <4>5
    <3>3. QED BY <3>1, <3>2
  <2>3. ASSUME NEW g \in Fields, disk'[g].meta # None
        PROVE  disk'[g].ttrie # None \/ \E o \in DOMAIN objs : objs[o].field = g
    <3>1. CASE g = f
      <4>1. Keys(t) \in SUBSET Tokens BY <1>4, KeysAre
      <4>2. m # None BY <1>5, <4>1, NoneAssumption
      <4>3. QED BY <1>12, <3>1, <4>2
    <3>2. CASE g # f
      <4>1. disk[g].ttrie # None \/ \E o \in DOMAIN objects : objects[o].field = g
        BY <1>12, <2>3, <3>2 DEF WriterInv, Stored
      <4>2. ASSUME NEW o \in DOMAIN objects, objects[o].field = g
            PROVE  o \in DOMAIN objs /\ objs[o].field = g
        <5>1. o # n BY <1>1, <1>4, <3>2, <4>2
        <5>2. o \in 1 .. n - 1 BY <1>4, <5>1
        <5>3. QED BY <1>7, <4>2, <5>2
      <4>3. QED BY <1>12, <3>2, <4>1, <4>2
    <3>3. QED BY <3>1, <3>2
  <2>4. ASSUME NEW o \in DOMAIN objs, objs[o].buffers # <<>>
        PROVE  disk'[objs[o].field].ttrie = None
    <3>1. /\ objs[o] = objects[o] /\ o \in DOMAIN objects /\ o # n
          /\ objects[o].buffers # <<>> /\ objects[o].field # f
      BY <1>4, <1>7, <1>8, <2>4
    <3>2. objects[o].field \in Fields BY <1>4, <3>1, TableIs
    <3>3. disk[objects[o].field].ttrie = None BY <1>1, <1>2, <3>1 DEF WriterInv, Stored
    <3>4. QED BY <1>12, <3>1, <3>2, <3>3
  <2>5. QED BY <1>2, <1>6, <1>12, <2>1, <2>2, <2>3, <2>4 DEF Stored
<1>14. Conversion'
  <2>1. converting'.step = "start" /\ phase' = "closing" BY <1>2 DEF AtStart
  <2>2. QED BY <2>1 DEF Conversion
<1>15. QED BY <1>3, <1>9, <1>11, <1>13, <1>14 DEF WriterInv

LEMMA MasterClosesInv ==
  ASSUME WriterInv, FlushMaster \/ CutMaster
  PROVE  WriterInv'
<1>1. /\ messages' = messages /\ raised' = raised /\ append' = append /\ objects' = objects
      /\ key_tables' = key_tables /\ converting' = converting /\ disk' = disk
      /\ phase' \in {"flushed", "closed"}
      /\ objects = <<>> /\ stored' = Len(messages)
  BY DEF FlushMaster, CutMaster, AfterFinalFlush, WriterInv, Master
<1>2. Master'
  <2>1. messages \in Seq(Messages) /\ raised \subseteq DOMAIN messages BY DEF WriterInv, Master
  <2>2. Len(messages) \in Nat BY <2>1, SequenceIs
  <2>3. Clump \in Nat \ {0} BY BoundsAssumption
  <2>4. QED BY <1>1, <2>1, <2>2, <2>3 DEF Master
<1>3. Appending' /\ Stack' /\ Stored'
  BY <1>1, AppendingKept, StackKept, StoredKept DEF WriterInv
<1>4. Counts' /\ Conversion' BY <1>1, Ended
<1>5. QED BY <1>2, <1>3, <1>4 DEF WriterInv

\* A step of the writer is taken before the database is opened to be read.
WriterStep ==
  \/ \E m \in Messages : Append1(m)
  \/ \E f \in Fields : StartField(f)
  \/ FileValue \/ FinishField \/ Exit \/ ClosingSteps \/ Kill

LEMMA WriterSteps ==
  ASSUME WriterInv, WriterStep
  PROVE  /\ WriterInv' /\ phase \in {"w", "closing", "flushed"}
         /\ UNCHANGED reading
<1>1. ASSUME NEW m \in Messages, Append1(m)
      PROVE  WriterInv' /\ phase = "w" /\ UNCHANGED reading
  BY <1>1, Append1Inv DEF Append1
<1>2. ASSUME NEW f \in Fields, StartField(f)
      PROVE  WriterInv' /\ phase = "w" /\ UNCHANGED reading
  BY <1>2, StartFieldInv DEF StartField
<1>3. CASE FileValue
  <2>1. WriterInv' BY <1>3, UnfitInv, FitInv
  <2>2. QED BY <1>3, <2>1 DEF FileValue
<1>4. CASE FinishField BY <1>4, FinishFieldInv DEF FinishField
<1>5. CASE Exit BY <1>5, ExitInv DEF Exit
<1>6. CASE Kill BY <1>6, DieInv DEF Kill, Die
<1>7. CASE StartOptimize BY <1>7, StartOptimizeInv DEF StartOptimize, Closing
<1>8. CASE ConvertTrie
  <2>1. WriterInv' BY <1>8, ConvertTrieInv
  <2>2. QED BY <1>8, <2>1 DEF ConvertTrie, Closing, Die
<1>9. CASE FlushBuffers BY <1>9, FlushBuffersInv DEF FlushBuffers, Closing
<1>10. CASE StartStream BY <1>10, StartStreamInv DEF StartStream, Closing
<1>11. CASE CopyChunk
  <2>1. WriterInv' BY <1>11, CopyChunkInv
  <2>2. QED BY <1>11, <2>1 DEF CopyChunk, Closing
<1>12. CASE StartTtrie BY <1>12, StartTtrieInv DEF StartTtrie, Closing
<1>13. CASE FinishTtrie BY <1>13, FinishTtrieInv DEF FinishTtrie, Closing
<1>14. CASE FlushMaster \/ CutMaster
  BY <1>14, MasterClosesInv DEF FlushMaster, CutMaster
<1>15. QED
  BY <1>1, <1>2, <1>3, <1>4, <1>5, <1>6, <1>7, <1>8, <1>9, <1>10, <1>11, <1>12, <1>13, <1>14
  DEF WriterStep, ClosingSteps

-----------------------------------------------------------------------------
\* PulpReader

LEMMA WriterKept ==
  ASSUME WriterInv, UNCHANGED writer
  PROVE  WriterInv'
<1>1. UNCHANGED <<phase, messages, raised, stored, append, objects, key_tables, converting, disk>>
  BY DEF writer
<1>2. Master' BY <1>1 DEF WriterInv, Master
<1>3. QED
  BY <1>1, <1>2, AppendingKept, StackKept, CountsKept, StoredKept, ConversionKept DEF WriterInv

\* No reader is there while the writer is.
LEMMA WriterAlone ==
  ASSUME Reading, Answered, phase \in {"w", "closing", "flushed"}, UNCHANGED reading
  PROVE  Reading' /\ Answered'
<1>1. reader = "none" /\ opened = Nothing /\ answer = None BY DEF Reading, Answered
<1>2. reader' = "none" /\ opened' = Nothing /\ answer' = None BY <1>1 DEF reading
<1>3. DOMAIN Nothing = {} BY DEF Nothing
<1>4. QED BY <1>2, <1>3 DEF Reading, Answered, OpensOnceClosed

LEMMA ReaderIdle ==
  ASSUME Reading, Answered, UNCHANGED vars
  PROVE  Reading' /\ Answered'
<1>1. /\ phase' = phase /\ messages' = messages /\ stored' = stored /\ disk' = disk
      /\ reader' = reader /\ opened' = opened /\ answer' = answer
  BY DEF vars, writer, reading
<1>2. Reading' BY <1>1 DEF Reading, OpensOnceClosed
<1>3. \A i : Read(i)' = Read(i) BY <1>1 DEF Read, Packed
<1>4. Answered' BY <1>1, <1>3 DEF Answered, Place
<1>5. QED BY <1>2, <1>4

LEMMA OpenMasterInv ==
  ASSUME Reading, Answered, OpenMaster
  PROVE  Reading' /\ Answered'
<1>1. /\ phase \in {"closed", "dead"} /\ answer = None
      /\ phase' = phase /\ messages' = messages /\ opened' = Nothing /\ answer' = answer
      /\ reader' \in {"opening", "exited"}
      /\ reader' = "exited" => \A i \in DOMAIN messages : messages[i].size = 0
  BY DEF OpenMaster, Answered, writer
<1>2. DOMAIN Nothing = {} BY DEF Nothing
<1>3. OpensOnceClosed'
  <2>1. ASSUME NEW i \in DOMAIN messages, messages[i].size > 0 PROVE reader' # "exited"
    BY <1>1, <2>1
  <2>2. QED BY <1>1, <2>1 DEF OpensOnceClosed
<1>4. Reading' BY <1>1, <1>2, <1>3 DEF Reading
<1>5. QED BY <1>1, <1>4 DEF Answered

\* Of a database that was closed, a table that left a .meta file has left its .ttrie.
LEMMA OpenTableInv ==
  ASSUME Master, Stored, Reading, Answered, NEW f \in Fields, OpenTable(f)
  PROVE  Reading' /\ Answered'
<1>1. /\ reader = "opening" /\ answer = None /\ phase \in {"closed", "dead"}
      /\ phase' = phase /\ messages' = messages /\ disk' = disk /\ answer' = answer
      /\ disk[f].meta # None
  BY DEF OpenTable, Found, Reading, Answered, writer
<1>2. CASE disk[f].ttrie = None
  <2>1. reader' = "exited" /\ opened' = opened BY <1>2 DEF OpenTable
  <2>2. phase # "closed"
    <3>1. PICK o \in DOMAIN objects : TRUE BY <1>1, <1>2 DEF Stored
    <3>2. objects # <<>> BY <3>1
    <3>3. QED BY <3>2 DEF Master
  <2>3. QED BY <1>1, <2>1, <2>2 DEF Reading, Answered, OpensOnceClosed
<1>3. CASE disk[f].ttrie # None
  <2>1. /\ reader' = reader
        /\ opened' = [g \in DOMAIN opened \cup {f} |-> IF g = f THEN disk[f] ELSE opened[g]]
    BY <1>3 DEF OpenTable
  <2>2. QED BY <1>1, <1>3, <2>1 DEF Reading, Answered, OpensOnceClosed
<1>4. QED BY <1>2, <1>3

LEMMA LookupInv ==
  ASSUME Reading, Answered, NEW f \in Fields, NEW k \in Tokens, Lookup(f, k)
  PROVE  Reading' /\ Answered'
<1>1. /\ reader = "r" /\ f \in DOMAIN opened /\ reader' = reader /\ opened' = opened
      /\ phase' = phase /\ messages' = messages /\ disk' = disk
  BY DEF Lookup, writer
<1>2. PICK refs \in Streams(opened[f], k) :
        answer' = [op |-> "lookup", field |-> f, key |-> k, refs |-> refs]
  BY DEF Lookup
<1>3. Reading' BY <1>1 DEF Reading, OpensOnceClosed
<1>4. Streams(opened[f], k)' = Streams(opened[f], k) BY <1>1 DEF Streams
<1>5. Answered'
  <2>1. /\ answer'.op = "lookup" /\ answer'.field = f /\ answer'.key = k /\ answer'.refs = refs
    BY <1>2
  <2>2. PICK S : S = Streams(opened[f], k) OBVIOUS
  <2>3. refs \in S BY <1>2, <2>2
  <2>4. Streams(opened[answer.field], answer.key)' = S BY <1>1, <2>1, <2>2 DEF Streams
  <2>5. QED BY <1>1, <2>1, <2>3, <2>4 DEF Answered
<1>6. QED BY <1>3, <1>5

\* What a lookup may give
LEMMA StreamsAre ==
  ASSUME Stored, NEW f \in Fields, disk[f].ttrie # None, NEW key \in Tokens,
         NEW refs \in Streams(disk[f], key)
  PROVE  /\ refs \in Seq(Nat) /\ Placed(refs)
         /\ disk[f].ttrie # Begun => Exact(refs, f, key)
<1>1. CASE disk[f].ttrie = Begun
  <2>1. Streams1(disk[f].cpref) BY DEF Stored
  <2>2. refs = <<>> \/ \E n \in DOMAIN disk[f].cpref : refs = disk[f].cpref[n]
    BY <1>1 DEF Streams, ToSet
  <2>3. Placed(refs)
    <3>1. CASE refs = <<>> BY <3>1 DEF Placed
    <3>2. CASE \E n \in DOMAIN disk[f].cpref : refs = disk[f].cpref[n]
      BY <2>1, <3>2 DEF Streams1
    <3>3. QED BY <2>2, <3>1, <3>2
  <2>4. QED BY <1>1, <2>3 DEF Placed
<1>2. CASE disk[f].ttrie # Begun
  <2>1. refs = StreamOf(disk[f], key) BY <1>2 DEF Streams, StreamOf
  <2>2. Exact(StreamOf(disk[f], key), f, key) BY <1>2 DEF Stored
  <2>3. QED BY <2>1, <2>2 DEF Exact, Placed
<1>3. QED BY <1>1, <1>2

LEMMA FetchInv ==
  ASSUME Master, Stored, Reading, Answered, Fetch
  PROVE  Reading' /\ Answered'
<1>1. /\ reader = "r" /\ answer # None /\ answer.op = "lookup"
      /\ reader' = reader /\ opened' = opened
      /\ phase' = phase /\ messages' = messages /\ disk' = disk /\ stored' = stored
  BY DEF Fetch, writer
<1>2. PICK ref \in ToSet(answer.refs) : answer' = [op |-> "msg", ref |-> ref, message |-> Read(ref)]
  BY DEF Fetch
<1>3. Reading' BY <1>1 DEF Reading, OpensOnceClosed
<1>4. PICK f, refs : f = answer.field /\ refs = answer.refs OBVIOUS
<1>5. /\ f \in DOMAIN opened /\ answer.key \in Tokens /\ refs \in Streams(opened[f], answer.key)
  BY <1>1, <1>4 DEF Answered
<1>6. f \in Fields /\ opened[f] = disk[f] /\ disk[f].ttrie # None BY <1>5 DEF Reading
<1>7. refs \in Seq(Nat) /\ Placed(refs) BY <1>5, <1>6, StreamsAre
<1>8. ref \in Place
  <2>1. PICK i \in DOMAIN refs : ref = refs[i] BY <1>2, <1>4 DEF ToSet
  <2>2. refs[i] \in Nat BY <1>7, <2>1
  <2>3. refs[i] < Len(messages) BY <1>7 DEF Placed
  <2>4. Len(messages) \in Nat
    <3>1. messages \in Seq(Messages) BY DEF Master
    <3>2. QED BY <3>1, SequenceIs
  <2>5. QED BY <2>1, <2>2, <2>3, <2>4 DEF Place
<1>9. Place' = Place /\ \A i : Read(i)' = Read(i) BY <1>1 DEF Place, Read, Packed
<1>10. Answered' BY <1>1, <1>2, <1>8, <1>9 DEF Answered
<1>11. QED BY <1>3, <1>10

LEMMA ReaderSteps ==
  ASSUME WriterInv, Reading, Answered,
         \/ OpenMaster \/ ReaderOpen \/ Fetch \/ CloseReader
         \/ \E f \in Fields : OpenTable(f)
         \/ \E f \in Fields, k \in Tokens : Lookup(f, k)
  PROVE  WriterInv' /\ Reading' /\ Answered'
<1>1. UNCHANGED writer BY DEF OpenMaster, ReaderOpen, Fetch, CloseReader, OpenTable, Lookup
<1>2. WriterInv' BY <1>1, WriterKept
<1>3. Master /\ Stored BY DEF WriterInv
<1>4. CASE OpenMaster BY <1>2, <1>4, OpenMasterInv
<1>5. CASE ReaderOpen
  <2>1. /\ reader = "opening" /\ reader' = "r" /\ opened' = opened /\ answer' = answer
        /\ phase' = phase /\ messages' = messages /\ disk' = disk
    BY <1>5 DEF ReaderOpen, writer
  <2>2. answer = None BY <2>1 DEF Answered
  <2>3. QED BY <1>2, <2>1, <2>2 DEF Reading, Answered, OpensOnceClosed
<1>6. CASE Fetch BY <1>2, <1>3, <1>6, FetchInv
<1>7. CASE CloseReader
  <2>1. reader' = "none" /\ opened' = Nothing /\ answer' = None BY <1>7 DEF CloseReader
  <2>2. DOMAIN Nothing = {} BY DEF Nothing
  <2>3. QED BY <1>2, <2>1, <2>2 DEF Reading, Answered, OpensOnceClosed
<1>8. ASSUME NEW f \in Fields, OpenTable(f) PROVE Reading' /\ Answered'
  BY <1>3, <1>8, OpenTableInv
<1>9. ASSUME NEW f \in Fields, NEW k \in Tokens, Lookup(f, k) PROVE Reading' /\ Answered'
  BY <1>9, LookupInv
<1>10. QED BY <1>2, <1>4, <1>5, <1>6, <1>7, <1>8, <1>9

-----------------------------------------------------------------------------
\* The invariant, and what follows of it

LEMMA InitInv ==
  ASSUME Init
  PROVE  IInv
<1>1. /\ phase = "w" /\ messages = <<>> /\ raised = {} /\ stored = 0
      /\ adding = {} /\ filing = None /\ filed = 0
      /\ objects = <<>> /\ key_tables = Nothing /\ converting = AtStart
      /\ disk = [f \in Fields |-> NoFiles]
      /\ reader = "none" /\ opened = Nothing /\ answer = None
  BY DEF Init
<1>2. DOMAIN Nothing = {} BY DEF Nothing
<1>3. Clump \in Nat \ {0} BY BoundsAssumption
<1>4. Master BY <1>1, <1>3 DEF Master
<1>5. Appending BY <1>1 DEF Appending
<1>6. Stack
  <2>1. key_tables \in [DOMAIN key_tables -> Nat] BY <1>1, <1>2 DEF Nothing
  <2>2. QED BY <1>1, <1>2, <2>1 DEF Stack
<1>7. Counts
  <2>1. ASSUME NEW f \in Fields, NEW key \in Tokens
        PROVE  Placed(Held(f, key)) /\ Sorted(Held(f, key)) /\ InProgress(Held(f, key), f, key)
    <3>1. Held(f, key) = <<>> BY <1>1, <1>2 DEF Held, Known
    <3>2. Placed(<<>>) /\ Sorted(<<>>) BY DEF Placed, Sorted
    <3>3. InProgress(<<>>, f, key) BY <1>1 DEF InProgress
    <3>4. QED BY <3>1, <3>2, <3>3
  <2>2. QED BY <1>1, <2>1 DEF Counts
<1>8. Stored
  <2>1. Disk(disk) /\ \A f \in Fields : disk[f].ttrie = None /\ disk[f].meta = None
    BY <1>1 DEF Disk, NoFiles
  <2>2. QED BY <1>1, <2>1 DEF Stored
<1>9. Conversion BY <1>1 DEF Conversion, AtStart
<1>10. Reading /\ Answered BY <1>1, <1>2 DEF Reading, Answered, OpensOnceClosed
<1>11. QED BY <1>4, <1>5, <1>6, <1>7, <1>8, <1>9, <1>10 DEF IInv

LEMMA NextInv ==
  ASSUME IInv, [Next]_vars
  PROVE  IInv'
<1>1. WriterInv /\ Reading /\ Answered BY DEF IInv, WriterInv
<1>2. CASE WriterStep
  <2>1. WriterInv' /\ phase \in {"w", "closing", "flushed"} /\ UNCHANGED reading
    BY <1>1, <1>2, WriterSteps
  <2>2. Reading' /\ Answered' BY <1>1, <2>1, WriterAlone
  <2>3. QED BY <2>1, <2>2 DEF IInv, WriterInv
<1>3. CASE \/ OpenMaster \/ ReaderOpen \/ Fetch \/ CloseReader
           \/ \E f \in Fields : OpenTable(f)
           \/ \E f \in Fields, k \in Tokens : Lookup(f, k)
  <2>1. WriterInv' /\ Reading' /\ Answered' BY <1>1, <1>3, ReaderSteps
  <2>2. QED BY <2>1 DEF IInv, WriterInv
<1>4. CASE UNCHANGED vars
  <2>1. UNCHANGED writer BY <1>4 DEF vars
  <2>2. WriterInv' /\ Reading' /\ Answered' BY <1>1, <1>4, <2>1, WriterKept, ReaderIdle
  <2>3. QED BY <2>2 DEF IInv, WriterInv
<1>5. QED BY <1>2, <1>3, <1>4 DEF Next, WriterStep

\* The invariant holds in every reachable state, whatever the writer is given and
\* wherever it is killed.
THEOREM InvariantHolds == Spec => []IInv
<1>1. Init => IInv BY InitInv
<1>2. IInv /\ [Next]_vars => IInv' BY NextInv
<1>3. QED BY <1>1, <1>2, PTL DEF Spec

\* Types; and no buffer is written behind the array of buffers, which new_dref_buffer
\* doubles at the powers of two (kds.c:32-53).
THEOREM TypeCorrect == Spec => []TypeOK
<1>1. ASSUME IInv PROVE TypeOK
  <2>1. Master /\ Appending /\ Stack /\ Reading BY <1>1 DEF IInv
  <2>2. ASSUME NEW t \in ToSet(objects)
        PROVE  /\ t.field \in Fields /\ Len(t.buffers) <= t.room
               /\ \A b \in ToSet(t.buffers) : b.key \in Tokens /\ b.refs # <<>>
    <3>1. PICK o \in DOMAIN objects : t = objects[o] BY DEF ToSet
    <3>2. objects \in Seq(Tables) /\ Table1(t) BY <2>1, <3>1 DEF Stack
    <3>3. t \in Tables BY <3>1, <3>2, SequenceIs
    <3>4. t.field \in Fields /\ \A i \in DOMAIN t.buffers : t.buffers[i] \in Buffers
      BY <3>3, TableIs
    <3>5. ASSUME NEW b \in ToSet(t.buffers) PROVE b.key \in Tokens /\ b.refs # <<>>
      <4>1. PICK i \in DOMAIN t.buffers : b = t.buffers[i] BY DEF ToSet
      <4>2. b \in Buffers /\ b.refs # <<>> BY <3>2, <3>4, <4>1 DEF Table1
      <4>3. QED BY <4>2 DEF Buffers
    <3>6. QED BY <3>2, <3>4, <3>5 DEF Table1
  <2>3. \A f \in DOMAIN key_tables : key_tables[f] \in Nat BY <2>1 DEF Stack
  <2>4. QED BY <2>1, <2>2, <2>3 DEF TypeOK, Master, Appending, Reading
<1>2. QED BY <1>1, InvariantHolds, PTL

\* A value leads to the messages filed under it, in their order and as often as each
\* was filed, for any database: closed or left by a writer that was killed, with any
\* number of fields and of values of a field, and any size of the chunks in which the
\* references of a value are copied.
THEOREM IndexIsExact == Spec => []IndexExact
<1>1. ASSUME IInv PROVE IndexExact
  <2>1. Master /\ Stored /\ Reading /\ Answered BY <1>1 DEF IInv
  <2>2. SUFFICES ASSUME answer # None, answer.op = "lookup", opened[answer.field].ttrie # Begun
                 PROVE  /\ \A i, j \in DOMAIN answer.refs : i < j => answer.refs[i] <= answer.refs[j]
                        /\ \A i \in DOMAIN answer.refs : answer.refs[i] + 1 \in DOMAIN messages
                        /\ \A i \in DOMAIN messages :
                             \/ Given(answer.refs, i) = Asked(i, answer.field, answer.key)
                             \/ i \in raised /\ Given(answer.refs, i) < Asked(i, answer.field, answer.key)
    BY DEF IndexExact
  <2>3. PICK f, key, refs : f = answer.field /\ key = answer.key /\ refs = answer.refs OBVIOUS
  <2>4. f \in DOMAIN opened /\ key \in Tokens /\ refs \in Streams(opened[f], key)
    BY <2>1, <2>2, <2>3 DEF Answered
  <2>5. f \in Fields /\ opened[f] = disk[f] /\ disk[f].ttrie # None BY <2>1, <2>4 DEF Reading
  <2>6. Exact(refs, f, key) BY <2>1, <2>2, <2>3, <2>4, <2>5, StreamsAre
  <2>7. Sorted(refs) /\ refs \in Seq(Nat) /\ \A i \in DOMAIN messages : Counted(refs, f, key, i)
    BY <2>6 DEF Exact, Placed
  <2>8. ASSUME NEW i \in DOMAIN refs PROVE refs[i] + 1 \in DOMAIN messages
    <3>1. refs[i] \in Nat BY <2>7
    <3>2. refs[i] < Len(messages) BY <2>6 DEF Exact, Placed
    <3>3. messages \in Seq(Messages) BY <2>1 DEF Master
    <3>4. Len(messages) \in Nat /\ DOMAIN messages = 1 .. Len(messages) BY <3>3, SequenceIs
    <3>5. QED BY <3>1, <3>2, <3>4
  <2>9. QED BY <2>3, <2>7, <2>8 DEF Sorted, Counted
<1>2. QED BY <1>1, InvariantHolds, PTL

\* A reference leads to its message, or to nothing when its clump does not pack; of a
\* writer that was killed only the messages of the last clump may be lost.
THEOREM ReferencesLead == Spec => []RefsLead
<1>1. ASSUME IInv PROVE RefsLead
  <2>1. Master /\ Reading /\ Answered BY <1>1 DEF IInv
  <2>2. SUFFICES ASSUME answer # None, answer.op = "msg"
                 PROVE  \/ answer.message = messages[answer.ref + 1]
                        \/ answer.message = None /\ ~Packed(answer.ref)
                        \/ answer.message = None /\ phase = "dead" /\ Len(messages) - answer.ref < Clump
    BY DEF RefsLead
  <2>3. answer.ref \in Place /\ answer.message = Read(answer.ref) /\ reader = "r"
    BY <2>1, <2>2 DEF Answered
  <2>4. phase \in {"closed", "dead"} BY <2>1, <2>3 DEF Reading
  <2>5. CASE answer.ref < stored /\ Packed(answer.ref) BY <2>3, <2>5 DEF Read
  <2>6. CASE ~Packed(answer.ref) BY <2>3, <2>6 DEF Read
  <2>7. CASE ~(answer.ref < stored)
    <3>1. messages \in Seq(Messages) BY <2>1 DEF Master
    <3>2. Len(messages) \in Nat BY <3>1, SequenceIs
    <3>3. answer.ref \in 0 .. Len(messages) - 1 BY <2>3 DEF Place
    <3>4. stored \in 0 .. Len(messages) /\ Len(messages) - stored < Clump /\ Clump \in Nat
      BY <2>1, BoundsAssumption DEF Master
    <3>5. phase # "closed" BY <2>1, <2>7, <3>2, <3>3 DEF Master
    <3>6. Len(messages) - answer.ref < Clump BY <2>7, <3>2, <3>3, <3>4
    <3>7. QED BY <2>3, <2>4, <2>7, <3>5, <3>6 DEF Read
  <2>8. QED BY <2>5, <2>6, <2>7
<1>2. QED BY <1>1, InvariantHolds, PTL

\* A database that was closed opens, unless its messages are all empty: of every table
\* that left a .meta file the conversion has left the .ttrie file (kds.c:321-393).
THEOREM OpensWhenClosed == Spec => []OpensOnceClosed
<1>1. ASSUME IInv PROVE OpensOnceClosed BY <1>1 DEF IInv, Reading
<1>2. QED BY <1>1, InvariantHolds, PTL

=============================================================================
