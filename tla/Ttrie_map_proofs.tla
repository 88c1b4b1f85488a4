-------------------------- MODULE Ttrie_map_proofs --------------------------
(***************************************************************************)
(* Proofs about what the tables of Ttrie hold: which keys, which streams,  *)
(* and what ttrie__get finds in them.                                      *)
(***************************************************************************)
EXTENDS Ttrie_proofs

\* The rows where a key ends, and the keys that are stored there
ValueRows(t) == {a \in Places(t) : a.table_type \in {"pass", "term", "suffix"}}

KeysIn(t) == {RowAt(t, a).result.key : a \in ValueRows(t)}

\* A row leads on as convert_subtrie makes it: by letters in their order, or by letters at
\* all, and passes through to a row with letters.
LeadsWell(t, a) ==
  /\ a.table_type = "pass"   => RowAt(t, a).id.table_type \in {"choice", "infix"}
  /\ a.table_type = "infix"  => RowAt(t, a).infix \in Seq(Letters) \ {<<>>}
  /\ a.table_type = "suffix" => RowAt(t, a).suffix \in Seq(Letters) \ {<<>>}
  /\ a.table_type = "choice" => NameAt(t, a) \in Seq(Letters) /\ Increasing(NameAt(t, a))

Leading(t) == \A a \in Places(t) : LeadsWell(t, a)

Sound(t, P) == Whole(t) /\ Leading(t) /\ LabelledFrom(t, P)

LinksOf(t) == [a \in Places(t) |-> Links(t, a)]

LEMMA PlaceTypes ==
  ASSUME NEW t, NEW a \in Places(t)
  PROVE  /\ a \in Address /\ a.table_type \in {"choice", "infix", "pass", "term", "suffix"}
         /\ a.table_i \in Nat /\ a.row_i \in Nat
BY DEF Places, Address, Plain

\* The rows of a choice table are as wide as its name.
LEMMA RowWidth ==
  ASSUME NEW t, Shapely(t), NEW a \in Places(t), a.table_type = "choice"
  PROVE  DOMAIN RowAt(t, a) = DOMAIN NameAt(t, a)
<1>1. PICK c, i, T : c = t.choice /\ i = a.table_i + 1 /\ T = ChoiceTables(Cells) OBVIOUS
<1>2. c \in Seq(T) BY <1>1 DEF Shapely, Tables
<1>3. a.table_i \in Nat /\ a.row_i \in Nat /\ a.row_i < Height(t, "choice", a.table_i)
  BY PlaceTypes DEF Places
<1>4. Len(c) \in Nat BY <1>2
<1>5. a.table_i < Len(c) /\ a.row_i < Len(c[i].rows) BY <1>1, <1>3, <1>4 DEF Height
<1>6. i \in 1 .. Len(c) BY <1>1, <1>3, <1>4, <1>5
<1>7. c[i] \in T BY <1>2, <1>6, SequenceIs
<1>8. PICK name, rows, j : name = c[i].name /\ rows = c[i].rows /\ j = a.row_i + 1 OBVIOUS
<1>9. name \in Seq(Cells) /\ rows \in Seq(Seq(Cells)) /\ \A k \in 1 .. Len(rows) : Len(rows[k]) = Len(name)
  BY <1>1, <1>7, <1>8 DEF ChoiceTables
<1>10. j \in 1 .. Len(rows) BY <1>3, <1>5, <1>8, <1>9
<1>11. rows[j] \in Seq(Cells) BY <1>9, <1>10, SequenceIs
<1>12. DOMAIN rows[j] = 1 .. Len(rows[j]) /\ DOMAIN name = 1 .. Len(name) BY <1>9, <1>11, SequenceIs
<1>13. RowAt(t, a) = rows[j] /\ NameAt(t, a) = name BY <1>1, <1>8 DEF RowAt, NameAt
<1>14. QED BY <1>9, <1>10, <1>12, <1>13

\* What is stored in a row
LEMMA RowStores ==
  ASSUME NEW t, Shapely(t), NEW a \in ValueRows(t)
  PROVE  RowAt(t, a).result \in Buffers \cup Streams /\ RowAt(t, a).result.key \in Keys
<1>1. PICK y, i, s : y = a.table_type /\ i = a.row_i + 1 /\ s = t[y] OBVIOUS
<1>2. a \in Places(t) /\ y \in {"pass", "term", "suffix"} /\ y # "choice" /\ y \in Plain
  BY <1>1 DEF ValueRows, Plain
<1>3. a.row_i \in Nat /\ a.row_i < Height(t, y, a.table_i) BY <1>1, <1>2, PlaceTypes DEF Places
<1>4. PICK R : s \in Seq(R)
  <2>1. t \in Tables(Cells) BY DEF Shapely
  <2>2. QED BY <1>1, <1>2, <2>1, RowsOfAre
<1>5. Len(s) \in Nat /\ DOMAIN s = 1 .. Len(s) BY <1>4, SequenceIs
<1>6. a.row_i < Len(s) BY <1>1, <1>2, <1>3, <1>5 DEF Height
<1>7. i \in DOMAIN s BY <1>1, <1>3, <1>5, <1>6
<1>8. s[i].result \in Buffers \cup Streams BY <1>1, <1>2, <1>7 DEF Shapely, Kept
<1>9. RowAt(t, a) = s[i] BY <1>1, <1>2 DEF RowAt
<1>10. s[i].result.key \in Keys BY <1>8 DEF Buffers, Buffer, Streams
<1>11. QED BY <1>8, <1>9, <1>10

\* One step down: letters, unless it is from a passthrough row.
GoesOn(t, P, a, i, b, s) ==
  /\ b = Links(t, a)[i] /\ b \in Places(t) /\ s \in Seq(Letters)
  /\ P[a] \in Seq(Letters) /\ P[b] = P[a] \o s /\ P[b] = Onward(t, a, P[a], i)
  /\ a.table_type = "choice" => s = <<NameAt(t, a)[i]>>
  /\ a.table_type = "infix" => s = RowAt(t, a).infix
  /\ IF a.table_type = "pass" THEN s = <<>> /\ b.table_type \in {"choice", "infix"}
                              ELSE s # <<>>

LEMMA GoesDown ==
  ASSUME NEW t, NEW P, Sound(t, P), NEW a \in Places(t), NEW i \in DOMAIN Links(t, a)
  PROVE  \E b, s : GoesOn(t, P, a, i, b, s)
<1>1. Whole(t) /\ Shapely(t) /\ Leading(t) /\ Labelled(t, P) BY DEF Sound, Whole, LabelledFrom
<1>2. PICK b, p : b = Links(t, a)[i] /\ p = P[a] OBVIOUS
<1>3. b \in Places(t)
  <2>1. PICK F : F = {t.root_id} OBVIOUS
  <2>2. LinkedBut(t, F) BY <1>1, <2>1 DEF Whole
  <2>3. QED BY <1>2, <2>2, LinkedWithin
<1>4. p \in Seq(Letters) /\ P[b] = Onward(t, a, p, i) BY <1>1, <1>2 DEF Labelled, LabelledAt
<1>5. a.table_type \in {"choice", "infix", "pass", "term", "suffix"} BY PlaceTypes
<1>6. LeadsWell(t, a) BY <1>1 DEF Leading
<1>7. CASE a.table_type = "choice"
  <2>1. PICK l : l = NameAt(t, a)[i] OBVIOUS
  <2>2. NameAt(t, a) \in Seq(Letters) BY <1>6, <1>7 DEF LeadsWell
  <2>3. i \in DOMAIN NameAt(t, a) BY <1>1, <1>7, RowWidth DEF Links
  <2>4. l \in Letters BY <2>1, <2>2, <2>3, SequenceIs
  <2>5. Append(p, l) = p \o <<l>> /\ <<l>> \in Seq(Letters) /\ <<l>> # <<>> BY <1>4, <2>4
  <2>6. P[b] = p \o <<l>> BY <1>4, <1>7, <2>1, <2>5 DEF Onward
  <2>7. GoesOn(t, P, a, i, b, <<l>>) BY <1>2, <1>3, <1>4, <1>7, <2>1, <2>5, <2>6 DEF GoesOn
  <2>8. QED BY <2>7
<1>8. CASE a.table_type = "infix"
  <2>1. PICK s : s = RowAt(t, a).infix OBVIOUS
  <2>2. s \in Seq(Letters) /\ s # <<>> BY <1>6, <1>8, <2>1 DEF LeadsWell
  <2>3. P[b] = p \o s BY <1>4, <1>8, <2>1 DEF Onward
  <2>4. GoesOn(t, P, a, i, b, s) BY <1>2, <1>3, <1>4, <1>8, <2>1, <2>2, <2>3 DEF GoesOn
  <2>5. QED BY <2>4
<1>9. CASE a.table_type = "pass"
  <2>1. PICK x : x = RowAt(t, a).id OBVIOUS
  <2>2. Links(t, a) = <<x>> BY <1>9, <2>1 DEF Links
  <2>3. i = 1 /\ b = x BY <1>2, <2>2
  <2>4. b.table_type \in {"choice", "infix"} BY <1>6, <1>9, <2>1, <2>3 DEF LeadsWell
  <2>5. P[b] = p BY <1>4, <1>9 DEF Onward
  <2>6. p \o <<>> = p /\ <<>> \in Seq(Letters) BY <1>4, WithNone
  <2>7. GoesOn(t, P, a, i, b, <<>>) BY <1>2, <1>3, <1>4, <1>9, <2>4, <2>5, <2>6 DEF GoesOn
  <2>8. QED BY <2>7
<1>10. CASE a.table_type \in {"term", "suffix"}
  <2>1. Links(t, a) = <<>> BY <1>10 DEF Links
  <2>2. QED BY <2>1
<1>11. QED BY <1>5, <1>7, <1>8, <1>9, <1>10

\* The places have a rank that lowers from each to those it leads to.
LEMMA PlacesRanked ==
  ASSUME NEW t, NEW P, Sound(t, P)
  PROVE  \E rank, b : Descends(Places(t), LinksOf(t), rank, b)
<1>1. PICK ps : Listing(ps, Places(t)) BY PointersList DEF Sound
<1> DEFINE length == [a \in Places(t) |-> Len(P[a])]
<1>2. \A a \in Places(t) : P[a] \in Seq(Letters) /\ Len(P[a]) \in Nat
  <2>1. \A a \in Places(t) : P[a] \in Seq(Letters) BY DEF Sound, LabelledFrom, Labelled
  <2>2. QED BY <2>1, SequenceIs
<1>3. length \in [Places(t) -> Nat] BY <1>2
<1>4. PICK c \in Nat : \A a \in Places(t) : length[a] <= c
  <2> HIDE DEF length
  <2>1. QED BY <1>1, <1>3, ListingBound
<1>5. \A a \in Places(t) : Len(P[a]) <= c BY <1>4
<1> HIDE DEF length
<1> DEFINE rank == [a \in Places(t) |-> 2 * (c - Len(P[a])) + IF a.table_type = "pass" THEN 1 ELSE 0]
<1>6. \A a \in Places(t) : rank[a] \in Nat /\ rank[a] <= 2 * c + 1
  <2>1. SUFFICES ASSUME NEW a \in Places(t) PROVE rank[a] \in Nat /\ rank[a] <= 2 * c + 1 OBVIOUS
  <2>2. PICK n : n = Len(P[a]) OBVIOUS
  <2>3. n \in Nat /\ n <= c BY <1>2, <1>5, <2>2
  <2>4. rank[a] = 2 * (c - n) + IF a.table_type = "pass" THEN 1 ELSE 0 BY <2>2
  <2> HIDE DEF rank
  <2>5. QED BY <2>3, <2>4
<1>7. ASSUME NEW a \in Places(t), NEW i \in DOMAIN Links(t, a) PROVE rank[Links(t, a)[i]] < rank[a]
  <2>1. PICK b, s : GoesOn(t, P, a, i, b, s) BY GoesDown
  <2>2. PICK m, n, l : m = Len(P[a]) /\ n = Len(P[b]) /\ l = Len(s) OBVIOUS
  <2>3. b = Links(t, a)[i] /\ b \in Places(t) BY <2>1 DEF GoesOn
  <2>4. /\ m \in Nat /\ n \in Nat /\ l \in Nat /\ m <= c /\ n <= c /\ n = m + l
        /\ (s = <<>> <=> l = 0)
    <3>1. s \in Seq(Letters) /\ P[a] \in Seq(Letters) /\ P[b] = P[a] \o s BY <2>1 DEF GoesOn
    <3>2. Len(P[b]) = m + l BY <2>2, <3>1, ConcatProperties
    <3>3. QED BY <1>2, <1>5, <2>2, <2>3, <3>1, <3>2, SequenceIs
  <2>5. IF a.table_type = "pass" THEN l = 0 /\ b.table_type # "pass" ELSE l >= 1
    BY <2>1, <2>4 DEF GoesOn
  <2>6. /\ rank[a] = 2 * (c - m) + (IF a.table_type = "pass" THEN 1 ELSE 0)
        /\ rank[b] = 2 * (c - n) + (IF b.table_type = "pass" THEN 1 ELSE 0)
    BY <2>2, <2>3
  <2> HIDE DEF rank
  <2>7. rank[b] < rank[a] BY <2>4, <2>5, <2>6
  <2>8. QED BY <2>3, <2>7
<1>8. rank \in [Places(t) -> Nat] BY <1>6
<1> HIDE DEF rank
<1>9. \A a \in Places(t) : LinksOf(t)[a] = Links(t, a) BY DEF LinksOf
<1>10. Descends(Places(t), LinksOf(t), rank, 2 * c + 1)
  <2>1. 2 * c + 1 \in Nat OBVIOUS
  <2>2. QED BY <1>6, <1>7, <1>8, <1>9, <2>1 DEF Descends
<1>11. QED BY <1>10

\* The step of the recursion in Entries
UnderAt(t, under, place) ==
  LET key  == place[1]
      id   == place[2]
      row  == RowAt(t, id)
      type == id.table_type
      here(k) == {[key |-> k, result |-> row.result]} IN
  CASE type = "term"   -> here(key)
    [] type = "suffix" -> here(key \o row.suffix)
    [] type = "pass"   -> here(key) \cup under[<<key, row.id>>]
    [] type = "infix"  -> under[<<key \o row.infix, row.id>>]
    [] OTHER -> (* "choice" *)
         UNION {under[<<Append(key, t.choice[id.table_i + 1].name[i]), row[i]>>] : i \in DOMAIN row}

Here(t, key, a) ==
  IF a.table_type \in {"pass", "term", "suffix"}
    THEN {[key |-> Spelled(t, a, key), result |-> RowAt(t, a).result]}
    ELSE {}

Below(t, key, a) == {<<Onward(t, a, key, i), Links(t, a)[i]>> : i \in DOMAIN Links(t, a)}

LEMMA EntriesUnder ==
  ASSUME NEW t, NEW under,
         under = CHOOSE f : f = [place \in Seq(Letters) \X AllIds(t) |-> UnderAt(t, f, place)]
  PROVE  Entries(t) = under[<<<<>>, t.root_id>>]
<1> DEFINE U == CHOOSE f : f = [place \in Seq(Letters) \X AllIds(t) |-> UnderAt(t, f, place)]
<1>1. Entries(t) = U[<<<<>>, t.root_id>>] BY DEF Entries, UnderAt, Letters
<1>2. QED BY <1>1

LEMMA UnderIs ==
  ASSUME NEW t, NEW f, NEW key, NEW a \in Places(t)
  PROVE  UnderAt(t, f, <<key, a>>) = Here(t, key, a) \cup UNION {f[e] : e \in Below(t, key, a)}
<1>1. PICK row, y, u, x : /\ row = RowAt(t, a) /\ y = a.table_type /\ u = UnderAt(t, f, <<key, a>>)
                          /\ x = Below(t, key, a)
  OBVIOUS
<1>2. y \in {"choice", "infix", "pass", "term", "suffix"} BY <1>1, PlaceTypes
<1>3. CASE y = "term"
  <2>1. Links(t, a) = <<>> BY <1>1, <1>3 DEF Links
  <2>2. DOMAIN Links(t, a) = {} BY <2>1
  <2>3. x = {} BY <1>1, <2>2 DEF Below
  <2>4. Here(t, key, a) = {[key |-> key, result |-> row.result]} BY <1>1, <1>3 DEF Here, Spelled
  <2>5. u = {[key |-> key, result |-> row.result]} BY <1>1, <1>3 DEF UnderAt
  <2>6. QED BY <1>1, <2>3, <2>4, <2>5
<1>4. CASE y = "suffix"
  <2>1. Links(t, a) = <<>> BY <1>1, <1>4 DEF Links
  <2>2. DOMAIN Links(t, a) = {} BY <2>1
  <2>3. x = {} BY <1>1, <2>2 DEF Below
  <2>4. Here(t, key, a) = {[key |-> key \o row.suffix, result |-> row.result]}
    BY <1>1, <1>4 DEF Here, Spelled
  <2>5. u = {[key |-> key \o row.suffix, result |-> row.result]} BY <1>1, <1>4 DEF UnderAt
  <2>6. QED BY <1>1, <2>3, <2>4, <2>5
<1>5. CASE y = "pass"
  <2>1. Links(t, a) = <<row.id>> BY <1>1, <1>5 DEF Links
  <2>2. DOMAIN Links(t, a) = {1} /\ Links(t, a)[1] = row.id BY <2>1
  <2>3. \A i : Onward(t, a, key, i) = key BY <1>1, <1>5 DEF Onward
  <2>4. x = {<<key, row.id>>} BY <1>1, <2>2, <2>3 DEF Below
  <2>5. Here(t, key, a) = {[key |-> key, result |-> row.result]} BY <1>1, <1>5 DEF Here, Spelled
  <2>6. u = {[key |-> key, result |-> row.result]} \cup f[<<key, row.id>>] BY <1>1, <1>5 DEF UnderAt
  <2>7. QED BY <1>1, <2>4, <2>5, <2>6
<1>6. CASE y = "infix"
  <2>1. Links(t, a) = <<row.id>> BY <1>1, <1>6 DEF Links
  <2>2. DOMAIN Links(t, a) = {1} /\ Links(t, a)[1] = row.id BY <2>1
  <2>3. \A i : Onward(t, a, key, i) = key \o row.infix BY <1>1, <1>6 DEF Onward
  <2>4. x = {<<key \o row.infix, row.id>>} BY <1>1, <2>2, <2>3 DEF Below
  <2>5. Here(t, key, a) = {} BY <1>1, <1>6 DEF Here
  <2>6. u = f[<<key \o row.infix, row.id>>] BY <1>1, <1>6 DEF UnderAt
  <2>7. QED BY <1>1, <2>4, <2>5, <2>6
<1>7. CASE y = "choice"
  <2>1. Links(t, a) = row BY <1>1, <1>7 DEF Links
  <2>2. PICK name : name = NameAt(t, a) OBVIOUS
  <2>3. \A i : Onward(t, a, key, i) = Append(key, name[i]) BY <1>1, <1>7, <2>2 DEF Onward
  <2>4. PICK e : e = [i \in DOMAIN row |-> <<Append(key, name[i]), row[i]>>] OBVIOUS
  <2>5. x = {e[i] : i \in DOMAIN row}
    <3>1. \A i \in DOMAIN row : <<Onward(t, a, key, i), Links(t, a)[i]>> = e[i] BY <2>1, <2>3, <2>4
    <3>2. QED BY <1>1, <2>1, <3>1 DEF Below
  <2>6. Here(t, key, a) = {} BY <1>1, <1>7 DEF Here
  <2>7. u = UNION {f[<<Append(key, name[i]), row[i]>>] : i \in DOMAIN row}
    BY <1>1, <1>7, <2>2 DEF UnderAt, NameAt
  <2>8. u = UNION {f[e[i]] : i \in DOMAIN row} BY <2>4, <2>7
  <2>9. UNION {f[e[i]] : i \in DOMAIN row} = UNION {f[d] : d \in x} BY <2>5
  <2>10. QED BY <1>1, <2>6, <2>8, <2>9
<1>8. QED BY <1>1, <1>2, <1>3, <1>4, <1>5, <1>6, <1>7

\* The letters of a place from its key on are letters.
LEMMA GoesOnwards ==
  ASSUME NEW t, Whole(t), Leading(t), NEW a \in Places(t), NEW key \in Seq(Letters)
  PROVE  /\ \A i \in DOMAIN Links(t, a) : Onward(t, a, key, i) \in Seq(Letters) /\ Links(t, a)[i] \in Places(t)
         /\ a.table_type \in {"pass", "term", "suffix"} => Spelled(t, a, key) \in Seq(Letters)
<1>1. LeadsWell(t, a) /\ Shapely(t) BY DEF Leading, Whole
<1>2. PICK y : y = a.table_type OBVIOUS
<1>3. ASSUME NEW i \in DOMAIN Links(t, a) PROVE Onward(t, a, key, i) \in Seq(Letters)
  <2>1. CASE y = "choice"
    <3>1. PICK l, name : l = name[i] /\ name = NameAt(t, a) OBVIOUS
    <3>2. name \in Seq(Letters) BY <1>1, <1>2, <2>1, <3>1 DEF LeadsWell
    <3>3. i \in DOMAIN name BY <1>1, <1>2, <2>1, <3>1, RowWidth DEF Links
    <3>4. l \in Letters BY <3>1, <3>2, <3>3, SequenceIs
    <3>5. Onward(t, a, key, i) = Append(key, l) BY <1>2, <2>1, <3>1 DEF Onward
    <3>6. QED BY <3>4, <3>5, AppendIs
  <2>2. CASE y = "infix"
    <3>1. PICK s : s = RowAt(t, a).infix OBVIOUS
    <3>2. s \in Seq(Letters) BY <1>1, <1>2, <2>2, <3>1 DEF LeadsWell
    <3>3. Onward(t, a, key, i) = key \o s BY <1>2, <2>2, <3>1 DEF Onward
    <3>4. QED BY <3>2, <3>3
  <2>3. CASE y = "pass" BY <1>2, <2>3 DEF Onward
  <2>4. CASE y \in {"term", "suffix"}
    <3>1. Links(t, a) = <<>> BY <1>2, <2>4 DEF Links
    <3>2. QED BY <3>1
  <2>5. QED BY <1>2, <2>1, <2>2, <2>3, <2>4, PlaceTypes
<1>4. \A i \in DOMAIN Links(t, a) : Links(t, a)[i] \in Places(t)
  <2>1. PICK F : F = {t.root_id} OBVIOUS
  <2>2. LinkedBut(t, F) BY <2>1 DEF Whole
  <2>3. QED BY <2>2, LinkedWithin
<1>5. ASSUME y \in {"pass", "term", "suffix"} PROVE Spelled(t, a, key) \in Seq(Letters)
  <2>1. CASE y = "suffix"
    <3>1. PICK s : s = RowAt(t, a).suffix OBVIOUS
    <3>2. s \in Seq(Letters) BY <1>1, <1>2, <2>1, <3>1 DEF LeadsWell
    <3>3. Spelled(t, a, key) = key \o s BY <1>2, <2>1, <3>1 DEF Spelled
    <3>4. QED BY <3>2, <3>3
  <2>2. CASE y # "suffix" BY <1>2, <2>2 DEF Spelled
  <2>3. QED BY <2>1, <2>2
<1>6. QED BY <1>2, <1>3, <1>4, <1>5

\* Entries gives what is stored in each row, with its key.
LEMMA EntriesAre ==
  ASSUME NEW t, NEW P, Sound(t, P)
  PROVE  Entries(t) = {[key |-> RowAt(t, a).result.key, result |-> RowAt(t, a).result] : a \in ValueRows(t)}
<1>1. Whole(t) /\ Leading(t) /\ Shapely(t) /\ Labelled(t, P) /\ P[t.root_id] = <<>>
  BY DEF Sound, Whole, LabelledFrom
<1>2. PICK rank, b : Descends(Places(t), LinksOf(t), rank, b) BY PlacesRanked
<1>3. PICK D, V, own, next, deep :
        /\ D = Seq(Letters) \X Places(t) /\ V = [key : Seq(Letters), result : Buffers \cup Streams]
        /\ own = [d \in D |-> Here(t, d[1], d[2])] /\ next = [d \in D |-> Below(t, d[1], d[2])]
        /\ deep = [d \in D |-> rank[d[2]]]
  OBVIOUS
<1>4. ASSUME NEW d \in D
      PROVE  /\ own[d] = Here(t, d[1], d[2]) /\ next[d] = Below(t, d[1], d[2]) /\ deep[d] = rank[d[2]]
             /\ d[1] \in Seq(Letters) /\ d[2] \in Places(t) /\ d = <<d[1], d[2]>>
  BY <1>3
<1>5. ASSUME NEW d \in D
      PROVE  own[d] \subseteq V /\ next[d] \subseteq D /\ \A e \in next[d] : deep[e] < deep[d]
  <2>1. PICK key, a : key = d[1] /\ a = d[2] OBVIOUS
  <2>2. key \in Seq(Letters) /\ a \in Places(t) /\ own[d] = Here(t, key, a) /\ next[d] = Below(t, key, a)
        /\ deep[d] = rank[a]
    BY <1>4, <2>1
  <2>3. /\ \A i \in DOMAIN Links(t, a) : Onward(t, a, key, i) \in Seq(Letters) /\ Links(t, a)[i] \in Places(t)
        /\ a.table_type \in {"pass", "term", "suffix"} => Spelled(t, a, key) \in Seq(Letters)
    BY <1>1, <2>2, GoesOnwards
  <2>4. own[d] \subseteq V
    <3>1. ASSUME a.table_type \in {"pass", "term", "suffix"} PROVE RowAt(t, a).result \in Buffers \cup Streams
      <4>1. a \in ValueRows(t) BY <2>2, <3>1 DEF ValueRows
      <4>2. QED BY <1>1, <4>1, RowStores
    <3>2. PICK v, l : v = RowAt(t, a).result /\ l = Spelled(t, a, key) OBVIOUS
    <3>3. own[d] = IF a.table_type \in {"pass", "term", "suffix"} THEN {[key |-> l, result |-> v]} ELSE {}
      BY <2>2, <3>2 DEF Here
    <3>4. ASSUME a.table_type \in {"pass", "term", "suffix"} PROVE [key |-> l, result |-> v] \in V
      BY <1>3, <2>3, <3>1, <3>2, <3>4
    <3>5. QED BY <3>3, <3>4
  <2>5. ASSUME NEW e \in next[d] PROVE e \in D /\ deep[e] < deep[d]
    <3>1. PICK i \in DOMAIN Links(t, a) : e = <<Onward(t, a, key, i), Links(t, a)[i]>> BY <2>2 DEF Below
    <3>2. PICK c : c = Links(t, a)[i] OBVIOUS
    <3>3. e \in D /\ e[2] = c BY <1>3, <2>3, <3>1, <3>2
    <3>4. rank[c] < rank[a]
      <4>1. LinksOf(t)[a] = Links(t, a) BY <2>2 DEF LinksOf
      <4>2. QED BY <1>2, <2>2, <3>2, <4>1 DEF Descends
    <3>5. QED BY <1>4, <2>2, <3>3, <3>4
  <2>6. QED BY <2>4, <2>5
<1>6. deep \in [D -> Nat]
  <2>1. \A d \in D : rank[d[2]] \in Nat BY <1>2, <1>4 DEF Descends
  <2>2. QED BY <1>3, <2>1
<1>7. \E f : GathersDown(f, D, own, next)
  <2>1. \A d \in D : own[d] \subseteq V /\ next[d] \subseteq D BY <1>5
  <2>2. \A d \in D : \A e \in next[d] : deep[e] < deep[d] BY <1>5
  <2>3. QED BY <1>6, <2>1, <2>2, GatherExists
<1>8. AllIds(t) = Places(t) BY <1>1, AllIdsAre
<1>9. \A f : [d \in D |-> own[d] \cup UNION {f[e] : e \in next[d]}] = [d \in D |-> UnderAt(t, f, d)]
  <2>1. SUFFICES ASSUME NEW f, NEW d \in D
                 PROVE  own[d] \cup UNION {f[e] : e \in next[d]} = UnderAt(t, f, d)
    OBVIOUS
  <2>2. PICK key, a : key = d[1] /\ a = d[2] OBVIOUS
  <2>3. a \in Places(t) /\ own[d] = Here(t, key, a) /\ next[d] = Below(t, key, a) /\ d = <<key, a>>
    BY <1>4, <2>2
  <2>4. QED BY <2>3, UnderIs
<1>10. PICK under : under = CHOOSE f : f = [d \in D |-> UnderAt(t, f, d)] OBVIOUS
<1>11. under = [d \in D |-> own[d] \cup UNION {under[e] : e \in next[d]}]
  <2>1. \E f : f = [d \in D |-> UnderAt(t, f, d)]
    <3>1. PICK f : f = [d \in D |-> own[d] \cup UNION {f[e] : e \in next[d]}] BY <1>7 DEF GathersDown
    <3>2. f = [d \in D |-> UnderAt(t, f, d)] BY <1>9, <3>1
    <3>3. QED BY <3>2
  <2>2. under = [d \in D |-> UnderAt(t, under, d)] BY <1>10, <2>1
  <2>3. QED BY <1>9, <2>2
<1>12. Entries(t) = under[<<<<>>, t.root_id>>] BY <1>3, <1>8, <1>10, EntriesUnder
<1>13. PICK L, U, mine : /\ L = LinksOf(t) /\ U = [a \in Places(t) |-> under[<<P[a], a>>]]
                         /\ mine = [a \in Places(t) |-> own[<<P[a], a>>]]
  OBVIOUS
<1>14. ASSUME NEW a \in Places(t) PROVE GathersAt(L, U, mine, a)
  <2>1. PICK d, s : d = <<P[a], a>> /\ s = Links(t, a) OBVIOUS
  <2>2. P[a] \in Seq(Letters) BY <1>1 DEF Labelled
  <2>3. d \in D /\ d[1] = P[a] /\ d[2] = a BY <1>3, <2>1, <2>2
  <2>4. PICK e : e = [i \in DOMAIN s |-> <<Onward(t, a, P[a], i), s[i]>>] OBVIOUS
  <2>5. next[d] = {e[i] : i \in DOMAIN s}
    <3>1. next[d] = Below(t, P[a], a) BY <1>4, <2>3
    <3>2. \A i \in DOMAIN s : <<Onward(t, a, P[a], i), Links(t, a)[i]>> = e[i] BY <2>1, <2>4
    <3>3. QED BY <2>1, <3>1, <3>2 DEF Below
  <2>6. \A i \in DOMAIN s : s[i] \in Places(t) /\ P[s[i]] = Onward(t, a, P[a], i)
    BY <1>1, <2>1, <2>2, GoesOnwards DEF Labelled, LabelledAt
  <2>7. \A i \in DOMAIN s : e[i] = <<P[s[i]], s[i]>> /\ U[s[i]] = under[<<P[s[i]], s[i]>>]
    BY <1>13, <2>4, <2>6
  <2>8. {under[x] : x \in next[d]} = {U[s[i]] : i \in DOMAIN s}
    <3>1. \A i \in DOMAIN s : under[e[i]] = U[s[i]] BY <2>7
    <3>2. {under[x] : x \in next[d]} = {under[e[i]] : i \in DOMAIN s} BY <2>5
    <3>3. QED BY <3>1, <3>2
  <2>9. under[d] = own[d] \cup UNION {under[x] : x \in next[d]} BY <1>11, <2>3
  <2>10. U[a] = under[d] /\ mine[a] = own[d] /\ L[a] = s BY <1>13, <2>1 DEF LinksOf
  <2>11. U[a] = mine[a] \cup UNION {U[s[i]] : i \in DOMAIN s} BY <2>8, <2>9, <2>10
  <2>12. QED BY <2>10, <2>11 DEF GathersAt
<1>15. PICK r : r = t.root_id OBVIOUS
<1>16. Linked(Places(t), L, {r}) BY <1>1, <1>13, <1>15 DEF Whole, LinkedBut, LinksOf
<1>17. U[r] = AllOf(mine, Places(t))
  <2>1. PICK Q : Q = Places(t) OBVIOUS
  <2>2. Linked(Q, L, {r}) /\ Descends(Q, L, rank, b) /\ \A a \in Q : GathersAt(L, U, mine, a)
    BY <1>2, <1>13, <1>14, <1>16, <2>1
  <2>3. U[r] = AllOf(mine, Q) BY <2>2, Gathered
  <2>4. QED BY <2>1, <2>3
<1>18. U[r] = Entries(t)
  <2>1. r \in Places(t) BY <1>16 DEF Linked
  <2>2. QED BY <1>1, <1>12, <1>13, <1>15, <2>1
<1>19. ASSUME NEW a \in Places(t)
       PROVE  mine[a] = IF a \in ValueRows(t) THEN {[key |-> RowAt(t, a).result.key, result |-> RowAt(t, a).result]}
                                              ELSE {}
  <2>1. P[a] \in Seq(Letters) /\ LabelledAt(t, P, a) BY <1>1 DEF Labelled
  <2>2. PICK d : d = <<P[a], a>> OBVIOUS
  <2>3. d \in D /\ d[1] = P[a] /\ d[2] = a BY <1>3, <2>1, <2>2
  <2>4. mine[a] = Here(t, P[a], a) BY <1>4, <1>13, <2>2, <2>3
  <2>5. a \in ValueRows(t) => RowAt(t, a).result.key = Spelled(t, a, P[a]) BY <2>1 DEF ValueRows, LabelledAt
  <2>6. QED BY <2>4, <2>5 DEF Here, ValueRows
<1>20. ValueRows(t) \subseteq Places(t) BY DEF ValueRows
<1>21. PICK E : E = [a \in ValueRows(t) |-> [key |-> RowAt(t, a).result.key, result |-> RowAt(t, a).result]] OBVIOUS
<1>22. \A a \in Places(t) : mine[a] = IF a \in ValueRows(t) THEN {E[a]} ELSE {} BY <1>19, <1>21
<1>23. AllOf(mine, Places(t)) = {E[a] : a \in ValueRows(t)} BY <1>20, <1>22 DEF AllOf
<1>24. {E[a] : a \in ValueRows(t)}
         = {[key |-> RowAt(t, a).result.key, result |-> RowAt(t, a).result] : a \in ValueRows(t)}
  BY <1>21
<1>25. QED BY <1>17, <1>18, <1>23, <1>24

-----------------------------------------------------------------------------
\* ttrie__get

\* The step of the recursion in Found
TurnAt(t, k, turn, place) ==
  LET at     == place[1]
      id     == place[2]
      row    == RowAt(t, id)
      type   == id.table_type
      inLoop == at < Len(k) IN
  CASE type = "choice" /\ inLoop ->
         UNION {turn[<<at + 1, row[i]>>] : i \in Offset(t.choice[id.table_i + 1].name, k[at + 1])}
    [] type = "infix" /\ inLoop ->
         IF IsPrefix(row.infix, SubSeq(k, at + 1, Len(k))) THEN turn[<<at + Len(row.infix), row.id>>] ELSE {}
    [] type = "suffix" /\ inLoop -> IF row.suffix = SubSeq(k, at + 1, Len(k)) THEN {row.result} ELSE {}
    [] type = "pass" /\ inLoop   -> turn[<<at, row.id>>]
    [] type \in {"pass", "term"} /\ ~inLoop -> {row.result}
    [] OTHER -> {}

LEMMA FoundTurns ==
  ASSUME NEW t, NEW k, NEW turn,
         turn = CHOOSE f : f = [place \in Nat \X AllIds(t) |-> TurnAt(t, k, f, place)]
  PROVE  Found(t, k) = IF k = <<>> THEN {} ELSE turn[<<0, t.root_id>>]
<1> DEFINE T == CHOOSE f : f = [place \in Nat \X AllIds(t) |-> TurnAt(t, k, f, place)]
<1>1. Found(t, k) = IF k = <<>> THEN {} ELSE T[<<0, t.root_id>>] BY DEF Found, TurnAt
<1>2. QED BY <1>1

LEMMA OffsetIs ==
  ASSUME NEW name \in Seq(Letters), Increasing(name), NEW l \in Int
  PROVE  Offset(name, l) = {i \in DOMAIN name : name[i] = l}
<1> DEFINE S == CHOOSE f : f = [r \in Nat \X Nat |-> SearchIn(name, l, f, r)]
<1>1. Offset(name, l) = S[<<1, Len(name) + 1>>] BY DEF Offset, SearchIn, High
<1>2. PICK search : search = S OBVIOUS
<1>3. name \in Seq(Int)
  <2>1. PICK T : T = Int OBVIOUS
  <2>2. Letters \subseteq T BY <2>1, LettersAre
  <2>3. name \in Seq(T) BY <2>2
  <2>4. QED BY <2>1, <2>3
<1>4. Ascending(name) BY DEF Increasing, Ascending
<1> HIDE DEF S
<1>5. search = CHOOSE f : f = [r \in Nat \X Nat |-> SearchIn(name, l, f, r)] BY <1>2 DEF S
<1>6. search[<<1, Len(name) + 1>>] = {i \in DOMAIN name : name[i] = l} BY <1>3, <1>4, <1>5, SearchFinds
<1>7. QED BY <1>1, <1>2, <1>6

\* What ttrie__get returns at a row, and the rows it goes on to
Hit(t, k, at, a) ==
  IF at < Len(k)
    THEN IF a.table_type = "suffix" /\ RowAt(t, a).suffix = SubSeq(k, at + 1, Len(k))
           THEN {RowAt(t, a).result} ELSE {}
    ELSE IF a.table_type \in {"pass", "term"} THEN {RowAt(t, a).result} ELSE {}

Taken(t, k, at, a) ==
  {i \in DOMAIN Links(t, a) :
     /\ at < Len(k)
     /\ a.table_type = "choice" => NameAt(t, a)[i] = k[at + 1]
     /\ a.table_type = "infix"  => IsPrefix(RowAt(t, a).infix, SubSeq(k, at + 1, Len(k)))}

Farther(t, at, a) ==
  IF a.table_type = "choice" THEN at + 1
  ELSE IF a.table_type = "infix" THEN at + Len(RowAt(t, a).infix) ELSE at

NextTurns(t, k, at, a) == {<<Farther(t, at, a), Links(t, a)[i]>> : i \in Taken(t, k, at, a)}

LEMMA TurnIs ==
  ASSUME NEW t, Shapely(t), NEW k \in Seq(Letters), NEW f, NEW at \in Nat, NEW a \in Places(t), LeadsWell(t, a)
  PROVE  TurnAt(t, k, f, <<at, a>>) = Hit(t, k, at, a) \cup UNION {f[e] : e \in NextTurns(t, k, at, a)}
<1>1. PICK row, y, u, x, h : /\ row = RowAt(t, a) /\ y = a.table_type /\ u = TurnAt(t, k, f, <<at, a>>)
                             /\ x = NextTurns(t, k, at, a) /\ h = Hit(t, k, at, a)
  OBVIOUS
<1>2. y \in {"choice", "infix", "pass", "term", "suffix"} BY <1>1, PlaceTypes
<1>3. CASE ~(at < Len(k))
  <2>1. Taken(t, k, at, a) = {} BY <1>3 DEF Taken
  <2>2. x = {} BY <1>1, <2>1 DEF NextTurns
  <2>3. CASE y \in {"pass", "term"}
    <3>1. u = {row.result} BY <1>1, <1>3, <2>3 DEF TurnAt
    <3>2. h = {row.result} BY <1>1, <1>3, <2>3 DEF Hit
    <3>3. QED BY <1>1, <2>2, <3>1, <3>2
  <2>4. CASE y \notin {"pass", "term"}
    <3>1. u = {} BY <1>1, <1>3, <2>4 DEF TurnAt
    <3>2. h = {} BY <1>1, <1>3, <2>4 DEF Hit
    <3>3. QED BY <1>1, <2>2, <3>1, <3>2
  <2>5. QED BY <2>3, <2>4
<1>4. CASE at < Len(k) /\ y = "term"
  <2>1. Links(t, a) = <<>> BY <1>1, <1>4 DEF Links
  <2>2. Taken(t, k, at, a) = {} BY <2>1 DEF Taken
  <2>3. x = {} BY <1>1, <2>2 DEF NextTurns
  <2>4. u = {} /\ h = {} BY <1>1, <1>4 DEF TurnAt, Hit
  <2>5. QED BY <1>1, <2>3, <2>4
<1>5. CASE at < Len(k) /\ y = "suffix"
  <2>1. Links(t, a) = <<>> BY <1>1, <1>5 DEF Links
  <2>2. Taken(t, k, at, a) = {} BY <2>1 DEF Taken
  <2>3. x = {} BY <1>1, <2>2 DEF NextTurns
  <2>4. u = IF row.suffix = SubSeq(k, at + 1, Len(k)) THEN {row.result} ELSE {} BY <1>1, <1>5 DEF TurnAt
  <2>5. h = IF row.suffix = SubSeq(k, at + 1, Len(k)) THEN {row.result} ELSE {} BY <1>1, <1>5 DEF Hit
  <2>6. QED BY <1>1, <2>3, <2>4, <2>5
<1>6. CASE at < Len(k) /\ y = "pass"
  <2>1. Links(t, a) = <<row.id>> BY <1>1, <1>6 DEF Links
  <2>2. DOMAIN Links(t, a) = {1} /\ Links(t, a)[1] = row.id BY <2>1
  <2>3. Taken(t, k, at, a) = {1} BY <1>1, <1>6, <2>2 DEF Taken
  <2>4. Farther(t, at, a) = at BY <1>1, <1>6 DEF Farther
  <2>5. x = {<<at, row.id>>} BY <1>1, <2>2, <2>3, <2>4 DEF NextTurns
  <2>6. u = f[<<at, row.id>>] BY <1>1, <1>6 DEF TurnAt
  <2>7. h = {} BY <1>1, <1>6 DEF Hit
  <2>8. QED BY <1>1, <2>5, <2>6, <2>7
<1>7. CASE at < Len(k) /\ y = "infix"
  <2>1. Links(t, a) = <<row.id>> BY <1>1, <1>7 DEF Links
  <2>2. DOMAIN Links(t, a) = {1} /\ Links(t, a)[1] = row.id BY <2>1
  <2>3. PICK q, rest : q = IsPrefix(row.infix, rest) /\ rest = SubSeq(k, at + 1, Len(k)) OBVIOUS
  <2>4. Taken(t, k, at, a) = IF q THEN {1} ELSE {} BY <1>1, <1>7, <2>2, <2>3 DEF Taken
  <2>5. Farther(t, at, a) = at + Len(row.infix) BY <1>1, <1>7 DEF Farther
  <2>6. x = IF q THEN {<<at + Len(row.infix), row.id>>} ELSE {} BY <1>1, <2>2, <2>4, <2>5 DEF NextTurns
  <2>7. u = IF q THEN f[<<at + Len(row.infix), row.id>>] ELSE {} BY <1>1, <1>7, <2>3 DEF TurnAt
  <2>8. h = {} BY <1>1, <1>7 DEF Hit
  <2>9. QED BY <1>1, <2>6, <2>7, <2>8
<1>8. CASE at < Len(k) /\ y = "choice"
  <2>1. Links(t, a) = row BY <1>1, <1>8 DEF Links
  <2>2. PICK name, l, I : name = NameAt(t, a) /\ l = k[at + 1] /\ I = Offset(name, l) OBVIOUS
  <2>3. DOMAIN row = DOMAIN name BY <1>1, <1>8, <2>2, RowWidth
  <2>4. I = {i \in DOMAIN row : name[i] = l}
    <3>1. name \in Seq(Letters) /\ Increasing(name) BY <1>1, <1>8, <2>2 DEF LeadsWell
    <3>2. Len(k) \in Nat /\ at + 1 \in 1 .. Len(k) BY <1>8, SequenceIs
    <3>3. l \in Int BY <2>2, <3>2, SequenceIs, LettersAre
    <3>4. QED BY <2>2, <2>3, <3>1, <3>3, OffsetIs
  <2>5. Taken(t, k, at, a) = I BY <1>1, <1>8, <2>1, <2>2, <2>4 DEF Taken
  <2>6. Farther(t, at, a) = at + 1 BY <1>1, <1>8 DEF Farther
  <2>7. PICK e : e = [i \in I |-> <<at + 1, row[i]>>] OBVIOUS
  <2>8. x = {e[i] : i \in I}
    <3>1. \A i \in I : <<Farther(t, at, a), Links(t, a)[i]>> = e[i] BY <2>1, <2>6, <2>7
    <3>2. QED BY <1>1, <2>5, <3>1 DEF NextTurns
  <2>9. u = UNION {f[<<at + 1, row[i]>>] : i \in I}
    <3>1. Offset(t.choice[a.table_i + 1].name, k[at + 1]) = I BY <1>1, <1>8, <2>2 DEF NameAt
    <3>2. u = UNION {f[<<at + 1, RowAt(t, a)[i]>>] : i \in Offset(t.choice[a.table_i + 1].name, k[at + 1])}
      BY <1>1, <1>8 DEF TurnAt
    <3>3. QED BY <1>1, <3>1, <3>2
  <2>10. u = UNION {f[e[i]] : i \in I} BY <2>7, <2>9
  <2>11. UNION {f[e[i]] : i \in I} = UNION {f[d] : d \in x} BY <2>8
  <2>12. h = {} BY <1>1, <1>8 DEF Hit
  <2>13. QED BY <1>1, <2>10, <2>11, <2>12
<1>9. QED BY <1>1, <1>2, <1>3, <1>4, <1>5, <1>6, <1>7, <1>8

\* What is stored for k in a row
Mine(t, k, a) == IF a \in ValueRows(t) /\ RowAt(t, a).result.key = k THEN {RowAt(t, a).result} ELSE {}

\* A row that k leads to has what is returned there; no other has k.
LEMMA MineIsHit ==
  ASSUME NEW t, NEW P, Sound(t, P), NEW k \in Seq(Letters), NEW a \in Places(t)
  PROVE  Mine(t, k, a) = IF IsStart(P[a], k) THEN Hit(t, k, Len(P[a]), a) ELSE {}
<1>1. Leading(t) /\ Labelled(t, P) BY DEF Sound, LabelledFrom
<1>2. PICK p, y, at, n, v, e : p = P[a] /\ y = a.table_type /\ at = Len(p) /\ n = Len(k) /\ v = RowAt(t, a).result
                               /\ e = RestOf(p, k)
  OBVIOUS
<1>3. p \in Seq(Letters) /\ at \in Nat /\ n \in Nat /\ IsStart(k, k)
  <2>1. p \in Seq(Letters) BY <1>1, <1>2 DEF Labelled
  <2>2. at \in Nat /\ n \in Nat BY <1>2, <2>1, SequenceIs
  <2>3. QED BY <1>2, <2>1, <2>2 DEF IsStart
<1>4. a \in ValueRows(t) <=> y \in {"pass", "term", "suffix"} BY <1>2 DEF ValueRows
<1>5. y \in {"pass", "term", "suffix"} => v.key = IF y = "suffix" THEN p \o RowAt(t, a).suffix ELSE p
  <2>1. LabelledAt(t, P, a) BY <1>1 DEF Labelled
  <2>2. QED BY <1>2, <2>1 DEF LabelledAt, Spelled
<1>6. y = "suffix" => RowAt(t, a).suffix \in Seq(Letters) /\ RowAt(t, a).suffix # <<>>
  <2>1. LeadsWell(t, a) BY <1>1 DEF Leading
  <2>2. QED BY <1>2, <2>1 DEF LeadsWell
<1>7. e = SubSeq(k, at + 1, n) BY <1>2 DEF RestOf
<1>8. CASE IsStart(p, k)
  <2>1. at <= n /\ (p = k <=> ~(at < n))
    <3>1. at <= n /\ \A i \in 1 .. at : p[i] = k[i] BY <1>2, <1>8 DEF IsStart
    <3>2. at = n => p = k BY <1>2, <1>3, <3>1, SeqEqual
    <3>3. p = k => at = n BY <1>2
    <3>4. QED BY <1>3, <3>1, <3>2, <3>3
  <2>2. CASE y = "suffix"
    <3>1. PICK s : s = RowAt(t, a).suffix OBVIOUS
    <3>2. s \in Seq(Letters) /\ s # <<>> BY <1>6, <2>2, <3>1
    <3>3. p \o s = k <=> s = e
      <4>1. p \in Seq(Letters) /\ s \in Seq(Letters) /\ IsStart(p, k) BY <1>3, <1>8, <3>2
      <4>2. p \o s = k <=> s = RestOf(p, k) BY ONLY <4>1, k \in Seq(Letters), StartsOn
      <4>3. QED BY <1>2, <4>2
    <3>4. s = e => at < n
      <4>1. SUFFICES ASSUME s = e, ~(at < n) PROVE FALSE OBVIOUS
      <4>2. e = SubSeq(k, n + 1, n) BY <1>3, <1>7, <2>1, <4>1
      <4>3. Len(SubSeq(k, n + 1, n)) = 0
        <5>1. \A i \in n + 1 .. n : k[i] \in Letters BY <1>3
        <5>2. Len(SubSeq(k, n + 1, n)) = IF n + 1 <= n THEN n - (n + 1) + 1 ELSE 0
          BY <1>3, <5>1, SubSeqProperties
        <5>3. QED BY <1>3, <5>2
      <4>4. Len(s) = 0 BY <4>1, <4>2, <4>3
      <4>5. QED BY <3>2, <4>4, SequenceIs
    <3>5. Mine(t, k, a) = IF s = e THEN {v} ELSE {} BY <1>2, <1>4, <1>5, <2>2, <3>1, <3>3 DEF Mine
    <3>6. Hit(t, k, at, a) = IF at < n /\ s = e THEN {v} ELSE {} BY <1>2, <1>7, <2>2, <3>1 DEF Hit
    <3>7. QED BY <1>2, <1>8, <3>4, <3>5, <3>6
  <2>3. CASE y \in {"pass", "term"}
    <3>1. Mine(t, k, a) = IF p = k THEN {v} ELSE {} BY <1>2, <1>4, <1>5, <2>3 DEF Mine
    <3>2. Hit(t, k, at, a) = IF at < n THEN {} ELSE {v} BY <1>2, <2>3 DEF Hit
    <3>3. QED BY <1>2, <1>8, <2>1, <3>1, <3>2
  <2>4. CASE y \in {"choice", "infix"}
    <3>1. Mine(t, k, a) = {} BY <1>4, <2>4 DEF Mine
    <3>2. Hit(t, k, at, a) = {} BY <1>2, <2>4 DEF Hit
    <3>3. QED BY <1>2, <3>1, <3>2
  <2>5. QED BY <1>2, <2>2, <2>3, <2>4, PlaceTypes
<1>9. CASE ~IsStart(p, k)
  <2>1. ASSUME y \in {"pass", "term", "suffix"} PROVE v.key # k
    <3>1. CASE y = "suffix" BY <1>3, <1>5, <1>6, <1>9, <3>1, StartsNot
    <3>2. CASE y # "suffix" BY <1>3, <1>5, <1>9, <2>1, <3>2
    <3>3. QED BY <3>1, <3>2
  <2>2. QED BY <1>2, <1>4, <1>9, <2>1 DEF Mine
<1>10. QED BY <1>8, <1>9

Turning(t, k, turn) ==
  \A at \in Nat : \A a \in Places(t) :
    turn[<<at, a>>] = Hit(t, k, at, a) \cup UNION {turn[e] : e \in NextTurns(t, k, at, a)}

\* What is found from a place that k leads to
FoundFrom(t, P, k, turn) == [a \in Places(t) |-> IF IsStart(P[a], k) THEN turn[<<Len(P[a]), a>>] ELSE {}]

\* k goes on to the rows it leads to.
LEMMA TakenIs ==
  ASSUME NEW t, NEW P, Sound(t, P), NEW k \in Seq(Letters), NEW a \in Places(t), IsStart(P[a], k),
         NEW at, at = Len(P[a]), at < Len(k), NEW i \in DOMAIN Links(t, a), NEW b, b = Links(t, a)[i]
  PROVE  /\ b \in Places(t) /\ Len(P[b]) = Farther(t, at, a)
         /\ IsStart(P[b], k) <=> i \in Taken(t, k, at, a)
<1>1. PICK s : GoesOn(t, P, a, i, b, s)
  <2>1. PICK c, s : GoesOn(t, P, a, i, c, s) BY GoesDown
  <2>2. c = b BY <2>1 DEF GoesOn
  <2>3. QED BY <2>1, <2>2
<1>2. PICK p, q, n, e : p = P[a] /\ q = P[b] /\ n = Len(k) /\ e = RestOf(p, k) OBVIOUS
<1>3. /\ b \in Places(t) /\ s \in Seq(Letters) /\ p \in Seq(Letters) /\ q = p \o s
      /\ a.table_type = "choice" => s = <<NameAt(t, a)[i]>>
      /\ a.table_type = "infix" => s = RowAt(t, a).infix
      /\ a.table_type = "pass" => s = <<>>
  BY <1>1, <1>2 DEF GoesOn
<1>4. IsStart(p, k) /\ k \in Seq(Letters) BY <1>2
<1>5. Len(p \o s) = Len(p) + Len(s) BY <1>3, ConcatProperties
<1>6. IsStart(p \o s, k) <=> IsPrefix(s, e)
  <2>1. p \in Seq(Letters) /\ s \in Seq(Letters) BY <1>3
  <2>2. IsStart(p \o s, k) <=> IsPrefix(s, RestOf(p, k)) BY ONLY <2>1, <1>4, StartsOn
  <2>3. QED BY <1>2, <2>2
<1>7. e = SubSeq(k, at + 1, n) BY <1>2 DEF RestOf
<1>8. at \in Nat /\ n \in Nat /\ at < n BY <1>2, <1>3, SequenceIs
<1>9. e \in Seq(Letters) /\ Len(e) = n - at /\ e[1] = k[at + 1]
  <2>1. Len(p) <= Len(k) /\ p \in Seq(Letters) BY <1>2, <1>3, <1>8
  <2>2. /\ e \in Seq(Letters) /\ Len(e) = Len(k) - Len(p)
        /\ \A j \in 1 .. Len(k) - Len(p) : e[j] = k[Len(p) + j]
    <3>1. /\ RestOf(p, k) \in Seq(Letters) /\ Len(RestOf(p, k)) = Len(k) - Len(p)
          /\ \A j \in 1 .. Len(k) - Len(p) : RestOf(p, k)[j] = k[Len(p) + j]
      BY ONLY <2>1, k \in Seq(Letters), RestOfIs
    <3>2. QED BY <1>2, <3>1
  <2>3. 1 \in 1 .. n - at BY <1>8
  <2>4. QED BY <1>2, <2>2, <2>3
<1>10. PICK y : y = a.table_type /\ y \in {"choice", "infix", "pass", "term", "suffix"} BY PlaceTypes
<1>11. CASE y = "choice"
  <2>1. PICK l : l = NameAt(t, a)[i] OBVIOUS
  <2>2. s = <<l>> BY <1>3, <1>10, <1>11, <2>1
  <2>3. Len(s) = 1 /\ s[1] = l BY <2>2
  <2>4. IsPrefix(s, e) <=> l = k[at + 1]
    <3>1. IsPrefix(s, e) <=> IsStart(s, e) BY <1>3, <1>9, BeginsIs
    <3>2. 1 <= Len(e) BY <1>8, <1>9
    <3>3. IsStart(s, e) <=> s[1] = e[1]
      <4>1. 1 .. 1 = {1} OBVIOUS
      <4>2. QED BY <2>3, <3>2, <4>1 DEF IsStart
    <3>4. QED BY <1>9, <2>3, <3>1, <3>3
  <2>5. i \in Taken(t, k, at, a) <=> l = k[at + 1] BY <1>10, <1>11, <2>1 DEF Taken
  <2>6. Len(q) = Farther(t, at, a) BY <1>2, <1>3, <1>5, <1>10, <1>11, <2>3 DEF Farther
  <2>7. QED BY <1>2, <1>3, <1>6, <2>4, <2>5, <2>6
<1>12. CASE y = "infix"
  <2>1. s = RowAt(t, a).infix BY <1>3, <1>10, <1>12
  <2>2. i \in Taken(t, k, at, a) <=> IsPrefix(s, e) BY <1>2, <1>7, <1>10, <1>12, <2>1 DEF Taken
  <2>3. Len(q) = Farther(t, at, a) BY <1>2, <1>3, <1>5, <1>10, <1>12, <2>1 DEF Farther
  <2>4. QED BY <1>2, <1>3, <1>6, <2>2, <2>3
<1>13. CASE y = "pass"
  <2>1. q = p
    <3>1. q = p \o <<>> BY <1>3, <1>10, <1>13
    <3>2. QED BY <1>3, <3>1, WithNone
  <2>2. i \in Taken(t, k, at, a) BY <1>10, <1>13 DEF Taken
  <2>3. Farther(t, at, a) = at BY <1>10, <1>13 DEF Farther
  <2>4. QED BY <1>2, <1>3, <1>4, <2>1, <2>2, <2>3
<1>14. CASE y \in {"term", "suffix"}
  <2>1. Links(t, a) = <<>> BY <1>10, <1>14 DEF Links
  <2>2. QED BY <2>1
<1>15. QED BY <1>10, <1>11, <1>12, <1>13, <1>14

\* At its end k goes nowhere.
LEMMA TakenAtEnd ==
  ASSUME NEW t, NEW P, Sound(t, P), NEW k \in Seq(Letters), NEW turn, Turning(t, k, turn),
         NEW a \in Places(t), ~(Len(P[a]) < Len(k)), NEW i \in DOMAIN Links(t, a)
  PROVE  FoundFrom(t, P, k, turn)[Links(t, a)[i]] = {}
<1>1. PICK b, s : GoesOn(t, P, a, i, b, s) BY GoesDown
<1>2. PICK p, q, n : p = P[a] /\ q = P[b] /\ n = Len(k) OBVIOUS
<1>3. /\ b \in Places(t) /\ s \in Seq(Letters) /\ p \in Seq(Letters) /\ q = p \o s /\ b = Links(t, a)[i]
      /\ IF a.table_type = "pass" THEN s = <<>> /\ b.table_type \in {"choice", "infix"} ELSE s # <<>>
  BY <1>1, <1>2 DEF GoesOn
<1>4. Len(q) = Len(p) + Len(s) /\ q \in Seq(Letters) BY <1>3, ConcatProperties
<1>5. Len(p) \in Nat /\ Len(s) \in Nat /\ n \in Nat /\ n <= Len(p) /\ Len(q) \in Nat
  BY <1>2, <1>3, <1>4, SequenceIs
<1>6. FoundFrom(t, P, k, turn)[b] = IF IsStart(q, k) THEN turn[<<Len(q), b>>] ELSE {}
  BY <1>2, <1>3 DEF FoundFrom
<1>7. CASE s # <<>>
  <2>1. Len(s) # 0 BY <1>3, <1>7, SequenceIs
  <2>2. ~(Len(q) <= n) BY <1>4, <1>5, <2>1
  <2>3. ~IsStart(q, k) BY <1>2, <2>2 DEF IsStart
  <2>4. QED BY <1>3, <1>6, <2>3
<1>8. CASE s = <<>>
  <2>1. b.table_type \in {"choice", "infix"} BY <1>3, <1>8
  <2>2. PICK at : at = Len(q) OBVIOUS
  <2>3. at \in Nat /\ ~(at < Len(k))
    <3>1. Len(s) = 0 BY <1>8
    <3>2. QED BY <1>2, <1>4, <1>5, <2>2, <3>1
  <2>4. Hit(t, k, at, b) = {} BY <2>1, <2>3 DEF Hit
  <2>5. NextTurns(t, k, at, b) = {}
    <3>1. Taken(t, k, at, b) = {} BY <2>3 DEF Taken
    <3>2. QED BY <3>1 DEF NextTurns
  <2>6. turn[<<at, b>>] = {}
    <3>1. turn[<<at, b>>] = Hit(t, k, at, b) \cup UNION {turn[e] : e \in NextTurns(t, k, at, b)}
      BY <1>3, <2>3 DEF Turning
    <3>2. QED BY <2>4, <2>5, <3>1
  <2>7. QED BY <1>3, <1>6, <2>2, <2>6
<1>9. QED BY <1>7, <1>8

LEMMA TurnGathers ==
  ASSUME NEW t, NEW P, Sound(t, P), NEW k \in Seq(Letters), NEW turn, Turning(t, k, turn),
         NEW a \in Places(t), NEW mine, mine[a] = Mine(t, k, a)
  PROVE  GathersAt(LinksOf(t), FoundFrom(t, P, k, turn), mine, a)
<1>1. PICK F, s, p, at : F = FoundFrom(t, P, k, turn) /\ s = Links(t, a) /\ p = P[a] /\ at = Len(p) OBVIOUS
<1>2. p \in Seq(Letters) /\ at \in Nat
  <2>1. p \in Seq(Letters) BY <1>1 DEF Sound, LabelledFrom, Labelled
  <2>2. QED BY <1>1, <2>1, SequenceIs
<1>3. F[a] = IF IsStart(p, k) THEN turn[<<at, a>>] ELSE {} BY <1>1 DEF FoundFrom
<1>4. LinksOf(t)[a] = s BY <1>1 DEF LinksOf
<1>5. SUFFICES F[a] = mine[a] \cup UNION {F[s[i]] : i \in DOMAIN s} BY <1>1, <1>4 DEF GathersAt
<1>6. mine[a] = IF IsStart(p, k) THEN Hit(t, k, at, a) ELSE {} BY <1>1, MineIsHit
<1>7. CASE ~IsStart(p, k)
  <2>1. ASSUME NEW i \in DOMAIN s PROVE F[s[i]] = {}
    <3>1. PICK b, w : GoesOn(t, P, a, i, b, w) BY <1>1, GoesDown
    <3>2. b = s[i] /\ b \in Places(t) /\ w \in Seq(Letters) /\ P[b] = p \o w BY <1>1, <3>1 DEF GoesOn
    <3>3. ~IsStart(p \o w, k) BY <1>2, <1>7, <3>2, StartsNot
    <3>4. QED BY <1>1, <3>2, <3>3 DEF FoundFrom
  <2>2. UNION {F[s[i]] : i \in DOMAIN s} = {} BY <2>1
  <2>3. QED BY <1>3, <1>6, <1>7, <2>2
<1>8. CASE IsStart(p, k) /\ ~(at < Len(k))
  <2>1. \A i \in DOMAIN s : F[s[i]] = {} BY <1>1, <1>8, TakenAtEnd
  <2>2. Taken(t, k, at, a) = {} BY <1>8 DEF Taken
  <2>3. NextTurns(t, k, at, a) = {} BY <2>2 DEF NextTurns
  <2>4. turn[<<at, a>>] = Hit(t, k, at, a) \cup UNION {turn[e] : e \in NextTurns(t, k, at, a)}
    BY <1>2 DEF Turning
  <2>5. turn[<<at, a>>] = Hit(t, k, at, a) BY <2>3, <2>4
  <2>6. UNION {F[s[i]] : i \in DOMAIN s} = {} BY <2>1
  <2>7. QED BY <1>3, <1>6, <1>8, <2>5, <2>6
<1>9. CASE IsStart(p, k) /\ at < Len(k)
  <2>1. PICK T, x, g : /\ T = Taken(t, k, at, a) /\ x = Farther(t, at, a)
                       /\ g = [i \in T |-> <<x, s[i]>>]
    OBVIOUS
  <2>2. T \subseteq DOMAIN s BY <1>1, <2>1 DEF Taken
  <2>3. NextTurns(t, k, at, a) = {g[i] : i \in T}
    <3>1. \A i \in T : <<x, s[i]>> = g[i] BY <2>1
    <3>2. QED BY <1>1, <2>1, <3>1 DEF NextTurns
  <2>4. turn[<<at, a>>] = Hit(t, k, at, a) \cup UNION {turn[g[i]] : i \in T}
    <3>1. turn[<<at, a>>] = Hit(t, k, at, a) \cup UNION {turn[e] : e \in NextTurns(t, k, at, a)}
      BY <1>2 DEF Turning
    <3>2. QED BY <2>3, <3>1
  <2>5. ASSUME NEW i \in DOMAIN s PROVE F[s[i]] = IF i \in T THEN turn[g[i]] ELSE {}
    <3>1. PICK b : b = s[i] OBVIOUS
    <3>2. b \in Places(t) /\ (IsStart(P[b], k) <=> i \in T) /\ Len(P[b]) = x
      BY <1>1, <1>9, <2>1, <3>1, TakenIs
    <3>3. F[b] = IF IsStart(P[b], k) THEN turn[<<x, b>>] ELSE {} BY <1>1, <3>2 DEF FoundFrom
    <3>4. i \in T => g[i] = <<x, b>> BY <2>1, <3>1
    <3>5. QED BY <3>1, <3>2, <3>3, <3>4
  <2>6. UNION {F[s[i]] : i \in DOMAIN s} = UNION {turn[g[i]] : i \in T} BY <2>2, <2>5
  <2>7. QED BY <1>3, <1>6, <1>9, <2>4, <2>6
<1>10. QED BY <1>7, <1>8, <1>9

\* ttrie__get finds what is stored with a key, and nothing without.
LEMMA FoundIs ==
  ASSUME NEW t, NEW P, Sound(t, P), NEW k \in Seq(Letters), k # <<>>
  PROVE  Found(t, k) = UNION {Mine(t, k, a) : a \in Places(t)}
<1>1. Whole(t) /\ Leading(t) /\ Shapely(t) /\ P[t.root_id] = <<>> BY DEF Sound, Whole, LabelledFrom
<1>2. PICK rank, b : Descends(Places(t), LinksOf(t), rank, b) BY PlacesRanked
<1>3. PICK D, V, own, next, deep :
        /\ D = Nat \X Places(t) /\ V = Buffers \cup Streams
        /\ own = [d \in D |-> Hit(t, k, d[1], d[2])] /\ next = [d \in D |-> NextTurns(t, k, d[1], d[2])]
        /\ deep = [d \in D |-> rank[d[2]]]
  OBVIOUS
<1>4. ASSUME NEW d \in D
      PROVE  /\ own[d] = Hit(t, k, d[1], d[2]) /\ next[d] = NextTurns(t, k, d[1], d[2]) /\ deep[d] = rank[d[2]]
             /\ d[1] \in Nat /\ d[2] \in Places(t) /\ d = <<d[1], d[2]>>
  BY <1>3
<1>5. ASSUME NEW d \in D
      PROVE  own[d] \subseteq V /\ next[d] \subseteq D /\ \A e \in next[d] : deep[e] < deep[d]
  <2>1. PICK at, a : at = d[1] /\ a = d[2] OBVIOUS
  <2>2. at \in Nat /\ a \in Places(t) /\ own[d] = Hit(t, k, at, a) /\ next[d] = NextTurns(t, k, at, a)
        /\ deep[d] = rank[a]
    BY <1>4, <2>1
  <2>3. own[d] \subseteq V
    <3>1. ASSUME a.table_type \in {"pass", "term", "suffix"} PROVE RowAt(t, a).result \in V
      <4>1. a \in ValueRows(t) BY <2>2, <3>1 DEF ValueRows
      <4>2. QED BY <1>1, <1>3, <4>1, RowStores
    <3>2. QED BY <2>2, <3>1 DEF Hit
  <2>4. ASSUME NEW e \in next[d] PROVE e \in D /\ deep[e] < deep[d]
    <3>1. PICK i \in Taken(t, k, at, a) : e = <<Farther(t, at, a), Links(t, a)[i]>> BY <2>2 DEF NextTurns
    <3>2. PICK c, x : c = Links(t, a)[i] /\ x = Farther(t, at, a) OBVIOUS
    <3>3. i \in DOMAIN Links(t, a) BY DEF Taken
    <3>4. c \in Places(t)
      <4>1. PICK F : F = {t.root_id} OBVIOUS
      <4>2. LinkedBut(t, F) BY <1>1, <4>1 DEF Whole
      <4>3. QED BY <2>2, <3>2, <3>3, <4>2, LinkedWithin
    <3>5. x \in Nat
      <4>1. LeadsWell(t, a) BY <1>1, <2>2 DEF Leading
      <4>2. PICK s : s = RowAt(t, a).infix OBVIOUS
      <4>3. a.table_type = "infix" => Len(s) \in Nat
        <5>1. a.table_type = "infix" => s \in Seq(Letters) BY <4>1, <4>2 DEF LeadsWell
        <5>2. QED BY <5>1, SequenceIs
      <4>4. x = IF a.table_type = "choice" THEN at + 1 ELSE IF a.table_type = "infix" THEN at + Len(s) ELSE at
        BY <3>2, <4>2 DEF Farther
      <4>5. QED BY <2>2, <4>3, <4>4
    <3>6. e \in D /\ e[2] = c BY <1>3, <3>1, <3>2, <3>4, <3>5
    <3>7. rank[c] < rank[a]
      <4>1. LinksOf(t)[a] = Links(t, a) BY <2>2 DEF LinksOf
      <4>2. QED BY <1>2, <2>2, <3>2, <3>3, <4>1 DEF Descends
    <3>8. QED BY <1>4, <2>2, <3>6, <3>7
  <2>5. QED BY <2>3, <2>4
<1>6. deep \in [D -> Nat]
  <2>1. \A d \in D : rank[d[2]] \in Nat BY <1>2, <1>4 DEF Descends
  <2>2. QED BY <1>3, <2>1
<1>7. \E f : GathersDown(f, D, own, next)
  <2>1. \A d \in D : own[d] \subseteq V /\ next[d] \subseteq D BY <1>5
  <2>2. \A d \in D : \A e \in next[d] : deep[e] < deep[d] BY <1>5
  <2>3. QED BY <1>6, <2>1, <2>2, GatherExists
<1>8. AllIds(t) = Places(t) BY <1>1, AllIdsAre
<1>9. \A f : [d \in D |-> own[d] \cup UNION {f[e] : e \in next[d]}] = [d \in D |-> TurnAt(t, k, f, d)]
  <2>1. SUFFICES ASSUME NEW f, NEW d \in D
                 PROVE  own[d] \cup UNION {f[e] : e \in next[d]} = TurnAt(t, k, f, d)
    OBVIOUS
  <2>2. PICK at, a : at = d[1] /\ a = d[2] OBVIOUS
  <2>3. /\ at \in Nat /\ a \in Places(t) /\ own[d] = Hit(t, k, at, a) /\ next[d] = NextTurns(t, k, at, a)
        /\ d = <<at, a>>
    BY <1>4, <2>2
  <2>4. LeadsWell(t, a) BY <1>1, <2>3 DEF Leading
  <2>5. TurnAt(t, k, f, <<at, a>>) = Hit(t, k, at, a) \cup UNION {f[e] : e \in NextTurns(t, k, at, a)}
    <3>1. Shapely(t) /\ at \in Nat /\ a \in Places(t) /\ LeadsWell(t, a) BY <1>1, <2>3, <2>4
    <3>2. QED BY ONLY <3>1, k \in Seq(Letters), TurnIs
  <2>6. QED BY <2>3, <2>5
<1>10. PICK turn : turn = CHOOSE f : f = [d \in D |-> TurnAt(t, k, f, d)] OBVIOUS
<1>11. turn = [d \in D |-> own[d] \cup UNION {turn[e] : e \in next[d]}]
  <2>1. \E f : f = [d \in D |-> TurnAt(t, k, f, d)]
    <3>1. PICK f : f = [d \in D |-> own[d] \cup UNION {f[e] : e \in next[d]}] BY <1>7 DEF GathersDown
    <3>2. f = [d \in D |-> TurnAt(t, k, f, d)] BY <1>9, <3>1
    <3>3. QED BY <3>2
  <2>2. turn = [d \in D |-> TurnAt(t, k, turn, d)] BY <1>10, <2>1
  <2>3. QED BY <1>9, <2>2
<1>12. Turning(t, k, turn)
  <2>1. SUFFICES ASSUME NEW at \in Nat, NEW a \in Places(t)
                 PROVE  turn[<<at, a>>] = Hit(t, k, at, a) \cup UNION {turn[e] : e \in NextTurns(t, k, at, a)}
    BY DEF Turning
  <2>2. PICK d : d = <<at, a>> OBVIOUS
  <2>3. d \in D /\ d[1] = at /\ d[2] = a BY <1>3, <2>2
  <2>4. turn[d] = own[d] \cup UNION {turn[e] : e \in next[d]} BY <1>11, <2>3
  <2>5. own[d] = Hit(t, k, at, a) /\ next[d] = NextTurns(t, k, at, a) BY <1>4, <2>3
  <2>6. QED BY <2>2, <2>4, <2>5
<1>13. Found(t, k) = turn[<<0, t.root_id>>]
  <2>1. turn = CHOOSE f : f = [d \in Nat \X AllIds(t) |-> TurnAt(t, k, f, d)] BY ONLY <1>3, <1>8, <1>10
  <2>2. QED BY ONLY <2>1, k # <<>>, FoundTurns
<1>14. PICK L, F, mine, r : /\ L = LinksOf(t) /\ F = FoundFrom(t, P, k, turn) /\ r = t.root_id
                            /\ mine = [a \in Places(t) |-> Mine(t, k, a)]
  OBVIOUS
<1>15. PICK Q : Q = Places(t) OBVIOUS
<1>16. \A a \in Q : GathersAt(L, F, mine, a)
  <2>1. \A a \in Q : mine[a] = Mine(t, k, a) BY <1>14, <1>15
  <2>2. QED BY <1>12, <1>14, <1>15, <2>1, TurnGathers
<1>17. Linked(Q, L, {r}) BY <1>1, <1>14, <1>15 DEF Whole, LinkedBut, LinksOf
<1>18. F[r] = AllOf(mine, Q)
  <2>1. Descends(Q, L, rank, b) BY <1>2, <1>14, <1>15
  <2>2. QED BY <1>16, <1>17, <2>1, Gathered
<1>19. F[r] = turn[<<0, r>>]
  <2>1. r \in Places(t) /\ P[r] = <<>> BY <1>1, <1>14, <1>15, <1>17 DEF Linked
  <2>2. Len(<<>>) = 0 /\ Len(k) \in Nat /\ 1 .. 0 = {} BY SequenceIs
  <2>3. IsStart(<<>>, k) BY <2>2 DEF IsStart
  <2>4. QED BY <1>14, <2>1, <2>2, <2>3 DEF FoundFrom
<1>20. AllOf(mine, Q) = UNION {Mine(t, k, a) : a \in Places(t)} BY <1>14, <1>15 DEF AllOf
<1>21. QED BY <1>13, <1>14, <1>18, <1>19, <1>20

-----------------------------------------------------------------------------
(***************************************************************************)
(* What converted tables hold                                              *)
(***************************************************************************)
StreamFor(k) == [of |-> "cpref", key |-> k]

EntryOf(k) == [key |-> k, result |-> StreamFor(k)]

Streamed(t) == \A a \in ValueRows(t) : RowAt(t, a).result \in Streams

Counted(t) == IsFiniteSet(KeysIn(t)) /\ Cardinality(KeysIn(t)) = t.len

LEMMA StreamedRow ==
  ASSUME NEW t, Streamed(t), NEW a \in ValueRows(t)
  PROVE  /\ RowAt(t, a).result = StreamFor(RowAt(t, a).result.key)
         /\ RowAt(t, a).result.key \in KeysIn(t)
<1>1. PICK k \in Keys : RowAt(t, a).result = [of |-> "cpref", key |-> k] BY DEF Streamed, Streams
<1>2. QED BY <1>1 DEF StreamFor, KeysIn

LEMMA StreamEntries ==
  ASSUME NEW t, NEW P, Sound(t, P), Streamed(t)
  PROVE  Entries(t) = {EntryOf(k) : k \in KeysIn(t)}
<1>1. PICK e : e = [a \in ValueRows(t) |-> [key |-> RowAt(t, a).result.key, result |-> RowAt(t, a).result]]
  OBVIOUS
<1>2. Entries(t) = {e[a] : a \in ValueRows(t)}
  <2>1. \A a \in ValueRows(t) : e[a] = [key |-> RowAt(t, a).result.key, result |-> RowAt(t, a).result] BY <1>1
  <2>2. Entries(t) = {[key |-> RowAt(t, a).result.key, result |-> RowAt(t, a).result] : a \in ValueRows(t)}
    BY EntriesAre
  <2>3. QED BY <2>1, <2>2
<1>3. ASSUME NEW a \in ValueRows(t)
      PROVE  e[a] = EntryOf(RowAt(t, a).result.key) /\ RowAt(t, a).result.key \in KeysIn(t)
  BY <1>1, StreamedRow DEF EntryOf
<1>4. ASSUME NEW k \in KeysIn(t) PROVE \E a \in ValueRows(t) : EntryOf(k) = e[a]
  <2>1. PICK a \in ValueRows(t) : k = RowAt(t, a).result.key BY DEF KeysIn
  <2>2. QED BY <1>3, <2>1
<1>5. \A x \in Entries(t) : x \in {EntryOf(k) : k \in KeysIn(t)} BY <1>2, <1>3
<1>6. \A x \in {EntryOf(k) : k \in KeysIn(t)} : x \in Entries(t) BY <1>2, <1>4
<1>7. QED BY <1>5, <1>6

LEMMA EntriesMap ==
  ASSUME NEW K
  PROVE  AsMap({EntryOf(k) : k \in K}) = [k \in K |-> StreamFor(k)]
<1>1. PICK E : E = {EntryOf(k) : k \in K} OBVIOUS
<1>2. \A k : EntryOf(k).key = k /\ EntryOf(k).result = StreamFor(k) BY DEF EntryOf
<1>3. {e.key : e \in E} = K BY <1>1, <1>2
<1>4. ASSUME NEW k \in K PROVE (CHOOSE e \in E : e.key = k).result = StreamFor(k)
  <2>1. EntryOf(k) \in E /\ EntryOf(k).key = k BY <1>1, <1>2
  <2>2. PICK c : c = CHOOSE e \in E : e.key = k OBVIOUS
  <2>3. c \in E /\ c.key = k BY <2>1, <2>2
  <2>4. PICK l \in K : c = EntryOf(l) BY <1>1, <2>3
  <2>5. QED BY <1>2, <2>2, <2>3, <2>4
<1>5. QED BY <1>1, <1>3, <1>4 DEF AsMap

LEMMA EntriesCount ==
  ASSUME NEW K, IsFiniteSet(K)
  PROVE  Cardinality({EntryOf(k) : k \in K}) = Cardinality(K)
<1>1. PICK f : f = [k \in K |-> EntryOf(k)] OBVIOUS
<1>2. PICK E : E = {EntryOf(k) : k \in K} OBVIOUS
<1>3. \A k : EntryOf(k).key = k BY DEF EntryOf
<1>4. f \in Bijection(K, E) BY <1>1, <1>2, <1>3 DEF Bijection, Injection, Surjection, IsInjective
<1>5. ExistsBijection(K, E) BY <1>4 DEF ExistsBijection
<1>6. QED BY <1>2, <1>5, FS_Bijection

LEMMA FoundStream ==
  ASSUME NEW t, NEW P, Sound(t, P), Streamed(t), NEW k \in Seq(Letters), k # <<>>
  PROVE  Found(t, k) = IF k \in KeysIn(t) THEN {StreamFor(k)} ELSE {}
<1>1. PICK m : m = [a \in Places(t) |-> Mine(t, k, a)] OBVIOUS
<1>2. ASSUME NEW a \in Places(t)
      PROVE  m[a] = IF a \in ValueRows(t) /\ RowAt(t, a).result.key = k THEN {StreamFor(k)} ELSE {}
  BY <1>1, StreamedRow DEF Mine
<1>3. Found(t, k) = UNION {m[a] : a \in Places(t)}
  <2>1. Found(t, k) = UNION {Mine(t, k, a) : a \in Places(t)} BY FoundIs
  <2>2. \A a \in Places(t) : m[a] = Mine(t, k, a) BY <1>1
  <2>3. QED BY <2>1, <2>2
<1>4. CASE k \in KeysIn(t)
  <2>1. PICK a \in ValueRows(t) : k = RowAt(t, a).result.key BY <1>4 DEF KeysIn
  <2>2. a \in Places(t) BY DEF ValueRows
  <2>3. m[a] = {StreamFor(k)} BY <1>2, <2>1, <2>2
  <2>4. QED BY <1>2, <1>3, <1>4, <2>2, <2>3
<1>5. CASE k \notin KeysIn(t)
  <2>1. \A a \in Places(t) : m[a] = {} BY <1>2, <1>5 DEF KeysIn
  <2>2. QED BY <1>3, <1>5, <2>1
<1>6. QED BY <1>4, <1>5

-----------------------------------------------------------------------------
(***************************************************************************)
(* What the conversion of a node adds                                      *)
(***************************************************************************)
RowKeys(t, a) == IF a.table_type \in {"pass", "term", "suffix"} THEN {RowAt(t, a).result.key} ELSE {}

\* Rows were added for the keys ks.
Gains(t, u, ks) == Leading(u) /\ KeysIn(u) = KeysIn(t) \cup ks /\ u.len = t.len

LEMMA RowGains ==
  ASSUME NEW t, NEW u, NEW a, OneMore(t, u, a), Leading(t), LeadsWell(u, a), u.len = t.len
  PROVE  Gains(t, u, RowKeys(u, a))
<1>1. Places(u) = Places(t) \cup {a} /\ a \notin Places(t) BY PlaceMore
<1>2. ASSUME NEW b \in Places(t) PROVE RowAt(u, b) = RowAt(t, b) /\ NameAt(u, b) = NameAt(t, b)
  BY DEF OneMore
<1>3. ASSUME NEW b \in Places(t) PROVE LeadsWell(u, b)
  <2>1. LeadsWell(t, b) BY DEF Leading
  <2>2. QED BY <1>2, <2>1 DEF LeadsWell
<1>4. Leading(u) BY <1>1, <1>3 DEF Leading
<1>5. ASSUME NEW k PROVE k \in KeysIn(u) <=> (k \in KeysIn(t) \/ k \in RowKeys(u, a))
  <2>1. k \in KeysIn(u) <=> \E b \in Places(u) : b.table_type \in {"pass", "term", "suffix"} /\ k = RowAt(u, b).result.key
    BY DEF KeysIn, ValueRows
  <2>2. k \in KeysIn(t) <=> \E b \in Places(t) : b.table_type \in {"pass", "term", "suffix"} /\ k = RowAt(t, b).result.key
    BY DEF KeysIn, ValueRows
  <2>3. k \in RowKeys(u, a) <=> a.table_type \in {"pass", "term", "suffix"} /\ k = RowAt(u, a).result.key
    BY DEF RowKeys
  <2>4. QED BY <1>1, <1>2, <2>1, <2>2, <2>3
<1>6. KeysIn(u) = KeysIn(t) \cup RowKeys(u, a) BY <1>5
<1>7. QED BY <1>4, <1>6 DEF Gains

LEMMA LengthStays ==
  ASSUME NEW t, Shapely(t), NEW y \in Plain \cup {"choice"}, NEW x
  PROVE  [t EXCEPT ![y] = x].len = t.len
<1>1. "len" \in DOMAIN t /\ y # "len" BY DEF Shapely, Tables, Plain
<1>2. QED BY <1>1

LEMMA ChoiceLength ==
  ASSUME NEW t, Shapely(t), NEW name, NEW row, NEW found, NEW new, new = ChoiceRow(t, name, row, found)
  PROVE  new.tables.len = t.len
<1>1. PICK c, n : c = t.choice /\ n = Len(c) OBVIOUS
<1>2. PICK i : i = TableFor(t, name, found) OBVIOUS
<1>3. PICK e : e = (IF i > n THEN Append(c, [name |-> name, rows |-> <<>>]) ELSE c) OBVIOUS
<1>4. PICK d : d = [e EXCEPT ![i].rows = Append(@, row)] OBVIOUS
<1>5. new.tables = [t EXCEPT !.choice = d] BY <1>1, <1>2, <1>3, <1>4 DEF ChoiceRow, RowNumber
<1>6. QED BY <1>5, LengthStays

LEMMA AppendedGains ==
  ASSUME NEW t, Shapely(t), Leading(t), NEW type \in Plain, NEW row, RowOfType(type, row),
         type = "pass" => row.id.table_type \in {"choice", "infix"},
         type = "infix" => row.infix # <<>>, type = "suffix" => row.suffix # <<>>,
         NEW new, new = Appended(t, type, row)
  PROVE  Gains(t, new.tables, IF type = "infix" THEN {} ELSE {row.result.key})
<1>1. PICK u, a : u = new.tables /\ a = new.id OBVIOUS
<1>2. OneMore(t, u, a) /\ RowAt(u, a) = row /\ a.table_type = type BY <1>1, AppendedIs
<1>3. type \in {"term", "pass", "suffix", "infix"} BY DEF Plain
<1>4. LeadsWell(u, a)
  <2>1. type = "infix" => row.infix \in Seq(Letters) BY DEF RowOfType
  <2>2. type = "suffix" => row.suffix \in Seq(Letters) BY DEF RowOfType
  <2>3. QED BY <1>2, <1>3, <2>1, <2>2 DEF LeadsWell
<1>5. u.len = t.len
  <2>1. u = [t EXCEPT ![type] = Append(t[type], row)] BY <1>1 DEF Appended
  <2>2. QED BY <2>1, LengthStays
<1>6. RowKeys(u, a) = IF type = "infix" THEN {} ELSE {row.result.key} BY <1>2, <1>3 DEF RowKeys
<1>7. Gains(t, u, RowKeys(u, a)) BY <1>2, <1>4, <1>5, RowGains
<1>8. QED BY <1>1, <1>6, <1>7

\* convert_subtrie_to_choice and convert_subtrie_to_infix store nothing.
LEMMA InnerGains ==
  ASSUME Tree(nodes), Bounded, Shapely(tt), Leading(tt), NEW n \in Heads, HasChildren(n),
         \A k \in Kids(n) : ids[k] \in Address,
         NEW found \in MissedNames(nodes[n].keys), NEW new, new = Inner(n, found)
  PROVE  Gains(tt, new.tables, {})
<1>1. PICK name, c, l : name = nodes[n].keys /\ c = nodes[n].children /\ l = Len(c) OBVIOUS
<1>2. n \in DOMAIN nodes /\ n \in Seq(Letters) BY HeadsAre
<1>3. name \in Seq(Letters) /\ c \in Seq(Seq(Letters)) /\ Increasing(name) BY <1>1, <1>2, NodeIs DEF Node
<1>4. l \in Nat /\ DOMAIN c = 1 .. l /\ DOMAIN name = 1 .. l /\ l # 0 /\ Len(name) = l
  BY <1>1, <1>2, <1>3, NotHead, SequenceIs DEF HasChildren
<1>5. PICK u, a : u = new.tables /\ a = new.id OBVIOUS
<1>6. CASE l > 1
  <2>1. PICK row : row = [i \in DOMAIN c |-> ids[c[i]]] OBVIOUS
  <2>2. Kids(n) = ToSet(c)
    <3>1. l # 1 BY <1>4, <1>6
    <3>2. QED BY <1>1, <3>1 DEF Kids
  <2>3. \A i \in 1 .. l : c[i] \in Kids(n) BY <1>4, <2>2 DEF ToSet
  <2>4. row = [i \in 1 .. l |-> ids[c[i]]] BY <1>4, <2>1
  <2>5. row \in Seq(Address) /\ Len(row) = l
    <3>1. \A i \in 1 .. l : ids[c[i]] \in Address BY <2>3
    <3>2. QED BY <1>4, <2>4, <3>1
  <2>6. new = ChoiceRow(tt, name, row, found) BY <1>1, <1>6, <2>1 DEF Inner
  <2>7. found \in MissedNames(name) BY <1>1
  <2>8. OneMore(tt, u, a) /\ a.table_type = "choice" /\ NameAt(u, a) = name
    BY <1>3, <1>4, <1>5, <2>5, <2>6, <2>7, ChoiceAppended
  <2>9. LeadsWell(u, a) BY <1>3, <2>8 DEF LeadsWell
  <2>10. u.len = tt.len BY <1>5, <2>6, ChoiceLength
  <2>11. RowKeys(u, a) = {} BY <2>8 DEF RowKeys
  <2>12. Gains(tt, u, RowKeys(u, a)) BY <2>8, <2>9, <2>10, RowGains
  <2>13. QED BY <1>5, <2>11, <2>12
<1>7. CASE l = 1
  <2>1. PICK e, infix, row : /\ e = InfixEnd(n) /\ infix = Infix(n)
                             /\ row = [infix |-> infix, id |-> ids[e]]
    OBVIOUS
  <2>2. Kids(n) = {e} BY <1>1, <1>7, <2>1 DEF Kids
  <2>3. e \in Heads /\ Under(n, e) BY <1>1, <1>7, <2>1, InfixEndIs
  <2>4. e \in Seq(Letters) /\ Len(e) \in Nat /\ Len(n) \in Nat /\ Len(n) < Len(e)
    BY <1>2, <2>3, HeadsAre DEF Under
  <2>5. infix \in Seq(Letters) /\ infix # <<>>
    <3>1. PICK x, y : x = Len(n) + 1 /\ y = Len(e) OBVIOUS
    <3>2. x \in Int /\ y \in Int /\ x <= y /\ \A i \in x .. y : i \in 1 .. Len(e) BY <2>4, <3>1
    <3>3. \A i \in x .. y : e[i] \in Letters BY <2>4, <3>2, SequenceIs
    <3>4. SubSeq(e, x, y) \in Seq(Letters) /\ Len(SubSeq(e, x, y)) = y - x + 1
      BY <3>2, <3>3, SubSeqProperties
    <3>5. infix = SubSeq(e, x, y) BY <2>1, <3>1 DEF Infix
    <3>6. Len(infix) # 0 BY <3>2, <3>4, <3>5
    <3>7. QED BY <3>4, <3>5, <3>6
  <2>6. ids[e] \in Address BY <2>2
  <2>7. RowOfType("infix", row)
    <3>1. row \in [infix : Seq(Letters), id : Address] BY <2>1, <2>5, <2>6
    <3>2. QED BY <3>1 DEF RowOfType
  <2>8. new = Appended(tt, "infix", row) BY <1>1, <1>7, <2>1 DEF Inner
  <2>9. "infix" \in Plain BY DEF Plain
  <2>10. row.infix # <<>> BY <2>1, <2>5
  <2>11. QED BY <2>7, <2>8, <2>9, <2>10, AppendedGains
<1>8. QED BY <1>4, <1>6, <1>7

LEMMA GainsMore ==
  ASSUME NEW t, NEW u, NEW v, NEW ks, NEW ls, Gains(t, u, ks), Gains(u, v, ls)
  PROVE  Gains(t, v, ks \cup ls)
BY DEF Gains

\* convert_subtrie: what is stored with a node goes into one row.
LEMMA ConvertedGains ==
  ASSUME Tree(nodes), Keyed(nodes), Bounded, Shapely(tt), Leading(tt), NEW n \in Heads, ~Fatal(n),
         nodes[n].has_value => nodes[n].result \in Buffers, HasSuffix(n) => nodes[n].has_value,
         \A k \in Kids(n) : ids[k] \in Address,
         NEW found \in MissedNames(nodes[n].keys), NEW new, new = Converted(n, found)
  PROVE  Gains(tt, new.tables, IF nodes[n].has_value THEN {LabelOf(nodes, n)} ELSE {})
<1>1. n \in DOMAIN nodes /\ n \in Seq(Letters) BY HeadsAre
<1>2. /\ nodes[n].suffix \in Seq(Letters) /\ nodes[n].suffix_len = Len(nodes[n].suffix)
      /\ nodes[n].has_value \in BOOLEAN /\ Shape(n, nodes[n])
  BY <1>1, NodeIs
<1>3. HasSuffix(n) => ~HasChildren(n) BY <1>2 DEF Shape, HasSuffix, HasChildren
<1>4. PICK r : r = nodes[n].result OBVIOUS
<1>5. nodes[n].has_value => r \in Buffers \cup Streams BY <1>4
<1>6. nodes[n].has_value => r.key = LabelOf(nodes, n) BY <1>1, <1>4, ValueKey DEF LabelOf
<1>7. CASE HasSuffix(n)
  <2>1. PICK s, row : s = Suffix(n) /\ row = [suffix |-> s, result |-> r] OBVIOUS
  <2>2. s = nodes[n].suffix /\ s \in Seq(Letters) /\ s # <<>>
    <3>1. s = nodes[n].suffix BY <1>2, <2>1, SubSeqFull DEF Suffix
    <3>2. QED BY <1>2, <1>7, <3>1 DEF HasSuffix
  <2>3. row \in [suffix : Seq(Letters), result : Buffers \cup Streams] BY <1>5, <1>7, <2>1, <2>2
  <2>4. RowOfType("suffix", row) BY <2>3 DEF RowOfType
  <2>5. new = Appended(tt, "suffix", row) BY <1>3, <1>4, <1>7, <2>1 DEF Converted
  <2>6. row.result.key = LabelOf(nodes, n) /\ row.suffix # <<>> BY <1>6, <1>7, <2>1, <2>2
  <2>7. "suffix" \in Plain BY DEF Plain
  <2>8. Gains(tt, new.tables, {row.result.key}) BY <2>4, <2>5, <2>6, <2>7, AppendedGains
  <2>9. QED BY <1>7, <2>6, <2>8
<1>8. CASE ~HasSuffix(n) /\ ~HasChildren(n)
  <2>1. nodes[n].has_value BY <1>8 DEF Fatal
  <2>2. PICK row : row = [result |-> r] OBVIOUS
  <2>3. row \in [result : Buffers \cup Streams] BY <1>5, <2>1, <2>2
  <2>4. RowOfType("term", row) BY <2>3 DEF RowOfType
  <2>5. new = Appended(tt, "term", row) BY <1>4, <1>8, <2>2 DEF Converted
  <2>6. row.result.key = LabelOf(nodes, n) BY <1>6, <2>1, <2>2
  <2>7. "term" \in Plain BY DEF Plain
  <2>8. Gains(tt, new.tables, {row.result.key}) BY <2>4, <2>5, <2>7, AppendedGains
  <2>9. QED BY <2>1, <2>6, <2>8
<1>9. CASE HasChildren(n)
  <2>1. PICK inner : inner = Inner(n, found) OBVIOUS
  <2>2. /\ Shapely(inner.tables) /\ OneMore(tt, inner.tables, inner.id)
        /\ inner.id.table_type \in {"choice", "infix"}
    BY <1>9, <2>1, InnerIs
  <2>3. Gains(tt, inner.tables, {}) BY <1>9, <2>1, InnerGains
  <2>4. new = WithValue(n, inner) BY <1>3, <1>9, <2>1 DEF Converted
  <2>5. CASE nodes[n].has_value
    <3>1. PICK v, row : v = inner.tables /\ row = [id |-> inner.id, result |-> r] OBVIOUS
    <3>2. new = Appended(v, "pass", row) BY <1>4, <2>4, <2>5, <3>1 DEF WithValue
    <3>3. inner.id \in Address BY <2>2 DEF OneMore
    <3>4. row \in [id : Address, result : Buffers \cup Streams] BY <1>5, <2>5, <3>1, <3>3
    <3>5. RowOfType("pass", row) BY <3>4 DEF RowOfType
    <3>6. row.id.table_type \in {"choice", "infix"} /\ row.result.key = LabelOf(nodes, n)
      BY <1>6, <2>2, <2>5, <3>1
    <3>7. "pass" \in Plain BY DEF Plain
    <3>8. Shapely(v) /\ Leading(v) /\ Gains(tt, v, {}) BY <2>2, <2>3, <3>1 DEF Gains
    <3>9. Gains(v, new.tables, {row.result.key}) BY <3>2, <3>5, <3>6, <3>7, <3>8, AppendedGains
    <3>10. Gains(tt, new.tables, {} \cup {row.result.key}) BY <3>8, <3>9, GainsMore
    <3>11. {} \cup {row.result.key} = {LabelOf(nodes, n)} BY <3>6
    <3>12. QED BY <2>5, <3>10, <3>11
  <2>6. CASE ~nodes[n].has_value
    <3>1. new = inner BY <2>4, <2>6 DEF WithValue
    <3>2. QED BY <2>3, <2>6, <3>1
  <2>7. QED BY <2>5, <2>6
<1>10. QED BY <1>7, <1>8, <1>9

-----------------------------------------------------------------------------
(***************************************************************************)
(* The keys of the tables, and how many there are                          *)
(***************************************************************************)

\* The keys of the values that are stored with nodes of D
KeysOf(ns, D) == {LabelOf(ns, m) : m \in {o \in D : ns[o].has_value}}

\* Every value is stored with a head, so the conversion reaches all keys.
LEMMA ValuesAreHeads ==
  ASSUME Root \in DOMAIN nodes
  PROVE  {o \in Heads : nodes[o].has_value} = Values(nodes)
BY DEF Heads, Values

LEMMA LabelStart ==
  ASSUME Tree(nodes), NEW m \in DOMAIN nodes
  PROVE  /\ m \in Seq(Letters) /\ LabelOf(nodes, m) \in Seq(Letters) /\ IsStart(m, LabelOf(nodes, m))
         /\ nodes[m].keys # <<>> => LabelOf(nodes, m) = m
<1>1. PICK s, k : s = nodes[m].suffix /\ k = m \o s OBVIOUS
<1>2. m \in Seq(Letters) /\ s \in Seq(Letters) BY <1>1, NodeIs
<1>3. k \in Seq(Letters) /\ Len(k) = Len(m) + Len(s) /\ \A i \in 1 .. Len(m) : k[i] = m[i]
  BY <1>1, <1>2, ConcatProperties
<1>4. IsStart(m, k)
  <2>1. Len(m) \in Nat /\ Len(s) \in Nat BY <1>2, SequenceIs
  <2>2. Len(m) <= Len(k) BY <1>3, <2>1
  <2>3. QED BY <1>3, <2>2 DEF IsStart
<1>5. nodes[m].keys # <<>> => k = m
  <2>1. SUFFICES ASSUME nodes[m].keys # <<>> PROVE k = m OBVIOUS
  <2>2. Shape(m, nodes[m]) /\ nodes[m].children # <<>> BY <2>1, NodeIs
  <2>3. s = <<>> BY <1>1, <2>2 DEF Shape
  <2>4. QED BY <1>1, <1>2, <2>3, WithNone
<1>6. QED BY <1>1, <1>2, <1>3, <1>4, <1>5 DEF LabelOf

\* A node above another leads on by a letter, so it has no suffix.
LEMMA LabelsLonger ==
  ASSUME Tree(nodes), NEW m \in DOMAIN nodes, NEW o \in DOMAIN nodes, Len(m) < Len(o)
  PROVE  LabelOf(nodes, m) # LabelOf(nodes, o)
<1>1. SUFFICES ASSUME LabelOf(nodes, m) = LabelOf(nodes, o) PROVE FALSE OBVIOUS
<1>2. PICK k : k = LabelOf(nodes, o) OBVIOUS
<1>3. /\ m \in Seq(Letters) /\ o \in Seq(Letters) /\ k \in Seq(Letters)
      /\ IsStart(m, k) /\ IsStart(o, k)
  BY <1>1, <1>2, LabelStart
<1>4. Len(m) \in Nat /\ Len(o) \in Nat /\ Len(k) \in Nat BY <1>3, SequenceIs
<1>5. IsStart(m, o) BY <1>3, <1>4, BeginsBoth
<1>6. PICK l : l = Len(m) OBVIOUS
<1>7. l \in 0 .. Len(o) - 1 /\ l \in 0 .. Len(o) BY <1>4, <1>6
<1>8. SubSeq(o, 1, l) = m
  <2>1. PICK p : p = SubSeq(o, 1, l) OBVIOUS
  <2>2. p \in Seq(Letters) /\ Len(p) = l /\ \A i \in 1 .. l : p[i] = o[i] BY <1>3, <1>7, <2>1, StartIs
  <2>3. \A i \in 1 .. l : p[i] = m[i] BY <1>5, <1>6, <2>2 DEF IsStart
  <2>4. p = m BY <1>3, <1>6, <2>2, <2>3
  <2>5. QED BY <2>1, <2>4
<1>9. KeyAt(nodes, m, o[l + 1])
  <2>1. \A i \in 0 .. Len(o) - 1 : KeyAt(nodes, SubSeq(o, 1, i), o[i + 1]) BY NodesAbove
  <2>2. KeyAt(nodes, SubSeq(o, 1, l), o[l + 1]) BY <1>7, <2>1
  <2>3. QED BY <1>8, <2>2
<1>10. nodes[m].keys # <<>>
  <2>1. PICK keys : keys = nodes[m].keys OBVIOUS
  <2>2. DOMAIN keys # {} BY <1>9, <2>1 DEF KeyAt
  <2>3. keys # <<>> BY <2>2
  <2>4. QED BY <2>1, <2>3
<1>11. k = m BY <1>1, <1>2, <1>10, LabelStart
<1>12. Len(o) <= Len(m) BY <1>3, <1>11 DEF IsStart
<1>13. QED BY <1>4, <1>12

\* No two nodes spell the same.
LEMMA LabelsDiffer ==
  ASSUME Tree(nodes), NEW m \in DOMAIN nodes, NEW o \in DOMAIN nodes,
         LabelOf(nodes, m) = LabelOf(nodes, o)
  PROVE  m = o
<1>1. PICK k : k = LabelOf(nodes, m) OBVIOUS
<1>2. m \in Seq(Letters) /\ o \in Seq(Letters) /\ IsStart(m, k) /\ IsStart(o, k) BY <1>1, LabelStart
<1>3. Len(m) \in Nat /\ Len(o) \in Nat /\ ~(Len(m) < Len(o)) /\ ~(Len(o) < Len(m))
  BY <1>2, SequenceIs, LabelsLonger
<1>4. Len(m) = Len(o) BY <1>3
<1>5. \A i \in 1 .. Len(m) : m[i] = o[i] BY <1>2, <1>4 DEF IsStart
<1>6. QED BY <1>2, <1>4, <1>5

\* A key is stored for each value.
LEMMA ValuesCount ==
  ASSUME Tree(nodes), IsFiniteSet(Values(nodes)), NEW D, D = DOMAIN nodes
  PROVE  /\ IsFiniteSet(KeysOf(nodes, D)) /\ Cardinality(KeysOf(nodes, D)) = Cardinality(Values(nodes))
<1>1. PICK V, K : V = Values(nodes) /\ K = {LabelOf(nodes, m) : m \in V} OBVIOUS
<1>2. KeysOf(nodes, D) = K BY <1>1 DEF KeysOf, Values
<1>3. PICK f : f = [m \in V |-> LabelOf(nodes, m)] OBVIOUS
<1>4. \A m, o \in V : f[m] = f[o] => m = o BY <1>1, <1>3, LabelsDiffer DEF Values
<1>5. \A k \in K : \E m \in V : f[m] = k BY <1>1, <1>3
<1>6. f \in [V -> K] BY <1>1, <1>3
<1>7. f \in Bijection(V, K) BY <1>4, <1>5, <1>6 DEF Bijection, Injection, Surjection, IsInjective
<1>8. ExistsBijection(V, K) BY <1>7 DEF ExistsBijection
<1>9. QED BY <1>1, <1>2, <1>8, FS_Bijection

-----------------------------------------------------------------------------
(***************************************************************************)
(* The rows that the exchange has come to                                  *)
(***************************************************************************)

\* A frame is at a row and has not gone down to its i-th child.
Pending(fs, a, i) == \E j \in 1 .. Len(fs) : fs[j].id = a /\ fs[j].child_index + 1 < i

\* Of the rows V the iterator has been at, each child is one of them or is still to come.
Reached(t, fs, e, V) ==
  /\ V \subseteq Places(t) /\ (e => fs = <<>>)
  /\ t.root_id \in V \/ (fs = <<>> /\ ~e)
  /\ \A a \in V : \A i \in DOMAIN Links(t, a) : Links(t, a)[i] \in V \/ Pending(fs, a, i)

StreamsIn(t, V) == \A a \in V \cap ValueRows(t) : RowAt(t, a).result \in Streams

Visited(t, fs, e) == \E V : Reached(t, fs, e, V) /\ StreamsIn(t, V)

LEMMA PendingNone == ASSUME NEW a, NEW i PROVE ~Pending(<<>>, a, i)
<1>1. 1 .. Len(<<>>) = {} OBVIOUS
<1>2. QED BY <1>1 DEF Pending

\* ttrie__next_node comes to one row more.
LEMMA DeeperReaches ==
  ASSUME Whole(tt), NEW P, LabelledFrom(tt, P), FramesFit(tt, P, frames), CanGoDown,
         NEW V, Reached(tt, frames, ended, V)
  PROVE  Reached(tt, Deeper, ended, V \cup {Last(Deeper).id})
<1>1. PICK F : F = {tt.root_id} OBVIOUS
<1>2. LinkedBut(tt, F) /\ tt.root_id \in Places(tt) BY <1>1 DEF Whole, LinkedBut, Linked
<1>3. PICK new, k : new = Deeper /\ k = Len(frames) OBVIOUS
<1>4. /\ V \subseteq Places(tt) /\ (tt.root_id \in V \/ frames = <<>>) /\ ~ended
      /\ \A a \in V : \A i \in DOMAIN Links(tt, a) : Links(tt, a)[i] \in V \/ Pending(frames, a, i)
  BY DEF Reached, CanGoDown
<1>5. CASE frames = <<>>
  <2>1. PICK f : f = NewFrame(tt.root_id, <<>>) OBVIOUS
  <2>2. new = <<f>> BY <1>3, <1>5, <2>1 DEF Deeper
  <2>3. Len(new) = 1 /\ new[1] = f /\ f.id = tt.root_id /\ f.child_index = -1 BY <2>1, <2>2 DEF NewFrame
  <2>4. Last(new) = f BY <2>3 DEF Last
  <2>5. ASSUME NEW a \in V, NEW i \in DOMAIN Links(tt, a) PROVE Links(tt, a)[i] \in V
    <3>1. ~Pending(frames, a, i) BY <1>5, PendingNone
    <3>2. QED BY <1>4, <2>5, <3>1
  <2>6. ASSUME NEW i \in DOMAIN Links(tt, tt.root_id) PROVE Pending(new, tt.root_id, i)
    <3>1. i \in Nat /\ i > 0
      <4>1. PICK s : s = Links(tt, tt.root_id) OBVIOUS
      <4>2. s \in Seq(Places(tt)) BY <1>2, <2>1, <2>3, <4>1, ChildrenAre
      <4>3. DOMAIN s = 1 .. Len(s) /\ Len(s) \in Nat BY <4>2, SequenceIs
      <4>4. QED BY <2>6, <4>1, <4>3
    <3>2. f.child_index + 1 < i BY <2>3, <3>1
    <3>3. 1 \in 1 .. Len(new) BY <2>3
    <3>4. QED BY <2>3, <3>2, <3>3 DEF Pending
  <2>7. PICK W : W = V \cup {tt.root_id} OBVIOUS
  <2>8. Reached(tt, new, ended, W) BY <1>2, <1>4, <2>5, <2>6, <2>7 DEF Reached
  <2>9. QED BY <1>3, <2>3, <2>4, <2>7, <2>8
<1>6. CASE frames # <<>>
  <2>1. frames \in Seq(KeyFrame) /\ \A i \in 1 .. k : FrameFits(tt, P, frames[i])
    BY <1>3 DEF FramesFit
  <2>2. k \in Nat /\ k \in 1 .. k /\ DOMAIN frames = 1 .. k /\ \A j \in 1 .. k : frames[j] \in KeyFrame
    <3>1. k \in Nat /\ DOMAIN frames = 1 .. k /\ k # 0 BY <1>3, <1>6, <2>1, SequenceIs
    <3>2. QED BY <1>3, <2>1, <3>1, SequenceIs
  <2>3. PICK f, i, s : f = frames[k] /\ i = f.child_index + 1 /\ s = Links(tt, f.id) OBVIOUS
  <2>4. TopFrame = f BY <1>3, <2>3 DEF TopFrame, Last
  <2>5. FrameFits(tt, P, f) /\ f \in KeyFrame BY <2>1, <2>2, <2>3
  <2>6. f.id \in Places(tt) /\ f.child_index >= -1 /\ f.child_index \in Int BY <2>5 DEF FrameFits, KeyFrame
  <2>7. /\ s \in Seq(Places(tt)) /\ Len(Children(f)) = Len(s)
        /\ \A j \in 1 .. Len(s) : Children(f)[j] = NewFrame(s[j], Onward(tt, f.id, f.key, j))
    BY <1>2, <2>3, <2>6, ChildrenAre
  <2>8. Len(s) \in Nat /\ DOMAIN s = 1 .. Len(s) /\ \A j \in 1 .. Len(s) : s[j] \in Places(tt)
    BY <2>7, SequenceIs
  <2>9. f.child_index < Len(s) - 1 BY <1>6, <2>4, <2>7 DEF CanGoDown, Unvisited
  <2>10. i \in Nat /\ i + 1 \in 1 .. Len(s) BY <2>3, <2>6, <2>8, <2>9
  <2>11. PICK g, b : g = Children(f)[i + 1] /\ b = s[i + 1] OBVIOUS
  <2>12. g.id = b /\ g.child_index = -1 /\ b \in Places(tt)
    <3>1. g = NewFrame(b, Onward(tt, f.id, f.key, i + 1)) BY <2>7, <2>10, <2>11
    <3>2. b \in Places(tt) BY <2>8, <2>10, <2>11
    <3>3. QED BY <3>1, <3>2 DEF NewFrame
  <2>13. PICK top, t : top = [f EXCEPT !.child_index = i] /\ t = [frames EXCEPT ![k] = top] OBVIOUS
  <2>14. top.id = f.id /\ top.child_index = i /\ top \in KeyFrame BY <2>5, <2>10, <2>13 DEF KeyFrame
  <2>15. Len(t) = k /\ \A j \in 1 .. k : t[j] = IF j = k THEN top ELSE frames[j]
    BY <1>3, <2>1, <2>2, <2>13
  <2>16. new = Append(t, g)
    <3>1. [frames EXCEPT ![k].child_index = i] = t BY <2>3, <2>13
    <3>2. QED BY <1>3, <1>6, <2>3, <2>4, <2>11, <3>1 DEF Deeper
  <2>17. Len(new) = k + 1 /\ new[k + 1] = g /\ \A j \in 1 .. k : new[j] = IF j = k THEN top ELSE frames[j]
    <3>1. t \in Seq(KeyFrame \cup {g}) BY <2>1, <2>2, <2>13, <2>14
    <3>2. PICK S : S = KeyFrame \cup {g} OBVIOUS
    <3>3. t \in Seq(S) /\ g \in S BY <3>1, <3>2
    <3>4. Len(new) = Len(t) + 1 /\ new[Len(t) + 1] = g /\ \A j \in 1 .. Len(t) : new[j] = t[j]
      BY <2>16, <3>3, AppendIs
    <3>5. QED BY <2>15, <3>4
  <2>18. Last(new) = g BY <2>17 DEF Last
  <2>19. ASSUME NEW a \in V, NEW j \in DOMAIN Links(tt, a), Links(tt, a)[j] # b
         PROVE  Links(tt, a)[j] \in V \/ Pending(new, a, j)
    <3>1. SUFFICES ASSUME Pending(frames, a, j) PROVE Pending(new, a, j) BY <1>4, <2>19
    <3>2. PICK p \in 1 .. k : frames[p].id = a /\ frames[p].child_index + 1 < j BY <1>3, <3>1 DEF Pending
    <3>3. p \in 1 .. k + 1 BY <2>2
    <3>4. CASE p # k
      <4>1. new[p] = frames[p] BY <2>17, <3>4
      <4>2. QED BY <2>17, <3>2, <3>3, <4>1 DEF Pending
    <3>5. CASE p = k
      <4>1. a = f.id /\ i < j /\ j \in 1 .. Len(s) BY <2>3, <2>8, <2>19, <3>2, <3>5
      <4>2. j # i + 1 BY <2>3, <2>11, <2>19, <4>1
      <4>3. i + 1 < j BY <2>10, <4>1, <4>2
      <4>4. new[p] = top BY <2>17, <3>5
      <4>5. QED BY <2>14, <2>17, <3>3, <4>1, <4>3, <4>4 DEF Pending
    <3>6. QED BY <3>4, <3>5
  <2>20. ASSUME NEW j \in DOMAIN Links(tt, b) PROVE Pending(new, b, j)
    <3>1. j \in Nat /\ j > 0
      <4>1. PICK q : q = Links(tt, b) OBVIOUS
      <4>2. q \in Seq(Places(tt)) BY <1>2, <2>12, <4>1, ChildrenAre
      <4>3. DOMAIN q = 1 .. Len(q) /\ Len(q) \in Nat BY <4>2, SequenceIs
      <4>4. QED BY <2>20, <4>1, <4>3
    <3>2. g.child_index + 1 < j BY <2>12, <3>1
    <3>3. k + 1 \in 1 .. Len(new) BY <2>2, <2>17
    <3>4. QED BY <2>12, <2>17, <3>2, <3>3 DEF Pending
  <2>21. PICK W : W = V \cup {b} OBVIOUS
  <2>22. Reached(tt, new, ended, W) BY <1>4, <1>6, <2>12, <2>19, <2>20, <2>21 DEF Reached
  <2>23. QED BY <1>3, <2>12, <2>18, <2>21, <2>22
<1>7. QED BY <1>5, <1>6

\* ttrie__walk_nodes leaves a row whose children it has all come to.
LEMMA FrontReaches ==
  ASSUME Whole(tt), NEW P, FramesFit(tt, P, frames), frames # <<>>, ~Unvisited,
         NEW V, Reached(tt, frames, ended, V)
  PROVE  Reached(tt, Front(frames), Len(frames) = 1, V)
<1>1. PICK F, k, new : F = {tt.root_id} /\ k = Len(frames) /\ new = Front(frames) OBVIOUS
<1>2. LinkedBut(tt, F) BY <1>1 DEF Whole
<1>3. frames \in Seq(KeyFrame) /\ \A i \in 1 .. k : FrameFits(tt, P, frames[i]) BY <1>1 DEF FramesFit
<1>4. k \in Nat /\ k > 0
  <2>1. k \in Nat /\ k # 0 BY <1>1, <1>3, SequenceIs
  <2>2. QED BY <2>1
<1>5. new \in Seq(KeyFrame) /\ Len(new) = k - 1 /\ \A i \in 1 .. k - 1 : new[i] = frames[i]
  BY <1>1, <1>3, <1>4, FrontIs
<1>6. PICK f, s : f = frames[k] /\ s = Links(tt, f.id) OBVIOUS
<1>7. TopFrame = f BY <1>1, <1>6 DEF TopFrame, Last
<1>8. f \in KeyFrame /\ f.id \in Places(tt)
  <2>1. k \in 1 .. k BY <1>4
  <2>2. f \in KeyFrame BY <1>1, <1>3, <1>6, <2>1, SequenceIs
  <2>3. FrameFits(tt, P, f) BY <1>3, <1>6, <2>1
  <2>4. QED BY <2>2, <2>3 DEF FrameFits
<1>9. s \in Seq(Places(tt)) /\ Len(Children(f)) = Len(s) BY <1>2, <1>6, <1>8, ChildrenAre
<1>10. Len(s) \in Nat /\ DOMAIN s = 1 .. Len(s) BY <1>9, SequenceIs
<1>11. f.child_index \in Int /\ ~(f.child_index < Len(s) - 1) BY <1>7, <1>8, <1>9 DEF Unvisited, KeyFrame
<1>12. /\ V \subseteq Places(tt) /\ tt.root_id \in V
       /\ \A a \in V : \A i \in DOMAIN Links(tt, a) : Links(tt, a)[i] \in V \/ Pending(frames, a, i)
  BY DEF Reached
<1>13. ASSUME NEW a \in V, NEW i \in DOMAIN Links(tt, a), Pending(frames, a, i) PROVE Pending(new, a, i)
  <2>1. PICK p \in 1 .. k : frames[p].id = a /\ frames[p].child_index + 1 < i BY <1>1, <1>13 DEF Pending
  <2>2. p # k
    <3>1. SUFFICES ASSUME p = k PROVE FALSE OBVIOUS
    <3>2. i \in 1 .. Len(s) /\ f.child_index + 1 < i BY <1>6, <1>10, <1>13, <2>1, <3>1
    <3>3. QED BY <1>10, <1>11, <3>2
  <2>3. p \in 1 .. k - 1 BY <1>4, <2>2
  <2>4. QED BY <1>5, <2>1, <2>3 DEF Pending
<1>14. k = 1 => new = <<>>
  <2>1. k = 1 => Len(new) = 0 BY <1>5
  <2>2. QED BY <1>5, <2>1, SequenceIs
<1>15. PICK e : e = (k = 1) OBVIOUS
<1>16. Reached(tt, new, e, V) BY <1>12, <1>13, <1>14, <1>15 DEF Reached
<1>17. QED BY <1>1, <1>15, <1>16

LEMMA EndReached ==
  ASSUME NEW t, NEW P, Sound(t, P), NEW V, Reached(t, <<>>, TRUE, V)
  PROVE  V = Places(t)
<1>1. PICK rank, b : Descends(Places(t), LinksOf(t), rank, b) BY PlacesRanked
<1>2. PICK Q, L, r : Q = Places(t) /\ L = LinksOf(t) /\ r = t.root_id OBVIOUS
<1>3. V \subseteq Q /\ r \in V BY <1>2 DEF Reached
<1>4. \A a \in V : \A i \in DOMAIN Links(t, a) : Links(t, a)[i] \in V BY PendingNone DEF Reached
<1>5. \A a \in Q \cap V : \A i \in DOMAIN L[a] : L[a][i] \in V
  <2>1. \A a \in Q : L[a] = Links(t, a) BY <1>2 DEF LinksOf
  <2>2. QED BY <1>4, <2>1
<1>6. Linked(Q, L, {r}) BY <1>2 DEF Sound, Whole, LinkedBut, LinksOf
<1>7. Descends(Q, L, rank, b) BY <1>1, <1>2
<1>8. Q \subseteq V BY <1>3, <1>5, <1>6, <1>7, LinksReach
<1>9. QED BY <1>2, <1>3, <1>8

\* The row of a is another one.
OtherRowAt(t, u, a, r) ==
  \A b \in Places(t) : RowAt(u, b) = (IF b = a THEN r ELSE RowAt(t, b)) /\ NameAt(u, b) = NameAt(t, b)

LEMMA OtherRowIs ==
  ASSUME NEW t, Whole(t), NEW a \in ValueRows(t), NEW y, y = a.table_type, NEW i, i = a.row_i + 1,
         NEW w, NEW r, NEW x, NEW u, OtherRows(t, u, y, w, i, r, x)
  PROVE  OtherRowAt(t, u, a, r) /\ u.len = t.len /\ i \in DOMAIN t[y] /\ RowAt(t, a) = t[y][i]
<1>1. /\ i \in DOMAIN t[y] => x \in Streams
      /\ r = [t[y][i] EXCEPT !.result = x] /\ SetRow(t[y], w, i, r) /\ u = [t EXCEPT ![y] = w]
  BY DEF OtherRows
<1>2. Shapely(t) /\ t \in Tables(Cells) BY DEF Whole, Shapely
<1>3. y \in Plain /\ y # "choice" /\ y \in {"pass", "term", "suffix"} /\ a \in Places(t)
  BY DEF ValueRows, Plain
<1>4. /\ u[y] = w /\ u.choice = t.choice /\ u.len = t.len
      /\ \A z \in Plain : z # y => u[z] = t[z]
  <2>1. DOMAIN t = {"len", "root_id", "choice", "term", "pass", "suffix", "infix"}
    BY <1>2 DEF Tables
  <2>2. /\ "choice" \in DOMAIN t /\ "choice" # y /\ "len" \in DOMAIN t /\ "len" # y
        /\ Plain \subseteq DOMAIN t /\ y \in DOMAIN t
    BY <1>3, <2>1 DEF Plain
  <2>3. \A z \in DOMAIN t : u[z] = IF z = y THEN w ELSE t[z] BY <1>1
  <2>4. u["choice"] = t["choice"] /\ u["len"] = t["len"] BY <2>2, <2>3
  <2>5. QED BY <2>2, <2>3, <2>4
<1>5. PICK s, R : s = t[y] /\ s \in Seq(R) BY <1>2, <1>3, RowsOfAre
<1>6. /\ DOMAIN s = 1 .. Len(s) /\ Len(s) \in Nat
      /\ \A j \in DOMAIN s : w[j] = IF j = i THEN r ELSE s[j]
  <2>1. PICK V : V = R \cup {r} OBVIOUS
  <2>2. s \in Seq(V) /\ (i \in DOMAIN s => r \in V) BY <1>5, <2>1
  <2>3. SetRow(s, w, i, r) BY <1>1, <1>5
  <2>4. RowIs(s, w, i, r) BY <2>2, <2>3, RowSetIs
  <2>5. DOMAIN s = 1 .. Len(s) /\ Len(s) \in Nat BY <2>2, SequenceIs
  <2>6. QED BY <2>4, <2>5 DEF RowIs
<1>7. ASSUME NEW b \in Places(t), b.table_type = y
      PROVE  b.table_i = 0 /\ b.row_i + 1 \in DOMAIN s
  <2>1. b.row_i \in Nat /\ b.row_i < Height(t, y, b.table_i) BY <1>7, PlaceTypes DEF Places
  <2>2. Height(t, y, b.table_i) = IF b.table_i = 0 THEN Len(s) ELSE 0 BY <1>3, <1>5 DEF Height
  <2>3. b.table_i = 0 BY <2>1, <2>2
  <2>4. b.row_i + 1 \in 1 .. Len(s) BY <1>6, <2>1, <2>2, <2>3
  <2>5. QED BY <1>6, <2>3, <2>4
<1>8. ASSUME NEW b \in Places(t)
      PROVE  RowAt(u, b) = (IF b = a THEN r ELSE RowAt(t, b)) /\ NameAt(u, b) = NameAt(t, b)
  <2>1. b.table_type \in Plain \/ b.table_type = "choice" BY PlaceTypes DEF Plain
  <2>2. NameAt(u, b) = NameAt(t, b) BY <1>4 DEF NameAt
  <2>3. CASE b.table_type = "choice"
    <3>1. RowAt(u, b) = RowAt(t, b)
      <4>1. PICK c : c = t.choice OBVIOUS
      <4>2. u.choice = c BY <1>4, <4>1
      <4>3. QED BY <2>3, <4>1, <4>2 DEF RowAt
    <3>2. QED BY <1>3, <2>2, <2>3, <3>1
  <2>4. CASE b.table_type \in Plain /\ b.table_type # y /\ b.table_type # "choice"
    <3>1. u[b.table_type] = t[b.table_type] BY <1>4, <2>4
    <3>2. RowAt(u, b) = RowAt(t, b) BY <2>4, <3>1 DEF RowAt
    <3>3. QED BY <2>2, <2>4, <3>2
  <2>5. CASE b.table_type = y
    <3>1. PICK j : j = b.row_i + 1 OBVIOUS
    <3>2. j \in DOMAIN s /\ b.table_i = 0 /\ a.table_i = 0 BY <1>3, <1>7, <2>5, <3>1
    <3>3. RowAt(u, b) = w[j] /\ RowAt(t, b) = s[j] BY <1>3, <1>4, <1>5, <2>5, <3>1 DEF RowAt
    <3>4. j = i <=> b = a
      <4>1. b.row_i \in Nat /\ a.row_i \in Nat /\ a \in Address /\ b \in Address BY <1>3, PlaceTypes
      <4>2. j = i => b.row_i = a.row_i BY <3>1, <4>1
      <4>3. b.row_i = a.row_i => b = a BY <2>5, <3>2, <4>1 DEF Address
      <4>4. QED BY <3>1, <4>2, <4>3
    <3>5. QED BY <1>6, <2>2, <3>2, <3>3, <3>4
  <2>6. QED BY <1>3, <2>1, <2>3, <2>4, <2>5
<1>9. i \in DOMAIN t[y] BY <1>3, <1>5, <1>7
<1>10. RowAt(t, a) = t[y][i] BY <1>3 DEF RowAt
<1>11. QED BY <1>4, <1>8, <1>9, <1>10 DEF OtherRowAt

LEMMA RowFields ==
  ASSUME NEW t \in Tables(Cells), NEW y \in {"pass", "term", "suffix"}, NEW i \in DOMAIN t[y],
         NEW o, o = t[y][i]
  PROVE  /\ "result" \in DOMAIN o /\ (y = "pass" => "id" \in DOMAIN o)
         /\ y = "suffix" => "suffix" \in DOMAIN o
<1>1. PICK T, P, S : /\ T = [result : Cells] /\ P = [id : Cells, result : Cells]
                     /\ S = [suffix : Seq(Cells), result : Cells]
  OBVIOUS
<1>2. t.term \in Seq(T) /\ t.pass \in Seq(P) /\ t.suffix \in Seq(S) BY <1>1 DEF Tables
<1>3. CASE y = "term"
  <2>1. PICK s : s = t.term OBVIOUS
  <2>2. o \in T BY <1>2, <1>3, <2>1, SequenceIs
  <2>3. QED BY <1>1, <1>3, <2>2
<1>4. CASE y = "pass"
  <2>1. PICK s : s = t.pass OBVIOUS
  <2>2. o \in P BY <1>2, <1>4, <2>1, SequenceIs
  <2>3. QED BY <1>1, <1>4, <2>2
<1>5. CASE y = "suffix"
  <2>1. PICK s : s = t.suffix OBVIOUS
  <2>2. o \in S BY <1>2, <1>5, <2>1, SequenceIs
  <2>3. QED BY <1>1, <1>5, <2>2
<1>6. QED BY <1>3, <1>4, <1>5

\* What is stored in a row is exchanged for the stream of its key.
LEMMA ExchangeGains ==
  ASSUME NEW t, Whole(t), Leading(t), NEW a \in ValueRows(t), NEW u,
         RowExchanged(t, u, a.table_type, a.row_i + 1)
  PROVE  /\ Gains(t, u, {}) /\ SameSpelling(t, u) /\ u.root_id = t.root_id
         /\ \A V : StreamsIn(t, V) => StreamsIn(u, V \cup {a})
<1>1. PICK y, i : y = a.table_type /\ i = a.row_i + 1 OBVIOUS
<1>2. y \in {"pass", "term", "suffix"} /\ a \in Places(t) /\ Shapely(t) BY <1>1 DEF ValueRows, Whole
<1>3. RowExchanged(t, u, y, i) BY <1>1
<1>4. PICK r, w : /\ r = [t[y][i] EXCEPT !.result = StreamOf(t, y, i)]
                  /\ i \in DOMAIN t[y] => StreamOf(t, y, i) \in Streams
                  /\ SetRow(t[y], w, i, r) /\ u = [t EXCEPT ![y] = w]
  BY <1>2, <1>3, RowExchangedIs
<1>5. PICK x : x = StreamOf(t, y, i) OBVIOUS
<1>6. OtherRows(t, u, y, w, i, r, x) BY <1>4, <1>5 DEF OtherRows, StreamOf
<1>7. SameSpelling(t, u) /\ u.root_id = t.root_id BY <1>2, <1>6, OtherRowsWhole
<1>8. OtherRowAt(t, u, a, r) /\ u.len = t.len /\ i \in DOMAIN t[y] /\ RowAt(t, a) = t[y][i]
  BY <1>1, <1>6, OtherRowIs
<1>9. Places(u) = Places(t) BY <1>7 DEF SameSpelling
<1>10. PICK o : o = RowAt(t, a) OBVIOUS
<1>11. r = [o EXCEPT !.result = x] /\ x \in Streams BY <1>4, <1>5, <1>8, <1>10
<1>12. /\ "result" \in DOMAIN o /\ (y = "pass" => "id" \in DOMAIN o)
       /\ y = "suffix" => "suffix" \in DOMAIN o
  BY <1>2, <1>8, <1>10, RowFields DEF Shapely
<1>13. /\ r.result = x
       /\ y = "pass" => r.id = o.id
       /\ y = "suffix" => r.suffix = o.suffix
  <2>1. r.result = x BY <1>11, <1>12
  <2>2. \A f \in DOMAIN o : f # "result" => r[f] = o[f] BY <1>11
  <2>3. QED BY <1>12, <2>1, <2>2
<1>14. ASSUME NEW b \in Places(t)
       PROVE  RowAt(u, b) = (IF b = a THEN r ELSE RowAt(t, b)) /\ NameAt(u, b) = NameAt(t, b)
  BY <1>8 DEF OtherRowAt
<1>15. Leading(u)
  <2>1. SUFFICES ASSUME NEW b \in Places(t) PROVE LeadsWell(u, b) BY <1>9 DEF Leading
  <2>2. LeadsWell(t, b) BY DEF Leading
  <2>3. CASE b # a
    <3>1. RowAt(u, b) = RowAt(t, b) /\ NameAt(u, b) = NameAt(t, b) BY <1>14, <2>3
    <3>2. QED BY <2>2, <3>1 DEF LeadsWell
  <2>4. CASE b = a
    <3>1. RowAt(u, b) = r /\ RowAt(t, b) = o /\ b.table_type = y BY <1>1, <1>10, <1>14, <2>4
    <3>2. QED BY <1>2, <1>13, <2>2, <3>1 DEF LeadsWell
  <2>5. QED BY <2>3, <2>4
<1>16. ASSUME NEW b \in ValueRows(t) PROVE RowAt(u, b).result.key = RowAt(t, b).result.key
  BY <1>7 DEF SameSpelling, ValueRows
<1>17. ValueRows(u) = ValueRows(t) BY <1>9 DEF ValueRows
<1>18. KeysIn(u) = KeysIn(t) BY <1>16, <1>17 DEF KeysIn
<1>19. Gains(t, u, {}) BY <1>8, <1>15, <1>18 DEF Gains
<1>20. ASSUME NEW V, StreamsIn(t, V) PROVE StreamsIn(u, V \cup {a})
  <2>1. SUFFICES ASSUME NEW b \in (V \cup {a}) \cap ValueRows(u) PROVE RowAt(u, b).result \in Streams
    BY DEF StreamsIn
  <2>2. b \in Places(t) /\ b \in ValueRows(t) BY <1>17 DEF ValueRows
  <2>3. CASE b = a BY <1>11, <1>13, <1>14, <2>2, <2>3
  <2>4. CASE b # a
    <3>1. RowAt(u, b) = RowAt(t, b) /\ b \in V BY <1>14, <2>2, <2>4
    <3>2. QED BY <1>20, <2>2, <3>1 DEF StreamsIn
  <2>5. QED BY <2>3, <2>4
<1>21. QED BY <1>7, <1>19, <1>20

-----------------------------------------------------------------------------
(***************************************************************************)
(* The invariant of what the tables hold                                   *)
(***************************************************************************)
RowsOf(t, u) ==
  \A a \in Address : /\ HeightAt(u, a) = HeightAt(t, a) /\ RowAt(u, a) = RowAt(t, a)
                     /\ NameAt(u, a) = NameAt(t, a)

LEMMA RowsHold ==
  ASSUME NEW t, NEW u, RowsOf(t, u), Leading(t), u.len = t.len
  PROVE  Gains(t, u, {})
<1>1. Places(u) = Places(t) BY DEF RowsOf, Places, HeightAt
<1>2. \A a \in Places(t) : RowAt(u, a) = RowAt(t, a) /\ NameAt(u, a) = NameAt(t, a) BY DEF RowsOf, Places
<1>3. \A a \in Places(t) : LeadsWell(u, a)
  <2>1. SUFFICES ASSUME NEW a \in Places(t) PROVE LeadsWell(u, a) OBVIOUS
  <2>2. LeadsWell(t, a) BY DEF Leading
  <2>3. QED BY <1>2, <2>2 DEF LeadsWell
<1>4. Leading(u) BY <1>1, <1>3 DEF Leading
<1>5. ValueRows(u) = ValueRows(t) BY <1>1 DEF ValueRows
<1>6. \A a \in ValueRows(t) : RowAt(u, a) = RowAt(t, a) BY <1>2 DEF ValueRows
<1>7. KeysIn(u) = KeysIn(t) BY <1>5, <1>6 DEF KeysIn
<1>8. QED BY <1>4, <1>7 DEF Gains

LEMMA RootKeeps ==
  ASSUME NEW t, Shapely(t), Leading(t), NEW a, NEW u, RootSet(t, u, a)
  PROVE  Gains(t, u, {})
<1>1. t \in Tables(Cells) BY DEF Shapely
<1>2. PICK S : S = Cells OBVIOUS
<1>3. t = [len |-> t.len, root_id |-> t.root_id, choice |-> t.choice, term |-> t.term,
           pass |-> t.pass, suffix |-> t.suffix, infix |-> t.infix]
  BY <1>1, <1>2 DEF Tables
<1>4. u = [len |-> t.len, root_id |-> a, choice |-> t.choice, term |-> t.term,
           pass |-> t.pass, suffix |-> t.suffix, infix |-> t.infix]
  BY <1>3 DEF RootSet
<1>5. u.choice = t.choice /\ u.len = t.len BY <1>4
<1>6. \A y \in Plain : u[y] = t[y] /\ y # "choice"
  <2>1. SUFFICES ASSUME NEW y \in Plain PROVE u[y] = t[y] /\ y # "choice" OBVIOUS
  <2>2. y \in DOMAIN t /\ y # "root_id" /\ y # "choice" BY <1>3 DEF Plain
  <2>3. QED BY <2>2 DEF RootSet
<1>7. PICK c : c = t.choice OBVIOUS
<1>8. u.choice = c BY <1>5, <1>7
<1>9. ASSUME NEW b \in Address
      PROVE  HeightAt(u, b) = HeightAt(t, b) /\ RowAt(u, b) = RowAt(t, b) /\ NameAt(u, b) = NameAt(t, b)
  <2>1. b.table_type \in Plain \/ b.table_type = "choice" BY DEF Address
  <2>2. CASE b.table_type \in Plain BY <1>6, <2>2 DEF HeightAt, Height, RowAt, NameAt
  <2>3. CASE b.table_type = "choice"
    <3>1. HeightAt(u, b) = (IF b.table_i < Len(c) THEN Len(c[b.table_i + 1].rows) ELSE 0)
          /\ HeightAt(t, b) = (IF b.table_i < Len(c) THEN Len(c[b.table_i + 1].rows) ELSE 0)
      BY <1>7, <1>8, <2>3 DEF HeightAt, Height
    <3>2. RowAt(u, b) = c[b.table_i + 1].rows[b.row_i + 1] /\ RowAt(t, b) = c[b.table_i + 1].rows[b.row_i + 1]
      BY <1>7, <1>8, <2>3 DEF RowAt
    <3>3. NameAt(u, b) = c[b.table_i + 1].name /\ NameAt(t, b) = c[b.table_i + 1].name
      BY <1>7, <1>8, <2>3 DEF NameAt
    <3>4. QED BY <3>1, <3>2, <3>3
  <2>4. QED BY <2>1, <2>2, <2>3
<1>10. RowsOf(t, u) BY <1>9 DEF RowsOf
<1>11. QED BY <1>5, <1>10, RowsHold

LEMMA KeysGrow ==
  ASSUME NEW ns, NEW D, NEW n
  PROVE  KeysOf(ns, D \cup {n}) = KeysOf(ns, D) \cup (IF ns[n].has_value THEN {LabelOf(ns, n)} ELSE {})
<1>1. CASE ns[n].has_value
  <2>1. {o \in D \cup {n} : ns[o].has_value} = {o \in D : ns[o].has_value} \cup {n} BY <1>1
  <2>2. QED BY <1>1, <2>1 DEF KeysOf
<1>2. CASE ~ns[n].has_value
  <2>1. {o \in D \cup {n} : ns[o].has_value} = {o \in D : ns[o].has_value} BY <1>2
  <2>2. QED BY <1>2, <2>1 DEF KeysOf
<1>3. QED BY <1>1, <1>2

\* Once the root is converted all heads are, and so all keys.
LEMMA AllKeys ==
  ASSUME Tree(nodes), NEW D, Root \in D, D \subseteq Heads,
         \A m \in D, o \in Heads : IsStrictPrefix(m, o) => o \in D
  PROVE  KeysOf(nodes, D) = KeysOf(nodes, DOMAIN nodes)
<1>1. \A o \in Heads : o \in Seq(Letters) /\ Len(o) \in Nat BY HeadsAre
<1>2. Root \in Heads /\ Len(Root) = 0 BY DEF Root
<1>3. ASSUME NEW o \in Heads, o # Root PROVE o \in D
  <2>1. Len(o) # 0 BY <1>1, <1>3, SequenceIs DEF Root
  <2>2. Under(Root, o) BY <1>1, <1>2, <2>1 DEF Under, IsStart
  <2>3. IsStrictPrefix(Root, o) BY <1>1, <1>2, <2>2, HeadsAre
  <2>4. QED BY <2>3
<1>4. D = Heads BY <1>3
<1>5. Root \in DOMAIN nodes BY DEF Tree
<1>6. {o \in D : nodes[o].has_value} = {o \in DOMAIN nodes : nodes[o].has_value}
  BY <1>4, <1>5, ValuesAreHeads DEF Values
<1>7. QED BY <1>6 DEF KeysOf

LEMMA NodeGains ==
  ASSUME Tree(nodes), Keyed(nodes), Bounded, Partly(tt, ids, Heads), Leading(tt),
         NEW n, NEW found, NEW new, NEW f, ConvertsTo(n, found, new, f)
  PROVE  Gains(tt, new.tables, IF nodes[n].has_value THEN {LabelOf(nodes, n)} ELSE {})
<1>1. /\ n \in Heads \ DOMAIN ids /\ ~Fatal(n)
      /\ \A m \in Heads \ DOMAIN ids : m = n \/ ConvertedBefore(n, m)
      /\ nodes[n].has_value => nodes[n].result \in Buffers
      /\ HasSuffix(n) => nodes[n].has_value
      /\ found \in MissedNames(nodes[n].keys) /\ new = Converted(n, found)
  BY DEF ConvertsTo
<1>2. PICK D, U, F : D = DOMAIN ids /\ U = Uppermost(D) /\ F = {ids[m] : m \in U} OBVIOUS
<1>3. /\ Shapely(tt) /\ D \in SUBSET Heads /\ n \notin D /\ n \in Heads
      /\ \A m \in D, o \in Heads : IsStrictPrefix(m, o) => o \in D
      /\ LinkedBut(tt, F)
  BY <1>1, <1>2 DEF Partly, FreeOf
<1>4. \A o \in Heads : IsStrictPrefix(n, o) => o \in D BY <1>1, <1>2, BelowFirst
<1>5. PICK K : K = Kids(n) OBVIOUS
<1>6. K \subseteq U BY <1>2, <1>3, <1>4, <1>5, UppermostChanges
<1>7. F \subseteq Places(tt) BY <1>3 DEF LinkedBut, Linked
<1>8. \A k \in K : ids[k] \in Address BY <1>2, <1>6, <1>7 DEF Places
<1>9. QED BY <1>1, <1>3, <1>5, <1>8, ConvertedGains

Exchangeable == state = "DIRTY" /\ Root \in DOMAIN ids

Holding(t) == Leading(t) /\ Counted(t)

\* What ttrie__get of a key found in t
Answered(t, a) ==
  a # None /\ a.op = "get" =>
    /\ a.key \in Keys
    /\ a.result = IF Found(t, a.key) = {} THEN None ELSE CHOOSE r \in Found(t, a.key) : TRUE

MEnd  == state = "RAW" \/ Converting => ~ended

MKeys == Converting => Leading(tt) /\ KeysIn(tt) = KeysOf(nodes, DOMAIN ids) /\ tt.len = len

MWalk == Exchangeable => Holding(tt) /\ Visited(tt, frames, ended)

MHeld == state \in {"CONVERTED", "CLOSED", "READ"} => Holding(written) /\ Streamed(written)

MGot  == /\ state = "DIRTY" => answer = None \/ answer.op # "get"
         /\ state = "CLOSED" => answer = None
         /\ state \in {"CONVERTED", "READ"} => Answered(tt, answer)

\* The invariant: while subtries are converted the tables have the keys of those heads;
\* then as many as there are, and streams in the rows the exchange has come to; what was
\* written has streams in all rows.
MInv == MEnd /\ MKeys /\ MWalk /\ MHeld /\ MGot

LEMMA MInvInit == TInit => MInv
<1>1. SUFFICES ASSUME TInit PROVE MInv OBVIOUS
<1>2. state = "RAW" /\ ended = FALSE BY <1>1 DEF TInit
<1>3. ~Converting /\ ~Exchangeable BY <1>2 DEF Converting, Exchangeable
<1>4. QED BY <1>2, <1>3 DEF MInv, MEnd, MKeys, MWalk, MHeld, MGot

\* Steps of the radix trie, and of readers
LEMMA MStays ==
  ASSUME MInv, UNCHANGED <<state, tt, ids, written>>,
         (state = "DIRTY" => ended' = ended /\ frames' = frames), (state = "RAW" => ended' = ended),
         Converting => nodes' = nodes /\ len' = len, MGot'
  PROVE  MInv'
<1>1. state' = state /\ tt' = tt /\ ids' = ids /\ written' = written OBVIOUS
<1>2. (Converting' <=> Converting) /\ (Exchangeable' <=> Exchangeable) BY <1>1 DEF Converting, Exchangeable
<1>3. Converting \/ Exchangeable => state = "DIRTY" BY DEF Converting, Exchangeable
<1>4. MEnd' BY <1>1, <1>2, <1>3 DEF MInv, MEnd
<1>5. MKeys' BY <1>1, <1>2 DEF MInv, MKeys
<1>6. MWalk' BY <1>1, <1>2, <1>3 DEF MInv, MWalk
<1>7. MHeld' BY <1>1 DEF MInv, MHeld
<1>8. QED BY <1>4, <1>5, <1>6, <1>7 DEF MInv

LEMMA MStartOptimize == ASSUME RInv, TInv, MInv, StartOptimize PROVE MInv'
<1>1. /\ state = "RAW" /\ Idle /\ state' = "DIRTY" /\ tt' = [Opened EXCEPT !.len = len]
      /\ ids' = ids /\ ended' = ended /\ answer' = None /\ nodes' = nodes /\ len' = len
  BY DEF StartOptimize, iterator
<1>2. Open /\ Filled BY <1>1 DEF Idle, Open, RInv
<1>3. len \in Nat BY <1>2, FS_CardinalityType DEF Filled
<1>4. PICK t, D : t = tt' /\ D = DOMAIN ids OBVIOUS
<1>5. Places(t) = {} /\ t.len = len
  <2>1. EmptyTables(t, len) BY <1>1, <1>4 DEF EmptyTables, Opened
  <2>2. t.len = len BY <2>1 DEF EmptyTables
  <2>3. QED BY <1>3, <2>1, <2>2, OpenedIs
<1>6. D = {} BY <1>1, <1>4 DEF TInv
<1>7. Leading(t) BY <1>5 DEF Leading
<1>8. KeysIn(t) = {} BY <1>5 DEF KeysIn, ValueRows
<1>9. KeysOf(nodes, D) = {} BY <1>6 DEF KeysOf
<1>10. ids' = ids /\ Root \notin DOMAIN ids' BY <1>1, <1>4, <1>6
<1>11. ~Exchangeable' BY <1>10 DEF Exchangeable
<1>12. MKeys' BY <1>1, <1>4, <1>5, <1>7, <1>8, <1>9 DEF MKeys
<1>13. MEnd' BY <1>1 DEF MInv, MEnd
<1>14. MGot' BY <1>1 DEF MGot
<1>15. MHeld' BY <1>1 DEF MHeld
<1>16. QED BY <1>11, <1>12, <1>13, <1>14, <1>15 DEF MInv, MWalk

LEMMA MConvert == ASSUME RInv, TInv, KInv, LInv, MInv, ConvertSubtrie PROVE MInv'
<1>1. /\ state = "DIRTY" /\ Idle /\ Root \notin DOMAIN ids /\ nodes' = nodes /\ state' = state
      /\ frames' = frames /\ ended' = ended /\ len' = len /\ answer' = answer /\ upto' = upto
  BY DEF ConvertSubtrie, iterator
<1>2. Open /\ Tree(nodes) /\ Filled BY <1>1 DEF Idle, Open, RInv
<1>3. Bounded /\ Converting BY <1>1, <1>2 DEF TInv, Converting
<1>4. Partly(tt, ids, Heads) BY <1>3 DEF TInv
<1>5. Keyed(nodes) BY <1>1 DEF KInv, KNodes, Idle
<1>6. frames = <<>> BY <1>1 DEF LInv, LWalk, Exchanging, Idle, LookingUp
<1>7. ~ended /\ Leading(tt) /\ KeysIn(tt) = KeysOf(nodes, DOMAIN ids) /\ tt.len = len
  BY <1>3 DEF MInv, MEnd, MKeys
<1>8. MGot' /\ MEnd' /\ MHeld'
  <2>1. answer = None \/ answer.op # "get" BY <1>1 DEF MInv, MGot
  <2>2. MGot' BY <1>1, <2>1 DEF MGot
  <2>3. MEnd' BY <1>1, <1>7 DEF MEnd
  <2>4. MHeld' BY <1>1 DEF MHeld
  <2>5. QED BY <2>2, <2>3, <2>4
<1>9. PICK n \in Heads \ DOMAIN ids :
        /\ \A m \in Heads \ DOMAIN ids : m = n \/ ConvertedBefore(n, m)
        /\ IF Fatal(n)
             THEN call' = "crashed" /\ UNCHANGED <<tt, ids>>
             ELSE \E found \in MissedNames(nodes[n].keys) :
                    LET new == Converted(n, found) IN
                    /\ ids' = [m \in DOMAIN ids \cup {n} |-> IF m = n THEN new.id ELSE ids[m]]
                    /\ tt' = IF n = Root THEN [new.tables EXCEPT !.root_id = new.id]
                                         ELSE new.tables
                    /\ UNCHANGED call
  BY DEF ConvertSubtrie
<1>10. n \in DOMAIN nodes BY <1>2, HeadsAre
<1>11. CASE Fatal(n)
  <2>1. tt' = tt /\ ids' = ids BY <1>9, <1>11
  <2>2. MKeys' BY <1>1, <1>7, <2>1 DEF MKeys
  <2>3. ~Exchangeable' BY <1>1, <2>1 DEF Exchangeable
  <2>4. QED BY <1>8, <2>2, <2>3 DEF MInv, MWalk
<1>12. CASE ~Fatal(n)
  <2>1. PICK found \in MissedNames(nodes[n].keys) :
          LET new == Converted(n, found) IN
          /\ ids' = [m \in DOMAIN ids \cup {n} |-> IF m = n THEN new.id ELSE ids[m]]
          /\ tt' = IF n = Root THEN [new.tables EXCEPT !.root_id = new.id]
                               ELSE new.tables
          /\ UNCHANGED call
    BY <1>9, <1>12
  <2>2. PICK new : new = Converted(n, found) OBVIOUS
  <2>3. PICK f : f = [m \in DOMAIN ids \cup {n} |-> IF m = n THEN new.id ELSE ids[m]] OBVIOUS
  <2>4. /\ ids' = f
        /\ tt' = IF n = Root THEN [new.tables EXCEPT !.root_id = new.id] ELSE new.tables
    BY <2>1, <2>2, <2>3
  <2>5. nodes[n].has_value => nodes[n].result \in Buffers BY <1>2, <1>10, NodeIs DEF Node
  <2>6. HasSuffix(n) => nodes[n].has_value
    <3>1. call # "added" /\ call # "crashed" BY <1>1 DEF Idle
    <3>2. QED BY <1>2, <1>10, <3>1 DEF Filled
  <2>7. /\ Partly(new.tables, f, Heads) /\ DOMAIN f = DOMAIN ids \cup {n} /\ f[n] = new.id
        /\ new.id \in Address
    BY <1>2, <1>3, <1>4, <1>9, <1>12, <2>2, <2>3, <2>5, <2>6, ConvertedPartly
  <2>8. PICK u, a, D, E, ks :
          /\ u = new.tables /\ a = new.id /\ D = DOMAIN ids /\ E = DOMAIN f
          /\ ks = IF nodes[n].has_value THEN {LabelOf(nodes, n)} ELSE {}
    OBVIOUS
  <2>9. Gains(tt, u, ks)
    <3>1. ConvertsTo(n, found, new, f) BY <1>9, <1>12, <2>2, <2>3, <2>5, <2>6 DEF ConvertsTo
    <3>2. QED BY <1>2, <1>3, <1>4, <1>5, <1>7, <2>8, <3>1, NodeGains
  <2>10. E = D \cup {n} BY <2>7, <2>8
  <2>11. KeysOf(nodes, E) = KeysOf(nodes, D) \cup ks BY <2>8, <2>10, KeysGrow
  <2>12. Leading(u) /\ KeysIn(u) = KeysOf(nodes, E) /\ u.len = len
    BY <1>7, <2>8, <2>9, <2>11 DEF Gains
  <2>13. CASE n = Root
    <3>1. PICK t : t = tt' OBVIOUS
    <3>2. Root \in E /\ E \subseteq Heads /\ Shapely(u)
          /\ \A m \in E, o \in Heads : IsStrictPrefix(m, o) => o \in E
      BY <2>7, <2>8, <2>10, <2>13 DEF Partly
    <3>3. RootSet(u, t, a) BY <2>4, <2>8, <2>13, <3>1 DEF RootSet
    <3>4. Gains(u, t, {}) BY <2>12, <3>2, <3>3, RootKeeps
    <3>5. Leading(t) /\ KeysIn(t) = KeysOf(nodes, E) /\ t.len = len BY <2>12, <3>4 DEF Gains
    <3>6. KeysOf(nodes, E) = KeysOf(nodes, DOMAIN nodes) BY <1>2, <3>2, AllKeys
    <3>7. IsFiniteSet(Values(nodes)) /\ Cardinality(Values(nodes)) = len BY <1>2 DEF Filled
    <3>8. PICK H : H = DOMAIN nodes OBVIOUS
    <3>9. IsFiniteSet(KeysOf(nodes, H)) /\ Cardinality(KeysOf(nodes, H)) = Cardinality(Values(nodes))
      BY <1>2, <3>7, <3>8, ValuesCount
    <3>10. Counted(t) BY <3>5, <3>6, <3>7, <3>8, <3>9 DEF Counted
    <3>11. PICK e : e = ended' OBVIOUS
    <3>12. Visited(t, frames', ended')
      <4>1. ~e /\ frames' = <<>> BY <1>1, <1>6, <1>7, <3>11
      <4>2. Reached(t, <<>>, e, {}) /\ StreamsIn(t, {}) BY <4>1 DEF Reached, StreamsIn
      <4>3. QED BY <3>11, <4>1, <4>2 DEF Visited
    <3>13. MWalk' BY <3>1, <3>5, <3>10, <3>12 DEF MWalk, Holding
    <3>14. ~Converting' BY <2>4, <2>8, <3>2 DEF Converting
    <3>15. QED BY <1>8, <3>13, <3>14 DEF MInv, MKeys
  <2>14. CASE n # Root
    <3>1. tt' = u /\ DOMAIN ids' = E BY <2>4, <2>8, <2>14
    <3>2. MKeys' BY <1>1, <2>12, <3>1 DEF MKeys
    <3>3. ~Exchangeable' BY <1>1, <2>8, <2>10, <2>14, <3>1 DEF Exchangeable
    <3>4. QED BY <1>8, <3>2, <3>3 DEF MInv, MWalk
  <2>15. QED BY <2>13, <2>14
<1>13. QED BY <1>11, <1>12

LEMMA ReachedSame ==
  ASSUME NEW t, NEW u, SameSpelling(t, u), u.root_id = t.root_id, NEW fs, NEW e, NEW V, Reached(t, fs, e, V)
  PROVE  Reached(u, fs, e, V)
<1>1. V \subseteq Places(u) /\ \A a \in V : Links(u, a) = Links(t, a) BY DEF SameSpelling, Reached
<1>2. \A a \in V : \A i \in DOMAIN Links(u, a) : Links(u, a)[i] \in V \/ Pending(fs, a, i)
  BY <1>1 DEF Reached
<1>3. QED BY <1>1, <1>2 DEF Reached

LEMMA HoldingStays ==
  ASSUME NEW t, NEW u, Holding(t), Gains(t, u, {})
  PROVE  Holding(u)
BY DEF Holding, Gains, Counted

LEMMA MExchange == ASSUME TInv, LInv, MInv, ExchangeNext PROVE MInv'
<1>1. /\ state = "DIRTY" /\ call = "closed" /\ state' = state /\ call' = call
      /\ ids' = ids /\ written' = written /\ ended' = ended /\ CanGoDown /\ frames' = Deeper
  BY DEF ExchangeNext, Exchanging
<1>2. Root \in DOMAIN ids BY <1>1 DEF TInv, Idle, Converting
<1>3. Whole(tt) BY <1>1, <1>2 DEF TInv
<1>4. PICK P : LabelledFrom(tt, P) /\ FramesFit(tt, P, frames) BY <1>1, <1>2 DEF LInv, Finished
<1>5. FrameFits(tt, P, Last(Deeper)) BY <1>1, <1>3, <1>4, DeeperFits
<1>6. PICK f, fs, a, e : f = Last(Deeper) /\ fs = Deeper /\ a = f.id /\ e = ended OBVIOUS
<1>7. a \in Places(tt) BY <1>5, <1>6 DEF FrameFits
<1>8. Holding(tt) /\ Visited(tt, frames, ended) BY <1>1, <1>2 DEF MInv, MWalk, Exchangeable
<1>9. PICK V : Reached(tt, frames, ended, V) /\ StreamsIn(tt, V) BY <1>8 DEF Visited
<1>10. Reached(tt, fs, e, V \cup {a}) BY <1>1, <1>3, <1>4, <1>6, <1>9, DeeperReaches
<1>11. ~Converting' BY <1>1, <1>2 DEF Converting
<1>12. state' = "DIRTY" BY <1>1
<1>13. answer = None \/ answer.op # "get" BY <1>1 DEF MInv, MGot
<1>14. ASSUME Holding(tt'), Reached(tt', fs, e, V \cup {a}), StreamsIn(tt', V \cup {a}),
              answer' = None \/ answer'.op # "get"
       PROVE  MInv'
  <2>1. Visited(tt', frames', ended') BY <1>1, <1>6, <1>14 DEF Visited
  <2>2. MWalk' BY <1>14, <2>1 DEF MWalk
  <2>3. MGot' BY <1>12, <1>14 DEF MGot
  <2>4. MEnd' /\ MKeys' /\ MHeld' BY <1>11, <1>12 DEF MEnd, MKeys, MHeld
  <2>5. QED BY <2>2, <2>3, <2>4 DEF MInv
<1>15. CASE ~Yields(f)
  <2>1. tt' = tt /\ answer' = answer BY <1>6, <1>15 DEF ExchangeNext
  <2>2. a \notin ValueRows(tt) BY <1>6, <1>15 DEF ValueRows, Yields
  <2>3. StreamsIn(tt, V \cup {a}) BY <1>9, <2>2 DEF StreamsIn
  <2>4. QED BY <1>8, <1>10, <1>13, <1>14, <2>1, <2>3
<1>16. CASE Yields(f)
  <2>1. PICK t, u, y, i : t = tt /\ u = tt' /\ y = a.table_type /\ i = a.row_i + 1 OBVIOUS
  <2>2. tt' = Exchanged(f) /\ answer' = [op |-> "next", key |-> FullKeyOf(f), result |-> RowOf(f).result]
    BY <1>6, <1>16 DEF ExchangeNext
  <2>3. a \in ValueRows(t) BY <1>6, <1>7, <1>16, <2>1 DEF ValueRows, Yields
  <2>4. RowExchanged(t, u, y, i) BY <1>6, <2>1, <2>2 DEF Exchanged, RowExchanged
  <2>5. Whole(t) /\ Leading(t) BY <1>3, <1>8, <2>1 DEF Holding
  <2>6. /\ Gains(t, u, {}) /\ SameSpelling(t, u) /\ u.root_id = t.root_id
        /\ \A W : StreamsIn(t, W) => StreamsIn(u, W \cup {a})
    BY <2>1, <2>3, <2>4, <2>5, ExchangeGains
  <2>7. Holding(u) BY <1>8, <2>1, <2>6, HoldingStays
  <2>8. Reached(u, fs, e, V \cup {a}) BY <1>10, <2>1, <2>6, ReachedSame
  <2>9. StreamsIn(u, V \cup {a}) BY <1>9, <2>1, <2>6
  <2>10. answer'.op # "get" BY <2>2
  <2>11. QED BY <1>14, <2>1, <2>7, <2>8, <2>9, <2>10
<1>17. QED BY <1>15, <1>16

LEMMA MWalkUp == ASSUME TInv, LInv, MInv, WalkUp PROVE MInv'
<1>1. /\ UNCHANGED <<state, tt, ids, written, call, upto, nodes, len, answer>> /\ frames # <<>>
      /\ ~Unvisited /\ frames' = Front(frames) /\ ended' = (Len(frames) = 1)
      /\ Exchanging \/ LookingUp
  BY DEF WalkUp, vars
<1>2. MGot' BY <1>1 DEF MInv, MGot
<1>3. CASE Exchanging
  <2>1. state = "DIRTY" /\ call = "closed" BY <1>3 DEF Exchanging
  <2>2. Root \in DOMAIN ids BY <2>1 DEF TInv, Idle, Converting
  <2>3. Whole(tt) BY <2>1, <2>2 DEF TInv
  <2>4. PICK P : FramesFit(tt, P, frames) BY <2>1, <2>2 DEF LInv, Finished
  <2>5. Holding(tt) /\ Visited(tt, frames, ended) BY <2>1, <2>2 DEF MInv, MWalk, Exchangeable
  <2>6. PICK V : Reached(tt, frames, ended, V) /\ StreamsIn(tt, V) BY <2>5 DEF Visited
  <2>7. Reached(tt, Front(frames), Len(frames) = 1, V) BY <1>1, <2>3, <2>4, <2>6, FrontReaches
  <2>8. Visited(tt', frames', ended')
    <3>1. PICK fs, e : fs = frames' /\ e = ended' OBVIOUS
    <3>2. fs = Front(frames) /\ e = (Len(frames) = 1) BY <1>1, <3>1
    <3>3. Reached(tt, fs, e, V) BY <2>7, <3>2 DEF Reached
    <3>4. Visited(tt, fs, e) BY <2>6, <3>3 DEF Visited
    <3>5. QED BY <1>1, <3>1, <3>4
  <2>9. state' = "DIRTY" /\ ~Converting' BY <1>1, <2>1, <2>2 DEF Converting
  <2>10. MWalk' BY <1>1, <2>5, <2>8 DEF MWalk
  <2>11. MEnd' /\ MKeys' /\ MHeld' BY <2>9 DEF MEnd, MKeys, MHeld
  <2>12. QED BY <1>2, <2>10, <2>11 DEF MInv
<1>4. CASE LookingUp
  <2>1. state \in {"CONVERTED", "READ"} BY <1>4 DEF LInv, LWalk, LookingUp
  <2>2. ~Converting BY <2>1 DEF Converting
  <2>3. QED BY <1>1, <1>2, <2>1, <2>2, MStays
<1>5. QED BY <1>1, <1>3, <1>4

LEMMA MWrite == ASSUME TInv, LInv, MInv, WriteTtrie PROVE MInv'
<1>1. /\ state = "DIRTY" /\ call = "closed" /\ ended /\ state' = "CONVERTED" /\ tt' = tt
      /\ written' = tt /\ answer' = answer
  BY DEF WriteTtrie, Exchanging, vars
<1>2. Root \in DOMAIN ids BY <1>1 DEF TInv, Idle, Converting
<1>3. Whole(tt) BY <1>1, <1>2 DEF TInv
<1>4. PICK P : LabelledFrom(tt, P) BY <1>1, <1>2 DEF LInv, Finished
<1>5. Holding(tt) /\ Visited(tt, frames, ended) BY <1>1, <1>2 DEF MInv, MWalk, Exchangeable
<1>6. PICK V : Reached(tt, frames, ended, V) /\ StreamsIn(tt, V) BY <1>5 DEF Visited
<1>7. Reached(tt, <<>>, TRUE, V)
  <2>1. frames = <<>> /\ tt.root_id \in V BY <1>1, <1>6 DEF Reached
  <2>2. QED BY <1>6, <2>1 DEF Reached
<1>8. Sound(tt, P) BY <1>3, <1>4, <1>5 DEF Sound, Holding
<1>9. V = Places(tt) BY <1>7, <1>8, EndReached
<1>10. Streamed(tt) BY <1>6, <1>9 DEF StreamsIn, Streamed, ValueRows
<1>11. MHeld' BY <1>1, <1>5, <1>10 DEF MHeld
<1>12. answer = None \/ answer.op # "get" BY <1>1 DEF MInv, MGot
<1>13. MGot' BY <1>1, <1>12 DEF MGot, Answered
<1>14. MEnd' /\ MKeys' /\ MWalk' BY <1>1 DEF MEnd, MKeys, MWalk, Converting, Exchangeable
<1>15. QED BY <1>11, <1>13, <1>14 DEF MInv

LEMMA MCloseTable == ASSUME MInv, CloseTable PROVE MInv'
<1>1. /\ state \in {"CONVERTED", "READ"} /\ state' = "CLOSED" /\ written' = written /\ answer' = None
  BY DEF CloseTable
<1>2. MHeld' BY <1>1 DEF MInv, MHeld
<1>3. MGot' BY <1>1 DEF MGot
<1>4. MEnd' /\ MKeys' /\ MWalk' BY <1>1 DEF MEnd, MKeys, MWalk, Converting, Exchangeable
<1>5. QED BY <1>2, <1>3, <1>4 DEF MInv

LEMMA MOpenReader == ASSUME MInv, OpenReader PROVE MInv'
<1>1. state = "CLOSED" /\ state' = "READ" /\ written' = written /\ answer' = answer BY DEF OpenReader, vars
<1>2. answer' = None BY <1>1 DEF MInv, MGot
<1>3. MHeld' BY <1>1 DEF MInv, MHeld
<1>4. MGot' BY <1>1, <1>2 DEF MGot, Answered
<1>5. MEnd' /\ MKeys' /\ MWalk' BY <1>1 DEF MEnd, MKeys, MWalk, Converting, Exchangeable
<1>6. QED BY <1>3, <1>4, <1>5 DEF MInv

\* Steps of readers
LEMMA MReads ==
  ASSUME MInv, UNCHANGED <<state, tt, ids, written>>, state \in {"CONVERTED", "READ"}, Answered(tt, answer')
  PROVE  MInv'
<1>1. ~Converting BY DEF Converting
<1>2. MGot' BY DEF MGot
<1>3. QED BY <1>1, <1>2, MStays

\* Steps of a table that is still written
LEMMA MWrites ==
  ASSUME MInv, UNCHANGED <<state, tt, ids, written>>, state = "RAW", ended' = ended
  PROVE  MInv'
<1>1. ~Converting BY DEF Converting
<1>2. MGot' BY DEF MGot
<1>3. QED BY <1>1, <1>2, MStays

LEMMA MInvStep ==
  ASSUME RInv, TInv, KInv, LInv, MInv, TNext \/ UNCHANGED tvars
  PROVE  MInv'
<1>1. CASE InRtrie
  BY <1>1, MWrites DEF InRtrie, tables, iterator
<1>2. CASE CloseRtrie
  <2>1. /\ state = "DIRTY" /\ Root \in DOMAIN ids /\ UNCHANGED <<state, tt, ids, written>>
        /\ ended' = ended /\ frames' = frames
    BY <1>2 DEF CloseRtrie, tables, iterator
  <2>2. ~Converting BY <2>1 DEF Converting
  <2>3. answer' = None \/ answer' = answer
    <3>1. CASE StartClose BY <3>1 DEF StartClose
    <3>2. CASE FinishClose BY <3>2 DEF FinishClose
    <3>3. CASE call = "close" /\ Enter BY <3>3 DEF Enter
    <3>4. CASE LeaveNode BY <3>4 DEF LeaveNode
    <3>5. QED BY <1>2, <3>1, <3>2, <3>3, <3>4 DEF CloseRtrie
  <2>4. answer = None \/ answer.op # "get" BY <2>1 DEF MInv, MGot
  <2>5. MGot' BY <2>1, <2>3, <2>4 DEF MGot
  <2>6. QED BY <2>1, <2>2, <2>5, MStays
<1>3. CASE StartOptimize BY <1>3, MStartOptimize
<1>4. CASE ConvertSubtrie BY <1>4, MConvert
<1>5. CASE ExchangeNext BY <1>5, MExchange
<1>6. CASE LookNext
  <2>1. UNCHANGED <<state, tt, ids, written>> /\ LookingUp BY <1>6 DEF LookNext
  <2>2. state \in {"CONVERTED", "READ"} BY <2>1 DEF LInv, LWalk, LookingUp
  <2>3. Answered(tt, answer) BY <2>2 DEF MInv, MGot
  <2>4. PICK f : f = Last(Deeper) OBVIOUS
  <2>5. upto.passed <= upto.i /\ upto.passed \in Int /\ upto.i \in Int
    <3>1. /\ upto \in [i : 0 .. MaxKeys, passed : 0 .. MaxKeys] /\ upto.passed <= upto.i /\ MaxKeys \in Nat
      BY <2>1, MaxKeysAssumption DEF LInv, LWalk, LookingUp
    <3>2. QED BY <3>1
  <2>6. answer' = answer \/ answer' = [op |-> "key_i", i |-> upto.i, keys |-> {FullKeyOf(f)}]
    <3>1. CASE ~Yields(f) BY <1>6, <2>4, <3>1 DEF LookNext
    <3>2. CASE Yields(f) /\ upto.passed < upto.i
      <4>1. upto.passed # upto.i BY <2>5, <3>2
      <4>2. QED BY <1>6, <2>4, <3>2, <4>1 DEF LookNext
    <3>3. CASE Yields(f) /\ upto.passed = upto.i
      <4>1. ~(upto.passed < upto.i) BY <2>5, <3>3
      <4>2. QED BY <1>6, <2>4, <3>3, <4>1 DEF LookNext
    <3>4. QED BY <2>5, <3>1, <3>2, <3>3
  <2>7. Answered(tt, answer')
    <3>1. CASE answer' = answer BY <2>3, <3>1
    <3>2. CASE answer' = [op |-> "key_i", i |-> upto.i, keys |-> {FullKeyOf(f)}]
      <4>1. answer'.op = "key_i" BY <3>2
      <4>2. QED BY <4>1 DEF Answered
    <3>3. QED BY <2>6, <3>1, <3>2
  <2>8. QED BY <2>1, <2>2, <2>7, MReads
<1>7. CASE WalkUp BY <1>7, MWalkUp
<1>8. CASE NoKeyThere
  <2>1. /\ UNCHANGED <<state, tt, ids, written>> /\ LookingUp
        /\ answer' = [op |-> "key_i", i |-> upto.i, keys |-> {}]
    BY <1>8 DEF NoKeyThere
  <2>2. state \in {"CONVERTED", "READ"} BY <2>1 DEF LInv, LWalk, LookingUp
  <2>3. Answered(tt, answer') BY <2>1 DEF Answered
  <2>4. QED BY <2>1, <2>2, <2>3, MReads
<1>9. CASE WriteTtrie BY <1>9, MWrite
<1>10. CASE CloseTable BY <1>10, MCloseTable
<1>11. CASE OpenReader BY <1>11, MOpenReader
<1>12. ASSUME NEW k \in Keys, GetConverted(k) PROVE MInv'
  <2>1. UNCHANGED <<state, tt, ids, written>> /\ state \in {"CONVERTED", "READ"}
    BY <1>12 DEF GetConverted, tables
  <2>2. PICK r : r = IF Found(tt, k) = {} THEN None ELSE CHOOSE x \in Found(tt, k) : TRUE OBVIOUS
  <2>3. answer' = [op |-> "get", key |-> k, result |-> r] BY <1>12, <2>2 DEF GetConverted
  <2>4. answer'.key = k /\ answer'.result = r BY <2>3
  <2>5. Answered(tt, answer') BY <1>12, <2>2, <2>4 DEF Answered
  <2>6. QED BY <2>1, <2>5, MReads
<1>13. ASSUME NEW i \in 0 .. MaxKeys, StartKeyAt(i) PROVE MInv'
  <2>1. UNCHANGED <<state, tt, ids, written>> /\ state \in {"CONVERTED", "READ"} /\ answer' = None
    BY <1>13 DEF StartKeyAt
  <2>2. Answered(tt, answer') BY <2>1 DEF Answered
  <2>3. QED BY <2>1, <2>2, MReads
<1>14. CASE UNCHANGED tvars
  <2>1. /\ UNCHANGED <<state, tt, ids, written>> /\ ended' = ended /\ frames' = frames
        /\ nodes' = nodes /\ len' = len /\ answer' = answer
    BY <1>14 DEF tvars, tables, iterator, vars
  <2>2. MGot' BY <2>1 DEF MInv, MGot
  <2>3. QED BY <2>1, <2>2, MStays
<1>15. ASSUME NEW i \in 0 .. MaxKeys, StartCount(i) PROVE MInv' BY <1>15, MWrites DEF StartCount, iterator
<1>16. CASE CountNext BY <1>16, MWrites DEF CountNext, Counting, iterator
<1>17. CASE FinishCount BY <1>17, MWrites DEF FinishCount, Counting, iterator
<1>18. QED
  BY <1>1, <1>2, <1>3, <1>4, <1>5, <1>6, <1>7, <1>8, <1>9, <1>10, <1>11, <1>12, <1>13, <1>14,
     <1>15, <1>16, <1>17
  DEF TNext

LEMMA MInvIsExact == ASSUME TInv, LInv, MInv PROVE ConvertedExact
<1>1. SUFFICES ASSUME state \in {"CONVERTED", "READ"}
               PROVE  /\ TStored = [k \in DOMAIN TStored |-> [of |-> "cpref", key |-> k]]
                      /\ Cardinality(Entries(tt)) = tt.len
                      /\ answer # None /\ answer.op = "get" /\ answer.key # <<>> =>
                           answer.result = IF answer.key \in DOMAIN TStored THEN TStored[answer.key] ELSE None
  BY DEF ConvertedExact
<1>2. Root \in DOMAIN ids /\ Whole(tt) /\ tt = written BY <1>1 DEF TInv
<1>3. PICK P : LabelledFrom(tt, P) BY <1>1, <1>2 DEF LInv, Finished
<1>4. Leading(tt) /\ Counted(tt) /\ Streamed(tt) BY <1>1, <1>2 DEF MInv, MHeld, Holding
<1>5. Sound(tt, P) BY <1>2, <1>3, <1>4 DEF Sound
<1>6. PICK K : K = KeysIn(tt) OBVIOUS
<1>7. Entries(tt) = {EntryOf(k) : k \in K} BY <1>4, <1>5, <1>6, StreamEntries
<1>8. TStored = AsMap(Entries(tt)) BY <1>1, <1>2 DEF TStored, InTables
<1>9. TStored = [k \in K |-> StreamFor(k)] BY <1>7, <1>8, EntriesMap
<1>10. IsFiniteSet(K) /\ Cardinality(K) = tt.len BY <1>4, <1>6 DEF Counted
<1>11. Cardinality(Entries(tt)) = tt.len BY <1>7, <1>10, EntriesCount
<1>12. ASSUME answer # None, answer.op = "get", answer.key # <<>>
       PROVE  answer.result = IF answer.key \in DOMAIN TStored THEN TStored[answer.key] ELSE None
  <2>1. PICK k, f : k = answer.key /\ f = Found(tt, k) OBVIOUS
  <2>2. k \in Keys /\ answer.result = IF f = {} THEN None ELSE CHOOSE r \in f : TRUE
    BY <1>1, <1>12, <2>1 DEF MInv, MGot, Answered
  <2>3. k \in Seq(Letters) BY <2>2, KeyIs
  <2>4. f = IF k \in K THEN {StreamFor(k)} ELSE {} BY <1>4, <1>5, <1>6, <1>12, <2>1, <2>3, FoundStream
  <2>5. CASE k \in K
    <3>1. f = {StreamFor(k)} BY <2>4, <2>5
    <3>2. (CHOOSE r \in f : TRUE) = StreamFor(k) BY <3>1
    <3>3. answer.result = StreamFor(k) BY <2>2, <3>1, <3>2
    <3>4. QED BY <1>9, <2>1, <2>5, <3>3
  <2>6. CASE k \notin K
    <3>1. answer.result = None BY <2>2, <2>4, <2>6
    <3>2. QED BY <1>9, <2>1, <2>6, <3>1
  <2>7. QED BY <2>5, <2>6
<1>13. TStored = [k \in DOMAIN TStored |-> [of |-> "cpref", key |-> k]] BY <1>9 DEF StreamFor
<1>14. QED BY <1>11, <1>12, <1>13

\* ttrie.c:1491-1548, ttrie.c:2024-2173 and kds.c:371-392: what is converted has a row for each
\* key of the radix trie, once; the exchange leaves none of them a buffer's number; and
\* ttrie__get finds the stream of each key but the empty one, and nothing for others.
THEOREM ConvertedKeepsKeys == TSpec => []ConvertedExact
<1>1. TInit => RInv /\ TInv /\ KInv /\ LInv /\ MInv
  BY RInvInit, TInvInit, KInvInit, LInvInit, MInvInit DEF TInit
<1>2. RInv /\ TInv /\ KInv /\ LInv /\ MInv /\ [TNext]_tvars => (RInv /\ TInv /\ KInv /\ LInv /\ MInv)'
  <2>1. SUFFICES ASSUME RInv, TInv, KInv, LInv, MInv, TNext \/ UNCHANGED tvars
                 PROVE  RInv' /\ TInv' /\ KInv' /\ LInv' /\ MInv'
    OBVIOUS
  <2>2. RInv' BY <2>1, RInvTStep
  <2>3. TInv' BY <2>1, <2>2, TInvStep
  <2>4. KInv' BY <2>1, <2>2, KInvTStep
  <2>5. LInv' BY <2>1, <2>3, LInvStep
  <2>6. MInv' BY <2>1, MInvStep
  <2>7. QED BY <2>2, <2>3, <2>4, <2>5, <2>6
<1>3. TInv /\ LInv /\ MInv => ConvertedExact BY MInvIsExact
<1>4. QED BY <1>1, <1>2, <1>3, PTL DEF TSpec

=============================================================================
