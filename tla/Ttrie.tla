-------------------------------- MODULE Ttrie -------------------------------
(***************************************************************************)
(* The table trie (src/src/pulp_db/kds/ttrie.c) a key table becomes when   *)
(* it is optimised: the radix trie is converted into five tables, the      *)
(* number stored with each key is exchanged while its keys are iterated,   *)
(* and the tables are written to a file, from which readers load them.     *)
(* kds.c drives both tries; what it does with references is in PulpDb.     *)
(*                                                                         *)
(* One node of the radix trie is converted, and one call of                *)
(* ttrie__walk_nodes is made, in a step.  An operator X_<fault> is a       *)
(* faulty variant of X.                                                    *)
(***************************************************************************)
EXTENDS Rtrie, FiniteSets

CONSTANT
  MaxDepth       (* MAX_CHOICE_TABLE_DEPTH: rows in a choice table          *)

ASSUME MaxDepthAssumption == MaxDepth \in 1 .. Byte

VARIABLES
  state,         (* of the key table: "RAW", "DIRTY", "CONVERTED" while it is
                    written, "CLOSED" between a writer and a reader, "READ" *)
  tt,            (* the ttrie__obj; a table is the sequence of its rows     *)
  ids,           (* what convert_subtrie gave for the nodes it was called for *)
  frames, ended, (* the ttrie__iterator; ended is TTRIE_STACK_STATE_R       *)
  upto,          (* i of kds__get_key_i and the keys it has passed          *)
  file,          (* the numbers in the .ttrie file, in order                *)
  written        (* history: the tables when they were written              *)

iterator == <<frames, ended>>
tables   == <<state, tt, ids, iterator, upto, file, written>>
tvars    == <<vars, tables>>

NoKeyAt == [i |-> -1, passed |-> 0]
NoRoot  == [table_type |-> "choice", table_i |-> 0, row_i |-> 0]
Opened  == [len |-> 0, root_id |-> NoRoot, choice |-> <<>>, term |-> <<>>,
            pass |-> <<>>, suffix |-> <<>>, infix |-> <<>>]

TInit ==
  /\ Init
  /\ state = "RAW" /\ tt = Opened /\ ids = [n \in {} |-> NoRoot]
  /\ frames = <<>> /\ ended = FALSE /\ upto = NoKeyAt /\ file = <<>> /\ written = Opened

(***************************************************************************)
(* The tables                                                              *)
(***************************************************************************)

\* encode_id: a choice table has more bits than the others, its row a byte.
Id(type, table, row) ==
  [table_type |-> type, table_i |-> table,
   row_i |-> IF type = "choice" THEN row % Byte ELSE row]

\* terminator_append, passthrough_append, suffix_append, infix_append
Appended(t, type, row) ==
  [tables |-> [t EXCEPT ![type] = Append(@, row)], id |-> Id(type, 0, Len(t[type]))]

\* choice_find_add_table: the last table of that name unless it is full. The index
\* of the names is a radix trie; it may miss a name with the sign bit in a letter.
TableFor_OneEarly(t, name, found) ==
  LET named == {i \in DOMAIN t.choice : /\ t.choice[i].name = name
                                        /\ \A j \in DOMAIN t.choice : j > i => t.choice[j].name # name} IN
  IF found /\ \E i \in named : Len(t.choice[i].rows) < MaxDepth - 1
    THEN CHOOSE i \in named : TRUE
    ELSE Len(t.choice) + 1
TableFor(t, name, found) ==
  LET named == {i \in DOMAIN t.choice : /\ t.choice[i].name = name
                                        /\ \A j \in DOMAIN t.choice : j > i => t.choice[j].name # name} IN
  IF found /\ \E i \in named : Len(t.choice[i].rows) < MaxDepth
    THEN CHOOSE i \in named : TRUE
    ELSE Len(t.choice) + 1

MissedNames(name) == IF \E i \in DOMAIN name : name[i] >= Half THEN BOOLEAN ELSE {TRUE}

\* choice_row_append gives the number of the row it appended.
RowNumber_Zero(rows) == 0
RowNumber(rows) == Len(rows)

\* choice_new_row
ChoiceRow(t, name, row, found) ==
  LET i      == TableFor(t, name, found)
      choice == IF i > Len(t.choice) THEN Append(t.choice, [name |-> name, rows |-> <<>>])
                                     ELSE t.choice
  IN [tables |-> [t EXCEPT !.choice = [choice EXCEPT ![i].rows = Append(@, row)]],
      id     |-> Id("choice", i - 1, RowNumber(choice[i].rows))]

\* The ids of all rows
AllIds(t) ==
  (UNION {{Id(type, 0, i - 1) : i \in DOMAIN t[type]} : type \in {"term", "pass", "suffix", "infix"}})
    \cup (UNION {{Id("choice", c - 1, i - 1) : i \in DOMAIN t.choice[c].rows} : c \in DOMAIN t.choice})

RowAt(t, id) ==
  IF id.table_type = "choice" THEN t.choice[id.table_i + 1].rows[id.row_i + 1]
                              ELSE t[id.table_type][id.row_i + 1]

(***************************************************************************)
(* ttrie__convert                                                          *)
(***************************************************************************)

\* The loop of convert_subtrie_to_infix passes over nodes with one child and no
\* value; convert_subtrie is called for the others.
Heads ==
  {n \in DOMAIN nodes :
     ~ /\ n # Root /\ ~nodes[n].has_value
       /\ Len(nodes[n].children) = 1 /\ Len(nodes[Front(n)].children) = 1}

\* Children are converted before their parent, in the order of their letters.
ConvertedBefore(m, n) ==
  \/ IsStrictPrefix(n, m)
  \/ \E i \in DOMAIN m \cap DOMAIN n :
       m[i] < n[i] /\ SubSeq(m, 1, i - 1) = SubSeq(n, 1, i - 1)

InfixEnd(n) ==
  CHOOSE m \in Heads : /\ IsStrictPrefix(n, m)
                       /\ \A o \in Heads : IsStrictPrefix(n, o) => IsPrefix(m, o)
Infix(n) == SubSeq(InfixEnd(n), Len(n) + 1, Len(InfixEnd(n)))

Inner(n, found) ==
  IF Len(nodes[n].children) > 1
    THEN ChoiceRow(tt, nodes[n].keys,
                   [i \in DOMAIN nodes[n].children |-> ids[nodes[n].children[i]]], found)
    ELSE Appended(tt, "infix", [infix |-> Infix(n), id |-> ids[InfixEnd(n)]])

\* A node with a value and children is passed through on the way to them.
WithValue_Lost(n, inner) == inner
WithValue(n, inner) ==
  IF nodes[n].has_value
    THEN Appended(inner.tables, "pass", [id |-> inner.id, result |-> nodes[n].result])
    ELSE inner

Converted(n, found) ==
  CASE HasSuffix(n)   -> Appended(tt, "suffix", [suffix |-> Suffix(n), result |-> nodes[n].result])
    [] HasChildren(n) -> WithValue(n, Inner(n, found))
    [] ~HasSuffix(n) /\ ~HasChildren(n) -> Appended(tt, "term", [result |-> nodes[n].result])

\* An empty trie makes convert_subtrie exit. The length of a suffix or infix goes
\* through a char: malloc is asked for a negative number of bytes, and refuses.
Fatal(n) ==
  \/ ~HasSuffix(n) /\ ~HasChildren(n) /\ ~nodes[n].has_value
  \/ HasSuffix(n) /\ nodes[n].suffix_len >= Half
  \/ Len(nodes[n].children) = 1 /\ Len(Infix(n)) % Byte >= Half

StartOptimize ==
  /\ state = "RAW" /\ Idle /\ upto = NoKeyAt
  /\ state' = "DIRTY" /\ tt' = [Opened EXCEPT !.len = len]
  /\ answer' = None
  /\ UNCHANGED <<nodes, len, walked, call, adding, given, ids, iterator, upto, file, written>>

ConvertSubtrie ==
  /\ state = "DIRTY" /\ Idle /\ Root \notin DOMAIN ids
  /\ \E n \in Heads \ DOMAIN ids :
       /\ \A m \in Heads \ DOMAIN ids : m = n \/ ConvertedBefore(n, m)
       /\ IF Fatal(n)
            THEN call' = "crashed" /\ UNCHANGED <<tt, ids>>
            ELSE \E found \in MissedNames(nodes[n].keys) :
                   LET new == Converted(n, found) IN
                   /\ ids' = [m \in DOMAIN ids \cup {n} |-> IF m = n THEN new.id ELSE ids[m]]
                   /\ tt' = IF n = Root THEN [new.tables EXCEPT !.root_id = new.id]
                                        ELSE new.tables
                   /\ UNCHANGED call
  /\ UNCHANGED <<nodes, len, walked, adding, given, answer, state, iterator, upto, file, written>>

(***************************************************************************)
(* ttrie__get                                                              *)
(***************************************************************************)

\* choice_get_offset: where the letter is in the name of the table. High is one
\* beyond the last letter.
High_LastLetter(name) == Len(name)
High(name) == Len(name) + 1
Offset(name, letter) ==
  LET search[range \in Nat \X Nat] ==
        LET low  == range[1]
            high == range[2]
            i    == (high + low) \div 2 IN
        IF low >= high THEN {}
        ELSE IF letter = name[i] THEN {i}
        ELSE search[IF letter > name[i] THEN <<i + 1, high>> ELSE <<low, i>>]
  IN search[<<1, High(name)>>]

\* What ttrie__get finds. No letters are found nowhere: a passthrough root is not
\* looked at again, and a choice root takes the byte after the key.
Found(t, k) ==
  LET rest(at)  == SubSeq(k, at + 1, Len(k))
      turn[place \in Nat \X AllIds(t)] ==
        LET at     == place[1]
            id     == place[2]
            row    == RowAt(t, id)
            type   == id.table_type
            inLoop == at < Len(k) IN
        CASE type = "choice" /\ inLoop ->
               UNION {turn[<<at + 1, row[i]>>] : i \in Offset(t.choice[id.table_i + 1].name, k[at + 1])}
          [] type = "infix" /\ inLoop ->
               IF IsPrefix(row.infix, rest(at)) THEN turn[<<at + Len(row.infix), row.id>>] ELSE {}
          [] type = "suffix" /\ inLoop -> IF row.suffix = rest(at) THEN {row.result} ELSE {}
          [] type = "pass" /\ inLoop   -> turn[<<at, row.id>>]
          [] type \in {"pass", "term"} /\ ~inLoop -> {row.result}
          [] OTHER -> {}
  IN IF k = <<>> THEN {} ELSE turn[<<0, t.root_id>>]

\* kds__contains and kds__lookup of a table that is not RAW or DIRTY
GetConverted(k) ==
  /\ state \in {"CONVERTED", "READ"} /\ upto = NoKeyAt
  /\ answer' = [op |-> "get", key |-> k,
                result |-> IF Found(tt, k) = {} THEN None ELSE CHOOSE r \in Found(tt, k) : TRUE]
  /\ UNCHANGED <<nodes, len, walked, call, adding, given, tables>>

(***************************************************************************)
(* Iteration                                                               *)
(***************************************************************************)

TopFrame    == Last(frames)
RowOf(f)    == RowAt(tt, f.id)
NewFrame(id, key) == [id |-> id, child_index |-> -1, key |-> key]

\* The children of a frame, each with what it adds to the key.
Children(f) ==
  LET row == RowOf(f) IN
  CASE f.id.table_type = "choice" ->
         [i \in DOMAIN row |-> NewFrame(row[i], Append(f.key, tt.choice[f.id.table_i + 1].name[i]))]
    [] f.id.table_type = "infix"  -> <<NewFrame(row.id, f.key \o row.infix)>>
    [] f.id.table_type = "pass"   -> <<NewFrame(row.id, f.key)>>
    [] f.id.table_type \in {"term", "suffix"} -> <<>>

Unvisited == TopFrame.child_index < Len(Children(TopFrame)) - 1

\* ttrie__next_node returns at a node with a value, the suffix added to the key.
Yields(f) == f.id.table_type \in {"pass", "term", "suffix"}
FullKeyOf(f) == IF f.id.table_type = "suffix" THEN f.key \o RowOf(f).suffix ELSE f.key

CanGoDown == ~ended /\ (frames # <<>> => Unvisited)

Deeper ==
  IF frames = <<>>
    THEN <<NewFrame(tt.root_id, <<>>)>>
    ELSE LET i == TopFrame.child_index + 1 IN
         Append([frames EXCEPT ![Len(frames)].child_index = i], Children(TopFrame)[i + 1])

(***************************************************************************)
(* The exchange of the stored values, and the i-th key                     *)
(***************************************************************************)

Exchanging == state = "DIRTY" /\ call = "closed"
LookingUp  == upto # NoKeyAt /\ state # "RAW"
Counting   == upto # NoKeyAt /\ state = "RAW"

\* kds__optimize_write stores the place of the stream it makes from the buffer with
\* the number that is stored, through the pointer ttrie__next_node gave it.
Exchanged(f) ==
  [tt EXCEPT ![f.id.table_type][f.id.row_i + 1].result = [of |-> "cpref", key |-> @.key]]

ExchangeNext ==
  /\ Exchanging /\ CanGoDown
  /\ frames' = Deeper
  /\ LET f == Last(Deeper) IN
     IF Yields(f)
       THEN /\ given' = FullKeyOf(f)
            /\ answer' = [op |-> "next", key |-> FullKeyOf(f), result |-> RowOf(f).result]
            /\ tt' = Exchanged(f)
       ELSE UNCHANGED <<given, answer, tt>>
  /\ UNCHANGED <<nodes, len, walked, call, adding, state, ids, ended, upto, file, written>>

\* kds__get_key_i of a table that is still written: the keys of the radix trie from
\* the first on, by the one iteration that trie has.
StartCount(i) ==
  /\ state = "RAW" /\ upto = NoKeyAt
  /\ Iter
  /\ upto' = [i |-> i, passed |-> 0]
  /\ UNCHANGED <<state, tt, ids, iterator, file, written>>

CountNext ==
  /\ Counting /\ upto.passed <= upto.i
  /\ StartNext
  /\ upto' = [upto EXCEPT !.passed = @ + 1]
  /\ UNCHANGED <<state, tt, ids, iterator, file, written>>

\* The loop ends with j one more than i; what follows asks whether j is i.
CountedKey(i) == LET j == i + 1 IN IF j = i THEN {given} ELSE {}

\* Behind the last key rtrie__next goes nowhere. Where the iteration stands is not
\* looked at again: every other one begins at the first key.
FinishCount ==
  /\ Counting
  /\ call = "none" \/ (call = "between" /\ upto.passed = upto.i + 1)
  /\ answer' = [op |-> "key_i", i |-> upto.i, keys |-> CountedKey(upto.i)]
  /\ upto' = NoKeyAt
  /\ call' = "none" /\ stack' = <<>> /\ side' = "L" /\ given' = None
  /\ UNCHANGED <<nodes, len, adding, state, tt, ids, iterator, file, written>>

\* kds__get_key_i of an optimised table: from the first key to the one after i others.
StartKeyAt(i) ==
  /\ state \in {"CONVERTED", "READ"} /\ upto = NoKeyAt
  /\ upto' = [i |-> i, passed |-> 0] /\ answer' = None
  /\ UNCHANGED <<nodes, len, walked, call, adding, given, state, tt, ids, iterator, file, written>>

CloseIterator == frames' = <<>> /\ ended' = FALSE

LookNext ==
  /\ LookingUp /\ CanGoDown
  /\ LET f == Last(Deeper) IN
     CASE ~Yields(f) ->
            frames' = Deeper /\ UNCHANGED <<ended, upto, answer>>
       [] Yields(f) /\ upto.passed < upto.i ->
            frames' = Deeper /\ upto' = [upto EXCEPT !.passed = @ + 1] /\ UNCHANGED <<ended, answer>>
       [] Yields(f) /\ upto.passed = upto.i ->
            /\ CloseIterator /\ upto' = NoKeyAt
            /\ answer' = [op |-> "key_i", i |-> upto.i, keys |-> {FullKeyOf(f)}]
  /\ UNCHANGED <<nodes, len, walked, call, adding, given, state, tt, ids, file, written>>

\* ttrie__walk_nodes pops a frame whose children have been walked.
WalkUp ==
  /\ Exchanging \/ LookingUp
  /\ frames # <<>> /\ ~Unvisited
  /\ frames' = Front(frames) /\ ended' = (Len(frames) = 1)
  /\ UNCHANGED <<vars, state, tt, ids, upto, file, written>>

NoKeyThere ==
  /\ LookingUp /\ ended
  /\ CloseIterator /\ upto' = NoKeyAt
  /\ answer' = [op |-> "key_i", i |-> upto.i, keys |-> {}]
  /\ UNCHANGED <<nodes, len, walked, call, adding, given, state, tt, ids, file, written>>

(***************************************************************************)
(* ttrie__write and ttrie__read                                            *)
(***************************************************************************)

OrNull(table, cells) == IF table = <<>> THEN <<1>> ELSE <<0, Len(table) - 1>> \o cells
Column(table, field) == [i \in DOMAIN table |-> table[i][field]]
Strings(strings) == FlattenSeq([i \in DOMAIN strings |-> <<Len(strings[i])>> \o strings[i]])

ChoiceCells(c) ==
  <<Len(c.name) - 1>> \o c.name \o <<Len(c.rows) - 1>> \o FlattenSeq(c.rows)

Serialised(t) ==
  <<t.len, t.root_id>>
    \o OrNull(t.choice, FlattenSeq([i \in DOMAIN t.choice |-> ChoiceCells(t.choice[i])]))
    \o OrNull(t.term,   Column(t.term, "result"))
    \o OrNull(t.pass,   Column(t.pass, "id") \o Column(t.pass, "result"))
    \o OrNull(t.suffix, Column(t.suffix, "result") \o Strings(Column(t.suffix, "suffix")))
    \o OrNull(t.infix,  Column(t.infix, "id") \o Strings(Column(t.infix, "infix")))

\* Each reader starts at an offset and gives what it read and the offset after it.
Read(value, offset) == [value |-> value, offset |-> offset]
Array(cells, offset, n) == Read(SubSeq(cells, offset, offset + n - 1), offset + n)

\* n strings, each after its length
ReadStrings(cells, offset, n) ==
  LET strings[i \in 0 .. n] ==
        IF i = 0 THEN Read(<<>>, offset)
        ELSE LET before == strings[i - 1]
                 string == Array(cells, before.offset + 1, cells[before.offset]) IN
             Read(Append(before.value, string.value), string.offset)
  IN strings[n]

\* n choice tables: a name, a number of rows, and rows as wide as the name
ReadChoices(cells, offset, n) ==
  LET choices[i \in 0 .. n] ==
        IF i = 0 THEN Read(<<>>, offset)
        ELSE LET before == choices[i - 1]
                 width  == cells[before.offset] + 1
                 name   == Array(cells, before.offset + 1, width)
                 rows   == cells[name.offset] + 1
                 matrix == Array(cells, name.offset + 1, rows * width)
                 row(j) == SubSeq(matrix.value, (j - 1) * width + 1, j * width) IN
             Read(Append(before.value, [name |-> name.value, rows |-> [j \in 1 .. rows |-> row(j)]]),
                  matrix.offset)
  IN choices[n]

\* The table at an offset: nothing after a 1, n rows after a 0 and n - 1.
AtTable(cells, offset, Body(_, _)) ==
  IF cells[offset] = 1 THEN Read(<<>>, offset + 1)
                       ELSE Body(offset + 2, cells[offset + 1] + 1)

Deserialised(cells) ==
  LET TermRows(o, n)  == LET results == Array(cells, o, n) IN
                        Read([i \in 1 .. n |-> [result |-> results.value[i]]], results.offset)
      PassRows(o, n)   == LET passed  == Array(cells, o, n)
                            results == Array(cells, passed.offset, n) IN
                        Read([i \in 1 .. n |-> [id |-> passed.value[i], result |-> results.value[i]]],
                             results.offset)
      SuffixRows(o, n) == LET results == Array(cells, o, n)
                            strings == ReadStrings(cells, results.offset, n) IN
                        Read([i \in 1 .. n |-> [suffix |-> strings.value[i], result |-> results.value[i]]],
                             strings.offset)
      InfixRows(o, n)  == LET below   == Array(cells, o, n)
                            strings == ReadStrings(cells, below.offset, n) IN
                        Read([i \in 1 .. n |-> [infix |-> strings.value[i], id |-> below.value[i]]],
                             strings.offset)
      ChoiceRows(o, n)  == ReadChoices(cells, o, n)
      choice == AtTable(cells, 3, ChoiceRows)
      term   == AtTable(cells, choice.offset, TermRows)
      pass   == AtTable(cells, term.offset, PassRows)
      suffix == AtTable(cells, pass.offset, SuffixRows)
      infix  == AtTable(cells, suffix.offset, InfixRows)
  IN [len |-> cells[1], root_id |-> cells[2], choice |-> choice.value, term |-> term.value,
      pass |-> pass.value, suffix |-> suffix.value, infix |-> infix.value]

\* The end of kds__optimize_write
WriteTtrie ==
  /\ Exchanging /\ ended
  /\ file' = Serialised(tt) /\ written' = tt /\ state' = "CONVERTED"
  /\ CloseIterator
  /\ UNCHANGED <<vars, tt, ids, upto>>

\* kds__close, once the table was written or read
CloseTable ==
  /\ state \in {"CONVERTED", "READ"} /\ upto = NoKeyAt
  /\ state' = "CLOSED" /\ tt' = Opened /\ answer' = None
  /\ UNCHANGED <<nodes, len, walked, call, adding, given, ids, iterator, upto, file, written>>

\* kds__open, mode 'r'
OpenReader ==
  /\ state = "CLOSED"
  /\ state' = "READ" /\ tt' = Deserialised(file)
  /\ UNCHANGED <<vars, ids, iterator, upto, file, written>>

(***************************************************************************)
(* The specification                                                       *)
(***************************************************************************)

\* Only kds__get_key_i iterates over the keys of the radix trie (kds.c:431).
InRtrie ==
  /\ state = "RAW" /\ UNCHANGED tables
  /\ Steps \/ (upto = NoKeyAt /\ (Calls \/ StartClose))

\* rtrie__close, once the trie has been converted
CloseRtrie ==
  /\ state = "DIRTY" /\ Root \in DOMAIN ids
  /\ \/ StartClose \/ FinishClose
     \/ call = "close" /\ (Enter \/ LeaveNode)
  /\ UNCHANGED tables

TNext ==
  \/ InRtrie \/ StartOptimize \/ ConvertSubtrie \/ CloseRtrie
  \/ ExchangeNext \/ LookNext \/ WalkUp \/ NoKeyThere
  \/ CountNext \/ FinishCount
  \/ WriteTtrie \/ CloseTable \/ OpenReader
  \/ \E k \in Keys : GetConverted(k)
  \/ \E i \in 0 .. MaxKeys : StartKeyAt(i) \/ StartCount(i)

TSteps ==
  \/ (state = "RAW" /\ Steps /\ UNCHANGED tables) \/ ConvertSubtrie \/ CloseRtrie
  \/ ExchangeNext \/ LookNext \/ WalkUp \/ NoKeyThere \/ WriteTtrie
  \/ CountNext \/ FinishCount

\* A call once begun runs to its end.
TSpec == TInit /\ [][TNext]_tvars /\ WF_tvars(TSteps)

(***************************************************************************)
(* Properties                                                              *)
(***************************************************************************)

Results == {Buffer(k) : k \in Keys} \cup {[of |-> "cpref", key |-> k] : k \in Keys}

\* Types; no choice table has more rows than a byte can number, and every row is as
\* wide as the name of its table.
TTypeOK ==
  /\ TypeOK
  /\ state \in {"RAW", "DIRTY", "CONVERTED", "CLOSED", "READ"}
  /\ \A c \in ToSet(tt.choice) :
       /\ Len(c.rows) \in 1 .. MaxDepth
       /\ \A i \in DOMAIN c.rows : DOMAIN c.rows[i] = DOMAIN c.name
  /\ \A row \in ToSet(tt.term) \cup ToSet(tt.pass) \cup ToSet(tt.suffix) : row.result \in Results
  /\ DOMAIN ids \subseteq Seq(0 .. Byte - 1)
  /\ \A i \in DOMAIN frames : frames[i].child_index < Len(Children(frames[i]))
  /\ upto \in [i : -1 .. MaxKeys, passed : 0 .. MaxKeys + 1]

\* The trie has been converted and is in memory.
InTables == Root \in DOMAIN ids /\ state # "CLOSED"

\* The ids stored in the tables and the root's, one after another.
Pointers ==
  <<tt.root_id>> \o Column(tt.pass, "id") \o Column(tt.infix, "id")
    \o FlattenSeq([c \in DOMAIN tt.choice |-> FlattenSeq(tt.choice[c].rows)])

\* Rows are shared by tables but not by nodes: every row of every table is where
\* exactly one id leads (convert_subtrie, ttrie.c:1491-1548).
RowsOnce ==
  InTables =>
    /\ ToSet(Pointers) = AllIds(tt)
    /\ Len(Pointers) = Cardinality(ToSet(Pointers))

\* "If a table fills we make a new one and point to it" (ttrie.c:384): a name has a
\* second table only when the first is full, if the index can find the name.
NewTableWhenFull ==
  \A i, j \in DOMAIN tt.choice :
    i < j /\ tt.choice[i].name = tt.choice[j].name /\ MissedNames(tt.choice[i].name) = {TRUE} =>
      Len(tt.choice[i].rows) = MaxDepth

Busy == /\ call \in {"add", "added", "next", "close"} \/ state = "DIRTY" \/ upto # NoKeyAt
        /\ call # "crashed"

\* Every call that is begun returns, unless the program dies in it, and a table that
\* is being optimised becomes one that can be read.
TCallsReturn ==
  Busy ~> ~Busy

(***************************************************************************)
(* The map it implements                                                   *)
(***************************************************************************)

\* The keys below an id, with what is stored with each.
Entries(t) ==
  LET under[place \in Seq(0 .. Byte - 1) \X AllIds(t)] ==
        LET key  == place[1]
            id   == place[2]
            row  == RowAt(t, id)
            type == id.table_type
            here(k) == {[key |-> k, result |-> row.result]} IN
        CASE type = "term"   -> here(key)
          [] type = "suffix" -> here(key \o row.suffix)
          [] type = "pass"   -> here(key) \cup under[<<key, row.id>>]
          [] type = "infix"  -> under[<<key \o row.infix, row.id>>]
          [] OTHER -> (* "choice" *)
               UNION {under[<<Append(key, t.choice[id.table_i + 1].name[i]), row[i]>>] : i \in DOMAIN row}
  IN under[<<<<>>, t.root_id>>]

AsMap(entries) ==
  [k \in {e.key : e \in entries} |-> (CHOOSE e \in entries : e.key = k).result]

\* A closed table holds what was written.
TStored ==
  CASE Root \notin DOMAIN ids -> Stored
    [] InTables               -> AsMap(Entries(tt))
    [] state = "CLOSED"       -> AsMap(Entries(written))

TMap == INSTANCE KeyMap WITH map <- TStored, last <- given, answer <- answer

\* The key table is one map through all its forms: the radix trie, the tables, the
\* file, and the tables of a reader; its keys come in the order of their bytes, and
\* kds__get_key_i gives the i-th of an optimised table. Of one that is still written
\* it gives none, a fault of the code that the map states as it is (CountedKey).
TMapSpec == TMap!Spec

\* An optimised table holds the stream of each of its keys, once each, and finds
\* all but the empty key, those with the sign bit too.
ConvertedExact ==
  state \in {"CONVERTED", "READ"} =>
    /\ TStored = [k \in DOMAIN TStored |-> [of |-> "cpref", key |-> k]]
    /\ Cardinality(Entries(tt)) = tt.len
    /\ answer # None /\ answer.op = "get" /\ answer.key # <<>> =>
         answer.result = IF answer.key \in DOMAIN TStored THEN TStored[answer.key] ELSE None

=============================================================================
