-------------------------------- MODULE PulpDb ------------------------------
(***************************************************************************)
(* A database (src/src/pulp_db/pulp_db.py): the master store and a key     *)
(* table (kds_pyapi.py, kds.c) per index field, written once by one        *)
(* process, which may be killed at any step, and then read by another.     *)
(*                                                                         *)
(* The parts are taken for what their own modules show: the master keeps   *)
(* whole clumps of messages until it is closed (MessageLog), a table of    *)
(* keys is a map in the order of its keys (KeyMap), a buffer gives back    *)
(* the references appended to it (Dpref.GetiExact), and so does a stream   *)
(* (RefStream).  What is modelled here is what holds them together.        *)
(*                                                                         *)
(* An operator X_<fault> is a faulty variant of X.                         *)
(***************************************************************************)
EXTENDS Integers, FiniteSets, SequencesExt

CONSTANTS
  Fields,        (* the index fields                                        *)
  Tokens,        (* values a message may be filed under, in their order     *)
  Unfit,         (* a value that is not bytes: KeyTable.append asserts      *)
  Messages,      (* a size, and the values for some of the fields           *)
  MaxMsgs,       (* bound: appended messages                                *)
  MaxTables,     (* bound: KeyTable objects of a writer                     *)
  Clump,         (* MAX_MSG_IN_CLUMP                                        *)
  Chunk,         (* references convert_dpref_to_cpref hands over at a time  *)
  None,
  Begun          (* what is in a file that was made and not written         *)

ASSUME TokensAssumption == Tokens \subseteq Nat /\ Unfit \notin Tokens
ASSUME MessagesAssumption ==
  \A m \in Messages : /\ m.size \in Nat /\ DOMAIN m.index \subseteq Fields
                      /\ \A f \in DOMAIN m.index : m.index[f] \in Seq(Tokens \cup {Unfit})
ASSUME BoundsAssumption == Clump \in Nat \ {0} /\ Chunk \in Nat \ {0}
\* None is no field and no table.
ASSUME NoneAssumption == None \notin Fields /\ \A K \in SUBSET Tokens : None \notin [K -> Nat]

VARIABLES
  phase,         (* of the writer: "w", "closing", "flushed", "closed"; or   *)
                 (* "dead": the process exited or was killed               *)
  messages,      (* history: the messages the master was given              *)
  raised,        (* history: the messages whose append raised an exception  *)
  stored,        (* how many messages are in the master's index file        *)
  adding,        (* the fields the append in progress has still to come to  *)
  filing, filed, (* the field it is filing under, and how many of its values *)
  objects,       (* the KeyTables in table_stack, in the order they entered *)
  key_tables,    (* field -> the last KeyTable made for it                  *)
  converting,    (* kds__optimize_write of the last of objects              *)
  disk,          (* field -> its files                                      *)
  reader,        (* "none", "opening", "r", or "exited"                     *)
  opened,        (* field -> the files the reader has mapped                *)
  answer         (* what the reader was last given                          *)

append == <<adding, filing, filed>>
writer == <<phase, messages, raised, stored, append, objects, key_tables, converting, disk>>
reading == <<reader, opened, answer>>
vars == <<writer, reading>>

AtStart == [step |-> "start", left |-> {}, trie |-> [k \in {} |-> None]]
NoFiles == [meta |-> None, dpref |-> None, cpref |-> None, ttrie |-> None]
Nothing == [f \in {} |-> None]

Init ==
  /\ phase = "w" /\ messages = <<>> /\ raised = {} /\ stored = 0
  /\ adding = {} /\ filing = None /\ filed = 0
  /\ objects = <<>> /\ key_tables = Nothing /\ converting = AtStart
  /\ disk = [f \in Fields |-> NoFiles]
  /\ reader = "none" /\ opened = Nothing /\ answer = None

(***************************************************************************)
(* PulpWritter.append                                                      *)
(***************************************************************************)

Whole(n) == (n \div Clump) * Clump

\* mds__append; a clump that is full is flushed.
Append1(m) ==
  /\ phase = "w" /\ adding = {} /\ filing = None /\ Len(messages) < MaxMsgs
  /\ messages' = Append(messages, m)
  /\ stored' = Whole(Len(messages'))
  /\ adding' = DOMAIN m.index
  /\ UNCHANGED <<phase, raised, filing, filed, objects, key_tables, converting, disk, reading>>

Power[e \in Nat] == IF e = 0 THEN 1 ELSE 2 * Power[e - 1]

\* new_dref_buffer: room for twice as many when their number is a power of two
Room_Late(t) == IF t.buffers = <<>> THEN 1 ELSE t.room
Room(t) ==
  LET n == Len(t.buffers) IN
  IF n = 0 THEN 1 ELSE IF \E e \in 0 .. n : n = Power[e] THEN 2 * n ELSE t.room

\* The dpref buffer of a key, 0 for none
BufferOf(t, key) == SelectInSeq(t.buffers, LAMBDA b : b.key = key)

\* kds__append
Filed(t, key, ref) ==
  LET i == BufferOf(t, key) IN
  IF i > 0 THEN [t EXCEPT !.buffers[i].refs = Append(@, ref)]
           ELSE [t EXCEPT !.buffers = Append(@, [key |-> key, refs |-> <<ref>>]),
                          !.room = Room(t)]

NewTable(f) == [field |-> f, buffers |-> <<>>, room |-> 0]

\* A table without a key is as false as no table: `if not table` makes another.
Known(f) == f \in DOMAIN key_tables /\ objects[key_tables[f]].buffers # <<>>

StartField(f) ==
  LET at == Len(objects) + 1 IN
  /\ phase = "w" /\ filing = None /\ f \in adding
  /\ adding' = adding \ {f} /\ filing' = f /\ filed' = 0
  /\ IF Known(f)
       THEN UNCHANGED <<objects, key_tables, disk>>
       ELSE /\ at <= MaxTables
            /\ objects' = Append(objects, NewTable(f))
            /\ key_tables' = [g \in DOMAIN key_tables \cup {f} |-> IF g = f THEN at ELSE key_tables[g]]
            /\ disk' = [disk EXCEPT ![f].meta = Begun, ![f].dpref = Begun]
  /\ UNCHANGED <<phase, messages, raised, stored, converting, reading>>

\* The values of the field, one by one; behind one that raises none is filed, under
\* no field.
Values == messages[Len(messages)].index[filing]

FileValue ==
  LET value == Values[filed + 1] IN
  /\ phase = "w" /\ filing # None /\ filed < Len(Values)
  /\ IF value = Unfit
       THEN /\ adding' = {} /\ filing' = None /\ filed' = 0
            /\ raised' = raised \cup {Len(messages)}
            /\ UNCHANGED objects
       ELSE /\ objects' = [objects EXCEPT ![key_tables[filing]] = Filed(@, value, Len(messages) - 1)]
            /\ filed' = filed + 1
            /\ UNCHANGED <<adding, filing, raised>>
  /\ UNCHANGED <<phase, messages, stored, key_tables, converting, disk, reading>>

FinishField ==
  /\ phase = "w" /\ filing # None /\ filed = Len(Values)
  /\ filing' = None /\ filed' = 0
  /\ UNCHANGED <<phase, messages, raised, stored, adding, objects, key_tables, converting, disk, reading>>

(***************************************************************************)
(* PulpWritter.__exit__                                                    *)
(***************************************************************************)

\* The writer leaves its with block, on an exception too.
Exit ==
  /\ phase = "w" /\ adding = {} /\ filing = None
  /\ phase' = "closing"
  /\ UNCHANGED <<messages, raised, stored, append, objects, key_tables, converting, disk, reading>>

\* The ExitStack closes first what entered last.
Closed == Len(objects)
Closing(step) == phase = "closing" /\ objects # <<>> /\ converting.step = step
Table == objects[Closed]
Files == disk[Table.field]

Total(t) == FoldSeq(LAMBDA b, n : n + Len(b.refs), 0, t.buffers)

StartOptimize ==
  /\ Closing("start")
  /\ disk' = [disk EXCEPT ![Table.field].meta =
                [messages |-> Total(Table), keys |-> Len(Table.buffers)]]
  /\ converting' = [step |-> "trie", left |-> {}, trie |-> Nothing]
  /\ UNCHANGED <<phase, messages, raised, stored, append, objects, key_tables, reading>>

Die ==
  /\ phase' = "dead"
  /\ UNCHANGED <<messages, raised, stored, append, objects, key_tables, converting, disk, reading>>

Keys(t) == {b.key : b \in ToSet(t.buffers)}

\* ttrie__convert exits for a table without a key.
ConvertTrie ==
  /\ Closing("trie")
  /\ IF Table.buffers = <<>> THEN Die
     ELSE /\ converting' = [step |-> "flush", left |-> Keys(Table),
                            trie |-> [k \in Keys(Table) |-> BufferOf(Table, k)]]
          /\ UNCHANGED <<phase, messages, raised, stored, append, objects, key_tables, disk, reading>>

\* The buffers are flushed to the dpref file, which is opened to be read.
FlushBuffers ==
  /\ Closing("flush")
  /\ disk' = [disk EXCEPT ![Table.field].dpref = [i \in DOMAIN Table.buffers |-> Table.buffers[i].refs],
                          ![Table.field].cpref = <<>>]
  /\ converting' = [converting EXCEPT !.step = "next"]
  /\ UNCHANGED <<phase, messages, raised, stored, append, objects, key_tables, reading>>

\* ttrie__next_node and cpref__setup_write_stream, for the next of the keys in their order
NextKey == Min(converting.left)

StartStream ==
  /\ Closing("next") /\ converting.left # {}
  /\ disk' = [disk EXCEPT ![Table.field].cpref = Append(@, <<>>)]
  /\ converting' = [converting EXCEPT !.step = "copy"]
  /\ UNCHANGED <<phase, messages, raised, stored, append, objects, key_tables, reading>>

\* convert_dpref_to_cpref hands over the references when the array is full, and
\* what is left at the end.
HandedOver_FullOnly(refs, done) ==
  IF done + Chunk <= Len(refs) THEN SubSeq(refs, done + 1, done + Chunk) ELSE <<>>
HandedOver(refs, done) ==
  SubSeq(refs, done + 1, IF done + Chunk < Len(refs) THEN done + Chunk ELSE Len(refs))

CopyDone_Exact(refs, done) == done + Chunk = Len(refs)
CopyDone(refs, done) == done + Chunk >= Len(refs)

CopyChunk ==
  LET key  == NextKey
      refs == Files.dpref[converting.trie[key]]
      done == Len(Last(Files.cpref))
      more == HandedOver(refs, done)
  IN /\ Closing("copy")
     /\ disk' = [disk EXCEPT ![Table.field].cpref[Len(Files.cpref)] = @ \o more]
     /\ converting' = IF ~CopyDone(refs, done) THEN converting
                      ELSE [step |-> "next", left |-> converting.left \ {key},
                            trie |-> [converting.trie EXCEPT ![key] = Len(Files.cpref)]]
     /\ UNCHANGED <<phase, messages, raised, stored, append, objects, key_tables, reading>>

\* The dpref file is removed, and ttrie__write begun.
StartTtrie ==
  /\ Closing("next") /\ converting.left = {}
  /\ disk' = [disk EXCEPT ![Table.field].dpref = None, ![Table.field].ttrie = Begun]
  /\ converting' = [converting EXCEPT !.step = "write"]
  /\ UNCHANGED <<phase, messages, raised, stored, append, objects, key_tables, reading>>

FinishTtrie ==
  /\ Closing("write")
  /\ disk' = [disk EXCEPT ![Table.field].ttrie = converting.trie]
  /\ converting' = AtStart
  /\ objects' = RemoveAt(objects, Closed)
  /\ UNCHANGED <<phase, messages, raised, stored, append, key_tables, reading>>

\* MasterTable.__exit__, the last: the part clump is flushed, the files are cut.
AfterFinalFlush_Skipped == stored
AfterFinalFlush == Len(messages)

FlushMaster ==
  /\ phase = "closing" /\ objects = <<>>
  /\ phase' = "flushed" /\ stored' = AfterFinalFlush
  /\ UNCHANGED <<messages, raised, append, objects, key_tables, converting, disk, reading>>

\* Both truncations of mds__teardown: Mds has what a kill between them leaves.
CutMaster ==
  /\ phase = "flushed" /\ phase' = "closed"
  /\ UNCHANGED <<messages, raised, stored, append, objects, key_tables, converting, disk, reading>>

\* The process is killed; what it stored in mapped files stays.
Kill == phase \in {"w", "closing", "flushed"} /\ Die

(***************************************************************************)
(* PulpReader                                                              *)
(***************************************************************************)

\* mds__setup maps the two files, and a file of no bytes cannot be mapped. Only
\* mmbuf__teardown cuts a file to what was written.
OpenMaster ==
  /\ phase \in {"closed", "dead"} /\ reader = "none"
  /\ reader' = IF phase = "closed" /\ \A i \in DOMAIN messages : messages[i].size = 0
                 THEN "exited" ELSE "opening"
  /\ opened' = Nothing
  /\ UNCHANGED <<writer, answer>>

\* Every field that has a .meta file
Found_Named == Fields
Found == {f \in Fields : disk[f].meta # None}

\* kds__open, in the order of os.listdir: without a .ttrie file it exits.
OpenTable(f) ==
  /\ reader = "opening" /\ f \in Found \ DOMAIN opened
  /\ IF disk[f].ttrie = None
       THEN reader' = "exited" /\ UNCHANGED opened
       ELSE /\ opened' = [g \in DOMAIN opened \cup {f} |-> IF g = f THEN disk[f] ELSE opened[g]]
            /\ UNCHANGED reader
  /\ UNCHANGED <<writer, answer>>

ReaderOpen ==
  /\ reader = "opening" /\ DOMAIN opened = Found
  /\ reader' = "r"
  /\ UNCHANGED <<writer, opened, answer>>

\* kds__lookup and the stream it sets up. From a table whose writer was killed in
\* ttrie__write any stream may come.
Streams(files, key) ==
  IF files.ttrie = Begun THEN ToSet(files.cpref) \cup {<<>>}
  ELSE {IF key \in DOMAIN files.ttrie THEN files.cpref[files.ttrie[key]] ELSE <<>>}

Lookup(f, key) ==
  /\ reader = "r" /\ f \in DOMAIN opened
  /\ \E refs \in Streams(opened[f], key) :
       answer' = [op |-> "lookup", field |-> f, key |-> key, refs |-> refs]
  /\ UNCHANGED <<writer, reader, opened>>

\* mds__get: a clump is read up to its first size of 0.
Packed(i) == \A j \in 1 + Whole(i) .. 1 + i : messages[j].size > 0
Read(i) == IF i < stored /\ Packed(i) THEN messages[i + 1] ELSE None

\* Msg.msg, of a message the lookup gave
Fetch ==
  /\ reader = "r" /\ answer # None /\ answer.op = "lookup"
  /\ \E ref \in ToSet(answer.refs) : answer' = [op |-> "msg", ref |-> ref, message |-> Read(ref)]
  /\ UNCHANGED <<writer, reader, opened>>

CloseReader ==
  /\ reader = "r" /\ reader' = "none" /\ opened' = Nothing /\ answer' = None
  /\ UNCHANGED writer

(***************************************************************************)
(* The specification                                                       *)
(***************************************************************************)

ClosingSteps ==
  \/ StartOptimize \/ ConvertTrie \/ FlushBuffers \/ StartStream \/ CopyChunk
  \/ StartTtrie \/ FinishTtrie \/ FlushMaster \/ CutMaster

Next ==
  \/ \E m \in Messages : Append1(m)
  \/ \E f \in Fields : StartField(f)
  \/ FileValue \/ FinishField \/ Exit \/ ClosingSteps \/ Kill
  \/ OpenMaster \/ ReaderOpen \/ Fetch \/ CloseReader
  \/ \E f \in Fields : OpenTable(f)
  \/ \E f \in Fields, k \in Tokens : Lookup(f, k)

\* Closing, once begun, runs to its end.
Spec == Init /\ [][Next]_vars /\ WF_vars(ClosingSteps)

(***************************************************************************)
(* Properties                                                              *)
(***************************************************************************)

\* Types; a buffer is never written behind the room for the buffers.
TypeOK ==
  /\ phase \in {"w", "closing", "flushed", "closed", "dead"}
  /\ messages \in Seq(Messages) /\ raised \subseteq DOMAIN messages
  /\ stored \in 0 .. Len(messages)
  /\ adding \subseteq Fields /\ filing \in Fields \cup {None} /\ filed \in Nat
  /\ \A t \in ToSet(objects) :
       /\ t.field \in Fields /\ Len(t.buffers) <= t.room
       /\ \A b \in ToSet(t.buffers) : b.key \in Tokens /\ b.refs # <<>>
  /\ \A f \in DOMAIN key_tables : key_tables[f] \in Nat
  /\ reader \in {"none", "opening", "r", "exited"}

\* How often message i asks to be filed under a value of a field.
Asked(i, f, key) ==
  IF f \in DOMAIN messages[i].index
    THEN Cardinality({j \in DOMAIN messages[i].index[f] : messages[i].index[f][j] = key}) ELSE 0
Given(refs, i) == Cardinality({j \in DOMAIN refs : refs[j] = i - 1})

\* A value leads to the messages filed under it, in their order and as often as
\* each was filed, whatever became of the writer and of the other tables; only a
\* message whose append raised may be missing (pulp_db.py:82-99, kds.c:74-115).
IndexExact ==
  answer # None /\ answer.op = "lookup" /\ opened[answer.field].ttrie # Begun =>
    /\ \A i, j \in DOMAIN answer.refs : i < j => answer.refs[i] <= answer.refs[j]
    /\ \A i \in DOMAIN answer.refs : answer.refs[i] + 1 \in DOMAIN messages
    /\ \A i \in DOMAIN messages :
         LET n == Given(answer.refs, i) IN
         \/ n = Asked(i, answer.field, answer.key)
         \/ i \in raised /\ n < Asked(i, answer.field, answer.key)

\* A reference leads to its message, or to nothing: when a clump does not pack, or
\* when the writer died, and then it is one of the messages of the last clump
\* (pulp_db.py:71).
RefsLead ==
  answer # None /\ answer.op = "msg" =>
    \/ answer.message = messages[answer.ref + 1]
    \/ answer.message = None /\ ~Packed(answer.ref)
    \/ answer.message = None /\ phase = "dead" /\ Len(messages) - answer.ref < Clump

\* A database that was closed opens, unless its messages are all empty: every
\* table that left a .meta file has left the others (pulp_db.py:146).
OpensOnceClosed ==
  phase = "closed" /\ (\E i \in DOMAIN messages : messages[i].size > 0) => reader # "exited"

\* Closing ends, in the process' exit if not in a closed database.
ClosingEnds == phase \in {"closing", "flushed"} ~> phase \in {"closed", "dead"}

=============================================================================
