-------------------------------- MODULE Rtrie -------------------------------
(***************************************************************************)
(* The radix trie a key table collects its keys in                         *)
(* (src/src/pulp_db/kds/rtrie.c).  A node is named for the letters that    *)
(* lead to it; which nodes are its children is what its arrays say.  One   *)
(* turn of the loop of rtrie__add, and one call of walk_nodes, is a step.  *)
(* An operator X_<fault> is a faulty variant of X.                         *)
(***************************************************************************)
EXTENDS Integers, Sequences, SequencesExt

CONSTANTS
  ByteBits,      (* the width of unsigned char: 8 in the program            *)
  Keys,          (* the keys that are added and asked for                   *)
  MaxKeys,       (* bound: keys added                                       *)
  None

Byte == 2 ^ ByteBits
Half == Byte \div 2

ASSUME ByteBitsAssumption == ByteBits \in Nat \ {0}
\* Longer keys do not fit the 256 bytes kds reads them back into (kds.c:369).
ASSUME KeysAssumption     == \A k \in Keys : k \in Seq(0 .. Byte - 1) /\ Len(k) < Byte
ASSUME MaxKeysAssumption  == MaxKeys \in Nat

VARIABLES
  nodes,         (* the nodes in memory                                     *)
  len,           (* t->len                                                  *)
  stack, side,   (* t->stack; an empty one is "L" before or "R" after the data *)
  call,          (* what is being called: "none" and "between" keys of an iteration
                    if nothing, "closed" and "crashed" if nothing can be    *)
  adding,        (* key, letter_index and n of rtrie__add                   *)
  given,         (* the key the iteration gave last                         *)
  answer         (* what the last call gave                                 *)

walked == <<stack, side>>
vars   == <<nodes, len, walked, call, adding, given, answer>>

Root      == <<>>
NotAdding == [key |-> None]

\* rtrie__init_node. No suffix is the empty suffix; result 0 is None.
NewNode == [keys |-> <<>>, children |-> <<>>, suffix |-> <<>>, suffix_len |-> 0,
            has_value |-> FALSE, result |-> None]

HasSuffix(n)   == nodes[n].suffix # <<>>
HasChildren(n) == nodes[n].children # <<>>
Suffix(n)      == SubSeq(nodes[n].suffix, 1, nodes[n].suffix_len)

Init ==
  /\ nodes = [n \in {Root} |-> NewNode] /\ len = 0
  /\ stack = <<>> /\ side = "L"
  /\ call = "none" /\ adding = NotAdding /\ given = None /\ answer = None

(***************************************************************************)
(* Children                                                                *)
(***************************************************************************)

\* bisect_children: where the letter is, or is to be placed. p is low when the
\* loop ends.
Bisect(n, letter) ==
  LET keys == nodes[n].keys
      search[range \in Nat \X Int] ==
        LET low  == range[1]
            high == range[2]
            p    == (low + high) \div 2 IN
        IF low > high THEN low
        ELSE IF letter = keys[p + 1] THEN p
        ELSE search[IF letter > keys[p + 1] THEN <<p + 1, high>> ELSE <<low, p - 1>>]
  IN search[<<0, Len(keys) - 1>>]

\* Both arrays are moved up from the position.
Placed_KeysOnly(children, position, child) == Append(children, child)
Placed(children, position, child) == InsertAt(children, position + 1, child)

WithChild(ns, n, letter, position) ==
  LET child == Append(n, letter) IN
  [m \in DOMAIN ns \cup {child} |->
     CASE m = child -> NewNode
       [] m = n -> [ns[n] EXCEPT !.keys = InsertAt(@, position + 1, letter),
                                 !.children = Placed(@, position, child)]
       [] OTHER -> ns[m]]

\* The arrays double at a power of two, to a new_size that is an unsigned char:
\* at 0 they are freed, and then written. A node with a child for every letter
\* has no room either.
NoRoom(n) ==
  LET size == Len(nodes[n].children) IN
  \/ size = Byte
  \/ \E e \in 0 .. ByteBits : size = 2 ^ e /\ (2 * size) % Byte = 0

\* breakout_suffix: the suffix moves below its first letter, and what is stored
\* with the node goes with it.
Moved_Left(n) == [NewNode EXCEPT !.suffix = Tail(Suffix(n)), !.suffix_len = nodes[n].suffix_len - 1]
Moved(n) ==
  [NewNode EXCEPT !.suffix = Tail(Suffix(n)), !.suffix_len = nodes[n].suffix_len - 1,
                  !.has_value = nodes[n].has_value, !.result = nodes[n].result]

BrokenOut_SuffixStays(n) ==
  LET letter  == Head(nodes[n].suffix)
      emptied == [nodes EXCEPT ![n].has_value = FALSE, ![n].result = None] IN
  [WithChild(emptied, n, letter, 0) EXCEPT ![Append(n, letter)] = Moved(n)]
BrokenOut(n) ==
  LET letter  == Head(nodes[n].suffix)
      emptied == [nodes EXCEPT ![n] = NewNode] IN
  [WithChild(emptied, n, letter, 0) EXCEPT ![Append(n, letter)] = Moved(n)]

(***************************************************************************)
(* rtrie__add                                                              *)
(***************************************************************************)

Idle == call \in {"none", "between"}

\* An iteration is not resumed after a key was added (kds.c:431).
StartAdd(k) ==
  /\ call = "none" /\ call' = "add"
  /\ len < MaxKeys
  /\ adding' = [key |-> k, at |-> 0, node |-> Root]
  /\ answer' = None
  /\ UNCHANGED <<nodes, len, walked, given>>

n1     == adding.node
Letter == adding.key[adding.at + 1]
Rest   == SubSeq(adding.key, adding.at + 1, Len(adding.key))

InLoop == call = "add" /\ adding.at < Len(adding.key)
Leave  == call' = "added" /\ UNCHANGED adding
Go(child) == adding' = [adding EXCEPT !.at = @ + 1, !.node = child] /\ UNCHANGED call

NewChild(position) ==
  IF NoRoom(n1)
    THEN call' = "crashed" /\ UNCHANGED <<nodes, adding>>
    ELSE /\ nodes' = WithChild(nodes, n1, Letter, position)
         /\ Go(Append(n1, Letter))

\* The first key below an empty node is kept whole.
KeepSuffix ==
  /\ InLoop /\ ~HasSuffix(n1) /\ ~HasChildren(n1) /\ ~nodes[n1].has_value
  /\ nodes' = [nodes EXCEPT ![n1].suffix = Rest, ![n1].suffix_len = Len(Rest) % Byte]
  /\ Leave
  /\ UNCHANGED <<len, walked, given, answer>>

BelowValue ==
  /\ InLoop /\ ~HasSuffix(n1) /\ ~HasChildren(n1) /\ nodes[n1].has_value
  /\ NewChild(0)
  /\ UNCHANGED <<len, walked, given, answer>>

SameSuffix ==
  /\ InLoop /\ HasSuffix(n1) /\ Suffix(n1) = Rest
  /\ Leave
  /\ UNCHANGED <<nodes, len, walked, given, answer>>

OtherSuffix ==
  /\ InLoop /\ HasSuffix(n1) /\ Suffix(n1) # Rest
  /\ nodes' = BrokenOut(n1)
  /\ UNCHANGED <<len, walked, call, adding, given, answer>>

ChildFor ==
  LET position == Bisect(n1, Letter)
      node     == nodes[n1] IN
  /\ InLoop /\ HasChildren(n1)
  /\ IF position < Len(node.keys) /\ node.keys[position + 1] = Letter
       THEN Go(node.children[position + 1]) /\ UNCHANGED nodes
       ELSE NewChild(position)
  /\ UNCHANGED <<len, walked, given, answer>>

\* A key that ends where another's suffix begins takes the node for its own.
SplitAtEnd(n) == HasSuffix(n)

LettersEnd ==
  /\ call = "add" /\ adding.at = Len(adding.key)
  /\ nodes' = IF SplitAtEnd(n1) THEN BrokenOut(n1) ELSE nodes
  /\ Leave
  /\ UNCHANGED <<len, walked, given, answer>>

\* The end of rtrie__add, and kds__append, which stores the number of a new buffer
\* with a new key. The number is told by the key and by what it numbers.
Buffer(k) == [of |-> "dpref", key |-> k]

FinishAdd ==
  LET isNew == ~nodes[n1].has_value IN
  /\ call = "added" /\ call' = "none"
  /\ IF isNew
       THEN /\ nodes' = [nodes EXCEPT ![n1].has_value = TRUE, ![n1].result = Buffer(adding.key)]
            /\ len' = len + 1
       ELSE UNCHANGED <<nodes, len>>
  /\ answer' = [op |-> "add", key |-> adding.key, new |-> isNew, result |-> nodes'[n1].result]
  /\ adding' = NotAdding
  /\ UNCHANGED <<walked, given>>

(***************************************************************************)
(* rtrie__get                                                              *)
(***************************************************************************)

\* What a char with these bits is.
Signed(letter) == IF letter >= Half THEN letter - Byte ELSE letter

\* The node rtrie__get returns, or nothing. The empty key is never found.
Lookup(k) ==
  LET walk[at \in Nat, n \in DOMAIN nodes] ==
        LET node     == nodes[n]
            position == Bisect(n, k[at + 1]) IN
        CASE at = Len(k) ->
               IF at > 0 /\ node.has_value /\ ~HasSuffix(n) THEN {n} ELSE {}
          [] at < Len(k) /\ HasSuffix(n) ->
               IF Suffix(n) = SubSeq(k, at + 1, Len(k)) THEN {n} ELSE {}
          [] at < Len(k) /\ ~HasSuffix(n) ->
               IF position < Len(node.keys) /\ node.keys[position + 1] = Signed(k[at + 1])
                 THEN walk[at + 1, node.children[position + 1]]
                 ELSE {}
  IN walk[0, Root]

\* Nothing is asked for between the keys of an iteration (kds.c:434).
Get(k) ==
  /\ call = "none"
  /\ answer' = [op |-> "get", key |-> k,
                result |-> IF Lookup(k) = {} THEN None ELSE nodes[CHOOSE n \in Lookup(k) : TRUE].result]
  /\ UNCHANGED <<nodes, len, walked, call, adding, given>>

(***************************************************************************)
(* Iteration and close                                                     *)
(***************************************************************************)

Frame(n) == [stack_child_index |-> -1, node |-> n]
Top      == Last(stack)

\* rtrie__iter, also in the middle of an iteration.
Iter ==
  /\ Idle /\ call' = "between"
  /\ stack' = <<>> /\ side' = "L"
  /\ given' = None /\ answer' = None
  /\ UNCHANGED <<nodes, len, adding>>

StartNext ==
  /\ call = "between" /\ call' = "next"
  /\ answer' = None
  /\ UNCHANGED <<nodes, len, walked, adding, given>>

StartClose ==
  /\ Idle /\ call' = "close"
  /\ stack' = <<>> /\ side' = "L"
  /\ given' = None /\ answer' = None
  /\ UNCHANGED <<nodes, len, adding>>

\* rtrie__fullkey of the node just entered. At a node with a value and children it
\* looks at the memory before the children, where it finds no suffix.
FullKey(st) ==
  [i \in 1 .. Len(st) - 1 |-> nodes[st[i].node].keys[st[i].stack_child_index + 1]]
    \o Suffix(Last(st).node)

Walking   == call \in {"next", "close"}
MoreBelow == HasChildren(Top.node) /\ Len(nodes[Top.node].children) - 1 > Top.stack_child_index

\* walk_nodes enters a node; rtrie__next returns if it has a value.
Enter ==
  /\ Walking
  /\ \/ /\ stack = <<>> /\ side = "L"
        /\ stack' = <<Frame(Root)>>
     \/ /\ stack # <<>> /\ MoreBelow
        /\ LET i == Top.stack_child_index + 1 IN
           stack' = Append([stack EXCEPT ![Len(stack)].stack_child_index = i],
                           Frame(nodes[Top.node].children[i + 1]))
  /\ LET n == Last(stack').node IN
     IF call = "next" /\ nodes[n].has_value
       THEN /\ given' = FullKey(stack') /\ call' = "between"
            /\ answer' = [op |-> "next", key |-> given', result |-> nodes[n].result]
       ELSE UNCHANGED <<given, call, answer>>
  /\ UNCHANGED <<nodes, len, side, adding>>

\* pop_stack_frame: the plain decrement would go from 0 to -1, which is "L".
AfterPop_Decrement == "L"
AfterPop == IF Len(stack) = 1 THEN "R" ELSE side

\* walk_nodes leaves a node; rtrie__close frees the arrays of its children.
LeaveNode ==
  LET n == Top.node IN
  /\ Walking /\ stack # <<>> /\ ~MoreBelow
  /\ stack' = Front(stack) /\ side' = AfterPop
  /\ nodes' = IF call = "close" /\ HasChildren(n)
                THEN LET kept == DOMAIN nodes \ ToSet(nodes[n].children) IN
                     [m \in kept |-> IF m = n THEN [nodes[n] EXCEPT !.keys = <<>>, !.children = <<>>]
                                              ELSE nodes[m]]
                ELSE nodes
  /\ UNCHANGED <<len, call, adding, given, answer>>

NoMoreKeys ==
  /\ call = "next" /\ stack = <<>> /\ side = "R"
  /\ call' = "none" /\ answer' = [op |-> "end"]
  /\ UNCHANGED <<nodes, len, walked, adding, given>>

FinishClose ==
  /\ call = "close" /\ stack = <<>> /\ side = "R"
  /\ call' = "closed"
  /\ nodes' = [n \in DOMAIN nodes \ {Root} |-> nodes[n]]
  /\ UNCHANGED <<len, walked, adding, given, answer>>

(***************************************************************************)
(* The specification                                                       *)
(***************************************************************************)

Calls == \E k \in Keys : StartAdd(k) \/ Get(k)

Steps ==
  \/ KeepSuffix \/ BelowValue \/ SameSuffix \/ OtherSuffix \/ ChildFor
  \/ LettersEnd \/ FinishAdd
  \/ Enter \/ LeaveNode \/ NoMoreKeys \/ FinishClose

Next == Calls \/ Iter \/ StartNext \/ StartClose \/ Steps

\* A call once begun runs to its end.
Spec == Init /\ [][Next]_vars /\ WF_vars(Steps)

(***************************************************************************)
(* Properties                                                              *)
(***************************************************************************)

InMemory == DOMAIN nodes

\* Types; the stack holds only nodes whose memory was not freed, also while the
\* trie is being closed, and each was entered through the one below it.
TypeOK ==
  /\ call \in {"none", "add", "added", "between", "next", "close", "closed", "crashed"}
  /\ side \in {"L", "R"} /\ len \in 0 .. MaxKeys
  /\ \A n \in InMemory :
       /\ nodes[n] \in [keys : Seq(0 .. Byte - 1), children : Seq(InMemory), suffix : Seq(0 .. Byte - 1),
                        suffix_len : 0 .. Byte - 1, has_value : BOOLEAN,
                        result : {Buffer(k) : k \in Keys} \cup {None}]
       /\ HasSuffix(n) => ~HasChildren(n)
  /\ adding # NotAdding =>
       adding.key \in Keys /\ adding.at \in 0 .. Len(adding.key) /\ adding.node \in InMemory
  /\ given \in Keys \cup {None}
  /\ \A i \in DOMAIN stack :
       /\ stack[i].node \in InMemory
       /\ i < Len(stack) =>
            stack[i + 1].node = nodes[stack[i].node].children[stack[i].stack_child_index + 1]
  /\ call = "closed" => InMemory = {}

\* Every node but the root is where its letters lead: its parent's children are in
\* the order of their letters, each beside its own (rtrie.c:86-94).
InOrder ==
  call \notin {"close", "closed"} =>
    /\ \A n \in InMemory :
         LET keys == nodes[n].keys IN
         /\ \A i \in 1 .. Len(keys) - 1 : keys[i] < keys[i + 1]
         /\ nodes[n].children = [i \in DOMAIN keys |-> Append(n, keys[i])]
    /\ \A n \in InMemory \ {Root} : n \in ToSet(nodes[Front(n)].children)

\* Between calls the trie of one key or more can be converted: a node without
\* children has a value (ttrie.c:1512 exits otherwise), and one with a suffix too
\* (asserted at ttrie.c:1439).
Convertible ==
  Idle /\ len > 0 =>
    /\ \A n \in InMemory : ~HasChildren(n) => nodes[n].has_value
    /\ Cardinality({n \in InMemory : nodes[n].has_value}) = len

\* Every call that is begun returns, unless the program dies in it.
CallsReturn == call \in {"add", "added", "next", "close"} ~> call \in {"none", "between", "closed", "crashed"}

(***************************************************************************)
(* The map it implements                                                   *)
(***************************************************************************)

Open   == call \notin {"close", "closed"}
Valued == {n \in InMemory : Open /\ nodes[n].has_value}
KeyOf(n) == n \o Suffix(n)
Stored == [k \in {KeyOf(n) : n \in Valued} |-> nodes[CHOOSE n \in Valued : KeyOf(n) = k].result]

\* rtrie__get compares signed with unsigned, and leaves found unset for no letters.
Doubtful == {k \in Keys : k = <<>> \/ \E i \in DOMAIN k : k[i] >= Half}

Map == INSTANCE KeyMap WITH map <- Stored, last <- given, answer <- answer

\* The trie is a map from keys to what was stored with them, and gives each key
\* once, in the order of their bytes.
MapSpec == Map!Spec

\* rtrie.h:97 of rtrie__get: "result is set if it is there else None."
ResultIfThere ==
  answer # None /\ answer.op = "get" =>
    answer.result = IF answer.key \in DOMAIN Stored THEN Stored[answer.key] ELSE None

=============================================================================
