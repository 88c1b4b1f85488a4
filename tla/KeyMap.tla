------------------------------- MODULE KeyMap -------------------------------
(***************************************************************************)
(* What the keys of a table promise: a map from keys to the number stored  *)
(* with each, which is that of a dpref buffer first and later the place of *)
(* a cpref stream, and the keys in the order of their bytes, each once.    *)
(***************************************************************************)
EXTENDS Integers, Sequences, FiniteSets

CONSTANTS
  Keys,      (* the keys that may be stored: sequences of byte values       *)
  Doubtful,  (* the keys that may not be found though they are there        *)
  None

VARIABLES
  map,       (* what is stored                                              *)
  last,      (* the key an iteration gave last, None before the first       *)
  answer     (* what the last call gave                                     *)

vars == <<map, last, answer>>

\* Keys are compared byte by byte; a key comes before those it begins.
Before(a, b) ==
  \/ Len(a) < Len(b) /\ SubSeq(b, 1, Len(a)) = a
  \/ \E i \in DOMAIN a \cap DOMAIN b :
       SubSeq(a, 1, i - 1) = SubSeq(b, 1, i - 1) /\ a[i] < b[i]

Left == {k \in DOMAIN map : last = None \/ Before(last, k)}

Init == map = [k \in {} |-> None] /\ last = None /\ answer = None

Buffer(k) == [of |-> "dpref", key |-> k]
Stream(k) == [of |-> "cpref", key |-> k]

\* A new key is given a buffer of its own.
Add(k) ==
  /\ answer' \in [op : {"add"}, key : {k}, new : BOOLEAN, result : {Buffer(k)}]
  /\ UNCHANGED last
  /\ answer'.new = (k \notin DOMAIN map)
  /\ answer'.result = IF answer'.new THEN Buffer(k) ELSE map[k]
  /\ map' = [j \in DOMAIN map \cup {k} |-> IF j = k THEN answer'.result ELSE map[j]]

Get(k) ==
  /\ answer' \in [op : {"get"}, key : {k}, result : {Buffer(k), Stream(k), None}]
  /\ \/ answer'.result = IF k \in DOMAIN map THEN map[k] ELSE None
     \/ k \in Doubtful /\ answer'.result = None
  /\ UNCHANGED <<map, last>>

Iter == last' = None /\ answer' = None /\ UNCHANGED map

Follows(k) ==
  /\ last' = k /\ answer' \in [op : {"next"}, key : {k}, result : {Buffer(k), Stream(k)}]
  /\ k \in Left /\ \A j \in Left : j = k \/ Before(k, j)
  /\ answer'.result = map[k]

NextKey(k) == Follows(k) /\ UNCHANGED map

\* The buffer of the next key has been converted to a stream.
Convert(k) ==
  /\ Follows(k) /\ map[k] = Buffer(k)
  /\ map' = [map EXCEPT ![k] = Stream(k)]

\* The key with i keys before it, if there is one and it has a stream: a table that is
\* still written gives none, and its iteration is lost to the call.
KeyAt(i) ==
  /\ answer' \in [op : {"key_i"}, i : {i}, keys : SUBSET Keys]
  /\ answer'.keys = {k \in DOMAIN map : map[k] = Stream(k)
                        /\ Cardinality({j \in DOMAIN map : Before(j, k)}) = i}
  /\ last' \in {last, None} /\ UNCHANGED map

NoMoreKeys ==
  /\ answer' = [op |-> "end"]
  /\ Left = {} /\ UNCHANGED <<map, last>>

Close  == last' = None /\ answer' = None /\ map' = [k \in {} |-> None]
Forget == answer' = None /\ UNCHANGED <<last, map>>

Next ==
  \/ Forget \/ Iter \/ Close \/ NoMoreKeys
  \/ \E k \in Keys : Add(k) \/ Get(k) \/ NextKey(k) \/ Convert(k)
  \/ \E i \in 0 .. Cardinality(Keys) : KeyAt(i)

Spec == Init /\ [][Next]_vars

=============================================================================
