-------------------------- MODULE ElasticHashinator --------------------------
(***************************************************************************)
(* The search for the partition of a hash in the token ring                *)
(* (src/include/ElasticHashinator.h): the loop of partitionForToken, one   *)
(* step per iteration.  The ring comes from the server, sorted by token;   *)
(* nothing checks that its first token is below every hash.                *)
(***************************************************************************)
EXTENDS Integers, Sequences

CONSTANTS
  Hash,    \* what a value may hash to
  Ring,    \* token rings that a server may send
  Stray    \* what the memory in front of m_tokens may hold

Token == [hash : Int, partition : Int]
Sorted(ring) == \A i, j \in 1 .. Len(ring) : i < j => ring[i].hash < ring[j].hash

ASSUME RingAssumption ==
  /\ Hash \subseteq Int /\ Stray \subseteq Int
  /\ \A ring \in Ring : ring \in Seq(Token) /\ Sorted(ring)

VARIABLES m_tokens, hash, min, max, search, partition

searchVars == <<m_tokens, hash, min, max, search, partition>>

m_tokenCount == Len(m_tokens)
TokenAt(i) == m_tokens[i + 1]      \* m_tokens[2 * i] and m_tokens[2 * i + 1]

SearchInit == /\ m_tokens = <<>> /\ hash = 0 /\ min = 0 /\ max = -1
              /\ search = "idle" /\ partition = 0

\* hashinate, once the value is hashed.
Hashinate(ring, h) ==
  /\ search # "running" /\ search' = "running"
  /\ m_tokens' = ring /\ hash' = h
  /\ min' = 0 /\ max' = Len(ring) - 1
  /\ UNCHANGED partition

Found(p) == search' = "done" /\ partition' = p /\ UNCHANGED <<min, max>>

mid == (min + max) \div 2

Above == min' = mid + 1 /\ UNCHANGED <<max, search, partition>>

Below == max' = mid - 1 /\ UNCHANGED <<min, search, partition>>

\* Fault: the token after the hash.
NotFound_Next == Found(TokenAt(IF min < m_tokenCount THEN min ELSE 0).partition)

\* The token in front of min; of an empty ring, or below the first token, what
\* lies in front of the array.
NotFound == IF min = 0 THEN \E p \in Stray : Found(p) ELSE Found(TokenAt(min - 1).partition)

PartitionForToken ==
  /\ search = "running"
  /\ \/ min <= max /\ TokenAt(mid).hash < hash /\ Above
     \/ min <= max /\ TokenAt(mid).hash > hash /\ Below
     \/ min <= max /\ TokenAt(mid).hash = hash /\ Found(TokenAt(mid).partition)
     \/ min > max /\ NotFound
  /\ UNCHANGED <<m_tokens, hash>>

SearchNext == (\E ring \in Ring, h \in Hash : Hashinate(ring, h)) \/ PartitionForToken

SearchSpec == SearchInit /\ [][SearchNext]_searchVars

-----------------------------------------------------------------------------
\* The loop invariant: every token in front of min is below the hash, every token
\* behind max above it.
SearchInv ==
  /\ m_tokens \in Seq(Token) /\ Sorted(m_tokens) /\ hash \in Int /\ partition \in Int
  /\ search \in {"idle", "running", "done"}
  /\ min \in 0 .. m_tokenCount /\ max \in -1 .. m_tokenCount - 1 /\ min <= max + 1
  /\ \A i \in 0 .. m_tokenCount - 1 : /\ i < min => TokenAt(i).hash < hash
                                      /\ i > max => TokenAt(i).hash > hash

\* The token at i owns the hash: it is the last one that is not above it.
Owns(i) == /\ TokenAt(i).hash <= hash
           /\ i + 1 < m_tokenCount => hash < TokenAt(i + 1).hash

\* partitionForToken returns the partition of the token that owns the hash, unless
\* no token does: the ring is empty or begins above the hash.
FoundOwner ==
  search = "done" =>
    \/ \E i \in 0 .. m_tokenCount - 1 : Owns(i) /\ partition = TokenAt(i).partition
    \/ \A i \in 0 .. m_tokenCount - 1 : hash < TokenAt(i).hash

\* Every iteration shrinks the range, so that the loop ends.
SearchShrinks ==
  [][search = "running" /\ search' = "running" => max' - min' < max - min]_searchVars
=============================================================================
