------------------------------- MODULE HashTrie -------------------------------
(***************************************************************************)
(* The shape of a trie and its Merkle hashes, as functions of its content. *)
(*                                                                         *)
(* A content is a function from a finite set of keys to values; a key is a *)
(* sequence of symbols (numbers).  The trie of a set of keys is unique: a  *)
(* leaf for every key and a trie node wherever two keys part.  A node is   *)
(* named by its type and its full path: the path of a trie node is the     *)
(* prefix its keys share (the compressed bytes of its ancestors and its    *)
(* own), the path of a leaf is the key.  A key that ends where a trie node *)
(* sits hangs on the node's NONE branch.                                   *)
(*                                                                         *)
(* Blake3 is without collisions: the hash of a node is what it hashes.     *)
(* Values are sequences of symbols too, because a leaf hashes its key and  *)
(* its value one after the other.                                          *)
(***************************************************************************)
EXTENDS Naturals, Sequences, FiniteSets, SequencesExt, FiniteSetsExt

LeafNode(k) == [type |-> "LEAF", path |-> k]
TrieNode(p) == [type |-> "TRIE", path |-> p]

Under(K, p) == {k \in K : IsPrefix(p, k)}

(* The top node of the trie of the keys K, K # {}. *)
Top(K) == IF Cardinality(K) = 1 THEN LeafNode(CHOOSE k \in K : TRUE)
          ELSE TrieNode(LongestCommonPrefix(K))

Nodes(K) ==
    {LeafNode(k) : k \in K} \cup
    {TrieNode(LongestCommonPrefix({pair[1], pair[2]})) :
        pair \in {q \in K \X K : q[1] # q[2]}}

(* The keys below each branch of the trie node at p: NONE and one for every *)
(* symbol that follows p.                                                   *)
Branches(K, p) ==
    {{k} : k \in K \cap {p}} \cup
    {Under(K, Append(p, c)) : c \in {k[Len(p) + 1] : k \in Under(K, p) \ {p}}}

Children(K, p) == {Top(B) : B \in Branches(K, p)}

Above(a, n) == a.type = "TRIE" /\ a # n /\ IsPrefix(a.path, n.path)

Precedes(s, t) ==
    \/ IsStrictPrefix(s, t)
    \/ \E i \in 1 .. Len(s) :
        i <= Len(t) /\ s[i] < t[i] /\ SubSeq(s, 1, i - 1) = SubSeq(t, 1, i - 1)

(* The orders in which a depth first walk enters and leaves nodes; branches *)
(* are visited in the order of their symbols, NONE first.                   *)
Enters(a, b) == Above(a, b) \/ (~Above(b, a) /\ Precedes(a.path, b.path))
Leaves(a, b) == Above(b, a) \/ (~Above(a, b) /\ Precedes(a.path, b.path))

Ordered(S, Before(_, _)) ==
    [i \in 1 .. Cardinality(S) |->
        CHOOSE n \in S : Cardinality({m \in S : Before(m, n)}) = i - 1]

(* The path of the trie node a node hangs on; << >> for the top node, whose *)
(* compressed bytes are its whole path.                                     *)
ParentPath(K, n) ==
    LET above == {a \in Nodes(K) : Above(a, n)}
    IN IF above = {} THEN << >>
       ELSE (CHOOSE a \in above : \A b \in above : Len(b.path) <= Len(a.path)).path

(* create_leaf_hash() hashes the key followed by the value,                 *)
(* compute_trie_hash() the compressed bytes of the node and the hashes of   *)
(* its children, here the content below it.                                 *)
HashOf(m, n) ==
    IF n.type = "LEAF" THEN n.path \o m[n.path]
    ELSE [compressed |-> Len(n.path) - Len(ParentPath(DOMAIN m, n)),
          content |-> [k \in Under(DOMAIN m, n.path) |-> m[k]]]

(* The path a hash leaf stands at: the symbol of its branch is all it keeps *)
(* of its own part of the key, and nothing on a NONE branch.                *)
BranchPath(K, k) ==
    LET p == ParentPath(K, LeafNode(k))
    IN IF Len(k) > Len(p) THEN SubSeq(k, 1, Len(p) + 1) ELSE k

(* The leaves _HashLookup::find(k, LEAF) can end on: the branch leads       *)
(* there, or the leaf is all the trie has, and what the leaf lacks of the   *)
(* key is not compared.                                                     *)
LandsOn(K, k) ==
    {l \in K : \/ Cardinality(K) = 1
              \/ l = k
              \/ /\ Len(l) > Len(ParentPath(K, LeafNode(l)))
                 /\ IsPrefix(BranchPath(K, l), k)}

(* Does the hash trie of the content m have the hash of node n of w at the  *)
(* place where n would be?                                                  *)
HashMatches(m, w, n) ==
    IF n.type = "LEAF"
    THEN \E l \in LandsOn(DOMAIN m, n.path) : HashOf(m, LeafNode(l)) = HashOf(w, n)
    ELSE n \in Nodes(DOMAIN m) /\ HashOf(m, n) = HashOf(w, n)
==============================================================================
