-------------------------------- MODULE MCTrie --------------------------------
(* Instances of Trie for TLC. *)
EXTENDS Trie

(* Three symbols in two groups; a key that is a prefix of others, and one   *)
(* that is longer than a node's text.                                       *)
FewKeys  == {<<1>>, <<1, 1>>, <<1, 2, 2, 2>>, <<3, 1>>}

(* A single leaf, a trie with a text and a big value, and one that shares   *)
(* branches.                                                                *)
Entry(k, v) == [key |-> k, value |-> v, big |-> v = 9]
FewSources == {<<Entry(<<1, 1>>, 8)>>,
               <<Entry(<<1, 2, 1>>, 8), Entry(<<1, 2, 2, 2>>, 9)>>,
               <<Entry(<<1, 1>>, 8), Entry(<<1, 2, 2, 2>>, 8), Entry(<<3, 1>>, 8)>>}
FewRejects == {{}, {<<1, 1>>}}
==============================================================================
