-------------------------------- MODULE Merger --------------------------------
(***************************************************************************)
(* util/_merger.hpp: merging a source trie into the trie a cursor works    *)
(* on.  The source is only read; x has its pages and values (x.src) and    *)
(* the keys that the merge policy turns down (x.reject).  key is           *)
(* current_key of the code: all of the key down to and with the text of    *)
(* the source node n, which starts at position pos.                        *)
(*                                                                         *)
(* s.hit collects what went wrong on the way:                              *)
(*   "merge_overwrite"  a link in a page of the snapshot was set in place; *)
(*   "merge_reject"     the policy turned the source down after the node   *)
(*                      of the destination had been freed.                 *)
(***************************************************************************)
EXTENDS TrieCursor

Hit(s, what) == [s EXCEPT !.hit = @ \cup {what}]

(* A trie made by inserting entries one after the other. *)
EmptyTrie ==
    [heap |-> << >>, chunks |-> << >>, root |-> 0, size |-> 0, key |-> << >>, rest |-> << >>,
     stack |-> [i \in 1 .. MaxStack |-> Slot(0)], hit |-> {}]
TrieOf(entries) ==
    FoldLeft(LAMBDA t, e : Reserve(Find(t, e.key), e.value, e.big), EmptyTrie, entries)

(* fill_leaf() with migrate_big_value(): a big value gets a chunk here. *)
FillLeaf(s, x, text, leaf) ==
    IF leaf.big
    THEN AllocNode(AllocBig(s, x.src.chunks[leaf.value].value),
                   [LeafOf(text, FreshName(s.chunks)) EXCEPT !.big = TRUE])
    ELSE AllocNode(s, LeafOf(text, leaf.value))

(* update_offset() for the node of the last transition. *)
Put(s, a, link) ==
    UpdateOffset([s EXCEPT !.stack[s.size].node = a, !.stack[s.size].link = link], s.size, a)
PutNew(s, n, link) == Put(AllocNode(s, n), FreshName(s.heap), link)

-----------------------------------------------------------------------------
(* selective_deep_copy_subtree(): link is 0 when no leaf below a survives. *)

RECURSIVE CopySubtree(_, _, _, _)
CopyLeaf(s, x, n, key) ==
    IF key \o n.text \in x.reject THEN [s |-> s, link |-> 0]
    ELSE [s |-> FillLeaf(s, x, n.text, n), link |-> FreshName(s.heap)]

(* The branches of n that survive: their symbols and new links. *)
KeepCopy(r, c, f) == [s |-> r.s, f |-> IF r.link = 0 THEN f ELSE f @@ (c :> r.link)]
CopyBranches(s, x, n, symbols, key) ==
    FoldLeft(LAMBDA acc, c : KeepCopy(CopySubtree(acc.s, x, n.array[ArrayIndex(n, c)], key), c, acc.f),
             [s |-> s, f |-> << >>], symbols)

CopyTrie(r, text) ==
    IF r.f = << >> THEN [s |-> r.s, link |-> 0]
    ELSE [s |-> AllocNode(r.s, Create(text, r.f)), link |-> FreshName(r.s.heap)]
CopySubtree(s, x, a, key) ==
    LET n == x.src.heap[a].node
    IN IF n.type = "LEAF" THEN CopyLeaf(s, x, n, key)
       ELSE CopyTrie(CopyBranches(s, x, n, BranchKeys(n), key \o n.text), n.text)

-----------------------------------------------------------------------------
RECURSIVE MergeNode(_, _, _, _)

(* Back to the parent of a new node, to find the way down again. *)
Trim(s, depth, pos) == [ClearStack(s, depth) EXCEPT !.key = SubSeq(@, 1, pos)]
MergeShared(s, x, n, c, key, depth, pos) ==
    MergeNode(Trim(s, depth, pos), x, n.array[ArrayIndex(n, c)], key)

(* resolve_divergence(): child, on the branch of symbol c, is what was at   *)
(* the destination; it and the source part behind the text they share.      *)
ForkWith(r, text, c, child, new) ==
    LET n == Create(text, (c :> child) @@ (new :> r.link))
    IN PutNew(r.s, n, ArrayIndex(n, new))
ForkLeaf(s, x, n, suffix) == SetLink(FillLeaf(s, x, suffix, n), FreshName(s.heap))
TurnedDown(s, child) == IF child = Back(s).node THEN s ELSE Hit(s, "merge_reject")
ForkTrie(r, text, c, child, new) ==
    IF r.link = 0 THEN TurnedDown(r.s, child) ELSE ForkWith(r, text, c, child, new)

JoinTrie(r, x, n, c, child, key, text, depth, pos) ==
    LET t == PutNew(r.s, Create(text, (c :> child) @@ r.f), 0)
    IN IF IsSet(n, c) THEN MergeShared(t, x, n, c, key, depth, pos) ELSE t

ResolveDivergence(s, x, n, pos, c, child, key) ==
    LET split == Back(s).keypos + Back(s).prefix
        text == SubSeq(key, Back(s).keypos + 1, split)
        new == NextSymbol(Cut(key, split))
    IN IF n.type = "LEAF"
       THEN IF key \in x.reject THEN TurnedDown(s, child)
            ELSE ForkLeaf(ForkWith([s |-> s, link |-> 0], text, c, child, new), x, n,
                          Cut(n.text, split - pos))
       ELSE IF split < Len(key)
       THEN ForkTrie(CopyTrie(CopyBranches(s, x, n, BranchKeys(n), key), Cut(n.text, split - pos)),
                     text, c, child, new)
       ELSE JoinTrie(CopyBranches(s, x, n, SelectSeq(BranchKeys(n), LAMBDA k : k # c), key),
                     x, n, c, child, key, text, s.size - 1, Back(s).keypos)

(* The link to the node of the last transition, set where it stands. *)
SetInPlace(s, off, a) ==
    IF off[1] = 0 THEN [s EXCEPT !.root = a]
    ELSE LET t == [s EXCEPT !.heap[off[1]].node.array[off[2]] = a]
         IN IF s.heap[off[1]].own THEN t ELSE Hit(t, "merge_overwrite")

(* merge_leaf_node(): the same key is overwritten, else the leaf parts. *)
Overwrite(s, x, n, leaf) ==
    FreeNode(FreeBig(SetInPlace(FillLeaf(s, x, leaf.text, n), Back(s).off, FreshName(s.heap)), leaf),
             Back(s).node)
MergeLeafNode(s, x, n, pos, key) ==
    LET leaf == NodeAt(s)
        p == Back(s).prefix
        c == NextSymbol(Cut(leaf.text, p))
    IN IF n.type = "LEAF" /\ Back(s).cmp = 0
       THEN IF key \in x.reject THEN s ELSE Overwrite(s, x, n, leaf)
       ELSE IF p = 0 THEN ResolveDivergence(s, x, n, pos, c, Back(s).node, key)
       ELSE ResolveDivergence(FreeNode(CopyReducedLeaf(s, p), Back(s).node), x, n, pos, c,
                              FreshName(s.heap), key)

(* expand_trie_with_branch(): the old node goes, one with a branch more     *)
(* comes, with the link of what was copied.                                 *)
Expand(r, node, c) ==
    LET n == AddBranch(node, c, r.link)
        t == FreeNode(AllocNode(r.s, n), Back(r.s).node)
    IN Put(t, FreshName(r.s.heap), ArrayIndex(n, c))
ExpandTrie(r, node, c) == IF r.link = 0 THEN r.s ELSE Expand(r, node, c)

(* Mutant: the branches both have are left as they are. *)
MergeBoth_NoShared(r, x, n, key, old, shared, depth, pos) ==
    FreeNode(PutNew(r.s, Create(old.node.text, r.f), 0), old.at)

(* merge_into_trie(), both nodes end at the same place: all branches in one *)
(* new node, the shared ones merged one after the other.                    *)
MergeBoth(r, x, n, key, old, shared, depth, pos) ==
    FreeNode(FoldLeft(LAMBDA t, c : MergeShared(t, x, n, c, key, depth, pos),
                      PutNew(r.s, Create(old.node.text, r.f), 0), shared),
             old.at)
Branches(n) == [c \in Range(BranchKeys(n)) |-> n.array[ArrayIndex(n, c)]]
MergeIntoTrie(s, x, n, key) ==
    LET node == NodeAt(s)
        suffix == Len(key) - Len(s.key)
        c == NextSymbol(Cut(key, Len(s.key)))
        rest == Cut(n.text, Len(n.text) - suffix)
        only == SelectSeq(BranchKeys(n), LAMBDA k : ~IsSet(node, k))
        both == SelectSeq(BranchKeys(n), LAMBDA k : IsSet(node, k))
    IN IF n.type = "LEAF"
       THEN IF key \in x.reject THEN s
            ELSE Expand([s |-> FillLeaf(s, x, rest, n), link |-> FreshName(s.heap)], node, c)
       ELSE IF suffix > 0
       THEN ExpandTrie(CopyTrie(CopyBranches(s, x, n, BranchKeys(n), key), rest), node, c)
       ELSE MergeBoth([CopyBranches(s, x, n, only, key) EXCEPT !.f = Branches(node) @@ @],
                      x, n, key, [node |-> node, at |-> Back(s).node], both, s.size - 1, Back(s).keypos)

MergeTrieNode(s, x, n, pos, key) ==
    LET node == NodeAt(s)
        p == Back(s).prefix
    IN IF p = Len(node.text) THEN MergeIntoTrie(s, x, n, key)
       ELSE ResolveDivergence(FreeNode(AllocNode(s, WithText(node, Cut(node.text, p))), Back(s).node),
                              x, n, pos, node.text[p + 1], FreshName(s.heap), key)

(* merge_node(); an empty destination gets a copy of the source. *)
CopyRoot(r) == [r.s EXCEPT !.root = r.link]
MergeFound(s, x, n, pos, key) ==
    IF ~IsLeaf(s) THEN MergeTrieNode(s, x, n, pos, key)
    ELSE IF NodeAt(s).text = << >> /\ n.type = "TRIE" /\ s.size > 1
    THEN MergeTrieNode(Pop(s), x, n, pos, key)
    ELSE MergeLeafNode(s, x, n, pos, key)
MergeAt(s, x, a, n, key) ==
    IF s.size = 0 THEN CopyRoot(CopySubtree(s, x, a, key))
    ELSE MergeFound(s, x, n, Len(key), key \o n.text)
MergeNode(s, x, a, key) ==
    LET n == x.src.heap[a].node IN MergeAt(Find(s, key \o n.text), x, a, n, key)

(* exec() *)
Merge(s, x) == IF x.src.root = 0 THEN s ELSE MergeNode(s, x, x.src.root, << >>)
==============================================================================
