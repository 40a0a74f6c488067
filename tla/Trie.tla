--------------------------------- MODULE Trie ---------------------------------
(***************************************************************************)
(* One cursor that reads and writes a trie in transactions, while readers  *)
(* keep the committed snapshot: the operators of TrieCursor as actions,    *)
(* next to an ordered map that says what they should do.                   *)
(***************************************************************************)
EXTENDS Merger

CONSTANTS Keys, SmallValues, BigValues,
          Sources,   \* what is merged in: sequences of entries
          Rejects,   \* the sets of keys a merge policy may turn down
          Corners,   \* the corner cases a run includes
          MaxOps,    \* bound: changes
          MaxCommits \* bound: commits

VARIABLES
    s,         \* what the cursor works on, see TrieCursor
    base,      \* the root of the committed snapshot
    content,   \* the map of the transaction ...
    saved,     \* ... and of the snapshot
    at,        \* the key the cursor should be at, << >> when it ran off the end
    ops, commits

vars == <<s, base, content, saved, at, ops, commits>>

Values == SmallValues \cup BigValues

ASSUME TrieAssumption ==
    /\ Group \in Nat \ {0} /\ MaxText \in Nat \ {0} /\ MaxStack \in Nat \ {0}
    /\ \A k \in Keys : k # << >> /\ \A i \in DOMAIN k : k[i] \in 0 .. 8 * Group - 1
    /\ SmallValues \cap BigValues = {} /\ 0 \notin Values
    /\ Corners \subseteq {"refind", "stale_branch", "empty_root", "split_big",
                          "merge_overwrite", "merge_reject"}

-----------------------------------------------------------------------------
(* The meaning of a trie *)

RECURSIVE Reachable(_, _), Entries(_, _, _)
Reachable(heap, a) ==
    IF a = 0 THEN {}
    ELSE {a} \cup IF heap[a].node.type = "LEAF" THEN {}
                  ELSE UNION {Reachable(heap, heap[a].node.array[i]) : i \in DOMAIN heap[a].node.array}

(* The keys below a, each with what its leaf holds; path leads to a. *)
Entries(heap, a, path) ==
    IF a = 0 THEN {}
    ELSE LET n == heap[a].node
         IN IF n.type = "LEAF" THEN {[key |-> path \o n.text, leaf |-> n]}
            ELSE UNION {Entries(heap, n.array[i], path \o n.text) : i \in DOMAIN n.array}

ValueOf(t, leaf) == IF leaf.big THEN t.chunks[leaf.value].value ELSE leaf.value
ContentFrom(t, root) ==
    {<<e.key, ValueOf(t, e.leaf)>> : e \in Entries(t.heap, root, << >>)}
AsPairs(f) == {<<k, f[k]>> : k \in DOMAIN f}

Less(a, b) == Cmp(a, b) < 0
After(f, k)  == {j \in DOMAIN f : Less(k, j)}
Before(f, k) == {j \in DOMAIN f : Less(j, k)}
Least(K)     == IF K = {} THEN << >> ELSE CHOOSE k \in K : \A j \in K : ~Less(j, k)
Greatest(K)  == IF K = {} THEN << >> ELSE CHOOSE k \in K : \A j \in K : ~Less(k, j)

-----------------------------------------------------------------------------
(* Corner cases that a run may leave out *)

(* find() of the key the last find() agreed with so far is answered by      *)
(* keep_stack() without a look at the trie.                                 *)
Refind(k) == s.size > 0 /\ s.key = k /\ ~IsValid(s) /\ s.rest # << >>

(* A transition that next() or prev() would leave by its branch_key         *)
(* although the key did not go through that branch.                         *)
StaleBranch ==
    \E i \in 1 .. s.size :
        LET b == s.stack[i]
            n == s.heap[b.node].node
            follow == Cut(s.key \o s.rest, b.keypos + b.prefix)
        IN /\ n.type = "TRIE" /\ b.cmp # 0 /\ b.prefix = Len(n.text)
           /\ follow = << >> \/ follow[1] # b.branch

(* A leaf of the snapshot that holds a big value is split. *)
SplitBig == /\ s.size > 0 /\ IsLeaf(s) /\ Back(s).cmp # 0
            /\ NodeAt(s).big /\ ~s.heap[Back(s).node].own

SplitsBig(t) == \E a \in DOMAIN t.heap :
    t.heap[a].dead /\ t.heap[a].node # s.heap[a].node

-----------------------------------------------------------------------------
Move(t, k) ==
    /\ s' = t /\ at' = k
    /\ UNCHANGED <<base, content, saved, ops, commits>>

DoFind(k)  == ("refind" \notin Corners => ~Refind(k)) /\ Move(Find(s, k), k)
DoFirst    == Move(CursorFirst(s), Least(DOMAIN content))
DoLast     == Move(CursorLast(s), Greatest(DOMAIN content))
DoNext     == /\ at # << >> /\ ("stale_branch" \notin Corners => ~StaleBranch)
              /\ Move(CursorNext(s), Least(After(content, at)))
DoPrev     == /\ at # << >> /\ ("stale_branch" \notin Corners => ~StaleBranch)
              /\ Move(CursorPrev(s), Greatest(Before(content, at)))

Change(t, f, k) ==
    /\ ops < MaxOps /\ ops' = ops + 1
    /\ s' = t /\ content' = f /\ at' = k
    /\ UNCHANGED <<base, saved, commits>>

(* value(): the record at the position the last find() or move went to. *)
DoValue(v) ==
    /\ at # << >> /\ CanReserve(s)
    /\ "split_big" \notin Corners => ~SplitBig
    /\ Change(Reserve(s, v, v \in BigValues),
              [k \in DOMAIN content \cup {at} |-> IF k = at THEN v ELSE content[k]], at)

(* remove(): the cursor goes on to the next record. *)
DoRemove ==
    /\ IsValid(s)
    /\ Change(CursorRemove(s), [k \in DOMAIN content \ {at} |-> content[k]],
              Least(After(content, at)))

(* _Merger::exec() with a new cursor, which is done with afterwards.        *)
Tries == [e \in Sources |-> TrieOf(e)]
Merged(e, reject) ==
    [k \in DOMAIN content \cup ({r.key : r \in Range(e)} \ reject) |->
        IF \E r \in Range(e) : r.key = k /\ k \notin reject
        THEN (CHOOSE r \in Range(e) : r.key = k).value ELSE content[k]]
DoMerge(e, reject) ==
    /\ s.size = 0
    /\ \E t \in {Merge(s, [src |-> Tries[e], reject |-> reject])} :
          /\ t.hit \subseteq Corners
          /\ "split_big" \notin Corners => ~SplitsBig(t)
          /\ Change([Cleared(t) EXCEPT !.hit = {}], Merged(e, reject), << >>)

(* commit(): the pages of the transaction are the snapshot now. *)
Sealed(f) == [a \in {b \in DOMAIN f : ~f[b].dead} |-> [f[a] EXCEPT !.own = FALSE]]
DoCommit ==
    /\ saved # content /\ commits < MaxCommits /\ commits' = commits + 1
    /\ s' = [s EXCEPT !.heap = Sealed(@), !.chunks = Sealed(@)]
    /\ base' = s.root /\ saved' = content
    /\ UNCHANGED <<content, at, ops>>

(* rollback(): back to the snapshot, and find the key again. *)
Restored(f) == [a \in {b \in DOMAIN f : ~f[b].own} |-> [f[a] EXCEPT !.dead = FALSE]]
DoRollback ==
    /\ saved # content
    /\ "empty_root" \notin Corners => base # 0
    /\ s' = Find(ClearStack([s EXCEPT !.heap = Restored(@), !.chunks = Restored(@), !.root = base], 0),
                 s.key)
    /\ content' = saved /\ at' = s.key
    /\ UNCHANGED <<base, saved, ops, commits>>

Init ==
    /\ s = EmptyTrie
    /\ base = 0 /\ content = << >> /\ saved = << >> /\ at = << >>
    /\ ops = 0 /\ commits = 0

Next ==
    \/ \E k \in Keys : DoFind(k)
    \/ DoFirst \/ DoLast \/ DoNext \/ DoPrev
    \/ \E v \in Values : DoValue(v)
    \/ \E e \in Sources, reject \in Rejects : DoMerge(e, reject)
    \/ DoRemove \/ DoCommit \/ DoRollback

Spec == Init /\ [][Next]_vars

-----------------------------------------------------------------------------
(* The trie holds what the map holds, for the writer and, at the same time, *)
(* for the readers of the snapshot: a write never touches a page or a value *)
(* that the snapshot can reach.                                             *)
TrieRight     == ContentFrom(s, s.root) = AsPairs(content)
SnapshotRight == ContentFrom(s, base) = AsPairs(saved)

(* No page and no big value is lost or freed while it is linked: the pages  *)
(* in use are those the writer or the snapshot reaches, dead are exactly    *)
(* those of the snapshot alone, and a big value belongs to one leaf.        *)
PagesExact ==
    LET mine == Reachable(s.heap, s.root)
        theirs == Reachable(s.heap, base)
        held(A) == {s.heap[a].node.value : a \in {b \in A : s.heap[b].node.type = "LEAF" /\ s.heap[b].node.big}}
    IN /\ DOMAIN s.heap = mine \cup theirs
       /\ \A a \in DOMAIN s.heap : s.heap[a].dead <=> a \notin mine
       /\ DOMAIN s.chunks = held(mine) \cup held(theirs)
       /\ \A c \in DOMAIN s.chunks : s.chunks[c].dead <=> c \notin held(mine)

(* Where a search, a move or a change leaves the cursor: at the key it      *)
(* should be at, if there is such a record, and with its key and value.     *)
PositionRight ==
    /\ IsValid(s) <=> at \in DOMAIN content
    /\ IsValid(s) => s.key = at /\ ValueOf(s, NodeAt(s)) = content[at]

(* Bitmaps and array agree: as many symbols as links, at least one, each    *)
(* found at the place where for_each_branch() meets it; what hangs on the   *)
(* branch of a symbol starts with it.  A text fits, a node that grew in     *)
(* place is not larger than its page, and the size a deletion asks for is   *)
(* that of the node it makes.                                               *)
WellFormed ==
    \A a \in DOMAIN s.heap :
        LET n == s.heap[a].node
            keys == BranchKeys(n)
        IN n.type = "TRIE" =>
            /\ Len(keys) = Len(n.array) /\ keys # << >> /\ Len(n.text) <= MaxText
            /\ \A i \in DOMAIN keys :
                LET m == s.heap[n.array[i]].node
                IN /\ ArrayIndex(n, keys[i]) = i /\ NextSymbol(m.text) = keys[i]
                   /\ Size(RemoveBranch(n, keys[i])) = DecrementSize(n, keys[i])
            /\ s.heap[a].own => Size(n) <= s.heap[a].room
==============================================================================
