----------------------------- MODULE TrieCursor ------------------------------
(***************************************************************************)
(* The cursor of db/_cursor.hpp (_Transition, _Stack, _CursorBase,         *)
(* _ICursor) with the inserter (db/_inserter.hpp) and the deleter          *)
(* (db/_deleter.hpp), as operators on a record s of everything they read   *)
(* and write:                                                              *)
(*   heap    the pages: node, whether the current transaction allocated    *)
(*           it (own), whether it freed it (dead: kept for the readers of  *)
(*           the snapshot), and room, the size its slot has;               *)
(*   chunks  the big values, with own and dead like the pages;             *)
(*   root    the link of the transaction; 0 is no node;                    *)
(*   stack, size  the transitions; a slot beyond size keeps its            *)
(*           branch_key, as the vector of the code does;                   *)
(*   key, rest    current_key and rest_key.                                *)
(* A page is named by a number and a freed page's number is used again at  *)
(* once.  Array positions count from 1.                                    *)
(***************************************************************************)
EXTENDS TrieNodes, TLC

CONSTANTS MaxText,   \* 255: what fits into the text of a node
          Rooms,     \* PAGE_SIZES
          MaxStack   \* transitions, bound

NOT_FOUND == 2
UNDEFINED == 3

Slot(branch) == [off |-> <<0, 0>>, node |-> 0, prefix |-> 0, keypos |-> 0,
                 branch |-> branch, cmp |-> UNDEFINED, link |-> 0]

(* get_prefix(): how far two texts agree, and how they compare. *)
Common(a, b) ==
    Cardinality({i \in 1 .. Min({Len(a), Len(b)}) : SubSeq(a, 1, i) = SubSeq(b, 1, i)})
CmpAt(a, b, i) ==
    IF i <= Len(a) /\ i <= Len(b) THEN IF a[i] > b[i] THEN 1 ELSE -1
    ELSE IF Len(a) > Len(b) THEN 1 ELSE IF Len(b) > Len(a) THEN -1 ELSE 0
Cmp(a, b) == CmpAt(a, b, Common(a, b) + 1)

Cut(t, n) == SubSeq(t, n + 1, Len(t))

-----------------------------------------------------------------------------
(* Pages *)

FreshName(f) == Min((1 .. Cardinality(DOMAIN f) + 1) \ DOMAIN f)

RoomFor(n) == IF n.type = "LEAF" THEN 0 ELSE Min({r \in Rooms : r >= Size(n)})

AllocNode(s, n) ==
    [s EXCEPT !.heap = @ @@ (FreshName(@) :> [node |-> n, own |-> TRUE, dead |-> FALSE,
                                              room |-> RoomFor(n)])]

(* A page of the current transaction is free at once, one of the snapshot   *)
(* when its readers are gone.                                               *)
Freed(f, a) == IF f[a].own THEN [b \in DOMAIN f \ {a} |-> f[b]] ELSE [f EXCEPT ![a].dead = TRUE]
FreeNode(s, a) == [s EXCEPT !.heap = Freed(@, a)]

AllocBig(s, v) == [s EXCEPT !.chunks = @ @@ (FreshName(@) :> [value |-> v, own |-> TRUE, dead |-> FALSE])]
FreeBig(s, leaf) == IF leaf.big THEN [s EXCEPT !.chunks = Freed(@, leaf.value)] ELSE s

-----------------------------------------------------------------------------
(* The stack *)

Back(s)     == s.stack[s.size]
NodeAt(s)   == s.heap[Back(s).node].node
IsLeaf(s)   == NodeAt(s).type = "LEAF"
IsValid(s)  == s.size > 0 /\ Back(s).node # 0 /\ Back(s).cmp = 0 /\ IsLeaf(s)

Deref(s, off) == IF off[1] = 0 THEN s.root ELSE s.heap[off[1]].node.array[off[2]]

(* Transition::init(): everything but branch_key. *)
PushOff(s, off) ==
    [s EXCEPT !.size = @ + 1,
              !.stack[s.size + 1] = [Slot(@.branch) EXCEPT !.off = off, !.node = Deref(s, off),
                                                           !.keypos = Len(s.key)]]
PushRoot(s) == PushOff(s, <<0, 0>>)
PushLink(s) == PushOff(s, <<Back(s).node, Back(s).link>>)

ClearStack(s, n) ==
    [s EXCEPT !.size = n,
              !.stack = [i \in DOMAIN @ |-> IF i > n THEN Slot(@[i].branch) ELSE @[i]]]
Pop(s) == ClearStack([s EXCEPT !.key = SubSeq(@, 1, Back(s).keypos)], s.size - 1)

Advance(s, n) == [s EXCEPT !.key = @ \o SubSeq(s.rest, 1, n), !.rest = Cut(@, n)]

-----------------------------------------------------------------------------
(* Transition::find() *)

RECURSIVE FindBack(_)

FindBranch(s, n) ==
    LET b == s.size
        idx == ArrayIndex(n, s.rest[1])
    IN IF idx = 0 THEN [s EXCEPT !.stack[b].branch = s.rest[1], !.stack[b].cmp = NOT_FOUND]
       ELSE FindBack(PushLink([s EXCEPT !.stack[b].branch = s.rest[1], !.stack[b].cmp = 0,
                                        !.stack[b].link = idx]))
FindBelow(s, n) ==
    IF n.type = "LEAF" \/ Back(s).prefix < Len(n.text) THEN s
    ELSE IF s.rest # << >> THEN FindBranch(s, n)
    ELSE IF n.none THEN FindBack(PushLink([s EXCEPT !.stack[s.size].link = 1]))
    ELSE [s EXCEPT !.stack[s.size].cmp = -1]
FindText(s, n, p) ==
    FindBelow(Advance([s EXCEPT !.stack[s.size].prefix = p,
                                !.stack[s.size].cmp = Cmp(s.rest, n.text)], p), n)
FindBack(s) == FindText(s, NodeAt(s), Common(s.rest, NodeAt(s).text))

(* keep_stack(): stay, or go back to the transition where the keys part. *)
KeepStack(s, same) ==
    LET n == Cardinality({i \in 1 .. s.size : s.stack[i].keypos < same})
        pos == s.stack[n].keypos
    IN IF n = 0 THEN ClearStack(s, 0)
       ELSE [ClearStack(s, n) EXCEPT !.stack[n].prefix = 0, !.stack[n].cmp = UNDEFINED,
                                     !.rest = Cut(@, pos), !.key = SubSeq(@, 1, pos)]
Found(s, k) == s.size > 0 /\ k = s.key
(* _find() *)
FindFrom(s) ==
    IF s.size > 0 THEN FindBack(s)
    ELSE IF s.root = 0 THEN s
    ELSE FindBack(PushRoot([s EXCEPT !.key = << >>]))
Find(s, k) ==
    IF Found(s, k) THEN [s EXCEPT !.rest = << >>]
    ELSE FindFrom(KeepStack([s EXCEPT !.rest = k], Common(k, s.key)))

-----------------------------------------------------------------------------
(* first(), last(), next(), prev() of a transition and of the cursor *)

LeafStep(s) ==
    [s EXCEPT !.key = SubSeq(@, 1, Back(s).keypos) \o NodeAt(s).text,
              !.stack[s.size].prefix = Len(NodeAt(s).text), !.stack[s.size].cmp = 0]

(* branch_key of transition i after its child has moved. *)
WithBranch(s, i) ==
    IF s.stack[i + 1].keypos < Len(s.key)
    THEN [s EXCEPT !.stack[i].branch = s.key[s.stack[i + 1].keypos + 1]] ELSE s

RECURSIVE FirstBack(_)
FirstBack(s) ==
    IF IsLeaf(s) THEN LeafStep(s)
    ELSE WithBranch(FirstBack(PushLink(
            [s EXCEPT !.key = @ \o NodeAt(s).text, !.stack[s.size].cmp = 0,
                      !.stack[s.size].prefix = Len(NodeAt(s).text), !.stack[s.size].link = 1])),
            s.size)

RECURSIVE LastBack(_)
LastBack(s) ==
    IF IsLeaf(s) THEN LeafStep(s)
    ELSE WithBranch(LastBack(PushLink(
            [s EXCEPT !.key = @ \o NodeAt(s).text, !.stack[s.size].cmp = 0,
                      !.stack[s.size].prefix = Len(NodeAt(s).text),
                      !.stack[s.size].link = Len(NodeAt(s).array)])),
            s.size)

Moved(s) == [ok |-> TRUE, s |-> s]
Stuck(s) == [ok |-> FALSE, s |-> s]

ToBranch(s, c) ==
    PushLink([s EXCEPT !.key = SubSeq(@, 1, Back(s).keypos) \o NodeAt(s).text,
                       !.stack[s.size].cmp = 0, !.stack[s.size].branch = c,
                       !.stack[s.size].link = ArrayIndex(NodeAt(s), c)])
FromStart(s) == [s EXCEPT !.key = SubSeq(@, 1, Back(s).keypos)]

NextBack(s) ==
    LET b == Back(s)
        n == NodeAt(s)
        c == NextBranch(n, b.branch)
    IN IF IsLeaf(s) THEN IF b.cmp < 0 THEN Moved(LeafStep(s)) ELSE Stuck(s)
       ELSE IF b.cmp = 0
       THEN IF b.link >= Len(n.array) THEN Stuck(s)
            ELSE Moved(WithBranch(FirstBack(PushLink([s EXCEPT !.stack[s.size].link = @ + 1])), s.size))
       ELSE IF b.prefix < Len(n.text)
       THEN IF b.cmp > 0 THEN Stuck(s) ELSE Moved(FirstBack(FromStart(s)))
       ELSE IF c = OUT_OF_RANGE THEN Stuck(s) ELSE Moved(FirstBack(ToBranch(s, c)))

PrevBack(s) ==
    LET b == Back(s)
        n == NodeAt(s)
        c == PrevBranch(n, b.branch)
    IN IF IsLeaf(s) THEN IF b.cmp > 0 THEN Moved(LeafStep(s)) ELSE Stuck(s)
       ELSE IF b.cmp = 0
       THEN IF b.link <= 1 THEN Stuck(s)
            ELSE Moved(WithBranch(LastBack(PushLink([s EXCEPT !.stack[s.size].link = @ - 1])), s.size))
       ELSE IF b.prefix < Len(n.text)
       THEN IF b.cmp < 0 THEN Stuck(s) ELSE Moved(LastBack(FromStart(s)))
       ELSE IF c = OUT_OF_RANGE THEN Stuck(s) ELSE Moved(LastBack(ToBranch(s, c)))

(* The cursor goes up until a transition can move. *)
RECURSIVE NextFrom(_), PrevFrom(_)
(* Mutant: next() gives up after one step up. *)
NextUp_NoPop(r) == IF r.ok THEN r.s ELSE Pop(r.s)
NextUp(r) == IF r.ok THEN r.s ELSE NextFrom(Pop(r.s))
NextFrom(s) == IF s.size = 0 THEN s ELSE NextUp(NextBack(s))
PrevUp(r) == IF r.ok THEN r.s ELSE PrevFrom(Pop(r.s))
PrevFrom(s) == IF s.size = 0 THEN s ELSE PrevUp(PrevBack(s))

CursorNext(s) == NextFrom([s EXCEPT !.rest = << >>])
CursorPrev(s) == PrevFrom([s EXCEPT !.rest = << >>])

(* clear(), first(), last() *)
Cleared(s) == ClearStack([s EXCEPT !.rest = << >>, !.key = << >>], 0)
CursorFirst(s) == IF s.root = 0 THEN Cleared(s) ELSE FirstBack(PushRoot(Cleared(s)))
CursorLast(s)  == IF s.root = 0 THEN Cleared(s) ELSE LastBack(PushRoot(Cleared(s)))

-----------------------------------------------------------------------------
(* Copy on write: update_offset() links the new node of transition i, and   *)
(* update() copies the nodes above it that belong to the snapshot.          *)

RECURSIVE Update(_, _)
Linked(s, i, a) ==
    LET up == s.stack[i - 1]
    IN [s EXCEPT !.stack[i].off = <<up.node, up.link>>, !.heap[up.node].node.array[up.link] = a]
UpdateOffset(s, i, a) ==
    IF i = 1 THEN [s EXCEPT !.root = a] ELSE Linked(Update(s, i - 1), i, a)
Copied(s, i, old, new) ==
    UpdateOffset([FreeNode(s, old) EXCEPT !.stack[i].node = new, !.heap[new].room = s.heap[old].room],
                 i, new)
Update(s, i) ==
    LET a == s.stack[i].node
    IN IF s.heap[a].own THEN s
       ELSE Copied(AllocNode(s, s.heap[a].node), i, a, FreshName(s.heap))

-----------------------------------------------------------------------------
(* The inserter; s is positioned by a find *)

LeafOf(text, v) == [type |-> "LEAF", text |-> text, big |-> FALSE, value |-> v]

(* A new node takes the place of the node of the last transition. *)
Placed(s, a, old, link) ==
    UpdateOffset([FreeNode(s, old) EXCEPT !.stack[s.size].node = a, !.stack[s.size].link = link],
                 s.size, a)
Replace(s, n, link) == Placed(AllocNode(s, n), FreshName(s.heap), Back(s).node, link)

SetLink(s, a) == [s EXCEPT !.heap[Back(s).node].node.array[Back(s).link] = a]

(* The transition of a node made for the rest of the key. *)
Entered(s) ==
    Advance([s EXCEPT !.stack[s.size].cmp = 0, !.stack[s.size].prefix = Len(NodeAt(s).text)],
            Len(NodeAt(s).text))
Appended(s, n) == Entered(PushLink(SetLink(AllocNode(s, n), FreshName(s.heap))))
Planted(s, n)  == Entered(PushRoot(AllocNode([s EXCEPT !.root = FreshName(s.heap)], n)))

(* fill_bigkey(): a node with one branch for the first part of a long key. *)
BigKeyNode(rest) == Create(SubSeq(rest, 1, MaxText), rest[MaxText + 1] :> 0)
AtBigKey(s) == [s EXCEPT !.stack[s.size].branch = s.rest[1], !.stack[s.size].link = 1]

(* create_leaf() with create_bigkey() *)
RECURSIVE CreateLeaf(_, _)
CreateLeaf(s, v) ==
    IF Len(s.rest) > MaxText THEN CreateLeaf(AtBigKey(Appended(s, BigKeyNode(s.rest))), v)
    ELSE Appended(s, LeafOf(s.rest, v))

(* first_exec() *)
FirstExec(s, v) ==
    IF Len(s.rest) > MaxText THEN CreateLeaf(AtBigKey(Planted(s, BigKeyNode(s.rest))), v)
    ELSE Planted(s, LeafOf(s.rest, v))

NextSymbol(t) == IF t = << >> THEN NONE ELSE t[1]
(* An int kept in a uint8_t: NONE becomes the largest symbol. *)
AsKey(c) == IF c = NONE THEN 8 * Group - 1 ELSE c

(* A node with the branch of what is there and one for the new key. *)
Fork(s, text, c, a, new) ==
    LET n == Create(text, (c :> a) @@ (new :> 0))
    IN Replace(s, n, ArrayIndex(n, new))

(* split_compressed(): the text of the node and the key part inside it. *)
SplitCompressed(s, v) ==
    LET n == NodeAt(s)
        p == Back(s).prefix
        key == NextSymbol(s.rest)
        t == AllocNode(s, WithText(n, Cut(n.text, p)))
        u == IF key = NONE THEN t ELSE [t EXCEPT !.stack[s.size].branch = key]
    IN CreateLeaf(Fork(u, SubSeq(n.text, 1, p), n.text[p + 1], FreshName(s.heap), key), v)

(* Mutants: a page of the snapshot is changed where it stands; the size of  *)
(* the page is not asked for.                                               *)
AddToArray_InPlace(s, v) ==
    LET n == NodeAt(s)
        key == IF s.rest = << >> THEN NONE ELSE Back(s).branch
        new == AddBranch(n, key, 0)
        t == IF IncrementSize(n, key) <= s.heap[Back(s).node].room
             THEN [s EXCEPT !.heap[Back(s).node].node = new,
                            !.stack[s.size].link = ArrayIndex(new, key)]
             ELSE Replace(s, new, ArrayIndex(new, key))
    IN CreateLeaf([t EXCEPT !.stack[s.size].cmp = 0], v)
AddToArray_NoRoom(s, v) ==
    LET n == NodeAt(s)
        key == IF s.rest = << >> THEN NONE ELSE Back(s).branch
        new == AddBranch(n, key, 0)
        t == IF s.heap[Back(s).node].own
             THEN [s EXCEPT !.heap[Back(s).node].node = new,
                            !.stack[s.size].link = ArrayIndex(new, key)]
             ELSE Replace(s, new, ArrayIndex(new, key))
    IN CreateLeaf([t EXCEPT !.stack[s.size].cmp = 0], v)
(* add_to_array(): in place when the page is the transaction's own and has  *)
(* room, else in a copy.                                                    *)
AddToArray(s, v) ==
    LET n == NodeAt(s)
        key == IF s.rest = << >> THEN NONE ELSE Back(s).branch
        page == s.heap[Back(s).node]
        new == InsertBranch(n, key)
        t == IF page.own /\ IncrementSize(n, key) <= page.room
             THEN [s EXCEPT !.heap[Back(s).node].node = new,
                            !.stack[s.size].link = ArrayIndex(new, key)]
             ELSE Replace(s, AddBranch(n, key, 0), ArrayIndex(new, key))
    IN CreateLeaf([t EXCEPT !.stack[s.size].cmp = 0], v)

(* copy_reduced_leaf(): the copy takes over the big value, the flag of the  *)
(* original is cleared where it stands.                                     *)
CopyReducedLeaf(s, p) ==
    LET leaf == NodeAt(s)
    IN [AllocNode(s, [leaf EXCEPT !.text = Cut(@, p)]) EXCEPT !.heap[Back(s).node].node.big = FALSE]

(* change_leaf(): a new value, or a fork where the leaf was. *)
ChangeLeaf(s, v) ==
    LET leaf == NodeAt(s)
        p == Back(s).prefix
        key == NextSymbol(s.rest)
        t == [CopyReducedLeaf(s, p) EXCEPT !.stack[s.size].branch = AsKey(key), !.stack[s.size].cmp = 0]
    IN IF Back(s).cmp = 0 THEN Replace(s, LeafOf(leaf.text, v), 0)
       ELSE CreateLeaf(Fork(t, SubSeq(leaf.text, 1, p), NextSymbol(Cut(leaf.text, p)),
                            FreshName(s.heap), key), v)

Exec(s, v) ==
    IF s.size = 0 THEN FirstExec(s, v)
    ELSE IF IsLeaf(s) THEN ChangeLeaf(s, v)
    ELSE IF Back(s).prefix < Len(NodeAt(s).text) THEN SplitCompressed(s, v)
    ELSE AddToArray(s, v)

(* _TransactionalCursor::reserve() and value(): a big value is kept in a    *)
(* chunk of its own.                                                        *)
StoreBig(s, v) ==
    [AllocBig(s, v) EXCEPT !.heap[Back(s).node].node.big = TRUE,
                           !.heap[Back(s).node].node.value = FreshName(s.chunks)]
CanReserve(s) == s.size > 0 \/ s.root = 0
Reserve(s, v, big) ==
    LET t == IF IsValid(s) THEN FreeBig(s, NodeAt(s)) ELSE s
    IN IF big THEN StoreBig(Exec(t, 0), v) ELSE Exec(t, v)

-----------------------------------------------------------------------------
(* The deleter; s is at a leaf *)

Swapped(s, a, old) == FreeNode(UpdateOffset([s EXCEPT !.stack[s.size].node = a], s.size, a), old)
Swap(s, n) == Swapped(AllocNode(s, n), FreshName(s.heap), Back(s).node)

(* reduce_array(): a branch less, and on to the next one. *)
ReduceArray(s, prefix) ==
    LET c == IF prefix = 0 THEN NONE ELSE Back(s).branch
    IN CursorNext([Swap(s, RemoveBranch(NodeAt(s), c)) EXCEPT
                     !.stack[s.size].cmp = -1,
                     !.stack[s.size].prefix = IF prefix = 0 THEN 0 ELSE @])

(* Mutants: the child stays allocated; the text of the node is left out. *)
Combined_KeepChild(s, child, text, goNext) ==
    LET t == [Swap(s, WithText(s.heap[child].node, text)) EXCEPT !.stack[s.size].cmp = 1]
    IN IF goNext THEN CursorNext(t) ELSE FirstBack(FromStart(t))
Combined_ChildText(s, child, text, goNext) ==
    LET t == FreeNode([Swap(s, s.heap[child].node) EXCEPT !.stack[s.size].cmp = 1], child)
    IN IF goNext THEN CursorNext(t) ELSE FirstBack(FromStart(t))
(* combine(): the node and its only child become one, unless the text is    *)
(* too long.                                                                *)
Combined(s, child, text, goNext) ==
    LET t == FreeNode([Swap(s, WithText(s.heap[child].node, text)) EXCEPT !.stack[s.size].cmp = 1], child)
    IN IF goNext THEN CursorNext(t) ELSE FirstBack(FromStart(t))
Combine(s, prefix) ==
    LET n == NodeAt(s)
        goNext == Back(s).link # 1
        child == IF goNext THEN n.array[1] ELSE n.array[2]
        text == n.text \o s.heap[child].node.text
    IN IF Len(text) > MaxText THEN ReduceArray(s, prefix) ELSE Combined(s, child, text, goNext)

RECURSIVE RemoveNode(_)
RemoveBelow(s, prefix) ==
    CASE Len(NodeAt(s).array) = 1 -> RemoveNode(s)
      [] Len(NodeAt(s).array) = 2 -> Combine(s, prefix)
      [] OTHER -> ReduceArray(s, prefix)
RemoveNode(s) ==
    IF s.size = 1 THEN Pop(FreeNode([s EXCEPT !.root = 0], Back(s).node))
    ELSE FreeNode(RemoveBelow(Pop(s), Back(s).prefix), Back(s).node)

(* _TransactionalCursor::remove() *)
CursorRemove(s) == RemoveNode(FreeBig(s, NodeAt(s)))
==============================================================================
