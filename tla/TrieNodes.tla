------------------------------ MODULE TrieNodes ------------------------------
(***************************************************************************)
(* The trie node of core/_node.hpp: a text all keys below share            *)
(* (_compressed_data) and an array of links, one per branch, found through *)
(* two levels of bitmaps.  upper says which groups of Group symbols occur, *)
(* lower has a set for every such group, in order, and array the links in  *)
(* the order of the symbols, the NONE branch first.                        *)
(*                                                                         *)
(* A symbol is a number, Group stands for 32, a link is whatever the user  *)
(* of the node puts there.  Sizes are counted in entries: a link, a lower  *)
(* bitmap and a symbol of the text are one each.                           *)
(***************************************************************************)
EXTENDS Integers, Sequences, FiniteSets, SequencesExt, FiniteSetsExt

CONSTANT Group

NONE         == -1
OUT_OF_RANGE == -2

Ubit(c) == c \div Group
Lbit(c) == c % Group

(* bits::index(): the number of bits below one. *)
BitIndex(bits, b) == Cardinality({u \in bits : u < b})

Size(n) == Len(n.text) + Len(n.lower) + Len(n.array)

IsSet(n, c) ==
    IF c = NONE THEN n.none
    ELSE Ubit(c) \in n.upper /\ Lbit(c) \in n.lower[BitIndex(n.upper, Ubit(c)) + 1]

(* How many links stand before the one of symbol c, whose group is number   *)
(* g: NONE, the smaller groups, the smaller symbols of its own.             *)
LinksBefore(none, lower, g, own, c) ==
    (IF none THEN 1 ELSE 0)
    + FoldLeft(LAMBDA sum, bits : sum + Cardinality(bits), 0, SubSeq(lower, 1, g))
    + BitIndex(own, Lbit(c))

(* array_index(), from 1; 0 if there is no such branch. *)
ArrayIndex(n, c) ==
    IF ~IsSet(n, c) THEN 0
    ELSE IF c = NONE THEN 1
    ELSE LET g == BitIndex(n.upper, Ubit(c))
         IN LinksBefore(n.none, n.lower, g, n.lower[g + 1], c) + 1

(* create(prefix, key1, key2) and create(prefix, key); the links are set by *)
(* the caller.                                                              *)
Create(text, f) ==
    LET keys == DOMAIN f \ {NONE}
        upper == {Ubit(c) : c \in keys}
        groups == SetToSortSeq(upper, LAMBDA a, b : a < b)
        order == SetToSortSeq(DOMAIN f, LAMBDA a, b : a < b)
    IN [type |-> "TRIE", text |-> text, none |-> NONE \in DOMAIN f, upper |-> upper,
        lower |-> [i \in DOMAIN groups |-> {Lbit(c) : c \in {k \in keys : Ubit(k) = groups[i]}}],
        array |-> [i \in DOMAIN order |-> f[order[i]]]]

(* create(src, prefix): the same branches under another text. *)
WithText(n, text) == [n EXCEPT !.text = text]

(* create(src, key): one more branch in a new node.  A symbol of a group    *)
(* that has no bitmap yet gets one.                                         *)
AddBranch(n, c, link) ==
    IF c = NONE THEN [n EXCEPT !.none = TRUE, !.array = <<link>> \o @]
    ELSE LET g == BitIndex(n.upper, Ubit(c))
             known == Ubit(c) \in n.upper
             own == IF known THEN n.lower[g + 1] ELSE {}
             pos == LinksBefore(n.none, n.lower, g, own, c) + 1
         IN [n EXCEPT !.upper = @ \cup {Ubit(c)},
                      !.lower = IF known THEN [@ EXCEPT ![g + 1] = @ \cup {Lbit(c)}]
                                ELSE InsertAt(@, g + 1, {Lbit(c)}),
                      !.array = InsertAt(@, pos, link)]

(* insert_branch(): the same where the node stands; the link is set later. *)
InsertBranch(n, c) == AddBranch(n, c, 0)

(* create_remove(): a group without symbols loses its bitmap. *)
RemoveBranch(n, c) ==
    LET g == BitIndex(n.upper, Ubit(c))
        rest == n.lower[g + 1] \ {Lbit(c)}
        array == RemoveAt(n.array, ArrayIndex(n, c))
    IN IF c = NONE THEN [n EXCEPT !.none = FALSE, !.array = Tail(@)]
       ELSE [n EXCEPT !.upper = IF rest = {} THEN @ \ {Ubit(c)} ELSE @,
                      !.lower = IF rest = {} THEN RemoveAt(@, g + 1) ELSE [@ EXCEPT ![g + 1] = rest],
                      !.array = array]

(* increment_size() and decrement_size() *)
IncrementSize(n, c) ==
    Size(n) + (IF c # NONE /\ Ubit(c) \notin n.upper THEN 2 ELSE 1)
DecrementSize(n, c) ==
    Size(n) - (IF c # NONE /\ Cardinality(n.lower[BitIndex(n.upper, Ubit(c)) + 1]) = 1 THEN 2 ELSE 1)

(* next() and prev(): the branch after and before a symbol that may be no   *)
(* branch itself; first within the symbol's group, then the next group.     *)
NextBranch(n, c) ==
    LET g == BitIndex(n.upper, Ubit(c))
        own == IF Ubit(c) \in n.upper THEN {b \in n.lower[g + 1] : b > Lbit(c)} ELSE {}
        groups == {u \in n.upper : u > Ubit(c)}
    IN IF own # {} THEN Ubit(c) * Group + Min(own)
       ELSE IF groups = {} THEN OUT_OF_RANGE
       ELSE Min(groups) * Group + Min(n.lower[BitIndex(n.upper, Min(groups)) + 1])
PrevBranch(n, c) ==
    LET g == BitIndex(n.upper, Ubit(c))
        own == IF Ubit(c) \in n.upper THEN {b \in n.lower[g + 1] : b < Lbit(c)} ELSE {}
        groups == {u \in n.upper : u < Ubit(c)}
    IN IF c = NONE THEN OUT_OF_RANGE
       ELSE IF own # {} THEN Ubit(c) * Group + Max(own)
       ELSE IF groups # {} THEN Max(groups) * Group + Max(n.lower[BitIndex(n.upper, Max(groups)) + 1])
       ELSE IF n.none THEN NONE ELSE OUT_OF_RANGE

(* for_each_branch(): the symbols in the order of the array. *)
BranchKeys(n) ==
    LET groups == SetToSortSeq(n.upper, LAMBDA a, b : a < b)
        symbols(i) == SetToSortSeq({groups[i] * Group + b : b \in n.lower[i]}, LAMBDA a, b : a < b)
    IN (IF n.none THEN <<NONE>> ELSE << >>)
       \o FoldLeft(LAMBDA s, i : s \o symbols(i), << >>, [i \in DOMAIN groups |-> i])
==============================================================================
