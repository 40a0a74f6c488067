-------------------------------- MODULE Areas --------------------------------
(***************************************************************************)
(* memory/_memory.hpp: Area, AreaList, AreaPool and _recover_areas; the    *)
(* area part of db/_db.hpp and of storage/_mmap.hpp.                       *)
(*                                                                         *)
(* The file grows in areas.  A database owns two chains of them, one of    *)
(* single areas and one of multi areas: the header has the heads, every    *)
(* transaction its own tails.  Free areas are in the two lists of a pool.  *)
(* All of this is linked through the areas themselves, so an area that     *)
(* changes hands takes its link with it.                                   *)
(*                                                                         *)
(* Abstractions.  Offsets are counted in AREA_SIZE; position 0 is the file *)
(* header and doubles as the null offset.  One process at a time has the   *)
(* file open; its threads write to several databases at once.              *)
(* atomic_switch() makes every change of a list one step.  What the areas  *)
(* contain is not modelled: own and draft are ghosts that remember in      *)
(* which areas committed and uncommitted data of a database is.            *)
(***************************************************************************)
EXTENDS Naturals, Sequences, FiniteSetsExt, Functions

CONSTANTS DBs,
          MIN_GROWTH,  \* areas the file grows by at least, 10 in the program
          MAX_ITER,    \* areas find_and_remove() looks at, 10 in the program
          MapSize,     \* size of the mapped region
          MaxMulti,    \* bound: areas of one request for a multi area
          MaxKills,    \* bound: number of crashes
          Cases        \* which of the following the run includes

(* "undo":  a crash inside rollback() of a prepared transaction             *)
(* "stale": return_areas() of a chain that goes on beyond its tail, with an *)
(*          area of a transaction a crash has cut off                       *)
AllCases == {"undo", "stale"}

ASSUME AreasAssumption ==
    /\ MIN_GROWTH \in Nat \ {0} /\ MAX_ITER \in Nat \ {0}
    /\ MapSize \in Nat \ {0} /\ MaxMulti \in Nat \ {0} /\ MaxKills \in Nat
    /\ Cases \subseteq AllCases

VARIABLES
    next, size,   \* the headers of the areas
    pool,         \* area_pool: head and tail of its two lists
    file_size,
    db,           \* the databases: entry, header, committed and active tails
    up,           \* a process has the file open
    clean_close,
    lost,         \* areas recover_areas() took for occupied without need (ghost)
    kills

vars == <<next, size, pool, file_size, db, up, clean_close, lost, kills>>

Offset == 0 .. MapSize - 1
List   == [head : Offset, tail : Offset]
Kind   == {"single", "multi"}
NoLink == [k \in Kind |-> 0]

(* win: program point inside rollback() ("single", "multi" returned, not    *)
(* yet unlinked) or remove() ("entry"), with file_lock held; txn: the       *)
(* transaction of the database; sane: sanitized since the file was opened.  *)
Database == [entry : BOOLEAN, head : [Kind -> Offset], tail : [Kind -> Offset],
             atail : [Kind -> Offset], txn : {"none", "open", "prepared"},
             win : {"", "single", "multi", "entry"}, sane : BOOLEAN,
             own : SUBSET Offset, draft : SUBSET Offset]
NoDatabase == [entry |-> FALSE, head |-> NoLink, tail |-> NoLink, atail |-> NoLink,
               txn |-> "none", win |-> "", sane |-> TRUE, own |-> {}, draft |-> {}]

-----------------------------------------------------------------------------
(* The areas as a record, and the operations of AreaList and AreaPool. *)
Mem == [next |-> next, size |-> size, pool |-> pool, file_size |-> file_size]

Store(m) ==
    /\ next' = m.next /\ size' = m.size /\ pool' = m.pool
    /\ file_size' = m.file_size

(* The areas from one on, at most n of them.  Position 0 has no successor. *)
Follow(nx, from) == LET at[i \in Nat] == IF i = 0 THEN from ELSE nx[at[i - 1]] IN at
Walk(nx, from, n) ==
    LET at == Follow(nx, from)
    IN [i \in {j \in 1 .. n : at[j - 1] # 0} |-> at[i - 1]]

atomic_switch(m, k, head, tail) == [m EXCEPT !.pool[k] = [head |-> head, tail |-> tail]]

(* pop() of the single areas; the result is 0 if there is none. *)
Pop(m) ==
    LET l == m.pool["single"]
        n == m.next[l.head]
    IN IF l.head = 0 THEN [m |-> m, area |-> 0]
       ELSE [m |-> atomic_switch(m, "single", n, IF n = 0 THEN 0 ELSE l.tail),
             area |-> l.head]

(* push() to the multi areas. *)
Push(m, area, n) ==
    LET l == m.pool["multi"]
    IN atomic_switch([m EXCEPT !.next[area] = l.head, !.size[area] = n], "multi",
                     area, IF l.tail = 0 THEN area ELSE l.tail)

(* find_and_remove(): the first area that is large enough is unlinked and,  *)
(* if too large, split; the rest becomes the head.                          *)
Rest_KeepSize(m, curr, n, head) ==
    IF m.size[curr] = n THEN [m |-> m, head |-> head]
    ELSE [m |-> [m EXCEPT !.next[curr + n] = head, !.size[curr + n] = m.size[curr] - n],
          head |-> curr + n]
Rest(m, curr, n, head) ==
    IF m.size[curr] = n THEN [m |-> m, head |-> head]
    ELSE [m |-> [m EXCEPT !.next[curr + n] = head, !.size[curr + n] = m.size[curr] - n,
                          !.size[curr] = n],
          head |-> curr + n]

LastAfter_Keep(l, curr, prev) == IF curr = l.tail /\ prev = 0 THEN 0 ELSE l.tail
LastAfter(l, curr, prev) == IF curr = l.tail THEN prev ELSE l.tail
Fits(m, n) == {i \in DOMAIN Walk(m.next, m.pool["multi"].head, MAX_ITER) :
                  m.size[Walk(m.next, m.pool["multi"].head, MAX_ITER)[i]] >= n}
FindAndRemove(m, n) ==
    IF Fits(m, n) = {} THEN [m |-> m, area |-> 0]
    ELSE LET l    == m.pool["multi"]
             i    == Min(Fits(m, n))
             path == Walk(m.next, l.head, i)
             curr == path[i]
             prev == IF i = 1 THEN 0 ELSE path[i - 1]
             cut  == IF prev = 0 THEN m ELSE [m EXCEPT !.next[prev] = m.next[curr]]
             tail == LastAfter(l, curr, prev)
             r    == Rest(cut, curr, n, IF prev = 0 THEN m.next[curr] ELSE l.head)
         IN [m |-> atomic_switch(r.m, "multi", r.head, IF tail = 0 THEN r.head ELSE tail),
             area |-> curr]

(* add(): a chain at the end of a list. *)
Add(m, k, head, tail) ==
    IF head = 0 THEN m
    ELSE IF m.pool[k].head = 0 THEN atomic_switch(m, k, head, tail)
    ELSE atomic_switch([m EXCEPT !.next[m.pool[k].tail] = head], k, m.pool[k].head, tail)

(* resize_file(): what is not asked for goes to the multi areas.  StorageFull *)
(* leaves everything as it is.                                                *)
Growth(n) == Max({n, MIN_GROWTH, file_size \div 4})
Resized(m, n) ==
    LET at == m.file_size
        g  == [m EXCEPT !.file_size = @ + Growth(n), !.next[at] = 0, !.size[at] = n]
    IN [m |-> IF Growth(n) > n THEN Push(g, at + n, Growth(n) - n) ELSE g, area |-> at]

(* alloc_single_area() and alloc_multi_area() of AreaPool and the storage. *)
Unlinked(r) == [r EXCEPT !.m.next[r.area] = 0]
FromPool(m, k, n) ==
    LET s == IF k = "single" THEN Pop(m) ELSE [m |-> m, area |-> 0]
    IN IF s.area # 0 THEN s ELSE FindAndRemove(m, n)
CanAlloc(k, n) == FromPool(Mem, k, n).area # 0 \/ file_size + Growth(n) <= MapSize
Alloc(m, k, n) ==
    LET r == FromPool(m, k, n)
    IN IF r.area # 0 THEN Unlinked(r) ELSE Resized(m, n)

FileLock == \A d \in DBs : db[d].win = ""      \* free
Usable(d) == up /\ db[d].entry /\ db[d].sane /\ db[d].win = ""
Ready(d)  == Usable(d) /\ FileLock

-----------------------------------------------------------------------------
Init ==
    /\ next = [o \in Offset |-> 0] /\ size = [o \in Offset |-> 0]
    /\ pool = [k \in Kind |-> [head |-> 0, tail |-> 0]]
    /\ file_size = 1
    /\ db = [d \in DBs |-> NoDatabase]
    /\ up = TRUE /\ clean_close = FALSE
    /\ lost = {} /\ kills = 0

(* open() of a new database, and init(). *)
Create(d) ==
    /\ up /\ FileLock /\ ~db[d].entry
    /\ CanAlloc("single", 1)
    /\ LET r     == Alloc(Mem, "single", 1)
           chain == [NoLink EXCEPT !["single"] = r.area]
       IN /\ Store(r.m)
          /\ db' = [db EXCEPT ![d] = [NoDatabase EXCEPT !.entry = TRUE, !.head = chain,
                                        !.tail = chain, !.own = {r.area}]]
    /\ UNCHANGED <<up, clean_close, lost, kills>>

StartTransaction(d) ==
    /\ Usable(d) /\ db[d].txn = "none"
    /\ db' = [db EXCEPT ![d].txn = "open", ![d].atail = db[d].tail]
    /\ UNCHANGED <<next, size, pool, file_size, up, clean_close, lost, kills>>

(* alloc_single_area() and alloc_multi_area() of _DB: the new area goes to   *)
(* the end of the transaction's chain; the first multi area is the head.     *)
Blocks(m, area) == area .. area + m.size[area] - 1
Linked_Never(r, last) == r.m
Linked(r, last) == IF last = 0 THEN r.m ELSE [r.m EXCEPT !.next[last] = r.area]

AllocArea(d, k, n) ==
    /\ Ready(d) /\ db[d].txn = "open"
    /\ k = "single" => n = 1
    /\ CanAlloc(k, n)
    /\ LET r == Alloc(Mem, k, n)
       IN /\ Store(Linked(r, db[d].atail[k]))
          /\ db' = [db EXCEPT ![d].atail[k] = r.area,
                              ![d].head[k] = IF db[d].atail[k] = 0 THEN r.area ELSE @,
                              ![d].draft = @ \cup Blocks(r.m, r.area)]
    /\ UNCHANGED <<up, clean_close, lost, kills>>

PrepareCommit(d) ==
    /\ Usable(d) /\ db[d].txn = "open"
    /\ db' = [db EXCEPT ![d].txn = "prepared"]
    /\ UNCHANGED <<next, size, pool, file_size, up, clean_close, lost, kills>>

Commit(d) ==
    /\ Usable(d) /\ db[d].txn # "none"
    /\ db' = [db EXCEPT ![d].txn = "none", ![d].tail = db[d].atail, ![d].atail = NoLink,
                        ![d].own = @ \cup db[d].draft, ![d].draft = {}]
    /\ UNCHANGED <<next, size, pool, file_size, up, clean_close, lost, kills>>

(* rollback(): return_areas_range() gives the areas of the transaction to    *)
(* the pool, then unlinks them; single areas first.                          *)
Range0(d, k) == IF db[d].tail[k] = 0 THEN db[d].head[k] ELSE next[db[d].tail[k]]
Returned(m, d, k) ==
    IF db[d].atail[k] = db[d].tail[k] THEN m ELSE Add(m, k, Range0(d, k), db[d].atail[k])
Cut(m, d, k) ==
    IF db[d].atail[k] = db[d].tail[k] \/ db[d].tail[k] = 0 THEN m
    ELSE [m EXCEPT !.next[db[d].tail[k]] = 0]

FirstMulti(d) == db[d].tail["multi"] = 0 /\ db[d].atail["multi"] # 0

RollbackSingle(d) ==
    /\ Ready(d) /\ db[d].txn # "none"
    /\ Store(Returned(Mem, d, "single"))
    /\ db' = [db EXCEPT ![d].win = "single"]
    /\ UNCHANGED <<up, clean_close, lost, kills>>

RollbackMulti(d) ==
    /\ up /\ db[d].win = "single"
    /\ Store(Returned(Cut(Mem, d, "single"), d, "multi"))
    /\ db' = [db EXCEPT ![d].win = "multi"]
    /\ UNCHANGED <<up, clean_close, lost, kills>>

RollbackEnd(d) ==
    /\ up /\ db[d].win = "multi"
    /\ Store(Cut(Mem, d, "multi"))
    /\ db' = [db EXCEPT ![d].win = "", ![d].txn = "none",
                        ![d].draft = {}, ![d].atail = NoLink,
                        ![d].head["multi"] = IF FirstMulti(d) THEN 0 ELSE @]
    /\ UNCHANGED <<up, clean_close, lost, kills>>

(* return_areas() of remove(), and the entry of the directory.  A database   *)
(* the process has not opened yet is not asked for transactions.            *)
Chained(d, k) == db[d].head[k] # 0 /\ db[d].tail[k] # 0
ChainReturned(m, d, k) ==
    IF Chained(d, k) THEN Add(m, k, db[d].head[k], db[d].tail[k]) ELSE m
AllReturned(m, d) == ChainReturned(ChainReturned(m, d, "single"), d, "multi")
StaleTail(d) == \E k \in Kind : Range0(d, k) # 0

Remove(d) ==
    /\ up /\ FileLock /\ db[d].entry
    /\ db[d].sane => db[d].txn = "none"
    /\ "stale" \in Cases \/ ~StaleTail(d)
    /\ Store(AllReturned(Mem, d))
    /\ db' = [db EXCEPT ![d].win = "entry"]
    /\ UNCHANGED <<up, clean_close, lost, kills>>

RemoveEntry(d) ==
    /\ up /\ db[d].win = "entry"
    /\ db' = [db EXCEPT ![d] = NoDatabase]
    /\ UNCHANGED <<next, size, pool, file_size, up, clean_close, lost, kills>>

(* reset_in_place(): everything but the first area is returned. *)
ResetInPlace(d) ==
    LET h  == db[d].head["single"]
        m  == IF next[h] = 0 THEN Mem
              ELSE [Add(Mem, "single", next[h], db[d].tail["single"])
                       EXCEPT !.next[h] = 0]
        t  == [NoLink EXCEPT !["single"] = h]
    IN /\ Ready(d) /\ db[d].txn = "none"
       /\ "stale" \in Cases \/ ~StaleTail(d)
       /\ Store(ChainReturned(m, d, "multi"))
       /\ db' = [db EXCEPT ![d].head["multi"] = IF Chained(d, "multi") THEN 0 ELSE @,
                           ![d].tail = t, ![d].own = {h}]
       /\ UNCHANGED <<up, clean_close, lost, kills>>

-----------------------------------------------------------------------------
(* The process ends: by the destructor, with every cursor gone (a prepared  *)
(* transaction that was recovered has none), or not.                        *)
Close ==
    /\ up /\ FileLock /\ \A d \in DBs : db[d].txn # "open"
    /\ up' = FALSE /\ clean_close' = TRUE
    /\ UNCHANGED <<next, size, pool, file_size, db, lost, kills>>

Kill ==
    /\ up /\ kills < MaxKills
    /\ "undo" \in Cases \/ \A d \in DBs : db[d].txn = "prepared" => db[d].win = ""
    /\ up' = FALSE /\ kills' = kills + 1
    /\ db' = [d \in DBs |->
                 IF db[d].txn = "open"
                 THEN [db[d] EXCEPT !.win = "", !.draft = {}, !.atail = NoLink]
                 ELSE [db[d] EXCEPT !.win = ""]]
    /\ UNCHANGED <<next, size, pool, file_size, clean_close, lost>>

(* recover_areas(): the areas in the chains of the databases, followed to    *)
(* their end, are occupied; runs of others are the new pool.                 *)
Spanned(head) == UNION {Blocks(Mem, a) : a \in Range(Walk(next, head, MapSize))}
Occupied == UNION {Spanned(db[d].head[k]) : d \in {e \in DBs : db[e].entry}, k \in Kind}
Free == (1 .. file_size - 1) \ Occupied

RunLength(o) == CHOOSE n \in 1 .. MapSize :
                   o .. o + n - 1 \subseteq Free /\ o + n \notin Free
Runs(k) == {o \in Free : o - 1 \notin Free /\ (k = "single" <=> RunLength(o) = 1)}

Recovered ==
    LET start == Runs("single") \cup Runs("multi")
        after(k, o) == LET later == {x \in Runs(k) : x > o}
                       IN IF later = {} THEN 0 ELSE Min(later)
        list(k) == IF Runs(k) = {} THEN [head |-> 0, tail |-> 0]
                   ELSE [head |-> Min(Runs(k)), tail |-> Max(Runs(k))]
    IN [Mem EXCEPT
          !.next = [o \in Offset |-> IF o \notin start THEN next[o]
                                     ELSE IF RunLength(o) = 1 THEN after("single", o)
                                     ELSE after("multi", o)],
          !.size = [o \in Offset |-> IF o \in start THEN RunLength(o) ELSE size[o]],
          !.pool = [k \in Kind |-> list(k)]]

(* sanitize() of the storage.  Committed data, and that of a prepared        *)
(* transaction, is to be kept.                                               *)
Kept == (UNION {db[d].own : d \in DBs})
        \cup (UNION {db[d].draft : d \in {e \in DBs : db[e].txn = "prepared"}})
Open ==
    /\ ~up
    /\ IF clean_close THEN Store(Mem) /\ UNCHANGED lost
       ELSE Store(Recovered) /\ lost' = Occupied \ Kept
    /\ up' = TRUE /\ clean_close' = FALSE
    /\ db' = [d \in DBs |-> [db[d] EXCEPT !.sane = FALSE]]
    /\ UNCHANGED kills

(* sanitize() of a database: an open transaction is forgotten, and its page *)
(* replaced, which may take an area; a prepared one goes on.                *)
Dropped(d) == [db[d] EXCEPT !.sane = TRUE, !.txn = IF @ = "open" THEN "none" ELSE @]
SanitizeDB(d, grow) ==
    /\ up /\ FileLock /\ db[d].entry /\ ~db[d].sane
    /\ IF grow
       THEN /\ db[d].txn = "open" /\ CanAlloc("single", 1)
            /\ LET r == Alloc(Mem, "single", 1)
               IN /\ Store(Linked(r, db[d].tail["single"]))
                  /\ db' = [db EXCEPT ![d] = [Dropped(d) EXCEPT !.tail["single"] = r.area,
                                                                !.own = @ \cup {r.area}]]
       ELSE /\ Store(Mem)
            /\ db' = [db EXCEPT ![d] = Dropped(d)]
    /\ UNCHANGED <<up, clean_close, lost, kills>>

Next ==
    \/ \E d \in DBs :
          \/ Create(d) \/ StartTransaction(d) \/ PrepareCommit(d) \/ Commit(d)
          \/ \E k \in Kind, n \in 1 .. MaxMulti : AllocArea(d, k, n)
          \/ RollbackSingle(d) \/ RollbackMulti(d) \/ RollbackEnd(d)
          \/ Remove(d) \/ RemoveEntry(d) \/ ResetInPlace(d)
          \/ \E grow \in BOOLEAN : SanitizeDB(d, grow)
    \/ Close \/ Kill \/ Open

Spec == Init /\ [][Next]_vars

-----------------------------------------------------------------------------
(* Properties *)
Listed(k) == Walk(next, pool[k].head, MapSize)
Pooled == UNION {Spanned(pool[k].head) : k \in Kind}
InUse(d) == db[d].own \cup db[d].draft
Settled == up /\ FileLock

(* Heads, tails and links stay offsets of the mapped region, and           *)
(* resize_file() never grows the file beyond it.                          *)
TypeOK ==
    /\ next \in [Offset -> Offset] /\ size \in [Offset -> 0 .. MapSize]
    /\ pool \in [Kind -> List] /\ file_size \in 1 .. MapSize
    /\ db \in [DBs -> Database]
    /\ up \in BOOLEAN /\ clean_close \in BOOLEAN
    /\ lost \subseteq Offset /\ kills \in 0 .. MaxKills

(* No area has two owners: not two databases, not a database and the pool,  *)
(* not two places of the pool.                                              *)
AreasOnce ==
    Settled =>
          /\ \A d \in DBs : InUse(d) \cap Pooled = {}
          /\ \A d, e \in DBs : d # e => InUse(d) \cap InUse(e) = {}
          /\ \A k, l \in Kind : \A i \in DOMAIN Listed(k), j \in DOMAIN Listed(l) :
                <<k, i>> # <<l, j>> =>
                    Blocks(Mem, Listed(k)[i]) \cap Blocks(Mem, Listed(l)[j]) = {}

(* "the entire usable file is exactly partitioned between DB-owned areas    *)
(* and the free-area pool - no gaps, no leaks", but for the areas a crash   *)
(* has left linked to a chain.                                              *)
Partitioned ==
    Settled => 1 .. file_size - 1 = Pooled \cup lost \cup UNION {InUse(d) : d \in DBs}

(* What recover_areas() would find if the process died now is everything    *)
(* committed or prepared.                                                   *)
Recoverable == FileLock => Kept \subseteq Occupied
=============================================================================
