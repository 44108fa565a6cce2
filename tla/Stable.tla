------------------------------- MODULE Stable -------------------------------
(***************************************************************************)
(* Stable pointers and stable names (rts/Stable.c and the primitive        *)
(* operations on them in rts/PrimOps.cmm).                                 *)
(*                                                                         *)
(* Objects live at addresses and are moved by the collector, which runs    *)
(* while no Haskell thread does.  A thunk becomes an indirection to the    *)
(* object that is its value, and the collector removes indirections.       *)
(* Every operation holds stable_mutex from its first to its last step.     *)
(***************************************************************************)
EXTENDS Integers, Sequences, FiniteSets, SequencesExt

CONSTANTS
    Objects,       \* heap objects: 1..n
    Addresses,     \* addresses: 1..m
    INIT_SPT_SIZE, \* the first size of the table; index 0 is not used
    MaxSize,       \* bound: the size of the table
    MaxPtrs,       \* bound: stable pointers and stable names made
    MaxGCs         \* bound: collections

VARIABLES
    spt,       \* stable_ptr_table: index -> [addr, old, ref, sn_obj]
    sfree,     \* stable_ptr_free: the list of free entries
    shash,     \* addrToStableHash: address -> the indices inserted for it, the newest first
    place,     \* object -> its address, 0 if there is no such object (yet, or any more)
    value,     \* object -> the object it is an indirection to, itself if it is none
    aged,      \* the objects of the old generation
    sroots,    \* the objects that the program can reach
    sptrs,     \* the stable pointers that are in use: [id, sn, of]
    snames,    \* the StableName objects: [id, sn, of, live]
    sids,      \* the stable pointers and names made so far
    sgcs,      \* the collections so far
    spoilt     \* history: what has happened that the properties leave out, by name

vars == <<spt, sfree, shash, place, value, aged, sroots, sptrs, snames, sids, sgcs, spoilt>>

NULL == 0
Internal == -1     \* a pointer into the table: the entry is free, and not the last one of the list

\* initFreeList: n free entries from index first on; the last one has no successor.
initFreeList(first, n) ==
  [i \in first..(first + n - 1) |->
     [addr |-> IF i = first + n - 1 THEN NULL ELSE Internal, old |-> NULL, ref |-> 0, sn_obj |-> NULL]]

\* initStablePtrTable
Init ==
  /\ spt = initFreeList(1, INIT_SPT_SIZE - 1) /\ sfree = [k \in 1..(INIT_SPT_SIZE - 1) |-> k]
  /\ shash = [a \in Addresses |-> <<>>]
  /\ place = [o \in Objects |-> 0] /\ value = [o \in Objects |-> o] /\ aged = {} /\ sroots = {}
  /\ sptrs = {} /\ snames = {} /\ sids = 0 /\ sgcs = 0 /\ spoilt = {}

-----------------------------------------------------------------------------
(* The program. *)

Vacant == {a \in Addresses : \A o \in Objects : place[o] # a}

\* A new object takes the first vacant address.
Allocate(o) ==
  /\ place[o] = 0 /\ \A p \in sptrs \cup snames : p.of # o
  /\ \A q \in Objects : q < o => place[q] # 0 \/ \E p \in sptrs \cup snames : p.of = q
  /\ \E a \in Vacant :
       /\ \A b \in Vacant : a <= b
       /\ place' = [place EXCEPT ![o] = a]
  /\ sroots' = sroots \cup {o}
  /\ UNCHANGED <<spt, sfree, shash, value, aged, sptrs, snames, sids, sgcs, spoilt>>

\* The thunk o is updated with v.
Update(o, v) ==
  /\ o # v /\ {o, v} \subseteq sroots /\ value[o] = o /\ value[v] = v
  /\ \A u \in Objects : value[u] = o => u = o
  /\ value' = [value EXCEPT ![o] = v]
  /\ UNCHANGED <<spt, sfree, shash, place, aged, sroots, sptrs, snames, sids, sgcs, spoilt>>

Forget(o) ==
  /\ o \in sroots /\ sroots' = sroots \ {o}
  /\ UNCHANGED <<spt, sfree, shash, place, value, aged, sptrs, snames, sids, sgcs, spoilt>>

ForgetName(n) ==
  /\ n.live /\ snames' = (snames \ {n}) \cup {[n EXCEPT !.live = FALSE]}
  /\ UNCHANGED <<spt, sfree, shash, place, value, aged, sroots, sptrs, sids, sgcs, spoilt>>

-----------------------------------------------------------------------------
(* The table. *)

Size == Cardinality(DOMAIN spt) + 1

\* enlargeStablePtrTable doubles the table; there is no free entry when it is called.
Room == IF sfree # <<>> THEN <<spt, sfree>>
        ELSE <<spt @@ initFreeList(Size, Size), [k \in 1..Size |-> Size + k - 1]>>

\* removeHashTable(addrToStableHash, a, NULL): whatever was inserted last for the address.
Removed(h, a) == [h EXCEPT ![a] = IF @ = <<>> THEN @ ELSE Tail(@)]
Inserted(h, a, sn) == [h EXCEPT ![a] = <<sn>> \o @]

\* What a caller of lookupStableName_ does to the entry: count references, or set its StableName.
Claimed(e, refs, obj) == [e EXCEPT !.ref = @ + refs, !.sn_obj = IF @ = NULL THEN obj ELSE @]

\* lookupStableName_: the index sn of the object, and the entry it has then.
lookupStableName_(o, sn, refs, obj) ==
  \E room \in {Room}, p \in {place[value[o]]} :
    /\ sfree = <<>> => 2 * Size <= MaxSize
    /\ \/ /\ shash[p] # <<>> /\ sn = Head(shash[p])
          /\ spt' = [room[1] EXCEPT ![sn] = Claimed(@, refs, obj)]
          /\ sfree' = room[2] /\ shash' = shash
       \/ /\ shash[p] = <<>> /\ sn = Head(room[2])
          /\ spt' = [room[1] EXCEPT ![sn] = Claimed([addr |-> p, old |-> @.old, ref |-> 0, sn_obj |-> NULL], refs, obj)]
          /\ sfree' = Tail(room[2]) /\ shash' = Inserted(shash, p, sn)

getStablePtr(o) ==
  /\ o \in sroots /\ sids < MaxPtrs
  /\ \E sn \in 1..(MaxSize - 1) :
       /\ lookupStableName_(o, sn, 1, NULL)
       /\ sptrs' = sptrs \cup {[id |-> sids, sn |-> sn, of |-> value[o]]}
  /\ sids' = sids + 1
  /\ UNCHANGED <<place, value, aged, sroots, snames, sgcs, spoilt>>

\* freeStableName; the address a free entry holds is its successor in the list.
freeStableName(st, i) ==
  [table |-> [st.table EXCEPT ![i].addr = IF st.free = <<>> THEN NULL ELSE Internal],
   free |-> <<i>> \o st.free,
   hash |-> IF st.table[i].addr > 0 THEN Removed(st.hash, st.table[i].addr) ELSE st.hash]

Idle(e) == e.ref = 0 /\ e.sn_obj = NULL

\* freeStableName does not reset old, and updateStablePtrTable takes a freed entry with no
\* successor for one whose object died: it removes what the hash table has for that address
\* by then.
FreedLast(p) == sfree = <<>> /\ spt[p.sn].old # NULL /\ spt[p.sn].ref = 1 /\ spt[p.sn].sn_obj = NULL

freeStablePtr(p) ==
  /\ sptrs' = sptrs \ {p}
  /\ \E table \in {[spt EXCEPT ![p.sn].ref = @ - 1]} :
     \E st \in {[table |-> table, free |-> sfree, hash |-> shash]} :
     \E new \in {IF Idle(table[p.sn]) THEN freeStableName(st, p.sn) ELSE st} :
       spt' = new.table /\ sfree' = new.free /\ shash' = new.hash
  /\ spoilt' = spoilt \cup {w \in {"freed last"} : FreedLast(p)}
  /\ UNCHANGED <<place, value, aged, sroots, snames, sids, sgcs>>

\* stg_makeStableNamezh
makeStableName(o) ==
  /\ o \in sroots /\ sids < MaxPtrs
  /\ \E sn \in 1..(MaxSize - 1) :
       /\ lookupStableName_(o, sn, 0, sids + 1)
       /\ \E n \in {[id |-> spt'[sn].sn_obj, sn |-> sn, of |-> value[o], live |-> TRUE]} :
            snames' = {m \in snames : m.id # n.id} \cup {n}
  /\ sids' = sids + 1
  /\ UNCHANGED <<place, value, aged, sroots, sptrs, sgcs, spoilt>>

-----------------------------------------------------------------------------
(* The collector. *)

\* markStablePtrTable remembers where the objects were.
Marked == [i \in DOMAIN spt |-> IF spt[i].addr > 0 THEN [spt[i] EXCEPT !.old = spt[i].addr] ELSE spt[i]]

RootEntries == {i \in DOMAIN spt : spt[i].ref # 0 /\ spt[i].addr > 0}

\* The objects that survive, without the indirections: a minor collection keeps what is old.
Survivors(major) ==
  {value[o] : o \in sroots \cup {q \in Objects : \E i \in RootEntries : spt[i].addr = place[q]}
                    \cup (IF major THEN {} ELSE aged)}

\* Objects move to addresses that were free, in the order of their names; a minor collection
\* leaves old objects alone.
NewPlace(major) ==
  LET still == IF major THEN {} ELSE aged
      movers == Survivors(major) \ still
      targets == SetToSortSeq(Vacant, <)
      sorted == SetToSortSeq(movers, <)
  IN [o \in Objects |-> IF o \in movers THEN targets[CHOOSE k \in 1..Len(sorted) : sorted[k] = o]
                        ELSE IF o \in Survivors(major) \cap still THEN place[o] ELSE 0]

\* isAlive of the object that was at address a.
Alive(new, a) ==
  IF \E o \in Objects : place[o] = a THEN new[value[CHOOSE o \in Objects : place[o] = a]] ELSE NULL

LiveNames == {n \in snames : n.live}

\* gcStablePtrTable on entry i, after RootEntries were evacuated.
GcEntry(st, i, new) ==
  LET e == [st.table[i] EXCEPT !.sn_obj = IF \E n \in LiveNames : n.id = @ THEN @ ELSE NULL]
      t == [st EXCEPT !.table[i] = e]
  IN IF e.addr <= 0 \/ e.ref # 0 THEN t
     ELSE IF e.sn_obj = NULL THEN freeStableName(t, i)
     ELSE [t EXCEPT !.table[i].addr = Alive(new, e.addr)]

gcStablePtrTable(st, new) ==
  LET f[i \in 0..(Size - 1)] == IF i = 0 THEN st ELSE GcEntry(f[i - 1], i, new)
  IN f[Size - 1]

\* updateStablePtrTable: the hash table after entry i.
Rehashed(h, e, i, full) ==
  IF e.addr = NULL THEN IF e.old # NULL THEN Removed(h, e.old) ELSE h
  ELSE IF e.addr = Internal THEN h
  ELSE IF full THEN Inserted(h, e.addr, i)
  ELSE IF e.addr # e.old THEN Inserted(Removed(h, e.old), e.addr, i)
  ELSE h

updateStablePtrTable(st, full) ==
  LET f[i \in 0..(Size - 1)] ==
        IF i = 0 THEN IF full THEN [a \in Addresses |-> <<>>] ELSE st.hash
        ELSE Rehashed(f[i - 1], st.table[i], i, full)
  IN [st EXCEPT !.hash = f[Size - 1],
                !.table = [i \in DOMAIN st.table |->
                             IF st.table[i].addr = NULL THEN [st.table[i] EXCEPT !.old = NULL]
                             ELSE st.table[i]]]

\* Two entries for one object: a thunk that had one was evaluated to an object that has one too.
Shared ==
  LET Named == {o \in Objects : place[o] > 0 /\ \E i \in DOMAIN spt : spt[i].addr = place[o]}
  IN  \E o, q \in Named : o # q /\ value[o] = value[q]

\* A collection, with what it does to the table.
GarbageCollect(major) ==
  /\ sgcs < MaxGCs /\ sgcs' = sgcs + 1
  /\ \E new \in {NewPlace(major)} :
     \E evacuated \in {[i \in DOMAIN spt |-> IF i \in RootEntries THEN [Marked[i] EXCEPT !.addr = Alive(new, @)]
                                             ELSE Marked[i]]} :
     \E st \in {gcStablePtrTable([table |-> evacuated, free |-> sfree, hash |-> shash], new)} :
     \E up \in {updateStablePtrTable(st, major)} :
       /\ spt' = up.table /\ sfree' = up.free /\ shash' = up.hash
       /\ place' = new
       /\ aged' = Survivors(major)
  /\ spoilt' = spoilt \cup {w \in {"shared"} : Shared}
  /\ sroots' = {value[o] : o \in sroots}
  /\ value' = [o \in Objects |-> o]
  /\ sptrs' = {[p EXCEPT !.of = value[@]] : p \in sptrs}
  /\ snames' = {[n EXCEPT !.of = value[@]] : n \in LiveNames}
  /\ UNCHANGED sids

Next ==
  \/ \E o \in Objects : Allocate(o) \/ Forget(o) \/ getStablePtr(o) \/ makeStableName(o)
  \/ \E o, v \in Objects : Update(o, v)
  \/ \E n \in snames : ForgetName(n)
  \/ \E p \in sptrs : freeStablePtr(p)
  \/ \E major \in BOOLEAN : GarbageCollect(major)

-----------------------------------------------------------------------------
(* Properties. *)

\* What the properties leave out.  "shared": two entries for one object.  When one of them is freed,
\* removeHashTable with no data removes the one that was inserted last, so the hash table may be
\* left with the freed entry, which lookupStableName_ hands out although it is on the free list.
\* "freed last": the next collection may remove the entry of another object from the hash table,
\* and a second entry is made for that object.
Unspoilt == spoilt = {}

\* deRefStablePtr yields the object the stable pointer was made for, wherever it is now and
\* however many other stable pointers to it were freed, unless an object has two entries.
PtrsHold ==
  Unspoilt =>
    \A p \in sptrs : /\ place[p.of] > 0
                     /\ \E o \in Objects : value[o] = value[p.of] /\ spt[p.sn].addr = place[o] /\ place[o] > 0

\* Two StableNames are equal exactly if they were made for the same object, also after it
\* moved and after other names of it died (gcStablePtrTable, updateStablePtrTable), unless an object
\* has two entries: then Stable.c:85-87, "every call to lookupStableName on a given object will
\* return the same stable name", is not true either.
NamesIdentify == Unspoilt => \A m, n \in LiveNames : (m.sn = n.sn) <=> (m.of = n.of)

\* What the hash table finds for an address is an entry for that address (the assertion of
\* lookupStableName_), and an entry in use for an object is found, with the same exception.
HashFinds ==
  Unspoilt =>
    /\ \A a \in Addresses : \A k \in 1..Len(shash[a]) : spt[shash[a][k]].addr = a
    /\ \A i \in DOMAIN spt : spt[i].addr > 0 => Contains(shash[spt[i].addr], i)

\* The free list holds each entry once, and none that a stable pointer or a StableName has, with the
\* same exception.
FreeSound ==
  Unspoilt =>
    /\ IsInjective(sfree)
    /\ \A k \in 1..Len(sfree) : \A p \in sptrs \cup LiveNames : p.sn # sfree[k]
    /\ \A k \in 1..Len(sfree) : spt[sfree[k]].addr = IF k = Len(sfree) THEN NULL ELSE Internal

\* An entry that is not free is in use: it has a reference count, a StableName or an object.  TLC
\* refutes this: the entry of a StableName that outlives its object is never freed.
EntriesReclaimed ==
  \A i \in DOMAIN spt : Contains(sfree, i) \/ spt[i].ref # 0 \/ spt[i].sn_obj # NULL
                        \/ spt[i].addr > 0
=============================================================================
