-------------------------------- MODULE Hash --------------------------------
(***************************************************************************)
(* The dynamically expanding hash tables of the run-time system            *)
(* (rts/Hash.c): linear hashing with separate chaining, in segments that   *)
(* are allocated as the table grows and whose buckets are not initialised. *)
(***************************************************************************)
EXTENDS Integers, Sequences, FiniteSets, SequencesExt

CONSTANTS
    Keys,       \* the keys (addresses in words, or the hash values of strings)
    Data,       \* the number of data; they are stored in turn
    HSEGSIZE,   \* buckets of a segment, a power of two
    HDIRSIZE,   \* segments of the directory
    HLOAD,      \* the load at which the table expands
    HCHUNK,     \* cells allocated at a time
    MaxInserts  \* bound

Junk == <<[c |-> 0]>>   \* an uninitialised chain

VARIABLES
    dir,        \* bucket -> its chain of cells, the first first; Junk when never written
    segs,       \* the number of segments allocated
    hsplit,     \* next bucket to split
    hmax,       \* number of buckets of the smaller table (mask1 = max - 1, mask2 = 2 max - 1)
    kcount,
    bcount,
    hfree,      \* the cells on the free list
    chunks,     \* the number of cells allocated in chunks
    abstract,   \* what was inserted and not removed, as a set of <<key, data, serial number>>
    hserial,    \* the number of insertions so far
    hret,       \* what the last operation returned
    freed       \* the data freed by freeHashTable, <<>> while the table lives

vars == <<dir, segs, hsplit, hmax, kcount, bcount, hfree, chunks, abstract, hserial, hret, freed>>

NULL == -1
Buckets == 0..(HSEGSIZE * HDIRSIZE - 1)

\* Hash first using the smaller table; if the bucket has been split, use the larger one.
hashWord(key, s, m) == IF key % m < s THEN key % (2 * m) ELSE key % m

Bucket(key) == hashWord(key, hsplit, hmax)

\* A cell is [c |-> its number, key, data, serial].
allocHashTable ==
  /\ segs = 1 /\ dir = [b \in Buckets |-> IF b < HSEGSIZE THEN <<>> ELSE Junk]
  /\ hsplit = 0 /\ hmax = HSEGSIZE /\ kcount = 0 /\ bcount = HSEGSIZE
  /\ hfree = <<>> /\ chunks = 0
  /\ abstract = {} /\ hserial = 0 /\ hret = <<"done">> /\ freed = <<>>

\* expand: one bucket is split in two; the order within them is reversed.
TooBig == hsplit + hmax >= HDIRSIZE * HSEGSIZE
Split(s, m) == IF s + 1 = m THEN [s |-> 0, m |-> 2 * m] ELSE [s |-> s + 1, m |-> m]

Expanded ==
  LET new == hmax + hsplit
      t == Split(hsplit, hmax)
      goes(cell) == hashWord(cell.key, t.s, t.m) = new
  IN [dir EXCEPT ![hsplit] = Reverse(SelectSeq(@, LAMBDA cell : ~ goes(cell))),
                 ![new] = Reverse(SelectSeq(dir[hsplit], goes))]

expand(d, s, m, bc, sg) ==
  IF TooBig
  THEN d = dir /\ s = hsplit /\ m = hmax /\ bc = bcount /\ sg = segs
  ELSE /\ d = Expanded
       /\ s = Split(hsplit, hmax).s /\ m = Split(hsplit, hmax).m
       /\ bc = bcount + 1
       /\ sg = IF (hmax + hsplit) % HSEGSIZE = 0 THEN segs + 1 ELSE segs

\* Cells come from the free list, or from a new chunk whose others go on it.
NewCell == IF hfree # <<>> THEN Head(hfree) ELSE chunks + 1

AllocHashList ==
  IF hfree # <<>> THEN hfree' = Tail(hfree) /\ chunks' = chunks
  ELSE hfree' = [k \in 1..(HCHUNK - 1) |-> chunks + 1 + k] /\ chunks' = chunks + HCHUNK

insertHashTable(key, data) ==
  /\ freed = <<>> /\ hserial < MaxInserts
  /\ kcount' = kcount + 1 /\ AllocHashList
  /\ \E d \in {IF kcount + 1 >= HLOAD * bcount /\ ~ TooBig THEN Expanded ELSE dir} :
       /\ IF kcount + 1 >= HLOAD * bcount
          THEN expand(d, hsplit', hmax', bcount', segs')
          ELSE UNCHANGED <<hsplit, hmax, bcount, segs>>
       /\ dir' = [d EXCEPT ![hashWord(key, hsplit', hmax')] =
                    <<[c |-> NewCell, key |-> key, data |-> data, serial |-> hserial]>> \o @]
  /\ abstract' = abstract \cup {<<key, data, hserial>>} /\ hserial' = hserial + 1
  /\ hret' = <<"done">> /\ freed' = freed

\* The cells of a chain for the key, and for the datum if one is given.
Found(chain, key, data) ==
  {k \in DOMAIN chain : chain[k].key = key /\ (data = NULL \/ chain[k].data = data)}
First(ks) == CHOOSE k \in ks : \A j \in ks : k <= j

lookupHashTable(key) ==
  /\ freed = <<>>
  /\ \E chain \in {dir[Bucket(key)]} :
        hret' = IF Found(chain, key, NULL) = {} THEN <<"none", key>>
                ELSE <<"data", key, chain[First(Found(chain, key, NULL))].data>>
  /\ UNCHANGED <<dir, segs, hsplit, hmax, kcount, bcount, hfree, chunks, abstract, hserial, freed>>

removeHashTable(key, data) ==
  /\ freed = <<>>
  /\ \E chain \in {dir[Bucket(key)]}, ks \in {Found(dir[Bucket(key)], key, data)} :
       IF ks = {}
       THEN /\ hret' = <<"done">>
            /\ UNCHANGED <<dir, kcount, hfree, abstract>>
       ELSE \E cell \in {chain[First(ks)]} :
            /\ dir' = [dir EXCEPT ![Bucket(key)] = RemoveAt(@, First(ks))]
            /\ hfree' = <<cell.c>> \o hfree /\ kcount' = kcount - 1
            /\ abstract' = abstract \ {<<key, cell.data, cell.serial>>}
            /\ hret' = <<"done">>
  /\ UNCHANGED <<segs, hsplit, hmax, bcount, chunks, hserial, freed>>

\* The last bucket with something in it.
LastBucket == hmax + hsplit - 1

\* freeHashTable walks the buckets from the last one down, segment by segment; what it does to
\* a bucket that was never written is not known.
freeHashTable ==
  /\ freed = <<>>
  /\ freed' = <<FlattenSeq([b \in 1..(LastBucket + 1) |->
                  IF dir[b - 1] = Junk THEN <<-1>>
                  ELSE [k \in DOMAIN dir[b - 1] |-> dir[b - 1][k].serial]]),
                LastBucket \div HSEGSIZE + 1>>
  /\ hret' = <<"done">>
  /\ UNCHANGED <<dir, segs, hsplit, hmax, kcount, bcount, hfree, chunks, abstract, hserial>>

Next ==
  \/ \E k \in Keys : insertHashTable(k, hserial % Data)
  \/ \E k \in Keys : lookupHashTable(k)
  \/ \E k \in Keys, d \in {NULL} \cup 0..(Data - 1) : removeHashTable(k, d)
  \/ freeHashTable

-----------------------------------------------------------------------------
(* Properties. *)

Cells == UNION {{dir[b][k] : k \in DOMAIN dir[b]} : b \in {x \in Buckets : dir[x] # Junk}}

\* After any number of expansions, every pair that was inserted and not removed is found from
\* its key, in a bucket that has been initialised, and nothing else is in the table: a lookup
\* answers a datum that is stored under the key, or that there is none.
TableIsMap ==
  /\ \A b \in 0..(hmax + hsplit - 1) : dir[b] # Junk /\ b \div HSEGSIZE < segs
  /\ \A b \in 0..(hmax + hsplit - 1) : \A k \in DOMAIN dir[b] : Bucket(dir[b][k].key) = b
  /\ {<<cell.key, cell.data, cell.serial>> : cell \in Cells} = abstract
  /\ Cardinality(Cells) = kcount /\ bcount = hmax + hsplit
  /\ hret[1] = "none" => \A e \in abstract : e[1] # hret[2]
  /\ hret[1] = "data" => \E e \in abstract : e[1] = hret[2] /\ e[2] = hret[3]

\* No cell is both in the table and on the free list, and none is lost.
CellsKept ==
  /\ {cell.c : cell \in Cells} \cap Range(hfree) = {}
  /\ Cardinality({cell.c : cell \in Cells}) + Cardinality(Range(hfree)) = chunks
  /\ Cardinality(Range(hfree)) = Len(hfree)

\* Freeing a table frees every datum in it once, and every segment.
FreesAll ==
  freed # <<>> => /\ Range(freed[1]) = {e[3] : e \in abstract}
                  /\ Len(freed[1]) = Cardinality(abstract) /\ freed[2] = segs
=============================================================================
