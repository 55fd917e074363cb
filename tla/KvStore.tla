------------------------------ MODULE KvStore ------------------------------
(***************************************************************************)
(* The KVStore of the key-value server: an open-addressing hash table with *)
(* linear probing, whose entries name slots of a storage pool, and a stack *)
(* of the free slots.  There is no deletion: `deleted' is set by nothing,  *)
(* and is left out.                                                        *)
(*                                                                         *)
(* A value is a sequence of units of memory; a slot keeps what was copied  *)
(* into it, also past the end of a shorter value that came later.          *)
(***************************************************************************)
EXTENDS Integers, Sequences, FiniteSets, SequencesExt

CONSTANTS
    Key,             \* the keys in use
    HashKey,         \* the hash of each
    NumSlots,        \* total_storage_size / slot_size
    HashTableSizes,  \* StoreConfig::hash_table_size, 0 for automatic
    MinValueSize, MaxValueSize, ValueAlign,
    SizeMod,         \* number of values of a uint32_t (2^32)
    Unit,            \* what a unit of memory holds
    Values,          \* the values put, of any length
    SegmentLists,    \* the lists of segments put, ...
    Sizes            \* ... the sizes claimed for them, and room to get into

ASSUME KvStoreAssumption ==
    /\ HashKey \in [Key -> Nat]
    /\ NumSlots \in Nat \ {0}
    /\ HashTableSizes \subseteq Nat
    /\ MinValueSize \in Nat \ {0} /\ MaxValueSize \in Nat /\ ValueAlign \in Nat \ {0}
    /\ SizeMod \in Nat \ {0}
    /\ Values \subseteq Seq(Unit) /\ SegmentLists \subseteq Seq(Seq(Unit))
    /\ Sizes \subseteq Nat

\* No list is so long that the sum of its sizes wraps.  (PutSGL would take one
\* that does, and copy all of it.)
ASSUME SegmentListsAssumption ==
    \A segments \in SegmentLists : Len(FlattenSeq(segments)) < SizeMod

SlotIndex == 0 .. NumSlots - 1

VARIABLES hash_table, storage_pool, free_slots, used_slots, used_bytes,
          answer  \* history: the operation answered last, and its answer

storeVars == <<hash_table, storage_pool, free_slots, used_slots, used_bytes, answer>>

----------------------------------------------------------------------------

NextPowerOfTwo(n) ==
    LET power[i \in 0 .. n] == IF i = 0 THEN 1 ELSE 2 * power[i - 1]
    IN  Min({p \in {power[i] : i \in 0 .. n} : n <= p})

TableSizeOf(configured) ==
    NextPowerOfTwo(IF configured = 0 THEN NumSlots * 2 ELSE configured)

Position == DOMAIN hash_table

TableSize == Cardinality(Position)

NoEntry == [key |-> 0, slot_index |-> 0, value_size |-> 0, occupied |-> FALSE]

StoreInit ==
    /\ \E configured \in HashTableSizes :
           hash_table = [p \in 0 .. TableSizeOf(configured) - 1 |-> NoEntry]
    /\ storage_pool = [s \in SlotIndex |-> << >>]
    /\ free_slots = [i \in 1 .. NumSlots |-> NumSlots - i]
    /\ used_slots = 0
    /\ used_bytes = 0
    /\ answer = [op |-> "none", key |-> 0, status |-> "OK", value |-> << >>]

Vacant == {p \in Position : ~hash_table[p].occupied}

HoldersOf(k) == {p \in Position : hash_table[p].occupied /\ hash_table[p].key = k}

\* How many positions linear probing for k looks at before p.
Distance(k, p) == (p - HashKey[k]) % TableSize

\* The first of a set of positions that probing for k comes to.
FirstProbed(k, ps) == {p \in ps : \A o \in ps : Distance(k, p) <= Distance(k, o)}

\* The entry of k, if any: probing ends at a vacant position.
FindEntry(k) == FirstProbed(k, HoldersOf(k) \cup Vacant) \ Vacant

\* Mutant of VacancyFor: probing starts one position late.
VacancyAfterHome(k) ==
    {p \in Vacant : \A o \in Vacant :
        (p - HashKey[k] - 1) % TableSize <= (o - HashKey[k] - 1) % TableSize}

\* Where the loops of Put and PutSGL put a new key.
VacancyFor(k) == FirstProbed(k, Vacant)

\* Mutant of IsValidValueSize: no upper limit.
IsAlignedSize(size) == size >= MinValueSize /\ size % ValueAlign = 0

IsValidValueSize(size) ==
    size >= MinValueSize /\ size <= MaxValueSize /\ size % ValueAlign = 0

Answered(op, k, status, value) ==
    answer' = [op |-> op, key |-> k, status |-> status, value |-> value]

Refuse(op, k, status) ==
    /\ Answered(op, k, status, << >>)
    /\ UNCHANGED <<hash_table, storage_pool, free_slots, used_slots, used_bytes>>

\* memcpy: what lies beyond the copied units stays.
CopyInto(slot, v) ==
    storage_pool' = [storage_pool EXCEPT ![slot] = v \o SubSeq(@, Len(v) + 1, Len(@))]

\* Mutant of UpdateEntry: the size of the old value is still counted.
UpdateEntryAddingBytes(op, k, v, p) ==
    /\ CopyInto(hash_table[p].slot_index, v)
    /\ hash_table' = [hash_table EXCEPT ![p].value_size = Len(v)]
    /\ used_bytes' = used_bytes + Len(v)
    /\ Answered(op, k, "OK", << >>)
    /\ UNCHANGED <<free_slots, used_slots>>

UpdateEntry(op, k, v, p) ==
    /\ CopyInto(hash_table[p].slot_index, v)
    /\ hash_table' = [hash_table EXCEPT ![p].value_size = Len(v)]
    /\ used_bytes' = used_bytes - hash_table[p].value_size + Len(v)
    /\ Answered(op, k, "OK", << >>)
    /\ UNCHANGED <<free_slots, used_slots>>

InsertEntry(op, k, v, p) ==
    /\ CopyInto(Last(free_slots), v)
    /\ hash_table' = [hash_table EXCEPT ![p] =
                         [key |-> k, slot_index |-> Last(free_slots),
                          value_size |-> Len(v), occupied |-> TRUE]]
    /\ free_slots' = Front(free_slots)
    /\ used_slots' = used_slots + 1
    /\ used_bytes' = used_bytes + Len(v)
    /\ Answered(op, k, "OK", << >>)

\* What Put and PutSGL share.  The free slots are looked at first, so that a
\* store without any refuses a new value for a key it holds.
Store(op, k, v) ==
    \/ free_slots = << >> /\ Refuse(op, k, "NO_SPACE")
    \/ /\ free_slots # << >>
       /\ \/ \E p \in FindEntry(k) : UpdateEntry(op, k, v, p)
          \/ /\ FindEntry(k) = {}
             /\ \E p \in VacancyFor(k) : InsertEntry(op, k, v, p)
          \/ /\ FindEntry(k) = {} /\ VacancyFor(k) = {}
             /\ Refuse(op, k, "NO_SPACE")

Put(k, v) ==
    \/ IsValidValueSize(Len(v)) /\ Store("put", k, v)
    \/ ~IsValidValueSize(Len(v)) /\ Refuse("put", k, "INVALID_REQUEST")

IsValidList(segments, total_size) ==
    /\ IsValidValueSize(total_size)
    /\ segments # << >>
    /\ Len(FlattenSeq(segments)) % SizeMod = total_size

PutSGL(k, segments, total_size) ==
    \/ /\ IsValidList(segments, total_size)
       /\ Store("put_sgl", k, FlattenSeq(segments))
    \/ /\ ~IsValidList(segments, total_size)
       /\ Refuse("put_sgl", k, "INVALID_REQUEST")

\* Mutant of ValueAt: the whole slot is copied.
WholeSlotAt(p) == storage_pool[hash_table[p].slot_index]

\* The bytes a reader finds for the entry at p.
ValueAt(p) == SubSeq(storage_pool[hash_table[p].slot_index], 1, hash_table[p].value_size)

\* Get, into a buffer of the given size.
Get(k, buffer_size) ==
    /\ \/ FindEntry(k) = {} /\ Answered("get", k, "NOT_FOUND", << >>)
       \/ \E p \in FindEntry(k) :
             IF buffer_size < hash_table[p].value_size
             THEN Answered("get", k, "INVALID_REQUEST", << >>)
             ELSE Answered("get", k, "OK", ValueAt(p))
    /\ UNCHANGED <<hash_table, storage_pool, free_slots, used_slots, used_bytes>>

\* GetValuePtr, and what its caller reads before the next Put; GetInfo gives
\* the size only.
GetValuePtr(k) ==
    /\ \/ FindEntry(k) = {} /\ Answered("value_ptr", k, "NOT_FOUND", << >>)
       \/ \E p \in FindEntry(k) : Answered("value_ptr", k, "OK", ValueAt(p))
    /\ UNCHANGED <<hash_table, storage_pool, free_slots, used_slots, used_bytes>>

StoreNext ==
    \E k \in Key :
        \/ \E v \in Values : Put(k, v)
        \/ \E segments \in SegmentLists, size \in Sizes : PutSGL(k, segments, size)
        \/ \E size \in Sizes : Get(k, size)
        \/ GetValuePtr(k)

StoreSpec == StoreInit /\ [][StoreNext]_storeVars

----------------------------------------------------------------------------

\* A slot never gets more than it holds, and an entry that is read has all its
\* bytes in its slot.
KvStoreTypeOK ==
    /\ \A s \in SlotIndex : Len(storage_pool[s]) <= MaxValueSize
    /\ \A p \in Position \ Vacant :
          /\ hash_table[p].key \in Key
          /\ hash_table[p].slot_index \in SlotIndex
          /\ hash_table[p].value_size <= Len(storage_pool[hash_table[p].slot_index])
    /\ free_slots \in Seq(SlotIndex)
    /\ used_slots \in Nat /\ used_bytes \in Nat

\* Linear probing finds every entry: no vacant position and no other entry of
\* the key comes before it, around the end of the table included.
ProbeChains ==
    \A p \in Position \ Vacant : FindEntry(hash_table[p].key) = {p}

\* Every slot is on the free list once or belongs to one entry, whatever the
\* order of inserts, updates and refusals; the statistics agree with that.
SlotsOwnedOnce ==
    LET owned == [p \in Position \ Vacant |-> hash_table[p].slot_index]
    IN  /\ IsInjective(free_slots) /\ IsInjective(owned)
        /\ {free_slots[i] : i \in DOMAIN free_slots} \cap {owned[p] : p \in DOMAIN owned} = {}
        /\ Len(free_slots) + used_slots = NumSlots
        /\ used_slots = Cardinality(DOMAIN owned)
        /\ used_bytes = MapThenSumSet(LAMBDA p : hash_table[p].value_size, DOMAIN owned)

StoredKeys == {hash_table[p].key : p \in Position \ Vacant}

\* What a reader finds under each key that some entry holds.
StoredMap == [k \in StoredKeys |-> ValueAt(CHOOSE p \in HoldersOf(k) : TRUE)]

\* The number of keys the store has room for.
StoreCapacity == IF TableSize < NumSlots THEN TableSize ELSE NumSlots

\* The abstract map.
MapOfStore ==
    INSTANCE KvMap WITH
        Value <- Values \cup {FlattenSeq(s) : s \in SegmentLists},
        WellFormed <- LAMBDA v, size : Len(v) = size /\ IsValidValueSize(size),
        Sizes <- Sizes \cup {Len(v) : v \in Values} \cup {MaxValueSize},
        map <- StoredMap,
        capacity <- StoreCapacity,
        request <- <<answer.op, answer.key>>,
        reply <- [status |-> answer.status, value |-> answer.value]

\* The table, the slots and the free list behave as a map: a read returns the
\* value last put under that key, whole, and a well-formed put is refused only
\* when as many keys are stored as there are slots or positions.
ImplementsKvMap == MapOfStore!MapSpec
============================================================================
