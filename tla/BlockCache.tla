----------------------------- MODULE BlockCache ------------------------------
(***************************************************************************)
(* The block cache of easy-fs (easy-fs/src/block_cache.rs): at most        *)
(* BLOCK_CACHE_SIZE buffers of disk blocks, replaced in the order in which *)
(* they were loaded, skipping those in use, and written back when dropped. *)
(*                                                                         *)
(* A client is one use of the cache: a thread, or one level of the nested  *)
(* closures of a thread.  It gets a reference (an Arc) to a buffer, locks  *)
(* it, reads or modifies it, and drops both.  A block's contents is one    *)
(* value.  queue holds the block ids in the order of the VecDeque; the     *)
(* buffer of a queued block is cache[b].                                   *)
(***************************************************************************)
EXTENDS Vec, FiniteSets

CONSTANTS
  Block,             \* blocks of the device
  Value,             \* contents of a block told apart
  Client,            \* uses of the cache that can overlap
  BLOCK_CACHE_SIZE,
  NoBlock            \* no block

ASSUME CacheAssumption ==
  /\ NoBlock \notin Block
  /\ IsFiniteSet(Client)
  /\ BLOCK_CACHE_SIZE \in Nat \ {0}

VARIABLES
  disk,     \* contents of the device
  queue,    \* ids of the cached blocks, oldest first
  cache,    \* of each cached block: its buffer and the flag modified
  ref,      \* the block each client has a reference to
  locked,   \* the client has locked its buffer
  phase     \* "up", "ended", or "panic": Run out of BlockCache!

cache_vars == <<disk, queue, cache, ref, locked, phase>>

CacheInit ==
  /\ disk \in [Block -> Value]
  /\ queue = <<>>
  /\ cache = [b \in Block |-> [data |-> disk[b], modified |-> FALSE]]
  /\ ref = [c \in Client |-> NoBlock]
  /\ locked = [c \in Client |-> FALSE]
  /\ phase = "up"

cached(b) == \E i \in DOMAIN queue : queue[i] = b

(* The strong count of a queued buffer is 1: only the queue refers to it.  *)
unused(i) == \A c \in Client : ref[c] # queue[i]

(* Mutated form: only the oldest buffer is considered.                     *)
victim_only_first(i) == i = 1 /\ unused(i)

(* Mutated form: the oldest buffer goes, in use or not.                    *)
victim_oldest(i) == i = 1

(* The first buffer nobody uses.                                           *)
victim(i) == unused(i) /\ \A j \in 1 .. i - 1 : ~unused(j)

(* BlockCache::new and push_back, for block b after the queue became q.    *)
load(c, b, q, device) ==
  /\ queue' = Append(q, b)
  /\ cache' = [cache EXCEPT ![b] = [data |-> device[b], modified |-> FALSE]]
  /\ ref' = [ref EXCEPT ![c] = b]

hit(c, b) ==
  /\ cached(b)
  /\ ref' = [ref EXCEPT ![c] = b]
  /\ UNCHANGED <<disk, queue, cache, phase>>

load_into_free_slot(c, b) ==
  /\ ~cached(b) /\ Len(queue) # BLOCK_CACHE_SIZE
  /\ load(c, b, queue, disk)
  /\ UNCHANGED <<disk, phase>>

(* BlockCache::drop calls sync: the device after buffer b is dropped.      *)
sync(b) == IF cache[b].modified THEN [disk EXCEPT ![b] = cache[b].data] ELSE disk

replace(c, b) ==
  /\ ~cached(b) /\ Len(queue) = BLOCK_CACHE_SIZE
  /\ \E i \in DOMAIN queue :
       /\ victim(i)
       /\ disk' = sync(queue[i])
       /\ load(c, b, remove(queue, i), disk')
  /\ UNCHANGED phase

run_out(b) ==
  /\ ~cached(b) /\ Len(queue) = BLOCK_CACHE_SIZE
  /\ \A i \in DOMAIN queue : ~victim(i)
  /\ phase' = "panic"
  /\ UNCHANGED <<disk, queue, cache, ref>>

get_block_cache(c, b) ==
  /\ ref[c] = NoBlock
  /\ hit(c, b) \/ load_into_free_slot(c, b) \/ replace(c, b) \/ run_out(b)
  /\ UNCHANGED locked

(* lock() on the inner Mutex.                                              *)
lock(c) ==
  /\ ref[c] # NoBlock /\ ~locked[c]
  /\ \A d \in Client : ref[d] = ref[c] => ~locked[d]
  /\ locked' = [locked EXCEPT ![c] = TRUE]
  /\ UNCHANGED <<disk, queue, cache, ref, phase>>

(* Mutated form: get_mut does not set the flag.                            *)
modify_unmarked(c, v) ==
  /\ locked[c]
  /\ cache' = [cache EXCEPT ![ref[c]].data = v]
  /\ UNCHANGED <<disk, queue, ref, locked, phase>>

modify(c, v) ==
  /\ locked[c]
  /\ cache' = [cache EXCEPT ![ref[c]] = [data |-> v, modified |-> TRUE]]
  /\ UNCHANGED <<disk, queue, ref, locked, phase>>

(* The guard and the reference are temporaries of one statement.           *)
release(c) ==
  /\ locked[c]
  /\ ref' = [ref EXCEPT ![c] = NoBlock]
  /\ locked' = [locked EXCEPT ![c] = FALSE]
  /\ UNCHANGED <<disk, queue, cache, phase>>

(* The program ends, or the machine is switched off.  The manager is a     *)
(* lazy_static: it is never dropped, so sync is not called.                *)
end ==
  /\ \A c \in Client : ref[c] = NoBlock
  /\ phase' = "ended"
  /\ UNCHANGED <<disk, queue, cache, ref, locked>>

CacheNext ==
  /\ phase = "up"
  /\ \/ end
     \/ \E c \in Client :
          \/ \E b \in Block : get_block_cache(c, b)
          \/ lock(c)
          \/ \E v \in Value : modify(c, v)
          \/ release(c)

CacheSpec == CacheInit /\ [][CacheNext]_cache_vars

-----------------------------------------------------------------------------
(* Properties.                                                             *)

(* The state is well typed, and the queue is never longer than its limit.  *)
TypeOK ==
  /\ disk \in [Block -> Value]
  /\ queue \in Seq(Block) /\ Len(queue) <= BLOCK_CACHE_SIZE
  /\ cache \in [Block -> [data : Value, modified : BOOLEAN]]
  /\ ref \in [Client -> Block \cup {NoBlock}]
  /\ locked \in [Client -> BOOLEAN]
  /\ phase \in {"up", "ended", "panic"}

(* A block has at most one buffer, so all its users share it, and a buffer *)
(* in use is never replaced.                                               *)
OneBuffer ==
  /\ \A i, j \in DOMAIN queue : queue[i] = queue[j] => i = j
  /\ \A c \in Client : ref[c] # NoBlock => cached(ref[c])

(* The comment in get_block_cache: the panic needs a full queue of buffers *)
(* in use, so that many different blocks are in use when it happens.       *)
OnlyRunsOutInUse ==
  phase = "panic" => Cardinality({ref[c] : c \in Client} \ {NoBlock}) >= BLOCK_CACHE_SIZE

Store == INSTANCE BlockStore WITH
  mem <- [b \in Block |->
            IF phase # "ended" /\ cached(b) THEN cache[b].data ELSE disk[b]],
  inside <- [c \in Client |-> IF locked[c] THEN ref[c] ELSE NoBlock],
  stored <- disk,
  up <- phase # "ended"

(* Replacement is invisible: a client that locks a block's buffer finds    *)
(* what was written to the block last, by whichever client, through        *)
(* whichever buffer.  Only it changes the block, and the device receives   *)
(* only contents that the block has.                                       *)
StoreSpec == Store!Spec

(* easy-fs-fuse/src/main.rs says that the buffers are reclaimed, and so    *)
(* written back, when the program exits normally.                          *)
WrittenBackAtEnd ==
  phase = "ended" => \A b \in Block : cached(b) => disk[b] = cache[b].data
=============================================================================
