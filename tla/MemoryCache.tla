----------------------------- MODULE MemoryCache ----------------------------
(* MemoryCache: decoded buffers under their keys within a budget of bytes.   *)
(* A put that does not fit evicts, one entry at a time, what has not been    *)
(* used for longest; an entry marked as playing is never evicted.  Each      *)
(* operation runs under the mutex of the cache manager; the rounds of a put  *)
(* are steps, and nothing else runs between them.                            *)
EXTENDS Integers, FiniteSets, FiniteSetsExt

CONSTANTS
  Keys,      \* URLs and paths
  Sizes,     \* the bytes a decoded buffer can have
  MaxSize,   \* the budget; 0 is no budget
  MaxOps,    \* bound: operations of a run
  Idle       \* no put is under way

ASSUME SizesAssumption == Sizes \subseteq Nat
ASSUME BudgetAssumption == MaxSize \in Nat /\ MaxOps \in Nat
ASSUME IdleAssumption == Idle \notin Keys

VARIABLES
  entries,      \* the keys cached
  size,         \* size_bytes of the entry of a key
  lastAccess,   \* when the entry of a key was last put or got
  currentSize,  \* current_size_bytes, as the code adds and subtracts it
  playing,      \* the keys marked as playing
  now,          \* the clock; Instants of two operations may be equal
  putting,      \* the key of the put under way
  putSize,      \* its bytes
  ops,          \* operations begun
  usedAt        \* history: the operation that last used a key

cacheVars == <<entries, size, lastAccess, currentSize, playing>>
putVars == <<putting, putSize>>
vars == <<cacheVars, now, putVars, ops, usedAt>>

\* The bytes of a set of cached keys.
Bytes(K) == SumFunctionOnSet(size, K)

TypeOK ==
  /\ entries \subseteq Keys
  /\ size \in [Keys -> Sizes \cup {0}]
  /\ lastAccess \in [Keys -> Nat]
  /\ currentSize \in Int
  /\ playing \subseteq Keys \cap (entries \cup {putting})
  /\ now \in Nat
  /\ putting \in Keys \cup {Idle}
  /\ putSize \in Sizes \cup {0}
  /\ ops \in 0 .. MaxOps
  /\ usedAt \in [Keys -> 0 .. MaxOps]

Init ==
  /\ entries = {}
  /\ size = [k \in Keys |-> 0]
  /\ lastAccess = [k \in Keys |-> 0]
  /\ currentSize = 0
  /\ playing = {}
  /\ now = 0
  /\ putting = Idle
  /\ putSize = 0
  /\ ops = 0
  /\ usedAt = [k \in Keys |-> 0]

-----------------------------------------------------------------------------
\* An operation begins when no other runs.
Begin == putting = Idle /\ ops < MaxOps /\ ops' = ops + 1

\* The clock at a use: it never goes back, and may not have moved.
Use(k) ==
  /\ now' \in {now, now + 1}
  /\ lastAccess' = [lastAccess EXCEPT ![k] = now']
  /\ usedAt' = [usedAt EXCEPT ![k] = ops']

\* Mutated form of Get: a hit does not count as a use.
GetOnly(k) ==
  /\ k \in entries
  /\ Begin
  /\ now' \in {now, now + 1}
  /\ usedAt' = [usedAt EXCEPT ![k] = ops']
  /\ UNCHANGED <<entries, size, lastAccess, currentSize, playing, putVars>>

\* A hit counts as a use; a miss changes nothing.
Get(k) ==
  /\ k \in entries
  /\ Begin
  /\ Use(k)
  /\ UNCHANGED <<entries, size, currentSize, playing, putVars>>

\* Mutated form of PutBegins: the replaced entry stays while room is made.
PutOver(k, n) ==
  /\ Begin
  /\ putting' = k
  /\ putSize' = n
  /\ UNCHANGED <<cacheVars, now, usedAt>>

\* A put first takes out the entry it replaces, with its bytes.
PutBegins(k, n) ==
  /\ Begin
  /\ putting' = k
  /\ putSize' = n
  /\ entries' = entries \ {k}
  /\ currentSize' = IF k \in entries THEN currentSize - size[k] ELSE currentSize
  /\ UNCHANGED <<size, lastAccess, playing, now, usedAt>>

\* What may be evicted, and of it what has gone unused for longest.
Evictable == entries \ playing
Oldest(k) == k \in Evictable /\ \A j \in Evictable : lastAccess[k] <= lastAccess[j]
\* Mutated form of Fits: the bytes to come are not counted.
FitsSoFar == MaxSize = 0 \/ currentSize <= MaxSize

Fits == MaxSize = 0 \/ currentSize + putSize <= MaxSize

EvictOne ==
  /\ putting # Idle
  /\ ~Fits
  /\ \E k \in entries :
       /\ Oldest(k)
       /\ entries' = entries \ {k}
       /\ currentSize' = currentSize - size[k]
  /\ UNCHANGED <<size, lastAccess, playing, now, putVars, ops, usedAt>>

\* When the buffer fits, or nothing is left to evict, it goes in.
Insert ==
  /\ putting # Idle
  /\ Fits \/ Evictable = {}
  /\ UNCHANGED <<playing, putSize, ops>>
  /\ Use(putting)
  /\ entries' = entries \cup {putting}
  /\ size' = [size EXCEPT ![putting] = putSize]
  /\ currentSize' = currentSize + putSize
  /\ putting' = Idle

RemoveEntry(k) ==
  /\ k \in entries
  /\ Begin
  /\ entries' = entries \ {k}
  /\ currentSize' = currentSize - size[k]
  /\ playing' = playing \ {k}
  /\ UNCHANGED <<size, lastAccess, now, putVars, usedAt>>

Clear ==
  /\ Begin
  /\ entries' = {}
  /\ currentSize' = 0
  /\ playing' = {}
  /\ UNCHANGED <<size, lastAccess, now, putVars, usedAt>>

\* The mark is set only for what is cached, and taken away in any case.
MarkPlaying(k) ==
  /\ k \in entries
  /\ Begin
  /\ playing' = playing \cup {k}
  /\ UNCHANGED <<entries, size, lastAccess, currentSize, now, putVars, usedAt>>
MarkNotPlaying(k) ==
  /\ Begin
  /\ playing' = playing \ {k}
  /\ UNCHANGED <<entries, size, lastAccess, currentSize, now, putVars, usedAt>>

Next ==
  \/ \E k \in Keys : Get(k) \/ RemoveEntry(k) \/ MarkPlaying(k) \/ MarkNotPlaying(k)
  \/ \E k \in Keys, n \in Sizes : PutBegins(k, n)
  \/ EvictOne \/ Insert \/ Clear

Spec == Init /\ [][Next]_vars
-----------------------------------------------------------------------------
\* The running total is what the entries add up to, through replacement,
\* eviction and removal: a difference would wrap below zero or let the cache
\* grow without end.
SizeExact == currentSize = Bytes(entries)

\* When a put ends the cache is within its budget, or nothing but what was
\* just put and what is marked as playing is left.
BudgetKept ==
  [][putting # Idle /\ putting' = Idle =>
       MaxSize = 0 \/ currentSize' <= MaxSize \/ entries' \subseteq playing \cup {putting}]_vars

\* A put removes nothing that is marked as playing.
PlayingStays ==
  [][putting # Idle => entries \cap playing \subseteq entries']_vars

\* What is evicted was used before everything that could have gone instead,
\* up to uses the clock cannot tell apart.
LeastRecentGoes ==
  [][putting # Idle => \A k \in entries \ entries', j \in entries' \ playing :
       usedAt[k] < usedAt[j] \/ lastAccess[k] = lastAccess[j]]_vars

\* What the cache believes to hold is what it holds, while a put replaces and
\* evicts entries one by one.
AccountsKept == TypeOK /\ SizeExact

\* A put makes room only by entries that do not play, the least recently used
\* first.
EvictionFair == PlayingStays /\ LeastRecentGoes
=============================================================================
