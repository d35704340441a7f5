--------------------------- MODULE DocumentCache ---------------------------
(***************************************************************************)
(* document_cache of main.py: the chunk lists and FAISS indexes of the     *)
(* documents a web process used last.  An entry expires TTL after it was   *)
(* created, however often it is read; at capacity the least recently used  *)
(* entry makes room.  Every operation runs on the event loop without an    *)
(* await, so each is one step; but the clock an operation is given may     *)
(* have been read long before.                                             *)
(***************************************************************************)
EXTENDS Integers, FiniteSets

CONSTANTS
    Key,          \* owner, embedding namespace and resource, as one value
    List,         \* chunk list objects
    MaxItems,     \* get_document_cache_max_items()
    TTL,          \* get_document_cache_ttl_seconds()
    MaxTime       \* bound on the clock

ASSUME CacheAssumption ==
    /\ IsFiniteSet(Key)
    /\ MaxItems \in Nat \ {0}
    /\ TTL \in Nat
    /\ MaxTime \in Nat

VARIABLES
    cache,        \* a function whose domain is the set of cached keys
    clock

cacheVars == <<cache, clock>>

Time == 0..MaxTime
Entry == [list: List, created: Time, accessed: Time]

CacheInit ==
    /\ cache = [k \in {} |-> {}]
    /\ clock = 0

Live(now) == {k \in DOMAIN cache : now <= cache[k].created + TTL}

Sweep(now) == cache' = [k \in Live(now) |-> cache[k]]

Touch(k, now) ==
    cache' = [j \in Live(now) |->
                IF j = k THEN [cache[j] EXCEPT !.accessed = now] ELSE cache[j]]

Colder(out, stay) == cache[out].accessed <= cache[stay].accessed

OneTooMany == MaxItems

(***************************************************************************)
(* How many entries may stay when a new key comes in.                      *)
(***************************************************************************)
Room == MaxItems - 1

(***************************************************************************)
(* The sets of keys that may stay when k is stored: min() takes any of the *)
(* entries with the oldest access, and goes on while there is no room.     *)
(***************************************************************************)
Staying(k, now) ==
    {S \in SUBSET Live(now) :
        IF k \in Live(now) THEN S = Live(now)
        ELSE /\ Cardinality(S) <= Room
             /\ S = Live(now) \/ Cardinality(S) = Room
             /\ \A out \in Live(now) \ S, stay \in S : Colder(out, stay)}

Store(k, list, now) ==
    \E S \in Staying(k, now) :
        cache' = [j \in S \cup {k} |->
                    IF j = k THEN [list |-> list, created |-> now, accessed |-> now]
                    ELSE cache[j]]

CacheTypeOK ==
    /\ clock \in Time
    /\ DOMAIN cache \subseteq Key
    /\ cache \in [DOMAIN cache -> Entry]
=============================================================================
