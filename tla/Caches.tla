-------------------------------- MODULE Caches --------------------------------
(***************************************************************************)
(* The semantic cache (src/ai/cache): the in-memory provider with its      *)
(* indexes by organisation, category and tag, the cache service with its   *)
(* eviction, and invalidation.  A key is made of the organisation, the     *)
(* category and the query.  An entry that expired is dropped when it is    *)
(* read, and stays in the indexes.  What takes time is to compute the      *)
(* value that a lookup did not find.                                       *)
(***************************************************************************)
EXTENDS Naturals, FiniteSets

CONSTANTS
    CacheKeys,      \* triples <<organisation, category, query>>
    Tags,
    Fills,          \* bound: calls of getOrSet(), each used once
    MaxSize         \* of the category's policy

VARIABLES
    store,          \* by key: its tags, and whether its ttl is over
    orgIndex, categoryIndex, tagIndex,
    fill,           \* the calls of getOrSet() that compute a value
    orphaned        \* history: keys whose category's index another organisation dropped

cacheVars == <<store, orgIndex, categoryIndex, tagIndex, fill, orphaned>>
indexes == <<orgIndex, categoryIndex, tagIndex>>

Organizations == {k[1] : k \in CacheKeys}
Categories == {k[2] : k \in CacheKeys}
NoEntry == [at |-> "nowhere"]
NotCalled == <<>>
Filled == <<"over">>
Stored(s) == {k \in CacheKeys : s[k] # NoEntry}
Live(k) == store[k] # NoEntry /\ ~store[k].expired
EntriesOf(org, category) == {k \in Stored(store) : k[1] = org /\ k[2] = category}

\* delete() of some entries: from the store and from the indexes that their
\* organisation, category and present tags name.
Without(keys) == [k \in CacheKeys |-> IF k \in keys THEN NoEntry ELSE store[k]]
OrgWithout(keys) == [o \in Organizations |-> orgIndex[o] \ keys]
CategoryWithout(keys) == [c \in Categories |-> categoryIndex[c] \ keys]
TagWithout(keys) == [t \in Tags |-> tagIndex[t] \ {k \in keys : t \in store[k].tags}]

\* Reading drops what has expired: get() the entry, getAllEntries() all of
\* the organisation and category; the indexes keep them.
Purged(org, category) == {k \in EntriesOf(org, category) : store[k].expired}

\* set(): the entry is replaced; a tag it had before keeps its key.  What was
\* evicted for it is in no index, what had expired still is.
Put(k, tags, evicted, expired) ==
    /\ store' = [Without(evicted \cup expired) EXCEPT ![k] = [at |-> "store", tags |-> tags, expired |-> FALSE]]
    /\ orgIndex' = [OrgWithout(evicted) EXCEPT ![k[1]] = @ \cup {k}]
    /\ categoryIndex' = [CategoryWithout(evicted) EXCEPT ![k[2]] = @ \cup {k}]
    /\ tagIndex' = [t \in Tags |-> IF t \in tags THEN TagWithout(evicted)[t] \cup {k}
                                   ELSE TagWithout(evicted)[t]]
    /\ orphaned' = orphaned \ (evicted \cup expired \cup {k})

\* getOrSet(): a hit, of the key or of an entry whose value is like the
\* query, ends it; otherwise the value is computed.
Lookup(f) ==
    /\ fill[f] = NotCalled
    /\ \E k \in CacheKeys :
         LET gone == IF Live(k) THEN {} ELSE Purged(k[1], k[2])
             similar == \E e \in EntriesOf(k[1], k[2]) \ gone : TRUE
         IN /\ store' = Without(gone)
            /\ \/ (Live(k) \/ similar) /\ fill' = [fill EXCEPT ![f] = Filled]
               \/ ~Live(k) /\ fill' = [fill EXCEPT ![f] = k]
            /\ orphaned' = orphaned \ gone
    /\ UNCHANGED indexes
\* The value is stored: when the cache is full - of entries of any
\* organisation - some of this organisation's and category's go first, and
\* those of them that expired are dropped as they are read.
Fill(f) ==
    /\ fill[f] \in CacheKeys
    /\ LET k == fill[f]
           size == Cardinality(Stored(store))
           expired == IF size >= MaxSize THEN Purged(k[1], k[2]) ELSE {}
           mine == EntriesOf(k[1], k[2]) \ expired
           count == (size + 4) \div 5
       IN \E tags \in SUBSET Tags, evicted \in SUBSET mine :
            /\ IF size >= MaxSize
               THEN Cardinality(evicted) = (IF count < Cardinality(mine) THEN count ELSE Cardinality(mine))
               ELSE evicted = {}
            /\ Put(k, tags, evicted, expired)
    /\ fill' = [fill EXCEPT ![f] = Filled]
\* setEmbedding() stores without asking for the size.
SetEmbedding(k) ==
    /\ Put(k, Tags, {}, {})
    /\ UNCHANGED fill

Expires(k) ==
    /\ Live(k)
    /\ store' = [store EXCEPT ![k].expired = TRUE]
    /\ UNCHANGED <<orgIndex, categoryIndex, tagIndex, fill, orphaned>>

-----------------------------------------------------------------------------
(* CacheInvalidationService and the provider's deletes *)
DeleteEntries(keys) ==
    /\ store' = Without(keys)
    /\ orgIndex' = OrgWithout(keys)
    /\ tagIndex' = TagWithout(keys)
    /\ UNCHANGED fill
InvalidateByKey(k) ==
    /\ store[k] # NoEntry
    /\ DeleteEntries({k})
    /\ categoryIndex' = CategoryWithout({k})
    /\ orphaned' = orphaned \ {k}
\* Of the keys in the category's index the organisation's are deleted, and
\* then the index: another's keys are in it no more.
InvalidateByCategory(org, category) ==
    /\ LET keys == categoryIndex[category] \cap EntriesOf(org, category)
       IN /\ DeleteEntries(keys)
          /\ orphaned' = (orphaned \ keys) \cup ((categoryIndex[category] \cap Stored(store)) \ keys)
    /\ categoryIndex' = [categoryIndex EXCEPT ![category] = {}]
InvalidateAll(org) ==
    /\ LET keys == orgIndex[org] \cap Stored(store)
       IN /\ store' = Without(keys)
          /\ orgIndex' = [orgIndex EXCEPT ![org] = {}]
          /\ tagIndex' = TagWithout(keys)
          /\ categoryIndex' = CategoryWithout(keys)
          /\ orphaned' = orphaned \ keys
    /\ UNCHANGED fill
\* Mutant: the tag's index goes with the entries, like that of a category.
DropTag(tag, org) ==
    /\ LET keys == {k \in tagIndex[tag] \cap Stored(store) : k[1] = org}
       IN /\ store' = Without(keys)
          /\ orgIndex' = OrgWithout(keys)
          /\ tagIndex' = [TagWithout(keys) EXCEPT ![tag] = {}]
          /\ categoryIndex' = CategoryWithout(keys)
          /\ orphaned' = orphaned \ keys
    /\ UNCHANGED fill
InvalidateByTag(tag, org) ==
    /\ LET keys == {k \in tagIndex[tag] \cap Stored(store) : k[1] = org}
       IN /\ DeleteEntries(keys)
          /\ categoryIndex' = CategoryWithout(keys)
          /\ orphaned' = orphaned \ keys
ClearCache ==
    /\ store' = [k \in CacheKeys |-> NoEntry] /\ orphaned' = {}
    /\ orgIndex' = [o \in Organizations |-> {}]
    /\ categoryIndex' = [c \in Categories |-> {}]
    /\ tagIndex' = [t \in Tags |-> {}]
    /\ UNCHANGED fill

CacheInit ==
    /\ store = [k \in CacheKeys |-> NoEntry] /\ orphaned = {}
    /\ orgIndex = [o \in Organizations |-> {}]
    /\ categoryIndex = [c \in Categories |-> {}]
    /\ tagIndex = [t \in Tags |-> {}]
    /\ fill = [f \in Fills |-> NotCalled]

CacheNext ==
    \/ \E f \in Fills : Lookup(f) \/ Fill(f)
    \/ \E k \in CacheKeys : SetEmbedding(k) \/ Expires(k) \/ InvalidateByKey(k)
    \/ \E o \in Organizations :
         \/ InvalidateAll(o)
         \/ \E c \in Categories : InvalidateByCategory(o, c)
         \/ \E t \in Tags : InvalidateByTag(t, o)
    \/ ClearCache

-----------------------------------------------------------------------------
\* Every entry is in the index of its organisation, of its category and of
\* each of its tags, so that invalidation finds it, whatever was replaced,
\* evicted, expired or invalidated before - except by a category whose index
\* another organisation's invalidation dropped (MemoryCacheProvider).
IndexesCover ==
    \A k \in Stored(store) :
        /\ k \in orgIndex[k[1]]
        /\ k \in categoryIndex[k[2]] \cup orphaned
        /\ \A t \in store[k].tags : k \in tagIndex[t]
===============================================================================
