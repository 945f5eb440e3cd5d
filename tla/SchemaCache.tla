----------------------------- MODULE SchemaCache -----------------------------
(***************************************************************************)
(* SchemaLoader: the property types and the asset mapping of a type are    *)
(* read from the ontology in two calls and cached for a while.  Queries    *)
(* load in parallel; a publish replaces the definition meanwhile, and      *)
(* nothing tells the cache.                                                *)
(***************************************************************************)
EXTENDS NoValue, Naturals

CONSTANTS Loads,        \* queries at work at once
          CacheTtl,     \* CACHE_TTL_SECONDS
          MaxNow,       \* bound: the time that passes
          MaxVersion  \* bound: definitions that are published

VARIABLES now,
          version,    \* the definition that is published
          replaced,   \* when each definition was replaced
          entry,      \* _cache: the type's entry, or None
          load        \* the query in each slot

cacheVars == <<now, version, replaced, entry, load>>

ASSUME CacheAssumption ==
  /\ CacheTtl \in Nat
  /\ MaxNow \in Nat
  /\ MaxVersion \in Nat \ {0}
  /\ None \notin Nat

Versions == 1..MaxVersion

CacheEntry == [props : Versions, mapping : Versions, expires : Nat]

ASSUME NoneIsNoCacheEntry == None \notin CacheEntry

Load == [pc : {"idle", "props", "mapping", "store"}, started : Nat,
         props : Versions \cup {None}, mapping : Versions \cup {None}]

NoLoad == [pc |-> "idle", started |-> 0, props |-> None, mapping |-> None]

CacheTypeOK ==
  /\ now \in Nat
  /\ version \in Versions
  /\ replaced \in [Versions -> Nat \cup {None}]
  /\ entry \in CacheEntry \cup {None}
  /\ load \in [Loads -> Load]

----------------------------------------------------------------------------

Hit == entry # None /\ entry.expires > now

\* get_schema reads the time before it loads; a hit changes nothing.
GetSchema(h) ==
  /\ load[h] = NoLoad
  /\ ~Hit
  /\ load' = [load EXCEPT ![h].pc = "props", ![h].started = now]
  /\ UNCHANGED <<now, version, replaced, entry>>

LoadPropertyTypes(h) ==
  /\ load[h].pc = "props"
  /\ load' = [load EXCEPT ![h].pc = "mapping", ![h].props = version]
  /\ UNCHANGED <<now, version, replaced, entry>>

LoadAssetMapping(h) ==
  /\ load[h].pc = "mapping"
  /\ load' = [load EXCEPT ![h].pc = "store", ![h].mapping = version]
  /\ UNCHANGED <<now, version, replaced, entry>>

\* Variant: the entry's time starts when it is stored.
StoreFromNow(h) ==
  /\ load[h].pc = "store"
  /\ entry' = [props |-> load[h].props, mapping |-> load[h].mapping,
               expires |-> now + CacheTtl]
  /\ load' = [load EXCEPT ![h] = NoLoad]
  /\ UNCHANGED <<now, version, replaced>>

\* It takes the place of whatever a parallel load has stored.
Store(h) ==
  /\ load[h].pc = "store"
  /\ entry' = [props |-> load[h].props, mapping |-> load[h].mapping,
               expires |-> load[h].started + CacheTtl]
  /\ load' = [load EXCEPT ![h] = NoLoad]
  /\ UNCHANGED <<now, version, replaced>>

\* The ontology raises: nothing is cached.
LoadFails(h) ==
  /\ load[h] # NoLoad
  /\ load' = [load EXCEPT ![h] = NoLoad]
  /\ UNCHANGED <<now, version, replaced, entry>>

Invalidate ==
  /\ entry # None
  /\ entry' = None
  /\ UNCHANGED <<now, version, replaced, load>>

Publish ==
  /\ version < MaxVersion
  /\ version' = version + 1
  /\ replaced' = [replaced EXCEPT ![version] = now]
  /\ UNCHANGED <<now, entry, load>>

TimePasses ==
  /\ now < MaxNow
  /\ now' = now + 1
  /\ UNCHANGED <<version, replaced, entry, load>>

CacheInit ==
  /\ now = 0
  /\ version = 1
  /\ replaced = [v \in Versions |-> None]
  /\ entry = None
  /\ load = [h \in Loads |-> NoLoad]

CacheNext ==
  \/ \E h \in Loads : \/ GetSchema(h)
                      \/ LoadPropertyTypes(h)
                      \/ LoadAssetMapping(h)
                      \/ Store(h)
                      \/ LoadFails(h)
  \/ Invalidate
  \/ Publish
  \/ TimePasses

CacheSpec == CacheInit /\ [][CacheNext]_cacheVars

----------------------------------------------------------------------------

\* A cached definition is out of date for less than the cache's time, however
\* slow a load is, in whatever order parallel loads store what they read, and
\* although no publish invalidates it.
StalenessBounded ==
  Hit => \A v \in {entry.props, entry.mapping} :
           replaced[v] # None => now < replaced[v] + CacheTtl
=============================================================================
