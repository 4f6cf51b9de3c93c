------------------------------ MODULE TenderCache ------------------------------
(***************************************************************************)
(* RedisTenderCache: one key per tender, holding a serialised              *)
(* TenderResponseDTO with a time to live.  A command that raises a         *)
(* RedisError is swallowed: a lookup then counts as a miss, and a store or *)
(* a delete is skipped.  (An error reported after the command took effect  *)
(* is the same as success: neither method returns anything.)               *)
(***************************************************************************)
EXTENDS TenderModels

CONSTANTS
    RedisMayFail,   \* may Redis commands raise?
    Foreign,        \* a value that this release cannot parse
    Leftovers       \* does an earlier release leave such values in Redis?

ASSUME RedisAssumption == RedisMayFail \in BOOLEAN /\ Leftovers \in BOOLEAN

VARIABLE cache

\* `late' is recorded for the properties and read by no action: whether the
\* row was already out of date when it was stored.
Cached == [row : Row, late : BOOLEAN]

ASSUME NoCachedAssumption == {None, Foreign} \cap Cached = {} /\ None # Foreign

CacheTypeOK == cache \in [Tenders -> Cached \union {None, Foreign}]

CacheInit == cache \in [Tenders -> {None} \union IF Leftovers THEN {Foreign} ELSE {}]

\* get_tender, in its three outcomes: model_validate_json raises nothing that
\* the method catches.
Hit(t) == cache[t] \in Cached
Unreadable(t) == cache[t] = Foreign
MissOrError(t) == cache[t] = None \/ RedisMayFail

SetTender(t, row, late) ==
    \/ cache' = [cache EXCEPT ![t] = [row |-> row, late |-> late]]
    \/ RedisMayFail /\ UNCHANGED cache

InvalidateTender(t) ==
    \/ cache' = [cache EXCEPT ![t] = None]
    \/ RedisMayFail /\ UNCHANGED cache

\* Fault for mutation: keys are stored without ex=ttl_seconds.
NeverExpire(t) == cache[t] # None /\ UNCHANGED cache

\* The time to live of a key runs out, any time after it was stored.
Expire(t) == cache[t] # None /\ cache' = [cache EXCEPT ![t] = None]
===============================================================================
