----------------------------- MODULE SharedCache -----------------------------
(***************************************************************************)
(* The query caches that several processes share (DynamoDBCache and        *)
(* RedisCache in src/src/dynavec/cache.py).  In DynamoDB an entry carries  *)
(* the generation of its namespace that its writer read, invalidation      *)
(* writes a new one, and an entry of another generation is a miss.  In     *)
(* Redis invalidation lists the namespace's keys and deletes them.         *)
(*                                                                         *)
(* Each request to the table or to Redis is a step.  get_item is not       *)
(* called with ConsistentRead: it may answer with an item that has been    *)
(* overwritten, until the write has reached every copy of the table.       *)
(* Redis is one server.  A generation is the time_ns() of the process that *)
(* invalidates; the code compares generations for equality only, so the    *)
(* order of the processes' clocks does not matter, and two invalidations   *)
(* are taken to differ.  What an entry holds is left out: puts are         *)
(* numbered.                                                               *)
(***************************************************************************)
EXTENDS Naturals, Sequences, FiniteSets

CONSTANTS
  Clients,
  Backends,       \* those a behaviour may use: "dynamodb", "redis"
  CacheKeys, SpaceOf,   \* entry keys, and the namespace each is of
  MaxPuts, MaxInvalidations,  \* bounds
  Nil

ASSUME SharedCacheAssumption ==
  /\ Backends \subseteq {"dynamodb", "redis"}
  /\ MaxPuts \in Nat /\ MaxInvalidations \in Nat /\ Nil \notin Nat

VARIABLES
  backend,
  entries,    \* [CacheKeys -> what is stored there, or Nil]
  older,      \* [CacheKeys -> overwritten items a read may still return]
  gens,       \* the __cachegen__ items: [namespace -> the generations written
              \* there, in order; 0, when the item is absent, comes first]
  reached,    \* [namespace -> the write of gens every copy has, or a later one]
  request,    \* [Clients -> the call a client is in]
  puts, invalidations,
  finished,   \* ghost: puts that have returned, with their keys
  banned,     \* ghost: puts that had returned when an invalidation of their
              \* namespace began that has returned too and reached every copy
  answer      \* ghost: the put last served, and `banned' when its get began

shvars == <<backend, entries, older, gens, reached, request, puts, invalidations,
            finished, banned, answer>>

Spaces == {SpaceOf[k] : k \in CacheKeys}
NoRequest == [at |-> "idle", key |-> Nil, space |-> Nil, item |-> Nil, gen |-> 0,
              serial |-> 0, evicts |-> {}, bans |-> {}, keys |-> {}]
KeysOf(n) == {k \in CacheKeys : SpaceOf[k] = n}
Returned(n) == {f[1] : f \in {g \in finished : SpaceOf[g[2]] = n}}

(* What get_item may return of the generation and of an entry.             *)
Readable(n) == {gens[n][i].gen : i \in reached[n] .. Len(gens[n])}
ReadableItems(k) == ({entries[k]} \cup older[k]) \ {Nil}

(* The evictions that the first i generations of n stand for.              *)
EvictedBy(n, i) == UNION {gens[n][j].evicts : j \in 1 .. i}

(***************************************************************************)
(* get.  A key that is absent or past its time is a miss and changes       *)
(* nothing.                                                                *)
(***************************************************************************)
GetItem(c, k) ==
  /\ backend = "dynamodb" /\ request[c].at = "idle"
  /\ \E item \in ReadableItems(k) :
       request' = [request EXCEPT ![c] =
         [NoRequest EXCEPT !.at = "generation", !.key = k, !.item = item,
                           !.bans = banned]]
  /\ UNCHANGED <<backend, entries, older, gens, reached, puts, invalidations,
                 finished, banned, answer>>

GetGeneration(c) ==
  LET r == request[c] IN
  /\ r.at = "generation"
  /\ \E gen \in Readable(SpaceOf[r.key]) :
       answer' = IF r.item.gen = gen
                 THEN [put |-> r.item.serial, banned |-> r.bans] ELSE answer
  /\ request' = [request EXCEPT ![c] = NoRequest]
  /\ UNCHANGED <<backend, entries, older, gens, reached, puts, invalidations,
                 finished, banned>>

RedisGet(c, k) ==
  /\ backend = "redis" /\ request[c].at = "idle" /\ entries[k] # Nil
  /\ answer' = [put |-> entries[k].serial, banned |-> banned]
  /\ UNCHANGED <<backend, entries, older, gens, reached, request, puts, invalidations,
                 finished, banned>>

(***************************************************************************)
(* put.                                                                    *)
(***************************************************************************)
PutGeneration(c, k) ==
  /\ backend = "dynamodb" /\ request[c].at = "idle" /\ puts < MaxPuts
  /\ puts' = puts + 1
  /\ \E gen \in Readable(SpaceOf[k]) :
       request' = [request EXCEPT ![c] =
         [NoRequest EXCEPT !.at = "entry", !.key = k, !.gen = gen, !.serial = puts + 1]]
  /\ UNCHANGED <<backend, entries, older, gens, reached, invalidations, finished,
                 banned, answer>>

PutEntry(c) ==
  LET r == request[c] IN
  /\ r.at = "entry"
  /\ entries' = [entries EXCEPT ![r.key] = [gen |-> r.gen, serial |-> r.serial]]
  /\ older' = [older EXCEPT ![r.key] = ReadableItems(r.key)]
  /\ finished' = finished \cup {<<r.serial, r.key>>}
  /\ request' = [request EXCEPT ![c] = NoRequest]
  /\ UNCHANGED <<backend, gens, reached, puts, invalidations, banned, answer>>

RedisPut(c, k) ==
  /\ backend = "redis" /\ request[c].at = "idle" /\ puts < MaxPuts
  /\ puts' = puts + 1
  /\ entries' = [entries EXCEPT ![k] = [gen |-> 0, serial |-> puts + 1]]
  /\ finished' = finished \cup {<<puts + 1, k>>}
  /\ UNCHANGED <<backend, older, gens, reached, request, invalidations, banned, answer>>

(***************************************************************************)
(* invalidate.                                                             *)
(***************************************************************************)
(* Mutant: the generation is a mark, not a time. *)
NextGenerationFixed == 1
NextGeneration == invalidations + 1

Stamp(c, n) ==
  /\ backend = "dynamodb" /\ request[c].at = "idle" /\ invalidations < MaxInvalidations
  /\ invalidations' = invalidations + 1
  /\ request' = [request EXCEPT ![c] =
       [NoRequest EXCEPT !.at = "stamp", !.space = n, !.gen = NextGeneration, !.evicts = Returned(n)]]
  /\ UNCHANGED <<backend, entries, older, gens, reached, puts, finished, banned, answer>>

WriteGeneration(c) ==
  LET r == request[c] IN
  /\ r.at = "stamp"
  /\ gens' = [gens EXCEPT ![r.space] = Append(@, [gen |-> r.gen, evicts |-> r.evicts])]
  /\ request' = [request EXCEPT ![c] = NoRequest]
  /\ UNCHANGED <<backend, entries, older, reached, puts, invalidations, finished, banned, answer>>

(* A write reaches the last copy of the table.                             *)
GenerationReaches(n) ==
  /\ reached[n] < Len(gens[n])
  /\ reached' = [reached EXCEPT ![n] = @ + 1]
  /\ banned' = banned \cup EvictedBy(n, reached[n] + 1)
  /\ UNCHANGED <<backend, entries, older, gens, request, puts, invalidations,
                 finished, answer>>

EntryReaches(k) ==
  /\ older[k] # {}
  /\ older' = [older EXCEPT ![k] = {}]
  /\ UNCHANGED <<backend, entries, gens, reached, request, puts, invalidations,
                 finished, banned, answer>>

(* scan_iter: a key that is there throughout is listed, one that comes or  *)
(* goes meanwhile may be.                                                  *)
RedisScan(c, n) ==
  /\ backend = "redis" /\ request[c].at = "idle" /\ invalidations < MaxInvalidations
  /\ invalidations' = invalidations + 1
  /\ request' = [request EXCEPT ![c] =
       [NoRequest EXCEPT !.at = "delete", !.space = n, !.evicts = Returned(n),
                         !.keys = {k \in KeysOf(n) : entries[k] # Nil}]]
  /\ UNCHANGED <<backend, entries, older, gens, reached, puts, finished, banned, answer>>

RedisDelete(c, late) ==
  LET r == request[c] IN
  /\ r.at = "delete" /\ late \subseteq KeysOf(r.space)
  /\ entries' = [k \in CacheKeys |-> IF k \in r.keys \cup late THEN Nil ELSE entries[k]]
  /\ banned' = banned \cup r.evicts
  /\ request' = [request EXCEPT ![c] = NoRequest]
  /\ UNCHANGED <<backend, older, gens, reached, puts, invalidations, finished, answer>>

(* The entry's time to live runs out: reaped, or taken as a miss.          *)
EntryExpires(k) ==
  /\ entries[k] # Nil
  /\ entries' = [entries EXCEPT ![k] = Nil]
  /\ UNCHANGED <<backend, older, gens, reached, request, puts, invalidations,
                 finished, banned, answer>>

SharedCacheInit ==
  /\ backend \in Backends
  /\ entries = [k \in CacheKeys |-> Nil] /\ older = [k \in CacheKeys |-> {}]
  /\ gens = [n \in Spaces |-> << [gen |-> 0, evicts |-> {}] >>] /\ reached = [n \in Spaces |-> 1]
  /\ request = [c \in Clients |-> NoRequest] /\ puts = 0 /\ invalidations = 0
  /\ finished = {} /\ banned = {}
  /\ answer = [put |-> 0, banned |-> {}]

SharedCacheNext ==
  \/ \E c \in Clients :
       \/ \E k \in CacheKeys : GetItem(c, k) \/ RedisGet(c, k) \/ PutGeneration(c, k) \/ RedisPut(c, k)
       \/ \E n \in Spaces : Stamp(c, n) \/ RedisScan(c, n)
       \/ GetGeneration(c) \/ PutEntry(c) \/ WriteGeneration(c)
       \/ \E late \in SUBSET CacheKeys : RedisDelete(c, late)
  \/ \E k \in CacheKeys : EntryReaches(k) \/ EntryExpires(k)
  \/ \E n \in Spaces : GenerationReaches(n)

SharedCacheSpec == SharedCacheInit /\ [][SharedCacheNext]_shvars
-----------------------------------------------------------------------------
(* Once an invalidation has returned and has reached every copy of the     *)
(* table (at once in Redis), no get that begins later is answered with a   *)
(* result whose put had returned before the invalidation began, whatever   *)
(* puts and invalidations run beside it (DynamoDBCache and RedisCache).    *)
EvictedStayOut == answer.put \notin answer.banned
=============================================================================
