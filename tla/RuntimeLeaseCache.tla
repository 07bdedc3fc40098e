-------------------------- MODULE RuntimeLeaseCache --------------------------
(***************************************************************************)
(* The Agent's cache of runtime material (runtime-lease-cache.ts) and its  *)
(* use before a prompt (ensureRuntimeModel of session-host.ts).            *)
(*                                                                         *)
(* A call of getOrLoad returns what is cached, joins a load under way or   *)
(* starts one.  A sign-out or a denial clears the entries of a member and  *)
(* counts up the generations of their keys; a load that was started before *)
(* must not fill the cache again.                                          *)
(*                                                                         *)
(* The keys of one member are modelled, and one clock: the wall clock and  *)
(* the monotonic one agree.  A value is told apart by the epoch of its key *)
(* and the time when the Manager was asked for it, and by its expiry.  An  *)
(* operation (the promise of a load) is named after the call that started  *)
(* it.  That call continues before those that joined it, since it was the  *)
(* first to await the promise; anything else may happen in between.        *)
(***************************************************************************)
EXTENDS Integers, FiniteSets

CONSTANTS
  Keys,        \* materialKey of one member: one for each employee and snapshot
  Calls,       \* bound: calls of ensureRuntimeModel at a time
  Forces,      \* values of forceRefresh; ensureRuntimeModel always has TRUE
  Lifetimes,   \* how long the Manager grants a value; None is no expires_at
  None,        \* no entry, operation, call, key, value or expiry
  JwtExpiry,   \* expiry of the member's token
  MaxTtl,      \* MAX_RUNTIME_LEASE_TTL_MS
  MaxEntries,  \* MAX_RUNTIME_LEASE_ENTRIES
  MaxTime,     \* bound: the clock
  MaxClears    \* bound: sign-outs, denials and values that do not fit

VARIABLES
  now,     \* the clock
  cache,   \* the cache, see Cache
  op,      \* the operations that some call still waits for
  call,    \* where a call stands, and the value that it returned
  clears   \* how many of these there were

vars == <<now, cache, op, call, clears>>

\* fits: the value agrees with the snapshot of its key; at: loadedAt, the time when
\* the load began that put the entry.
Value == [asked : Nat, fits : BOOLEAN, expires : Nat \union {None}]
Entry == [value : [asked : Nat, fits : {TRUE}, expires : Nat],
          at : Nat, expires : Nat, gen : Nat]

\* entries, the order of its keys as pairs, generations (0 for a key that is not
\* in the Map), pending (the call whose operation it is), and as history how
\* often a key was to be cleared.
Cache == [entry : [Keys -> Entry \union {None}],
          before : SUBSET (Keys \X Keys),
          gens : [Keys -> Nat],
          pending : [Keys -> Calls \union {None}],
          epoch : [Keys -> Nat]]
Op == [key : Keys, gen : Nat, at : Nat, asked : Nat, fallback : Value \union {None},
       state : {"loading", "value", "denied", "error"}, value : Value \union {None}]
Call == [phase : {"idle", "own", "joined", "using"}, on : Calls \union {None},
         key : Keys \union {None}, value : Value \union {None}]

ASSUME LeaseAssumption ==
  /\ None \notin Keys \union Calls \union Nat \union Value \union Op
  /\ None \notin [value : Value, at : Nat, expires : Int, gen : Nat]
  /\ Forces \subseteq BOOLEAN
  /\ Lifetimes \subseteq (Nat \ {0}) \union {None}
  /\ MaxTtl \in Nat \ {0} /\ MaxEntries \in Nat \ {0}
  /\ JwtExpiry \in Nat /\ MaxTime \in Nat /\ MaxClears \in Nat

Idle == [phase |-> "idle", on |-> None, key |-> None, value |-> None]

Init ==
  /\ now = 0
  /\ cache = [entry |-> [k \in Keys |-> None], before |-> {}, gens |-> [k \in Keys |-> 0],
              pending |-> [k \in Keys |-> None], epoch |-> [k \in Keys |-> 0]]
  /\ op = [c \in Calls |-> None]
  /\ call = [c \in Calls |-> Idle]
  /\ clears = 0

-----------------------------------------------------------------------------
(* The methods of the cache, from a state C of it to the next. *)

Cached(C) == {k \in Keys : C.entry[k] # None}

Valid(C, k) ==
  /\ C.entry[k] # None
  /\ C.entry[k].gen = C.gens[k]
  /\ now < C.entry[k].expires

Without(C, K) ==
  [C EXCEPT !.entry = [k \in Keys |-> IF k \in K THEN None ELSE C.entry[k]],
            !.before = {p \in C.before : p[1] \notin K /\ p[2] \notin K}]

\* The entry of k becomes e, at the end of the Map.
Last(C, k, e) ==
  [Without(C, {k}) EXCEPT !.entry[k] = e,
                          !.before = @ \union ((Cached(C) \ {k}) \X {k})]

\* get; its result is the entry of k afterwards.
Got(C, k) == IF Valid(C, k) THEN Last(C, k, C.entry[k]) ELSE Without(C, {k})

\* evict: put adds one entry, so one at most is too many.
Evicted(C) ==
  IF Cardinality(Cached(C)) <= MaxEntries THEN C
  ELSE Without(C, {k \in Cached(C) : \A x \in Cached(C) \ {k} : <<k, x>> \in C.before})

Least(S) == CHOOSE n \in S : \A x \in S : n <= x
\* boundedLeaseTtl; 0 for undefined.
Ttl(at, v) ==
  IF v.expires = None THEN 0 ELSE Least({MaxTtl, JwtExpiry - at, v.expires - at})

Mut_Put(C, k, v, at) ==
  IF Ttl(at, v) <= 0 THEN C
  ELSE Evicted(Last(C, k, [value |-> v, at |-> at, expires |-> now + Ttl(at, v), gen |-> C.gens[k]]))
Put(C, k, v, at) ==
  IF Ttl(at, v) <= 0 THEN C
  ELSE Evicted(Last(C, k, [value |-> v, at |-> at, expires |-> at + Ttl(at, v), gen |-> C.gens[k]]))

\* The entries, operations and generations of the keys K.
Dropped(C, K) ==
  [Without(C, K) EXCEPT
     !.pending = [k \in Keys |-> IF k \in K THEN None ELSE C.pending[k]],
     !.gens = [k \in Keys |-> IF k \in K THEN C.gens[k] + 1 ELSE C.gens[k]]]

\* clear(k).
Cleared(C, k) == [Dropped(C, {k}) EXCEPT !.epoch[k] = @ + 1]

\* The keys that clearOwner finds in one of the three Maps.
Mut_Reached(C) == {k \in Keys : C.entry[k] # None \/ C.gens[k] > 0}
Reached(C) == {k \in Keys : C.entry[k] # None \/ C.gens[k] > 0 \/ C.pending[k] # None}

\* clearOwner, called by clearRuntimeMaterials; clearAll for all members.
OwnerCleared(C) ==
  [Dropped(C, Reached(C)) EXCEPT !.epoch = [k \in Keys |-> C.epoch[k] + 1]]

Mut_Settled(C, k, c) == [C EXCEPT !.pending[k] = None]
\* The finally of getOrLoad.
Settled(C, k, c) == IF C.pending[k] = c THEN [C EXCEPT !.pending[k] = None] ELSE C

-----------------------------------------------------------------------------
(* The steps. *)

Expired(v) == v.expires # None /\ v.expires <= now

\* getOrLoad has returned v to the call c, with the cache at C: the checks of
\* ensureRuntimeModel.  The value is in use until the call is over.
Returned(C, c, k, v) ==
  \/ /\ Expired(v)
     /\ cache' = OwnerCleared(Cleared(C, k))
     /\ call' = [call EXCEPT ![c] = Idle]
  \/ /\ ~Expired(v) /\ ~v.fits
     /\ cache' = Cleared(C, k)
     /\ call' = [call EXCEPT ![c] = Idle]
  \/ /\ ~Expired(v) /\ v.fits
     /\ cache' = C
     /\ call' = [call EXCEPT ![c] = [phase |-> "using", on |-> None, key |-> k, value |-> v]]

\* getOrLoad has thrown a denial (denied) or another error to the call c.
Thrown(C, c, denied) ==
  /\ cache' = IF denied THEN OwnerCleared(C) ELSE C
  /\ call' = [call EXCEPT ![c] = Idle]

Hit(c, k, force) ==
  LET C == Got(cache, k)
  IN  /\ call[c].phase = "idle" /\ op[c] = None
      /\ ~force /\ C.entry[k] # None
      /\ Returned(C, c, k, C.entry[k].value)
      /\ UNCHANGED <<now, op, clears>>

Join(c, k, force) ==
  LET C == Got(cache, k)
  IN  /\ call[c].phase = "idle" /\ op[c] = None
      /\ force \/ C.entry[k] = None
      /\ C.pending[k] # None
      /\ cache' = C
      /\ call' = [call EXCEPT ![c] =
                    [phase |-> "joined", on |-> C.pending[k], key |-> k, value |-> None]]
      /\ UNCHANGED <<now, op, clears>>

Start(c, k, force) ==
  LET C == Got(cache, k)
  IN  /\ call[c].phase = "idle" /\ op[c] = None
      /\ force \/ C.entry[k] = None
      /\ C.pending[k] = None
      /\ cache' = [C EXCEPT !.pending[k] = c]
      /\ op' = [op EXCEPT ![c] =
                  [key |-> k, gen |-> C.gens[k], at |-> now, asked |-> C.epoch[k],
                   fallback |-> IF C.entry[k] = None THEN None ELSE C.entry[k].value,
                   state |-> "loading", value |-> None]]
      /\ call' = [call EXCEPT ![c] = [phase |-> "own", on |-> c, key |-> k, value |-> None]]
      /\ UNCHANGED <<now, clears>>

Loading(c) == op[c] # None /\ op[c].state = "loading"

Granted(c, l, fits) ==
  /\ Loading(c)
  /\ fits \/ clears < MaxClears
  /\ op' = [op EXCEPT ![c].state = "value",
                      ![c].value = [asked |-> op[c].asked, fits |-> fits,
                                    expires |-> IF l = None THEN None ELSE now + l]]
  /\ clears' = IF fits THEN clears ELSE clears + 1
  /\ UNCHANGED <<now, cache, call>>

Denied(c) ==
  /\ Loading(c)
  /\ clears < MaxClears
  /\ cache' = Cleared(cache, op[c].key)
  /\ op' = [op EXCEPT ![c].state = "denied"]
  /\ clears' = clears + 1
  /\ UNCHANGED <<now, call>>

\* A failure that allows the reuse of what was cached when the call began, or is now.
Unavailable(c) ==
  LET k == op[c].key
      C == Got(cache, k)
      reuse == IF op[c].fallback # None THEN op[c].fallback
               ELSE IF C.entry[k] # None THEN C.entry[k].value ELSE None
  IN  /\ Loading(c)
      /\ cache.gens[k] = op[c].gen
      /\ cache' = IF op[c].fallback # None THEN cache ELSE C
      /\ op' = [op EXCEPT ![c].state = IF reuse = None THEN "error" ELSE "value",
                          ![c].value = reuse]
      /\ UNCHANGED <<now, call, clears>>

\* Any other failure, or one after the key was cleared.
Failed(c) ==
  /\ Loading(c)
  /\ op' = [op EXCEPT ![c].state = "error"]
  /\ UNCHANGED <<now, cache, call, clears>>

\* The operation o is of no more interest once the last call that waits goes on.
Released(o, c) ==
  op' = IF \E d \in Calls \ {c} : call[d].phase \in {"own", "joined"} /\ call[d].on = o
        THEN op ELSE [op EXCEPT ![o] = None]

Mut_Stale(c) == FALSE
Stale(c) == cache.gens[op[c].key] # op[c].gen

ResumeOwn(c) ==
  LET k == op[c].key
      C == Settled(cache, k, c)
  IN  /\ call[c].phase = "own"
      /\ op[c].state # "loading"
      /\ \/ /\ op[c].state = "value" /\ ~Stale(c)
            /\ Returned(Settled(Put(cache, k, op[c].value, op[c].at), k, c), c, k, op[c].value)
         \/ /\ op[c].state # "value" \/ Stale(c)
            /\ Thrown(C, c, op[c].state = "denied")
      /\ Released(c, c)
      /\ UNCHANGED <<now, clears>>

Continues(c) == op[call[c].on].state # "loading" /\ call[call[c].on].phase # "own"

ResumeJoined(c) ==
  /\ call[c].phase = "joined"
  /\ Continues(c)
  /\ \/ /\ op[call[c].on].state = "value"
        /\ Returned(cache, c, call[c].key, op[call[c].on].value)
     \/ /\ op[call[c].on].state # "value"
        /\ Thrown(cache, c, op[call[c].on].state = "denied")
  /\ Released(call[c].on, c)
  /\ UNCHANGED <<now, clears>>

\* The prompt that uses the value is over.
Done(c) ==
  /\ call[c].phase = "using"
  /\ call' = [call EXCEPT ![c] = Idle]
  /\ UNCHANGED <<now, cache, op, clears>>

SignOut ==
  /\ clears < MaxClears
  /\ cache' = OwnerCleared(cache)
  /\ clears' = clears + 1
  /\ UNCHANGED <<now, op, call>>

Tick ==
  /\ now < MaxTime
  /\ now' = now + 1
  /\ UNCHANGED <<cache, op, call, clears>>

Next ==
  \/ \E c \in Calls, k \in Keys, force \in Forces :
       Hit(c, k, force) \/ Join(c, k, force) \/ Start(c, k, force)
  \/ \E c \in Calls, l \in Lifetimes, fits \in BOOLEAN : Granted(c, l, fits)
  \/ \E c \in Calls :
       \/ Denied(c) \/ Unavailable(c) \/ Failed(c)
       \/ ResumeOwn(c) \/ ResumeJoined(c) \/ Done(c)
  \/ SignOut
  \/ Tick

Spec == Init /\ [][Next]_vars

-----------------------------------------------------------------------------
(* Properties. *)

\* The state has its type; only a value with an expiry of its own is cached
\* ("No item is cached unless both user and upstream expiries are trusted"), and
\* none that does not fit its snapshot.
TypeOK ==
  /\ now \in Nat
  /\ cache \in Cache
  /\ op \in [Calls -> Op \union {None}]
  /\ call \in [Calls -> Call]
  /\ clears \in Nat

\* An entry is of the present generation and epoch of its key; an operation that
\* its call still waits for is either of a past generation, or it is registered in
\* pending and all it may return is of the present epoch; what is registered in
\* pending is such an operation.
LoadInv ==
  /\ \A k \in Keys : cache.entry[k] # None =>
       /\ cache.entry[k].gen = cache.gens[k]
       /\ cache.entry[k].value.asked = cache.epoch[k]
  /\ \A c \in Calls : call[c].phase = "own" =>
       /\ op[c] # None /\ call[c].on = c /\ call[c].key = op[c].key
       /\ op[c].gen <= cache.gens[op[c].key]
       /\ op[c].state = "value" => op[c].value # None
       /\ op[c].gen = cache.gens[op[c].key] =>
            /\ cache.pending[op[c].key] = c
            /\ op[c].state # "denied"
            /\ op[c].asked = cache.epoch[op[c].key]
            /\ \A v \in {op[c].fallback, op[c].value} \ {None} :
                 v.asked = cache.epoch[op[c].key]
  /\ \A k \in Keys : \A c \in Calls : cache.pending[k] = c =>
       call[c].phase = "own" /\ op[c].key = k /\ op[c].gen = cache.gens[k]
  /\ \A c \in Calls : op[c] # None /\ op[c].state = "loading" => call[c].phase = "own"
  /\ \A c \in Calls : call[c].phase = "joined" =>
       /\ call[c].on # None /\ call[c].key # None
       /\ op[call[c].on] # None
       /\ op[call[c].on].state = "value" => op[call[c].on].value # None

\* What the cache holds was asked for after the last sign-out, denial or
\* mismatch that was to clear its key: "an in-flight response cleared by
\* sign-out/revocation cannot repopulate it".
NoRefill ==
  \A k \in Keys : cache.entry[k] # None => cache.entry[k].value.asked = cache.epoch[k]

\* The check after the await in getOrLoad: a call that loaded a value itself
\* returns it only if its key was not cleared since the Manager was asked.
OwnIsCurrent ==
  [][\A c \in Calls : call[c].phase = "own" /\ call'[c].phase = "using" =>
       call'[c].value.asked = cache.epoch[call'[c].key]]_vars

\* Two calls load one key at the same time only if it was cleared between them:
\* a load of the key's present generation is the only one, since pending is
\* removed only by the operation that it holds, or by clear.
SingleFlight ==
  \A c, d \in Calls :
    /\ call[c].phase = "own" /\ op[c].gen = cache.gens[op[c].key]
    /\ call[d].phase = "own" /\ op[d].gen = cache.gens[op[d].key]
    /\ op[c].key = op[d].key
    => c = d

\* The bounds of put, evict and boundedLeaseTtl: at most MaxEntries entries, none
\* beyond the expiry of the token, of its value, or MaxTtl after the load that put
\* it had begun, however long the answer took and however often the entry was
\* hit.  (A load that fails puts the fallback again, with its own time.)
InBounds ==
  /\ Cardinality(Cached(cache)) <= MaxEntries
  /\ \A k \in Cached(cache) :
       /\ cache.entry[k].expires <= JwtExpiry
       /\ cache.entry[k].expires <= cache.entry[k].value.expires
       /\ cache.entry[k].expires <= cache.entry[k].at + MaxTtl
       /\ cache.entry[k].at <= now

\* The entries follow each other in one order, so that one of them is the first.
Ordered(C) ==
  /\ C.before \subseteq Cached(C) \X Cached(C)
  /\ \A x, y \in Cached(C) : x = y \/ <<x, y>> \in C.before \/ <<y, x>> \in C.before
  /\ \A x \in Cached(C) : <<x, x>> \notin C.before
  /\ \A x, y, z \in Cached(C) : <<x, y>> \in C.before /\ <<y, z>> \in C.before => <<x, z>> \in C.before

\* The argument for InBounds: a put that makes one entry too many finds a first one
\* to evict, and no operation was started in the future.
BoundInv ==
  /\ IsFiniteSet(Cached(cache)) /\ Ordered(cache)
  /\ \A c \in Calls : op[c] # None => op[c].at <= now
  /\ InBounds

\* The inductive invariant of the loads and of the entries.
LeaseInv == LoadInv /\ BoundInv

=============================================================================
