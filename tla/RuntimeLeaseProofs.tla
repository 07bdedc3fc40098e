------------------------- MODULE RuntimeLeaseProofs -------------------------
(***************************************************************************)
(* The invariant of the runtime lease cache, for any number of keys and    *)
(* calls.  All that the methods of the cache do to a key is one of three   *)
(* things (Forward): its generation grows and nothing is pending for it;   *)
(* or generation, pending and epoch stay; or, for a key that clearOwner    *)
(* does not find, only the epoch grows, while nothing is cached or pending *)
(* for it.  In each of them a load under way is either left alone or made  *)
(* one of a past generation.                                               *)
(***************************************************************************)
EXTENDS RuntimeLeaseCache, FiniteSetTheorems, TLAPS

EntryT == [value : Value, at : Nat, expires : Int, gen : Nat]
CacheT == [entry : [Keys -> EntryT \union {None}],
           before : SUBSET (Keys \X Keys),
           gens : [Keys -> Nat],
           pending : [Keys -> Calls \union {None}],
           epoch : [Keys -> Nat]]

\* The types that the proofs need; those of the entries are weaker than TypeOK.
Typed ==
  /\ now \in Nat
  /\ cache \in CacheT
  /\ op \in [Calls -> Op \union {None}]
  /\ call \in [Calls -> Call]
  /\ clears \in Nat

EntryGood(C) == \A k \in Keys : C.entry[k] # None =>
  C.entry[k].gen = C.gens[k] /\ C.entry[k].value.asked = C.epoch[k]

\* What get, put and evict keep.
Kept(C, D) ==
  /\ D \in CacheT /\ EntryGood(D)
  /\ D.gens = C.gens /\ D.pending = C.pending /\ D.epoch = C.epoch

\* What all methods do to a key; x is a call whose operation may be settled.
Forward(C, D, x) ==
  /\ D \in CacheT /\ EntryGood(D)
  /\ \A k \in Keys :
       \/ D.gens[k] > C.gens[k] /\ D.pending[k] = None
       \/ /\ D.gens[k] = C.gens[k] /\ D.epoch[k] = C.epoch[k]
          /\ D.pending[k] = C.pending[k] \/ (C.pending[k] = x /\ D.pending[k] = None)
       \/ /\ D.gens[k] = C.gens[k] /\ C.gens[k] = 0
          /\ C.pending[k] \in {None, x} /\ D.pending[k] = None

-----------------------------------------------------------------------------
(* The methods of the cache. *)

\* Removing entries keeps the rest.
LEMMA WithoutKept ==
  ASSUME NEW C \in CacheT, EntryGood(C), NEW K
  PROVE  Kept(C, Without(C, K))
<1> DEFINE D == Without(C, K)
<1>1. /\ D.entry = [k \in Keys |-> IF k \in K THEN None ELSE C.entry[k]]
      /\ D.before = {p \in C.before : p[1] \notin K /\ p[2] \notin K}
      /\ D.gens = C.gens /\ D.pending = C.pending /\ D.epoch = C.epoch
  BY Zenon DEF Without, CacheT
<1>2. D \in CacheT
  BY Zenon DEF Without, CacheT
<1>3. EntryGood(D)
  BY <1>1, Zenon DEF EntryGood
<1> QED BY <1>1, <1>2, <1>3, Zenon DEF Kept

\* An entry of the present generation and epoch may be set.
LEMMA LastKept ==
  ASSUME NEW C \in CacheT, EntryGood(C), NEW k \in Keys, NEW e \in EntryT,
         e.gen = C.gens[k], e.value.asked = C.epoch[k]
  PROVE  Kept(C, Last(C, k, e))
<1> DEFINE W == Without(C, {k})
           D == Last(C, k, e)
<1>1. W \in CacheT /\ EntryGood(W) /\ W.gens = C.gens /\ W.pending = C.pending
      /\ W.epoch = C.epoch
  BY WithoutKept, Zenon DEF Kept
<1>2. Cached(C) \subseteq Keys
  BY Zenon DEF Cached
<1> HIDE DEF W
<1>3. D = [W EXCEPT !.entry[k] = e, !.before = @ \union ((Cached(C) \ {k}) \X {k})]
  BY Zenon DEF Last, W
<1> DEFINE en == [W.entry EXCEPT ![k] = e]
           be == W.before \union ((Cached(C) \ {k}) \X {k})
<1>4. D = [entry |-> en, before |-> be, gens |-> W.gens, pending |-> W.pending,
           epoch |-> W.epoch]
  BY <1>1, <1>3, Zenon DEF CacheT
<1>5. en \in [Keys -> EntryT \union {None}] /\ be \in SUBSET (Keys \X Keys)
  BY <1>1, <1>2, Zenon DEF CacheT
<1>6. /\ D.entry = [W.entry EXCEPT ![k] = e]
      /\ D.gens = W.gens /\ D.pending = W.pending /\ D.epoch = W.epoch
  BY <1>4
<1>7. D \in CacheT
  <2> HIDE DEF en, be, D
  <2> QED BY <1>1, <1>4, <1>5, Zenon DEF CacheT
<1>8. EntryGood(D)
  BY <1>1, <1>6, Zenon DEF EntryGood, CacheT
<1> QED BY <1>1, <1>6, <1>7, <1>8, Zenon DEF Kept

\* get keeps the generations, what is pending and the epochs.
LEMMA GotKept ==
  ASSUME NEW C \in CacheT, EntryGood(C), NEW k \in Keys
  PROVE  Kept(C, Got(C, k))
<1>1. CASE Valid(C, k)
  <2>1. C.entry[k] # None /\ C.entry[k] \in EntryT
    BY <1>1, Zenon DEF Valid, CacheT
  <2>2. PICK e \in EntryT : e = C.entry[k]
    BY <2>1, Zenon
  <2>3. e.gen = C.gens[k] /\ e.value.asked = C.epoch[k]
    BY <2>1, <2>2, Zenon DEF EntryGood
  <2>4. Kept(C, Last(C, k, e))
    BY <2>3, LastKept, Zenon
  <2> QED BY <1>1, <2>2, <2>4, Zenon DEF Got
<1>2. CASE ~Valid(C, k)
  BY <1>2, WithoutKept, Zenon DEF Got
<1> QED BY <1>1, <1>2, Zenon

\* boundedLeaseTtl yields a number.
LEMMA TtlInt ==
  ASSUME NEW at \in Nat, NEW v \in Value
  PROVE  Ttl(at, v) \in Int
<1>1. CASE v.expires = None
  BY <1>1 DEF Ttl
<1>2. CASE v.expires # None
  <2> DEFINE S == {MaxTtl, JwtExpiry - at, v.expires - at}
  <2>1. v.expires \in Nat
    BY <1>2, Zenon DEF Value
  <2>2. S \subseteq Int
    BY <2>1, LeaseAssumption
  <2>3. \E n \in S : \A y \in S : n <= y
    BY <2>1, LeaseAssumption
  <2>4. Ttl(at, v) = Least(S)
    BY <1>2, Zenon DEF Ttl
  <2> HIDE DEF S
  <2>5. Least(S) \in S
    BY <2>3, Zenon DEF Least
  <2> QED BY <2>2, <2>4, <2>5, Zenon
<1> QED BY <1>1, <1>2, Zenon

\* put of a value of the present epoch keeps the rest.
LEMMA PutKept ==
  ASSUME NEW C \in CacheT, EntryGood(C), NEW k \in Keys, NEW v \in Value, NEW at \in Nat,
         v.asked = C.epoch[k]
  PROVE  Kept(C, Put(C, k, v, at))
<1>1. CASE Ttl(at, v) <= 0
  BY <1>1, Zenon DEF Put, Kept
<1>2. CASE ~(Ttl(at, v) <= 0)
  <2>1. PICK e \in EntryT : e = [value |-> v, at |-> at, expires |-> at + Ttl(at, v), gen |-> C.gens[k]]
    <3>1. at + Ttl(at, v) \in Int /\ C.gens[k] \in Nat
      BY TtlInt DEF CacheT
    <3> QED BY <3>1, Zenon DEF EntryT
  <2>2. e.gen = C.gens[k] /\ e.value.asked = C.epoch[k]
    BY <2>1, Zenon
  <2>3. Kept(C, Last(C, k, e))
    BY <2>2, LastKept, Zenon
  <2>4. Put(C, k, v, at) = Evicted(Last(C, k, e))
    BY <1>2, <2>1, Zenon DEF Put
  <2> DEFINE D == Last(C, k, e)
  <2>5. D \in CacheT /\ EntryGood(D)
    BY <2>3, Zenon DEF Kept
  <2> HIDE DEF D
  <2>6. Kept(D, Evicted(D))
    <3>1. Kept(D, D)
      BY <2>5, Zenon DEF Kept
    <3>2. Kept(D, Without(D, {x \in Cached(D) : \A y \in Cached(D) \ {x} : <<x, y>> \in D.before}))
      BY <2>5, WithoutKept, Zenon
    <3> QED BY <3>1, <3>2, Zenon DEF Evicted
  <2> QED BY <2>3, <2>4, <2>6, Zenon DEF Kept, D
<1> QED BY <1>1, <1>2, Zenon

-----------------------------------------------------------------------------
(* The three things that may happen to a key. *)

\* get and put leave the key of an operation alone.
LEMMA KeptForward ==
  ASSUME NEW C \in CacheT, NEW D, Kept(C, D)
  PROVE  Forward(C, D, None)
BY Zenon DEF Kept, Forward

\* One method after the other.
LEMMA ForwardTrans ==
  ASSUME NEW C \in CacheT, NEW D, NEW E, NEW x \in Calls \union {None},
         Forward(C, D, x), Forward(D, E, None)
  PROVE  Forward(C, E, x)
<1>1. D \in CacheT /\ E \in CacheT /\ EntryGood(E)
  BY Zenon DEF Forward
<1>2. ASSUME NEW k \in Keys
      PROVE  \/ E.gens[k] > C.gens[k] /\ E.pending[k] = None
             \/ /\ E.gens[k] = C.gens[k] /\ E.epoch[k] = C.epoch[k]
                /\ E.pending[k] = C.pending[k] \/ (C.pending[k] = x /\ E.pending[k] = None)
             \/ /\ E.gens[k] = C.gens[k] /\ C.gens[k] = 0
                /\ C.pending[k] \in {None, x} /\ E.pending[k] = None
  <2>1. C.gens[k] \in Nat /\ D.gens[k] \in Nat /\ E.gens[k] \in Nat
    BY <1>1, Zenon DEF CacheT
  <2> QED BY <1>1, <1>2, <2>1 DEF Forward
<1> QED BY <1>1, <1>2, Zenon DEF Forward

\* The keys K are dropped, and the epochs become ep.
Renewed(C, K, ep) == [Dropped(C, K) EXCEPT !.epoch = ep]

\* Dropping the keys K counts up their generations.
LEMMA DroppedFields ==
  ASSUME NEW C \in CacheT, EntryGood(C), NEW K, NEW ep \in [Keys -> Nat],
         \A k \in Keys : k \in K \/ C.entry[k] = None \/ ep[k] = C.epoch[k]
  PROVE  /\ Renewed(C, K, ep) \in CacheT /\ EntryGood(Renewed(C, K, ep))
         /\ Renewed(C, K, ep).pending = [k \in Keys |-> IF k \in K THEN None ELSE C.pending[k]]
         /\ Renewed(C, K, ep).gens =
              [k \in Keys |-> IF k \in K THEN C.gens[k] + 1 ELSE C.gens[k]]
         /\ Renewed(C, K, ep).epoch = ep
<1> DEFINE pe == [k \in Keys |-> IF k \in K THEN None ELSE C.pending[k]]
           ge == [k \in Keys |-> IF k \in K THEN C.gens[k] + 1 ELSE C.gens[k]]
           W == Without(C, K)
           D == Renewed(C, K, ep)
<1>1. W \in CacheT
  BY WithoutKept, Zenon DEF Kept
<1>2. W.entry = [k \in Keys |-> IF k \in K THEN None ELSE C.entry[k]]
  BY Zenon DEF Without, CacheT
<1>3. pe \in [Keys -> Calls \union {None}] /\ ge \in [Keys -> Nat]
  BY DEF CacheT
<1>4. Dropped(C, K) = [W EXCEPT !.pending = pe, !.gens = ge]
  BY Zenon DEF Dropped
<1> HIDE DEF pe, ge, W
<1>5. D = [entry |-> W.entry, before |-> W.before, gens |-> ge, pending |-> pe, epoch |-> ep]
  <2>1. Dropped(C, K) = [entry |-> W.entry, before |-> W.before, gens |-> ge,
                         pending |-> pe, epoch |-> W.epoch]
    BY <1>1, <1>4, Zenon DEF CacheT
  <2> QED BY <2>1 DEF Renewed
<1> HIDE DEF D
<1>6. D \in CacheT
  <2>1. W.entry \in [Keys -> EntryT \union {None}] /\ W.before \in SUBSET (Keys \X Keys)
    BY <1>1, Zenon DEF CacheT
  <2> QED BY <1>3, <1>5, <2>1, Zenon DEF CacheT
<1>7. D.entry = W.entry /\ D.gens = ge /\ D.pending = pe /\ D.epoch = ep
  BY <1>5, Zenon
<1>8. EntryGood(D)
  <2> SUFFICES ASSUME NEW k \in Keys, D.entry[k] # None
               PROVE  D.entry[k].gen = D.gens[k] /\ D.entry[k].value.asked = D.epoch[k]
    BY Zenon DEF EntryGood
  <2>1. k \notin K /\ D.entry[k] = C.entry[k]
    BY <1>2, <1>7, Zenon
  <2>2. D.gens[k] = C.gens[k]
    BY <1>7, <2>1, Zenon DEF ge
  <2> QED BY <1>7, <2>1, <2>2, Zenon DEF EntryGood
<1> QED BY <1>6, <1>7, <1>8, Zenon DEF pe, ge, D

\* clear.
LEMMA ClearedForward ==
  ASSUME NEW C \in CacheT, EntryGood(C), NEW k \in Keys
  PROVE  Forward(C, Cleared(C, k), None)
<1> DEFINE D == Cleared(C, k)
           K == {k}
<1>1. PICK e \in [Keys -> Nat] : e = [C.epoch EXCEPT ![k] = C.epoch[k] + 1]
  <2>1. C.epoch \in [Keys -> Nat]
    BY Zenon DEF CacheT
  <2>2. [C.epoch EXCEPT ![k] = C.epoch[k] + 1] \in [Keys -> Nat]
    BY <2>1
  <2> QED BY <2>2, Zenon
<1>2. \A x \in Keys : x \in K \/ C.entry[x] = None \/ e[x] = C.epoch[x]
  BY <1>1, Zenon DEF CacheT
<1>3. D = Renewed(C, K, e)
  <2>1. Without(C, {k}) \in CacheT /\ Without(C, {k}).epoch = C.epoch
    BY WithoutKept, Zenon DEF Kept
  <2>2. Dropped(C, {k}).epoch = C.epoch
    BY <2>1, Zenon DEF Dropped, CacheT
  <2> QED BY <1>1, <2>1, <2>2, Zenon DEF Cleared, Renewed, Dropped, CacheT
<1> HIDE DEF D, K
<1>4. /\ D \in CacheT /\ EntryGood(D)
      /\ D.pending = [x \in Keys |-> IF x \in K THEN None ELSE C.pending[x]]
      /\ D.gens = [x \in Keys |-> IF x \in K THEN C.gens[x] + 1 ELSE C.gens[x]]
      /\ D.epoch = e
  BY <1>2, <1>3, DroppedFields
<1>5. Forward(C, D, None)
  BY <1>1, <1>4 DEF Forward, CacheT, K
<1> QED BY <1>5, Zenon DEF D

\* clearOwner: a key it does not find has no entry and nothing pending.
LEMMA OwnerForward ==
  ASSUME NEW C \in CacheT, EntryGood(C)
  PROVE  Forward(C, OwnerCleared(C), None)
<1> DEFINE D == OwnerCleared(C)
           K == Reached(C)
<1>1. PICK e \in [Keys -> Nat] : e = [k \in Keys |-> C.epoch[k] + 1]
  <2>1. [k \in Keys |-> C.epoch[k] + 1] \in [Keys -> Nat]
    BY DEF CacheT
  <2> QED BY <2>1, Zenon
<1>2. \A k \in Keys : k \notin K => /\ C.entry[k] = None /\ C.pending[k] = None
                                   /\ C.gens[k] = 0
  BY DEF Reached, CacheT
<1>3. D = Renewed(C, K, e)
  BY <1>1, Zenon DEF OwnerCleared, Renewed
<1> HIDE DEF D, K
<1>4. /\ D \in CacheT /\ EntryGood(D)
      /\ D.pending = [x \in Keys |-> IF x \in K THEN None ELSE C.pending[x]]
      /\ D.gens = [x \in Keys |-> IF x \in K THEN C.gens[x] + 1 ELSE C.gens[x]]
      /\ D.epoch = e
  BY <1>2, <1>3, DroppedFields
<1>5. Forward(C, D, None)
  BY <1>2, <1>4 DEF Forward, CacheT
<1> QED BY <1>5, Zenon DEF D

-----------------------------------------------------------------------------
(* The invariant, call by call. *)

OwnGood(c) == call[c].phase = "own" =>
  /\ op[c] # None /\ call[c].on = c /\ call[c].key = op[c].key
  /\ op[c].gen <= cache.gens[op[c].key]
  /\ op[c].state = "value" => op[c].value # None
  /\ op[c].gen = cache.gens[op[c].key] =>
       /\ cache.pending[op[c].key] = c
       /\ op[c].state # "denied"
       /\ op[c].asked = cache.epoch[op[c].key]
       /\ \A v \in {op[c].fallback, op[c].value} \ {None} : v.asked = cache.epoch[op[c].key]

PendingGood(k, c) == cache.pending[k] = c =>
  call[c].phase = "own" /\ op[c].key = k /\ op[c].gen = cache.gens[k]

LoadingGood(c) == op[c] # None /\ op[c].state = "loading" => call[c].phase = "own"

JoinedGood(c) == call[c].phase = "joined" =>
  /\ call[c].on # None /\ call[c].key # None
  /\ op[call[c].on] # None
  /\ op[call[c].on].state = "value" => op[call[c].on].value # None

\* The parts of the invariant.
LEMMA Parts ==
  LoadInv <=> /\ EntryGood(cache)
              /\ \A c \in Calls : OwnGood(c) /\ LoadingGood(c) /\ JoinedGood(c)
              /\ \A k \in Keys, c \in Calls : PendingGood(k, c)
BY Zenon DEF LoadInv, EntryGood, OwnGood, LoadingGood, JoinedGood, PendingGood

\* The same after a step.
LEMMA PartsNext ==
  ASSUME EntryGood(cache'),
         \A c \in Calls : OwnGood(c)' /\ LoadingGood(c)' /\ JoinedGood(c)',
         \A k \in Keys, c \in Calls : PendingGood(k, c)'
  PROVE  LoadInv'
BY Zenon DEF LoadInv, EntryGood, OwnGood, LoadingGood, JoinedGood, PendingGood

\* A load that its call waits for, and that the step does not touch.
LEMMA OwnKept ==
  ASSUME Typed, NEW d \in Calls, NEW x \in Calls \union {None}, x # d, OwnGood(d),
         Forward(cache, cache', x), op'[d] = op[d], call'[d] = call[d]
  PROVE  OwnGood(d)'
<1> SUFFICES ASSUME call[d].phase = "own" PROVE OwnGood(d)'
  BY Zenon DEF OwnGood
<1>1. op[d] # None /\ op[d] \in Op
  BY Zenon DEF OwnGood, Typed
<1>2. PICK o \in Op : o = op[d]
  BY <1>1, Zenon
<1>3. PICK k \in Keys : k = o.key
  BY Zenon DEF Op
<1>4. /\ cache.gens[k] \in Nat /\ cache'.gens[k] \in Nat /\ o.gen \in Nat
      /\ d # None
  BY LeaseAssumption, Zenon DEF Typed, Forward, CacheT, Op
<1>5. /\ o.gen <= cache.gens[k]
      /\ o.state = "value" => o.value # None
      /\ o.gen = cache.gens[k] =>
           /\ cache.pending[k] = d /\ o.state # "denied" /\ o.asked = cache.epoch[k]
           /\ \A v \in {o.fallback, o.value} \ {None} : v.asked = cache.epoch[k]
  BY <1>2, <1>3, Zenon DEF OwnGood
<1>6. \/ cache'.gens[k] > cache.gens[k]
      \/ /\ cache'.gens[k] = cache.gens[k] /\ cache'.epoch[k] = cache.epoch[k]
         /\ cache.pending[k] = d => cache'.pending[k] = d
      \/ cache'.gens[k] = cache.gens[k] /\ cache.pending[k] # d
  BY <1>4, Zenon DEF Forward
<1>7. /\ o.gen <= cache'.gens[k]
      /\ o.gen = cache'.gens[k] =>
           /\ cache'.pending[k] = d /\ o.state # "denied" /\ o.asked = cache'.epoch[k]
           /\ \A v \in {o.fallback, o.value} \ {None} : v.asked = cache'.epoch[k]
  BY <1>4, <1>5, <1>6
<1> QED BY <1>1, <1>2, <1>3, <1>5, <1>7, Zenon DEF OwnGood

\* What is pending after a step was pending before it, if nothing was started.
LEMMA PendingKept ==
  ASSUME Typed, NEW k \in Keys, NEW d \in Calls, NEW x \in Calls \union {None},
         PendingGood(k, d), Forward(cache, cache', x),
         cache'.pending[k] = d => /\ call'[d].phase = call[d].phase
                                  /\ op'[d].key = op[d].key /\ op'[d].gen = op[d].gen
  PROVE  PendingGood(k, d)'
<1> SUFFICES ASSUME cache'.pending[k] = d
             PROVE  call'[d].phase = "own" /\ op'[d].key = k /\ op'[d].gen = cache'.gens[k]
  BY Zenon DEF PendingGood
<1>1. d # None
  BY LeaseAssumption, Zenon
<1>2. cache.pending[k] = d /\ cache'.gens[k] = cache.gens[k]
  BY <1>1, Zenon DEF Forward
<1> QED BY <1>2, Zenon DEF PendingGood

\* A step that settles nothing is one that may settle.
LEMMA ForwardAny ==
  ASSUME NEW C, NEW D, Forward(C, D, None), NEW x
  PROVE  Forward(C, D, x)
BY Zenon DEF Forward

\* The call c no longer waits, or never did; o is released if nobody else waits.
LEMMA Leaves ==
  ASSUME Typed, LoadInv, NEW c \in Calls, NEW o \in Calls, NEW x \in Call,
         x.phase \notin {"own", "joined"},
         Forward(cache, cache', c), \A k \in Keys : cache'.pending[k] # c,
         call' = [call EXCEPT ![c] = x],
         ~(op[c] # None /\ op[c].state = "loading"),
         \/ op' = op
         \/ /\ op' = [op EXCEPT ![o] = None]
            /\ \A d \in Calls \ {c} : ~(call[d].phase \in {"own", "joined"} /\ call[d].on = o),
         UNCHANGED <<now, clears>>
  PROVE  Typed' /\ LoadInv'
<1>1. Typed'
  BY Zenon DEF Typed, Forward
<1>2. EntryGood(cache')
  BY Zenon DEF Forward
<1>3. call'[c] = x /\ \A d \in Calls \ {c} : call'[d] = call[d]
  BY Zenon DEF Typed
<1>4. ASSUME NEW d \in Calls \ {c}, call[d].phase \in {"own", "joined"}
      PROVE  op'[call[d].on] = op[call[d].on]
  <2>1. OwnGood(d) /\ JoinedGood(d)
    BY Parts, Zenon
  <2>2. call[d].on \in Calls
    <3>1. call[d].on \in Calls \union {None}
      BY Zenon DEF Typed, Call
    <3> QED BY <1>4, <2>1, <3>1, Zenon DEF OwnGood, JoinedGood
  <2>3. call[d].on # o \/ op' = op
    BY <1>4, Zenon
  <2> QED BY <2>2, <2>3, Zenon DEF Typed
<1>5. ASSUME NEW d \in Calls PROVE OwnGood(d)'
  <2>1. CASE d = c
    BY <1>3, <2>1, Zenon DEF OwnGood
  <2>2. CASE d # c /\ call[d].phase = "own"
    <3>1. OwnGood(d)
      BY Parts, Zenon
    <3>2. op'[d] = op[d]
      BY <1>4, <2>2, <3>1 DEF OwnGood
    <3> QED BY <1>3, <2>2, <3>1, <3>2, OwnKept, Zenon
  <2>3. CASE d # c /\ call[d].phase # "own"
    BY <1>3, <2>3, Zenon DEF OwnGood
  <2> QED BY <2>1, <2>2, <2>3, Zenon
<1>6. ASSUME NEW d \in Calls PROVE LoadingGood(d)'
  <2>1. op'[d] = op[d] \/ op'[d] = None
    BY Zenon DEF Typed
  <2>2. LoadingGood(d)
    BY Parts, Zenon
  <2> QED BY <1>3, <2>1, <2>2, Zenon DEF LoadingGood
<1>7. ASSUME NEW d \in Calls PROVE JoinedGood(d)'
  <2>1. JoinedGood(d)
    BY Parts, Zenon
  <2>2. CASE d # c /\ call[d].phase = "joined"
    BY <1>3, <1>4, <2>1, <2>2, Zenon DEF JoinedGood
  <2>3. CASE d = c \/ call[d].phase # "joined"
    BY <1>3, <2>3, Zenon DEF JoinedGood
  <2> QED BY <2>2, <2>3, Zenon
<1>8. ASSUME NEW k \in Keys, NEW d \in Calls PROVE PendingGood(k, d)'
  <2>1. CASE d = c
    BY <2>1, Zenon DEF PendingGood
  <2>2. CASE d # c
    <3>1. PendingGood(k, d)
      BY Parts, Zenon
    <3>2. ASSUME cache'.pending[k] = d PROVE op'[d] = op[d]
      <4>1. d # None
        BY LeaseAssumption, Zenon
      <4>2. cache.pending[k] = d
        BY <3>2, <4>1, Zenon DEF Forward
      <4>3. call[d].phase = "own" /\ OwnGood(d)
        BY <3>1, <4>2, Parts, Zenon DEF PendingGood
      <4> QED BY <1>4, <2>2, <4>3 DEF OwnGood
    <3> QED BY <1>3, <2>2, <3>1, <3>2, PendingKept, Zenon
  <2> QED BY <2>1, <2>2, Zenon
<1> QED BY <1>1, <1>2, <1>5, <1>6, <1>7, <1>8, PartsNext, Zenon

-----------------------------------------------------------------------------
(* The steps. *)

\* ensureRuntimeModel with a value: the cache goes forward, the call is over or
\* uses the value.
LEMMA ReturnedStep ==
  ASSUME NEW C \in CacheT, EntryGood(C), NEW c \in Calls, NEW k \in Keys, NEW v \in Value,
         Returned(C, c, k, v)
  PROVE  /\ Forward(C, cache', None)
         /\ \E x \in Call : x.phase \notin {"own", "joined"} /\ call' = [call EXCEPT ![c] = x]
<1>1. Idle \in Call /\ Idle.phase \notin {"own", "joined"}
  BY Zenon DEF Idle, Call
<1>2. Forward(C, C, None)
  BY Zenon DEF Forward
<1>3. Forward(C, Cleared(C, k), None)
  BY ClearedForward, Zenon
<1>4. Forward(C, OwnerCleared(Cleared(C, k)), None)
  <2>1. Cleared(C, k) \in CacheT /\ EntryGood(Cleared(C, k))
    BY <1>3, Zenon DEF Forward
  <2>2. Forward(Cleared(C, k), OwnerCleared(Cleared(C, k)), None)
    BY <2>1, OwnerForward, Zenon
  <2> QED BY <1>3, <2>2, ForwardTrans, Zenon
<1>5. CASE /\ cache' = OwnerCleared(Cleared(C, k))
           /\ call' = [call EXCEPT ![c] = Idle]
  BY <1>1, <1>4, <1>5, Zenon
<1>6. CASE /\ cache' = Cleared(C, k)
           /\ call' = [call EXCEPT ![c] = Idle]
  BY <1>1, <1>3, <1>6, Zenon
<1>7. CASE /\ cache' = C
           /\ call' = [call EXCEPT ![c] = [phase |-> "using", on |-> None, key |-> k, value |-> v]]
  <2>1. PICK x \in Call : x = [phase |-> "using", on |-> None, key |-> k, value |-> v]
    BY Zenon DEF Call
  <2>2. x.phase \notin {"own", "joined"}
    BY <2>1, Zenon
  <2> QED BY <1>2, <1>7, <2>1, <2>2, Zenon
<1> QED BY <1>5, <1>6, <1>7, Zenon DEF Returned

\* ensureRuntimeModel with an error.
LEMMA ThrownStep ==
  ASSUME NEW C \in CacheT, EntryGood(C), NEW c \in Calls, NEW denied, Thrown(C, c, denied)
  PROVE  /\ Forward(C, cache', None)
         /\ \E x \in Call : x.phase \notin {"own", "joined"} /\ call' = [call EXCEPT ![c] = x]
<1>1. Idle \in Call /\ Idle.phase \notin {"own", "joined"}
  BY Zenon DEF Idle, Call
<1>2. Forward(C, C, None)
  BY Zenon DEF Forward
<1>3. Forward(C, OwnerCleared(C), None)
  BY OwnerForward, Zenon
<1>4. cache' = C \/ cache' = OwnerCleared(C)
  BY Zenon DEF Thrown
<1>5. call' = [call EXCEPT ![c] = Idle]
  BY Zenon DEF Thrown
<1> QED BY <1>1, <1>2, <1>3, <1>4, <1>5, Zenon

\* A call that is not one's own load has nothing pending, and stays so.
LEMMA NotPending ==
  ASSUME NEW C \in CacheT, NEW D, NEW c \in Calls, Forward(C, D, None),
         \A k \in Keys : C.pending[k] # c
  PROVE  \A k \in Keys : D.pending[k] # c
<1>1. c # None
  BY LeaseAssumption, Zenon
<1> QED BY <1>1, Zenon DEF Forward

\* A hit of get, for a call without forceRefresh.
LEMMA HitKeeps ==
  ASSUME Typed, LoadInv, NEW c \in Calls, NEW k \in Keys, NEW force, Hit(c, k, force)
  PROVE  Typed' /\ LoadInv'
<1> DEFINE C == Got(cache, k)
<1>1. cache \in CacheT /\ EntryGood(cache)
  BY Parts, Zenon DEF Typed
<1>2. Kept(cache, C)
  BY <1>1, GotKept, Zenon
<1>3. /\ call[c].phase = "idle" /\ op[c] = None /\ C.entry[k] # None
      /\ Returned(C, c, k, C.entry[k].value) /\ UNCHANGED <<now, op, clears>>
  BY Zenon DEF Hit
<1> HIDE DEF C
<1>4. C \in CacheT /\ EntryGood(C) /\ Forward(cache, C, None)
  BY <1>1, <1>2, KeptForward, Zenon DEF Kept
<1>5. PICK v \in Value : v = C.entry[k].value
  BY <1>3, <1>4, Zenon DEF CacheT, EntryT
<1>6. /\ Forward(C, cache', None)
      /\ \E x \in Call : x.phase \notin {"own", "joined"} /\ call' = [call EXCEPT ![c] = x]
  BY <1>3, <1>4, <1>5, ReturnedStep, Zenon
<1>7. Forward(cache, cache', None)
  BY <1>1, <1>4, <1>6, ForwardTrans, Zenon
<1>8. \A y \in Keys : cache.pending[y] # c
  BY <1>3, Parts, Zenon DEF PendingGood
<1>9. (\A y \in Keys : cache'.pending[y] # c) /\ Forward(cache, cache', c)
  BY <1>1, <1>7, <1>8, NotPending, ForwardAny, Zenon
<1> QED BY <1>3, <1>6, <1>9, Leaves, Zenon

\* A prompt that is over.
LEMMA DoneKeeps ==
  ASSUME Typed, LoadInv, NEW c \in Calls, Done(c)
  PROVE  Typed' /\ LoadInv'
<1>1. /\ call[c].phase = "using" /\ call' = [call EXCEPT ![c] = Idle]
      /\ UNCHANGED <<now, cache, op, clears>>
  BY Zenon DEF Done
<1>2. Idle \in Call /\ Idle.phase \notin {"own", "joined"}
  BY Zenon DEF Idle, Call
<1>3. LoadingGood(c) /\ \A k \in Keys : PendingGood(k, c)
  BY Parts, Zenon
<1>4. Forward(cache, cache', c)
  BY <1>1, Parts, Zenon DEF Forward, Typed
<1>5. \A k \in Keys : cache'.pending[k] # c
  BY <1>1, <1>3, Zenon DEF PendingGood
<1>6. ~(op[c] # None /\ op[c].state = "loading")
  BY <1>1, <1>3, Zenon DEF LoadingGood
<1> QED BY <1>1, <1>2, <1>4, <1>5, <1>6, Leaves, Zenon

\* The call that started a load goes on.
LEMMA ResumeOwnKeeps ==
  ASSUME Typed, LoadInv, NEW c \in Calls, ResumeOwn(c)
  PROVE  Typed' /\ LoadInv'
<1>1. /\ call[c].phase = "own" /\ op[c].state # "loading" /\ Released(c, c)
      /\ UNCHANGED <<now, clears>>
  BY Zenon DEF ResumeOwn
<1>2. OwnGood(c) /\ cache \in CacheT /\ EntryGood(cache)
  BY Parts, Zenon DEF Typed
<1>3. PICK o \in Op : o = op[c]
  BY <1>1, <1>2, Zenon DEF OwnGood, Typed
<1>4. PICK k \in Keys : k = o.key
  BY Zenon DEF Op
<1>5. ASSUME NEW D, Kept(cache, D)
      PROVE  /\ Settled(D, k, c) \in CacheT /\ EntryGood(Settled(D, k, c))
             /\ Forward(cache, Settled(D, k, c), c)
             /\ \A y \in Keys : Settled(D, k, c).pending[y] # c
  <2> DEFINE S == Settled(D, k, c)
  <2>1. D \in CacheT /\ EntryGood(D)
    BY <1>5, Zenon DEF Kept
  <2>2. \A y \in Keys : D.pending[y] = c => y = k
    BY <1>3, <1>4, <1>5, Parts DEF PendingGood, Kept
  <2>3. CASE D.pending[k] = c
    <3> DEFINE pe == [D.pending EXCEPT ![k] = None]
    <3>1. S = [entry |-> D.entry, before |-> D.before, gens |-> D.gens, pending |-> pe,
               epoch |-> D.epoch]
      BY <2>1, <2>3, Zenon DEF Settled, CacheT
    <3>2. pe \in [Keys -> Calls \union {None}]
      BY <2>1, Zenon DEF CacheT
    <3>3. \A y \in Keys : pe[y] = IF y = k THEN None ELSE D.pending[y]
      BY <2>1, Zenon DEF CacheT
    <3> HIDE DEF pe, S
    <3>4. S \in CacheT
      <4>1. /\ D.entry \in [Keys -> EntryT \union {None}] /\ D.before \in SUBSET (Keys \X Keys)
            /\ D.gens \in [Keys -> Nat] /\ D.epoch \in [Keys -> Nat]
        BY <2>1, Zenon DEF CacheT
      <4> QED BY <3>1, <3>2, <4>1, Zenon DEF CacheT
    <3>5. /\ S.entry = D.entry /\ S.gens = D.gens /\ S.epoch = D.epoch /\ S.pending = pe
      BY <3>1, Zenon
    <3>6. EntryGood(S)
      BY <2>1, <3>5, Zenon DEF EntryGood
    <3>7. Forward(cache, S, c)
      BY <1>5, <2>3, <3>3, <3>4, <3>5, <3>6, Zenon DEF Forward, Kept
    <3>8. \A y \in Keys : S.pending[y] # c
      BY <2>2, <3>3, <3>5, LeaseAssumption, Zenon
    <3> QED BY <3>4, <3>6, <3>7, <3>8, Zenon DEF S
  <2>4. CASE D.pending[k] # c
    <3>1. S = D
      BY <2>4, Zenon DEF Settled
    <3>2. Forward(cache, D, c)
      BY <1>2, <1>5, KeptForward, ForwardAny, Zenon
    <3> QED BY <2>1, <2>2, <2>4, <3>1, <3>2, Zenon
  <2> QED BY <2>3, <2>4, Zenon
<1>6. \E S : /\ S \in CacheT /\ EntryGood(S) /\ Forward(cache, S, c)
             /\ \A y \in Keys : S.pending[y] # c
             /\ Forward(S, cache', None)
             /\ \E x \in Call : x.phase \notin {"own", "joined"} /\ call' = [call EXCEPT ![c] = x]
  <2>1. CASE /\ o.state = "value" /\ cache.gens[k] = o.gen
             /\ Returned(Settled(Put(cache, k, o.value, o.at), k, c), c, k, o.value)
    <3>1. o.value \in Value /\ o.value.asked = cache.epoch[k] /\ o.at \in Nat
      BY <1>1, <1>2, <1>3, <1>4, <2>1, Zenon DEF OwnGood, Op
    <3>2. Kept(cache, Put(cache, k, o.value, o.at))
      BY <1>2, <3>1, PutKept, Zenon
    <3> DEFINE S == Settled(Put(cache, k, o.value, o.at), k, c)
    <3>3. /\ S \in CacheT /\ EntryGood(S) /\ Forward(cache, S, c)
          /\ \A y \in Keys : S.pending[y] # c
      BY <1>5, <3>2, Zenon
    <3>4. Returned(S, c, k, o.value)
      BY <2>1, Zenon
    <3> HIDE DEF S
    <3>5. /\ Forward(S, cache', None)
          /\ \E x \in Call : x.phase \notin {"own", "joined"} /\ call' = [call EXCEPT ![c] = x]
      BY <3>1, <3>3, <3>4, ReturnedStep, Zenon
    <3> QED BY <3>3, <3>5, Zenon
  <2>2. CASE Thrown(Settled(cache, k, c), c, o.state = "denied")
    <3>1. Kept(cache, cache)
      BY <1>2, Zenon DEF Kept
    <3> DEFINE S == Settled(cache, k, c)
    <3>2. /\ S \in CacheT /\ EntryGood(S) /\ Forward(cache, S, c)
          /\ \A y \in Keys : S.pending[y] # c
      BY <1>5, <3>1, Zenon
    <3>3. Thrown(S, c, o.state = "denied")
      BY <2>2, Zenon
    <3> HIDE DEF S
    <3>4. /\ Forward(S, cache', None)
          /\ \E x \in Call : x.phase \notin {"own", "joined"} /\ call' = [call EXCEPT ![c] = x]
      BY <3>2, <3>3, ThrownStep, Zenon
    <3> QED BY <3>2, <3>4, Zenon
  <2> QED BY <1>3, <1>4, <2>1, <2>2, Zenon DEF ResumeOwn, Stale
<1>7. /\ Forward(cache, cache', c) /\ \A y \in Keys : cache'.pending[y] # c
      /\ \E x \in Call : x.phase \notin {"own", "joined"} /\ call' = [call EXCEPT ![c] = x]
  BY <1>2, <1>6, ForwardTrans, NotPending
<1>8. \/ op' = op
      \/ /\ op' = [op EXCEPT ![c] = None]
         /\ \A d \in Calls \ {c} : ~(call[d].phase \in {"own", "joined"} /\ call[d].on = c)
  BY <1>1, Zenon DEF Released
<1> QED BY <1>1, <1>7, <1>8, Leaves, Zenon

\* A call that joined a load goes on.
LEMMA ResumeJoinedKeeps ==
  ASSUME Typed, LoadInv, NEW c \in Calls, ResumeJoined(c)
  PROVE  Typed' /\ LoadInv'
<1>1. /\ call[c].phase = "joined" /\ Released(call[c].on, c) /\ UNCHANGED <<now, clears>>
  BY Zenon DEF ResumeJoined
<1>2. JoinedGood(c) /\ LoadingGood(c) /\ cache \in CacheT /\ EntryGood(cache)
  BY Parts, Zenon DEF Typed
<1>3. PICK o \in Calls : o = call[c].on
  BY <1>1, <1>2, Zenon DEF JoinedGood, Typed, Call
<1>4. PICK k \in Keys : k = call[c].key
  BY <1>1, <1>2, Zenon DEF JoinedGood, Typed, Call
<1>5. /\ Forward(cache, cache', None)
      /\ \E x \in Call : x.phase \notin {"own", "joined"} /\ call' = [call EXCEPT ![c] = x]
  <2>1. CASE op[o].state = "value" /\ Returned(cache, c, k, op[o].value)
    <3>1. op[o] \in Op /\ op[o].value # None
      BY <1>1, <1>2, <1>3, <2>1, Zenon DEF JoinedGood, Typed
    <3>2. PICK v \in Value : v = op[o].value
      BY <3>1, Zenon DEF Op
    <3> QED BY <1>2, <2>1, <3>2, ReturnedStep, Zenon
  <2>2. CASE Thrown(cache, c, op[o].state = "denied")
    BY <1>2, <2>2, ThrownStep, Zenon
  <2> QED BY <1>3, <1>4, <2>1, <2>2, Zenon DEF ResumeJoined
<1>6. \A y \in Keys : cache.pending[y] # c
  BY <1>1, Parts, Zenon DEF PendingGood
<1>7. (\A y \in Keys : cache'.pending[y] # c) /\ Forward(cache, cache', c)
  BY <1>2, <1>5, <1>6, NotPending, ForwardAny
<1>8. ~(op[c] # None /\ op[c].state = "loading")
  BY <1>1, <1>2, Zenon DEF LoadingGood
<1>9. \/ op' = op
      \/ /\ op' = [op EXCEPT ![o] = None]
         /\ \A d \in Calls \ {c} : ~(call[d].phase \in {"own", "joined"} /\ call[d].on = o)
  BY <1>1, <1>3, Zenon DEF Released
<1> QED BY <1>1, <1>5, <1>7, <1>8, <1>9, Leaves, Zenon

\* A load is answered: it is of a past generation by then, or what it has for its
\* calls is of the present epoch.
LEMMA Answers ==
  ASSUME Typed, LoadInv, NEW c \in Calls, NEW n \in Op,
         Loading(c), Forward(cache, cache', None),
         n.key = op[c].key, n.gen = op[c].gen, n.asked = op[c].asked,
         n.fallback = op[c].fallback, n.state # "loading",
         n.state = "value" => n.value # None,
         n.gen = cache'.gens[n.key] =>
           /\ n.state # "denied"
           /\ n.value # None => n.value.asked = cache'.epoch[n.key],
         op' = [op EXCEPT ![c] = n], UNCHANGED <<now, call>>, clears' \in Nat
  PROVE  Typed' /\ LoadInv'
<1>1. Typed'
  BY Zenon DEF Typed, Forward
<1>2. EntryGood(cache') /\ cache' \in CacheT
  BY Zenon DEF Forward
<1>3. op'[c] = n /\ \A d \in Calls \ {c} : op'[d] = op[d]
  BY Zenon DEF Typed
<1>4. n # None
  BY LeaseAssumption, Zenon
<1>5. call[c].phase = "own" /\ OwnGood(c)
  BY Parts, Zenon DEF LoadingGood, Loading
<1>6. OwnGood(c)'
  <2>1. PICK k \in Keys : k = n.key
    BY Zenon DEF Op
  <2>2. /\ cache.gens[k] \in Nat /\ cache'.gens[k] \in Nat /\ n.gen \in Nat /\ c # None
    BY <1>2, LeaseAssumption, Zenon DEF Typed, CacheT, Op
  <2>3. /\ n.gen <= cache.gens[k] /\ call[c].on = c /\ call[c].key = k
        /\ n.gen = cache.gens[k] =>
             /\ cache.pending[k] = c /\ n.asked = cache.epoch[k]
             /\ n.fallback # None => n.fallback.asked = cache.epoch[k]
    BY <1>5, <2>1, Zenon DEF OwnGood
  <2>4. \/ cache'.gens[k] > cache.gens[k]
        \/ /\ cache'.gens[k] = cache.gens[k] /\ cache'.epoch[k] = cache.epoch[k]
           /\ cache'.pending[k] = cache.pending[k]
        \/ cache'.gens[k] = cache.gens[k] /\ cache.pending[k] = None
    BY Zenon DEF Forward
  <2>5. /\ n.gen <= cache'.gens[k]
        /\ n.gen = cache'.gens[k] =>
             /\ cache'.pending[k] = c /\ n.state # "denied" /\ n.asked = cache'.epoch[k]
             /\ \A v \in {n.fallback, n.value} \ {None} : v.asked = cache'.epoch[k]
    BY <2>1, <2>2, <2>3, <2>4
  <2> QED BY <1>3, <1>4, <2>1, <2>3, <2>5, Zenon DEF OwnGood
<1>7. ASSUME NEW d \in Calls PROVE OwnGood(d)' /\ LoadingGood(d)' /\ JoinedGood(d)'
  <2>1. OwnGood(d) /\ LoadingGood(d) /\ JoinedGood(d)
    BY Parts, Zenon
  <2>2. OwnGood(d)'
    <3>1. CASE d = c
      BY <1>6, <3>1, Zenon
    <3>2. CASE d # c
      <4>1. None # d
        BY LeaseAssumption, Zenon
      <4> QED BY <1>3, <2>1, <3>2, <4>1, OwnKept, Zenon
    <3> QED BY <3>1, <3>2, Zenon
  <2>3. LoadingGood(d)'
    BY <1>3, <2>1, Zenon DEF LoadingGood
  <2>4. JoinedGood(d)'
    <3> SUFFICES ASSUME call[d].phase = "joined" PROVE JoinedGood(d)'
      BY Zenon DEF JoinedGood
    <3>1. call[d].on \in Calls
      BY <2>1, Zenon DEF JoinedGood, Typed, Call
    <3> QED BY <1>3, <1>4, <2>1, <3>1, Zenon DEF JoinedGood
  <2> QED BY <2>2, <2>3, <2>4, Zenon
<1>8. ASSUME NEW k \in Keys, NEW d \in Calls PROVE PendingGood(k, d)'
  <2>1. PendingGood(k, d)
    BY Parts, Zenon
  <2>2. op'[d].key = op[d].key /\ op'[d].gen = op[d].gen
    BY <1>3, Zenon
  <2> QED BY <2>1, <2>2, PendingKept, Zenon
<1> QED BY <1>1, <1>2, <1>7, <1>8, PartsNext, Zenon

\* The Manager grants a value.
LEMMA GrantedKeeps ==
  ASSUME Typed, LoadInv, NEW c \in Calls, NEW l \in Lifetimes, NEW fits \in BOOLEAN,
         Granted(c, l, fits)
  PROVE  Typed' /\ LoadInv'
<1>1. PICK o \in Op : o = op[c]
  BY Zenon DEF Granted, Loading, Typed
<1>2. PICK v \in Value : v = [asked |-> o.asked, fits |-> fits,
                              expires |-> IF l = None THEN None ELSE now + l]
  <2>1. (IF l = None THEN None ELSE now + l) \in Nat \union {None}
    BY LeaseAssumption DEF Typed
  <2> QED BY <2>1, Zenon DEF Value, Op
<1>3. v # None /\ v.asked = o.asked
  BY <1>2, LeaseAssumption, Zenon
<1>4. PICK n \in Op : /\ op' = [op EXCEPT ![c] = n]
                     /\ n.key = o.key /\ n.gen = o.gen /\ n.asked = o.asked
                     /\ n.fallback = o.fallback /\ n.state = "value" /\ n.value = v
  <2>1. LET n == [o EXCEPT !.state = "value", !.value = v]
        IN  /\ n \in Op /\ n.key = o.key /\ n.gen = o.gen /\ n.asked = o.asked
            /\ n.fallback = o.fallback /\ n.state = "value" /\ n.value = v
    BY Zenon DEF Op
  <2>2. op' = [op EXCEPT ![c] = [o EXCEPT !.state = "value", !.value = v]]
    BY <1>1, <1>2, Zenon DEF Granted, Typed
  <2> QED BY <2>1, <2>2, Zenon
<1>5. op' = [op EXCEPT ![c] = n]
  BY <1>4, Zenon
<1>6. Loading(c) /\ UNCHANGED <<now, cache, call>> /\ clears' \in Nat
  BY DEF Granted, Typed
<1>7. Forward(cache, cache', None)
  BY <1>6, Parts, Zenon DEF Forward, Typed
<1>8. /\ n.key = op[c].key /\ n.gen = op[c].gen /\ n.asked = op[c].asked
      /\ n.fallback = op[c].fallback /\ n.state = "value" /\ n.value = v
  BY <1>1, <1>4, Zenon
<1>9. n.gen = cache'.gens[n.key] => n.value.asked = cache'.epoch[n.key]
  <2>1. OwnGood(c) /\ call[c].phase = "own"
    BY <1>6, Parts, Zenon DEF LoadingGood, Loading
  <2> QED BY <1>1, <1>3, <1>6, <1>8, <2>1, Zenon DEF OwnGood
<1> QED BY <1>3, <1>5, <1>6, <1>7, <1>8, <1>9, Answers, Zenon

\* A failure without reuse.
LEMMA FailedKeeps ==
  ASSUME Typed, LoadInv, NEW c \in Calls, Failed(c)
  PROVE  Typed' /\ LoadInv'
<1>1. PICK o \in Op : o = op[c]
  BY Zenon DEF Failed, Loading, Typed
<1>2. PICK n \in Op : n = [o EXCEPT !.state = "error"]
  BY Zenon DEF Op
<1>3. op' = [op EXCEPT ![c] = n]
  BY <1>1, <1>2, Zenon DEF Failed, Typed
<1>4. Loading(c) /\ UNCHANGED <<now, cache, call>> /\ clears' \in Nat
  BY Zenon DEF Failed, Typed
<1>5. Forward(cache, cache', None)
  BY <1>4, Parts, Zenon DEF Forward, Typed
<1>6. /\ n.key = op[c].key /\ n.gen = op[c].gen /\ n.asked = op[c].asked
      /\ n.fallback = op[c].fallback /\ n.state = "error" /\ n.value = op[c].value
  BY <1>1, <1>2, Zenon DEF Op
<1>7. n.gen = cache'.gens[n.key] =>
        (n.value # None => n.value.asked = cache'.epoch[n.key])
  <2>1. OwnGood(c) /\ call[c].phase = "own"
    BY <1>4, Parts, Zenon DEF LoadingGood, Loading
  <2> QED BY <1>4, <1>6, <2>1, Zenon DEF OwnGood
<1> QED BY <1>3, <1>4, <1>5, <1>6, <1>7, Answers, Zenon

\* A denial: the key of the load is cleared, so that the load is a past one.
LEMMA DeniedKeeps ==
  ASSUME Typed, LoadInv, NEW c \in Calls, Denied(c)
  PROVE  Typed' /\ LoadInv'
<1>1. PICK o \in Op : o = op[c]
  BY Zenon DEF Denied, Loading, Typed
<1>2. PICK n \in Op : n = [o EXCEPT !.state = "denied"]
  BY Zenon DEF Op
<1>3. op' = [op EXCEPT ![c] = n]
  BY <1>1, <1>2, Zenon DEF Denied, Typed
<1>4. PICK k \in Keys : k = o.key
  BY Zenon DEF Op
<1>5. Loading(c) /\ UNCHANGED <<now, call>> /\ clears' \in Nat /\ cache' = Cleared(cache, k)
  BY <1>1, <1>4 DEF Denied, Typed
<1>6. Forward(cache, cache', None)
  BY <1>5, ClearedForward, Parts, Zenon DEF Typed
<1>7. /\ n.key = op[c].key /\ n.gen = op[c].gen /\ n.asked = op[c].asked
      /\ n.fallback = op[c].fallback /\ n.state = "denied" /\ n.key = k
  BY <1>1, <1>2, <1>4, Zenon DEF Op
<1>8. n.gen # cache'.gens[n.key]
  <2>1. OwnGood(c) /\ call[c].phase = "own"
    BY <1>5, Parts, Zenon DEF LoadingGood, Loading
  <2>2. n.gen <= cache.gens[k] /\ n.gen \in Nat /\ cache.gens[k] \in Nat
    BY <1>7, <2>1, Zenon DEF OwnGood, Typed, CacheT, Op
  <2>3. cache'.gens[k] = cache.gens[k] + 1
    <3>1. Without(cache, {k}) \in CacheT
      BY WithoutKept, Parts, Zenon DEF Kept, Typed
    <3> QED BY <1>5, <3>1, Zenon DEF Cleared, Dropped, CacheT
  <2> QED BY <1>7, <2>2, <2>3
<1> QED BY <1>3, <1>5, <1>6, <1>7, <1>8, Answers, Zenon

\* A failure with reuse: what is reused was cached in the present generation.
LEMMA UnavailableKeeps ==
  ASSUME Typed, LoadInv, NEW c \in Calls, Unavailable(c)
  PROVE  Typed' /\ LoadInv'
<1>1. PICK o \in Op : o = op[c]
  BY Zenon DEF Unavailable, Loading, Typed
<1>2. PICK k \in Keys : k = o.key
  BY Zenon DEF Op
<1> DEFINE C == Got(cache, k)
           reuse == IF o.fallback # None THEN o.fallback
                    ELSE IF C.entry[k] # None THEN C.entry[k].value ELSE None
           state == IF reuse = None THEN "error" ELSE "value"
<1>3. /\ Loading(c) /\ UNCHANGED <<now, call>> /\ clears' \in Nat
      /\ cache.gens[k] = o.gen /\ cache' = IF o.fallback # None THEN cache ELSE C
      /\ op' = [op EXCEPT ![c] = [o EXCEPT !.state = state, !.value = reuse]]
  BY <1>1, <1>2, Zenon DEF Unavailable, Typed
<1>4. cache \in CacheT /\ EntryGood(cache)
  BY Parts, Zenon DEF Typed
<1>5. Kept(cache, C) /\ Kept(cache, cache)
  BY <1>4, GotKept, Zenon DEF Kept
<1> HIDE DEF C
<1>6. Kept(cache, cache')
  BY <1>3, <1>5, Zenon
<1>7. Forward(cache, cache', None)
  BY <1>4, <1>6, KeptForward, Zenon
<1>8. OwnGood(c) /\ call[c].phase = "own"
  BY <1>3, Parts, Zenon DEF LoadingGood, Loading
<1>9. reuse \in Value \union {None} /\ (reuse # None => reuse.asked = cache.epoch[k])
  <2>1. CASE o.fallback # None
    <3>1. o.fallback \in Value
      BY <2>1, Zenon DEF Op
    <3> QED BY <1>1, <1>2, <1>3, <1>8, <2>1, <3>1, Zenon DEF OwnGood
  <2>2. CASE o.fallback = None /\ C.entry[k] # None
    <3>1. C \in CacheT /\ EntryGood(C) /\ C.epoch = cache.epoch
      BY <1>5, Zenon DEF Kept
    <3>2. C.entry[k].value \in Value /\ C.entry[k].value.asked = cache.epoch[k]
      BY <2>2, <3>1, Zenon DEF EntryGood, CacheT, EntryT
    <3> QED BY <2>2, <3>2, Zenon
  <2>3. CASE o.fallback = None /\ C.entry[k] = None
    BY <2>3, Zenon
  <2> QED BY <2>1, <2>2, <2>3, Zenon
<1>10. state \in {"error", "value"} /\ (state = "value" => reuse # None)
  BY Zenon
<1> HIDE DEF reuse, state
<1>11. PICK n \in Op : n = [o EXCEPT !.state = state, !.value = reuse]
  BY <1>9, <1>10, Zenon DEF Op
<1>12. /\ n.key = op[c].key /\ n.gen = op[c].gen /\ n.asked = op[c].asked
       /\ n.fallback = op[c].fallback /\ n.state = state /\ n.value = reuse /\ n.key = k
  BY <1>1, <1>2, <1>11, Zenon DEF Op
<1>13. cache'.epoch = cache.epoch
  BY <1>6, Zenon DEF Kept
<1> QED BY <1>3, <1>7, <1>9, <1>10, <1>11, <1>12, <1>13, Answers, Zenon

\* A call joins the load that is pending.
LEMMA JoinKeeps ==
  ASSUME Typed, LoadInv, NEW c \in Calls, NEW k \in Keys, NEW force, Join(c, k, force)
  PROVE  Typed' /\ LoadInv'
<1>1. cache \in CacheT /\ EntryGood(cache)
  BY Parts, Zenon DEF Typed
<1>2. Kept(cache, cache') /\ cache'.pending[k] # None
  BY <1>1, GotKept, Zenon DEF Join
<1>3. cache' \in CacheT /\ EntryGood(cache') /\ cache'.pending = cache.pending
  BY <1>2, Zenon DEF Kept
<1>4. PICK o \in Calls : o = cache.pending[k]
  BY <1>1, <1>2, <1>3, Zenon DEF CacheT
<1>5. PICK x \in Call : x = [phase |-> "joined", on |-> o, key |-> k, value |-> None]
  BY Zenon DEF Call
<1>6. /\ call[c].phase = "idle" /\ call' = [call EXCEPT ![c] = x]
      /\ UNCHANGED <<now, op, clears>>
  BY <1>3, <1>4, <1>5, Zenon DEF Join
<1>7. call'[c] = x /\ \A d \in Calls \ {c} : call'[d] = call[d]
  BY <1>6, Zenon DEF Typed
<1>8. Typed'
  BY <1>3, <1>6, Zenon DEF Typed
<1>9. Forward(cache, cache', None)
  BY <1>1, <1>2, KeptForward, Zenon
<1>10. ASSUME NEW d \in Calls PROVE OwnGood(d)' /\ LoadingGood(d)' /\ JoinedGood(d)'
  <2>1. OwnGood(d) /\ LoadingGood(d) /\ JoinedGood(d)
    BY Parts, Zenon
  <2>2. CASE d # c
    <3>1. None # d
      BY LeaseAssumption, Zenon
    <3>2. OwnGood(d)'
      BY <1>6, <1>7, <1>9, <2>1, <2>2, <3>1, OwnKept, Zenon
    <3> QED BY <1>6, <1>7, <2>1, <2>2, <3>2, Zenon DEF LoadingGood, JoinedGood
  <2>3. CASE d = c
    <3>1. PendingGood(k, o) /\ OwnGood(o)
      BY Parts, Zenon
    <3>2. o # None /\ k # None /\ op[o] # None /\ (op[o].state = "value" => op[o].value # None)
      BY <1>4, <3>1, LeaseAssumption, Zenon DEF PendingGood, OwnGood
    <3> QED BY <1>5, <1>6, <1>7, <2>1, <2>3, <3>2 DEF OwnGood, LoadingGood, JoinedGood
  <2> QED BY <2>2, <2>3, Zenon
<1>11. ASSUME NEW y \in Keys, NEW d \in Calls PROVE PendingGood(y, d)'
  <2>1. PendingGood(y, d) /\ PendingGood(y, c)
    BY Parts, Zenon
  <2>2. cache'.pending[y] = d => d # c
    BY <1>3, <1>6, <2>1, Zenon DEF PendingGood
  <2> QED BY <1>6, <1>7, <1>9, <2>1, <2>2, PendingKept, Zenon
<1> QED BY <1>3, <1>8, <1>10, <1>11, PartsNext, Zenon

\* A call starts a load: nothing is pending for the key, so no other load of it
\* is of the present generation.
LEMMA StartKeeps ==
  ASSUME Typed, LoadInv, NEW c \in Calls, NEW k \in Keys, NEW force, Start(c, k, force)
  PROVE  Typed' /\ LoadInv'
<1> DEFINE C == Got(cache, k)
           fallback == IF C.entry[k] = None THEN None ELSE C.entry[k].value
<1>1. cache \in CacheT /\ EntryGood(cache)
  BY Parts, Zenon DEF Typed
<1>2. Kept(cache, C)
  BY <1>1, GotKept, Zenon
<1>3. /\ call[c].phase = "idle" /\ op[c] = None /\ C.pending[k] = None
      /\ cache' = [C EXCEPT !.pending[k] = c]
      /\ op' = [op EXCEPT ![c] =
                  [key |-> k, gen |-> C.gens[k], at |-> now, asked |-> C.epoch[k],
                   fallback |-> fallback, state |-> "loading", value |-> None]]
      /\ call' = [call EXCEPT ![c] = [phase |-> "own", on |-> c, key |-> k, value |-> None]]
      /\ UNCHANGED <<now, clears>>
  BY Zenon DEF Start
<1>4. /\ C \in CacheT /\ EntryGood(C) /\ C.gens = cache.gens /\ C.pending = cache.pending
      /\ C.epoch = cache.epoch
  BY <1>2, Zenon DEF Kept
<1>5. fallback \in Value \union {None} /\ (fallback # None => fallback.asked = cache.epoch[k])
  BY <1>4, Zenon DEF EntryGood, CacheT, EntryT
<1> HIDE DEF C, fallback
<1>6. PICK n \in Op : n = [key |-> k, gen |-> C.gens[k], at |-> now, asked |-> C.epoch[k],
                           fallback |-> fallback, state |-> "loading", value |-> None]
  <2>1. C.gens[k] \in Nat /\ C.epoch[k] \in Nat /\ now \in Nat
    BY <1>4, Zenon DEF CacheT, Typed
  <2> QED BY <1>5, <2>1, Zenon DEF Op
<1>7. PICK x \in Call : x = [phase |-> "own", on |-> c, key |-> k, value |-> None]
  BY Zenon DEF Call
<1>8. /\ op'[c] = n /\ \A d \in Calls \ {c} : op'[d] = op[d]
      /\ call'[c] = x /\ \A d \in Calls \ {c} : call'[d] = call[d]
  BY <1>3, <1>6, <1>7, Zenon DEF Typed
<1>9. /\ cache' \in CacheT /\ cache'.entry = C.entry /\ cache'.gens = cache.gens
      /\ cache'.epoch = cache.epoch
      /\ \A y \in Keys : cache'.pending[y] = IF y = k THEN c ELSE cache.pending[y]
  <2> DEFINE pe == [C.pending EXCEPT ![k] = c]
  <2>1. cache' = [entry |-> C.entry, before |-> C.before, gens |-> C.gens, pending |-> pe,
                  epoch |-> C.epoch]
    BY <1>3, <1>4, Zenon DEF CacheT
  <2>2. /\ pe \in [Keys -> Calls \union {None}]
        /\ \A y \in Keys : pe[y] = IF y = k THEN c ELSE cache.pending[y]
    BY <1>4, Zenon DEF CacheT
  <2>3. /\ C.entry \in [Keys -> EntryT \union {None}] /\ C.before \in SUBSET (Keys \X Keys)
        /\ C.gens \in [Keys -> Nat] /\ C.epoch \in [Keys -> Nat]
    BY <1>4, Zenon DEF CacheT
  <2> HIDE DEF pe
  <2>4. /\ cache'.entry = C.entry /\ cache'.gens = C.gens /\ cache'.pending = pe
        /\ cache'.epoch = C.epoch
    BY <2>1, Zenon
  <2>5. cache' \in CacheT
    BY <2>1, <2>2, <2>3, Zenon DEF CacheT
  <2> QED BY <1>4, <2>2, <2>4, <2>5, Zenon
<1>10. EntryGood(cache')
  BY <1>4, <1>9, Zenon DEF EntryGood
<1>11. Typed'
  BY <1>3, <1>6, <1>7, <1>9, Zenon DEF Typed
<1>12. OwnGood(c)'
  <2>1. n # None
    BY LeaseAssumption, Zenon
  <2>2. cache'.gens[k] \in Nat
    BY <1>9, Zenon DEF CacheT
  <2>3. /\ n.key = k /\ n.gen = cache'.gens[k] /\ n.asked = cache'.epoch[k]
        /\ n.fallback = fallback /\ n.state = "loading" /\ n.value = None
        /\ x.on = c /\ x.key = k
    BY <1>4, <1>6, <1>7, <1>9, Zenon
  <2>4. \A v \in {n.fallback, n.value} \ {None} : v.asked = cache'.epoch[k]
    BY <1>5, <1>9, <2>3, Zenon
  <2> QED BY <1>8, <1>9, <2>1, <2>2, <2>3, <2>4 DEF OwnGood
<1>13. ASSUME NEW d \in Calls PROVE OwnGood(d)' /\ LoadingGood(d)' /\ JoinedGood(d)'
  <2>1. OwnGood(d) /\ LoadingGood(d) /\ JoinedGood(d)
    BY Parts, Zenon
  <2>2. CASE d = c
    BY <1>7, <1>8, <1>12, <2>2 DEF LoadingGood, JoinedGood
  <2>3. CASE d # c
    <3>1. OwnGood(d)'
      <4> SUFFICES ASSUME call[d].phase = "own" PROVE OwnGood(d)'
        BY <1>8, <2>3, Zenon DEF OwnGood
      <4>1. PICK o \in Op : o = op[d]
        BY <2>1, Zenon DEF OwnGood, Typed
      <4>2. PICK y \in Keys : y = o.key
        BY Zenon DEF Op
      <4>3. y = k => o.gen # cache.gens[y]
        BY <1>3, <1>4, <2>1, <4>1, <4>2, LeaseAssumption, Zenon DEF OwnGood
      <4>4. y # k => cache'.pending[y] = cache.pending[y]
        BY <1>9, Zenon
      <4> QED BY <1>8, <1>9, <2>1, <2>3, <4>1, <4>2, <4>3, <4>4, Zenon DEF OwnGood
    <3>2. LoadingGood(d)'
      BY <1>8, <2>1, <2>3, Zenon DEF LoadingGood
    <3>3. JoinedGood(d)'
      <4> SUFFICES ASSUME call[d].phase = "joined" PROVE JoinedGood(d)'
        BY <1>8, <2>3, Zenon DEF JoinedGood
      <4>1. call[d].on \in Calls /\ op[call[d].on] # None
        BY <2>1, Zenon DEF JoinedGood, Typed, Call
      <4>2. call[d].on # c
        BY <1>3, <4>1, Zenon
      <4> QED BY <1>8, <2>1, <2>3, <4>1, <4>2, Zenon DEF JoinedGood
    <3> QED BY <3>1, <3>2, <3>3, Zenon
  <2> QED BY <2>2, <2>3, Zenon
<1>14. ASSUME NEW y \in Keys, NEW d \in Calls PROVE PendingGood(y, d)'
  <2>1. PendingGood(y, d)
    BY Parts, Zenon
  <2>2. CASE y = k
    BY <1>4, <1>6, <1>7, <1>8, <1>9, <2>2 DEF PendingGood
  <2>3. CASE y # k
    <3>1. cache'.pending[y] = d => d # c
      BY <1>3, <1>9, <2>1, <2>3, Zenon DEF PendingGood
    <3> QED BY <1>8, <1>9, <2>1, <2>3, <3>1, Zenon DEF PendingGood
  <2> QED BY <2>2, <2>3, Zenon
<1> QED BY <1>10, <1>11, <1>13, <1>14, PartsNext, Zenon

\* A step that touches no call and no operation.
LEMMA OthersKeep ==
  ASSUME Typed, LoadInv, Forward(cache, cache', None), UNCHANGED <<op, call>>,
         now' \in Nat, clears' \in Nat
  PROVE  Typed' /\ LoadInv'
<1>1. Typed' /\ EntryGood(cache')
  BY Zenon DEF Typed, Forward
<1>2. ASSUME NEW d \in Calls PROVE OwnGood(d)' /\ LoadingGood(d)' /\ JoinedGood(d)'
  <2>1. OwnGood(d) /\ LoadingGood(d) /\ JoinedGood(d) /\ None # d
    BY Parts, LeaseAssumption, Zenon
  <2>2. OwnGood(d)'
    BY <2>1, OwnKept, Zenon
  <2> QED BY <2>1, <2>2, Zenon DEF LoadingGood, JoinedGood
<1>3. ASSUME NEW k \in Keys, NEW d \in Calls PROVE PendingGood(k, d)'
  BY Parts, PendingKept, Zenon
<1> QED BY <1>1, <1>2, <1>3, PartsNext, Zenon

-----------------------------------------------------------------------------
(* The theorems. *)

\* The types and the invariant are preserved together.
LEMMA TypedInvariance == Spec => [](Typed /\ LoadInv)
<1>1. Init => Typed /\ LoadInv
  <2> SUFFICES ASSUME Init PROVE Typed /\ LoadInv
    BY Zenon
  <2>1. /\ \A k \in Keys : cache.entry[k] = None /\ cache.pending[k] = None
        /\ \A c \in Calls : op[c] = None /\ call[c].phase = "idle"
    BY Zenon DEF Init, Idle
  <2>2. Typed
    <3>1. Idle \in Call
      BY Zenon DEF Idle, Call
    <3>2. cache \in CacheT
      BY Zenon DEF Init, CacheT
    <3> QED BY <3>1, <3>2, Zenon DEF Init, Typed
  <2>3. EntryGood(cache)
    BY <2>1, Zenon DEF EntryGood
  <2>4. ASSUME NEW c \in Calls PROVE OwnGood(c) /\ LoadingGood(c) /\ JoinedGood(c)
    BY <2>1, Zenon DEF OwnGood, LoadingGood, JoinedGood
  <2>5. ASSUME NEW k \in Keys, NEW c \in Calls PROVE PendingGood(k, c)
    BY <2>1, LeaseAssumption, Zenon DEF PendingGood
  <2> QED BY <2>2, <2>3, <2>4, <2>5, Parts, Zenon
<1>2. Typed /\ LoadInv /\ [Next]_vars => Typed' /\ LoadInv'
  <2> SUFFICES ASSUME Typed, LoadInv, [Next]_vars PROVE Typed' /\ LoadInv'
    BY Zenon
  <2>1. cache \in CacheT /\ EntryGood(cache) /\ now \in Nat /\ clears \in Nat
    BY Parts, Zenon DEF Typed
  <2>2. Forward(cache, cache, None)
    BY <2>1, Zenon DEF Forward
  <2>3. ASSUME NEW c \in Calls, NEW k \in Keys, NEW force \in Forces,
               Hit(c, k, force) \/ Join(c, k, force) \/ Start(c, k, force)
        PROVE  Typed' /\ LoadInv'
    BY <2>3, HitKeeps, JoinKeeps, StartKeeps, Zenon
  <2>4. ASSUME NEW c \in Calls, NEW l \in Lifetimes, NEW fits \in BOOLEAN, Granted(c, l, fits)
        PROVE  Typed' /\ LoadInv'
    BY <2>4, GrantedKeeps, Zenon
  <2>5. ASSUME NEW c \in Calls, Denied(c) \/ Unavailable(c) \/ Failed(c)
        PROVE  Typed' /\ LoadInv'
    BY <2>5, DeniedKeeps, UnavailableKeeps, FailedKeeps, Zenon
  <2>6. ASSUME NEW c \in Calls, ResumeOwn(c) \/ ResumeJoined(c) \/ Done(c)
        PROVE  Typed' /\ LoadInv'
    BY <2>6, ResumeOwnKeeps, ResumeJoinedKeeps, DoneKeeps, Zenon
  <2>7. CASE SignOut
    <3>1. Forward(cache, cache', None)
      BY <2>1, <2>7, OwnerForward, Zenon DEF SignOut
    <3> QED BY <2>1, <2>7, <3>1, OthersKeep DEF SignOut
  <2>8. CASE Tick
    <3>1. Forward(cache, cache', None)
      BY <2>2, <2>8, Zenon DEF Tick
    <3> QED BY <2>1, <2>8, <3>1, OthersKeep DEF Tick
  <2>9. CASE UNCHANGED vars
    <3>1. Forward(cache, cache', None)
      BY <2>2, <2>9, Zenon DEF vars
    <3> QED BY <2>1, <2>9, <3>1, OthersKeep, Zenon DEF vars
  <2> QED BY <2>3, <2>4, <2>5, <2>6, <2>7, <2>8, <2>9, Zenon DEF Next
<1> QED BY <1>1, <1>2, PTL DEF Spec

\* What the steps of the cache, of the calls and of the loads preserve: entries
\* and pending loads are of the present generation and epoch of their key.
LEMMA LoadInvariance == Spec => []LoadInv
BY TypedInvariance, PTL

\* No answer to a load that was started before a sign-out, a denial or a mismatch
\* is in the cache afterwards (the generation check and clearOwner).
THEOREM CacheIsNotRefilled == Spec => []NoRefill
<1>1. LoadInv => NoRefill
  BY Zenon DEF LoadInv, NoRefill
<1> QED BY <1>1, LoadInvariance, PTL

\* Two calls load one key at a time only across a clearing of it: a load of the
\* present generation is the one in pending, and a past one was cleared.
THEOREM OneLoadPerGeneration == Spec => []SingleFlight
<1>1. LoadInv => SingleFlight
  BY DEF LoadInv, SingleFlight
<1> QED BY <1>1, LoadInvariance, PTL

\* Only the continuation of the call that started a load turns it from waiting to
\* using, and it returns what the present epoch asked for.
LEMMA OwnStep ==
  ASSUME Typed, LoadInv, [Next]_vars, NEW c \in Calls,
         call[c].phase = "own", call'[c].phase = "using"
  PROVE  call'[c].value.asked = cache.epoch[call'[c].key]
<1>1. ASSUME NEW x, call' = [call EXCEPT ![c] = x] PROVE call'[c] = x
  BY <1>1, Zenon DEF Typed
<1>2. ASSUME NEW d \in Calls, NEW x, call' = [call EXCEPT ![d] = x] PROVE d = c
  BY <1>2, Zenon DEF Typed
<1>3. ASSUME NEW d \in Calls, NEW C, NEW k, NEW v, Returned(C, d, k, v)
      PROVE  d = c /\ call'[c].key = k /\ call'[c].value = v
  <2>1. d = c
    BY <1>2, <1>3, Zenon DEF Returned
  <2>2. Idle.phase # "using"
    BY Zenon DEF Idle
  <2>3. call' = [call EXCEPT ![c] = Idle]
        \/ call' = [call EXCEPT ![c] = [phase |-> "using", on |-> None, key |-> k, value |-> v]]
    BY <1>3, <2>1, Zenon DEF Returned
  <2>4. call'[c] = [phase |-> "using", on |-> None, key |-> k, value |-> v]
    BY <1>1, <2>2, <2>3, Zenon
  <2> QED BY <2>1, <2>4
<1>4. ASSUME NEW d \in Calls, call' = [call EXCEPT ![d] = Idle] PROVE FALSE
  BY <1>1, <1>2, <1>4, Zenon DEF Idle
<1>5. ASSUME NEW d \in Calls, ResumeOwn(d)
      PROVE  call'[c].value.asked = cache.epoch[call'[c].key]
  <2>1. CASE /\ op[d].state = "value" /\ ~Stale(d)
             /\ Returned(Settled(Put(cache, op[d].key, op[d].value, op[d].at), op[d].key, d),
                         d, op[d].key, op[d].value)
    <3>1. d = c /\ call'[c].key = op[c].key /\ call'[c].value = op[c].value
      BY <1>3, <2>1, Zenon
    <3>2. OwnGood(c)
      BY Parts, Zenon
    <3> QED BY <2>1, <3>1, <3>2, Zenon DEF OwnGood, Stale
  <2>2. CASE call' = [call EXCEPT ![d] = Idle]
    BY <1>4, <2>2, Zenon
  <2> QED BY <1>5, <2>1, <2>2, Zenon DEF ResumeOwn, Thrown
<1>6. ASSUME NEW d \in Calls, NEW k \in Keys, NEW force \in Forces,
             Hit(d, k, force) \/ Join(d, k, force) \/ Start(d, k, force)
      PROVE  FALSE
  BY <1>2, <1>3, <1>6, Zenon DEF Hit, Join, Start
<1>7. ASSUME NEW d \in Calls, ResumeJoined(d) PROVE FALSE
  BY <1>3, <1>4, <1>7, Zenon DEF ResumeJoined, Thrown
<1>8. ASSUME NEW d \in Calls, Done(d) PROVE FALSE
  BY <1>4, <1>8, Zenon DEF Done
<1>9. call' # call
  BY Zenon
<1> QED BY <1>5, <1>6, <1>7, <1>8, <1>9, Zenon
        DEF Next, Granted, Denied, Unavailable, Failed, SignOut, Tick, vars

\* A call never returns a value that it loaded before the last clearing of its
\* key (the comparison of generations after the await in getOrLoad).
THEOREM OwnValueIsCurrent == Spec => OwnIsCurrent
<1>1. Typed /\ LoadInv /\ [Next]_vars =>
        [\A c \in Calls : call[c].phase = "own" /\ call'[c].phase = "using" =>
           call'[c].value.asked = cache.epoch[call'[c].key]]_vars
  BY OwnStep, Zenon
<1> QED BY <1>1, TypedInvariance, PTL DEF Spec, OwnIsCurrent

-----------------------------------------------------------------------------
(* The bounds of the cache. *)

\* A finite set that is not empty has a first element in a strict total order: a
\* smallest subset without one has an element less with one, which is first in it or
\* is preceded only by what was left out.
LEMMA FirstExists ==
  ASSUME NEW S, IsFiniteSet(S), S # {}, NEW R,
         \A x, y \in S : x = y \/ <<x, y>> \in R \/ <<y, x>> \in R,
         \A x, y, z \in S : <<x, y>> \in R /\ <<y, z>> \in R => <<x, z>> \in R
  PROVE  \E k \in S : \A x \in S \ {k} : <<k, x>> \in R
<1> DEFINE HasFirst(T) == \E k \in T : \A x \in T \ {k} : <<k, x>> \in R
           Bad == {T \in SUBSET S : T # {} /\ ~HasFirst(T)}
<1> SUFFICES ASSUME ~HasFirst(S) PROVE FALSE
  BY Zenon
<1>1. S \in Bad /\ Bad \subseteq SUBSET S
  BY Zenon
<1>2. FiniteSubsetsOf(S) = SUBSET S
  BY FS_FiniteSubsetsOfFinite, Zenon
<1>3. IsWellFoundedOn(StrictSubsetOrdering(S), SUBSET S)
  <2>1. IsWellFoundedOn(StrictSubsetOrdering(S), FiniteSubsetsOf(S))
    BY FS_StrictSubsetOrderingWellFounded, Zenon
  <2> QED BY <1>2, <2>1, Zenon
<1>4. PICK T \in Bad : \A U \in Bad : ~(<<U, T>> \in StrictSubsetOrdering(S))
  <2> HIDE DEF Bad
  <2> QED BY <1>1, <1>3, WFMin, Zenon
<1>5. T \in SUBSET S /\ T # {} /\ ~HasFirst(T)
  BY Zenon
<1>6. PICK a \in T : TRUE
  BY <1>5, Zenon
<1> DEFINE U == T \ {a}
<1>7. <<U, T>> \in StrictSubsetOrdering(S)
  BY <1>5, <1>6, Zenon DEF StrictSubsetOrdering
<1>8. U = {} \/ HasFirst(U)
  BY <1>4, <1>5, <1>7, Zenon
<1>9. CASE U = {}
  BY <1>5, <1>6, <1>9, Zenon
<1>10. CASE HasFirst(U)
  <2>1. PICK m \in U : \A x \in U \ {m} : <<m, x>> \in R
    BY <1>10, Zenon
  <2>2. CASE <<m, a>> \in R
    BY <1>5, <2>1, <2>2, Zenon
  <2>3. CASE <<a, m>> \in R
    <3>1. \A x \in T \ {a} : <<a, x>> \in R
      BY <1>5, <1>6, <2>1, <2>3, Zenon
    <3> QED BY <1>5, <1>6, <3>1, Zenon
  <2> QED BY <1>5, <1>6, <2>1, <2>2, <2>3, Zenon
<1> QED BY <1>8, <1>9, <1>10, Zenon

\* What InBounds says of an entry, and of a whole cache with what put needs.
Lives(e) ==
  /\ e.expires <= JwtExpiry
  /\ e.expires <= e.value.expires
  /\ e.expires <= e.at + MaxTtl
  /\ e.at <= now
Bounded(C) ==
  /\ IsFiniteSet(Cached(C)) /\ Cardinality(Cached(C)) <= MaxEntries
  /\ Ordered(C)
  /\ \A k \in Cached(C) : Lives(C.entry[k])

\* Bounds are about the entries and their order.
LEMMA SameBounded ==
  ASSUME NEW C, Bounded(C), NEW D, D.entry = C.entry, D.before = C.before
  PROVE  Bounded(D)
<1>1. Cached(D) = Cached(C)
  BY Zenon DEF Cached
<1> QED BY <1>1, Zenon DEF Bounded, Ordered

\* Whatever is taken out, the rest is in bounds.
LEMMA WithoutBounded ==
  ASSUME NEW C, Bounded(C), NEW K, NEW D,
         D.entry = [k \in Keys |-> IF k \in K THEN None ELSE C.entry[k]],
         D.before = {p \in C.before : p[1] \notin K /\ p[2] \notin K}
  PROVE  Bounded(D) /\ Cached(D) = Cached(C) \ K
<1>1. Cached(D) = Cached(C) \ K
  BY Zenon DEF Cached
<1>2. IsFiniteSet(Cached(D)) /\ Cardinality(Cached(D)) <= MaxEntries
  <2>1. IsFiniteSet(Cached(C)) /\ Cardinality(Cached(C)) <= MaxEntries /\ Cached(D) \in SUBSET Cached(C)
    BY <1>1, Zenon DEF Bounded
  <2>2. /\ IsFiniteSet(Cached(D)) /\ Cardinality(Cached(D)) <= Cardinality(Cached(C))
        /\ Cardinality(Cached(C)) \in Nat /\ Cardinality(Cached(D)) \in Nat
    BY <2>1, FS_Subset, FS_CardinalityType, Zenon
  <2> QED BY <2>1, <2>2, LeaseAssumption
<1>3. Ordered(D)
  BY <1>1, Zenon DEF Bounded, Ordered
<1>4. \A k \in Cached(D) : Lives(D.entry[k])
  BY <1>1, Zenon DEF Bounded, Cached
<1> QED BY <1>1, <1>2, <1>3, <1>4, Zenon DEF Bounded

\* An entry set last follows all others.
LEMMA LastOrdered ==
  ASSUME NEW C \in CacheT, Ordered(C), NEW k \in Keys, NEW e \in EntryT
  PROVE  /\ Cached(Last(C, k, e)) = Cached(C) \union {k}
         /\ Ordered(Last(C, k, e)) /\ DOMAIN Last(C, k, e) = DOMAIN C
         /\ \A x \in Keys : Last(C, k, e).entry[x] = IF x = k THEN e ELSE C.entry[x]
<1> DEFINE D == Last(C, k, e)
           W == Without(C, {k})
<1>1. /\ W.entry = [x \in Keys |-> IF x \in {k} THEN None ELSE C.entry[x]]
      /\ W.before = {p \in C.before : p[1] \notin {k} /\ p[2] \notin {k}}
      /\ DOMAIN W = DOMAIN C
  BY Zenon DEF Without, CacheT
<1>2. D = [W EXCEPT !.entry[k] = e, !.before = @ \union ((Cached(C) \ {k}) \X {k})]
  BY Zenon DEF Last
<1>3. /\ D.entry = [W.entry EXCEPT ![k] = e]
      /\ D.before = W.before \union ((Cached(C) \ {k}) \X {k})
      /\ DOMAIN D = DOMAIN C
  <2> HIDE DEF W, D
  <2> QED BY <1>1, <1>2, Zenon DEF CacheT
<1> HIDE DEF W, D
<1>4. \A x \in Keys : D.entry[x] = IF x = k THEN e ELSE C.entry[x]
  BY <1>1, <1>3, Zenon
<1>5. e # None
  BY LeaseAssumption, Zenon DEF EntryT
<1>6. Cached(D) = Cached(C) \union {k}
  BY <1>4, <1>5, Zenon DEF Cached
<1>7. Ordered(D)
  <2>1. \A x, y \in Keys :
          <<x, y>> \in D.before <=> (<<x, y>> \in C.before /\ x # k /\ y # k)
                                   \/ (x \in Cached(C) /\ x # k /\ y = k)
    BY <1>1, <1>3, Zenon
  <2>2. D.before \subseteq Cached(D) \X Cached(D)
    BY <1>1, <1>3, <1>6, Zenon DEF Ordered
  <2>3. Cached(D) \subseteq Keys /\ Cached(C) \subseteq Keys
    BY Zenon DEF Cached
  <2>4. \A x, y \in Cached(D) : x = y \/ <<x, y>> \in D.before \/ <<y, x>> \in D.before
    BY <1>6, <2>1, <2>3, Zenon DEF Ordered
  <2>5. \A x \in Cached(D) : <<x, x>> \notin D.before
    BY <1>6, <2>1, <2>3, Zenon DEF Ordered
  <2>6. \A x, y, z \in Cached(D) :
          <<x, y>> \in D.before /\ <<y, z>> \in D.before => <<x, z>> \in D.before
    BY <1>6, <2>1, <2>3, Zenon DEF Ordered
  <2> QED BY <2>2, <2>4, <2>5, <2>6, Zenon DEF Ordered
<1> QED BY <1>3, <1>4, <1>6, <1>7, Zenon DEF D

\* Without and Dropped leave what they take out of the entries and of their order.
LEMMA DroppedBounded ==
  ASSUME NEW C \in CacheT, Bounded(C), NEW K
  PROVE  /\ Bounded(Without(C, K)) /\ Cached(Without(C, K)) = Cached(C) \ K
         /\ Bounded(Dropped(C, K)) /\ DOMAIN Dropped(C, K) = DOMAIN C
<1> DEFINE W == Without(C, K)
<1>1. /\ W.entry = [x \in Keys |-> IF x \in K THEN None ELSE C.entry[x]]
      /\ W.before = {p \in C.before : p[1] \notin K /\ p[2] \notin K}
      /\ DOMAIN W = DOMAIN C
  BY Zenon DEF Without, CacheT
<1>2. Bounded(W) /\ Cached(W) = Cached(C) \ K
  <2> HIDE DEF W
  <2> QED BY <1>1, WithoutBounded, Zenon
<1> DEFINE D == Dropped(C, K)
<1>3. /\ D.entry = W.entry /\ D.before = W.before /\ DOMAIN D = DOMAIN W
  BY <1>1, Zenon DEF Dropped, CacheT
<1> HIDE DEF W, D
<1>4. Bounded(D)
  BY <1>2, <1>3, SameBounded, Zenon
<1> QED BY <1>1, <1>2, <1>3, <1>4, Zenon DEF W, D

\* clear and clearOwner keep the bounds.
LEMMA ClearedBounded ==
  ASSUME NEW C \in CacheT, Bounded(C), NEW k \in Keys
  PROVE  Bounded(Cleared(C, k)) /\ Bounded(OwnerCleared(C))
<1>1. Bounded(Cleared(C, k))
  <2> DEFINE E == Dropped(C, {k})
             D == Cleared(C, k)
  <2>1. Bounded(E) /\ DOMAIN E = DOMAIN C
    BY DroppedBounded, Zenon
  <2>2. D = [E EXCEPT !.epoch[k] = @ + 1]
    BY Zenon DEF Cleared
  <2> HIDE DEF D, E
  <2>3. D.entry = E.entry /\ D.before = E.before
    BY <2>1, <2>2, Zenon DEF CacheT
  <2>4. Bounded(D)
    BY <2>1, <2>3, SameBounded, Zenon
  <2> QED BY <2>4, Zenon DEF D
<1>2. Bounded(OwnerCleared(C))
  <2> DEFINE E == Dropped(C, Reached(C))
             D == OwnerCleared(C)
  <2>1. Bounded(E) /\ DOMAIN E = DOMAIN C
    BY DroppedBounded, Zenon
  <2>2. D = [E EXCEPT !.epoch = [x \in Keys |-> C.epoch[x] + 1]]
    BY Zenon DEF OwnerCleared
  <2> HIDE DEF D, E
  <2>3. D.entry = E.entry /\ D.before = E.before
    BY <2>1, <2>2, Zenon DEF CacheT
  <2>4. Bounded(D)
    BY <2>1, <2>3, SameBounded, Zenon
  <2> QED BY <2>4, Zenon DEF D
<1> QED BY <1>1, <1>2, Zenon

\* get keeps the bounds.
LEMMA GotBounded ==
  ASSUME NEW C \in CacheT, Bounded(C), NEW k \in Keys
  PROVE  Bounded(Got(C, k))
<1>1. CASE Valid(C, k)
  <2>1. k \in Cached(C) /\ C.entry[k] \in EntryT
    BY <1>1, Zenon DEF Valid, Cached, CacheT
  <2>2. PICK e \in EntryT : e = C.entry[k]
    BY <2>1, Zenon
  <2>3. Got(C, k) = Last(C, k, e)
    BY <1>1, <2>2, Zenon DEF Got
  <2> DEFINE D == Last(C, k, e)
  <2>4. /\ Cached(D) = Cached(C) /\ Ordered(D)
        /\ \A x \in Keys : D.entry[x] = C.entry[x]
    <3>1. /\ Cached(D) = Cached(C) \union {k} /\ Ordered(D)
          /\ \A x \in Keys : D.entry[x] = IF x = k THEN e ELSE C.entry[x]
      BY LastOrdered DEF Bounded
    <3> HIDE DEF D
    <3> QED BY <2>1, <2>2, <3>1, Zenon
  <2> HIDE DEF D
  <2>5. Bounded(D)
    BY <2>4, Zenon DEF Bounded, Cached
  <2> QED BY <2>3, <2>5, Zenon DEF D
<1>2. CASE ~Valid(C, k)
  BY <1>2, DroppedBounded, Zenon DEF Got
<1> QED BY <1>1, <1>2, Zenon

\* boundedLeaseTtl is the least of its three bounds.
LEMMA TtlBounds ==
  ASSUME NEW at \in Nat, NEW v \in Value, Ttl(at, v) > 0
  PROVE  /\ v.expires \in Nat
         /\ Ttl(at, v) <= MaxTtl /\ at + Ttl(at, v) <= JwtExpiry /\ at + Ttl(at, v) <= v.expires
<1>1. v.expires # None
  BY DEF Ttl
<1>2. v.expires \in Nat
  BY <1>1, Zenon DEF Value
<1> DEFINE S == {MaxTtl, JwtExpiry - at, v.expires - at}
<1>3. \E n \in S : \A y \in S : n <= y
  BY <1>2, LeaseAssumption
<1>4. Ttl(at, v) = Least(S)
  BY <1>1, Zenon DEF Ttl
<1> HIDE DEF S
<1>5. Least(S) \in S /\ \A y \in S : Least(S) <= y
  BY <1>3, Zenon DEF Least
<1>6. /\ Ttl(at, v) <= MaxTtl /\ Ttl(at, v) <= JwtExpiry - at /\ Ttl(at, v) <= v.expires - at
  BY <1>4, <1>5, Zenon DEF S
<1> QED BY <1>2, <1>6, TtlInt, LeaseAssumption

\* put keeps the bounds: evict finds the first entry when there is one too many.
LEMMA PutBounded ==
  ASSUME NEW C \in CacheT, Bounded(C), NEW k \in Keys, NEW v \in Value, NEW at \in Nat,
         now \in Nat, at <= now
  PROVE  Bounded(Put(C, k, v, at))
<1>1. CASE Ttl(at, v) <= 0
  BY <1>1, Zenon DEF Put
<1>2. CASE ~(Ttl(at, v) <= 0)
  <2>1. PICK e \in EntryT : e = [value |-> v, at |-> at, expires |-> at + Ttl(at, v), gen |-> C.gens[k]]
    <3>1. at + Ttl(at, v) \in Int /\ C.gens[k] \in Nat
      BY TtlInt DEF CacheT
    <3> QED BY <3>1, Zenon DEF EntryT
  <2>2. Lives(e)
    <3>1. Ttl(at, v) \in Int /\ Ttl(at, v) > 0
      BY <1>2, TtlInt
    <3>2. /\ Ttl(at, v) <= MaxTtl /\ at + Ttl(at, v) <= JwtExpiry /\ at + Ttl(at, v) <= v.expires
      BY <3>1, TtlBounds, Zenon
    <3>3. e.at = at /\ e.expires = at + Ttl(at, v) /\ e.value.expires = v.expires
      BY <2>1, Zenon
    <3> QED BY <3>1, <3>2, <3>3, LeaseAssumption DEF Lives
  <2> DEFINE D == Last(C, k, e)
  <2>3. Put(C, k, v, at) = Evicted(D)
    BY <1>2, <2>1, Zenon DEF Put
  <2>4. /\ Cached(D) = Cached(C) \union {k} /\ Ordered(D) /\ DOMAIN D = DOMAIN C
        /\ \A x \in Keys : D.entry[x] = IF x = k THEN e ELSE C.entry[x]
    BY LastOrdered DEF Bounded
  <2> HIDE DEF D
  <2>5. \A x \in Cached(D) : Lives(D.entry[x])
    BY <2>2, <2>4, Zenon DEF Bounded, Cached
  <2>6. /\ IsFiniteSet(Cached(D)) /\ Cardinality(Cached(D)) \in Nat
        /\ Cardinality(Cached(D)) <= MaxEntries + 1
    <3>1. IsFiniteSet(Cached(C)) /\ Cardinality(Cached(C)) <= MaxEntries
      BY Zenon DEF Bounded
    <3>2. Cardinality(Cached(C)) \in Nat
      BY <3>1, FS_CardinalityType, Zenon
    <3>3. /\ IsFiniteSet(Cached(D))
          /\ Cardinality(Cached(D)) \in {Cardinality(Cached(C)), Cardinality(Cached(C)) + 1}
      BY <2>4, <3>1, FS_AddElement, Zenon
    <3> QED BY <3>1, <3>2, <3>3, LeaseAssumption
  <2>7. CASE Cardinality(Cached(D)) <= MaxEntries
    BY <2>3, <2>4, <2>5, <2>6, <2>7, Zenon DEF Evicted, Bounded
  <2>8. CASE ~(Cardinality(Cached(D)) <= MaxEntries)
    <3> DEFINE F == {x \in Cached(D) : \A y \in Cached(D) \ {x} : <<x, y>> \in D.before}
               E == Without(D, F)
    <3>1. Evicted(D) = E
      BY <2>8, Zenon DEF Evicted
    <3>2. Cached(D) # {}
      BY <2>4, Zenon
    <3>3. PICK f \in Cached(D) : \A y \in Cached(D) \ {f} : <<f, y>> \in D.before
      <4>1. PICK S, R : S = Cached(D) /\ R = D.before
        BY Zenon
      <4>2. /\ \A x, y \in S : x = y \/ <<x, y>> \in R \/ <<y, x>> \in R
            /\ \A x, y, z \in S : <<x, y>> \in R /\ <<y, z>> \in R => <<x, z>> \in R
        BY <2>4, <4>1 DEF Ordered
      <4>3. IsFiniteSet(S) /\ S # {}
        BY <2>6, <3>2, <4>1, Zenon
      <4>4. \E f \in S : \A y \in S \ {f} : <<f, y>> \in R
        BY <4>2, <4>3, FirstExists, Zenon
      <4> QED BY <4>1, <4>4, Zenon
    <3>4. f \in F
      BY <3>3, Zenon
    <3>5. DOMAIN D = {"entry", "before", "gens", "pending", "epoch"}
      BY <2>4, Zenon DEF CacheT
    <3> HIDE DEF F
    <3>6. /\ E.entry = [x \in Keys |-> IF x \in F THEN None ELSE D.entry[x]]
          /\ E.before = {p \in D.before : p[1] \notin F /\ p[2] \notin F}
      BY <3>5, Zenon DEF Without
    <3> HIDE DEF E
    <3>7. Cached(E) = Cached(D) \ F
      BY <3>6, Zenon DEF Cached
    <3>8. Ordered(E)
      BY <2>4, <3>6, <3>7, Zenon DEF Ordered
    <3>9. \A x \in Cached(E) : Lives(E.entry[x])
      BY <2>5, <3>6, <3>7, Zenon DEF Cached
    <3>10. IsFiniteSet(Cached(E)) /\ Cardinality(Cached(E)) <= MaxEntries
      <4>1. /\ IsFiniteSet(Cached(D) \ {f})
            /\ Cardinality(Cached(D) \ {f}) = Cardinality(Cached(D)) - 1
        BY <2>6, <3>3, FS_RemoveElement, Zenon
      <4>2. Cached(E) \in SUBSET (Cached(D) \ {f})
        BY <3>4, <3>7, Zenon
      <4>3. /\ IsFiniteSet(Cached(E))
            /\ Cardinality(Cached(E)) <= Cardinality(Cached(D) \ {f})
        BY <4>1, <4>2, FS_Subset, Zenon
      <4>4. Cardinality(Cached(E)) \in Nat
        BY <4>3, FS_CardinalityType, Zenon
      <4> QED BY <2>6, <4>1, <4>3, <4>4, LeaseAssumption
    <3>11. Bounded(E)
      BY <3>8, <3>9, <3>10, Zenon DEF Bounded
    <3> QED BY <2>3, <3>1, <3>11, Zenon
  <2> QED BY <2>7, <2>8, Zenon
<1> QED BY <1>1, <1>2, Zenon

\* What the continuation of getOrLoad in ensureRuntimeModel does keeps the bounds.
LEMMA ContinuationBounded ==
  ASSUME NEW C \in CacheT, EntryGood(C), Bounded(C), NEW c, NEW k \in Keys, NEW v, NEW denied,
         Returned(C, c, k, v) \/ Thrown(C, c, denied)
  PROVE  Bounded(cache')
<1> DEFINE D == Cleared(C, k)
<1>1. D \in CacheT /\ Bounded(D)
  BY ClearedForward, ClearedBounded, Zenon DEF Forward
<1>2. Bounded(OwnerCleared(D)) /\ Bounded(OwnerCleared(C))
  <2> HIDE DEF D
  <2> QED BY <1>1, ClearedBounded, Zenon
<1> QED BY <1>1, <1>2, Zenon DEF Returned, Thrown

\* The finally of getOrLoad leaves the entries alone.
LEMMA SettledBounded ==
  ASSUME NEW C \in CacheT, EntryGood(C), Bounded(C), NEW k \in Keys, NEW c \in Calls
  PROVE  Settled(C, k, c) \in CacheT /\ EntryGood(Settled(C, k, c)) /\ Bounded(Settled(C, k, c))
<1> DEFINE D == [C EXCEPT !.pending[k] = None]
<1>1. D \in CacheT /\ D.entry = C.entry /\ D.before = C.before
      /\ D.gens = C.gens /\ D.epoch = C.epoch
  BY Zenon DEF CacheT
<1> HIDE DEF D
<1>2. Bounded(D) /\ EntryGood(D)
  BY <1>1, SameBounded, Zenon DEF EntryGood
<1>3. Settled(C, k, c) \in {C, D}
  BY Zenon DEF Settled, D
<1> QED BY <1>1, <1>2, <1>3, Zenon

\* An operation keeps the time when it was started.
LEMMA StartedBefore ==
  ASSUME Typed, \A c \in Calls : op[c] # None => op[c].at <= now, [Next]_vars
  PROVE  (\A c \in Calls : op[c] # None => op[c].at <= now)'
<1> SUFFICES ASSUME NEW d \in Calls, op'[d] # None PROVE op'[d].at <= now'
  BY Zenon
<1>1. now \in Nat /\ now' \in {now, now + 1}
  BY Zenon
  DEF Typed, Next, Hit, Join, Start, Granted, Denied, Unavailable, Failed, ResumeOwn, ResumeJoined,
     Done, SignOut, Tick, vars
<1>2. (op'[d] # op[d] /\ op'[d].at = now)
      \/ (op[d] # None /\ op[d] \in Op /\ op'[d].at = op[d].at)
  <2>1. op \in [Calls -> Op \union {None}]
    BY Zenon DEF Typed
  <2>2. CASE UNCHANGED op
    BY <2>1, <2>2, Zenon
  <2>3. CASE \E c \in Calls, k \in Keys, force \in Forces : Start(c, k, force)
    BY <2>1, <2>3 DEF Start
  <2>4. CASE \E c \in Calls, l \in Lifetimes, fits \in BOOLEAN : Granted(c, l, fits)
    BY <2>1, <2>4 DEF Granted, Loading, Op
  <2>5. CASE \E c \in Calls : Denied(c) \/ Unavailable(c) \/ Failed(c)
    BY <2>1, <2>5 DEF Denied, Unavailable, Failed, Loading, Op
  <2>6. CASE \E c \in Calls : Released(c, c) \/ Released(call[c].on, c)
    BY <2>1, <2>6, Zenon DEF Released
  <2> QED BY <2>2, <2>3, <2>4, <2>5, <2>6, Zenon DEF Next, Hit, Join, ResumeOwn, ResumeJoined, Done, SignOut, Tick, vars
<1>3. op[d] \in Op => op[d].at \in Nat
  BY Zenon DEF Op
<1> QED BY <1>1, <1>2, <1>3

\* The entries are in bounds after a step, at the time when it is taken.
LEMMA CacheStep ==
  ASSUME Typed, LoadInv, BoundInv, Next
  PROVE  Bounded(cache')
<1>1. cache \in CacheT /\ EntryGood(cache) /\ now \in Nat
  BY Parts, Zenon DEF Typed
<1>2. Bounded(cache)
  BY Zenon DEF BoundInv, InBounds, Bounded, Lives
<1>3. ASSUME NEW k \in Keys
      PROVE  Got(cache, k) \in CacheT /\ EntryGood(Got(cache, k)) /\ Bounded(Got(cache, k))
  BY <1>1, <1>2, GotKept, GotBounded, Zenon DEF Kept
<1>4. ASSUME NEW c \in Calls, NEW k \in Keys, NEW force \in Forces, Hit(c, k, force)
      PROVE  Bounded(cache')
  BY <1>3, <1>4, ContinuationBounded, Zenon DEF Hit
<1>5. ASSUME NEW c \in Calls, NEW k \in Keys, NEW force \in Forces, Join(c, k, force)
      PROVE  Bounded(cache')
  BY <1>3, <1>5, Zenon DEF Join
<1>6. ASSUME NEW c \in Calls, NEW k \in Keys, NEW force \in Forces, Start(c, k, force)
      PROVE  Bounded(cache')
  <2> DEFINE C == Got(cache, k)
  <2>1. C \in CacheT /\ Bounded(C)
    BY <1>3, Zenon
  <2>2. cache' = [C EXCEPT !.pending[k] = c]
    BY <1>6, Zenon DEF Start
  <2> HIDE DEF C
  <2>3. cache'.entry = C.entry /\ cache'.before = C.before
    BY <2>1, <2>2, Zenon DEF CacheT
  <2> QED BY <2>1, <2>3, SameBounded, Zenon
<1>7. ASSUME NEW c \in Calls, Loading(c) PROVE op[c].key \in Keys
  BY <1>7, Zenon DEF Typed, Loading, Op
<1>8. ASSUME NEW c \in Calls, Denied(c) PROVE Bounded(cache')
  BY <1>1, <1>2, <1>7, <1>8, ClearedBounded, Zenon DEF Denied
<1>9. ASSUME NEW c \in Calls, Unavailable(c) PROVE Bounded(cache')
  BY <1>2, <1>3, <1>7, <1>9, Zenon DEF Unavailable
<1>10. ASSUME NEW c \in Calls, ResumeOwn(c) PROVE Bounded(cache')
  <2>1. /\ op[c] # None /\ op[c] \in Op /\ op[c].key \in Keys /\ op[c].at \in Nat /\ op[c].at <= now
        /\ op[c].state = "value" => op[c].value \in Value
    BY <1>10, Parts DEF ResumeOwn, OwnGood, Typed, Op, BoundInv
  <2>2. CASE op[c].state = "value" /\ ~Stale(c)
    <3> DEFINE C == Put(cache, op[c].key, op[c].value, op[c].at)
    <3>1. op[c].value.asked = cache.epoch[op[c].key]
      BY <1>10, <2>1, <2>2, Parts, LeaseAssumption, Zenon DEF ResumeOwn, OwnGood, Stale
    <3>2. C \in CacheT /\ EntryGood(C) /\ Bounded(C)
      BY <1>1, <1>2, <2>1, <2>2, <3>1, PutKept, PutBounded, Zenon DEF Kept
    <3>3. Returned(Settled(C, op[c].key, c), c, op[c].key, op[c].value)
      BY <1>10, <2>2, Zenon DEF ResumeOwn
    <3> HIDE DEF C
    <3> QED BY <2>1, <3>2, <3>3, SettledBounded, ContinuationBounded, Zenon
  <2>3. CASE ~(op[c].state = "value" /\ ~Stale(c))
    <3>1. Thrown(Settled(cache, op[c].key, c), c, op[c].state = "denied")
      BY <1>10, <2>3, Zenon DEF ResumeOwn
    <3> QED BY <1>1, <1>2, <2>1, <3>1, SettledBounded, ContinuationBounded, Zenon
  <2> QED BY <2>2, <2>3, Zenon
<1>11. ASSUME NEW c \in Calls, ResumeJoined(c) PROVE Bounded(cache')
  <2>1. call[c].key \in Keys
    BY <1>11, Parts, Zenon DEF ResumeJoined, JoinedGood, Typed, Call
  <2> QED BY <1>1, <1>2, <1>11, <2>1, ContinuationBounded, Zenon DEF ResumeJoined
<1>12. CASE SignOut
  <2>1. CASE Keys = {}
    <3>1. cache'.entry = cache.entry /\ cache'.before = cache.before
      BY <1>1, <1>12, <2>1, Zenon DEF SignOut, OwnerCleared, Dropped, Without, CacheT
    <3> QED BY <1>2, <3>1, SameBounded, Zenon
  <2>2. CASE Keys # {}
    BY <1>1, <1>2, <1>12, <2>2, ClearedBounded, Zenon DEF SignOut
  <2> QED BY <2>1, <2>2, Zenon
<1>13. CASE cache' = cache
  BY <1>2, <1>13, Zenon
<1> QED BY <1>4, <1>5, <1>6, <1>8, <1>9, <1>10, <1>11, <1>12, <1>13, Zenon DEF Next, Granted, Failed, Done, Tick

\* The bounds are kept, and time only widens them.
LEMMA BoundStep ==
  ASSUME Typed, LoadInv, BoundInv, [Next]_vars, Typed'
  PROVE  BoundInv'
<1>1. (\A c \in Calls : op[c] # None => op[c].at <= now)'
  BY StartedBefore, Zenon DEF BoundInv
<1>2. now \in Nat /\ now' \in {now, now + 1}
  BY Zenon
  DEF Typed, Next, Hit, Join, Start, Granted, Denied, Unavailable, Failed, ResumeOwn, ResumeJoined,
     Done, SignOut, Tick, vars
<1>3. Bounded(cache')
  <2>1. CASE UNCHANGED vars
    BY <2>1, Zenon DEF vars, BoundInv, InBounds, Bounded, Lives
  <2> QED BY <2>1, CacheStep, Zenon
<1>4. \A k \in Cached(cache') : cache'.entry[k].at \in Nat
  BY Zenon DEF Typed, CacheT, EntryT, Cached
<1>5. InBounds'
  BY <1>2, <1>3, <1>4, LeaseAssumption DEF Bounded, Lives, InBounds
<1>6. IsFiniteSet(Cached(cache')) /\ Ordered(cache')
  BY <1>3, Zenon DEF Bounded
<1> QED BY <1>1, <1>5, <1>6, Zenon DEF BoundInv

\* The whole invariant: loads and entries of the present generation, in bounds.
THEOREM LeaseInvariance == Spec => []LeaseInv
<1>1. Init => BoundInv
  <2> SUFFICES ASSUME Init PROVE BoundInv
    BY Zenon
  <2>1. Cached(cache) = {} /\ cache.before = {} /\ \A c \in Calls : op[c] = None
    BY Zenon DEF Init, Cached
  <2>2. Ordered(cache)
    BY <2>1, Zenon DEF Ordered
  <2>3. IsFiniteSet(Cached(cache)) /\ Cardinality(Cached(cache)) = 0
    BY <2>1, FS_EmptySet, Zenon
  <2> QED BY <2>1, <2>2, <2>3, LeaseAssumption DEF BoundInv, InBounds
<1>2. Typed /\ LoadInv /\ Typed' /\ BoundInv /\ [Next]_vars => BoundInv'
  BY BoundStep, Zenon
<1> QED BY <1>1, <1>2, TypedInvariance, PTL DEF Spec, LeaseInv

\* The cache never holds more than MaxEntries entries, and none beyond the expiry
\* of the token, of the value, or MaxTtl after the load that put it had begun (put, evict, boundedLeaseTtl).
THEOREM CacheInBounds == Spec => []InBounds
<1>1. LeaseInv => InBounds
  BY Zenon DEF LeaseInv, BoundInv
<1> QED BY <1>1, LeaseInvariance, PTL
=============================================================================
