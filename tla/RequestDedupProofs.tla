------------------------- MODULE RequestDedupProofs -------------------------
(***************************************************************************)
(* Proofs about RequestDedup, for every set of workers and every sets of   *)
(* methods, targets, queries and bodies.                                   *)
(*                                                                         *)
(* Neither SingleFlight nor RegistryExact is inductive alone: the post     *)
(* hook releases whatever the metadata holds, so the invariant must say    *)
(* whose key that is, that no two requests in flight share one, and that a *)
(* key in flight is not also a leaked one.                                 *)
(***************************************************************************)
EXTENDS RequestDedup, TLAPS

(* A request in flight carries its own key, any other context none.        *)
OwnsKey ==
    cfg.enabled =>
        \A w \in Worker :
            ctx[w].dedup_key = IF InFlight(w) THEN {KeyOf(w)} ELSE {}

(* Requests in flight have different keys.                                 *)
KeyUnique ==
    cfg.enabled =>
        \A v, w \in Worker :
            InFlight(v) /\ InFlight(w) /\ KeyOf(v) = KeyOf(w) => v = w

(* A key in flight was never leaked.                                       *)
LeakedNotInFlight ==
    cfg.enabled => \A w \in Worker : InFlight(w) => KeyOf(w) \notin leaked

IInv ==
    /\ TypeOK
    /\ OwnsKey
    /\ KeyUnique
    /\ LeakedNotInFlight
    /\ RegistryExact

-----------------------------------------------------------------------------
LEMMA NoContextType ==
    /\ NoContext \in [phase : Phase, content : Content, dedup_key : SUBSET Key]
    /\ NoContext.phase = "idle"
    /\ NoContext.dedup_key = {}
<1>1. Content # {}
  <2>1. PICK m \in Method, t \in Target, q \in Query, b \in Body : TRUE
    BY DedupAssumption
  <2>2. [method |-> m, target |-> t, query |-> q, body |-> b] \in Content
    BY <2>1 DEF Content
  <2> QED  BY <2>2
<1>2. (CHOOSE c \in Content : TRUE) \in Content
  BY <1>1
<1> QED  BY <1>2 DEF NoContext, Phase

LEMMA KeyOfType ==
    ASSUME TypeOK, NEW w \in Worker
    PROVE  KeyOf(w) \in Key
BY DEF TypeOK, KeyOf, Key

LEMMA TypeStep == TypeOK /\ [Next]_vars => TypeOK'
<1> SUFFICES ASSUME TypeOK, [Next]_vars PROVE TypeOK'
  OBVIOUS
<1>1. ASSUME NEW w \in Worker, NEW c \in Content, Arrive(w, c) PROVE TypeOK'
  BY <1>1 DEF TypeOK, Arrive, Phase
<1>2. ASSUME NEW w \in Worker, PreDisabled(w) PROVE TypeOK'
  BY <1>2 DEF TypeOK, PreDisabled, Phase
<1>3. ASSUME NEW w \in Worker, PreRegister(w) PROVE TypeOK'
  BY <1>3, KeyOfType DEF TypeOK, PreRegister, Phase
<1>4. ASSUME NEW w \in Worker, PreReject(w) PROVE TypeOK'
  BY <1>4 DEF TypeOK, PreReject, Phase
<1>5. ASSUME NEW w \in Worker, Answer(w) PROVE TypeOK'
  BY <1>5 DEF TypeOK, Answer, Phase
<1>6. ASSUME NEW w \in Worker, Post(w) PROVE TypeOK'
  BY <1>6, NoContextType DEF TypeOK, Post
<1>7. ASSUME NEW w \in Worker, Raise(w) PROVE TypeOK'
  BY <1>7, NoContextType DEF TypeOK, Raise
<1>8. CASE UNCHANGED vars
  BY <1>8 DEF TypeOK, vars
<1> QED
  BY <1>1, <1>2, <1>3, <1>4, <1>5, <1>6, <1>7, <1>8 DEF Next, Step

(* Every variable keeps its type.                                          *)
THEOREM TypeCorrect == Spec => []TypeOK
<1>1. Init => TypeOK
  BY NoContextType DEF Init, TypeOK
<1> QED  BY <1>1, TypeStep, PTL DEF Spec

-----------------------------------------------------------------------------
(* A step that puts no request in flight and ends none: it keeps every     *)
(* part of the invariant but the type.                                     *)
LEMMA SameFlight ==
    ASSUME IInv, UNCHANGED <<cfg, registry, leaked>>,
           \A v \in Worker : InFlight(v)' = InFlight(v),
           \A v \in Worker : InFlight(v) => KeyOf(v)' = KeyOf(v),
           \A v \in Worker : cfg.enabled =>
               ctx'[v].dedup_key = ctx[v].dedup_key
    PROVE  OwnsKey' /\ KeyUnique' /\ LeakedNotInFlight' /\ RegistryExact'
<1>1. OwnsKey'
  BY DEF IInv, OwnsKey
<1>2. KeyUnique'
  BY DEF IInv, KeyUnique
<1>3. LeakedNotInFlight'
  BY DEF IInv, LeakedNotInFlight
<1>4. RegistryExact'
  BY DEF IInv, RegistryExact
<1> QED  BY <1>1, <1>2, <1>3, <1>4

(* A request of worker w leaves: w holds no context any more, everybody    *)
(* else what they held.                                                    *)
LEMMA Leaving ==
    ASSUME IInv, NEW w \in Worker, UNCHANGED cfg,
           ctx' = [ctx EXCEPT ![w] = NoContext]
    PROVE  /\ OwnsKey' /\ KeyUnique'
           /\ ~InFlight(w)'
           /\ \A v \in Worker \ {w} :
                 InFlight(v)' = InFlight(v) /\ KeyOf(v)' = KeyOf(v)
<1>1. \A v \in Worker \ {w} : ctx'[v] = ctx[v]
  BY DEF IInv, TypeOK
<1>2. ctx'[w] = NoContext
  BY DEF IInv, TypeOK
<1>3. ~InFlight(w)'
  BY <1>2, NoContextType DEF InFlight
<1>4. \A v \in Worker \ {w} :
        InFlight(v)' = InFlight(v) /\ KeyOf(v)' = KeyOf(v)
  BY <1>1 DEF InFlight, KeyOf
<1>5. OwnsKey'
  BY <1>1, <1>2, <1>3, <1>4, NoContextType DEF IInv, OwnsKey
<1>6. KeyUnique'
  BY <1>3, <1>4 DEF IInv, KeyUnique
<1> QED  BY <1>3, <1>4, <1>5, <1>6

LEMMA RegisterStep ==
    ASSUME IInv, NEW w \in Worker, PreRegister(w)
    PROVE  OwnsKey' /\ KeyUnique' /\ LeakedNotInFlight' /\ RegistryExact'
<1>1. \A v \in Worker \ {w} :
        /\ InFlight(v)' = InFlight(v)
        /\ KeyOf(v)' = KeyOf(v)
        /\ ctx'[v].dedup_key = ctx[v].dedup_key
  BY DEF IInv, TypeOK, PreRegister, InFlight, KeyOf
<1>2. ~InFlight(w) /\ InFlight(w)' /\ KeyOf(w)' = KeyOf(w)
      /\ ctx'[w].dedup_key = {KeyOf(w)}
  BY DEF IInv, TypeOK, PreRegister, InFlight, KeyOf
<1>3. KeyOf(w) \notin leaked
      /\ \A v \in Worker : InFlight(v) => KeyOf(v) # KeyOf(w)
  BY DEF IInv, RegistryExact, PreRegister
<1>4. cfg' = cfg /\ leaked' = leaked /\ registry' = registry \union {KeyOf(w)}
  BY DEF PreRegister
<1>5. OwnsKey'
  BY <1>1, <1>2, <1>4 DEF IInv, OwnsKey
<1>6. KeyUnique'
  BY <1>1, <1>2, <1>3, <1>4 DEF IInv, KeyUnique
<1>7. LeakedNotInFlight'
  BY <1>1, <1>2, <1>3, <1>4 DEF IInv, LeakedNotInFlight
<1>8. RegistryExact'
  BY <1>1, <1>2, <1>4 DEF IInv, RegistryExact
<1> QED  BY <1>5, <1>6, <1>7, <1>8

LEMMA PostStep ==
    ASSUME IInv, NEW w \in Worker, Post(w)
    PROVE  OwnsKey' /\ KeyUnique' /\ LeakedNotInFlight' /\ RegistryExact'
<1>1. /\ OwnsKey' /\ KeyUnique'
      /\ ~InFlight(w)'
      /\ \A v \in Worker \ {w} :
            InFlight(v)' = InFlight(v) /\ KeyOf(v)' = KeyOf(v)
  BY Leaving DEF Post
<1>2. cfg' = cfg /\ leaked' = leaked /\ registry' = registry \ ctx[w].dedup_key
  BY DEF Post
<1>3. LeakedNotInFlight'
  BY <1>1, <1>2 DEF IInv, LeakedNotInFlight
<1>4. RegistryExact'
  <2> SUFFICES ASSUME cfg.enabled
               PROVE  registry' = leaked \union
                        {KeyOf(v)' : v \in {u \in Worker : InFlight(u)'}}
    BY <1>2 DEF RegistryExact
  <2>1. CASE InFlight(w)
    <3>1. registry' = registry \ {KeyOf(w)}
      BY <1>2, <2>1 DEF IInv, OwnsKey
    <3>2. KeyOf(w) \notin leaked
      BY <2>1 DEF IInv, LeakedNotInFlight
    <3>3. \A v \in Worker \ {w} : InFlight(v) => KeyOf(v) # KeyOf(w)
      BY <2>1 DEF IInv, KeyUnique
    <3> QED  BY <1>1, <3>1, <3>2, <3>3 DEF IInv, RegistryExact
  <2>2. CASE ~InFlight(w)
    <3>1. registry' = registry
      BY <1>2, <2>2 DEF IInv, OwnsKey
    <3> QED  BY <1>1, <2>2, <3>1 DEF IInv, RegistryExact
  <2> QED  BY <2>1, <2>2
<1> QED  BY <1>1, <1>3, <1>4

LEMMA RaiseStep ==
    ASSUME IInv, NEW w \in Worker, Raise(w)
    PROVE  OwnsKey' /\ KeyUnique' /\ LeakedNotInFlight' /\ RegistryExact'
<1>1. /\ OwnsKey' /\ KeyUnique'
      /\ ~InFlight(w)'
      /\ \A v \in Worker \ {w} :
            InFlight(v)' = InFlight(v) /\ KeyOf(v)' = KeyOf(v)
  BY Leaving DEF Raise
<1>2. cfg' = cfg /\ registry' = registry /\ InFlight(w)
      /\ leaked' = leaked \union ctx[w].dedup_key
  BY DEF Raise
<1>3. cfg.enabled => leaked' = leaked \union {KeyOf(w)}
  BY <1>2 DEF IInv, OwnsKey
<1>4. LeakedNotInFlight'
  BY <1>1, <1>2, <1>3 DEF IInv, LeakedNotInFlight, KeyUnique
<1>5. RegistryExact'
  BY <1>1, <1>2, <1>3 DEF IInv, RegistryExact
<1> QED  BY <1>1, <1>4, <1>5

LEMMA InvariantInductive == IInv /\ [Next]_vars => IInv'
<1> SUFFICES ASSUME IInv, [Next]_vars
             PROVE  OwnsKey' /\ KeyUnique' /\ LeakedNotInFlight' /\ RegistryExact'
  BY TypeStep DEF IInv
<1> DEFINE Goal ==
      OwnsKey' /\ KeyUnique' /\ LeakedNotInFlight' /\ RegistryExact'
<1>1. ASSUME NEW w \in Worker, NEW c \in Content, Arrive(w, c) PROVE Goal
  <2>1. \A v \in Worker : InFlight(v)' = InFlight(v)
    BY <1>1 DEF IInv, TypeOK, Arrive, InFlight
  <2>2. \A v \in Worker : InFlight(v) => KeyOf(v)' = KeyOf(v)
    BY <1>1 DEF IInv, TypeOK, Arrive, InFlight, KeyOf
  <2>3. \A v \in Worker : cfg.enabled =>
          ctx'[v].dedup_key = ctx[v].dedup_key
    BY <1>1 DEF IInv, TypeOK, OwnsKey, Arrive, InFlight
  <2> QED  BY <1>1, <2>1, <2>2, <2>3, SameFlight DEF Arrive
<1>2. ASSUME NEW w \in Worker, PreDisabled(w) PROVE Goal
  BY <1>2 DEF PreDisabled, OwnsKey, KeyUnique, LeakedNotInFlight, RegistryExact
<1>3. ASSUME NEW w \in Worker, PreRegister(w) PROVE Goal
  BY <1>3, RegisterStep
<1>4. ASSUME NEW w \in Worker, PreReject(w) \/ Answer(w) PROVE Goal
  <2>1. \A v \in Worker :
          /\ InFlight(v)' = InFlight(v)
          /\ KeyOf(v)' = KeyOf(v)
          /\ ctx'[v].dedup_key = ctx[v].dedup_key
    BY <1>4 DEF IInv, TypeOK, PreReject, Answer, InFlight, KeyOf
  <2> QED  BY <1>4, <2>1, SameFlight DEF PreReject, Answer
<1>5. ASSUME NEW w \in Worker, Post(w) PROVE Goal
  BY <1>5, PostStep
<1>6. ASSUME NEW w \in Worker, Raise(w) PROVE Goal
  BY <1>6, RaiseStep
<1>7. CASE UNCHANGED vars
  BY <1>7, SameFlight DEF vars, InFlight, KeyOf
<1> QED
  BY <1>1, <1>2, <1>3, <1>4, <1>5, <1>6, <1>7 DEF Next, Step

LEMMA InvariantInit == Init => IInv
<1> SUFFICES ASSUME Init PROVE IInv
  OBVIOUS
<1>1. TypeOK
  BY NoContextType DEF Init, TypeOK
<1>2. \A w \in Worker : ~InFlight(w) /\ ctx[w].dedup_key = {}
  BY NoContextType DEF Init, InFlight
<1> QED
  BY <1>1, <1>2
  DEF Init, IInv, OwnsKey, KeyUnique, LeakedNotInFlight, RegistryExact

(* Duplicate requests have the same key: what the configuration leaves out *)
(* is not in the key.  (The converse fails for texts that hold a "|".)     *)
LEMMA DuplicatesShareKey ==
    ASSUME NEW c \in Content, NEW d \in Content, Duplicate(c, d)
    PROVE  RequestKey(cfg, c) = RequestKey(cfg, d)
BY DEF Duplicate, RequestKey

-----------------------------------------------------------------------------
THEOREM Invariance == Spec => []IInv
BY InvariantInit, InvariantInductive, PTL DEF Spec

(* _registry is exactly the keys in flight and the leaked ones.            *)
THEOREM RegistryIsExact == Spec => []RegistryExact
<1>1. IInv => RegistryExact
  BY DEF IInv
<1> QED  BY <1>1, Invariance, PTL

(* Duplicates are never with the upstream at the same time.                *)
THEOREM NeverForwardedTwice == Spec => []SingleFlight
<1>1. IInv => SingleFlight
  <2> SUFFICES ASSUME IInv, cfg.enabled,
                      NEW v \in Worker, NEW w \in Worker,
                      InFlight(v), InFlight(w),
                      Duplicate(ctx[v].content, ctx[w].content)
               PROVE  v = w
    BY DEF SingleFlight
  <2>1. ctx[v].content \in Content /\ ctx[w].content \in Content
    BY DEF IInv, TypeOK
  <2>2. KeyOf(v) = KeyOf(w)
    BY <2>1, DuplicatesShareKey DEF KeyOf
  <2> QED  BY <2>2 DEF IInv, KeyUnique
<1> QED  BY <1>1, Invariance, PTL
=============================================================================
