---------------------------- MODULE EvictionProofs ----------------------------
(* Theorems about Eviction, for any entries, of any sizes, any number of    *)
(* threads and any limits.                                                  *)
EXTENDS Eviction, SetFolds

(* A directory has finitely many entries; their sizes are bytes.            *)
EvictionAssumption ==
  IsFiniteSet(Entries) /\ Size \in [Entries -> Nat] /\ Low \in Nat /\ MaxCreations \in Nat

(* The sizes of entries add up.                                             *)
LEMMA SizesAdd ==
  ASSUME EvictionAssumption
  PROVE  /\ TotalSize({}) = 0
         /\ \A S \in SUBSET Entries : TotalSize(S) \in Nat
         /\ \A S \in SUBSET Entries : \A e \in Entries \ S :
              TotalSize(S \cup {e}) = TotalSize(S) + Size[e]
<1>1. ASSUME NEW S PROVE TotalSize(S) = SumOf(Size, S)
  BY DEF TotalSize, SumOf
<1> QED BY <1>1, SumOfMore DEF EvictionAssumption

-----------------------------------------------------------------------------
(* Every creation has a time stamp of its own.                              *)
StampsDiffer ==
  /\ \A e \in Entries : stamp[e] <= creations
  /\ \A e, f \in Entries : e # f => stamp[e] = 0 \/ stamp[e] # stamp[f]
  /\ \A w \in Workers : \A e \in Entries : entries[w][e] <= creations
  /\ \A w \in Workers : \A e, f \in Entries : e # f =>
       entries[w][e] = 0 \/ (entries[w][e] # entries[w][f] /\ entries[w][e] # stamp[f])
EvictInv == EvictionTypeOK /\ StampsDiffer /\ KeepsNewest

Fits(kept, e) == TotalSize(kept) + Size[e] <= Low
Adding(kept, e) == IF Fits(kept, e) THEN kept \cup {e} ELSE kept
Keeps(it, w) ==
  it = [S \in SUBSET Seen(w) |->
          IF S = {} THEN {} ELSE Adding(it[S \ {Oldest(w, S)}], Oldest(w, S))]

(* Select() in the terms of the lemmas: what the function it computes solves. *)
LEMMA SelectIs ==
  ASSUME NEW w PROVE Select(w) = (CHOOSE it : Keeps(it, w))[Seen(w)]
BY DEF Select, Keeps, Adding, Fits

(* Of entries that were seen, one is the oldest.                            *)
LEMMA OldestIs ==
  ASSUME IsFiniteSet(Entries), NEW w \in Workers, EvictionTypeOK,
         NEW S \in SUBSET Entries, S # {}
  PROVE  Oldest(w, S) \in S /\ \A f \in S : entries[w][Oldest(w, S)] <= entries[w][f]
<1> DEFINE M == {T \in SUBSET Entries : T # {} => \E e \in T : \A f \in T : entries[w][e] <= entries[w][f]}
<1>0. \A e \in Entries : entries[w][e] \in Nat
  BY DEF EvictionTypeOK
<1>1. ASSUME NEW T \in SUBSET Entries, \A U \in SUBSET T : U # T => U \in M
      PROVE  T \in M
  <2> SUFFICES ASSUME NEW x \in T PROVE \E e \in T : \A f \in T : entries[w][e] <= entries[w][f]
    OBVIOUS
  <2>1. CASE T \ {x} = {}
    <3>1. \A f \in T : entries[w][x] <= entries[w][f]
      BY <1>0, <2>1
    <3> QED BY <3>1
  <2>2. CASE T \ {x} # {}
    <3>0. T \ {x} \in M
      BY <1>1
    <3>1. PICK e \in T \ {x} : \A f \in T \ {x} : entries[w][e] <= entries[w][f]
      BY <2>2, <3>0
    <3>2. CASE entries[w][x] <= entries[w][e]
      <4>1. \A f \in T : entries[w][x] <= entries[w][f]
        BY <1>0, <3>1, <3>2
      <4> QED BY <4>1
    <3>3. CASE ~ (entries[w][x] <= entries[w][e])
      <4>1. \A f \in T : entries[w][e] <= entries[w][f]
        BY <1>0, <3>1, <3>3
      <4> QED BY <4>1
    <3> QED BY <3>2, <3>3
  <2> QED BY <2>1, <2>2
<1>2. SUBSET Entries \subseteq M
  <2>1. M \in SUBSET (SUBSET Entries)
    OBVIOUS
  <2> HIDE DEF M
  <2> QED BY <1>1, <2>1, SubsetInduction
<1>3. \E e \in S : \A f \in S : entries[w][e] <= entries[w][f]
  BY <1>2
<1> QED BY <1>3 DEF Oldest

(* That function exists.                                                    *)
LEMMA KeepsExists ==
  ASSUME EvictionAssumption, NEW w \in Workers, EvictionTypeOK
  PROVE  \E it : Keeps(it, w)
<1> DEFINE S == Seen(w)
           next == [T \in SUBSET S |-> Oldest(w, T)]
           F == [p \in S \X SUBSET S |-> Adding(p[2], p[1])]
<1>1. S \subseteq Entries /\ IsFiniteSet(S)
  BY FS_Subset DEF Seen, EvictionAssumption
<1>2. \A T \in SUBSET S : T # {} => next[T] \in T
  BY <1>1, OldestIs DEF EvictionAssumption
<1>3. F \in [S \X SUBSET S -> SUBSET S]
  BY DEF Adding
<1>4. PICK it : Solves(it, S, {}, next, F, SUBSET S)
  <2> HIDE DEF S, next, F
  <2>1. {} \in SUBSET S
    OBVIOUS
  <2> QED BY <1>1, <1>2, <1>3, <2>1, FoldExists
<1>5. it \in [SUBSET S -> SUBSET S]
  BY <1>4 DEF Solves
<1>6. ASSUME NEW T \in SUBSET S
      PROVE  it[T] = IF T = {} THEN {} ELSE Adding(it[T \ {Oldest(w, T)}], Oldest(w, T))
  <2>1. CASE T = {}
    BY <1>4, <2>1 DEF Solves
  <2>2. CASE T # {}
    <3>1. it[T] = F[<<next[T], it[T \ {next[T]}]>>]
      <4> HIDE DEF S, next, F
      <4> QED BY <1>4, <2>2 DEF Solves
    <3>2. next[T] = Oldest(w, T) /\ Oldest(w, T) \in S /\ it[T \ {Oldest(w, T)}] \in SUBSET S
      BY <1>2, <1>5, <2>2
    <3> QED BY <2>2, <3>1, <3>2
  <2> QED BY <2>1, <2>2
<1> QED BY <1>5, <1>6 DEF Keeps

(* Whatever the loop has come to, it keeps the newest that fit: by          *)
(* induction over the entries that it has come to.                          *)
LEMMA SelectKeepsNewest ==
  ASSUME EvictionAssumption, EvictionTypeOK, StampsDiffer, NEW w \in Workers
  PROVE  /\ Select(w) \subseteq Seen(w) /\ TotalSize(Select(w)) <= Low
         /\ \A e \in Seen(w) \ Select(w) : TotalSize(Select(w) \cap Newer(w, e)) + Size[e] > Low
<1> DEFINE it == CHOOSE j : Keeps(j, w)
<1>1. Keeps(it, w) /\ Select(w) = it[Seen(w)]
  BY KeepsExists, SelectIs
<1> HIDE DEF it
<1> DEFINE M == {T \in SUBSET Seen(w) :
                   /\ it[T] \subseteq T /\ TotalSize(it[T]) <= Low
                   /\ \A e \in T \ it[T] : TotalSize(it[T] \cap Newer(w, e)) + Size[e] > Low}
<1>2. Seen(w) \subseteq Entries /\ IsFiniteSet(Seen(w))
  BY FS_Subset DEF Seen, EvictionAssumption
<1>3. TotalSize({}) = 0 /\ \A S \in SUBSET Entries : TotalSize(S) \in Nat
  BY SizesAdd DEF EvictionAssumption
<1>4. ASSUME NEW T \in SUBSET Seen(w), \A U \in SUBSET T : U # T => U \in M
      PROVE  T \in M
  <2>1. CASE T = {}
    <3>1. it[T] = {}
      BY <1>1, <2>1 DEF Keeps
    <3> QED BY <1>3, <2>1, <3>1 DEF EvictionAssumption
  <2>2. CASE T # {}
    <3> DEFINE e == Oldest(w, T)
               U == T \ {e}
               before == it[U]
    <3>1. e \in T /\ \A f \in T : entries[w][e] <= entries[w][f]
      BY <1>2, <2>2, OldestIs DEF EvictionAssumption
    <3>2. U \in M /\ it[T] = Adding(before, e)
      BY <1>1, <1>4, <2>2, <3>1 DEF Keeps
    <3>3. /\ before \subseteq U /\ TotalSize(before) <= Low
          /\ \A f \in U \ before : TotalSize(before \cap Newer(w, f)) + Size[f] > Low
      BY <3>2
    <3> HIDE DEF e, before
    <3>4. e \in Entries /\ U \subseteq Entries /\ before \subseteq Entries /\ e \notin before
      BY <1>2, <3>1, <3>3
    <3>5. ASSUME NEW f \in U
          PROVE  (before \cup {e}) \cap Newer(w, f) = before \cap Newer(w, f)
      <4>1. e \notin Newer(w, f)
        <5>1. entries[w][e] <= entries[w][f] /\ entries[w][e] \in Nat /\ entries[w][f] \in Nat
          BY <3>1, <3>4 DEF EvictionTypeOK
        <5> QED BY <5>1 DEF Newer
      <4> QED BY <4>1
    <3>6. before \cap Newer(w, e) = before
      <4>1. ASSUME NEW f \in before PROVE f \in Newer(w, e)
        <5>1. f \in Seen(w) /\ f \in Entries /\ f # e /\ entries[w][e] <= entries[w][f]
          BY <1>2, <3>1, <3>3
        <5>2. entries[w][e] # entries[w][f]
          BY <1>2, <3>1, <3>4, <5>1 DEF StampsDiffer, Seen, EvictionTypeOK
        <5>3. entries[w][e] \in Nat /\ entries[w][f] \in Nat
          BY <3>4, <5>1 DEF EvictionTypeOK
        <5> QED BY <5>1, <5>2, <5>3 DEF Newer
      <4> QED BY <4>1
    <3>7. TotalSize(before \cup {e}) = TotalSize(before) + Size[e]
      BY <3>4, SizesAdd DEF EvictionAssumption
    <3>8. CASE Fits(before, e)
      <4>1. it[T] = before \cup {e}
        BY <3>2, <3>8 DEF Adding
      <4>2. TotalSize(it[T]) <= Low
        BY <3>7, <3>8, <4>1 DEF Fits
      <4>3. it[T] \subseteq T /\ T \ it[T] \subseteq U \ before
        BY <3>1, <3>3, <4>1
      <4>4. \A f \in T \ it[T] : TotalSize(it[T] \cap Newer(w, f)) + Size[f] > Low
        BY <3>3, <3>5, <4>1, <4>3
      <4> QED BY <4>2, <4>3, <4>4
    <3>9. CASE ~Fits(before, e)
      <4>1. it[T] = before
        BY <3>2, <3>9 DEF Adding
      <4>2. TotalSize(before \cap Newer(w, e)) + Size[e] > Low
        <5>1. TotalSize(before) \in Nat /\ Size[e] \in Nat /\ Low \in Nat
          BY <1>3, <3>4 DEF EvictionAssumption
        <5>2. TotalSize(before) + Size[e] > Low
          BY <3>9, <5>1 DEF Fits
        <5> QED BY <3>6, <5>2
      <4>3. it[T] \subseteq T /\ T \ it[T] \subseteq (U \ before) \cup {e}
        BY <3>1, <3>3, <4>1
      <4>4. \A f \in T \ it[T] : TotalSize(it[T] \cap Newer(w, f)) + Size[f] > Low
        BY <3>3, <4>1, <4>2, <4>3
      <4> QED BY <3>3, <4>1, <4>3, <4>4
    <3> QED BY <3>8, <3>9
  <2> QED BY <2>1, <2>2
<1>5. SUBSET Seen(w) \subseteq M
  <2>1. M \in SUBSET (SUBSET Seen(w))
    OBVIOUS
  <2> HIDE DEF M
  <2> QED BY <1>2, <1>4, <2>1, SubsetInduction
<1>6. Seen(w) \in M
  BY <1>5
<1> QED BY <1>1, <1>6

LEMMA InitEvictInv == EvictionAssumption /\ Init => EvictInv
<1> SUFFICES ASSUME EvictionAssumption, Init PROVE EvictInv
  OBVIOUS
<1>1. EvictionTypeOK
  BY DEF Init, EvictionTypeOK, EvictionAssumption
<1>2. StampsDiffer /\ KeepsNewest
  BY DEF Init, StampsDiffer, KeepsNewest
<1> QED BY <1>1, <1>2 DEF EvictInv

LEMMA NextEvictType ==
  ASSUME EvictionAssumption, EvictInv, Next
  PROVE  EvictionTypeOK'
<1> USE DEF EvictInv, EvictionTypeOK, EvictionAssumption
<1>0. CACHES \in Seq(Range(CACHES)) /\ <<>> \in Seq(Range(CACHES)) /\ 0 \in 0..MaxCreations
  BY DEF CACHES, Range
<1>1. CASE CheckCache
  <2>1. CASE UNCHANGED threads
    BY <1>1, <2>1 DEF CheckCache, threads
  <2>2. ASSUME NEW w \in Workers, StartThread(w) PROVE EvictionTypeOK'
    BY <1>0, <1>1, <2>2 DEF CheckCache, StartThread
  <2> QED BY <1>1, <2>1, <2>2 DEF CheckCache
<1>2. ASSUME NEW w \in Workers, Steps(w) PROVE EvictionTypeOK'
  <2>1. CASE ListDir(w)
    BY <1>2, <2>1 DEF ListDir, Present
  <2>2. CASE Stat(w)
    <3>1. PICK e \in names[w] : \/ stamp[e] = 0 /\ End(w)
                               \/ /\ entries' = [entries EXCEPT ![w][e] = stamp[e]]
                                  /\ names' = [names EXCEPT ![w] = @ \ {e}]
                                  /\ UNCHANGED <<job, caches, keep>>
      BY <2>2 DEF Stat
    <3>2. UNCHANGED <<stamp, locked, creations, scheduled>>
      BY <2>2 DEF Stat
    <3>3. CASE End(w)
      BY <1>0, <3>2, <3>3 DEF End
    <3>4. CASE ~End(w)
      <4>1. e \in Entries /\ stamp[e] \in 0..MaxCreations
        BY DEF Stat
      <4>2. entries' = [entries EXCEPT ![w] = [entries[w] EXCEPT ![e] = stamp[e]]]
        BY <3>1, <3>4
      <4>3. [entries[w] EXCEPT ![e] = stamp[e]] \in [Entries -> 0..MaxCreations]
        BY <4>1
      <4>4. entries' \in [Workers -> [Entries -> 0..MaxCreations]]
        BY <4>2, <4>3
      <4> QED BY <3>1, <3>2, <3>4, <4>4
    <3> QED BY <3>3, <3>4
  <2>3. CASE Choose(w)
    <3>1. Select(w) \subseteq Entries
      BY SelectKeepsNewest DEF Seen
    <3> QED BY <1>0, <2>3, <3>1 DEF Choose
  <2>4. CASE Clear(w)
    BY <1>2, <2>4 DEF Clear
  <2>5. CASE Done(w)
    BY <1>0, <2>5 DEF Done, End
  <2> QED BY <1>2, <2>1, <2>2, <2>3, <2>4, <2>5 DEF Steps
<1>3. ASSUME NEW e \in Entries, Create(e) \/ Acquire(e) \/ Release(e) PROVE EvictionTypeOK'
  BY <1>3 DEF Create, Acquire, Release, threads
<1> QED BY <1>1, <1>2, <1>3 DEF Next

(* A step copies a time stamp, forgets one or makes a new one.              *)
LEMMA NextStampsDiffer ==
  ASSUME EvictionAssumption, EvictInv, Next
  PROVE  StampsDiffer'
<1> USE DEF EvictInv, EvictionTypeOK, EvictionAssumption
<1> DEFINE Older ==
      /\ creations' = creations /\ \A e \in Entries : stamp'[e] \in {0, stamp[e]}
      /\ \A w \in Workers : \A e \in Entries : entries'[w][e] \in {0, entries[w][e], stamp[e]}
<1>1. ASSUME Older PROVE StampsDiffer'
  <2>1. \A e \in Entries : /\ stamp[e] \in Nat /\ stamp[e] <= creations
                           /\ \A w \in Workers : entries[w][e] \in Nat /\ entries[w][e] <= creations
    BY DEF StampsDiffer
  <2>2. ASSUME NEW e \in Entries PROVE stamp'[e] <= creations'
    <3>1. stamp'[e] \in {0, stamp[e]} /\ creations' = creations /\ creations \in Nat
      BY <1>1
    <3> QED BY <2>1, <3>1
  <2>3. ASSUME NEW w \in Workers, NEW e \in Entries PROVE entries'[w][e] <= creations'
    <3>1. entries'[w][e] \in {0, entries[w][e], stamp[e]} /\ creations' = creations /\ creations \in Nat
      BY <1>1
    <3> QED BY <2>1, <3>1
  <2>4. (\A e, f \in Entries : e # f => stamp[e] = 0 \/ stamp[e] # stamp[f])'
    BY <1>1 DEF StampsDiffer
  <2>5. ASSUME NEW w \in Workers, NEW e \in Entries, NEW f \in Entries, e # f, entries'[w][e] # 0
        PROVE  entries'[w][e] # entries'[w][f] /\ entries'[w][e] # stamp'[f]
    <3>1. entries'[w][e] \in {entries[w][e], stamp[e]} /\ entries'[w][f] \in {0, entries[w][f], stamp[f]}
      BY <1>1, <2>5
    <3>2. stamp'[f] \in {0, stamp[f]}
      BY <1>1
    <3>3. /\ entries[w][e] = 0 \/ (entries[w][e] # entries[w][f] /\ entries[w][e] # stamp[f])
          /\ entries[w][f] = 0 \/ (entries[w][f] # entries[w][e] /\ entries[w][f] # stamp[e])
          /\ stamp[e] = 0 \/ stamp[e] # stamp[f]
      BY <2>5 DEF StampsDiffer
    <3> QED BY <2>5, <3>1, <3>2, <3>3
  <2> QED BY <2>2, <2>3, <2>4, <2>5 DEF StampsDiffer
<1>2. CASE CheckCache
  BY <1>1, <1>2 DEF CheckCache, threads, StartThread
<1>3. ASSUME NEW w \in Workers, Steps(w) PROVE Older
  <2>1. CASE ListDir(w) \/ Choose(w)
    BY <2>1 DEF ListDir, Choose
  <2>2. CASE Stat(w)
    <3>1. PICK e \in names[w] : End(w) \/ entries' = [entries EXCEPT ![w][e] = stamp[e]]
      BY <2>2 DEF Stat
    <3>2. UNCHANGED <<stamp, creations>>
      BY <2>2 DEF Stat
    <3>3. CASE End(w)
      BY <3>2, <3>3 DEF End
    <3>4. CASE entries' = [entries EXCEPT ![w][e] = stamp[e]]
      <4>1. \A v \in Workers : \A f \in Entries :
              entries'[v][f] = IF v = w /\ f = e THEN stamp[e] ELSE entries[v][f]
        BY <3>4
      <4> QED BY <3>2, <4>1
    <3> QED BY <3>1, <3>3, <3>4
  <2>3. CASE Clear(w)
    <3>1. UNCHANGED <<entries, creations>> /\ \A e \in Entries : stamp'[e] \in {0, stamp[e]}
      BY <2>3 DEF Clear
    <3> QED BY <3>1
  <2>4. CASE Done(w)
    BY <2>4 DEF Done, End
  <2> QED BY <1>3, <2>1, <2>2, <2>3, <2>4 DEF Steps
<1>4. ASSUME NEW e \in Entries, Acquire(e) \/ Release(e) PROVE Older
  BY <1>4 DEF Acquire, Release, threads
<1>5. ASSUME NEW e \in Entries, Create(e) PROVE StampsDiffer'
  <2>1. /\ creations' = creations + 1 /\ entries' = entries
        /\ stamp'[e] = creations + 1 /\ \A f \in Entries \ {e} : stamp'[f] = stamp[f]
    BY <1>5 DEF Create, threads
  <2>2. \A f \in Entries : /\ stamp[f] \in Nat /\ stamp[f] <= creations
                           /\ \A w \in Workers : entries[w][f] \in Nat /\ entries[w][f] <= creations
    BY DEF StampsDiffer
  <2>3. creations \in Nat
    OBVIOUS
  <2>4. \A f \in Entries : /\ stamp'[f] <= creations'
                           /\ \A w \in Workers : entries'[w][f] <= creations' /\ entries'[w][f] # creations + 1
    <3>1. ASSUME NEW f \in Entries PROVE stamp'[f] <= creations'
      <4>1. stamp'[f] \in {stamp[f], creations + 1} /\ stamp[f] \in Nat /\ stamp[f] <= creations
        BY <2>1, <2>2
      <4> QED BY <2>1, <2>3, <4>1
    <3>2. ASSUME NEW f \in Entries, NEW w \in Workers
          PROVE  entries'[w][f] <= creations' /\ entries'[w][f] # creations + 1
      <4>1. entries[w][f] \in Nat /\ entries[w][f] <= creations
        BY <2>2
      <4> QED BY <2>1, <2>3, <4>1
    <3> QED BY <3>1, <3>2
  <2>5. ASSUME NEW f \in Entries, NEW g \in Entries, f # g, stamp'[f] # 0 PROVE stamp'[f] # stamp'[g]
    <3>1. stamp[f] # creations + 1 /\ stamp[g] # creations + 1
      BY <2>2, <2>3
    <3> QED BY <2>1, <2>5, <3>1 DEF StampsDiffer
  <2>6. ASSUME NEW w \in Workers, NEW f \in Entries, NEW g \in Entries, f # g, entries'[w][f] # 0
        PROVE  entries'[w][f] # entries'[w][g] /\ entries'[w][f] # stamp'[g]
    BY <2>1, <2>4, <2>6 DEF StampsDiffer
  <2> QED BY <2>4, <2>5, <2>6 DEF StampsDiffer
<1> HIDE DEF Older
<1> QED BY <1>1, <1>2, <1>3, <1>4, <1>5 DEF Next

(* What a thread keeps and has seen does not change after Choose().         *)
LEMMA NextKeepsNewest ==
  ASSUME EvictionAssumption, EvictInv, Next
  PROVE  KeepsNewest'
<1> USE DEF EvictInv, EvictionTypeOK
<1> SUFFICES ASSUME NEW w \in Workers, job'[w] = "clear"
             PROVE  /\ keep'[w] \subseteq Seen(w)' /\ TotalSize(keep'[w]) <= Low
                    /\ \A e \in Seen(w)' \ keep'[w] :
                         TotalSize(keep'[w] \cap Newer(w, e)') + Size[e] > Low
  BY DEF KeepsNewest
<1>1. CASE keep'[w] = keep[w] /\ entries'[w] = entries[w] /\ job[w] = "clear"
  <2>1. Seen(w)' = Seen(w) /\ \A e : Newer(w, e)' = Newer(w, e)
    BY <1>1 DEF Seen, Newer
  <2> QED BY <1>1, <2>1 DEF KeepsNewest
<1>2. CASE Choose(w)
  <2>1. keep'[w] = Select(w) /\ entries' = entries
    BY <1>2 DEF Choose
  <2>2. Seen(w)' = Seen(w) /\ \A e : Newer(w, e)' = Newer(w, e)
    BY <2>1 DEF Seen, Newer
  <2> QED BY <2>1, <2>2, SelectKeepsNewest
<1>3. CASE ~Choose(w)
  <2>1. CASE CheckCache
    BY <1>1, <2>1 DEF CheckCache, threads, StartThread
  <2>2. ASSUME NEW v \in Workers, Steps(v) PROVE keep'[w] = keep[w] /\ entries'[w] = entries[w] /\ job[w] = "clear"
    <3>1. CASE ListDir(v) \/ Clear(v)
      BY <3>1 DEF ListDir, Clear
    <3>2. CASE Stat(v)
      BY <3>2 DEF Stat, End
    <3>3. CASE Choose(v)
      BY <1>3, <3>3 DEF Choose
    <3>4. CASE Done(v)
      BY <3>4 DEF Done, End
    <3> QED BY <2>2, <3>1, <3>2, <3>3, <3>4 DEF Steps
  <2>3. ASSUME NEW e \in Entries, Create(e) \/ Acquire(e) \/ Release(e)
        PROVE  keep'[w] = keep[w] /\ entries'[w] = entries[w] /\ job[w] = "clear"
    BY <2>3 DEF Create, Acquire, Release, threads
  <2> QED BY <1>1, <2>1, <2>2, <2>3 DEF Next
<1> QED BY <1>2, <1>3

LEMMA NextEvictInv ==
  ASSUME EvictionAssumption, EvictInv, [Next]_evictionVars
  PROVE  EvictInv'
<1>1. CASE Next
  BY <1>1, NextEvictType, NextStampsDiffer, NextKeepsNewest DEF EvictInv
<1>2. CASE UNCHANGED evictionVars
  <2>1. EvictionTypeOK' /\ StampsDiffer'
    BY <1>2 DEF evictionVars, EvictInv, EvictionTypeOK, StampsDiffer
  <2>2. \A w : Seen(w)' = Seen(w) /\ \A e : Newer(w, e)' = Newer(w, e)
    BY <1>2 DEF evictionVars, Seen, Newer
  <2>3. KeepsNewest'
    BY <1>2, <2>2 DEF evictionVars, EvictInv, KeepsNewest
  <2> QED BY <2>1, <2>3 DEF EvictInv
<1> QED BY <1>1, <1>2

(* Each eviction keeps the newest entries that fit, and clears the others,  *)
(* whatever is created, locked or deleted meanwhile (clear_caches()).       *)
THEOREM EvictionKeepsNewest ==
  ASSUME EvictionAssumption
  PROVE  Spec => [](EvictionTypeOK /\ KeepsNewest)
<1>1. EvictInv => EvictionTypeOK /\ KeepsNewest
  BY DEF EvictInv
<1>2. Init => EvictInv
  BY InitEvictInv
<1>3. EvictInv /\ [Next]_evictionVars => EvictInv'
  BY NextEvictInv
<1> QED BY <1>1, <1>2, <1>3, PTL DEF Spec
=============================================================================
