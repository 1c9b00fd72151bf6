----------------------------- MODULE V1_proofs -----------------------------
(***************************************************************************)
(* Version 1, proved for any metrics, number of pushes, buckets and        *)
(* faults: clients, their replay and the reindex interleave in any way.    *)
(***************************************************************************)
EXTENDS V1Reindex, Data_proofs

V1Next == (ClientNext /\ UNCHANGED reindexing) \/ ReindexNext

PushFields == {"at", "metric", "time", "got", "by"}
Uncounted == {"new", "batch", "failed", "cached"}
Stages == InFlight \cup {"new", "cached", "done", "lost"}
Shaped(p) == DOMAIN p = PushFields /\ p.at \in Stages /\ p.time \in Int

PushTypes ==
  /\ now \in Nat
  /\ DOMAIN push = Ids /\ \A i \in Ids : Shaped(push[i])
  /\ log \in [Ids -> Seq(Int)]

\* The list and what the jobs of the replay hold of it have each metric once.
Holding(j) ==
  /\ replay[j].held \in Seq(Ids)
  /\ \A i \in ToSet(replay[j].held) :
       /\ push[i].at = "cached"
       /\ \A n \in 1..Len(list) : list[n] # i
       /\ \A k \in Jobs \ {j} : i \notin ToSet(replay[k].held)

Waiting ==
  /\ list \in Seq(Ids)
  /\ \A m, n \in 1..Len(list) : list[m] = list[n] => m = n
  /\ \A m \in 1..Len(list) : push[list[m]].at = "cached"
  /\ DOMAIN replay = Jobs /\ \A j \in Jobs : Holding(j)

Once ==
  \A i \in Ids \ doubts :
    Len(log[i]) =< 1 /\ (push[i].at \in Uncounted => Len(log[i]) = 0)

CountInv == PushTypes /\ Waiting /\ Once
-----------------------------------------------------------------------------
\* What a step does to a push it takes further: it counts it once more, or not.
Takes(i, r) ==
  /\ DOMAIN push' = Ids /\ push'[i] = r /\ \A j \in Ids \ {i} : push'[j] = push[j]
  /\ Shaped(r)
  /\ UNCHANGED now
  /\ \/ log' = log /\ doubts' = doubts /\ (r.at \in Uncounted => push[i].at \in Uncounted)
     \/ \E t \in Int :
          /\ log' = [log EXCEPT ![i] = Append(@, t)]
          /\ \/ doubts' = doubts /\ r.at \notin Uncounted /\ push[i].at \in Uncounted
             \/ doubts' = doubts \cup {i}

LEMMA TakesFurther ==
  ASSUME CountInv, NEW i \in Ids, NEW r, Takes(i, r)
  PROVE  PushTypes' /\ Once' /\ \A j \in Ids \ {i} : push'[j] = push[j]
<1>1. /\ DOMAIN push' = Ids /\ push'[i] = r
      /\ \A j \in Ids \ {i} : push'[j] = push[j]
  BY DEF Takes, CountInv, PushTypes
<1>2. CASE log' = log
  BY <1>1, <1>2 DEF Takes, CountInv, PushTypes, Once
<1>3. ASSUME NEW t \in Int, log' = [log EXCEPT ![i] = Append(@, t)],
             (doubts' = doubts /\ r.at \notin Uncounted /\ push[i].at \in Uncounted)
               \/ doubts' = doubts \cup {i}
      PROVE  PushTypes' /\ Once'
  <2>1. log[i] \in Seq(Int)
    BY DEF CountInv, PushTypes
  <2>2. Append(log[i], t) \in Seq(Int) /\ Len(Append(log[i], t)) = Len(log[i]) + 1
    BY <1>3, <2>1
  <2>3. /\ log' \in [Ids -> Seq(Int)] /\ log'[i] = Append(log[i], t)
        /\ \A j \in Ids \ {i} : log'[j] = log[j]
    BY <1>3, <2>2 DEF CountInv, PushTypes
  <2>4. PushTypes'
    BY <1>1, <2>3 DEF Takes, CountInv, PushTypes
  <2>5. ASSUME NEW j \in Ids \ doubts', j # i
        PROVE  Len(log'[j]) =< 1 /\ (push'[j].at \in Uncounted => Len(log'[j]) = 0)
    BY <1>1, <1>3, <2>3, <2>5 DEF CountInv, Once
  <2>6. ASSUME i \notin doubts'
        PROVE  Len(log'[i]) =< 1 /\ push'[i].at \notin Uncounted
    <3>1. r.at \notin Uncounted /\ push[i].at \in Uncounted /\ i \notin doubts
      BY <1>3, <2>6
    <3>2. Len(log[i]) = 0
      BY <3>1 DEF CountInv, Once
    <3>3. QED
      BY <1>1, <2>2, <2>3, <3>1, <3>2
  <2>7. QED
    BY <2>4, <2>5, <2>6 DEF Once
<1>4. QED
  BY <1>1, <1>2, <1>3 DEF Takes

\* What a job holds is cached.
LEMMA HeldAre ==
  ASSUME CountInv, NEW j \in Jobs
  PROVE  \A i \in ToSet(replay[j].held) : i \in Ids /\ push[i].at = "cached"
<1>1. Holding(j)
  BY DEF CountInv, Waiting
<1>2. replay[j].held \in Seq(Ids) /\ \A i \in ToSet(replay[j].held) : push[i].at = "cached"
  BY <1>1 DEF Holding
<1>3. QED
  BY <1>2 DEF ToSet

\* A push that is taken further while the list stays was not in it.
LEMMA TakesKeeps ==
  ASSUME CountInv, NEW i \in Ids, push[i].at # "cached", NEW r, Takes(i, r),
         UNCHANGED <<list, replay>>
  PROVE  CountInv'
<1>1. PushTypes' /\ Once' /\ \A j \in Ids \ {i} : push'[j] = push[j]
  BY TakesFurther
<1>2. Waiting'
  <2>1. \A m \in 1..Len(list) : list[m] \in Ids \ {i}
    BY DEF CountInv, Waiting
  <2>2. \A j \in Jobs : Holding(j)'
    <3>1. ASSUME NEW j \in Jobs
          PROVE  Holding(j)'
      <4>1. Holding(j) /\ ToSet(replay[j].held) \subseteq Ids \ {i}
        BY HeldAre DEF CountInv, Waiting
      <4>2. \A x \in ToSet(replay[j].held) : push'[x] = push[x]
        BY <1>1, <4>1
      <4>3. QED
        BY <4>1, <4>2 DEF Holding
    <3>2. QED
      BY <3>1
  <2>3. \A m \in 1..Len(list) : push'[list[m]] = push[list[m]]
    BY <1>1, <2>1
  <2>4. QED
    BY <2>2, <2>3 DEF CountInv, Waiting
<1>3. QED
  BY <1>1, <1>2 DEF CountInv

LEMMA StartShape ==
  ASSUME CountInv, NEW m, NEW by
  PROVE  Shaped(Start(m, by)) /\ Start(m, by).at \in {"batch", "scan", "done"}
<1>1. getNormalizedTimestamp \in Int
  BY V1Assumption DEF getNormalizedTimestamp, CountInv, PushTypes
<1>2. QED
  BY <1>1 DEF Start, AfterCounting, Shaped, PushFields, Stages, InFlight

LEMMA PushSteps ==
  ASSUME CountInv, NEW i \in Ids
  PROVE  /\ \A m : pushMetric(i, m) => CountInv'
         /\ BatchDone(i) \/ CommandFailed(i) \/ BatchFailed(i) => CountInv'
         /\ StoreSnapshots(i) \/ ScanKeys(i) \/ ExpireKeys(i) => CountInv'
<1>0. /\ Shaped(push[i]) /\ DOMAIN push = Ids /\ push[i].time \in Int /\ log \in [Ids -> Seq(Int)]
  BY DEF CountInv, PushTypes, Shaped
<1>1. ASSUME NEW m, pushMetric(i, m)
      PROVE  CountInv'
  <2>1. Takes(i, Start(m, "client"))
    BY <1>0, <1>1, StartShape DEF pushMetric, Takes, redis, Uncounted
  <2>2. QED
    BY <1>1, <2>1, TakesKeeps DEF pushMetric, local
<1>2. ASSUME NEW lost, Count(i, lost), push[i].at = "batch",
             (lost = {} /\ doubts' = doubts) \/ doubts' = doubts \cup {i}
      PROVE  CountInv'
  <2> DEFINE a == IF lost # {} THEN "failed"
                  ELSE IF lost = {} /\ ReadsReplies(push[i].metric)
                       THEN "snapshot" ELSE AfterCounting(push[i].metric)
  <2>1. PICK g : push' = [push EXCEPT ![i].at = a, ![i].got = g]
    BY <1>2 DEF Count
  <2>2. log' = [log EXCEPT ![i] = Append(@, push[i].time)] /\ UNCHANGED <<now, list, replay>>
    BY <1>2 DEF Count, local
  <2>3. a \in Stages /\ (lost = {} => a \notin Uncounted)
    BY DEF AfterCounting, Stages, InFlight, Uncounted
  <2> HIDE DEF a
  <2> DEFINE r == [[push[i] EXCEPT !.at = a] EXCEPT !.got = g]
  <2>4. /\ DOMAIN push' = Ids /\ push'[i] = r /\ \A j \in Ids \ {i} : push'[j] = push[j]
    BY <1>0, <2>1
  <2>5. Shaped(r) /\ r.at = a
    BY <1>0, <2>3 DEF Shaped, PushFields
  <2> HIDE DEF r
  <2>6. Takes(i, r)
    BY <1>0, <1>2, <2>2, <2>3, <2>4, <2>5 DEF Takes, Uncounted
  <2>7. QED
    BY <1>2, <2>2, <2>6, TakesKeeps
<1>3. ASSUME BatchFailed(i)
      PROVE  CountInv'
  <2> DEFINE r == [push[i] EXCEPT !.at = "failed"]
  <2>1. /\ DOMAIN push' = Ids /\ push'[i] = r /\ \A j \in Ids \ {i} : push'[j] = push[j]
    BY <1>0, <1>3 DEF BatchFailed, Goes
  <2>2. Shaped(r) /\ r.at = "failed"
    BY <1>0 DEF Shaped, PushFields, Stages, InFlight
  <2> HIDE DEF r
  <2>3. Takes(i, r)
    BY <1>0, <1>3, <2>1, <2>2 DEF BatchFailed, Takes, Uncounted
  <2>4. QED
    BY <1>3, <2>3, TakesKeeps DEF BatchFailed, local
<1>4. ASSUME StoreSnapshots(i) \/ ScanKeys(i) \/ ExpireKeys(i)
      PROVE  CountInv'
  <2>0. PICK a \in {"done", "expire"} :
               \E g : push' = [push EXCEPT ![i].at = a, ![i].got = g]
    BY <1>4 DEF StoreSnapshots, ScanKeys, ExpireKeys
  <2>1. PICK g : push' = [push EXCEPT ![i].at = a, ![i].got = g]
    BY <2>0
  <2> DEFINE r == [[push[i] EXCEPT !.at = a] EXCEPT !.got = g]
  <2>2. /\ DOMAIN push' = Ids /\ push'[i] = r /\ \A j \in Ids \ {i} : push'[j] = push[j]
    BY <1>0, <2>1
  <2>3. Shaped(r) /\ r.at = a
    BY <1>0 DEF Shaped, PushFields, Stages, InFlight
  <2> HIDE DEF r
  <2>4. /\ push[i].at # "cached"
        /\ UNCHANGED <<list, replay, log, now, doubts>>
    BY <1>4 DEF StoreSnapshots, ScanKeys, ExpireKeys, redis, local, history
  <2>5. Takes(i, r)
    BY <2>2, <2>3, <2>4 DEF Takes, Uncounted
  <2>6. QED
    BY <2>4, <2>5, TakesKeeps
<1>5. BatchDone(i) => CountInv'
  BY <1>2 DEF BatchDone, history
<1>6. CommandFailed(i) => CountInv'
  BY <1>2 DEF CommandFailed
<1>7. QED
  BY <1>1, <1>3, <1>4, <1>5, <1>6

\* A push that failed joins the list.
LEMMA CacheStep ==
  ASSUME CountInv, NEW i \in Ids, PushLocalCache(i)
  PROVE  CountInv'
<1>0. /\ Shaped(push[i]) /\ DOMAIN push = Ids /\ list \in Seq(Ids)
  BY DEF CountInv, PushTypes, Shaped, Waiting
<1>1. PICK a \in {"cached", "lost"} : Goes(i, a) /\ list' = IF a = "cached" THEN <<i>> \o list ELSE list
  BY DEF PushLocalCache
<1> DEFINE r == [push[i] EXCEPT !.at = a]
<1>2. /\ DOMAIN push' = Ids /\ push'[i] = r /\ \A j \in Ids \ {i} : push'[j] = push[j]
  BY <1>0, <1>1 DEF Goes
<1>3. Shaped(r) /\ r.at = a
  BY <1>0 DEF Shaped, PushFields, Stages, InFlight
<1> HIDE DEF r
<1>4. push[i].at = "failed" /\ UNCHANGED <<replay, log, now, doubts>>
  BY DEF PushLocalCache, redis
<1>5. Takes(i, r)
  BY <1>2, <1>3, <1>4 DEF Takes, Uncounted
<1>6. CASE a = "lost"
  BY <1>1, <1>4, <1>5, <1>6, TakesKeeps
<1>7. CASE a = "cached"
  <2>1. PushTypes' /\ Once'
    BY <1>5, TakesFurther
  <2>2. /\ list' \in Seq(Ids) /\ Len(list') = Len(list) + 1 /\ list'[1] = i
        /\ \A m \in 1..Len(list) : list'[m + 1] = list[m]
    BY <1>0, <1>1, <1>7
  <2>3. /\ \A m \in 1..Len(list) : list[m] \in Ids \ {i}
        /\ \A j \in Jobs : ToSet(replay[j].held) \subseteq Ids \ {i}
    BY <1>4, HeldAre DEF CountInv, Waiting
  <2>4. \A m \in 1..Len(list') : m = 1 \/ (m - 1 \in 1..Len(list) /\ list'[m] = list[m - 1])
    BY <2>2
  <2>5. Waiting'
    <3>1. \A m, n \in 1..Len(list') : list'[m] = list'[n] => m = n
      <4>1. ASSUME NEW m \in 1..Len(list'), NEW n \in 1..Len(list'), list'[m] = list'[n]
            PROVE  m = n
        <5>1. CASE m = 1 \/ n = 1
          BY <2>2, <2>3, <2>4, <4>1, <5>1
        <5>2. CASE m # 1 /\ n # 1
          <6>1. \A x, y \in 1..Len(list) : list[x] = list[y] => x = y
            BY DEF CountInv, Waiting
          <6>2. m - 1 \in 1..Len(list) /\ n - 1 \in 1..Len(list) /\ list[m - 1] = list[n - 1]
            BY <2>4, <4>1, <5>2
          <6>3. m - 1 = n - 1
            BY <6>1, <6>2
          <6>4. QED
            BY <6>3
        <5>3. QED
          BY <5>1, <5>2
      <4>2. QED
        BY <4>1
    <3>2. ASSUME NEW m \in 1..Len(list')
          PROVE  /\ push'[list'[m]].at = "cached"
                 /\ \A j \in Jobs : list'[m] \notin ToSet(replay[j].held)
      <4>1. CASE m = 1
        BY <1>2, <1>3, <1>7, <2>2, <2>3, <4>1
      <4>2. CASE m # 1
        <5>1. m - 1 \in 1..Len(list) /\ list'[m] = list[m - 1]
          BY <2>4, <4>2
        <5>2. push[list[m - 1]].at = "cached" /\ push'[list[m - 1]] = push[list[m - 1]]
          BY <1>2, <2>3, <5>1 DEF CountInv, Waiting
        <5>3. \A j \in Jobs : list[m - 1] \notin ToSet(replay[j].held)
          BY <5>1 DEF CountInv, Waiting, Holding
        <5>4. QED
          BY <5>1, <5>2, <5>3
      <4>3. QED
        BY <4>1, <4>2
    <3>3. \A j \in Jobs : Holding(j)'
      <4>1. ASSUME NEW j \in Jobs
            PROVE  Holding(j)'
        <5>1. Holding(j) /\ \A x \in ToSet(replay[j].held) : push'[x] = push[x]
          BY <1>2, <2>3 DEF CountInv, Waiting
        <5>2. \A x \in ToSet(replay[j].held) : \A n \in 1..Len(list') : list'[n] # x
          BY <3>2
        <5>3. QED
          BY <1>4, <5>1, <5>2 DEF Holding
      <4>2. QED
        BY <4>1
    <3>4. \A m \in 1..Len(list') : push'[list'[m]].at = "cached"
      BY <3>2
    <3>5. QED
      BY <1>4, <2>2, <3>1, <3>3, <3>4 DEF CountInv, Waiting
  <2>6. QED
    BY <2>1, <2>5 DEF CountInv
<1>8. QED
  BY <1>6, <1>7

\* A job moves the end of the list to what it holds.
LEMMA PopStep ==
  ASSUME CountInv, NEW j \in Jobs, GetCachedMetrics(j)
  PROVE  CountInv'
<1>0. list \in Seq(Ids) /\ Len(list) \in Nat /\ DOMAIN replay = Jobs
  BY DEF CountInv, Waiting
<1> DEFINE k == Len(list) - Taken
           tail == SubSeq(list, k + 1, Len(list))
<1>1. k \in 0..Len(list)
  BY <1>0, V1Assumption DEF Taken
<1>2. /\ list' = SubSeq(list, 1, k) /\ replay'[j].held = Reverse(tail)
      /\ DOMAIN replay' = Jobs /\ \A i \in Jobs \ {j} : replay'[i] = replay[i]
  BY <1>0 DEF GetCachedMetrics, Left, ReplayTo
<1> HIDE DEF k
<1>3. /\ SubSeq(list, 1, k) \in Seq(Ids) /\ Len(SubSeq(list, 1, k)) = k
      /\ \A n \in 1..k : SubSeq(list, 1, k)[n] = list[n]
  BY <1>0, <1>1, SubSeqProperties
<1>4. /\ tail \in Seq(Ids) /\ Len(tail) = Len(list) - k
      /\ \A n \in 1..(Len(list) - k) : tail[n] = list[k + n]
  BY <1>0, <1>1, SubSeqProperties
<1> HIDE DEF tail
<1>5. PICK h : h = replay'[j].held
  OBVIOUS
<1>6. /\ h \in Seq(Ids) /\ Len(h) = Len(list) - k
      /\ \A n \in 1..(Len(list) - k) : h[n] = list[Len(list) - n + 1]
  <2>1. h = [n \in 1..(Len(list) - k) |-> tail[(Len(list) - k) - n + 1]]
    BY <1>2, <1>4, <1>5 DEF Reverse
  <2>2. \A n \in 1..(Len(list) - k) :
          (Len(list) - k) - n + 1 \in 1..(Len(list) - k) /\ k + ((Len(list) - k) - n + 1) = Len(list) - n + 1
    BY <1>0, <1>1
  <2>3. \A n \in 1..(Len(list) - k) : h[n] = list[Len(list) - n + 1]
    BY <1>4, <2>1, <2>2
  <2>4. \A n \in 1..(Len(list) - k) : Len(list) - n + 1 \in 1..Len(list)
    BY <1>0, <1>1
  <2>5. Len(list) - k \in Nat /\ \A n \in 1..(Len(list) - k) : list[Len(list) - n + 1] \in Ids
    BY <1>0, <1>1, <2>4
  <2>6. h = [n \in 1..(Len(list) - k) |-> list[Len(list) - n + 1]]
    BY <2>1, <2>3
  <2>7. h \in Seq(Ids) /\ Len(h) = Len(list) - k
    BY <2>5, <2>6
  <2>8. QED
    BY <2>3, <2>7
<1>7. UNCHANGED <<push, log, now, doubts>>
  BY DEF GetCachedMetrics, redis, history
<1>8. Waiting'
  <2>1. \A i \in ToSet(h) : \E n \in (k + 1)..Len(list) : i = list[n]
    <3>1. ASSUME NEW i \in ToSet(h)
          PROVE  \E n \in (k + 1)..Len(list) : i = list[n]
      <4>1. PICK n \in 1..(Len(list) - k) : i = h[n]
        BY <1>6 DEF ToSet
      <4>2. Len(list) - n + 1 \in (k + 1)..Len(list) /\ i = list[Len(list) - n + 1]
        BY <1>0, <1>1, <1>6, <4>1
      <4>3. QED
        BY <4>2
    <3>2. QED
      BY <3>1
  <2>2. /\ list' \in Seq(Ids) /\ Len(list') = k /\ \A n \in 1..k : list'[n] = list[n]
        /\ 1..k \subseteq 1..Len(list) /\ (k + 1)..Len(list) \subseteq 1..Len(list)
    BY <1>0, <1>1, <1>2, <1>3
  <2>3. /\ \A m, n \in 1..Len(list') : list'[m] = list'[n] => m = n
        /\ \A m \in 1..Len(list') : push[list'[m]].at = "cached"
    BY <2>2 DEF CountInv, Waiting
  <2>4. Holding(j)'
    <3>1. ASSUME NEW i \in ToSet(h)
          PROVE  /\ push[i].at = "cached"
                 /\ \A n \in 1..Len(list') : list'[n] # i
                 /\ \A x \in Jobs \ {j} : i \notin ToSet(replay[x].held)
      <4>1. PICK n \in (k + 1)..Len(list) : i = list[n]
        BY <2>1
      <4>2. push[i].at = "cached"
        BY <2>2, <4>1 DEF CountInv, Waiting
      <4>3. ASSUME NEW m \in 1..Len(list'), list'[m] = i
            PROVE  FALSE
        <5>1. m \in 1..k /\ list[m] = list[n]
          BY <2>2, <4>1, <4>3
        <5>2. m = n
          BY <2>2, <5>1 DEF CountInv, Waiting
        <5>3. QED
          BY <1>0, <1>1, <5>1, <5>2
      <4>4. \A x \in Jobs : Holding(x)
        BY DEF CountInv, Waiting
      <4>5. \A x \in Jobs : i \notin ToSet(replay[x].held)
        BY <2>2, <4>1, <4>4 DEF Holding
      <4>6. QED
        BY <4>2, <4>3, <4>5
    <3>2. QED
      BY <1>2, <1>5, <1>6, <1>7, <3>1 DEF Holding
  <2>5. ASSUME NEW x \in Jobs \ {j}
        PROVE  Holding(x)'
    <3>1. Holding(x) /\ replay'[x] = replay[x]
      BY <1>2 DEF CountInv, Waiting
    <3>2. ASSUME NEW i \in ToSet(replay[x].held)
          PROVE  \A n \in 1..Len(list') : list'[n] # i
      BY <2>2, <3>1 DEF Holding
    <3>3. ASSUME NEW i \in ToSet(replay[x].held), NEW y \in Jobs \ {x}
          PROVE  i \notin ToSet(replay'[y].held)
      <4>1. CASE y = j
        <5>1. \A n \in 1..Len(list) : list[n] # i
          BY <3>1 DEF Holding
        <5>2. i \notin ToSet(h)
          BY <2>1, <2>2, <5>1
        <5>3. QED
          BY <1>5, <4>1, <5>2
      <4>2. CASE y # j
        BY <1>2, <3>1, <4>2 DEF Holding
      <4>3. QED
        BY <4>1, <4>2
    <3>4. QED
      BY <1>7, <3>1, <3>2, <3>3 DEF Holding
  <2>6. QED
    BY <1>2, <1>7, <2>2, <2>3, <2>4, <2>5 DEF Waiting
<1>9. QED
  BY <1>7, <1>8 DEF CountInv, PushTypes, Once

\* The jobs that let go of what they hold, if any, and whose pushes they are.
Released(J) ==
  /\ DOMAIN replay' = Jobs
  /\ \A k \in J : replay'[k].held = <<>>
  /\ \A k \in Jobs \ J : replay'[k].held = replay[k].held

HeldBy(J) == UNION {ToSet(replay[k].held) : k \in J}

LEMMA ReleasedStep ==
  ASSUME CountInv, NEW J \in SUBSET Jobs, Released(J),
         UNCHANGED <<list, log, doubts>>, now' \in Nat, DOMAIN push' = Ids,
         \A i \in Ids :
           /\ Shaped(push'[i])
           /\ \/ push'[i] = push[i] \/ i \in HeldBy(J)
              \/ push[i].at \in InFlight
           /\ push'[i].at \in Uncounted => push[i].at \in Uncounted
  PROVE  CountInv'
<1>1. list \in Seq(Ids) /\ \A k \in Jobs : Holding(k)
  BY DEF CountInv, Waiting
<1>2. \A i \in HeldBy(J) : \A m \in 1..Len(list) : list[m] # i
  BY <1>1 DEF HeldBy, Holding
<1>3. \A m \in 1..Len(list) : push'[list[m]] = push[list[m]]
  <2>1. \A m \in 1..Len(list) : list[m] \in Ids /\ push[list[m]].at = "cached"
    BY DEF CountInv, Waiting
  <2>2. QED
    BY <1>2, <2>1 DEF InFlight
<1>4. ASSUME NEW k \in Jobs
      PROVE  Holding(k)'
  <2>1. CASE k \in J
    <3>1. replay'[k].held = <<>>
      BY <2>1 DEF Released
    <3>2. replay'[k].held \in Seq(Ids) /\ ToSet(replay'[k].held) = {}
      BY <3>1 DEF ToSet
    <3>3. QED
      BY <3>2 DEF Holding
  <2>2. CASE k \notin J
    <3>1. replay'[k].held = replay[k].held
      BY <2>2 DEF Released
    <3>2. ASSUME NEW i \in ToSet(replay[k].held)
          PROVE  push'[i] = push[i]
      <4>1. i \in Ids /\ push[i].at = "cached"
        BY HeldAre
      <4>2. i \notin HeldBy(J)
        BY <1>1, <2>2 DEF HeldBy, Holding
      <4>3. QED
        BY <4>1, <4>2 DEF InFlight
    <3>3. ASSUME NEW i \in ToSet(replay[k].held), NEW y \in Jobs \ {k}
          PROVE  i \notin ToSet(replay'[y].held)
      <4>1. i \notin ToSet(replay[y].held)
        BY <1>1 DEF Holding
      <4>2. replay'[y].held = <<>> \/ replay'[y].held = replay[y].held
        BY DEF Released
      <4>3. ToSet(<<>>) = {}
        BY DEF ToSet
      <4>4. QED
        BY <4>1, <4>2, <4>3
    <3>4. QED
      BY <1>1, <3>1, <3>2, <3>3 DEF Holding
  <2>3. QED
    BY <2>1, <2>2
<1>5. Waiting'
  BY <1>1, <1>3, <1>4 DEF CountInv, Waiting, Released
<1>6. QED
  BY <1>5 DEF CountInv, PushTypes, Once

LEMMA Releases ==
  ASSUME CountInv
  PROVE  /\ \A j \in Jobs : PushCachedMetrics(j) \/ PopFailed(j) => Released({j})
         /\ Crash => Released(Jobs)
<1>1. DOMAIN replay = Jobs
  BY DEF CountInv, Waiting
<1>2. ASSUME NEW j \in Jobs, PushCachedMetrics(j) \/ PopFailed(j)
      PROVE  Released({j})
  <2>1. \/ replay' = [replay EXCEPT ![j] = NoReplay]
        \/ replay' = [replay EXCEPT ![j] = [at |-> "pop", rounds |-> replay[j].rounds, held |-> <<>>]]
    BY <1>2 DEF PushCachedMetrics, PopFailed, ReplayTo, RemoveLock
  <2>2. QED
    BY <1>1, <2>1 DEF Released, NoReplay
<1>3. Crash => Released(Jobs)
  BY DEF Crash, Released, NoReplay
<1>4. QED
  BY <1>2, <1>3

\* Pushes that are lost, or that a job starts again, are not in the list.
LEMMA HeldSteps ==
  ASSUME CountInv
  PROVE  /\ \A j \in Jobs : PushCachedMetrics(j) \/ PopFailed(j) => CountInv'
         /\ Crash => CountInv'
<1>0. /\ DOMAIN push = Ids /\ \A i \in Ids : Shaped(push[i])
      /\ \A j \in Jobs : \A i \in ToSet(replay[j].held) : push[i].at = "cached"
      /\ now \in Nat /\ \A j \in Jobs : HeldBy({j}) = ToSet(replay[j].held)
  BY HeldAre DEF CountInv, PushTypes, HeldBy
<1>1. \A i \in Ids : LET o == [push[i] EXCEPT !.at = "lost"] IN Shaped(o) /\ o.at = "lost"
  BY <1>0 DEF Shaped, PushFields, Stages
<1>2. ASSUME NEW j \in Jobs, PushCachedMetrics(j)
      PROVE  CountInv'
  <2>1. UNCHANGED <<list, log, now, doubts>> /\ Released({j})
    BY <1>2, Releases DEF PushCachedMetrics, redis
  <2>2. DOMAIN push' = Ids /\ \A i \in Ids :
          /\ Shaped(push'[i])
          /\ push'[i] = push[i] \/ i \in ToSet(replay[j].held)
          /\ push'[i].at \in Uncounted => push[i].at \in Uncounted
    BY <1>0, <1>2, StartShape DEF PushCachedMetrics, Uncounted
  <2>3. QED
    BY <1>0, <2>1, <2>2, ReleasedStep
<1>3. ASSUME NEW j \in Jobs, PopFailed(j)
      PROVE  CountInv'
  <2>1. UNCHANGED <<list, log, now, doubts>> /\ Released({j})
    BY <1>3, Releases DEF PopFailed, redis
  <2>2. DOMAIN push' = Ids /\ \A i \in Ids :
          /\ Shaped(push'[i])
          /\ push'[i] = push[i] \/ i \in ToSet(replay[j].held)
          /\ push'[i].at \in Uncounted => push[i].at \in Uncounted
    BY <1>0, <1>1, <1>3 DEF PopFailed, Lose, Uncounted
  <2>3. QED
    BY <1>0, <2>1, <2>2, ReleasedStep
<1>4. ASSUME Crash
      PROVE  CountInv'
  <2>1. UNCHANGED <<list, log, now, doubts>> /\ Released(Jobs)
    BY <1>4, Releases DEF Crash, redis
  <2> DEFINE pushing == {i \in Ids : push[i].by = "replay" /\ push[i].at \in InFlight}
  <2>2. Lose(HeldBy(Jobs) \cup pushing)
    BY <1>4 DEF Crash, HeldBy
  <2>3. DOMAIN push' = Ids /\ \A i \in Ids :
          /\ Shaped(push'[i])
          /\ push'[i] = push[i] \/ i \in HeldBy(Jobs) \/ push[i].at \in InFlight
          /\ push'[i].at \in Uncounted => push[i].at \in Uncounted
    BY <1>0, <1>1, <2>2 DEF Lose, Uncounted
  <2>4. QED
    BY <1>0, <2>1, <2>3, ReleasedStep
<1>5. QED
  BY <1>2, <1>3, <1>4

LEMMA CountNext ==
  ASSUME CountInv, [V1Next]_allvars
  PROVE  CountInv'
<1>1. ASSUME UNCHANGED <<push, log, doubts, list>>, NEW J \in SUBSET Jobs, Released(J),
             now' = now \/ now' = now + Period
      PROVE  CountInv'
  <2>1. now' \in Nat
    BY <1>1, V1Assumption DEF CountInv, PushTypes
  <2>2. DOMAIN push' = Ids /\ \A i \in Ids : Shaped(push'[i]) /\ push'[i] = push[i]
    BY <1>1 DEF CountInv, PushTypes
  <2>3. QED
    BY <1>1, <2>1, <2>2, ReleasedStep
<1>2. ASSUME NEW j \in Jobs, ReplayJob(j) \/ CheckLocalCache(j)
      PROVE  CountInv'
  <2>1. \/ replay' = [replay EXCEPT ![j] = NoReplay]
        \/ replay' = [replay EXCEPT ![j] = [at |-> "check", rounds |-> 0, held |-> <<>>]]
        \/ replay' = [replay EXCEPT ![j] = [at |-> "pop", rounds |-> Rounds(Len(list)), held |-> <<>>]]
    BY <1>2 DEF ReplayJob, CheckLocalCache, ReplayTo, RemoveLock
  <2>2. Released({j})
    BY <2>1 DEF Released, CountInv, Waiting, NoReplay
  <2>3. UNCHANGED <<push, log, doubts, list, now>>
    BY <1>2 DEF ReplayJob, CheckLocalCache, redis, history
  <2>4. QED
    BY <1>1, <2>2, <2>3
<1>3. ASSUME UNCHANGED <<push, log, doubts, list, replay>>, now' = now \/ now' = now + Period
      PROVE  CountInv'
  <2>1. Released({})
    BY <1>3 DEF Released, CountInv, Waiting
  <2>2. QED
    BY <1>1, <1>3, <2>1
<1>4. ASSUME KeysExpire \/ LockExpires \/ Tick
      PROVE  CountInv'
  BY <1>3, <1>4 DEF KeysExpire, LockExpires, Tick, redis, local, history
<1>5. ASSUME UNCHANGED <<push, log, local, now, doubts>>
      PROVE  CountInv'
  BY <1>3, <1>5 DEF local
<1>6. Working \/ Failing => CountInv'
  BY <1>5 DEF Working, Failing, ScheduleJob, ReindexLockExpires, ListBuckets, ListBucket, CountUploads,
     UpdateBuckets, ClearBuckets, UpdateAccounts, ClearAccounts, StageTo, Execute, FinishJob,
     SentinelDown, ScriptFails, ReindexCrash, ListingFailed, OddStatus, ScriptFault, RedisUnchanged,
     v1vars, redis, history
<1>7. UNCHANGED allvars => CountInv'
  BY <1>5 DEF allvars, v1vars, redis, history
<1>8. \A i \in Ids : Proceed(i) => CountInv'
  BY PushSteps, CacheStep DEF Proceed
<1>9. Serving => CountInv'
  BY <1>8, PushSteps DEF Serving, PutVersion, DeleteVersion
<1>10. ClientNext => CountInv'
  BY <1>2, <1>4, <1>8, PushSteps, PopStep, HeldSteps DEF ClientNext, Replaying
<1>11. QED
  BY <1>6, <1>7, <1>9, <1>10 DEF V1Next, ReindexNext

LEMMA CountInit == Init => CountInv
<1> SUFFICES ASSUME Init
             PROVE  CountInv
  OBVIOUS
<1>1. Shaped(NewPush)
  BY DEF NewPush, Shaped, PushFields, Stages
<1>2. PushTypes /\ Once
  BY <1>1 DEF Init, PushTypes, Once, NewPush, Uncounted
<1>3. Waiting
  <2>1. list = <<>> /\ DOMAIN replay = Jobs /\ \A j \in Jobs : replay[j].held = <<>>
    BY DEF Init, NoReplay
  <2>2. ToSet(<<>>) = {} /\ <<>> \in Seq(Ids)
    <3>1. ToSet(<<>>) = {}
      BY DEF ToSet
    <3>2. <<>> \in Seq(Ids)
      OBVIOUS
    <3>3. QED
      BY <3>1, <3>2
  <2>3. list \in Seq(Ids) /\ Len(list) = 0
    BY <2>1
  <2>4. \A j \in Jobs : replay[j].held \in Seq(Ids) /\ ToSet(replay[j].held) = {}
    <3>1. TAKE j \in Jobs
    <3>2. replay[j].held = <<>>
      BY <2>1
    <3>3. QED
      BY <2>2, <3>2, Zenon
  <2>5. \A j \in Jobs : Holding(j)
    BY <2>4 DEF Holding
  <2>6. QED
    BY <2>1, <2>3, <2>5 DEF Waiting
<1>4. QED
  BY <1>2, <1>3 DEF CountInv

\* However pushes, replays, lost answers and crashes interleave, a metric is
\* counted twice only if Redis counted it and the client was told it failed.
THEOREM CountedOnceCorrect == V1Spec => []CountedOnce
<1>1. CountInv /\ [V1Next]_allvars => CountInv'
  BY CountNext
<1>2. CountInv => CountedOnce
  <2>1. SUFFICES ASSUME CountInv, NEW i \in Ids, Len(log[i]) > 1, i \notin doubts
                 PROVE  FALSE
    BY DEF CountedOnce
  <2>2. Len(log[i]) =< 1 /\ Len(log[i]) \in Nat
    BY <2>1 DEF CountInv, PushTypes, Once
  <2>3. QED
    BY <2>1, <2>2
<1>3. QED
  BY CountInit, <1>1, <1>2, PTL DEF V1Spec, V1Next
-----------------------------------------------------------------------------
(***************************************************************************)
(* The reindex.  While it has commands for Redis it lists no bucket any    *)
(* more, so those that failed are known when it makes them.                *)
(***************************************************************************)
Early == {"idle", "connect", "count"}
Late == {"buckets", "stale", "accounts", "end"}
WorkerFields == {"at", "marker", "page", "count", "size"}

Sets == Counters \cup StateKeys

\* The commands that wait are about counters and snapshots, and of other resources
\* than those in R.
Spared(R) == \E C : pipeline \in Seq(C) /\ \A x \in C : x.key[1] \notin R /\ x.key[2] \in Sets

JobInv ==
  /\ DOMAIN worker = Buckets /\ \A b \in Buckets : DOMAIN worker[b] = WorkerFields
  /\ failed = {b \in Buckets : worker[b].at = "failed"}
  /\ DOMAIN job = {"at", "left"} /\ job.at \in Early \cup Late
  /\ job.at \in Early => pipeline = <<>>
  /\ job.at \in {"idle", "connect"} => \A b \in Buckets : worker[b].at = "none"
  /\ job.at \in Late => \A b \in Buckets : worker[b].at \in {"none", "counted", "failed"}
  /\ Spared(failed \cup FailedAccounts)

\* The commands of a report are those of its resources.
Among(total, x) == \E r \in DOMAIN total, m \in 1..6 : x = UpdateRedis(r, total[r][1], total[r][2])[m]

LEMMA UpdatesAre ==
  ASSUME NEW total, IsFiniteSet(DOMAIN total)
  PROVE  \E C : Updates(total) \in Seq(C) /\ \A x \in C : Among(total, x)
<1> DEFINE D == DOMAIN total
           S == SetToSeq(D)
           U(r) == UpdateRedis(r, total[r][1], total[r][2])
           C == UNION {{U(r)[m] : m \in 1..6} : r \in D}
           s == [n \in DOMAIN S |-> U(S[n])]
<1>1. S \in [1..Cardinality(D) -> D] /\ Cardinality(D) \in Nat
  BY SetToSeqType
<1>2. \A r \in D : U(r) \in Seq(C)
  <2>1. SUFFICES ASSUME NEW r \in D
                 PROVE  U(r) \in Seq(C)
    OBVIOUS
  <2>2. \A m \in 1..6 : U(r)[m] \in C
    OBVIOUS
  <2> HIDE DEF C
  <2>3. PICK a, b, c, d, e, f : U(r) = <<a, b, c, d, e, f>>
    BY DEF UpdateRedis
  <2> HIDE DEF U
  <2>4. a \in C /\ b \in C /\ c \in C /\ d \in C /\ e \in C /\ f \in C
    BY <2>2, <2>3
  <2>5. <<a, b, c, d, e, f>> \in Seq(C)
    BY <2>4
  <2>6. QED
    BY <2>3, <2>5
<1>3. \A x \in C : Among(total, x)
  BY DEF Among
<1> HIDE DEF C, S
<1>4. s \in Seq(Seq(C))
  <2> HIDE DEF U
  <2>1. QED
    BY <1>1, <1>2
<1>5. Updates(total) = FlattenSeq(s)
  BY DEF Updates, S
<1> HIDE DEF s
<1>6. Updates(total) \in Seq(C)
  BY <1>4, <1>5, FlattenType
<1>7. QED
  BY <1>3, <1>6

LEMMA UpdatesAbout ==
  ASSUME NEW total, IsFiniteSet(DOMAIN total), NEW R, DOMAIN total \cap R = {}
  PROVE  \E C : Updates(total) \in Seq(C) /\ \A x \in C : x.key[1] \notin R /\ x.key[2] \in Sets
<1>1. PICK C : Updates(total) \in Seq(C) /\ \A x \in C : Among(total, x)
  BY UpdatesAre
<1>2. \A r, n, size : \A m \in 1..6 : /\ UpdateRedis(r, n, size)[m].key[1] = r
                                     /\ UpdateRedis(r, n, size)[m].key[2] \in Sets
  BY DEF UpdateRedis, Cmd, generateStateKey, generateCounter, Sets, Counters, StateKeys
<1>3. \A x \in C : x.key[1] \in DOMAIN total /\ x.key[2] \in Sets
  BY <1>1, <1>2 DEF Among
<1>4. QED
  BY <1>1, <1>3

\* A stage of the reports about the resources in the domain of total.
LEMMA StageStep ==
  ASSUME JobInv, NEW from, NEW stage \in Late, NEW total, StageTo(stage, from, Updates(total)),
         IsFiniteSet(DOMAIN total), DOMAIN total \cap (failed \cup FailedAccounts) = {},
         \A b \in Buckets : worker[b].at \in {"none", "counted", "failed"}
  PROVE  JobInv'
<1>1. pipeline' = Updates(total) /\ job' = [job EXCEPT !.at = stage] /\ UNCHANGED <<worker, failed>>
  BY DEF StageTo
<1>2. \E C : Updates(total) \in Seq(C) /\ \A x \in C : x.key[1] \notin failed \cup FailedAccounts /\ x.key[2] \in Sets
  BY UpdatesAbout
<1>3. Spared(failed \cup FailedAccounts)'
  BY <1>1, <1>2 DEF Spared, FailedAccounts
<1>4. DOMAIN job' = {"at", "left"} /\ job'.at = stage
  BY <1>1 DEF JobInv
<1>5. QED
  BY <1>1, <1>3, <1>4 DEF JobInv, Early, Late

LEMMA JobSteps ==
  ASSUME JobInv, UpdateBuckets \/ ClearBuckets \/ UpdateAccounts \/ ClearAccounts
  PROVE  JobInv'
<1>0. /\ FailedAccounts \cap Buckets = {} /\ failed \subseteq Buckets /\ Accounts \cap Buckets = {}
      /\ IsFiniteSet(Buckets) /\ IsFiniteSet(Accounts)
  <2> DEFINE o == [b \in Buckets |-> Owner[b]]
  <2>1. failed \subseteq Buckets
    BY DEF JobInv
  <2>2. FailedAccounts \cap Buckets = {} /\ Accounts \cap Buckets = {}
    BY <2>1, ReindexAssumption DEF FailedAccounts, Accounts
  <2>3. o \in Surjection(Buckets, Accounts)
    BY DEF Surjection, Accounts
  <2> HIDE DEF o
  <2>4. IsFiniteSet(Buckets) /\ IsFiniteSet(Accounts)
    BY <2>3, ReindexAssumption, FS_Surjection
  <2>5. QED
    BY <2>1, <2>2, <2>4
<1>1. \A A \in SUBSET Buckets : IsFiniteSet(A)
  BY <1>0, FS_Subset
<1>2. \A A \in SUBSET Accounts : IsFiniteSet(A)
  BY <1>0, FS_Subset
<1>3. CASE UpdateBuckets
  <2> DEFINE A == {x \in Buckets : worker[x].at = "counted"}
             total == [b \in A |-> <<worker[b].count, worker[b].size>>]
  <2>1. StageTo("buckets", "count", Updates(total))
    BY <1>3 DEF UpdateBuckets
  <2>2. DOMAIN total = A /\ A \in SUBSET Buckets /\ A \cap (failed \cup FailedAccounts) = {}
    BY <1>0 DEF JobInv
  <2>3. \A b \in Buckets : worker[b].at \in {"none", "counted", "failed"}
    BY <1>3 DEF UpdateBuckets
  <2> HIDE DEF total
  <2>4. QED
    BY <1>1, <2>1, <2>2, <2>3, StageStep DEF Late
<1>4. CASE ClearBuckets
  <2> DEFINE A == Recorded(Buckets) \ Observed
             total == [r \in A |-> <<0, 0>>]
  <2>1. StageTo("stale", "buckets", Updates(total)) /\ job.at = "buckets"
    BY <1>4 DEF ClearBuckets, ClearAll, StageTo
  <2>2. DOMAIN total = A /\ A \in SUBSET Buckets /\ A \cap (failed \cup FailedAccounts) = {}
    BY <1>0 DEF JobInv, Recorded, Observed
  <2>3. \A b \in Buckets : worker[b].at \in {"none", "counted", "failed"}
    BY <2>1 DEF JobInv, Late
  <2> HIDE DEF total
  <2>4. QED
    BY <1>1, <2>1, <2>2, <2>3, StageStep DEF Late
<1>5. CASE UpdateAccounts
  <2>1. PICK total : /\ StageTo("accounts", "stale", Updates(total)) /\ job.at = "stale"
                     /\ DOMAIN total = {x \in Accounts : Reported(x) # {}} \ FailedAccounts
    <3> DEFINE T == [a \in {x \in Accounts : Reported(x) # {}} \ FailedAccounts |->
                     << SumOver([b \in Buckets |-> worker[b].count], Reported(a)),
                        SumOver([b \in Buckets |-> worker[b].size], Reported(a)) >>]
    <3>1. StageTo("accounts", "stale", Updates(T)) /\ job.at = "stale"
      BY <1>5 DEF UpdateAccounts, StageTo
    <3>2. DOMAIN T = {x \in Accounts : Reported(x) # {}} \ FailedAccounts
      OBVIOUS
    <3> HIDE DEF T
    <3>3. QED
      BY <3>1, <3>2
  <2>2. DOMAIN total \in SUBSET Accounts /\ DOMAIN total \cap (failed \cup FailedAccounts) = {}
    BY <1>0, <2>1
  <2>3. \A b \in Buckets : worker[b].at \in {"none", "counted", "failed"}
    BY <2>1 DEF JobInv, Late
  <2>4. QED
    BY <1>2, <2>1, <2>2, <2>3, StageStep DEF Late
<1>6. CASE ClearAccounts
  <2> DEFINE A == StaleAccounts
             total == [r \in A |-> <<0, 0>>]
  <2>1. StageTo("end", "accounts", Updates(total)) /\ job.at = "accounts"
    BY <1>6 DEF ClearAccounts, ClearAll, StageTo
  <2>2. DOMAIN total = A /\ A \in SUBSET Accounts /\ A \cap (failed \cup FailedAccounts) = {}
    BY <1>0 DEF StaleAccounts, Recorded
  <2>3. \A b \in Buckets : worker[b].at \in {"none", "counted", "failed"}
    BY <2>1 DEF JobInv, Late
  <2> HIDE DEF total
  <2>4. QED
    BY <1>2, <2>1, <2>2, <2>3, StageStep DEF Late
<1>7. QED
  BY <1>3, <1>4, <1>5, <1>6

\* The listing of a bucket.
LEMMA ListingSteps ==
  ASSUME JobInv, NEW b \in Buckets,
         ListBucket(b) \/ CountUploads(b) \/ ListingFailed(b) \/ OddStatus(b)
  PROVE  JobInv'
<1>1. worker[b].at \in {"list", "uploads"} /\ DOMAIN worker = Buckets /\ DOMAIN worker[b] = WorkerFields
  BY DEF JobInv, ListBucket, CountUploads, ListingFailed, OddStatus
<1>2. job.at \in Early \ {"idle", "connect"} /\ pipeline = <<>>
  BY <1>1 DEF JobInv, Late
<1>3. PICK r : /\ DOMAIN worker' = Buckets /\ worker'[b] = r /\ DOMAIN r = WorkerFields
               /\ \A x \in Buckets \ {b} : worker'[x] = worker[x]
               /\ failed' = IF r.at = "failed" THEN failed \cup {b} ELSE failed
  <2>1. CASE ListBucket(b)
    <3> DEFINE r == Summed(b, Page(b, worker[b].marker))
    <3>1. DOMAIN r = WorkerFields /\ r.at \in {"list", "uploads"}
      BY <1>1 DEF Summed, WorkerFields
    <3>2. worker' = [worker EXCEPT ![b] = r] /\ failed' = failed
      BY <2>1 DEF ListBucket
    <3> HIDE DEF r
    <3>3. QED
      BY <1>1, <3>1, <3>2
  <2>2. CASE CountUploads(b)
    <3> DEFINE r == [[worker[b] EXCEPT !.size = @ + Uploads[b]] EXCEPT !.at = "counted"]
    <3>1. DOMAIN r = WorkerFields /\ r.at = "counted"
      BY <1>1 DEF WorkerFields
    <3>2. /\ DOMAIN worker' = Buckets /\ worker'[b] = r /\ failed' = failed
          /\ \A x \in Buckets \ {b} : worker'[x] = worker[x]
      BY <1>1, <2>2 DEF CountUploads
    <3> HIDE DEF r
    <3>3. QED
      BY <3>1, <3>2
  <2>3. CASE ListingFailed(b)
    <3> DEFINE r == [NoWorker EXCEPT !.at = "failed"]
    <3>1. DOMAIN r = WorkerFields /\ r.at = "failed"
      BY DEF WorkerFields, NoWorker
    <3>2. worker' = [worker EXCEPT ![b] = r] /\ failed' = failed \cup {b}
      BY <2>3 DEF ListingFailed, FailBucket
    <3> HIDE DEF r
    <3>3. QED
      BY <1>1, <3>1, <3>2
  <2>4. CASE OddStatus(b)
    <3> DEFINE n == Counts(b, worker[b].page, LastKey(worker[b]))
               r == [[worker[b] EXCEPT !.count = @ + n] EXCEPT !.size = @ + n]
    <3>1. /\ DOMAIN worker' = Buckets /\ worker'[b] = r /\ failed' = failed
          /\ \A x \in Buckets \ {b} : worker'[x] = worker[x]
      BY <1>1, <2>4 DEF OddStatus
    <3> HIDE DEF n
    <3>2. DOMAIN r = WorkerFields /\ r.at = worker[b].at
      BY <1>1 DEF WorkerFields
    <3> HIDE DEF r
    <3>3. QED
      BY <1>1, <3>1, <3>2
  <2>5. QED
    BY <2>1, <2>2, <2>3, <2>4
<1>4. UNCHANGED <<job, pipeline>>
  BY DEF ListBucket, CountUploads, ListingFailed, OddStatus
<1>5. failed' = {x \in Buckets : worker'[x].at = "failed"}
  BY <1>1, <1>3 DEF JobInv
<1>6. Spared(failed \cup FailedAccounts)'
  <2>1. pipeline' \in Seq({})
    BY <1>2, <1>4
  <2>2. QED
    BY <2>1 DEF Spared
<1>7. QED
  BY <1>2, <1>3, <1>4, <1>5, <1>6 DEF JobInv, Early, Late

LEMMA JobNext ==
  ASSUME JobInv, [V1Next]_allvars
  PROVE  JobInv'
<1>1. ASSUME UNCHANGED <<worker, failed, pipeline>>, DOMAIN job' = {"at", "left"},
             job.at \in {"idle", "connect"}, job'.at \in {"idle", "connect"}
      PROVE  JobInv'
  BY <1>1 DEF JobInv, Early, Late, Spared, FailedAccounts
<1>2. ASSUME ScheduleJob \/ SentinelDown \/ ScriptFails \/ ReindexLockExpires
      PROVE  JobInv'
  <2>1. /\ DOMAIN job' = {"at", "left"}
        /\ job.at \in {"idle", "connect"} /\ job'.at \in {"idle", "connect"}
    BY <1>2 DEF JobInv, ScheduleJob, SentinelDown, ScriptFails, ReindexLockExpires, JobEnds, Idle, Early
  <2>2. UNCHANGED <<worker, failed, pipeline>>
    BY <1>2 DEF ScheduleJob, SentinelDown, ScriptFails, ReindexLockExpires
  <2>3. QED
    BY <1>1, <2>1, <2>2
<1>3. ASSUME UNCHANGED <<job, worker, failed, pipeline>>
      PROVE  JobInv'
  BY <1>3 DEF JobInv, Spared, FailedAccounts
<1>4. ASSUME ReindexCrash \/ FinishJob
      PROVE  JobInv'
  <2>1. job' = Idle /\ worker' = [b \in Buckets |-> NoWorker] /\ failed' = {} /\ pipeline' = <<>>
    BY <1>4 DEF ReindexCrash, FinishJob, JobEnds
  <2>2. Spared(failed \cup FailedAccounts)'
    <3>1. pipeline' \in Seq({})
      BY <2>1
    <3>2. QED
      BY <3>1 DEF Spared
  <2>3. QED
    BY <2>1, <2>2 DEF JobInv, Idle, NoWorker, Early, Late, WorkerFields
<1>5. ASSUME ListBuckets
      PROVE  JobInv'
  <2>1. /\ job' = [at |-> "count", left |-> 0] /\ UNCHANGED <<failed, pipeline>>
        /\ worker' = [b \in Buckets |-> IF b \in exists THEN [NoWorker EXCEPT !.at = "list"]
                                                        ELSE NoWorker]
    BY <1>5 DEF ListBuckets
  <2>2. job.at = "connect" /\ pipeline' = <<>> /\ failed' = {}
    BY <1>5, <2>1 DEF JobInv, ListBuckets, Early
  <2>3. \A b \in Buckets : DOMAIN worker'[b] = WorkerFields /\ worker'[b].at \in {"none", "list"}
    BY <2>1 DEF NoWorker, WorkerFields
  <2>4. DOMAIN worker' = Buckets /\ DOMAIN job' = {"at", "left"} /\ job'.at = "count"
    BY <2>1
  <2>5. Spared(failed \cup FailedAccounts)'
    <3>1. pipeline' \in Seq({})
      BY <2>2
    <3>2. QED
      BY <3>1 DEF Spared
  <2>6. QED
    BY <2>2, <2>3, <2>4, <2>5 DEF JobInv, Early, Late
<1>6. ASSUME Execute
      PROVE  JobInv'
  <2>1. pipeline # <<>> /\ pipeline' = Tail(pipeline) /\ UNCHANGED <<job, worker, failed>>
    BY <1>6 DEF Execute
  <2>2. PICK C : pipeline \in Seq(C) /\ \A x \in C : x.key[1] \notin failed \cup FailedAccounts /\ x.key[2] \in Sets
    BY DEF JobInv, Spared
  <2>3. pipeline' \in Seq(C)
    BY <2>1, <2>2
  <2>4. Spared(failed \cup FailedAccounts)'
    BY <2>1, <2>2, <2>3 DEF Spared, FailedAccounts
  <2>5. QED
    BY <2>1, <2>4 DEF JobInv
<1>7. Working \/ Failing => JobInv'
  BY <1>2, <1>4, <1>5, <1>6, JobSteps, ListingSteps DEF Working, Failing
<1>8. ClientNext /\ UNCHANGED reindexing => JobInv'
  BY <1>3 DEF reindexing
<1>9. Serving => JobInv'
  BY <1>3 DEF Serving, PutVersion, DeleteVersion, script, reindexing
<1>10. QED
  BY <1>3, <1>7, <1>8, <1>9 DEF V1Next, ReindexNext, allvars, reindexing

LEMMA JobInit == ReindexInit => JobInv
<1> SUFFICES ASSUME ReindexInit
             PROVE  JobInv
  OBVIOUS
<1>1. Spared(failed \cup FailedAccounts)
  BY DEF ReindexInit, Spared
<1>2. QED
  BY <1>1 DEF ReindexInit, JobInv, Idle, NoWorker, Early, Late, WorkerFields

\* Whatever fails or dies, a job leaves the metrics of a bucket it could not
\* list, and of its account, as they are.
THEOREM FailedKeptCorrect == V1Spec => []FailedKept
<1>1. JobInv /\ [V1Next]_allvars => JobInv'
  BY JobNext
<1>2. JobInv => FailedKept
  <2>1. SUFFICES ASSUME JobInv, NEW n \in DOMAIN pipeline
                 PROVE  pipeline[n].key[1] \notin failed \cup FailedAccounts
    BY DEF FailedKept
  <2>2. PICK C : pipeline \in Seq(C) /\ \A x \in C : x.key[1] \notin failed \cup FailedAccounts /\ x.key[2] \in Sets
    BY <2>1 DEF JobInv, Spared
  <2>3. pipeline[n] \in C
    BY <2>1, <2>2
  <2>4. QED
    BY <2>2, <2>3
<1>3. QED
  BY JobInit, <1>1, <1>2, PTL DEF V1Spec, V1Next
-----------------------------------------------------------------------------
(***************************************************************************)
(* What a transaction does to a key: the recursive function of batch, and  *)
(* the commands that add to a key or leave it alone.                       *)
(***************************************************************************)

\* A transaction: the database before the first command and after each.
Ran(g, D, cmds) ==
  /\ DOMAIN g = 0..Len(cmds) /\ g[0] = D
  /\ \A n \in 1..Len(cmds) : g[n] = Effect(g[n - 1], cmds[n])

Runs(g, D, cmds) ==
  g = [n \in 0..Len(cmds) |->
         IF n = 0 THEN D
         ELSE CHOOSE d \in {Effect(e, cmds[n]) : e \in {g[n - 1]}} : TRUE]

LEMMA RunsRan ==
  ASSUME NEW C, NEW cmds \in Seq(C), NEW D, NEW g
  PROVE  Runs(g, D, cmds) <=> g = [n \in DOMAIN g |-> g[n]] /\ Ran(g, D, cmds)
<1>1. \A n : (CHOOSE d \in {Effect(e, cmds[n]) : e \in {g[n - 1]}} : TRUE) = Effect(g[n - 1], cmds[n])
  OBVIOUS
<1>2. Len(cmds) \in Nat
  OBVIOUS
<1> DEFINE h == [n \in 0..Len(cmds) |-> IF n = 0 THEN D ELSE Effect(g[n - 1], cmds[n])]
<1>3. Runs(g, D, cmds) <=> g = h
  BY <1>1 DEF Runs
<1>4. g = h <=> /\ g = [n \in DOMAIN g |-> g[n]] /\ DOMAIN g = 0..Len(cmds)
                /\ \A n \in 0..Len(cmds) : g[n] = h[n]
  BY <1>2
<1>5. (\A n \in 0..Len(cmds) : g[n] = h[n])
        <=> g[0] = D /\ \A n \in 1..Len(cmds) : g[n] = Effect(g[n - 1], cmds[n])
  BY <1>2
<1>6. QED
  BY <1>3, <1>4, <1>5 DEF Ran

LEMMA BatchIs ==
  ASSUME NEW C, NEW cmds \in Seq(C), NEW D
  PROVE  \E g : Ran(g, D, cmds) /\ batch(D, cmds) = g[Len(cmds)]
<1> DEFINE Upto(g, k) == /\ DOMAIN g = 0..k /\ g = [n \in DOMAIN g |-> g[n]] /\ g[0] = D
                         /\ \A n \in 1..k : g[n] = Effect(g[n - 1], cmds[n])
           N == {k \in Nat : \E g : Upto(g, k)}
<1>1. 0 \in N
  <2> DEFINE g == [n \in 0..0 |-> D]
  <2>1. Upto(g, 0)
    OBVIOUS
  <2>2. QED
    BY <2>1
<1>2. ASSUME NEW k \in Nat, k \in N
      PROVE  k + 1 \in N
  <2>1. PICK g : Upto(g, k)
    BY <1>2
  <2> DEFINE h == [n \in 0..(k + 1) |-> IF n =< k THEN g[n] ELSE Effect(g[k], cmds[k + 1])]
  <2>2. DOMAIN h = 0..(k + 1) /\ h = [n \in DOMAIN h |-> h[n]] /\ h[0] = D
    BY <2>1
  <2>3. ASSUME NEW n \in 1..(k + 1)
        PROVE  h[n] = Effect(h[n - 1], cmds[n])
    <3>1. n - 1 \in 0..k /\ h[n - 1] = g[n - 1]
      OBVIOUS
    <3>2. CASE n =< k
      BY <2>1, <3>1, <3>2
    <3>3. CASE n = k + 1
      BY <3>1, <3>3
    <3>4. QED
      BY <3>2, <3>3
  <2>4. Upto(h, k + 1)
    BY <2>2, <2>3
  <2> HIDE DEF h, Upto
  <2>5. QED
    BY <2>4
<1>3. \E g : Runs(g, D, cmds)
  <2> HIDE DEF N
  <2>1. Nat \subseteq N
    BY <1>1, <1>2, NatSetInduction
  <2>2. Len(cmds) \in N
    BY <2>1
  <2>3. PICK g : Upto(g, Len(cmds))
    BY <2>2 DEF N
  <2>4. Runs(g, D, cmds)
    BY <2>3, RunsRan DEF Ran
  <2>5. QED
    BY <2>4
<1> DEFINE r == CHOOSE g : Runs(g, D, cmds)
<1>4. Runs(r, D, cmds)
  BY <1>3
<1>5. batch(D, cmds) = r[Len(cmds)]
  BY DEF batch, Runs
<1> HIDE DEF r
<1>6. Ran(r, D, cmds)
  BY <1>4, RunsRan
<1>7. QED
  BY <1>5, <1>6

LEMMA BatchEmpty == \A D : batch(D, <<>>) = D
<1>1. SUFFICES ASSUME NEW D
               PROVE  batch(D, <<>>) = D
  OBVIOUS
<1>2. <<>> \in Seq({}) /\ Len(<<>>) = 0
  OBVIOUS
<1>3. PICK g : Ran(g, D, <<>>) /\ batch(D, <<>>) = g[0]
  BY <1>2, BatchIs
<1>4. QED
  BY <1>3 DEF Ran

LEMMA BatchOne == \A D, c : batch(D, <<c>>) = Effect(D, c)
<1>1. SUFFICES ASSUME NEW D, NEW c
               PROVE  batch(D, <<c>>) = Effect(D, c)
  OBVIOUS
<1>2. <<c>> \in Seq({c}) /\ Len(<<c>>) = 1 /\ <<c>>[1] = c
  OBVIOUS
<1>3. PICK g : Ran(g, D, <<c>>) /\ batch(D, <<c>>) = g[1]
  BY <1>2, BatchIs
<1>4. QED
  BY <1>2, <1>3 DEF Ran

LEMMA BatchConcat ==
  ASSUME NEW C, NEW s \in Seq(C), NEW t \in Seq(C), NEW D
  PROVE  batch(D, s \o t) = batch(batch(D, s), t)
<1> DEFINE E == batch(D, s)
           u == s \o t
<1>1. /\ u \in Seq(C) /\ Len(u) = Len(s) + Len(t) /\ Len(s) \in Nat /\ Len(t) \in Nat
      /\ \A n \in 1..Len(s) : u[n] = s[n]
      /\ \A n \in 1..Len(t) : u[Len(s) + n] = t[n]
  BY ConcatProperties
<1>2. PICK f : Ran(f, D, s) /\ E = f[Len(s)]
  BY BatchIs
<1> HIDE DEF E, u
<1>3. PICK g : Ran(g, E, t) /\ batch(E, t) = g[Len(t)]
  BY BatchIs
<1>4. PICK h : Ran(h, D, u) /\ batch(D, u) = h[Len(u)]
  BY <1>1, BatchIs
<1> DEFINE N == {n \in Nat : n =< Len(s) => h[n] = f[n]}
           M == {n \in Nat : n =< Len(t) => h[Len(s) + n] = g[n]}
<1>5. h[Len(s)] = E
  <2>1. 0 \in N
    BY <1>2, <1>4 DEF Ran
  <2>2. ASSUME NEW n \in Nat, n \in N
        PROVE  n + 1 \in N
    <3>1. SUFFICES ASSUME n + 1 =< Len(s)
                   PROVE  h[n + 1] = f[n + 1]
      OBVIOUS
    <3>2. n + 1 \in 1..Len(s) /\ n + 1 \in 1..Len(u) /\ (n + 1) - 1 = n /\ h[n] = f[n]
      <4>1. n =< Len(s) => h[n] = f[n]
        BY <2>2
      <4>2. QED
        BY <1>1, <3>1, <4>1, SMTT(20)
    <3> HIDE DEF N, M
    <3>3. h[n + 1] = Effect(h[n], u[n + 1])
      BY <1>4, <3>2 DEF Ran
    <3>4. f[n + 1] = Effect(f[n], s[n + 1])
      BY <1>2, <3>2 DEF Ran
    <3>5. QED
      BY <1>1, <3>2, <3>3, <3>4
  <2>3. Nat \subseteq N
    <3> HIDE DEF N
    <3>1. QED
      BY <2>1, <2>2, NatSetInduction
  <2>4. QED
    BY <1>1, <1>2, <2>3
<1>6. h[Len(s) + Len(t)] = g[Len(t)]
  <2>1. 0 \in M
    BY <1>1, <1>3, <1>5 DEF Ran
  <2>2. ASSUME NEW n \in Nat, n \in M
        PROVE  n + 1 \in M
    <3>1. SUFFICES ASSUME n + 1 =< Len(t)
                   PROVE  h[Len(s) + (n + 1)] = g[n + 1]
      OBVIOUS
    <3>2. /\ n + 1 \in 1..Len(t) /\ (n + 1) - 1 = n /\ h[Len(s) + n] = g[n]
      BY <1>1, <2>2, <3>1
    <3>3. Len(s) + (n + 1) \in 1..Len(u) /\ (Len(s) + (n + 1)) - 1 = Len(s) + n
      BY <1>1, <3>1
    <3> HIDE DEF N, M
    <3>4. h[Len(s) + (n + 1)] = Effect(h[Len(s) + n], u[Len(s) + (n + 1)])
      BY <1>4, <3>3 DEF Ran
    <3>5. g[n + 1] = Effect(g[n], t[n + 1])
      BY <1>3, <3>2 DEF Ran
    <3>6. u[Len(s) + (n + 1)] = t[n + 1]
      BY <1>1, <3>2
    <3>7. QED
      BY <3>2, <3>4, <3>5, <3>6
  <2>3. Nat \subseteq M
    <3> HIDE DEF M
    <3>1. QED
      BY <2>1, <2>2, NatSetInduction
  <2>4. QED
    BY <1>1, <2>3
<1>7. QED
  BY <1>1, <1>3, <1>4, <1>6 DEF E, u

\* What a command does to the value of a key.
LEMMA PutIs ==
  ASSUME NEW D, NEW k, NEW v, NEW j, NEW none
  PROVE  Value(Put(D, k, v), j, none) = IF j = k THEN v ELSE Value(D, j, none)
BY DEF Put, Value

LEMMA EffectElsewhere ==
  ASSUME NEW D, NEW c, NEW k, c.key # k, NEW none
  PROVE  Value(Effect(D, c), k, none) = Value(D, k, none)
<1>1. \A v : Value(Put(D, c.key, v), k, none) = Value(D, k, none)
  BY PutIs
<1>2. Value(Restrict(D, DOMAIN D \ {c.key}), k, none) = Value(D, k, none)
  BY DEF Restrict, Value
<1>3. CASE c.op = "incrby"
  BY <1>1, <1>3 DEF Effect, incrby
<1>4. CASE c.op = "set"
  BY <1>1, <1>4 DEF Effect
<1>5. CASE c.op = "zremrangebyscore"
  BY <1>1, <1>2, <1>5 DEF Effect, zremrangebyscore
<1>6. CASE c.op = "zadd"
  BY <1>1, <1>6 DEF Effect, zadd
<1>7. CASE c.op \notin {"incrby", "set", "zremrangebyscore", "zadd"}
  BY <1>7 DEF Effect
<1>8. QED
  BY <1>3, <1>4, <1>5, <1>6, <1>7

LEMMA EffectAt ==
  ASSUME NEW D, NEW c, c.op = "incrby"
  PROVE  Value(Effect(D, c), c.key, 0) = Value(D, c.key, 0) + c.arg
<1>1. Effect(D, c) = Put(D, c.key, Value(D, c.key, 0) + c.arg)
  BY DEF Effect, incrby
<1>2. QED
  BY <1>1, PutIs

\* Transactions leave a key alone that no command is about.
LEMMA BatchQuiet ==
  ASSUME NEW C, NEW cmds \in Seq(C), NEW D, NEW k, \A c \in C : c.key # k, NEW none
  PROVE  Value(batch(D, cmds), k, none) = Value(D, k, none)
<1>1. PICK g : Ran(g, D, cmds) /\ batch(D, cmds) = g[Len(cmds)]
  BY BatchIs
<1> DEFINE N == {n \in Nat : n =< Len(cmds) => Value(g[n], k, none) = Value(D, k, none)}
<1>2. 0 \in N
  BY <1>1 DEF Ran
<1>3. ASSUME NEW n \in Nat, n \in N
      PROVE  n + 1 \in N
  <2>1. SUFFICES ASSUME n + 1 =< Len(cmds)
                 PROVE  Value(g[n + 1], k, none) = Value(D, k, none)
    OBVIOUS
  <2>2. n + 1 \in 1..Len(cmds) /\ (n + 1) - 1 = n /\ n =< Len(cmds)
    BY <2>1
  <2>3. g[n + 1] = Effect(g[n], cmds[n + 1])
    BY <1>1, <2>2 DEF Ran
  <2>4. cmds[n + 1] \in C
    BY <2>2
  <2>5. Value(Effect(g[n], cmds[n + 1]), k, none) = Value(g[n], k, none)
    BY <2>4, EffectElsewhere
  <2>6. QED
    BY <1>3, <2>2, <2>3, <2>5
<1>4. Nat \subseteq N
  <2> HIDE DEF N
  <2>1. QED
    BY <1>2, <1>3, NatSetInduction
<1>5. QED
  BY <1>1, <1>4

\* Commands that do not matter to a key may be others.
Alike(s, t, k) ==
  Len(s) = Len(t) /\ \A n \in 1..Len(s) : \/ s[n] = t[n] /\ (s[n].key = k => s[n].op = "incrby")
                                          \/ s[n].key # k /\ t[n].key # k

LEMMA BatchAlike ==
  ASSUME NEW C, NEW s \in Seq(C), NEW t \in Seq(C), NEW D, NEW k, Alike(s, t, k)
  PROVE  Value(batch(D, s), k, 0) = Value(batch(D, t), k, 0)
<1>1. PICK g : Ran(g, D, s) /\ batch(D, s) = g[Len(s)]
  BY BatchIs
<1>2. PICK h : Ran(h, D, t) /\ batch(D, t) = h[Len(t)]
  BY BatchIs
<1> DEFINE N == {n \in Nat : n =< Len(s) => Value(g[n], k, 0) = Value(h[n], k, 0)}
<1>3. 0 \in N
  BY <1>1, <1>2 DEF Ran
<1>4. ASSUME NEW n \in Nat, n \in N
      PROVE  n + 1 \in N
  <2>1. SUFFICES ASSUME n + 1 =< Len(s)
                 PROVE  Value(g[n + 1], k, 0) = Value(h[n + 1], k, 0)
    OBVIOUS
  <2>2. n + 1 \in 1..Len(s) /\ n + 1 \in 1..Len(t) /\ (n + 1) - 1 = n /\ n =< Len(s)
    BY <2>1 DEF Alike
  <2>3. g[n + 1] = Effect(g[n], s[n + 1]) /\ h[n + 1] = Effect(h[n], t[n + 1])
    BY <1>1, <1>2, <2>2 DEF Ran
  <2>4. Value(g[n], k, 0) = Value(h[n], k, 0)
    BY <1>4, <2>2
  <2>5. CASE s[n + 1].key # k /\ t[n + 1].key # k
    BY <2>3, <2>4, <2>5, EffectElsewhere
  <2>6. CASE s[n + 1] = t[n + 1] /\ s[n + 1].key = k /\ s[n + 1].op = "incrby"
    <3>1. /\ Value(Effect(g[n], s[n + 1]), k, 0) = Value(g[n], k, 0) + s[n + 1].arg
          /\ Value(Effect(h[n], s[n + 1]), k, 0) = Value(h[n], k, 0) + s[n + 1].arg
      BY <2>6, EffectAt
    <3>2. QED
      BY <2>3, <2>4, <2>6, <3>1
  <2>7. QED
    BY <2>2, <2>5, <2>6 DEF Alike
<1>5. Nat \subseteq N
  <2> HIDE DEF N
  <2>1. QED
    BY <1>3, <1>4, NatSetInduction
<1>6. QED
  BY <1>1, <1>2, <1>5 DEF Alike

\* The commands add w to a key.
Gives(s, k, w) ==
  \A D : Value(D, k, 0) \in Int => Value(batch(D, s), k, 0) = Value(D, k, 0) + w

LEMMA GivesNothing == \A k : Gives(<<>>, k, 0)
BY BatchEmpty DEF Gives

LEMMA GivesOne == \A c : c.op = "incrby" => Gives(<<c>>, c.key, c.arg)
<1>1. \A D, c : c.op = "incrby" => Value(batch(D, <<c>>), c.key, 0) = Value(D, c.key, 0) + c.arg
  BY BatchOne, EffectAt
<1>2. QED
  BY <1>1 DEF Gives

LEMMA GivesOther == \A c, k : c.key # k => Gives(<<c>>, k, 0)
<1>1. \A D, c, k : c.key # k => Value(batch(D, <<c>>), k, 0) = Value(D, k, 0)
  BY BatchOne, EffectElsewhere
<1>2. QED
  BY <1>1 DEF Gives

LEMMA GivesBoth ==
  ASSUME NEW C, NEW s \in Seq(C), NEW t \in Seq(C), NEW k, NEW v \in Int, NEW w \in Int,
         Gives(s, k, v), Gives(t, k, w)
  PROVE  Gives(s \o t, k, v + w)
<1>1. SUFFICES ASSUME NEW D, Value(D, k, 0) \in Int
               PROVE  Value(batch(D, s \o t), k, 0) = Value(D, k, 0) + (v + w)
  BY DEF Gives
<1>2. batch(D, s \o t) = batch(batch(D, s), t)
  BY BatchConcat
<1> DEFINE E == batch(D, s)
<1>3. Value(E, k, 0) = Value(D, k, 0) + v
  BY <1>1 DEF Gives
<1> HIDE DEF E
<1>4. Value(batch(E, t), k, 0) = Value(E, k, 0) + w
  BY <1>1, <1>3 DEF Gives
<1>5. QED
  BY <1>1, <1>2, <1>3, <1>4 DEF E
-----------------------------------------------------------------------------
(***************************************************************************)
(* What a metric adds to the keys that count.  They are only added to:     *)
(* other commands are about counters and snapshots.                        *)
(***************************************************************************)

Counting == {"incomingBytes", "outgoingBytes"} \cup Enabled

\* Commands that add w to a key, and that do to the keys that count nothing but
\* add to them.
Plain(s) == \E C : s \in Seq(C) /\ \A c \in C : c.op = "incrby" \/ c.key[2] \in Sets
Adds(s, k, w) == Plain(s) /\ w \in Int /\ Gives(s, k, w)

LEMMA PlainBoth ==
  ASSUME NEW s, NEW t, Plain(s), Plain(t)
  PROVE  \E C : /\ s \in Seq(C) /\ t \in Seq(C) /\ s \o t \in Seq(C)
                /\ \A c \in C : c.op = "incrby" \/ c.key[2] \in Sets
<1>1. PICK A : s \in Seq(A) /\ \A c \in A : c.op = "incrby" \/ c.key[2] \in Sets
  BY DEF Plain
<1>2. PICK B : t \in Seq(B) /\ \A c \in B : c.op = "incrby" \/ c.key[2] \in Sets
  BY DEF Plain
<1> DEFINE C == A \cup B
<1>3. s \in Seq(C) /\ t \in Seq(C) /\ \A c \in C : c.op = "incrby" \/ c.key[2] \in Sets
  BY <1>1, <1>2
<1>4. s \o t \in Seq(C)
  <2> HIDE DEF C
  <2>1. QED
    BY <1>3, ConcatProperties
<1>5. QED
  BY <1>3, <1>4

LEMMA AddsBoth ==
  ASSUME NEW s, NEW t, NEW k, NEW v, NEW w, Adds(s, k, v), Adds(t, k, w)
  PROVE  Adds(s \o t, k, v + w)
<1>1. PICK C : /\ s \in Seq(C) /\ t \in Seq(C) /\ s \o t \in Seq(C)
               /\ \A c \in C : c.op = "incrby" \/ c.key[2] \in Sets
  BY PlainBoth DEF Adds
<1>2. v \in Int /\ w \in Int /\ Gives(s, k, v) /\ Gives(t, k, w)
  BY DEF Adds
<1>3. Gives(s \o t, k, v + w)
  BY <1>1, <1>2, GivesBoth
<1>4. QED
  BY <1>1, <1>2, <1>3 DEF Adds, Plain

LEMMA AddsNothing == \A k : Adds(<<>>, k, 0)
<1>1. <<>> \in Seq({})
  OBVIOUS
<1>2. QED
  BY <1>1, GivesNothing DEF Adds, Plain

LEMMA PlainOne ==
  ASSUME NEW c, c.op = "incrby" \/ c.key[2] \in Sets
  PROVE  Plain(<<c>>)
<1> DEFINE C == {c}
<1>1. <<c>> \in Seq(C) /\ \A x \in C : x.op = "incrby" \/ x.key[2] \in Sets
  OBVIOUS
<1> HIDE DEF C
<1>2. QED
  BY <1>1 DEF Plain

\* What the single commands add to a key that counts.
LEMMA KeepsOne ==
  ASSUME NEW c, c.key[2] \in Sets, NEW k, k[2] \in Counting
  PROVE  Adds(<<c>>, k, 0)
<1>1. Counting \cap Sets = {}
  BY V1Assumption DEF Counting, Sets, Counters, StateKeys
<1>2. c.key # k
  BY <1>1
<1>3. QED
  BY <1>2, PlainOne, GivesOther DEF Adds

LEMMA CountsOne ==
  ASSUME NEW r, NEW way, NEW t, NEW n \in Int, NEW a, NEW metric, NEW u
  PROVE  Adds(<<Cmd("incrby", generateKey(r, way, t), n)>>, generateKey(a, metric, u),
              IF r = a /\ way = metric /\ t = u THEN n ELSE 0)
<1> DEFINE c == Cmd("incrby", generateKey(r, way, t), n)
           k == generateKey(a, metric, u)
<1>1. c.op = "incrby" /\ c.key = generateKey(r, way, t) /\ c.arg = n
  BY DEF Cmd
<1>2. c.key = k <=> r = a /\ way = metric /\ t = u
  BY <1>1 DEF generateKey
<1> HIDE DEF c, k
<1>3. Plain(<<c>>)
  BY <1>1, PlainOne
<1>4. Gives(<<c>>, c.key, c.arg) /\ (c.key # k => Gives(<<c>>, k, 0))
  BY <1>1, GivesOne, GivesOther
<1>5. QED
  BY <1>1, <1>2, <1>3, <1>4 DEF Adds, c, k

LEMMA OperationAdds ==
  ASSUME NEW m, NEW r, NEW t, NEW a, NEW metric \in Counting, NEW u
  PROVE  Adds(Operation(m, r, t), generateKey(a, metric, u),
              IF r = a /\ t = u /\ Counted(m) = metric /\ metric \in Enabled THEN 1 ELSE 0)
<1>1. CASE Counted(m) \in Enabled
  <2>1. Adds(<<Cmd("incrby", generateKey(r, Counted(m), t), 1)>>, generateKey(a, metric, u),
             IF r = a /\ Counted(m) = metric /\ t = u THEN 1 ELSE 0)
    BY CountsOne
  <2>2. (IF r = a /\ Counted(m) = metric /\ t = u THEN 1 ELSE 0)
          = IF r = a /\ t = u /\ Counted(m) = metric /\ metric \in Enabled THEN 1 ELSE 0
    BY <1>1
  <2>3. QED
    BY <1>1, <2>1, <2>2 DEF Operation
<1>2. CASE Counted(m) \notin Enabled
  BY <1>2, AddsNothing DEF Operation
<1>3. QED
  BY <1>1, <1>2

Known(m) == Moves(m) => m.new \in Nat

\* The commands of a level add what the metric weighs to the key of its period.
LEMMA CommandsAdd ==
  ASSUME NEW m, Known(m), NEW r, NEW t, NEW a, NEW metric \in Counting, NEW u
  PROVE  Adds(Commands(m, r, t), generateKey(a, metric, u),
              IF r = a /\ t = u THEN Weight(m, metric) ELSE 0)
<1> DEFINE k == generateKey(a, metric, u)
           ops == Operation(m, r, t)
           o == IF r = a /\ t = u /\ Counted(m) = metric /\ metric \in Enabled THEN 1 ELSE 0
           in == IF r = a /\ "incomingBytes" = metric /\ t = u THEN m.new ELSE 0
           out == IF r = a /\ "outgoingBytes" = metric /\ t = u THEN m.new ELSE 0
           W == IF r = a /\ t = u THEN Weight(m, metric) ELSE 0
           cmds == Commands(m, r, t)
<1>1. k[2] \in Counting /\ (metric \in Enabled => metric \notin {"incomingBytes", "outgoingBytes"})
  BY V1Assumption DEF generateKey
<1>2. Adds(ops, k, o)
  BY OperationAdds
<1>3. \A n : Adds(<<Size(r, n)>>, k, 0) /\ Adds(<<Objects(r, n)>>, k, 0)
  <2>1. SUFFICES ASSUME NEW n
                 PROVE  Adds(<<Size(r, n)>>, k, 0) /\ Adds(<<Objects(r, n)>>, k, 0)
    OBVIOUS
  <2>2. Size(r, n).key[2] \in Sets /\ Objects(r, n).key[2] \in Sets
    BY DEF Size, Objects, Cmd, generateCounter, Sets, Counters
  <2> HIDE DEF k
  <2>3. QED
    BY <1>1, <2>2, KeepsOne
<1>4. ASSUME Moves(m)
      PROVE  /\ Adds(<<Bytes(m, r, "incomingBytes", t)>>, k, in)
             /\ Adds(<<Bytes(m, r, "outgoingBytes", t)>>, k, out)
  <2>1. m.new \in Int
    BY <1>4 DEF Known
  <2>2. QED
    BY <2>1, CountsOne DEF Bytes
<1>5. o \in Int /\ in = (IF r = a /\ t = u /\ metric = "incomingBytes" THEN m.new ELSE 0)
      /\ out = (IF r = a /\ t = u /\ metric = "outgoingBytes" THEN m.new ELSE 0)
  OBVIOUS
<1>6. /\ r = a /\ t = u /\ metric = "incomingBytes" =>
            o = 0 /\ out = 0 /\ W = IF Method(m) \in {"put", "part"} /\ m.action # "copyObject" THEN m.new ELSE 0
      /\ r = a /\ t = u /\ metric = "outgoingBytes" =>
            o = 0 /\ in = 0 /\ W = IF Method(m) = "get" THEN m.new ELSE 0
      /\ r = a /\ t = u /\ metric \in Enabled => in = 0 /\ out = 0 /\ W = o
      /\ ~(r = a /\ t = u) => in = 0 /\ out = 0 /\ o = 0 /\ W = 0
  BY <1>1 DEF Weight
<1>7. /\ Method(m) = "part" => m.action # "copyObject" /\ in \in Int
      /\ Method(m) = "put" => in \in Int
      /\ Method(m) = "get" => out \in Int
      /\ metric \in {"incomingBytes", "outgoingBytes"} \cup Enabled
  BY DEF Method, Parts, Known, Moves, Counting, Puts, Deletes, Markers
<1> HIDE DEF k, ops, o, in, out, W, cmds
<1>8. CASE Method(m) = "part"
  <2>1. cmds = (<<Size(r, Delta(m))>> \o <<Bytes(m, r, "incomingBytes", t)>>) \o ops
    BY <1>8 DEF Commands, UploadPart, ops, cmds
  <2>2. Adds(cmds, k, (0 + in) + o)
    BY <1>2, <1>3, <1>4, <1>8, <2>1, AddsBoth DEF Moves
  <2>3. (0 + in) + o = W
    BY <1>5, <1>6, <1>7, <1>8
  <2>4. QED
    BY <2>2, <2>3 DEF k, W, cmds
<1>9. CASE Method(m) \in {"overwrite", "complete"}
  <2>1. PICK n : cmds = <<Size(r, n)>> \o ops \/ cmds = <<Objects(r, n)>> \o ops
    BY <1>9 DEF Commands, MultipartUploadOverwrite, CompleteMultipartUpload, ops, cmds
  <2>2. Adds(cmds, k, 0 + o)
    BY <1>2, <1>3, <2>1, AddsBoth
  <2>3. 0 + o = W
    BY <1>5, <1>6, <1>7, <1>9
  <2>4. QED
    BY <2>2, <2>3 DEF k, W, cmds
<1>10. CASE Method(m) = "delete"
  <2>1. PICK n : cmds = (<<Size(r, n)>> \o ops) \o <<>>
                 \/ \E x : cmds = (<<Size(r, n)>> \o ops) \o <<Objects(r, x)>>
    BY <1>10 DEF Commands, DeleteObject, ops, cmds
  <2>2. Adds(<<Size(r, n)>> \o ops, k, 0 + o)
    BY <1>2, <1>3, AddsBoth
  <2>3. Adds(cmds, k, (0 + o) + 0)
    BY <1>3, <2>1, <2>2, AddsBoth, AddsNothing
  <2>4. (0 + o) + 0 = W
    BY <1>5, <1>6, <1>7, <1>10
  <2>5. QED
    BY <2>3, <2>4 DEF k, W, cmds
<1>11. CASE Method(m) = "get"
  <2>1. cmds = <<Bytes(m, r, "outgoingBytes", t)>> \o ops
    BY <1>11 DEF Commands, GetObject, ops, cmds
  <2>2. Adds(cmds, k, out + o)
    BY <1>2, <1>4, <1>11, <2>1, AddsBoth DEF Moves
  <2>3. out + o = W
    BY <1>5, <1>6, <1>7, <1>11
  <2>4. QED
    BY <2>2, <2>3 DEF k, W, cmds
<1>12. CASE Method(m) = "put"
  <2> DEFINE n == IF m.old = Nil THEN Objects(r, 1)
                  ELSE Cmd("get", generateCounter(r, "numberOfObjectsCounter"), Nil)
             bytes == IF m.action = "copyObject" THEN <<>> ELSE <<Bytes(m, r, "incomingBytes", t)>>
             b == IF m.action = "copyObject" THEN 0 ELSE in
  <2>1. cmds = ((<<Size(r, Delta(m))>> \o <<n>>) \o ops) \o bytes
    BY <1>12 DEF Commands, PutObject, ops, cmds
  <2>2. Adds(<<n>>, k, 0)
    <3>1. n.key[2] \in Sets
      BY DEF Objects, Cmd, generateCounter, Sets, Counters
    <3> HIDE DEF n
    <3>2. k[2] \in Counting
      BY <1>1 DEF k
    <3>3. QED
      BY <3>1, <3>2, KeepsOne
  <2>3. Adds(bytes, k, b)
    BY <1>4, <1>12, AddsNothing DEF Moves
  <2>4. ((0 + 0) + o) + b = W
    BY <1>5, <1>6, <1>7, <1>12
  <2> HIDE DEF n, bytes, b
  <2>5. Adds(<<Size(r, Delta(m))>> \o <<n>>, k, 0 + 0)
    BY <1>3, <2>2, AddsBoth
  <2>6. Adds((<<Size(r, Delta(m))>> \o <<n>>) \o ops, k, (0 + 0) + o)
    BY <1>2, <2>5, AddsBoth
  <2>7. Adds(cmds, k, ((0 + 0) + o) + b)
    BY <2>1, <2>3, <2>6, AddsBoth
  <2>8. QED
    BY <2>4, <2>7 DEF k, W, cmds
<1>13. CASE Method(m) = "marker"
  <2> DEFINE z == Cmd("zrangebyscore", generateStateKey(r, "storageUtilized"), t)
  <2>1. cmds = (<<Objects(r, 1)>> \o ops) \o <<z>>
    BY <1>13 DEF Commands, DeleteMarker, ops, cmds
  <2>2. Adds(<<z>>, k, 0)
    <3>1. z.key[2] \in Sets
      BY DEF Cmd, generateStateKey, Sets, StateKeys
    <3> HIDE DEF z
    <3>2. k[2] \in Counting
      BY <1>1 DEF k
    <3>3. QED
      BY <3>1, <3>2, KeepsOne
  <2> HIDE DEF z
  <2>3. Adds(<<Objects(r, 1)>> \o ops, k, 0 + o)
    BY <1>2, <1>3, AddsBoth
  <2>4. Adds(cmds, k, (0 + o) + 0)
    BY <2>1, <2>2, <2>3, AddsBoth
  <2>5. (0 + o) + 0 = W
    BY <1>5, <1>6, <1>7, <1>13
  <2>6. QED
    BY <2>4, <2>5 DEF k, W, cmds
<1>14. CASE Method(m) = "generic"
  <2>1. cmds = ops
    BY <1>14 DEF Commands, ops, cmds
  <2>2. o = W
    BY <1>5, <1>6, <1>7, <1>14
  <2>3. QED
    BY <1>2, <2>1, <2>2 DEF k, W, cmds
<1>15. Method(m) \in {"part", "overwrite", "complete", "delete", "get", "put", "marker", "generic"}
  BY DEF Method
<1>16. QED
  BY <1>8, <1>9, <1>10, <1>11, <1>12, <1>13, <1>14, <1>15

\* The commands of each level are as many.
Long(s, n) == Plain(s) /\ n \in Nat /\ Len(s) = n

LEMMA LongBoth ==
  ASSUME NEW s, NEW u, NEW n, NEW p, Long(s, n), Long(u, p)
  PROVE  Long(s \o u, n + p)
<1>1. PICK C : /\ s \in Seq(C) /\ u \in Seq(C) /\ s \o u \in Seq(C)
               /\ \A c \in C : c.op = "incrby" \/ c.key[2] \in Sets
  BY PlainBoth DEF Long
<1>2. Len(s \o u) = n + p
  <2>1. Len(s) = n /\ Len(u) = p /\ n \in Nat /\ p \in Nat
    BY DEF Long
  <2>2. Len(s \o u) = Len(s) + Len(u)
    BY <1>1, ConcatProperties
  <2>3. QED
    BY <2>1, <2>2
<1>3. Plain(s \o u)
  BY <1>1 DEF Plain
<1>4. QED
  BY <1>2, <1>3 DEF Long

LEMMA CommandsShape ==
  ASSUME NEW m, NEW t
  PROVE  \E n : \A r : Long(Commands(m, r, t), n)
<1>1. PICK o : \A r : Long(Operation(m, r, t), o)
  <2>1. CASE Counted(m) \in Enabled
    <3>1. \A r : Long(Operation(m, r, t), 1)
      BY <2>1, PlainOne DEF Operation, Cmd, Long
    <3>2. QED
      BY <3>1
  <2>2. CASE Counted(m) \notin Enabled
    <3>1. \A r : Long(Operation(m, r, t), 0)
      BY <2>2, AddsNothing DEF Operation, Adds, Long
    <3>2. QED
      BY <3>1
  <2>3. QED
    BY <2>1, <2>2
<1>2. \A c : c.op = "incrby" \/ c.key[2] \in Sets => Long(<<c>>, 1)
  <2>1. \A c : Len(<<c>>) = 1
    OBVIOUS
  <2>2. QED
    BY <2>1, PlainOne DEF Long
<1>3. \A r, n : Long(<<Size(r, n)>>, 1) /\ Long(<<Objects(r, n)>>, 1)
  <2>1. \A r, n : Size(r, n).key[2] \in Sets /\ Objects(r, n).key[2] \in Sets
    BY DEF Size, Objects, Cmd, generateCounter, Sets, Counters
  <2>2. QED
    BY <1>2, <2>1
<1>4. \A r, way : Long(<<Bytes(m, r, way, t)>>, 1)
  BY <1>2 DEF Bytes, Cmd
<1>5. Long(<<>>, 0)
  BY AddsNothing DEF Adds, Long
<1>6. CASE Method(m) = "part"
  <2>1. SUFFICES ASSUME NEW r
                 PROVE  Long(Commands(m, r, t), (1 + 1) + o)
    OBVIOUS
  <2>2. Commands(m, r, t) = (<<Size(r, Delta(m))>> \o <<Bytes(m, r, "incomingBytes", t)>>) \o Operation(m, r, t)
    BY <1>6 DEF Commands, UploadPart
  <2>3. Long(<<Size(r, Delta(m))>> \o <<Bytes(m, r, "incomingBytes", t)>>, 1 + 1)
    BY <1>3, <1>4, LongBoth
  <2>4. QED
    BY <1>1, <2>2, <2>3, LongBoth
<1>7. CASE Method(m) \in {"overwrite", "complete"}
  <2>1. SUFFICES ASSUME NEW r
                 PROVE  Long(Commands(m, r, t), 1 + o)
    OBVIOUS
  <2>2. PICK c : Commands(m, r, t) = <<c>> \o Operation(m, r, t) /\ Long(<<c>>, 1)
    BY <1>3, <1>7 DEF Commands, MultipartUploadOverwrite, CompleteMultipartUpload
  <2>3. QED
    BY <1>1, <2>2, LongBoth
<1>8. CASE Method(m) = "get"
  <2>1. SUFFICES ASSUME NEW r
                 PROVE  Long(Commands(m, r, t), 1 + o)
    OBVIOUS
  <2>2. Commands(m, r, t) = <<Bytes(m, r, "outgoingBytes", t)>> \o Operation(m, r, t)
    BY <1>8 DEF Commands, GetObject
  <2>3. QED
    BY <1>1, <1>4, <2>2, LongBoth
<1>9. CASE Method(m) = "generic"
  BY <1>1, <1>9 DEF Commands
<1>10. CASE Method(m) = "delete"
  <2> DEFINE q == IF m.action = "abortMultipartUpload" THEN 0 ELSE 1
  <2>1. SUFFICES ASSUME NEW r
                 PROVE  Long(Commands(m, r, t), (1 + o) + q)
    OBVIOUS
  <2>2. PICK s : Commands(m, r, t) = (<<Size(r, -m.bytes)>> \o Operation(m, r, t)) \o s /\ Long(s, q)
    BY <1>3, <1>5, <1>10 DEF Commands, DeleteObject
  <2> HIDE DEF q
  <2>3. Long(<<Size(r, -m.bytes)>> \o Operation(m, r, t), 1 + o)
    BY <1>1, <1>3, LongBoth
  <2>4. QED
    BY <2>2, <2>3, LongBoth
<1>11. CASE Method(m) = "put"
  <2> DEFINE q == IF m.action = "copyObject" THEN 0 ELSE 1
  <2>1. SUFFICES ASSUME NEW r
                 PROVE  Long(Commands(m, r, t), ((1 + 1) + o) + q)
    OBVIOUS
  <2> DEFINE n == IF m.old = Nil THEN Objects(r, 1)
                  ELSE Cmd("get", generateCounter(r, "numberOfObjectsCounter"), Nil)
             bytes == IF m.action = "copyObject" THEN <<>> ELSE <<Bytes(m, r, "incomingBytes", t)>>
  <2>2. Commands(m, r, t) = ((<<Size(r, Delta(m))>> \o <<n>>) \o Operation(m, r, t)) \o bytes
    BY <1>11 DEF Commands, PutObject
  <2>3. Long(bytes, q)
    BY <1>4, <1>5
  <2>4. n.key[2] \in Sets
    BY DEF Objects, Cmd, generateCounter, Sets, Counters
  <2> HIDE DEF n, bytes, q
  <2>5. Long(<<Size(r, Delta(m))>> \o <<n>>, 1 + 1)
    BY <1>2, <1>3, <2>4, LongBoth
  <2>6. Long((<<Size(r, Delta(m))>> \o <<n>>) \o Operation(m, r, t), (1 + 1) + o)
    BY <1>1, <2>5, LongBoth
  <2>7. QED
    BY <2>2, <2>3, <2>6, LongBoth
<1>12. CASE Method(m) = "marker"
  <2>1. SUFFICES ASSUME NEW r
                 PROVE  Long(Commands(m, r, t), (1 + o) + 1)
    OBVIOUS
  <2> DEFINE z == Cmd("zrangebyscore", generateStateKey(r, "storageUtilized"), t)
  <2>2. Commands(m, r, t) = (<<Objects(r, 1)>> \o Operation(m, r, t)) \o <<z>>
    BY <1>12 DEF Commands, DeleteMarker
  <2>3. z.key[2] \in Sets
    BY DEF Cmd, generateStateKey, Sets, StateKeys
  <2> HIDE DEF z
  <2>4. Long(<<Objects(r, 1)>> \o Operation(m, r, t), 1 + o)
    BY <1>1, <1>3, LongBoth
  <2>5. QED
    BY <1>2, <2>2, <2>3, <2>4, LongBoth
<1>13. Method(m) \in {"part", "overwrite", "complete", "delete", "get", "put", "marker", "generic"}
  BY DEF Method
<1>14. QED
  BY <1>6, <1>7, <1>8, <1>9, <1>10, <1>11, <1>12, <1>13

\* The commands of both levels.
LEMMA BothLevels ==
  ASSUME NEW m, NEW t, Plain(Commands(m, m.bucket, t)), Plain(Commands(m, m.account, t))
  PROVE  AllCommands(m, t) = Commands(m, m.bucket, t) \o Commands(m, m.account, t)
<1> DEFINE a == Commands(m, m.bucket, t)
           b == Commands(m, m.account, t)
           s == [l \in 1..Len(Levels(m)) |-> Commands(m, Levels(m)[l], t)]
<1>1. PICK C : a \in Seq(C) /\ b \in Seq(C)
  BY PlainBoth
<1>2. s = [l \in 1..2 |-> IF l = 1 THEN a ELSE b]
  <2>1. Len(Levels(m)) = 2 /\ Levels(m)[1] = m.bucket /\ Levels(m)[2] = m.account
    BY DEF Levels
  <2>2. QED
    BY <2>1
<1>3. AllCommands(m, t) = FlattenSeq(s)
  BY DEF AllCommands
<1> HIDE DEF a, b, s
<1>4. FlattenSeq(s) = a \o b
  BY <1>1, <1>2, FlattenTwo
<1>5. QED
  BY <1>3, <1>4 DEF a, b

LEMMA AllCommandsAdd ==
  ASSUME NEW m, Known(m), NEW t, NEW a, m.bucket # a, NEW metric \in Counting, NEW u
  PROVE  Adds(AllCommands(m, t), generateKey(a, metric, u),
              IF m.account = a /\ t = u THEN Weight(m, metric) ELSE 0)
<1> DEFINE k == generateKey(a, metric, u)
           w == IF m.account = a /\ t = u THEN Weight(m, metric) ELSE 0
<1>1. Adds(Commands(m, m.account, t), k, w)
  BY CommandsAdd
<1>2. Adds(Commands(m, m.bucket, t), k, 0)
  <2>1. Adds(Commands(m, m.bucket, t), k, IF m.bucket = a /\ t = u THEN Weight(m, metric) ELSE 0)
    BY CommandsAdd
  <2>2. QED
    BY <2>1
<1> HIDE DEF k, w
<1>3. AllCommands(m, t) = Commands(m, m.bucket, t) \o Commands(m, m.account, t)
  BY <1>1, <1>2, BothLevels DEF Adds
<1>4. Adds(AllCommands(m, t), k, 0 + w)
  BY <1>1, <1>2, <1>3, AddsBoth
<1>5. 0 + w = w
  BY <1>1 DEF Adds
<1>6. QED
  BY <1>4, <1>5 DEF k, w

\* What the first transaction adds, whether or not a command of it fails: one
\* that may is about a counter.
Lost(i, lost) ==
  \A n \in lost :
    LET all == AllCommands(push[i].metric, push[i].time)
    IN  n \in DOMAIN all /\ all[n].key[2] \in Sets

LEMMA CountAdds ==
  ASSUME NEW i, NEW lost, Lost(i, lost), Count(i, lost), Known(push[i].metric),
         NEW a, push[i].metric.bucket # a, NEW metric \in Counting, NEW u,
         Value(db, generateKey(a, metric, u), 0) \in Int
  PROVE  Value(db', generateKey(a, metric, u), 0)
           = Value(db, generateKey(a, metric, u), 0)
               + IF push[i].metric.account = a /\ push[i].time = u
                 THEN Weight(push[i].metric, metric) ELSE 0
<1>1. PICK m, t : m = push[i].metric /\ t = push[i].time
  OBVIOUS
<1> DEFINE all == AllCommands(m, t)
           kept == [n \in DOMAIN all |-> IF n \in lost THEN Cmd("get", all[n].key, Nil) ELSE all[n]]
           k == generateKey(a, metric, u)
           w == IF m.account = a /\ t = u THEN Weight(m, metric) ELSE 0
<1>2. db' = batch(db, kept)
  BY <1>1 DEF Count
<1>3. Adds(all, k, w)
  BY <1>1, AllCommandsAdd
<1>4. k[2] \in Counting /\ Counting \cap Sets = {}
  BY V1Assumption DEF generateKey, Counting, Sets, Counters, StateKeys
<1>5. \A n \in lost : n \in DOMAIN all /\ all[n].key[2] \in Sets
  BY <1>1 DEF Lost
<1> HIDE DEF all, k, w
<1>6. PICK C : all \in Seq(C) /\ \A c \in C : c.op = "incrby" \/ c.key[2] \in Sets
  BY <1>3 DEF Adds, Plain
<1> DEFINE B == C \cup {Cmd("get", c.key, Nil) : c \in C}
<1>7. all \in Seq(B) /\ kept \in Seq(B) /\ Len(kept) = Len(all)
  <2>1. DOMAIN all = 1..Len(all) /\ Len(all) \in Nat /\ \A n \in 1..Len(all) : all[n] \in C
    BY <1>6
  <2>2. \A n \in 1..Len(all) : kept[n] \in B
    BY <2>1
  <2>3. kept \in [1..Len(all) -> B]
    BY <2>1, <2>2
  <2> HIDE DEF kept
  <2>4. QED
    BY <1>6, <2>1, <2>3
<1>8. Alike(all, kept, k)
  <2>1. SUFFICES ASSUME NEW n \in 1..Len(all)
                 PROVE  \/ all[n] = kept[n] /\ (all[n].key = k => all[n].op = "incrby")
                        \/ all[n].key # k /\ kept[n].key # k
    BY <1>7 DEF Alike
  <2>2. all[n] \in C /\ DOMAIN all = 1..Len(all)
    BY <1>6
  <2>3. all[n].key = k => all[n].op = "incrby"
    BY <1>4, <1>6, <2>2
  <2>4. CASE n \in lost
    <3>1. kept[n].key = all[n].key
      BY <2>2, <2>4 DEF Cmd
    <3>2. all[n].key # k
      BY <1>4, <1>5, <2>4
    <3>3. QED
      BY <3>1, <3>2
  <2>5. CASE n \notin lost
    BY <2>2, <2>3, <2>5
  <2>6. QED
    BY <2>4, <2>5
<1> HIDE DEF B, kept
<1>9. Value(batch(db, kept), k, 0) = Value(batch(db, all), k, 0)
  BY <1>7, <1>8, BatchAlike
<1>10. Value(db, k, 0) \in Int /\ Gives(all, k, w)
  BY <1>3 DEF k, Adds
<1>11. Value(batch(db, all), k, 0) = Value(db, k, 0) + w
  BY <1>10 DEF Gives
<1>12. QED
  BY <1>1, <1>2, <1>9, <1>11 DEF k, w
-----------------------------------------------------------------------------
(***************************************************************************)
(* The second transaction and the reindex are about counters and snapshots *)
(* only.                                                                   *)
(***************************************************************************)

\* Commands on counters and snapshots only.
Stored(s) == \E C : s \in Seq(C) /\ \A c \in C : c.key[2] \in Sets

LEMMA StoredBoth ==
  ASSUME NEW s, NEW t, Stored(s), Stored(t)
  PROVE  Stored(s \o t) /\ \E C : s \in Seq(C) /\ t \in Seq(C)
<1>1. PICK A : s \in Seq(A) /\ \A c \in A : c.key[2] \in Sets
  BY DEF Stored
<1>2. PICK B : t \in Seq(B) /\ \A c \in B : c.key[2] \in Sets
  BY DEF Stored
<1> DEFINE C == A \cup B
<1>3. s \in Seq(C) /\ t \in Seq(C) /\ \A c \in C : c.key[2] \in Sets
  BY <1>1, <1>2
<1>4. s \o t \in Seq(C)
  <2> HIDE DEF C
  <2>1. QED
    BY <1>3, ConcatProperties
<1>5. QED
  BY <1>3, <1>4 DEF Stored

LEMMA StoredTwo ==
  ASSUME NEW c, NEW d, c.key[2] \in Sets, d.key[2] \in Sets
  PROVE  Stored(<<c, d>>)
<1> DEFINE C == {c, d}
<1>1. <<c, d>> \in Seq(C) /\ \A x \in C : x.key[2] \in Sets
  OBVIOUS
<1> HIDE DEF C
<1>2. QED
  BY <1>1 DEF Stored

LEMMA StoredNothing == Stored(<<>>)
<1> DEFINE C == {}
<1>1. <<>> \in Seq(C) /\ \A c \in C : c.key[2] \in Sets
  OBVIOUS
<1> HIDE DEF C
<1>2. QED
  BY <1>1 DEF Stored

LEMMA SnapshotsStored ==
  ASSUME NEW m, ReadsReplies(m), NEW r, NEW t, NEW g
  PROVE  Stored(Snapshots(m, r, t, g))
<1>1. \A v : Stored(Snapshot(r, "storageUtilized", t, v)) /\ Stored(Snapshot(r, "numberOfObjects", t, v))
  <2>1. \A metric \in StateKeys : \A op, arg : Cmd(op, generateStateKey(r, metric), arg).key[2] \in Sets
    BY DEF Cmd, generateStateKey, Sets
  <2>2. \A metric \in StateKeys : \A v : Stored(Snapshot(r, metric, t, v))
    BY <2>1, StoredTwo DEF Snapshot
  <2>3. QED
    BY <2>2 DEF StateKeys
<1>2. \A n, v : Stored(<<Objects(r, n), Size(r, v)>>)
  <2>1. \A n, v : Size(r, v).key[2] \in Sets /\ Objects(r, n).key[2] \in Sets
    BY DEF Size, Objects, Cmd, generateCounter, Sets, Counters
  <2>2. QED
    BY <2>1, StoredTwo
<1>3. CASE Method(m) \in {"part", "overwrite", "complete"}
  BY <1>1, <1>3 DEF Snapshots, PartSnapshots, OverwriteSnapshots, CompleteSnapshots
<1>4. CASE Method(m) = "put"
  BY <1>1, <1>4, StoredBoth DEF Snapshots, PutSnapshots
<1>5. CASE Method(m) = "delete"
  BY <1>1, <1>5, StoredBoth, StoredNothing DEF Snapshots, DeleteSnapshots
<1>6. CASE Method(m) = "marker"
  <2>1. PICK n, s, v : /\ Snapshots(m, r, t, g) = (Snapshot(r, "numberOfObjects", t, n) \o s)
                                                   \o Snapshot(r, "storageUtilized", t, v)
                       /\ Stored(s)
    <3> DEFINE n == IF m.bytes # Nil THEN AsIfEmpty(g[1], 1) - 1 ELSE AsIfEmpty(g[1], 1)
               s == IF m.bytes # Nil THEN <<Objects(r, -1), Size(r, -m.bytes)>> ELSE <<>>
               v == MarkerSize(m, Last(g))
    <3>1. Snapshots(m, r, t, g) = (Snapshot(r, "numberOfObjects", t, n) \o s)
                                                   \o Snapshot(r, "storageUtilized", t, v)
      BY <1>6 DEF Snapshots, MarkerSnapshots
    <3>2. Stored(s)
      BY <1>2, StoredNothing
    <3> HIDE DEF n, s, v
    <3>3. QED
      BY <3>1, <3>2
  <2>2. Stored(Snapshot(r, "numberOfObjects", t, n) \o s)
    BY <1>1, <2>1, StoredBoth
  <2>3. QED
    BY <1>1, <2>1, <2>2, StoredBoth
<1>7. Method(m) \in {"part", "overwrite", "complete", "delete", "put", "marker"}
  BY DEF ReadsReplies, Method
<1>8. QED
  BY <1>3, <1>4, <1>5, <1>6, <1>7

LEMMA AllSnapshotsStored ==
  ASSUME NEW m, ReadsReplies(m), NEW t, NEW g
  PROVE  Stored(AllSnapshots(m, t, g))
<1> DEFINE S(l) == Snapshots(m, Levels(m)[l], t, Group(m, t, g, l))
           s == [l \in 1..Len(Levels(m)) |-> S(l)]
           a == S(1)
           b == S(2)
<1>1. Stored(a) /\ Stored(b)
  BY SnapshotsStored
<1>2. s = [l \in 1..2 |-> IF l = 1 THEN a ELSE b]
  <2>1. Len(Levels(m)) = 2
    BY DEF Levels
  <2>2. QED
    BY <2>1
<1>3. AllSnapshots(m, t, g) = FlattenSeq(s)
  BY DEF AllSnapshots
<1> HIDE DEF S, a, b, s
<1>4. Stored(a \o b) /\ \E C : a \in Seq(C) /\ b \in Seq(C)
  BY <1>1, StoredBoth
<1>5. PICK C : a \in Seq(C) /\ b \in Seq(C)
  BY <1>4
<1>6. FlattenSeq(s) = a \o b
  BY <1>2, <1>5, FlattenTwo
<1>7. QED
  BY <1>3, <1>4, <1>6

\* Such commands leave the keys alone that count.
LEMMA StoredQuiet ==
  ASSUME NEW s, Stored(s), NEW D, NEW a, NEW metric \in Counting, NEW u
  PROVE  Value(batch(D, s), generateKey(a, metric, u), 0) = Value(D, generateKey(a, metric, u), 0)
<1> DEFINE k == generateKey(a, metric, u)
<1>1. k[2] \in Counting /\ Counting \cap Sets = {}
  BY V1Assumption DEF generateKey, Counting, Sets, Counters, StateKeys
<1>2. PICK C : s \in Seq(C) /\ \A c \in C : c.key[2] \in Sets
  BY DEF Stored
<1> HIDE DEF k
<1>3. \A c \in C : c.key # k
  BY <1>1, <1>2
<1>4. Value(batch(D, s), k, 0) = Value(D, k, 0)
  BY <1>2, <1>3, BatchQuiet
<1>5. QED
  BY <1>4 DEF k
-----------------------------------------------------------------------------
(***************************************************************************)
(* A listing.  Its parts are the whole range and do not overlap, so it     *)
(* moves with each key by what that key moves.                             *)
(***************************************************************************)

LEMMA DivIs ==
  ASSUME NEW x \in Int, NEW p \in Nat \ {0}
  PROVE  x \div p \in Int /\ x % p \in 0..(p - 1) /\ x = p * (x \div p) + (x % p)
<1>1. x \div p \in Int /\ x % p \in 0..(p - 1)
  BY SMT
<1>2. x = p * (x \div p) + (x % p)
  BY SMT
<1>3. QED
  BY <1>1, <1>2

LEMMA ModIs ==
  ASSUME NEW q \in Int, NEW p \in Nat \ {0}, NEW r \in 0..(p - 1)
  PROVE  (p * q + r) % p = r
BY SMT

LEMMA ModZero ==
  ASSUME NEW x \in Int, NEW p \in Nat \ {0}
  PROVE  x % p = 0 <=> \E q \in Int : x = p * q
<1>1. ASSUME x % p = 0
      PROVE  \E q \in Int : x = p * q
  <2>1. x \div p \in Int /\ x = p * (x \div p) + 0
    BY <1>1, DivIs
  <2>2. p * (x \div p) + 0 = p * (x \div p)
    BY <2>1
  <2>3. QED
    BY <2>1, <2>2
<1>2. ASSUME NEW q \in Int, x = p * q
      PROVE  x % p = 0
  <2>1. 0 \in 0..(p - 1)
    OBVIOUS
  <2>2. (p * q + 0) % p = 0
    BY <2>1, ModIs
  <2>3. p * q + 0 = x
    BY <1>2
  <2>4. QED
    BY <2>2, <2>3
<1>3. QED
  BY <1>1, <1>2

LEMMA ModLess ==
  ASSUME NEW x \in Int, NEW y \in Int, NEW p \in Nat \ {0}, x % p = 0, y % p = 0
  PROVE  (x - y) % p = 0 /\ (x + y) % p = 0
<1>1. PICK a \in Int : x = p * a
  BY ModZero
<1>2. PICK b \in Int : y = p * b
  BY ModZero
<1>3. x - y = p * (a - b) /\ x + y = p * (a + b)
  BY <1>1, <1>2
<1>4. a - b \in Int /\ a + b \in Int /\ x - y \in Int /\ x + y \in Int
  OBVIOUS
<1>5. QED
  BY <1>3, <1>4, ModZero

LEMMA ModTimes ==
  ASSUME NEW n \in Int, NEW x \in Int, NEW p \in Nat \ {0}, x % p = 0
  PROVE  (n * x) % p = 0
<1>1. PICK a \in Int : x = p * a
  BY ModZero
<1>2. n * x = p * (n * a) /\ n * a \in Int /\ n * x \in Int
  BY <1>1
<1>3. QED
  BY <1>2, ModZero

LEMMA QuotientIs ==
  ASSUME NEW x \in Nat, NEW p \in Nat \ {0}, NEW q \in Nat
  PROVE  /\ x \div p \in Nat
         /\ q * p =< x <=> q =< x \div p
         /\ x =< (q + 1) * p - 1 <=> x \div p =< q
<1>1. PICK d \in Int : d = x \div p
  BY DivIs
<1>2. p * d =< x /\ x < p * d + p
  <2>1. x % p \in 0..(p - 1) /\ x = p * d + (x % p) /\ p * d \in Int
    BY <1>1, DivIs
  <2>2. PICK y \in 0..(p - 1) : x = p * d + y
    BY <2>1
  <2>3. QED
    BY <2>1, <2>2
<1>3. \A a, b \in Int : a < b => p * a + p =< p * b
  <2>1. \A a, b \in Int : a < b => b - a >= 1
    OBVIOUS
  <2>2. \A c \in Int : c >= 1 => p * c >= p
    OBVIOUS
  <2>3. \A a, b \in Int : p * (b - a) = p * b - p * a
    OBVIOUS
  <2>4. SUFFICES ASSUME NEW a \in Int, NEW b \in Int, a < b
                 PROVE  p * a + p =< p * b
    OBVIOUS
  <2>5. p * (b - a) >= p /\ p * (b - a) = p * b - p * a /\ p * a \in Int /\ p * b \in Int
    BY <2>1, <2>2, <2>3, <2>4
  <2>6. QED
    BY <2>5
<1>4. d >= 0
  <2>1. d < 0 => p * d + p =< p * 0
    BY <1>3
  <2>2. QED
    BY <1>2, <2>1
<1>5. q * p =< x <=> q =< d
  <2>1. q * p = p * q /\ p * q \in Int /\ p * d \in Int
    OBVIOUS
  <2>2. d < q => p * d + p =< p * q
    BY <1>3
  <2>3. q < d => p * q + p =< p * d
    BY <1>3
  <2>4. QED
    BY <1>2, <2>1, <2>2, <2>3
<1>6. x =< (q + 1) * p - 1 <=> d =< q
  <2>1. (q + 1) * p = p * q + p /\ p * q \in Int /\ p * d \in Int
    OBVIOUS
  <2>2. q < d => p * q + p =< p * d
    BY <1>3
  <2>3. d < q => p * d + p =< p * q
    BY <1>3
  <2>4. QED
    BY <1>2, <2>1, <2>2, <2>3
<1>7. QED
  BY <1>1, <1>4, <1>5, <1>6

\* The parts of a listing follow each other: an instant of it is in one of them.
Covers(parts, n, s, e) ==
  /\ DOMAIN parts = 1..n
  /\ \A i \in 1..n : /\ parts[i][1] \in s..e /\ parts[i][2] \in s..e
                     /\ parts[i][1] =< parts[i][2] /\ parts[i][1] % Period = 0
  /\ \A t \in s..e : \E m \in 1..n : \A i \in 1..n : t \in parts[i][1]..parts[i][2] <=> i = m

LEMMA PartsCover ==
  ASSUME NEW s \in Int, NEW e \in Int, s =< e, s % Period = 0, NEW parts, parts = BuildSubRanges(s, e)
  PROVE  \E n \in Nat : Covers(parts, n, s, e)
<1>0. /\ MaxRange \in Nat \ {0} /\ Period \in Nat \ {0} /\ MaxRange % Period = 0
  BY V1Assumption
<1>1. PICK n : n = (e - s) \div MaxRange + 1
  OBVIOUS
<1>2. n - 1 \in Nat /\ n - 1 = (e - s) \div MaxRange /\ n \in Nat
  BY <1>0, <1>1, QuotientIs
<1>3. parts = [i \in 1..n |-> <<s + (i - 1) * MaxRange, IF i = n THEN e ELSE s + i * MaxRange - 1>>]
  BY <1>1 DEF BuildSubRanges
<1>4. DOMAIN parts = 1..n
  BY <1>3
<1>5. \A i \in 1..n : /\ parts[i][1] = s + (i - 1) * MaxRange
                      /\ parts[i][2] = IF i = n THEN e ELSE s + i * MaxRange - 1
  BY <1>3
<1>6. ASSUME NEW i \in 1..n
      PROVE  /\ parts[i][1] \in s..e /\ parts[i][2] \in s..e
             /\ parts[i][1] =< parts[i][2] /\ parts[i][1] % Period = 0
  <2>1. /\ (i - 1) * MaxRange \in Nat /\ i * MaxRange = (i - 1) * MaxRange + MaxRange
        /\ (i - 1) * MaxRange =< e - s
    <3>1. (i - 1) * MaxRange \in Nat
      BY <1>0, <1>2
    <3>2. i * MaxRange = (i - 1) * MaxRange + MaxRange
      BY <1>0, <1>2
    <3>3. (i - 1) * MaxRange =< e - s
      <4>1. i - 1 \in Nat /\ i - 1 =< n - 1 /\ e - s \in Nat
        BY <1>2
      <4>2. QED
        BY <1>0, <1>2, <4>1, QuotientIs
    <3>4. QED
      BY <3>1, <3>2, <3>3
  <2>2. i # n => i * MaxRange =< e - s
    <3>1. i # n => i \in Nat /\ i =< n - 1 /\ e - s \in Nat
      BY <1>2
    <3>2. QED
      BY <1>0, <1>2, <3>1, QuotientIs
  <2>3. ((i - 1) * MaxRange) % Period = 0
    <3>1. i - 1 \in Int /\ MaxRange \in Int
      BY <1>0, <1>2
    <3>2. QED
      BY <1>0, <3>1, ModTimes
  <2>4. (s + (i - 1) * MaxRange) % Period = 0
    <3>1. (i - 1) * MaxRange \in Int
      BY <2>1
    <3>2. QED
      BY <1>0, <2>3, <3>1, ModLess
  <2>5. i * MaxRange \in Nat
    BY <1>0, <2>1
  <2>6. QED
    BY <1>0, <1>5, <2>1, <2>2, <2>4, <2>5
<1>7. ASSUME NEW t \in s..e
      PROVE  \E m \in 1..n : \A i \in 1..n : t \in parts[i][1]..parts[i][2] <=> i = m
  <2>1. PICK q : q = (t - s) \div MaxRange
    OBVIOUS
  <2>2. q \in Nat /\ q =< n - 1
    <3>1. t - s \in Nat /\ e - s \in Nat /\ t - s =< e - s
      OBVIOUS
    <3>2. q \in Nat
      BY <1>0, <2>1, <3>1, QuotientIs
    <3>3. q * MaxRange =< t - s
      BY <1>0, <2>1, <3>1, <3>2, QuotientIs
    <3>4. q * MaxRange =< e - s
      BY <1>0, <3>1, <3>2, <3>3
    <3>5. QED
      BY <1>0, <1>2, <3>1, <3>2, <3>4, QuotientIs
  <2>3. ASSUME NEW i \in 1..n
        PROVE  t \in parts[i][1]..parts[i][2] <=> i = q + 1
    <3>1. /\ (i - 1) * MaxRange =< t - s <=> i - 1 =< q
          /\ t - s =< ((i - 1) + 1) * MaxRange - 1 <=> q =< i - 1
      <4>1. t - s \in Nat /\ i - 1 \in Nat
        BY <1>2
      <4>2. QED
        BY <1>0, <2>1, <4>1, QuotientIs
    <3>2. (i - 1) + 1 = i /\ (i - 1) * MaxRange \in Int /\ i * MaxRange \in Int
      BY <1>0, <1>2
    <3>3. t \in parts[i][1]..parts[i][2] <=>
            /\ (i - 1) * MaxRange =< t - s
            /\ i # n => t - s =< i * MaxRange - 1
      BY <1>5, <3>2
    <3>4. QED
      BY <1>2, <2>2, <3>1, <3>2, <3>3
  <2>4. q + 1 \in 1..n
    BY <1>2, <2>2
  <2>5. QED
    BY <2>3, <2>4
<1>8. Covers(parts, n, s, e)
  BY <1>4, <1>6, <1>7 DEF Covers
<1>9. QED
  BY <1>2, <1>8

\* A listing of the database D.
TotalIn(D, r, metric, s, e) ==
  SumOver([t \in TimestampRange(s, e) |-> Value(D, generateKey(r, metric, t), 0)], TimestampRange(s, e))

ListedIn(D, r, metric, s, e) ==
  LET parts == BuildSubRanges(s, e)
  IN  SumOver([n \in DOMAIN parts |-> TotalIn(D, r, metric, parts[n][1], parts[n][2])], DOMAIN parts)

Numbers(D, r, metric) == \A u \in Int : Value(D, generateKey(r, metric, u), 0) \in Int

\* E is D with w more at the instant t.
Moved(D, E, r, metric, t, w) ==
  \A u \in Int : Value(E, generateKey(r, metric, u), 0)
                   = Value(D, generateKey(r, metric, u), 0) + IF u = t THEN w ELSE 0

LEMMA RangeIs ==
  ASSUME NEW s \in Int, NEW e \in Int, s =< e, s % Period = 0
  PROVE  /\ IsFiniteSet(TimestampRange(s, e)) /\ TimestampRange(s, e) \subseteq s..e
         /\ \A t \in Int : t % Period = 0 => (t \in TimestampRange(s, e) <=> t \in s..e)
<1>1. TimestampRange(s, e) \subseteq s..e
  BY DEF TimestampRange
<1>2. IsFiniteSet(s..e)
  BY FS_Interval
<1>3. IsFiniteSet(TimestampRange(s, e))
  BY <1>1, <1>2, FS_Subset
<1>4. ASSUME NEW t \in s..e, t % Period = 0
      PROVE  t \in TimestampRange(s, e)
  <2>1. (t - s) % Period = 0
    BY <1>4, V1Assumption, ModLess
  <2>2. QED
    BY <2>1 DEF TimestampRange
<1>5. QED
  BY <1>1, <1>3, <1>4

LEMMA TotalMoves ==
  ASSUME NEW D, NEW E, NEW r, NEW metric, Numbers(D, r, metric),
         NEW t \in Int, t % Period = 0, NEW w \in Int, Moved(D, E, r, metric, t, w),
         NEW s \in Int, NEW e \in Int, s =< e, s % Period = 0
  PROVE  /\ TotalIn(D, r, metric, s, e) \in Int
         /\ TotalIn(E, r, metric, s, e) = TotalIn(D, r, metric, s, e) + IF t \in s..e THEN w ELSE 0
<1> DEFINE T == TimestampRange(s, e)
           f == [u \in T |-> Value(D, generateKey(r, metric, u), 0)]
           h == [u \in T |-> Value(E, generateKey(r, metric, u), 0)]
<1>1. IsFiniteSet(T) /\ T \subseteq Int /\ (t \in T <=> t \in s..e)
  BY RangeIs
<1>2. /\ \A u \in T : f[u] \in Int /\ h[u] = f[u] + IF u = t THEN w ELSE 0
  BY <1>1 DEF Numbers, Moved
<1>3. TotalIn(D, r, metric, s, e) = SumOver(f, T) /\ TotalIn(E, r, metric, s, e) = SumOver(h, T)
  BY DEF TotalIn
<1> HIDE DEF T, f, h
<1>4. SumOver(f, T) \in Int
  BY <1>1, <1>2, SumType
<1>5. CASE t \in T
  <2>1. h[t] = f[t] + w /\ \A u \in T \ {t} : h[u] = f[u]
    BY <1>2, <1>5
  <2>2. IsFiniteSet(T) /\ \A u \in T : f[u] \in Int
    BY <1>1, <1>2
  <2>3. SumOver(h, T) = SumOver(f, T) + w
    BY <1>5, <2>1, <2>2, SumGrows
  <2>4. QED
    BY <1>1, <1>3, <1>4, <1>5, <2>3
<1>6. CASE t \notin T
  <2>1. \A u \in T : f[u] \in Int /\ f[u] = h[u]
    BY <1>2, <1>6
  <2>2. SumOver(f, T) = SumOver(h, T)
    BY <1>1, <2>1, SumAgrees
  <2>3. QED
    BY <1>1, <1>3, <1>4, <1>6, <2>2
<1>7. QED
  BY <1>5, <1>6

LEMMA ListedMoves ==
  ASSUME NEW D, NEW E, NEW r, NEW metric, Numbers(D, r, metric),
         NEW t \in Int, t % Period = 0, NEW w \in Int, Moved(D, E, r, metric, t, w),
         NEW s \in Int, NEW e \in Int, s =< e, s % Period = 0
  PROVE  /\ ListedIn(D, r, metric, s, e) \in Int
         /\ ListedIn(E, r, metric, s, e) = ListedIn(D, r, metric, s, e) + IF t \in s..e THEN w ELSE 0
<1> DEFINE parts == BuildSubRanges(s, e)
           f == [n \in DOMAIN parts |-> TotalIn(D, r, metric, parts[n][1], parts[n][2])]
           h == [n \in DOMAIN parts |-> TotalIn(E, r, metric, parts[n][1], parts[n][2])]
<1>1. ListedIn(D, r, metric, s, e) = SumOver(f, DOMAIN parts)
      /\ ListedIn(E, r, metric, s, e) = SumOver(h, DOMAIN parts)
  BY DEF ListedIn
<1>2. PICK k \in Nat : Covers(parts, k, s, e)
  BY PartsCover
<1>3. /\ DOMAIN parts = 1..k
      /\ \A i \in 1..k : /\ f[i] = TotalIn(D, r, metric, parts[i][1], parts[i][2])
                         /\ h[i] = TotalIn(E, r, metric, parts[i][1], parts[i][2])
  BY <1>2 DEF Covers
<1> HIDE DEF f, h, parts
<1>4. ASSUME NEW i \in 1..k
      PROVE  /\ f[i] \in Int
             /\ h[i] = f[i] + IF t \in parts[i][1]..parts[i][2] THEN w ELSE 0
  <2>1. PICK x, y : x = parts[i][1] /\ y = parts[i][2]
    OBVIOUS
  <2>2. x \in Int /\ y \in Int /\ x =< y /\ x % Period = 0
    BY <1>2, <2>1 DEF Covers
  <2>3. /\ TotalIn(D, r, metric, x, y) \in Int
        /\ TotalIn(E, r, metric, x, y) = TotalIn(D, r, metric, x, y) + IF t \in x..y THEN w ELSE 0
    BY <2>2, TotalMoves
  <2>4. QED
    BY <1>3, <2>1, <2>3
<1>5. IsFiniteSet(1..k)
  BY FS_Interval
<1>6. SumOver(f, 1..k) \in Int
  BY <1>4, <1>5, SumType
<1>7. CASE t \in s..e
  <2>1. PICK m \in 1..k : \A i \in 1..k : t \in parts[i][1]..parts[i][2] <=> i = m
    BY <1>2, <1>7 DEF Covers
  <2>2. h[m] = f[m] + w /\ \A i \in (1..k) \ {m} : h[i] = f[i]
    <3>1. h[m] = f[m] + w
      BY <1>4, <2>1
    <3>2. ASSUME NEW i \in (1..k) \ {m}
          PROVE  h[i] = f[i]
      BY <1>4, <2>1
    <3>3. QED
      BY <3>1, <3>2
  <2>3. \A i \in 1..k : f[i] \in Int
    BY <1>4
  <2>4. SumOver(h, 1..k) = SumOver(f, 1..k) + w
    BY <1>5, <2>2, <2>3, SumGrows
  <2>5. QED
    BY <1>1, <1>3, <1>6, <1>7, <2>4
<1>8. CASE t \notin s..e
  <2>1. ASSUME NEW i \in 1..k
        PROVE  f[i] \in Int /\ f[i] = h[i]
    <3>1. t \notin parts[i][1]..parts[i][2]
      BY <1>2, <1>8, SMTT(20) DEF Covers
    <3>2. QED
      BY <1>4, <3>1
  <2>2. SumOver(f, 1..k) = SumOver(h, 1..k)
    BY <1>5, <2>1, SumAgrees
  <2>3. QED
    BY <1>1, <1>3, <1>6, <1>8, <2>2
<1>9. QED
  BY <1>7, <1>8

\* A database in which nothing counts.
LEMMA ListedNothing ==
  ASSUME NEW D, NEW r, NEW metric, \A u \in Int : Value(D, generateKey(r, metric, u), 0) = 0,
         NEW s \in Int, NEW e \in Int, s =< e, s % Period = 0
  PROVE  ListedIn(D, r, metric, s, e) = 0
<1> DEFINE parts == BuildSubRanges(s, e)
           f == [n \in DOMAIN parts |-> TotalIn(D, r, metric, parts[n][1], parts[n][2])]
<1>1. ListedIn(D, r, metric, s, e) = SumOver(f, DOMAIN parts)
  BY DEF ListedIn
<1>2. PICK k \in Nat : Covers(parts, k, s, e)
  BY PartsCover
<1>3. /\ DOMAIN parts = 1..k
      /\ \A i \in 1..k : f[i] = TotalIn(D, r, metric, parts[i][1], parts[i][2])
  BY <1>2 DEF Covers
<1> HIDE DEF f, parts
<1>4. ASSUME NEW i \in 1..k
      PROVE  f[i] = 0
  <2>1. PICK x, y : x = parts[i][1] /\ y = parts[i][2]
    OBVIOUS
  <2>2. x \in Int /\ y \in Int /\ x =< y /\ x % Period = 0
    BY <1>2, <2>1 DEF Covers
  <2> DEFINE T == TimestampRange(x, y)
             g == [u \in T |-> Value(D, generateKey(r, metric, u), 0)]
  <2>3. IsFiniteSet(T) /\ T \subseteq Int
    BY <2>2, RangeIs
  <2>4. \A u \in T : g[u] = 0
    BY <2>3
  <2>5. TotalIn(D, r, metric, x, y) = SumOver(g, T)
    BY DEF TotalIn
  <2> HIDE DEF g, T
  <2>6. SumOver(g, T) = 0
    BY <2>3, <2>4, SumZero
  <2>7. QED
    BY <1>3, <2>1, <2>5, <2>6
<1>5. IsFiniteSet(1..k)
  BY FS_Interval
<1>6. SumOver(f, 1..k) = 0
  BY <1>4, <1>5, SumZero
<1>7. QED
  BY <1>1, <1>3, <1>6
-----------------------------------------------------------------------------
(***************************************************************************)
(* What the pushes that were counted weigh.                                *)
(***************************************************************************)

\* How often and with what weight a push p is counted in x, if its log is l.
TimesIn(l, x) == Cardinality({n \in DOMAIN l : l[n] \in x[1]..x[2]})

Term(p, l, a, metric, x) ==
  IF p.at = "new" \/ p.metric.account # a THEN 0 ELSE TimesIn(l, x) * Weight(p.metric, metric)

WeighedIn(P, L, a, metric, x) == SumOver([i \in Ids |-> Term(P[i], L[i], a, metric, x)], Ids)

ListedAccounts == {m.account : m \in Metrics}

Exact(D, P, L) ==
  \A x \in ValidRanges, a \in ListedAccounts, metric \in Counting :
    ListedIn(D, a, metric, x[1], x[2]) = WeighedIn(P, L, a, metric, x)

LEMMA ExactIs ==
  /\ ListingExact <=> Exact(db, push, log)
  /\ ListingExact' <=> Exact(db', push', log')
<1>1. \A a, metric, x : Weighed(a, metric, x) = WeighedIn(push, log, a, metric, x)
  BY DEF Weighed, WeighedIn, Term, Times, TimesIn
<1>2. \A a, metric, x : Weighed(a, metric, x)' = WeighedIn(push', log', a, metric, x)
  BY DEF Weighed, WeighedIn, Term, Times, TimesIn
<1>3. \A a, metric, s, e : Listed(a, metric, s, e) = ListedIn(db, a, metric, s, e)
  BY DEF Listed, ListedIn, Total, TotalIn
<1>4. \A a, metric, s, e : Listed(a, metric, s, e)' = ListedIn(db', a, metric, s, e)
  BY DEF Listed, ListedIn, Total, TotalIn
<1>5. QED
  BY <1>1, <1>2, <1>3, <1>4 DEF ListingExact, Exact, ListedAccounts, Counting

LEMMA TimesIs ==
  ASSUME NEW l \in Seq(Int), NEW x, x[1] \in Int, x[2] \in Int
  PROVE  /\ TimesIn(l, x) \in Nat /\ TimesIn(<<>>, x) = 0
         /\ \A t \in Int : TimesIn(Append(l, t), x) = TimesIn(l, x) + IF t \in x[1]..x[2] THEN 1 ELSE 0
<1> DEFINE S(s) == {n \in DOMAIN s : s[n] \in x[1]..x[2]}
<1>1. IsFiniteSet(S(l)) /\ Cardinality(S(l)) \in Nat
  <2>1. IsFiniteSet(1..Len(l))
    BY FS_Interval
  <2>2. S(l) \subseteq 1..Len(l)
    OBVIOUS
  <2> HIDE DEF S
  <2>3. QED
    BY <2>1, <2>2, FS_Subset, FS_CardinalityType
<1>2. TimesIn(<<>>, x) = 0
  <2>1. S(<<>>) = {}
    OBVIOUS
  <2>2. QED
    BY <2>1, FS_EmptySet DEF TimesIn
<1>3. ASSUME NEW t \in Int
      PROVE  TimesIn(Append(l, t), x) = TimesIn(l, x) + IF t \in x[1]..x[2] THEN 1 ELSE 0
  <2> DEFINE n == Len(l) + 1
             m == Append(l, t)
  <2>1. /\ DOMAIN m = DOMAIN l \cup {n} /\ n \notin DOMAIN l
        /\ m[n] = t /\ \A j \in DOMAIN l : m[j] = l[j]
    OBVIOUS
  <2> HIDE DEF m, n
  <2>2. S(m) = IF t \in x[1]..x[2] THEN S(l) \cup {n} ELSE S(l)
    BY <2>1
  <2>3. n \notin S(l)
    BY <2>1
  <2>4. TimesIn(l, x) = Cardinality(S(l)) /\ TimesIn(m, x) = Cardinality(S(m))
    BY DEF TimesIn
  <2> HIDE DEF S
  <2>5. Cardinality(S(l) \cup {n}) = Cardinality(S(l)) + 1
    BY <1>1, <2>3, FS_AddElement
  <2>6. QED
    BY <1>1, <2>2, <2>4, <2>5 DEF m
<1>4. QED
  BY <1>1, <1>2, <1>3 DEF TimesIn

LEMMA WeightType ==
  ASSUME NEW m, Known(m), NEW metric
  PROVE  Weight(m, metric) \in Int
BY DEF Weight, Known, Moves

\* A push as the listings need it.
PushInv(p, l) ==
  /\ p.time \in Int /\ p.time % Period = 0
  /\ p.at = "new" => l = <<>>
  /\ p.at # "new" => Known(p.metric) /\ p.metric.bucket \notin ListedAccounts
  /\ p.at = "snapshot" => ReadsReplies(p.metric)
  /\ p.at = "expire" => \A k \in p.got : k[1] \notin ListedAccounts

LEMMA TermIs ==
  ASSUME NEW p, NEW l \in Seq(Int), PushInv(p, l), NEW a, NEW metric, NEW x \in ValidRanges
  PROVE  /\ Term(p, l, a, metric, x) \in Int
         /\ l = <<>> => Term(p, l, a, metric, x) = 0
<1>1. x[1] \in Int /\ x[2] \in Int
  BY V1Assumption DEF ValidRanges
<1>2. TimesIn(l, x) \in Nat /\ TimesIn(<<>>, x) = 0
  BY <1>1, TimesIs
<1>3. p.at # "new" => Weight(p.metric, metric) \in Int
  BY WeightType DEF PushInv
<1>4. QED
  BY <1>2, <1>3 DEF Term

\* The pushes and the logs weigh the same if no log and no metric changes.
Same(p, q, l) == q = p \/ l = <<>> \/ (p.at # "new" /\ q.at # "new" /\ q.metric = p.metric)

LEMMA WeighedSame ==
  ASSUME NEW P, NEW Q, NEW L, NEW a, NEW metric, NEW x \in ValidRanges,
         \A i \in Ids : /\ L[i] \in Seq(Int) /\ PushInv(P[i], L[i]) /\ PushInv(Q[i], L[i])
                        /\ Same(P[i], Q[i], L[i])
  PROVE  WeighedIn(Q, L, a, metric, x) = WeighedIn(P, L, a, metric, x)
<1> DEFINE f == [i \in Ids |-> Term(P[i], L[i], a, metric, x)]
           h == [i \in Ids |-> Term(Q[i], L[i], a, metric, x)]
<1>1. ASSUME NEW i \in Ids
      PROVE  f[i] \in Int /\ f[i] = h[i]
  <2>1. f[i] = Term(P[i], L[i], a, metric, x) /\ h[i] = Term(Q[i], L[i], a, metric, x)
    OBVIOUS
  <2>2. /\ Term(P[i], L[i], a, metric, x) \in Int
        /\ L[i] = <<>> => Term(P[i], L[i], a, metric, x) = 0 /\ Term(Q[i], L[i], a, metric, x) = 0
    BY TermIs
  <2>3. Term(P[i], L[i], a, metric, x) = Term(Q[i], L[i], a, metric, x)
    BY <2>2 DEF Same, Term
  <2>4. QED
    BY <2>1, <2>2, <2>3
<1>2. WeighedIn(P, L, a, metric, x) = SumOver(f, Ids) /\ WeighedIn(Q, L, a, metric, x) = SumOver(h, Ids)
  BY DEF WeighedIn
<1> HIDE DEF f, h
<1>3. QED
  BY <1>1, <1>2, V1Assumption, SumAgrees

\* A push that is counted once more at t weighs more.
LEMMA WeighedMore ==
  ASSUME NEW P, NEW Q, NEW L, NEW M, NEW a, NEW metric, NEW x \in ValidRanges, NEW i \in Ids, NEW t \in Int,
         \A j \in Ids : L[j] \in Seq(Int) /\ PushInv(P[j], L[j]),
         P[i].at # "new", Q[i].at # "new", Q[i].metric = P[i].metric, M[i] = Append(L[i], t),
         \A j \in Ids \ {i} : Q[j] = P[j] /\ M[j] = L[j]
  PROVE  WeighedIn(Q, M, a, metric, x)
           = WeighedIn(P, L, a, metric, x)
               + IF P[i].metric.account = a /\ t \in x[1]..x[2] THEN Weight(P[i].metric, metric) ELSE 0
<1> DEFINE f == [j \in Ids |-> Term(P[j], L[j], a, metric, x)]
           h == [j \in Ids |-> Term(Q[j], M[j], a, metric, x)]
           w == IF P[i].metric.account = a /\ t \in x[1]..x[2] THEN Weight(P[i].metric, metric) ELSE 0
<1>1. \A j \in Ids : f[j] \in Int
  <2>1. \A j \in Ids : Term(P[j], L[j], a, metric, x) \in Int
    BY TermIs
  <2>2. QED
    BY <2>1
<1>2. \A j \in Ids \ {i} : h[j] = f[j]
  OBVIOUS
<1>3. h[i] = f[i] + w /\ w \in Int
  <2>1. x[1] \in Int /\ x[2] \in Int
    BY V1Assumption DEF ValidRanges
  <2>2. PICK n, m, v : n = TimesIn(L[i], x) /\ m = TimesIn(M[i], x) /\ v = Weight(P[i].metric, metric)
    OBVIOUS
  <2>3. n \in Nat /\ m = n + IF t \in x[1]..x[2] THEN 1 ELSE 0
    BY <2>1, <2>2, TimesIs
  <2>4. v \in Int
    BY <2>2, WeightType DEF PushInv
  <2>5. /\ f[i] = IF P[i].metric.account # a THEN 0 ELSE n * v
        /\ h[i] = IF P[i].metric.account # a THEN 0 ELSE m * v
    BY <2>2 DEF Term
  <2>6. w = IF P[i].metric.account = a /\ t \in x[1]..x[2] THEN v ELSE 0
    BY <2>2
  <2>7. (n + 1) * v = n * v + v /\ (n + 0) * v = n * v /\ n * v \in Int
    BY <2>3, <2>4
  <2> HIDE DEF f, h, w
  <2>8. CASE t \in x[1]..x[2]
    BY <2>3, <2>4, <2>5, <2>6, <2>7, <2>8
  <2>9. CASE t \notin x[1]..x[2]
    BY <2>3, <2>4, <2>5, <2>6, <2>7, <2>9
  <2>10. QED
    BY <2>8, <2>9
<1>4. WeighedIn(P, L, a, metric, x) = SumOver(f, Ids) /\ WeighedIn(Q, M, a, metric, x) = SumOver(h, Ids)
  BY DEF WeighedIn
<1> HIDE DEF f, h, w
<1>5. IsFiniteSet(Ids)
  BY V1Assumption
<1>6. SumOver(h, Ids) = SumOver(f, Ids) + w
  BY <1>1, <1>2, <1>3, <1>5, SumGrows
<1>7. QED
  BY <1>4, <1>6 DEF w
-----------------------------------------------------------------------------
(***************************************************************************)
(* The listings are exact, step by step.                                   *)
(***************************************************************************)

LedgerInv ==
  /\ \A i \in Ids : PushInv(push[i], log[i])
  /\ \A k \in dying : k[1] \notin ListedAccounts
  /\ \A a \in ListedAccounts, metric \in Counting : Numbers(db, a, metric)
  /\ Exact(db, push, log)

LEMMA RangesAre ==
  ASSUME NEW x \in ValidRanges
  PROVE  x[1] \in Int /\ x[2] \in Int /\ x[1] =< x[2] /\ x[1] % Period = 0
BY V1Assumption DEF ValidRanges

\* A step that counts nothing.
LEMMA QuietStep ==
  ASSUME CountInv, LedgerInv, log' = log,
         \A i \in Ids : PushInv(push'[i], log[i]) /\ Same(push[i], push'[i], log[i]),
         \A k \in dying' : k[1] \notin ListedAccounts,
         \A a \in ListedAccounts, metric \in Counting, u \in Int :
           Value(db', generateKey(a, metric, u), 0) = Value(db, generateKey(a, metric, u), 0)
  PROVE  LedgerInv'
<1>1. \A i \in Ids : log[i] \in Seq(Int)
  BY DEF CountInv, PushTypes
<1>2. \A a \in ListedAccounts, metric \in Counting : Numbers(db', a, metric)
  BY DEF LedgerInv, Numbers
<1>3. ASSUME NEW x \in ValidRanges, NEW a \in ListedAccounts, NEW metric \in Counting
      PROVE  ListedIn(db', a, metric, x[1], x[2]) = WeighedIn(push', log', a, metric, x)
  <2>1. WeighedIn(push', log, a, metric, x) = WeighedIn(push, log, a, metric, x)
    BY <1>1, WeighedSame DEF LedgerInv
  <2>2. Moved(db, db', a, metric, 0, 0) /\ Numbers(db, a, metric) /\ 0 % Period = 0
    BY V1Assumption DEF Moved, LedgerInv, Numbers
  <2>3. PICK s, e : s = x[1] /\ e = x[2]
    OBVIOUS
  <2>4. s \in Int /\ e \in Int /\ s =< e /\ s % Period = 0
    BY <2>3, RangesAre
  <2>5. PICK D : D = db'
    OBVIOUS
  <2>6. Moved(db, D, a, metric, 0, 0)
    BY <2>2, <2>5
  <2>7. /\ ListedIn(db, a, metric, s, e) \in Int
        /\ ListedIn(D, a, metric, s, e) = ListedIn(db, a, metric, s, e) + IF 0 \in s..e THEN 0 ELSE 0
    BY <2>2, <2>4, <2>6, ListedMoves
  <2>8. ListedIn(db, a, metric, s, e) = WeighedIn(push, log, a, metric, x)
    BY <2>3 DEF LedgerInv, Exact
  <2>9. QED
    BY <2>1, <2>3, <2>5, <2>7, <2>8
<1>4. Exact(db, push, log)'
  BY <1>3 DEF Exact
<1>5. QED
  BY <1>2, <1>4 DEF LedgerInv

\* A step that counts the push i in its period.
LEMMA CountedStep ==
  ASSUME CountInv, LedgerInv, NEW i \in Ids, push[i].at # "new",
         push'[i].at # "new", push'[i].metric = push[i].metric,
         \A j \in Ids \ {i} : push'[j] = push[j],
         log' = [log EXCEPT ![i] = Append(@, push[i].time)],
         \A l : PushInv(push'[i], l), dying' = dying,
         \A a \in ListedAccounts, metric \in Counting, u \in Int :
           Value(db', generateKey(a, metric, u), 0)
             = Value(db, generateKey(a, metric, u), 0)
                 + IF push[i].metric.account = a /\ push[i].time = u
                   THEN Weight(push[i].metric, metric) ELSE 0
  PROVE  LedgerInv'
<1>1. /\ \A j \in Ids : log[j] \in Seq(Int) /\ PushInv(push[j], log[j])
      /\ log'[i] = Append(log[i], push[i].time) /\ \A j \in Ids \ {i} : log'[j] = log[j]
  BY DEF CountInv, PushTypes, LedgerInv
<1>2. PICK t, m : t = push[i].time /\ m = push[i].metric
  OBVIOUS
<1>3. t \in Int /\ t % Period = 0 /\ Known(m)
  BY <1>1, <1>2 DEF PushInv
<1>4. \A j \in Ids : PushInv(push'[j], log'[j])
  BY <1>1
<1>5. ASSUME NEW a \in ListedAccounts, NEW metric \in Counting
      PROVE  /\ Numbers(db, a, metric)
             /\ Moved(db, db', a, metric, t, IF m.account = a THEN Weight(m, metric) ELSE 0)
             /\ Numbers(db', a, metric)
  <2>1. Weight(m, metric) \in Int
    BY <1>3, WeightType
  <2>2. Numbers(db, a, metric)
    BY DEF LedgerInv
  <2>3. ASSUME NEW u \in Int
        PROVE  Value(db', generateKey(a, metric, u), 0)
                 = Value(db, generateKey(a, metric, u), 0)
                     + IF u = t THEN IF m.account = a THEN Weight(m, metric) ELSE 0 ELSE 0
    BY <1>2
  <2>4. QED
    BY <2>1, <2>2, <2>3 DEF Moved, Numbers
<1>6. ASSUME NEW x \in ValidRanges, NEW a \in ListedAccounts, NEW metric \in Counting
      PROVE  ListedIn(db', a, metric, x[1], x[2]) = WeighedIn(push', log', a, metric, x)
  <2>1. PICK D, Q, M : D = db' /\ Q = push' /\ M = log'
    OBVIOUS
  <2>2. PICK s, e : s = x[1] /\ e = x[2]
    OBVIOUS
  <2>3. s \in Int /\ e \in Int /\ s =< e /\ s % Period = 0
    BY <2>2, RangesAre
  <2>4. PICK w : w = IF m.account = a THEN Weight(m, metric) ELSE 0
    OBVIOUS
  <2>5. w \in Int
    BY <1>3, <2>4, WeightType
  <2>6. Numbers(db, a, metric) /\ Moved(db, D, a, metric, t, w)
    BY <1>5, <2>1, <2>4
  <2>7. ListedIn(D, a, metric, s, e) = ListedIn(db, a, metric, s, e) + IF t \in s..e THEN w ELSE 0
    BY <1>3, <2>3, <2>5, <2>6, ListedMoves
  <2>8. WeighedIn(Q, M, a, metric, x)
          = WeighedIn(push, log, a, metric, x)
              + IF push[i].metric.account = a /\ t \in x[1]..x[2] THEN Weight(push[i].metric, metric) ELSE 0
    <3>1. /\ push[i].at # "new" /\ Q[i].at # "new" /\ Q[i].metric = push[i].metric
          /\ M[i] = Append(log[i], t) /\ \A j \in Ids \ {i} : Q[j] = push[j] /\ M[j] = log[j]
      BY <1>1, <1>2, <2>1
    <3>2. \A j \in Ids : log[j] \in Seq(Int) /\ PushInv(push[j], log[j])
      BY <1>1
    <3>3. PICK P, L : P = push /\ L = log
      OBVIOUS
    <3>4. t \in Int
      BY <1>3
    <3>5. \A j \in Ids : L[j] \in Seq(Int) /\ PushInv(P[j], L[j])
      BY <3>2, <3>3
    <3>6. /\ P[i].at # "new" /\ Q[i].at # "new" /\ Q[i].metric = P[i].metric
          /\ M[i] = Append(L[i], t)
      BY <3>1, <3>3
    <3>7. \A j \in Ids \ {i} : Q[j] = P[j] /\ M[j] = L[j]
      BY <3>1, <3>3
    <3>8. WeighedIn(Q, M, a, metric, x)
            = WeighedIn(P, L, a, metric, x)
                + IF P[i].metric.account = a /\ t \in x[1]..x[2] THEN Weight(P[i].metric, metric) ELSE 0
      BY <3>4, <3>5, <3>6, <3>7, WeighedMore
    <3>9. QED
      BY <3>3, <3>8
  <2>9. ListedIn(db, a, metric, s, e) = WeighedIn(push, log, a, metric, x)
    BY <2>2 DEF LedgerInv, Exact
  <2>10. QED
    BY <1>2, <2>1, <2>2, <2>4, <2>7, <2>8, <2>9
<1>7. Exact(db, push, log)'
  BY <1>6 DEF Exact
<1>8. QED
  BY <1>4, <1>5, <1>7 DEF LedgerInv

\* A metric that is pushed in a period of the present.
LEMMA StartInv ==
  ASSUME CountInv, NEW m, Known(m), m.bucket \notin ListedAccounts, NEW by, NEW l
  PROVE  PushInv(Start(m, by), l) /\ Start(m, by).at # "new" /\ Start(m, by).metric = m
<1>1. getNormalizedTimestamp \in Int /\ getNormalizedTimestamp % Period = 0
  <2>1. now \in Int /\ Period \in Nat \ {0}
    BY V1Assumption DEF CountInv, PushTypes
  <2>2. PICK n, p : n = now /\ p = Period
    OBVIOUS
  <2>3. n \div p \in Int /\ n % p \in Int /\ n - (n % p) = p * (n \div p)
    BY <2>1, <2>2, DivIs
  <2>4. n - (n % p) \in Int
    BY <2>1, <2>2, <2>3
  <2>5. (n - (n % p)) % p = 0
    BY <2>1, <2>2, <2>3, <2>4, ModZero
  <2>6. QED
    BY <2>2, <2>4, <2>5 DEF getNormalizedTimestamp
<1>2. Start(m, by).at \in {"batch", "scan", "done"}
  BY DEF Start, AfterCounting
<1>3. Start(m, by).time = getNormalizedTimestamp /\ Start(m, by).metric = m
  BY DEF Start
<1>4. QED
  BY <1>1, <1>2, <1>3 DEF PushInv

\* The stage a push is in and what it got do not matter to the listings.
Further(p, r) ==
  r.metric = p.metric /\ r.time = p.time /\ p.at # "new" /\ r.at \notin {"new", "snapshot", "expire"}

LEMMA FurtherInv ==
  ASSUME NEW p, NEW r, NEW l, PushInv(p, l), Further(p, r)
  PROVE  Same(p, r, l) /\ \A k : PushInv(r, k)
BY DEF PushInv, Same, Further

\* A step of one push that counts nothing.
LEMMA QuietPush ==
  ASSUME CountInv, LedgerInv, NEW i \in Ids, NEW r, push' = [push EXCEPT ![i] = r],
         PushInv(r, log[i]), Same(push[i], r, log[i]), log' = log,
         \A k \in dying' : k[1] \notin ListedAccounts,
         \A a \in ListedAccounts, metric \in Counting, u \in Int :
           Value(db', generateKey(a, metric, u), 0) = Value(db, generateKey(a, metric, u), 0)
  PROVE  LedgerInv'
<1>1. push'[i] = r /\ \A j \in Ids \ {i} : push'[j] = push[j]
  BY DEF CountInv, PushTypes
<1>2. \A j \in Ids : PushInv(push'[j], log[j]) /\ Same(push[j], push'[j], log[j])
  <2>1. ASSUME NEW j \in Ids
        PROVE  PushInv(push'[j], log[j]) /\ Same(push[j], push'[j], log[j])
    <3>1. CASE j = i
      BY <1>1, <3>1
    <3>2. CASE j # i
      BY <1>1, <3>2 DEF LedgerInv, Same
    <3>3. QED
      BY <3>1, <3>2
  <2>2. QED
    BY <2>1
<1>3. QED
  BY <1>2, QuietStep

LEMMA PushMetricStep ==
  ASSUME CountInv, LedgerInv, NEW i \in Ids, NEW m, Known(m), m.bucket \notin ListedAccounts,
         pushMetric(i, m)
  PROVE  LedgerInv'
<1>1. log[i] = <<>>
  BY DEF pushMetric, LedgerInv, PushInv
<1>2. PICK r : r = Start(m, "client")
  OBVIOUS
<1>3. PushInv(r, log[i]) /\ Same(push[i], r, log[i])
  BY <1>1, <1>2, StartInv DEF Same
<1>4. push' = [push EXCEPT ![i] = r] /\ UNCHANGED <<db, dying, log>>
  BY <1>2 DEF pushMetric, redis
<1>5. \A k \in dying' : k[1] \notin ListedAccounts
  BY <1>4 DEF LedgerInv
<1>6. \A a \in ListedAccounts, metric \in Counting, u \in Int :
        Value(db', generateKey(a, metric, u), 0) = Value(db, generateKey(a, metric, u), 0)
  BY <1>4
<1>7. QED
  BY <1>3, <1>4, <1>5, <1>6, QuietPush

\* The first transaction.
LEMMA CountStep ==
  ASSUME CountInv, LedgerInv, NEW i \in Ids, NEW lost, Lost(i, lost), Count(i, lost), push[i].at = "batch"
  PROVE  LedgerInv'
<1>1. PushInv(push[i], log[i]) /\ Known(push[i].metric) /\ push[i].metric.bucket \notin ListedAccounts
  BY DEF LedgerInv, PushInv
<1> DEFINE s == IF lost # {} THEN "failed"
                ELSE IF lost = {} /\ ReadsReplies(push[i].metric) THEN "snapshot"
                ELSE AfterCounting(push[i].metric)
<1>2. PICK g : push' = [push EXCEPT ![i].at = s, ![i].got = g]
  BY DEF Count
<1>3. log' = [log EXCEPT ![i] = Append(@, push[i].time)] /\ dying' = dying
  BY DEF Count
<1> DEFINE r == [[push[i] EXCEPT !.at = s] EXCEPT !.got = g]
<1>4. push'[i] = r /\ \A j \in Ids \ {i} : push'[j] = push[j]
  BY <1>2 DEF CountInv, PushTypes
<1>5. s \in {"failed", "snapshot", "scan", "done"} /\ (s = "snapshot" => ReadsReplies(push[i].metric))
  BY DEF AfterCounting
<1> HIDE DEF s
<1>6. r.at = s /\ r.metric = push[i].metric /\ r.time = push[i].time
  BY DEF CountInv, PushTypes, Shaped, PushFields
<1> HIDE DEF r
<1>7. \A l : PushInv(push'[i], l)
  BY <1>1, <1>4, <1>5, <1>6 DEF PushInv
<1>8. \A a \in ListedAccounts, metric \in Counting, u \in Int :
        Value(db', generateKey(a, metric, u), 0)
          = Value(db, generateKey(a, metric, u), 0)
              + IF push[i].metric.account = a /\ push[i].time = u
                THEN Weight(push[i].metric, metric) ELSE 0
  <2>1. ASSUME NEW a \in ListedAccounts, NEW metric \in Counting, NEW u \in Int
        PROVE  Value(db', generateKey(a, metric, u), 0)
                 = Value(db, generateKey(a, metric, u), 0)
                     + IF push[i].metric.account = a /\ push[i].time = u
                       THEN Weight(push[i].metric, metric) ELSE 0
    <3>1. Value(db, generateKey(a, metric, u), 0) \in Int /\ push[i].metric.bucket # a
      BY <1>1 DEF LedgerInv, Numbers
    <3>2. QED
      BY <1>1, <3>1, CountAdds
  <2>2. QED
    BY <2>1
<1>9. push'[i].at # "new" /\ push'[i].metric = push[i].metric /\ push[i].at # "new"
  BY <1>4, <1>5, <1>6
<1>10. QED
  BY <1>3, <1>4, <1>7, <1>8, <1>9, CountedStep

LEMMA BatchSteps ==
  ASSUME CountInv, LedgerInv, NEW i \in Ids, BatchDone(i) \/ CommandFailed(i)
  PROVE  LedgerInv'
<1>1. CASE BatchDone(i)
  BY <1>1, CountStep DEF BatchDone, Lost
<1>2. CASE CommandFailed(i)
  <2>1. PICK all : /\ all = AllCommands(push[i].metric, push[i].time)
                   /\ \E n \in DOMAIN all : all[n].key[2] \in Counters /\ Count(i, {n})
    BY <1>2 DEF CommandFailed
  <2>2. PICK n \in DOMAIN all : all[n].key[2] \in Counters /\ Count(i, {n})
    BY <2>1
  <2>3. PICK lost : lost = {n}
    OBVIOUS
  <2>4. Lost(i, lost) /\ Count(i, lost) /\ push[i].at = "batch"
    BY <1>2, <2>1, <2>2, <2>3 DEF CommandFailed, Lost, Sets
  <2>5. QED
    BY <2>4, CountStep
<1>3. QED
  BY <1>1, <1>2

\* A transaction whose answer does not come: Redis executed it, or did not.
LEMMA BatchFailedStep ==
  ASSUME CountInv, LedgerInv, NEW i \in Ids, BatchFailed(i)
  PROVE  LedgerInv'
<1> DEFINE r == [push[i] EXCEPT !.at = "failed"]
<1>1. /\ PushInv(push[i], log[i]) /\ Known(push[i].metric) /\ push[i].metric.bucket \notin ListedAccounts
      /\ push[i].at = "batch"
  BY DEF LedgerInv, PushInv, BatchFailed
<1>2. push' = [push EXCEPT ![i] = r] /\ push'[i] = r /\ \A j \in Ids \ {i} : push'[j] = push[j]
  BY DEF BatchFailed, Goes, CountInv, PushTypes
<1>3. r.at = "failed" /\ r.metric = push[i].metric /\ r.time = push[i].time
  BY DEF CountInv, PushTypes, Shaped, PushFields
<1>4. dying' = dying
  BY DEF BatchFailed
<1> HIDE DEF r
<1>5. Same(push[i], r, log[i]) /\ \A l : PushInv(r, l)
  BY <1>1, <1>3, FurtherInv DEF Further
<1>6. CASE UNCHANGED <<db, log>>
  <2>1. \A a \in ListedAccounts, metric \in Counting, u \in Int :
          Value(db', generateKey(a, metric, u), 0) = Value(db, generateKey(a, metric, u), 0)
    BY <1>6
  <2>2. \A k \in dying' : k[1] \notin ListedAccounts
    BY <1>4 DEF LedgerInv
  <2>3. PushInv(r, log[i])
    BY <1>5
  <2>4. log' = log
    BY <1>6
  <2>5. QED
    BY <1>2, <1>5, <2>1, <2>2, <2>3, <2>4, QuietPush
<1>7. CASE /\ db' = batch(db, AllCommands(push[i].metric, push[i].time))
           /\ log' = [log EXCEPT ![i] = Append(@, push[i].time)]
  <2>1. \A a \in ListedAccounts, metric \in Counting, u \in Int :
          Value(db', generateKey(a, metric, u), 0)
            = Value(db, generateKey(a, metric, u), 0)
                + IF push[i].metric.account = a /\ push[i].time = u
                  THEN Weight(push[i].metric, metric) ELSE 0
    <3>1. ASSUME NEW a \in ListedAccounts, NEW metric \in Counting, NEW u \in Int
          PROVE  Value(db', generateKey(a, metric, u), 0)
                   = Value(db, generateKey(a, metric, u), 0)
                       + IF push[i].metric.account = a /\ push[i].time = u
                         THEN Weight(push[i].metric, metric) ELSE 0
      <4>1. Value(db, generateKey(a, metric, u), 0) \in Int /\ push[i].metric.bucket # a
        BY <1>1 DEF LedgerInv, Numbers
      <4>2. PICK m, t, w : /\ m = push[i].metric /\ t = push[i].time
                           /\ w = IF m.account = a /\ t = u THEN Weight(m, metric) ELSE 0
        OBVIOUS
      <4>3. Adds(AllCommands(m, t), generateKey(a, metric, u), w)
        BY <1>1, <4>1, <4>2, AllCommandsAdd
      <4>4. Value(batch(db, AllCommands(m, t)), generateKey(a, metric, u), 0)
              = Value(db, generateKey(a, metric, u), 0) + w
        BY <4>1, <4>3 DEF Adds, Gives
      <4>5. QED
        BY <1>7, <4>2, <4>4
    <3>2. QED
      BY <3>1
  <2>2. push'[i].at # "new" /\ push'[i].metric = push[i].metric /\ push[i].at # "new"
    BY <1>1, <1>2, <1>3
  <2>3. \A l : PushInv(push'[i], l)
    BY <1>2, <1>5
  <2>4. QED
    BY <1>2, <1>4, <1>7, <2>1, <2>2, <2>3, CountedStep
<1>8. QED
  BY <1>6, <1>7 DEF BatchFailed

\* The second transaction, and the end of a push.
LEMMA StoreStep ==
  ASSUME CountInv, LedgerInv, NEW i \in Ids, StoreSnapshots(i)
  PROVE  LedgerInv'
<1>1. /\ PushInv(push[i], log[i]) /\ push[i].at = "snapshot" /\ ReadsReplies(push[i].metric)
      /\ Shaped(push[i])
  BY DEF LedgerInv, PushInv, StoreSnapshots, CountInv, PushTypes
<1>2. PICK r : r = [[push[i] EXCEPT !.at = "done"] EXCEPT !.got = <<>>]
  OBVIOUS
<1>3. push' = [push EXCEPT ![i] = r] /\ log' = log
  BY <1>2 DEF StoreSnapshots, CountInv, PushTypes
<1>4. Further(push[i], r)
  BY <1>1, <1>2 DEF Further, Shaped, PushFields
<1>5. Same(push[i], r, log[i]) /\ PushInv(r, log[i])
  BY <1>1, <1>4, FurtherInv
<1>6. \A k \in dying' : k[1] \notin ListedAccounts
  BY DEF LedgerInv, StoreSnapshots
<1>7. \A a \in ListedAccounts, metric \in Counting, u \in Int :
        Value(db', generateKey(a, metric, u), 0) = Value(db, generateKey(a, metric, u), 0)
  <2>1. CASE UNCHANGED db
    BY <2>1
  <2>2. CASE db' = batch(db, AllSnapshots(push[i].metric, push[i].time, push[i].got))
    <3>1. PICK s : s = AllSnapshots(push[i].metric, push[i].time, push[i].got)
      OBVIOUS
    <3>2. Stored(s)
      BY <1>1, <3>1, AllSnapshotsStored
    <3>3. PICK D : D = db
      OBVIOUS
    <3>4. \A a, u : \A metric \in Counting :
            Value(batch(D, s), generateKey(a, metric, u), 0) = Value(D, generateKey(a, metric, u), 0)
      BY <3>2, StoredQuiet
    <3>5. QED
      BY <2>2, <3>1, <3>3, <3>4
  <2>3. QED
    BY <2>1, <2>2 DEF StoreSnapshots
<1>8. QED
  BY <1>3, <1>5, <1>6, <1>7, QuietPush

\* A push that failed goes to the list or is lost, one whose keys were looked up
\* lets them expire.
LEMMA StageSteps ==
  ASSUME CountInv, LedgerInv, NEW i \in Ids, PushLocalCache(i) \/ ScanKeys(i) \/ ExpireKeys(i)
  PROVE  LedgerInv'
<1>1. PushInv(push[i], log[i]) /\ Shaped(push[i]) /\ DOMAIN push = Ids
  BY DEF LedgerInv, CountInv, PushTypes
<1>2. db' = db /\ log' = log
  BY DEF PushLocalCache, ScanKeys, ExpireKeys, redis
<1>3. \A a \in ListedAccounts, metric \in Counting, u \in Int :
        Value(db', generateKey(a, metric, u), 0) = Value(db, generateKey(a, metric, u), 0)
  BY <1>2
<1>4. ASSUME NEW r, push' = [push EXCEPT ![i] = r], PushInv(r, log[i]), Same(push[i], r, log[i]),
             \A k \in dying' : k[1] \notin ListedAccounts
      PROVE  LedgerInv'
  BY <1>2, <1>3, <1>4, QuietPush
<1>5. CASE PushLocalCache(i)
  <2>1. PICK a \in {"cached", "lost"} : Goes(i, a)
    BY <1>5 DEF PushLocalCache
  <2>2. PICK r : r = [push[i] EXCEPT !.at = a]
    OBVIOUS
  <2>3. push' = [push EXCEPT ![i] = r]
    BY <1>1, <2>1, <2>2 DEF Goes
  <2>4. Further(push[i], r)
    BY <1>1, <1>5, <2>2 DEF PushLocalCache, Further, Shaped, PushFields
  <2>5. Same(push[i], r, log[i]) /\ PushInv(r, log[i])
    BY <1>1, <2>4, FurtherInv
  <2>6. dying' = dying
    BY <1>5 DEF PushLocalCache, redis
  <2>7. \A k \in dying' : k[1] \notin ListedAccounts
    BY <2>6 DEF LedgerInv
  <2>8. QED
    BY <1>4, <2>3, <2>5, <2>7
<1>6. CASE ScanKeys(i)
  <2>1. PICK g : g = {k \in DOMAIN db : k[1] = push[i].metric.bucket}
    OBVIOUS
  <2>2. PICK r : r = [[push[i] EXCEPT !.at = "expire"] EXCEPT !.got = g]
    OBVIOUS
  <2>3. push' = [push EXCEPT ![i] = r]
    BY <1>1, <1>6, <2>1, <2>2 DEF ScanKeys
  <2>4. r.at = "expire" /\ r.got = g /\ r.metric = push[i].metric /\ r.time = push[i].time
    BY <1>1, <2>2 DEF Shaped, PushFields
  <2>5. push[i].at = "scan"
    BY <1>6 DEF ScanKeys
  <2>6. Same(push[i], r, log[i]) /\ PushInv(r, log[i])
    BY <1>1, <2>1, <2>4, <2>5 DEF PushInv, Same
  <2>7. dying' = dying
    BY <1>6 DEF ScanKeys, redis
  <2>8. \A k \in dying' : k[1] \notin ListedAccounts
    BY <2>7 DEF LedgerInv
  <2>9. QED
    BY <1>4, <2>3, <2>6, <2>8
<1>7. CASE ExpireKeys(i)
  <2>1. PICK r : r = [[push[i] EXCEPT !.at = "done"] EXCEPT !.got = <<>>]
    OBVIOUS
  <2>2. push' = [push EXCEPT ![i] = r]
    BY <1>1, <1>7, <2>1 DEF ExpireKeys
  <2>3. push[i].at = "expire"
    BY <1>7 DEF ExpireKeys
  <2>4. Further(push[i], r)
    BY <1>1, <2>1, <2>3 DEF Further, Shaped, PushFields
  <2>5. Same(push[i], r, log[i]) /\ PushInv(r, log[i])
    BY <1>1, <2>4, FurtherInv
  <2>6. \A k \in push[i].got : k[1] \notin ListedAccounts
    BY <1>1, <2>3 DEF PushInv
  <2>7. \A k \in dying' : k[1] \notin ListedAccounts
    BY <1>7, <2>6 DEF ExpireKeys, LedgerInv
  <2>8. QED
    BY <1>4, <2>2, <2>5, <2>7
<1>8. QED
  BY <1>5, <1>6, <1>7

\* No key of a listed account has a time to live.
LEMMA ExpiryStep ==
  ASSUME CountInv, LedgerInv, KeysExpire
  PROVE  LedgerInv'
<1>1. push' = push /\ log' = log /\ dying' = {}
  BY DEF KeysExpire
<1>2. \A j \in Ids : PushInv(push'[j], log[j]) /\ Same(push[j], push'[j], log[j])
  BY <1>1 DEF LedgerInv, Same
<1>3. ASSUME NEW a \in ListedAccounts, NEW metric \in Counting, NEW u \in Int
      PROVE  Value(db', generateKey(a, metric, u), 0) = Value(db, generateKey(a, metric, u), 0)
  <2>1. generateKey(a, metric, u) \notin dying
    BY DEF LedgerInv, generateKey
  <2>2. db' = [x \in DOMAIN db \ dying |-> db[x]]
    BY DEF KeysExpire, Restrict
  <2>3. QED
    BY <2>1, <2>2 DEF Value
<1>4. QED
  BY <1>1, <1>2, <1>3, QuietStep

\* What a job starts again, and what is lost with it.
Restarted(S) ==
  push' = [i \in Ids |-> IF i \in S THEN Start(push[i].metric, "replay") ELSE push[i]]

Restarting == \E j \in Jobs : PushCachedMetrics(j) \/ PopFailed(j)
Polling == \E j \in Jobs : ReplayJob(j) \/ CheckLocalCache(j) \/ GetCachedMetrics(j)

LEMMA Restarts ==
  ASSUME CountInv, Restarting \/ Crash
  PROVE  \E S : \/ Restarted(S) /\ (\A i \in S : push[i].at = "cached")
                \/ Lose(S) /\ (\A i \in S : push[i].at \in InFlight \cup {"cached"})
<1>1. \A j \in Jobs : \A i \in ToSet(replay[j].held) : push[i].at = "cached"
  BY HeldAre
<1>2. ASSUME NEW j \in Jobs, PushCachedMetrics(j) \/ PopFailed(j)
      PROVE  Restarted(ToSet(replay[j].held)) \/ Lose(ToSet(replay[j].held))
  BY <1>2 DEF PushCachedMetrics, PopFailed, Restarted
<1>3. ASSUME Crash
      PROVE  \E S : Lose(S) /\ \A i \in S : push[i].at \in InFlight \cup {"cached"}
  <2> DEFINE pushing == {i \in Ids : push[i].by = "replay" /\ push[i].at \in InFlight}
             held == UNION {ToSet(replay[j].held) : j \in Jobs}
  <2>1. Lose(held \cup pushing)
    BY <1>3 DEF Crash
  <2>2. \A i \in held \cup pushing : push[i].at \in InFlight \cup {"cached"}
    BY <1>1
  <2> HIDE DEF held, pushing
  <2>3. QED
    BY <2>1, <2>2
<1>4. CASE Crash
  BY <1>3, <1>4
<1>5. CASE Restarting
  BY <1>1, <1>2, <1>5 DEF Restarting
<1>6. QED
  BY <1>4, <1>5

\* Pushes that the replay starts again, or loses, keep their metrics.
LEMMA ReplaySteps ==
  ASSUME CountInv, LedgerInv, Restarting \/ Crash
  PROVE  LedgerInv'
<1>1. db' = db /\ log' = log /\ dying' = dying
  BY DEF Restarting, PushCachedMetrics, PopFailed, Crash, redis
<1>2. \A i \in Ids : Shaped(push[i]) /\ PushInv(push[i], log[i])
  BY DEF CountInv, PushTypes, LedgerInv
<1>3. PICK S : \/ Restarted(S) /\ (\A i \in S : push[i].at = "cached")
               \/ Lose(S) /\ (\A i \in S : push[i].at \in InFlight \cup {"cached"})
  BY Restarts
<1>4. ASSUME NEW i \in Ids, push'[i] = [push[i] EXCEPT !.at = "lost"], push[i].at # "new"
      PROVE  PushInv(push'[i], log[i]) /\ Same(push[i], push'[i], log[i])
  <2>1. PICK r : r = push'[i]
    OBVIOUS
  <2>2. Further(push[i], r)
    BY <1>2, <1>4, <2>1 DEF Further, Shaped, PushFields
  <2>3. PushInv(r, log[i]) /\ Same(push[i], r, log[i])
    BY <1>2, <2>2, FurtherInv
  <2>4. QED
    BY <2>1, <2>3
<1>5. ASSUME NEW i \in Ids, push'[i] = Start(push[i].metric, "replay"), push[i].at = "cached"
      PROVE  PushInv(push'[i], log[i]) /\ Same(push[i], push'[i], log[i])
  <2>1. Known(push[i].metric) /\ push[i].metric.bucket \notin ListedAccounts
    BY <1>2, <1>5 DEF PushInv
  <2>2. PICK m, r, l : m = push[i].metric /\ r = push'[i] /\ l = log[i]
    OBVIOUS
  <2>3. PushInv(r, l) /\ r.at # "new" /\ r.metric = m
    BY <1>5, <2>1, <2>2, StartInv
  <2>4. QED
    BY <1>5, <2>2, <2>3 DEF Same
<1>6. ASSUME NEW i \in Ids, push'[i] = push[i]
      PROVE  PushInv(push'[i], log[i]) /\ Same(push[i], push'[i], log[i])
  BY <1>2, <1>6 DEF Same
<1>7. \A i \in Ids : PushInv(push'[i], log[i]) /\ Same(push[i], push'[i], log[i])
  <2>1. CASE Restarted(S) /\ \A i \in S : push[i].at = "cached"
    BY <1>5, <1>6, <2>1 DEF Restarted
  <2>2. CASE Lose(S) /\ \A i \in S : push[i].at \in InFlight \cup {"cached"}
    BY <1>4, <1>6, <2>2 DEF Lose, InFlight
  <2>3. QED
    BY <1>3, <2>1, <2>2
<1>8. \A k \in dying' : k[1] \notin ListedAccounts
  BY <1>1 DEF LedgerInv
<1>9. \A a \in ListedAccounts, metric \in Counting, u \in Int :
        Value(db', generateKey(a, metric, u), 0) = Value(db, generateKey(a, metric, u), 0)
  BY <1>1
<1>10. QED
  BY <1>1, <1>7, <1>8, <1>9, QuietStep

\* The reindex sets and removes counters and snapshots only.
LEMMA ExecuteStep ==
  ASSUME CountInv, JobInv, LedgerInv, Execute
  PROVE  LedgerInv'
<1>1. push' = push /\ log' = log /\ dying' \subseteq dying
  BY DEF Execute
<1>2. \A j \in Ids : PushInv(push'[j], log[j]) /\ Same(push[j], push'[j], log[j])
  BY <1>1 DEF LedgerInv, Same
<1>3. PICK c : c = Head(pipeline)
  OBVIOUS
<1>4. db' = Effect(db, c)
  BY <1>3 DEF Execute
<1>5. c.key[2] \in Sets
  BY <1>3 DEF Execute, JobInv, Spared
<1>6. ASSUME NEW a \in ListedAccounts, NEW metric \in Counting, NEW u \in Int
      PROVE  Value(db', generateKey(a, metric, u), 0) = Value(db, generateKey(a, metric, u), 0)
  <2>1. PICK k : k = generateKey(a, metric, u)
    OBVIOUS
  <2>2. k[2] = metric
    BY <2>1 DEF generateKey
  <2>3. metric \notin Sets
    BY V1Assumption DEF Counting, Sets, Counters, StateKeys
  <2>4. Value(Effect(db, c), k, 0) = Value(db, k, 0)
    BY <1>5, <2>2, <2>3, EffectElsewhere
  <2>5. QED
    BY <1>4, <2>1, <2>4
<1>7. \A k \in dying' : k[1] \notin ListedAccounts
  BY <1>1 DEF LedgerInv
<1>8. QED
  BY <1>1, <1>2, <1>6, <1>7, QuietStep

\* The metrics that are pushed have the numbers they should have, and are not about
\* a bucket named as their account or as one that is listed.
Sound(m) == Typed(m) /\ m.bucket \notin ListedAccounts \cup {m.account}

LEMMA SoundIs == \A m : Sound(m) => Known(m) /\ m.bucket \notin ListedAccounts
BY DEF Sound, Typed, Known

LEMMA PushedSound ==
  /\ \A m \in Metrics : Sound(m)
  /\ \A x \in Changes : /\ Sound(ServedMetric("putObject", x[1], 1, Nil, Nil))
                        /\ Sound(ServedMetric("deleteObject", x[1], Nil, 1, 1))
<1>1. ASSUME NEW m \in Metrics
      PROVE  Sound(m)
  BY MetricsAssumption DEF Sound, ListedAccounts
<1>2. ASSUME NEW x \in Changes
      PROVE  /\ Sound(ServedMetric("putObject", x[1], 1, Nil, Nil))
             /\ Sound(ServedMetric("deleteObject", x[1], Nil, 1, 1))
  <2>1. x[1] \notin ListedAccounts \cup {Owner[x[1]]}
    BY ReindexAssumption DEF ListedAccounts
  <2>2. ASSUME NEW m, m = ServedMetric("putObject", x[1], 1, Nil, Nil)
        PROVE  Sound(m)
    <3>1. /\ m.action = "putObject" /\ m.new = 1 /\ m.old = Nil
          /\ m.bucket = x[1] /\ m.account = Owner[x[1]]
      BY <2>2 DEF ServedMetric
    <3>2. m.action \in Puts /\ m.action \notin Deletes \cup Markers \cup Parts
      BY <3>1 DEF Deletes, Puts, Markers, Parts
    <3>3. Method(m) = "put"
      BY <3>1, <3>2 DEF Method
    <3>4. QED
      BY <2>1, <3>1, <3>3 DEF Sound, Typed
  <2>3. ASSUME NEW m, m = ServedMetric("deleteObject", x[1], Nil, 1, 1)
        PROVE  Sound(m)
    <3>1. /\ m.action = "deleteObject" /\ m.bytes = 1 /\ m.objects = 1 /\ m.old = Nil
          /\ m.bucket = x[1] /\ m.account = Owner[x[1]]
      BY <2>3 DEF ServedMetric
    <3>2. m.action \in Deletes /\ m.action \notin Puts \cup Markers \cup Parts
      BY <3>1 DEF Deletes, Puts, Markers, Parts
    <3>3. Method(m) = "delete"
      BY <3>1, <3>2 DEF Method
    <3>4. QED
      BY <2>1, <3>1, <3>3 DEF Sound, Typed, Moves
  <2>4. QED
    BY <2>2, <2>3
<1>3. QED
  BY <1>1, <1>2

LEMMA LedgerNext ==
  ASSUME CountInv, JobInv, LedgerInv, [V1Next]_allvars
  PROVE  LedgerInv'
<1>1. ASSUME UNCHANGED <<redis, push>>
      PROVE  LedgerInv'
  <2>1. db' = db /\ push' = push /\ log' = log /\ dying' = dying
    BY <1>1 DEF redis
  <2>2. \A i \in Ids : PushInv(push'[i], log[i]) /\ Same(push[i], push'[i], log[i])
    BY <2>1 DEF LedgerInv, Same
  <2>3. \A a \in ListedAccounts, metric \in Counting, u \in Int :
          Value(db', generateKey(a, metric, u), 0) = Value(db, generateKey(a, metric, u), 0)
    BY <2>1
  <2>4. \A k \in dying' : k[1] \notin ListedAccounts
    BY <2>1 DEF LedgerInv
  <2>5. QED
    BY <2>1, <2>2, <2>3, <2>4, QuietStep
<1>2. Polling \/ LockExpires \/ Tick => LedgerInv'
  BY <1>1 DEF Polling, ReplayJob, CheckLocalCache, GetCachedMetrics, LockExpires, Tick
<1>3. Working \/ Failing => LedgerInv'
  BY <1>1, ExecuteStep DEF Working, Failing, ScheduleJob, ReindexLockExpires, ListBuckets, ListBucket,
     CountUploads, UpdateBuckets, ClearBuckets, UpdateAccounts, ClearAccounts, StageTo, FinishJob,
     SentinelDown, ScriptFails, ReindexCrash, ListingFailed, OddStatus, ScriptFault, RedisUnchanged,
     v1vars
<1>4. UNCHANGED allvars => LedgerInv'
  BY <1>1 DEF allvars, v1vars
<1>5. \A i \in Ids : Proceed(i) => LedgerInv'
  BY BatchSteps, StoreStep, StageSteps DEF Proceed
<1>6. Serving => LedgerInv'
  <2>1. ASSUME NEW i \in Ids, NEW x \in Changes, PutVersion(i, x[1], x[2]) \/ DeleteVersion(i, x[1], x[2])
        PROVE  LedgerInv'
    <3>1. PICK m : pushMetric(i, m) /\ Sound(m)
      BY <2>1, PushedSound DEF PutVersion, DeleteVersion
    <3>2. QED
      BY <3>1, SoundIs, PushMetricStep
  <2>2. QED
    BY <1>5, <2>1 DEF Serving
<1>7. ClientNext => LedgerInv'
  <2>1. \A i \in Ids, m \in Metrics : pushMetric(i, m) => LedgerInv'
    BY PushedSound, SoundIs, PushMetricStep
  <2>2. \A i \in Ids : CommandFailed(i) \/ BatchFailed(i) => LedgerInv'
    BY BatchSteps, BatchFailedStep
  <2>3. QED
    BY <1>2, <1>5, <2>1, <2>2, ExpiryStep, ReplaySteps DEF ClientNext, Replaying, Polling, Restarting
<1>8. QED
  BY <1>3, <1>4, <1>6, <1>7 DEF V1Next, ReindexNext

LEMMA LedgerInit == Init => LedgerInv
<1> SUFFICES ASSUME Init
             PROVE  LedgerInv
  OBVIOUS
<1>1. db = <<>> /\ dying = {} /\ push = [i \in Ids |-> NewPush] /\ log = [i \in Ids |-> <<>>]
  BY DEF Init
<1>2. \A i \in Ids : PushInv(push[i], log[i])
  <2>1. 0 \in Int /\ 0 % Period = 0
    BY V1Assumption
  <2>2. QED
    BY <1>1, <2>1 DEF NewPush, PushInv
<1>3. \A a \in ListedAccounts, metric \in Counting, u \in Int : Value(db, generateKey(a, metric, u), 0) = 0
  BY <1>1 DEF Value
<1>4. ASSUME NEW x \in ValidRanges, NEW a \in ListedAccounts, NEW metric \in Counting
      PROVE  ListedIn(db, a, metric, x[1], x[2]) = WeighedIn(push, log, a, metric, x)
  <2>1. PICK s, e, D : s = x[1] /\ e = x[2] /\ D = db
    OBVIOUS
  <2>2. s \in Int /\ e \in Int /\ s =< e /\ s % Period = 0
    BY <2>1, RangesAre
  <2>3. \A u \in Int : Value(D, generateKey(a, metric, u), 0) = 0
    BY <1>3, <2>1
  <2>4. ListedIn(D, a, metric, s, e) = 0
    BY <2>2, <2>3, ListedNothing
  <2> DEFINE f == [i \in Ids |-> Term(push[i], log[i], a, metric, x)]
  <2>5. \A i \in Ids : f[i] = 0
    BY <1>1 DEF Term, NewPush
  <2>6. WeighedIn(push, log, a, metric, x) = SumOver(f, Ids)
    BY DEF WeighedIn
  <2> HIDE DEF f
  <2>7. SumOver(f, Ids) = 0
    BY <2>5, V1Assumption, SumZero
  <2>8. QED
    BY <2>1, <2>4, <2>6, <2>7
<1>5. Exact(db, push, log)
  BY <1>4 DEF Exact
<1>6. \A a \in ListedAccounts, metric \in Counting : Numbers(db, a, metric)
  BY <1>3 DEF Numbers
<1>7. QED
  BY <1>1, <1>2, <1>5, <1>6 DEF LedgerInv

\* Whatever pushes, replays, reindexes, expirations, lost answers and crashes
\* interleave, a listing of whole periods, however long and however it is split,
\* adds up to the uploads, downloads and operations that Redis counted in them.
THEOREM ListingExactCorrect == V1Spec => []ListingExact
<1> DEFINE IInv == CountInv /\ JobInv /\ LedgerInv
<1>1. Init /\ ReindexInit => IInv
  BY CountInit, JobInit, LedgerInit
<1>2. IInv /\ [V1Next]_allvars => IInv'
  BY CountNext, JobNext, LedgerNext
<1>3. IInv => ListingExact
  BY ExactIs DEF LedgerInv
<1> HIDE DEF IInv
<1>4. QED
  BY <1>1, <1>2, <1>3, PTL DEF V1Spec, V1Next
-----------------------------------------------------------------------------
(***************************************************************************)
(* The counters of a resource and their snapshots: what each command does  *)
(* to them.                                                                *)
(***************************************************************************)

\* What a resource r has in the database: its counters, which count as zero if
\* they do not exist, and the snapshots of them.
View(D, r) ==
  [size |-> Value(D, generateCounter(r, "storageUtilizedCounter"), Nil),
   size0 |-> Value(D, generateCounter(r, "storageUtilizedCounter"), 0),
   objects |-> Value(D, generateCounter(r, "numberOfObjectsCounter"), Nil),
   objects0 |-> Value(D, generateCounter(r, "numberOfObjectsCounter"), 0),
   sizes |-> Value(D, generateStateKey(r, "storageUtilized"), {}),
   numbers |-> Value(D, generateStateKey(r, "numberOfObjects"), {})]

\* What a command and a snapshot do to a view.
Sized(v, n) ==
  [size |-> v.size0 + n, size0 |-> v.size0 + n, objects |-> v.objects, objects0 |-> v.objects0,
   sizes |-> v.sizes, numbers |-> v.numbers]
Numbered(v, n) ==
  [size |-> v.size, size0 |-> v.size0, objects |-> v.objects0 + n, objects0 |-> v.objects0 + n,
   sizes |-> v.sizes, numbers |-> v.numbers]
Stamped(v, sizes, numbers) ==
  [size |-> v.size, size0 |-> v.size0, objects |-> v.objects, objects0 |-> v.objects0,
   sizes |-> sizes, numbers |-> numbers]
Stamp(S, t, n) == {e \in S : e[1] # t} \cup {<<t, n>>}

\* Commands that are about no counter or snapshot of a resource.
LEMMA ViewElsewhere ==
  ASSUME NEW C, NEW s \in Seq(C), NEW r,
         \A c \in C : \A metric \in Sets : c.key # <<r, metric>>, NEW D
  PROVE  View(batch(D, s), r) = View(D, r)
<1>1. \A metric \in Sets : \A none : Value(batch(D, s), <<r, metric>>, none) = Value(D, <<r, metric>>, none)
  <2>1. ASSUME NEW metric \in Sets, NEW none
        PROVE  Value(batch(D, s), <<r, metric>>, none) = Value(D, <<r, metric>>, none)
    <3>1. PICK k : k = <<r, metric>>
      OBVIOUS
    <3>2. \A c \in C : c.key # k
      BY <3>1
    <3>3. Value(batch(D, s), k, none) = Value(D, k, none)
      BY <3>2, BatchQuiet
    <3>4. QED
      BY <3>1, <3>3
  <2>2. QED
    BY <2>1
<1>2. QED
  BY <1>1 DEF View, generateCounter, generateStateKey, Sets, Counters, StateKeys

\* A command that adds to a counter.
LEMMA IncrbyIs ==
  ASSUME NEW D, NEW k, NEW n, NEW j, NEW none
  PROVE  Value(batch(D, <<Cmd("incrby", k, n)>>), j, none)
           = IF j = k THEN Value(D, k, 0) + n ELSE Value(D, j, none)
<1>1. batch(D, <<Cmd("incrby", k, n)>>) = Put(D, k, Value(D, k, 0) + n)
  BY BatchOne DEF Effect, Cmd, incrby
<1>2. QED
  BY <1>1, PutIs

\* A command on the bytes of a level, and one on its objects.
LEMMA SizeView ==
  ASSUME NEW D, NEW r, NEW n
  PROVE  View(batch(D, <<Size(r, n)>>), r) = Sized(View(D, r), n)
<1>1. PICK E : E = batch(D, <<Size(r, n)>>)
  OBVIOUS
<1>2. \A j, none : Value(E, j, none)
          = IF j = <<r, "storageUtilizedCounter">> THEN Value(D, <<r, "storageUtilizedCounter">>, 0) + n
            ELSE Value(D, j, none)
  BY <1>1, IncrbyIs DEF Size, generateCounter
<1>3. /\ Value(E, <<r, "storageUtilizedCounter">>, Nil) = Value(D, <<r, "storageUtilizedCounter">>, 0) + n
      /\ Value(E, <<r, "storageUtilizedCounter">>, 0) = Value(D, <<r, "storageUtilizedCounter">>, 0) + n
  BY <1>2
<1>4. \A metric \in Sets \ {"storageUtilizedCounter"} : \A none :
        Value(E, <<r, metric>>, none) = Value(D, <<r, metric>>, none)
  BY <1>2
<1>5. \A none : /\ Value(E, <<r, "numberOfObjectsCounter">>, none) = Value(D, <<r, "numberOfObjectsCounter">>, none)
                /\ Value(E, <<r, "storageUtilized">>, none) = Value(D, <<r, "storageUtilized">>, none)
                /\ Value(E, <<r, "numberOfObjects">>, none) = Value(D, <<r, "numberOfObjects">>, none)
  BY <1>4 DEF Sets, Counters, StateKeys
<1>6. View(E, r) = Sized(View(D, r), n)
  BY <1>3, <1>5 DEF View, Sized, generateCounter, generateStateKey
<1>7. QED
  BY <1>1, <1>6

LEMMA ObjectsView ==
  ASSUME NEW D, NEW r, NEW n
  PROVE  View(batch(D, <<Objects(r, n)>>), r) = Numbered(View(D, r), n)
<1>1. PICK E : E = batch(D, <<Objects(r, n)>>)
  OBVIOUS
<1>2. \A j, none : Value(E, j, none)
          = IF j = <<r, "numberOfObjectsCounter">> THEN Value(D, <<r, "numberOfObjectsCounter">>, 0) + n
            ELSE Value(D, j, none)
  BY <1>1, IncrbyIs DEF Objects, generateCounter
<1>3. /\ Value(E, <<r, "numberOfObjectsCounter">>, Nil) = Value(D, <<r, "numberOfObjectsCounter">>, 0) + n
      /\ Value(E, <<r, "numberOfObjectsCounter">>, 0) = Value(D, <<r, "numberOfObjectsCounter">>, 0) + n
  BY <1>2
<1>4. \A metric \in Sets \ {"numberOfObjectsCounter"} : \A none :
        Value(E, <<r, metric>>, none) = Value(D, <<r, metric>>, none)
  BY <1>2
<1>5. \A none : /\ Value(E, <<r, "storageUtilizedCounter">>, none) = Value(D, <<r, "storageUtilizedCounter">>, none)
                /\ Value(E, <<r, "storageUtilized">>, none) = Value(D, <<r, "storageUtilized">>, none)
                /\ Value(E, <<r, "numberOfObjects">>, none) = Value(D, <<r, "numberOfObjects">>, none)
  BY <1>4 DEF Sets, Counters, StateKeys
<1>6. View(E, r) = Numbered(View(D, r), n)
  BY <1>3, <1>5 DEF View, Numbered, generateCounter, generateStateKey
<1>7. QED
  BY <1>1, <1>6

\* A command that only reads.
LEMMA ReadView ==
  ASSUME NEW D, NEW c, c.op \in {"get", "zrangebyscore"}
  PROVE  batch(D, <<c>>) = D
<1>1. Effect(D, c) = D
  BY DEF Effect
<1>2. QED
  BY <1>1, BatchOne

\* Sequences of commands one after the other.
IsSeq(s) == \E C : s \in Seq(C)

LEMMA Then ==
  ASSUME NEW s, NEW t, IsSeq(s), IsSeq(t)
  PROVE  IsSeq(s \o t) /\ \A D : batch(D, s \o t) = batch(batch(D, s), t)
<1>1. PICK A, B : s \in Seq(A) /\ t \in Seq(B)
  BY DEF IsSeq
<1>2. PICK C : s \in Seq(C) /\ t \in Seq(C)
  <2> DEFINE C == A \cup B
  <2>1. s \in Seq(C) /\ t \in Seq(C)
    BY <1>1
  <2> HIDE DEF C
  <2>2. QED
    BY <2>1
<1>3. s \o t \in Seq(C)
  BY <1>2
<1>4. \A D : batch(D, s \o t) = batch(batch(D, s), t)
  BY <1>2, BatchConcat
<1>5. QED
  BY <1>3, <1>4 DEF IsSeq

LEMMA OneSeq == \A c : IsSeq(<<c>>)
<1>1. SUFFICES ASSUME NEW c
               PROVE  IsSeq(<<c>>)
  OBVIOUS
<1> DEFINE C == {c}
<1>2. <<c>> \in Seq(C)
  OBVIOUS
<1> HIDE DEF C
<1>3. QED
  BY <1>2 DEF IsSeq

LEMMA TwoSeq ==
  ASSUME NEW c, NEW d
  PROVE  <<c, d>> = <<c>> \o <<d>> /\ IsSeq(<<c, d>>)
<1> DEFINE C == {c, d}
<1>1. <<c>> \in Seq(C) /\ <<d>> \in Seq(C) /\ <<c, d>> \in Seq(C)
  OBVIOUS
<1>2. <<c, d>> = <<c>> \o <<d>>
  <2>1. PICK s, u, x : s = <<c>> /\ u = <<d>> /\ x = <<c, d>>
    OBVIOUS
  <2>2. /\ s \in Seq(C) /\ u \in Seq(C) /\ x \in Seq(C)
        /\ Len(s) = 1 /\ Len(u) = 1 /\ Len(x) = 2 /\ s[1] = c /\ u[1] = d /\ x[1] = c /\ x[2] = d
    BY <1>1, <2>1
  <2>3. x = s \o u
    BY <2>2, ConcatProperties, SeqEqual
  <2>4. QED
    BY <2>1, <2>3
<1> HIDE DEF C
<1>3. QED
  BY <1>1, <1>2 DEF IsSeq

SameBut(D, E, k) == \A j, none : j # k => Value(E, j, none) = Value(D, j, none)

\* The two commands of a snapshot put it in place of the one of its period.
LEMMA SnapshotIs ==
  ASSUME NEW D, NEW r, NEW metric, NEW t, NEW n
  PROVE  /\ IsSeq(Snapshot(r, metric, t, n))
         /\ Value(batch(D, Snapshot(r, metric, t, n)), <<r, metric>>, {})
              = Stamp(Value(D, <<r, metric>>, {}), t, n)
         /\ SameBut(D, batch(D, Snapshot(r, metric, t, n)), <<r, metric>>)
<1>1. PICK k, c, d : /\ k = <<r, metric>> /\ c = Cmd("zremrangebyscore", k, t)
                     /\ d = Cmd("zadd", k, <<t, n>>)
  OBVIOUS
<1>2. Snapshot(r, metric, t, n) = <<c, d>>
  BY <1>1 DEF Snapshot, generateStateKey
<1>3. IsSeq(<<c, d>>) /\ \A B : batch(B, <<c, d>>) = Effect(Effect(B, c), d)
  <2>1. IsSeq(<<c>>) /\ IsSeq(<<d>>)
    BY OneSeq
  <2>2. \A B : batch(B, <<c>> \o <<d>>) = batch(batch(B, <<c>>), <<d>>)
    BY <2>1, Then
  <2>3. <<c, d>> = <<c>> \o <<d>> /\ IsSeq(<<c, d>>)
    BY TwoSeq
  <2>4. \A B : batch(B, <<c>>) = Effect(B, c) /\ batch(B, <<d>>) = Effect(B, d)
    BY BatchOne
  <2>5. QED
    BY <2>2, <2>3, <2>4
<1>4. c.key = k /\ d.key = k
  BY <1>1 DEF Cmd
<1>5. PICK A, left : A = Effect(D, c) /\ left = {e \in Value(D, k, {}) : e[1] # t}
  OBVIOUS
<1>6. Value(A, k, {}) = left
  <2>1. A = IF left = {} THEN Restrict(D, DOMAIN D \ {k}) ELSE Put(D, k, left)
    BY <1>1, <1>5 DEF Effect, zremrangebyscore, Cmd
  <2>2. Value(Restrict(D, DOMAIN D \ {k}), k, {}) = {}
    BY DEF Restrict, Value
  <2>3. Value(Put(D, k, left), k, {}) = left
    BY PutIs
  <2>4. QED
    BY <2>1, <2>2, <2>3
<1>7. Value(Effect(A, d), k, {}) = left \cup {<<t, n>>}
  <2>1. Effect(A, d) = Put(A, k, Value(A, k, {}) \cup {<<t, n>>})
    BY <1>1 DEF Effect, zadd, Cmd
  <2>2. QED
    BY <1>6, <2>1, PutIs
<1>8. \A j, none : j # k => Value(Effect(A, d), j, none) = Value(D, j, none)
  BY <1>4, <1>5, EffectElsewhere
<1>9. Value(batch(D, <<c, d>>), k, {}) = Stamp(Value(D, k, {}), t, n)
  BY <1>3, <1>5, <1>7 DEF Stamp
<1>10. SameBut(D, batch(D, <<c, d>>), k)
  BY <1>3, <1>5, <1>8 DEF SameBut
<1>11. QED
  BY <1>1, <1>2, <1>3, <1>9, <1>10

LEMMA SnapshotViews ==
  ASSUME NEW D, NEW r, NEW t, NEW n
  PROVE  /\ View(batch(D, Snapshot(r, "storageUtilized", t, n)), r)
              = Stamped(View(D, r), Stamp(View(D, r).sizes, t, n), View(D, r).numbers)
         /\ View(batch(D, Snapshot(r, "numberOfObjects", t, n)), r)
              = Stamped(View(D, r), View(D, r).sizes, Stamp(View(D, r).numbers, t, n))
<1>1. PICK E : E = batch(D, Snapshot(r, "storageUtilized", t, n))
  OBVIOUS
<1>2. View(E, r) = Stamped(View(D, r), Stamp(View(D, r).sizes, t, n), View(D, r).numbers)
  <2>1. Value(E, <<r, "storageUtilized">>, {}) = Stamp(Value(D, <<r, "storageUtilized">>, {}), t, n)
    BY <1>1, SnapshotIs
  <2>2. SameBut(D, E, <<r, "storageUtilized">>)
    BY <1>1, SnapshotIs
  <2>3. \A none : /\ Value(E, <<r, "storageUtilizedCounter">>, none) = Value(D, <<r, "storageUtilizedCounter">>, none)
                  /\ Value(E, <<r, "numberOfObjectsCounter">>, none) = Value(D, <<r, "numberOfObjectsCounter">>, none)
                  /\ Value(E, <<r, "numberOfObjects">>, none) = Value(D, <<r, "numberOfObjects">>, none)
    BY <2>2 DEF SameBut
  <2>4. QED
    BY <2>1, <2>3 DEF View, Stamped, generateCounter, generateStateKey
<1>3. PICK F : F = batch(D, Snapshot(r, "numberOfObjects", t, n))
  OBVIOUS
<1>4. View(F, r) = Stamped(View(D, r), View(D, r).sizes, Stamp(View(D, r).numbers, t, n))
  <2>1. Value(F, <<r, "numberOfObjects">>, {}) = Stamp(Value(D, <<r, "numberOfObjects">>, {}), t, n)
    BY <1>3, SnapshotIs
  <2>2. SameBut(D, F, <<r, "numberOfObjects">>)
    BY <1>3, SnapshotIs
  <2>3. \A none : /\ Value(F, <<r, "storageUtilizedCounter">>, none) = Value(D, <<r, "storageUtilizedCounter">>, none)
                  /\ Value(F, <<r, "numberOfObjectsCounter">>, none) = Value(D, <<r, "numberOfObjectsCounter">>, none)
                  /\ Value(F, <<r, "storageUtilized">>, none) = Value(D, <<r, "storageUtilized">>, none)
    BY <2>2 DEF SameBut
  <2>4. QED
    BY <2>1, <2>3 DEF View, Stamped, generateCounter, generateStateKey
<1>5. QED
  BY <1>1, <1>2, <1>3, <1>4

\* Operations and bytes have keys of their own.
LEMMA KeyView ==
  ASSUME NEW r, NEW way, NEW t, NEW n, NEW D, NEW q
  PROVE  View(batch(D, <<Cmd("incrby", generateKey(q, way, t), n)>>), r) = View(D, r)
<1>1. PICK c : c = Cmd("incrby", generateKey(q, way, t), n)
  OBVIOUS
<1>2. \A metric : c.key # <<r, metric>>
  <2>1. c.key = <<q, way, t>>
    BY <1>1 DEF Cmd, generateKey
  <2>2. \A metric : Len(<<r, metric>>) = 2 /\ Len(<<q, way, t>>) = 3
    OBVIOUS
  <2>3. QED
    BY <2>1, <2>2
<1> DEFINE C == {c}
<1>3. <<c>> \in Seq(C) /\ \A d \in C : \A metric \in Sets : d.key # <<r, metric>>
  BY <1>2
<1> HIDE DEF C
<1>4. View(batch(D, <<c>>), r) = View(D, r)
  BY <1>3, ViewElsewhere
<1>5. QED
  BY <1>1, <1>4

LEMMA OperationView ==
  ASSUME NEW m, NEW r, NEW t
  PROVE  /\ IsSeq(Operation(m, r, t)) /\ \A D : View(batch(D, Operation(m, r, t)), r) = View(D, r)
         /\ \A way : \A D : View(batch(D, <<Bytes(m, r, way, t)>>), r) = View(D, r)
<1>1. IsSeq(<<>>)
  <2>1. <<>> \in Seq({})
    OBVIOUS
  <2>2. QED
    BY <2>1 DEF IsSeq
<1>2. IsSeq(Operation(m, r, t))
  BY <1>1, OneSeq DEF Operation
<1>3. \A D : View(batch(D, Operation(m, r, t)), r) = View(D, r)
  BY BatchEmpty, KeyView DEF Operation
<1>4. \A way : \A D : View(batch(D, <<Bytes(m, r, way, t)>>), r) = View(D, r)
  BY KeyView DEF Bytes
<1>5. QED
  BY <1>2, <1>3, <1>4

-----------------------------------------------------------------------------
(***************************************************************************)
(* What the two transactions of a push do to a level.                      *)
(***************************************************************************)

\* What the commands of a metric do to the counters of a level.
After(m, v) ==
  CASE Method(m) = "part" -> Sized(v, Delta(m))
    [] Method(m) = "overwrite" -> Sized(v, -m.old)
    [] Method(m) = "complete" -> Numbered(v, 1)
    [] Method(m) = "delete" -> IF m.action = "abortMultipartUpload" THEN Sized(v, -m.bytes)
                               ELSE Numbered(Sized(v, -m.bytes), -m.objects)
    [] Method(m) = "put" -> IF m.old = Nil THEN Numbered(Sized(v, Delta(m)), 1) ELSE Sized(v, Delta(m))
    [] Method(m) = "marker" -> Numbered(v, 1)
    [] OTHER -> v

LEMMA ThenOne ==
  ASSUME NEW s, IsSeq(s), NEW c
  PROVE  IsSeq(s \o <<c>>) /\ \A D : batch(D, s \o <<c>>) = batch(batch(D, s), <<c>>)
<1>1. IsSeq(<<c>>)
  BY OneSeq
<1>2. QED
  BY <1>1, Then

LEMMA ThenOperation ==
  ASSUME NEW s, IsSeq(s), NEW m, NEW r, NEW t
  PROVE  IsSeq(s \o Operation(m, r, t))
         /\ \A D : View(batch(D, s \o Operation(m, r, t)), r) = View(batch(D, s), r)
<1>1. PICK ops : ops = Operation(m, r, t)
  OBVIOUS
<1>2. IsSeq(ops) /\ \A D : View(batch(D, ops), r) = View(D, r)
  BY <1>1, OperationView
<1>3. IsSeq(s \o ops) /\ \A D : batch(D, s \o ops) = batch(batch(D, s), ops)
  BY <1>2, Then
<1>4. QED
  BY <1>1, <1>2, <1>3

LEMMA PairSeq ==
  ASSUME NEW c, NEW d
  PROVE  IsSeq(<<c, d>>) /\ \A D : batch(D, <<c, d>>) = batch(batch(D, <<c>>), <<d>>)
<1>1. IsSeq(<<c>>)
  BY OneSeq
<1>2. <<c, d>> = <<c>> \o <<d>> /\ IsSeq(<<c, d>>)
  BY TwoSeq
<1>3. \A D : batch(D, <<c>> \o <<d>>) = batch(batch(D, <<c>>), <<d>>)
  BY <1>1, ThenOne
<1>4. QED
  BY <1>2, <1>3

\* The first transaction, command by command.
LEMMA CommandsView ==
  ASSUME NEW m, NEW r, NEW t
  PROVE  /\ IsSeq(Commands(m, r, t))
         /\ \A D : View(batch(D, Commands(m, r, t)), r) = After(m, View(D, r))
<1>1. PICK ops : ops = Operation(m, r, t)
  OBVIOUS
<1>2. /\ IsSeq(ops) /\ \A D : View(batch(D, ops), r) = View(D, r)
      /\ \A way : \A D : View(batch(D, <<Bytes(m, r, way, t)>>), r) = View(D, r)
  BY <1>1, OperationView
<1>3. \A s : IsSeq(s) => IsSeq(s \o ops) /\ \A D : View(batch(D, s \o ops), r) = View(batch(D, s), r)
  BY <1>1, ThenOperation
<1>4. \A D, n : /\ View(batch(D, <<Size(r, n)>>), r) = Sized(View(D, r), n)
                /\ View(batch(D, <<Objects(r, n)>>), r) = Numbered(View(D, r), n)
  BY SizeView, ObjectsView
<1>5. \A c : IsSeq(<<c>>)
  BY OneSeq
<1>6. \A s, c : IsSeq(s) => IsSeq(s \o <<c>>) /\ \A D : batch(D, s \o <<c>>) = batch(batch(D, s), <<c>>)
  BY ThenOne
<1>7. \A c, d : IsSeq(<<c, d>>) /\ \A D : batch(D, <<c, d>>) = batch(batch(D, <<c>>), <<d>>)
  BY PairSeq
<1>8. \A s : IsSeq(s) => IsSeq(s \o <<>>) /\ \A D : batch(D, s \o <<>>) = batch(D, s)
  <2>1. IsSeq(<<>>)
    <3>1. <<>> \in Seq({})
      OBVIOUS
    <3>2. QED
      BY <3>1 DEF IsSeq
  <2>2. ASSUME NEW s, IsSeq(s)
        PROVE  IsSeq(s \o <<>>) /\ \A D : batch(D, s \o <<>>) = batch(batch(D, s), <<>>)
    BY <2>1, <2>2, Then
  <2>3. QED
    BY <2>2, BatchEmpty
<1>9. CASE Method(m) = "part"
  <2>1. PICK s : s = <<Size(r, Delta(m)), Bytes(m, r, "incomingBytes", t)>>
    OBVIOUS
  <2>2. Commands(m, r, t) = s \o ops
    BY <1>1, <1>9, <2>1 DEF Commands, UploadPart
  <2>3. IsSeq(s) /\ \A D : View(batch(D, s), r) = Sized(View(D, r), Delta(m))
    <3>1. PICK c, d : c = Size(r, Delta(m)) /\ d = Bytes(m, r, "incomingBytes", t)
      OBVIOUS
    <3>2. IsSeq(s) /\ \A D : batch(D, s) = batch(batch(D, <<c>>), <<d>>)
      BY <1>7, <2>1, <3>1
    <3>3. \A D : View(batch(D, <<d>>), r) = View(D, r)
      BY <1>2, <3>1
    <3>4. \A D : View(batch(D, <<c>>), r) = Sized(View(D, r), Delta(m))
      BY <1>4, <3>1
    <3>5. QED
      BY <3>2, <3>3, <3>4
  <2>4. QED
    BY <1>3, <1>9, <2>2, <2>3 DEF After
<1>10. CASE Method(m) = "overwrite"
  <2>1. Commands(m, r, t) = <<Size(r, -m.old)>> \o ops
    BY <1>1, <1>10 DEF Commands, MultipartUploadOverwrite
  <2>2. QED
    BY <1>3, <1>4, <1>5, <1>10, <2>1 DEF After
<1>11. CASE Method(m) = "complete"
  <2>1. Commands(m, r, t) = <<Objects(r, 1)>> \o ops
    BY <1>1, <1>11 DEF Commands, CompleteMultipartUpload
  <2>2. QED
    BY <1>3, <1>4, <1>5, <1>11, <2>1 DEF After
<1>12. CASE Method(m) = "delete"
  <2>1. PICK s : s = <<Size(r, -m.bytes)>> \o ops
    OBVIOUS
  <2>2. Commands(m, r, t) = s \o (IF m.action = "abortMultipartUpload" THEN <<>> ELSE <<Objects(r, -m.objects)>>)
    BY <1>1, <1>12, <2>1 DEF Commands, DeleteObject
  <2>3. IsSeq(s) /\ \A D : View(batch(D, s), r) = Sized(View(D, r), -m.bytes)
    BY <1>3, <1>4, <1>5, <2>1
  <2>4. \A v : After(m, v) =
          IF m.action = "abortMultipartUpload" THEN Sized(v, -m.bytes) ELSE Numbered(Sized(v, -m.bytes), -m.objects)
    BY <1>12 DEF After
  <2>5. CASE m.action = "abortMultipartUpload"
    BY <1>8, <2>2, <2>3, <2>4, <2>5
  <2>6. CASE m.action # "abortMultipartUpload"
    BY <1>4, <1>6, <2>2, <2>3, <2>4, <2>6
  <2>7. QED
    BY <2>5, <2>6
<1>13. CASE Method(m) = "get"
  <2>1. Commands(m, r, t) = <<Bytes(m, r, "outgoingBytes", t)>> \o ops
    BY <1>1, <1>13 DEF Commands, GetObject
  <2>2. \A v : After(m, v) = v
    BY <1>13 DEF After
  <2>3. QED
    BY <1>2, <1>3, <1>5, <2>1, <2>2
<1>14. CASE Method(m) = "put"
  <2>1. PICK x : x = IF m.old = Nil THEN Objects(r, 1)
                     ELSE Cmd("get", generateCounter(r, "numberOfObjectsCounter"), Nil)
    OBVIOUS
  <2>2. PICK s : s = <<Size(r, Delta(m)), x>> \o ops
    OBVIOUS
  <2>3. Commands(m, r, t) = s \o (IF m.action = "copyObject" THEN <<>> ELSE <<Bytes(m, r, "incomingBytes", t)>>)
    BY <1>1, <1>14, <2>1, <2>2 DEF Commands, PutObject
  <2>4. \A D : View(batch(D, <<x>>), r) = IF m.old = Nil THEN Numbered(View(D, r), 1) ELSE View(D, r)
    <3>1. m.old # Nil => x.op = "get"
      BY <2>1 DEF Cmd
    <3>2. m.old # Nil => \A D : batch(D, <<x>>) = D
      BY <3>1, ReadView
    <3>3. QED
      BY <1>4, <2>1, <3>2
  <2>5. \A v : After(m, v) = IF m.old = Nil THEN Numbered(Sized(v, Delta(m)), 1) ELSE Sized(v, Delta(m))
    BY <1>14 DEF After
  <2>6. IsSeq(s) /\ \A D : View(batch(D, s), r) = View(batch(batch(D, <<Size(r, Delta(m))>>), <<x>>), r)
    BY <1>3, <1>7, <2>2
  <2>7. \A D : View(batch(D, s), r) = After(m, View(D, r))
    BY <1>4, <2>4, <2>5, <2>6
  <2>8. CASE m.action = "copyObject"
    BY <1>8, <2>3, <2>6, <2>7, <2>8
  <2>9. CASE m.action # "copyObject"
    BY <1>2, <1>6, <2>3, <2>6, <2>7, <2>9
  <2>10. QED
    BY <2>8, <2>9
<1>15. CASE Method(m) = "marker"
  <2>1. PICK c : c = Cmd("zrangebyscore", generateStateKey(r, "storageUtilized"), t)
    OBVIOUS
  <2>2. PICK s : s = <<Objects(r, 1)>> \o ops
    OBVIOUS
  <2>3. Commands(m, r, t) = s \o <<c>>
    BY <1>1, <1>15, <2>1, <2>2 DEF Commands, DeleteMarker
  <2>4. c.op = "zrangebyscore"
    BY <2>1 DEF Cmd
  <2>5. \A D : batch(D, <<c>>) = D
    BY <2>4, ReadView
  <2>6. IsSeq(s) /\ \A D : View(batch(D, s), r) = Numbered(View(D, r), 1)
    BY <1>3, <1>4, <1>5, <2>2
  <2>7. QED
    BY <1>6, <1>15, <2>3, <2>5, <2>6 DEF After
<1>16. CASE Method(m) = "generic"
  <2>1. Commands(m, r, t) = ops
    BY <1>1, <1>16 DEF Commands
  <2>2. \A v : After(m, v) = v
    BY <1>16 DEF After
  <2>3. QED
    BY <1>2, <2>1, <2>2
<1>17. QED
  BY <1>9, <1>10, <1>11, <1>12, <1>13, <1>14, <1>15, <1>16 DEF Method

\* What the replies of a level tell of what the level has then.
Replied(m, g, v, t) ==
  /\ Method(m) \in {"part", "overwrite", "delete", "put"} => g[1] = v.size
  /\ Method(m) \in {"complete", "marker"} => g[1] = v.objects
  /\ Method(m) = "put" => g[2] = v.objects
  /\ Method(m) = "delete" /\ m.action # "abortMultipartUpload" => Last(g) = v.objects
  /\ Method(m) = "marker" => Last(g) = {e[2] : e \in {x \in v.sizes : x[1] = t}}

\* The first two commands and the last one of a sequence.
LEMMA EndsIs ==
  ASSUME NEW s, NEW u, IsSeq(s), IsSeq(u)
  PROVE  /\ Len(s \o u) = Len(s) + Len(u) /\ Len(s) \in Nat /\ Len(u) \in Nat
         /\ Len(s) > 0 => (s \o u)[1] = s[1]
         /\ Len(s) > 1 => (s \o u)[2] = s[2]
         /\ Len(u) > 0 => (s \o u)[Len(s \o u)] = u[Len(u)]
<1>1. PICK A, B : s \in Seq(A) /\ u \in Seq(B)
  BY DEF IsSeq
<1>2. PICK C : s \in Seq(C) /\ u \in Seq(C)
  <2> DEFINE C == A \cup B
  <2>1. s \in Seq(C) /\ u \in Seq(C)
    BY <1>1
  <2> HIDE DEF C
  <2>2. QED
    BY <2>1
<1>3. QED
  BY <1>2

\* The replies of a level are what its counters are after the transaction.
LEMMA RepliesTell ==
  ASSUME NEW m, NEW r, NEW t, NEW D, ReadsReplies(m), NEW g,
         g = [n \in 1..Len(Commands(m, r, t)) |-> Reply(D, Commands(m, r, t)[n])]
  PROVE  Replied(m, g, View(D, r), t)
<1>1. PICK ops, v, all : ops = Operation(m, r, t) /\ v = View(D, r) /\ all = Commands(m, r, t)
  OBVIOUS
<1>2. IsSeq(ops) /\ Len(ops) \in Nat
  BY <1>1, OperationView DEF IsSeq
<1>3. \A n : Reply(D, Size(r, n)) = v.size /\ Reply(D, Objects(r, n)) = v.objects
  BY <1>1 DEF Reply, Size, Objects, Cmd, View
<1>4. Len(all) \in Nat /\ g = [n \in 1..Len(all) |-> Reply(D, all[n])]
  BY <1>1, CommandsView DEF IsSeq
<1>5. Len(all) > 0 => g[1] = Reply(D, all[1]) /\ Last(g) = Reply(D, all[Len(all)])
  <2>1. Len(g) = Len(all)
    BY <1>4
  <2>2. QED
    BY <1>4, <2>1 DEF Last
<1>6. \A c : IsSeq(<<c>>) /\ Len(<<c>>) = 1 /\ <<c>>[1] = c
  BY OneSeq
<1>7. \A c, d : IsSeq(<<c, d>>) /\ Len(<<c, d>>) = 2 /\ <<c, d>>[1] = c /\ <<c, d>>[2] = d
  BY PairSeq
<1>8. \A s : IsSeq(s) => IsSeq(s \o ops)
  BY <1>2, Then
<1>9. IsSeq(<<>>) /\ Len(<<>>) = 0
  <2>1. <<>> \in Seq({})
    OBVIOUS
  <2>2. QED
    BY <2>1 DEF IsSeq
<1>10. CASE Method(m) = "part"
  <2>1. PICK s : s = <<Size(r, Delta(m)), Bytes(m, r, "incomingBytes", t)>>
    OBVIOUS
  <2>2. all = s \o ops
    BY <1>1, <1>10, <2>1 DEF Commands, UploadPart
  <2>3. Len(all) > 0 /\ all[1] = Size(r, Delta(m))
    BY <1>2, <1>7, <2>1, <2>2, EndsIs
  <2>4. g[1] = v.size
    BY <1>3, <1>5, <2>3
  <2>5. QED
    BY <1>1, <1>10, <2>4 DEF Replied
<1>11. CASE Method(m) = "overwrite"
  <2>1. PICK s : s = <<Size(r, -m.old)>>
    OBVIOUS
  <2>2. all = s \o ops
    BY <1>1, <1>11, <2>1 DEF Commands, MultipartUploadOverwrite
  <2>3. Len(all) > 0 /\ all[1] = Size(r, -m.old)
    BY <1>2, <1>6, <2>1, <2>2, EndsIs
  <2>4. g[1] = v.size
    BY <1>3, <1>5, <2>3
  <2>5. QED
    BY <1>1, <1>11, <2>4 DEF Replied
<1>12. CASE Method(m) = "complete"
  <2>1. PICK s : s = <<Objects(r, 1)>>
    OBVIOUS
  <2>2. all = s \o ops
    BY <1>1, <1>12, <2>1 DEF Commands, CompleteMultipartUpload
  <2>3. Len(all) > 0 /\ all[1] = Objects(r, 1)
    BY <1>2, <1>6, <2>1, <2>2, EndsIs
  <2>4. g[1] = v.objects
    BY <1>3, <1>5, <2>3
  <2>5. QED
    BY <1>1, <1>12, <2>4 DEF Replied
<1>13. CASE Method(m) = "delete"
  <2>1. PICK s, u, w : /\ s = <<Size(r, -m.bytes)>> /\ w = s \o ops
                       /\ u = IF m.action = "abortMultipartUpload" THEN <<>> ELSE <<Objects(r, -m.objects)>>
    OBVIOUS
  <2>2. all = w \o u
    BY <1>1, <1>13, <2>1 DEF Commands, DeleteObject
  <2>3. IsSeq(w) /\ Len(w) \in Nat /\ Len(w) > 0 /\ w[1] = Size(r, -m.bytes)
    BY <1>2, <1>6, <1>8, <2>1, EndsIs
  <2>4. IsSeq(u) /\ Len(u) \in Nat
    BY <1>6, <1>9, <2>1
  <2>5. m.action # "abortMultipartUpload" => Len(u) > 0 /\ u[Len(u)] = Objects(r, -m.objects)
    BY <1>6, <2>1
  <2>6. /\ Len(all) > 0 /\ all[1] = Size(r, -m.bytes)
        /\ m.action # "abortMultipartUpload" => all[Len(all)] = Objects(r, -m.objects)
    BY <2>2, <2>3, <2>4, <2>5, EndsIs
  <2>7. g[1] = v.size /\ (m.action # "abortMultipartUpload" => Last(g) = v.objects)
    BY <1>3, <1>5, <2>6
  <2>8. QED
    BY <1>1, <1>13, <2>7 DEF Replied
<1>14. CASE Method(m) = "put"
  <2>1. PICK x : x = IF m.old = Nil THEN Objects(r, 1)
                     ELSE Cmd("get", generateCounter(r, "numberOfObjectsCounter"), Nil)
    OBVIOUS
  <2>2. PICK s, u, w : /\ s = <<Size(r, Delta(m)), x>> /\ w = s \o ops
                       /\ u = IF m.action = "copyObject" THEN <<>> ELSE <<Bytes(m, r, "incomingBytes", t)>>
    OBVIOUS
  <2>3. all = w \o u
    BY <1>1, <1>14, <2>1, <2>2 DEF Commands, PutObject
  <2>4. IsSeq(s) /\ Len(s) = 2 /\ s[1] = Size(r, Delta(m)) /\ s[2] = x
    BY <1>7, <2>2
  <2>5. IsSeq(w) /\ Len(w) \in Nat /\ Len(w) > 1 /\ w[1] = Size(r, Delta(m)) /\ w[2] = x
    <3>1. w = s \o ops
      BY <2>2
    <3>2. Len(w) = Len(s) + Len(ops)
      BY <1>2, <2>4, <3>1, EndsIs
    <3>3. w[1] = s[1]
      BY <1>2, <2>4, <3>1, EndsIs
    <3>4. w[2] = s[2]
      <4>1. IsSeq(s) /\ IsSeq(ops) /\ Len(s) > 1
        BY <1>2, <2>4
      <4>2. (s \o ops)[2] = s[2]
        BY <4>1, EndsIs
      <4>3. QED
        BY <3>1, <4>2
    <3>5. IsSeq(w)
      BY <1>8, <2>4, <3>1
    <3>6. QED
      BY <1>2, <2>4, <3>2, <3>3, <3>4, <3>5
  <2>6. IsSeq(u) /\ Len(u) \in Nat
    BY <1>6, <1>9, <2>2
  <2>7. Len(all) > 1 /\ all[1] = Size(r, Delta(m)) /\ all[2] = x
    BY <2>3, <2>5, <2>6, EndsIs
  <2>8. Reply(D, x) = v.objects
    BY <1>1, <1>3, <2>1 DEF Reply, Cmd, View
  <2>9. g[1] = v.size /\ g[2] = v.objects
    BY <1>3, <1>4, <2>7, <2>8
  <2>10. QED
    BY <1>1, <1>14, <2>9 DEF Replied
<1>15. CASE Method(m) = "marker"
  <2>1. PICK c, s, w : /\ c = Cmd("zrangebyscore", generateStateKey(r, "storageUtilized"), t)
                       /\ s = <<Objects(r, 1)>> /\ w = s \o ops
    OBVIOUS
  <2>2. all = w \o <<c>>
    BY <1>1, <1>15, <2>1 DEF Commands, DeleteMarker
  <2>3. IsSeq(w) /\ Len(w) \in Nat /\ Len(w) > 0 /\ w[1] = Objects(r, 1)
    BY <1>2, <1>6, <1>8, <2>1, EndsIs
  <2>4. Len(all) > 0 /\ all[1] = Objects(r, 1) /\ all[Len(all)] = c
    BY <1>6, <2>2, <2>3, EndsIs
  <2>5. Reply(D, c) = {e[2] : e \in {x \in v.sizes : x[1] = t}}
    BY <1>1, <2>1 DEF Reply, Cmd, View, zrangebyscore
  <2>6. g[1] = v.objects /\ Last(g) = {e[2] : e \in {x \in v.sizes : x[1] = t}}
    BY <1>3, <1>5, <2>4, <2>5
  <2>7. QED
    BY <1>1, <1>15, <2>6 DEF Replied
<1>16. QED
  BY <1>10, <1>11, <1>12, <1>13, <1>14, <1>15 DEF Method, ReadsReplies

\* What the second transaction does to a level, from the replies g of the first.
Closing(m, v, t, g) ==
  CASE Method(m) = "part" -> Stamped(v, Stamp(v.sizes, t, AsIfEmpty(g[1], Delta(m))), v.numbers)
    [] Method(m) = "overwrite" -> Stamped(v, Stamp(v.sizes, t, g[1]), v.numbers)
    [] Method(m) = "complete" -> Stamped(v, v.sizes, Stamp(v.numbers, t, AsIfEmpty(g[1], 1)))
    [] Method(m) = "delete" ->
         Stamped(v, Stamp(v.sizes, t, AsIfEmpty(g[1], 0)),
                 IF m.action = "abortMultipartUpload" THEN v.numbers
                 ELSE Stamp(v.numbers, t, AsIfEmpty(Last(g), 0)))
    [] Method(m) = "put" ->
         Stamped(v, Stamp(v.sizes, t, AsIfEmpty(g[1], Delta(m))), Stamp(v.numbers, t, AsIfEmpty(g[2], 1)))
    [] Method(m) = "marker" ->
         IF m.bytes # Nil
         THEN Stamped(Sized(Numbered(v, -1), -m.bytes), Stamp(v.sizes, t, MarkerSize(m, Last(g))),
                      Stamp(v.numbers, t, AsIfEmpty(g[1], 1) - 1))
         ELSE Stamped(v, Stamp(v.sizes, t, MarkerSize(m, Last(g))),
                      Stamp(v.numbers, t, AsIfEmpty(g[1], 1)))

\* The second transaction, command by command.
LEMMA SnapshotsView ==
  ASSUME NEW m, ReadsReplies(m), NEW r, NEW t, NEW g
  PROVE  /\ IsSeq(Snapshots(m, r, t, g))
         /\ \A D : View(batch(D, Snapshots(m, r, t, g)), r) = Closing(m, View(D, r), t, g)
<1> DEFINE sz(n) == Snapshot(r, "storageUtilized", t, n)
           nm(n) == Snapshot(r, "numberOfObjects", t, n)
<1>1. \A n : /\ IsSeq(sz(n)) /\ IsSeq(nm(n))
             /\ \A D : /\ View(batch(D, sz(n)), r)
                            = Stamped(View(D, r), Stamp(View(D, r).sizes, t, n), View(D, r).numbers)
                       /\ View(batch(D, nm(n)), r)
                            = Stamped(View(D, r), View(D, r).sizes, Stamp(View(D, r).numbers, t, n))
  <2>1. ASSUME NEW n
        PROVE  IsSeq(sz(n)) /\ IsSeq(nm(n))
    BY SnapshotIs
  <2>2. ASSUME NEW n, NEW D
        PROVE  View(batch(D, sz(n)), r) = Stamped(View(D, r), Stamp(View(D, r).sizes, t, n), View(D, r).numbers)
    BY SnapshotViews
  <2>3. ASSUME NEW n, NEW D
        PROVE  View(batch(D, nm(n)), r) = Stamped(View(D, r), View(D, r).sizes, Stamp(View(D, r).numbers, t, n))
    BY SnapshotViews
  <2> HIDE DEF sz, nm
  <2>4. QED
    BY <2>1, <2>2, <2>3
<1>2. \A s, u : IsSeq(s) /\ IsSeq(u) =>
        IsSeq(s \o u) /\ \A D : View(batch(D, s \o u), r) = View(batch(batch(D, s), u), r)
  BY Then
<1>3. IsSeq(<<>>) /\ \A D : batch(D, <<>>) = D
  <2>1. <<>> \in Seq({})
    OBVIOUS
  <2>2. QED
    BY <2>1, BatchEmpty DEF IsSeq
<1>4. \A v, s, n : /\ Stamped(v, s, n).sizes = s /\ Stamped(v, s, n).numbers = n
                   /\ \A x, y : Stamped(Stamped(v, s, n), x, y) = Stamped(v, x, y)
  BY DEF Stamped
<1>5. ASSUME NEW a, NEW b
      PROVE  /\ IsSeq(sz(a) \o nm(b))
             /\ \A D : View(batch(D, sz(a) \o nm(b)), r)
                         = Stamped(View(D, r), Stamp(View(D, r).sizes, t, a), Stamp(View(D, r).numbers, t, b))
  <2> HIDE DEF sz, nm
  <2>1. IsSeq(sz(a)) /\ IsSeq(nm(b))
    BY <1>1
  <2>2. IsSeq(sz(a) \o nm(b)) /\ \A D : View(batch(D, sz(a) \o nm(b)), r) = View(batch(batch(D, sz(a)), nm(b)), r)
    BY <1>2, <2>1
  <2>3. ASSUME NEW D
        PROVE  View(batch(batch(D, sz(a)), nm(b)), r)
                 = Stamped(View(D, r), Stamp(View(D, r).sizes, t, a), Stamp(View(D, r).numbers, t, b))
    BY <1>1, <1>4
  <2>4. QED
    BY <2>2, <2>3
<1>6. CASE Method(m) = "part"
  <2>1. PICK n : n = AsIfEmpty(g[1], Delta(m))
    OBVIOUS
  <2>2. Snapshots(m, r, t, g) = sz(n)
    BY <1>6, <2>1 DEF Snapshots, PartSnapshots
  <2>3. \A v : Closing(m, v, t, g) = Stamped(v, Stamp(v.sizes, t, n), v.numbers)
    BY <1>6, <2>1 DEF Closing
  <2> HIDE DEF sz
  <2>4. QED
    BY <1>1, <2>2, <2>3
<1>7. CASE Method(m) = "overwrite"
  <2>1. Snapshots(m, r, t, g) = sz(g[1])
    BY <1>7 DEF Snapshots, OverwriteSnapshots
  <2>2. \A v : Closing(m, v, t, g) = Stamped(v, Stamp(v.sizes, t, g[1]), v.numbers)
    BY <1>7 DEF Closing
  <2> HIDE DEF sz
  <2>3. QED
    BY <1>1, <2>1, <2>2
<1>8. CASE Method(m) = "complete"
  <2>1. PICK n : n = AsIfEmpty(g[1], 1)
    OBVIOUS
  <2>2. Snapshots(m, r, t, g) = nm(n)
    BY <1>8, <2>1 DEF Snapshots, CompleteSnapshots
  <2>3. \A v : Closing(m, v, t, g) = Stamped(v, v.sizes, Stamp(v.numbers, t, n))
    BY <1>8, <2>1 DEF Closing
  <2> HIDE DEF nm
  <2>4. QED
    BY <1>1, <2>2, <2>3
<1>9. CASE Method(m) = "delete"
  <2>1. PICK a, b : a = AsIfEmpty(g[1], 0) /\ b = AsIfEmpty(Last(g), 0)
    OBVIOUS
  <2>2. Snapshots(m, r, t, g) = sz(a) \o (IF m.action = "abortMultipartUpload" THEN <<>> ELSE nm(b))
    BY <1>9, <2>1 DEF Snapshots, DeleteSnapshots
  <2>3. \A v : Closing(m, v, t, g) =
                 Stamped(v, Stamp(v.sizes, t, a),
                         IF m.action = "abortMultipartUpload" THEN v.numbers ELSE Stamp(v.numbers, t, b))
    BY <1>9, <2>1 DEF Closing
  <2>4. CASE m.action = "abortMultipartUpload"
    <3>1. Snapshots(m, r, t, g) = sz(a) \o <<>>
      BY <2>2, <2>4
    <3> HIDE DEF sz, nm
    <3>2. IsSeq(sz(a))
      BY <1>1
    <3>3. IsSeq(sz(a) \o <<>>) /\ \A D : View(batch(D, sz(a) \o <<>>), r) = View(batch(D, sz(a)), r)
      BY <1>2, <1>3, <3>2
    <3>4. \A v : Closing(m, v, t, g) = Stamped(v, Stamp(v.sizes, t, a), v.numbers)
      BY <2>3, <2>4
    <3>5. QED
      BY <1>1, <3>1, <3>3, <3>4
  <2>5. CASE m.action # "abortMultipartUpload"
    <3>1. Snapshots(m, r, t, g) = sz(a) \o nm(b)
      BY <2>2, <2>5
    <3>2. \A v : Closing(m, v, t, g) = Stamped(v, Stamp(v.sizes, t, a), Stamp(v.numbers, t, b))
      BY <2>3, <2>5
    <3> HIDE DEF sz, nm
    <3>3. QED
      BY <1>5, <3>1, <3>2
  <2>6. QED
    BY <2>4, <2>5
<1>10. CASE Method(m) = "put"
  <2>1. PICK a, b : a = AsIfEmpty(g[1], Delta(m)) /\ b = AsIfEmpty(g[2], 1)
    OBVIOUS
  <2>2. Snapshots(m, r, t, g) = sz(a) \o nm(b)
    BY <1>10, <2>1 DEF Snapshots, PutSnapshots
  <2>3. \A v : Closing(m, v, t, g) = Stamped(v, Stamp(v.sizes, t, a), Stamp(v.numbers, t, b))
    BY <1>10, <2>1 DEF Closing
  <2> HIDE DEF sz, nm
  <2>4. QED
    BY <1>5, <2>2, <2>3
<1>11. CASE Method(m) = "marker"
  <2>1. PICK a, b, x : a = MarkerSize(m, Last(g)) /\ b = AsIfEmpty(g[1], 1)
                       /\ x = <<Objects(r, -1), Size(r, -m.bytes)>>
    OBVIOUS
  <2>2. CASE m.bytes = Nil
    <3>1. Snapshots(m, r, t, g) = (nm(b) \o <<>>) \o sz(a)
      BY <1>11, <2>1, <2>2 DEF Snapshots, MarkerSnapshots
    <3>2. \A v : Closing(m, v, t, g) = Stamped(v, Stamp(v.sizes, t, a), Stamp(v.numbers, t, b))
      BY <1>11, <2>1, <2>2 DEF Closing
    <3> HIDE DEF sz, nm
    <3>3. IsSeq(nm(b) \o <<>>) /\ \A D : View(batch(D, nm(b) \o <<>>), r) = View(batch(D, nm(b)), r)
      BY <1>1, <1>2, <1>3
    <3>4. PICK s : s = nm(b) \o <<>>
      OBVIOUS
    <3>5. IsSeq(s \o sz(a)) /\ \A D : View(batch(D, s \o sz(a)), r) = View(batch(batch(D, s), sz(a)), r)
      BY <1>1, <1>2, <3>3, <3>4
    <3>6. ASSUME NEW D
          PROVE  View(batch(D, s \o sz(a)), r)
                   = Stamped(View(D, r), Stamp(View(D, r).sizes, t, a), Stamp(View(D, r).numbers, t, b))
      <4>1. PICK E : E = batch(D, s)
        OBVIOUS
      <4>2. View(E, r) = Stamped(View(D, r), View(D, r).sizes, Stamp(View(D, r).numbers, t, b))
        BY <1>1, <3>3, <3>4, <4>1
      <4>3. View(batch(E, sz(a)), r) = Stamped(View(E, r), Stamp(View(E, r).sizes, t, a), View(E, r).numbers)
        BY <1>1
      <4>4. QED
        BY <1>4, <3>5, <4>1, <4>2, <4>3
    <3>7. QED
      BY <3>1, <3>2, <3>4, <3>5, <3>6
  <2>3. CASE m.bytes # Nil
    <3>1. Snapshots(m, r, t, g) = (nm(b - 1) \o x) \o sz(a)
      BY <1>11, <2>1, <2>3 DEF Snapshots, MarkerSnapshots
    <3>2. \A v : Closing(m, v, t, g) =
                   Stamped(Sized(Numbered(v, -1), -m.bytes), Stamp(v.sizes, t, a), Stamp(v.numbers, t, b - 1))
      BY <1>11, <2>1, <2>3 DEF Closing
    <3> HIDE DEF sz, nm
    <3>3. IsSeq(x) /\ \A D : View(batch(D, x), r) = Sized(Numbered(View(D, r), -1), -m.bytes)
      <4>1. PICK c, d : c = Objects(r, -1) /\ d = Size(r, -m.bytes)
        OBVIOUS
      <4>2. IsSeq(x) /\ \A D : batch(D, x) = batch(batch(D, <<c>>), <<d>>)
        BY <2>1, <4>1, PairSeq
      <4>3. \A D : View(batch(D, <<c>>), r) = Numbered(View(D, r), -1)
        BY <4>1, ObjectsView
      <4>4. \A D : View(batch(D, <<d>>), r) = Sized(View(D, r), -m.bytes)
        BY <4>1, SizeView
      <4>5. QED
        BY <4>2, <4>3, <4>4
    <3>4. PICK w : w = nm(b - 1)
      OBVIOUS
    <3>5. IsSeq(w) /\ \A D : View(batch(D, w), r) = Stamped(View(D, r), View(D, r).sizes, Stamp(View(D, r).numbers, t, b - 1))
      BY <1>1, <3>4
    <3>6. PICK s : s = w \o x
      OBVIOUS
    <3>7. IsSeq(s) /\ \A D : View(batch(D, s), r) = View(batch(batch(D, w), x), r)
      BY <1>2, <3>3, <3>5, <3>6
    <3>8. IsSeq(s \o sz(a)) /\ \A D : View(batch(D, s \o sz(a)), r) = View(batch(batch(D, s), sz(a)), r)
      BY <1>1, <1>2, <3>7
    <3>9. ASSUME NEW D
          PROVE  View(batch(D, s \o sz(a)), r)
                   = Stamped(Sized(Numbered(View(D, r), -1), -m.bytes),
                             Stamp(View(D, r).sizes, t, a), Stamp(View(D, r).numbers, t, b - 1))
      <4>1. PICK E, v, y : E = batch(D, s) /\ v = View(D, r) /\ y = Stamp(View(D, r).numbers, t, b - 1)
        OBVIOUS
      <4>2. View(E, r) = Sized(Numbered(Stamped(v, v.sizes, y), -1), -m.bytes)
        BY <3>3, <3>5, <3>7, <4>1
      <4>3. View(batch(E, sz(a)), r) = Stamped(View(E, r), Stamp(View(E, r).sizes, t, a), View(E, r).numbers)
        BY <1>1
      <4>4. View(E, r).sizes = v.sizes /\ View(E, r).numbers = y
        BY <4>2 DEF Sized, Numbered, Stamped
      <4>5. \A q : Stamped(View(E, r), q, y) = Stamped(Sized(Numbered(v, -1), -m.bytes), q, y)
        BY <4>2 DEF Sized, Numbered, Stamped
      <4>6. QED
        BY <3>8, <4>1, <4>3, <4>4, <4>5
    <3>10. QED
      BY <3>1, <3>2, <3>4, <3>6, <3>8, <3>9
  <2>4. QED
    BY <2>2, <2>3
<1>12. QED
  BY <1>6, <1>7, <1>8, <1>9, <1>10, <1>11 DEF Method, ReadsReplies

-----------------------------------------------------------------------------
(***************************************************************************)
(* A push leaves the present values as the last snapshots.                 *)
(***************************************************************************)

\* The last of the snapshots S, the only one of its period.
Newest(S, e, n) ==
  /\ e \in S /\ e[1] \in Int /\ e[1] =< n
  /\ \A f \in S : f[1] \in Int /\ f[1] =< e[1] /\ (f[1] = e[1] => f = e)

\* The counters are numbers, and each that exists and is not negative has its
\* present value as its last snapshot, or, of the bytes of a resource r of those
\* in X, what is no number.
GoodValues(v) ==
  /\ v.size0 \in Int /\ v.objects0 \in Int
  /\ v.size \in {Nil, v.size0} /\ v.objects \in {Nil, v.objects0}
GoodSize(v, n, r, X) ==
  /\ v.size # Nil => v.sizes # {}
  /\ v.sizes # {} =>
       \E e : /\ Newest(v.sizes, e, n)
              /\ \/ e[2] = NaN /\ r \in X
                 \/ e[2] \in Int /\ v.size # Nil /\ (v.size0 < 0 \/ e[2] = v.size0)
GoodNumber(v, n) ==
  /\ v.objects # Nil => v.numbers # {}
  /\ v.numbers # {} =>
       \E e : /\ Newest(v.numbers, e, n)
              /\ e[2] \in Int /\ (v.objects = Nil \/ v.objects0 < 0 \/ e[2] = v.objects0)
GoodView(v, n, r, X) == GoodValues(v) /\ GoodSize(v, n, r, X) /\ GoodNumber(v, n)

\* A snapshot of the present is the last one.
LEMMA StampNewest ==
  ASSUME NEW S, NEW t \in Int, NEW n, S # {} => \E e : Newest(S, e, t)
  PROVE  Newest(Stamp(S, t, n), <<t, n>>, t)
<1>1. \A f \in S : f[1] \in Int /\ f[1] =< t
  BY DEF Newest
<1>2. PICK x : x = <<t, n>>
  OBVIOUS
<1>3. x[1] = t
  BY <1>2
<1>4. QED
  BY <1>1, <1>2, <1>3 DEF Stamp, Newest

\* A counter that got a number and its snapshot.
LEMMA SizeStamped ==
  ASSUME NEW v, NEW t \in Int, NEW S, S # {} => \E e : Newest(S, e, t), NEW n, NEW r, NEW X,
         v.sizes = Stamp(S, t, n),
         \/ n = NaN /\ r \in X
         \/ n \in Int /\ v.size # Nil /\ (v.size0 < 0 \/ n = v.size0)
  PROVE  GoodSize(v, t, r, X)
<1>1. PICK x : x = <<t, n>>
  OBVIOUS
<1>2. x[2] = n /\ Newest(v.sizes, x, t)
  BY <1>1, StampNewest
<1>3. v.sizes # {}
  BY <1>2 DEF Newest
<1>4. QED
  BY <1>2, <1>3 DEF GoodSize

LEMMA NumberStamped ==
  ASSUME NEW v, NEW t \in Int, NEW S, S # {} => \E e : Newest(S, e, t), NEW n,
         v.numbers = Stamp(S, t, n),
         n \in Int, v.objects = Nil \/ v.objects0 < 0 \/ n = v.objects0
  PROVE  GoodNumber(v, t)
<1>1. PICK x : x = <<t, n>>
  OBVIOUS
<1>2. x[2] = n /\ Newest(v.numbers, x, t)
  BY <1>1, StampNewest
<1>3. v.numbers # {}
  BY <1>2 DEF Newest
<1>4. QED
  BY <1>2, <1>3 DEF GoodNumber

\* What a delete marker reads: the snapshot of its period, if it has one.
LEMMA MarkerReads ==
  ASSUME NEW v, NEW t \in Int, NEW r, NEW X, GoodSize(v, t, r, X), NEW m, m.bytes \in Nat \cup {Nil}, NEW stored,
         stored = {e[2] : e \in {x \in v.sizes : x[1] = t}}
  PROVE  \/ MarkerSize(m, stored) = NaN
         \/ /\ m.bytes \in Nat /\ v.size # Nil
            /\ \E old \in Int : /\ v.size0 < 0 \/ old = v.size0
                                /\ MarkerSize(m, stored) = IF old < m.bytes THEN 0 ELSE old - m.bytes
<1>1. CASE stored = {} \/ m.bytes = Nil
  BY <1>1 DEF MarkerSize
<1>2. CASE stored # {} /\ m.bytes # Nil
  <2>1. PICK f \in v.sizes : f[1] = t /\ f[2] \in stored
    BY <1>2
  <2>2. PICK e : /\ Newest(v.sizes, e, t)
                 /\ \/ e[2] = NaN
                    \/ e[2] \in Int /\ v.size # Nil /\ (v.size0 < 0 \/ e[2] = v.size0)
    BY <2>1 DEF GoodSize
  <2>3. \A x \in v.sizes : x[1] = t => x = e
    BY <2>1, <2>2 DEF Newest
  <2>4. \A x \in stored : x = e[2]
    BY <2>3
  <2>5. PICK old : old = CHOOSE x \in stored : TRUE
    OBVIOUS
  <2>6. old \in stored
    BY <1>2, <2>5
  <2>7. old = e[2]
    BY <2>4, <2>6
  <2>8. MarkerSize(m, stored) = IF old = NaN THEN NaN ELSE IF old < m.bytes THEN 0 ELSE old - m.bytes
    BY <1>2, <2>5 DEF MarkerSize
  <2>9. CASE old = NaN
    BY <2>8, <2>9
  <2>10. CASE old # NaN
    <3>1. old \in Int /\ v.size # Nil /\ (v.size0 < 0 \/ old = v.size0)
      BY <2>2, <2>7, <2>10
    <3>2. m.bytes \in Nat
      BY <1>2
    <3>3. QED
      BY <2>8, <2>10, <3>1, <3>2
  <2>11. QED
    BY <2>9, <2>10
<1>3. QED
  BY <1>1, <1>2

\* Counters that stay, with their snapshots.
LEMMA Restamped ==
  ASSUME NEW v, NEW w, NEW t, w.size = v.size, w.size0 = v.size0, w.sizes = v.sizes,
         NEW r, NEW X, GoodSize(v, t, r, X)
  PROVE  GoodSize(w, t, r, X)
BY DEF GoodSize

LEMMA Renumbered ==
  ASSUME NEW v, NEW w, NEW t, w.objects = v.objects, w.objects0 = v.objects0, w.numbers = v.numbers,
         GoodNumber(v, t)
  PROVE  GoodNumber(w, t)
BY DEF GoodNumber

\* A push that ended leaves good snapshots if it found good ones.
LEMMA GoodLevel ==
  ASSUME NEW m, Typed(m), ReadsReplies(m), NEW v, NEW t \in Int, NEW r, NEW X,
         GoodView(v, t, r, X), Method(m) = "marker" => r \in X, NEW g, Replied(m, g, After(m, v), t)
  PROVE  GoodView(Closing(m, After(m, v), t, g), t, r, X)
<1>1. /\ v.size0 \in Int /\ v.objects0 \in Int /\ Nil \notin Int /\ NaN \notin Int
      /\ v.size \in {Nil, v.size0} /\ v.objects \in {Nil, v.objects0}
      /\ GoodSize(v, t, r, X) /\ GoodNumber(v, t)
  BY ValuesAssumption DEF GoodView, GoodValues
<1>2. /\ v.sizes # {} => \E e : Newest(v.sizes, e, t)
      /\ v.numbers # {} => \E e : Newest(v.numbers, e, t)
  BY <1>1 DEF GoodSize, GoodNumber
<1>3. PICK w, z : w = After(m, v) /\ z = Closing(m, w, t, g)
  OBVIOUS
<1>4. Replied(m, g, w, t)
  BY <1>3
<1>5. SUFFICES GoodValues(z) /\ GoodSize(z, t, r, X) /\ GoodNumber(z, t)
  BY <1>3 DEF GoodView
<1>6. /\ \A n \in Int, d \in Int : AsIfEmpty(n, d) \in Int /\ (n < 0 \/ AsIfEmpty(n, d) = n)
      /\ \A n \in Int : AsIfEmpty(n, 1) \in Int /\ (n < 0 \/ AsIfEmpty(n, 1) = n)
      /\ AsIfEmpty(Nil, 1) = 1
  BY <1>1 DEF AsIfEmpty
<1>7. Method(m) \in {"part", "put"} => Delta(m) \in Int
  BY <1>1 DEF Typed, Moves, Delta, OldSize
<1>8. CASE Method(m) = "part"
  <2>1. w = Sized(v, Delta(m)) /\ g[1] = w.size
    BY <1>3, <1>4, <1>8 DEF After, Replied
  <2>2. PICK n : n = AsIfEmpty(g[1], Delta(m))
    OBVIOUS
  <2>3. z = Stamped(w, Stamp(w.sizes, t, n), w.numbers)
    BY <1>3, <1>8, <2>2 DEF Closing
  <2>4. /\ w.size = v.size0 + Delta(m) /\ w.size0 = w.size /\ w.size \in Int
        /\ w.objects = v.objects /\ w.objects0 = v.objects0 /\ w.sizes = v.sizes /\ w.numbers = v.numbers
    BY <1>1, <1>7, <1>8, <2>1 DEF Sized
  <2>5. /\ z.size = w.size /\ z.size0 = w.size /\ z.objects = v.objects /\ z.objects0 = v.objects0
        /\ z.sizes = Stamp(v.sizes, t, n) /\ z.numbers = v.numbers
    BY <2>3, <2>4 DEF Stamped
  <2>6. n \in Int /\ (z.size0 < 0 \/ n = z.size0) /\ z.size # Nil
    <3>1. Delta(m) \in Int
      BY <1>7, <1>8
    <3>2. n = AsIfEmpty(w.size, Delta(m)) /\ w.size \in Int
      BY <2>1, <2>2, <2>4
    <3>3. n \in Int /\ (w.size < 0 \/ n = w.size)
      BY <1>6, <3>1, <3>2
    <3>4. QED
      BY <1>1, <2>4, <2>5, <3>3
  <2>7. GoodSize(z, t, r, X)
    BY <1>2, <2>5, <2>6, SizeStamped
  <2>8. GoodNumber(z, t)
    BY <1>1, <2>5, Renumbered
  <2>9. GoodValues(z)
    BY <1>1, <2>4, <2>5 DEF GoodValues
  <2>10. QED
    BY <2>7, <2>8, <2>9
<1>9. CASE Method(m) = "overwrite"
  <2>1. w = Sized(v, -m.old) /\ g[1] = w.size
    BY <1>3, <1>4, <1>9 DEF After, Replied
  <2>2. m.old \in Nat
    BY <1>9 DEF Typed, Method
  <2>3. z = Stamped(w, Stamp(w.sizes, t, g[1]), w.numbers)
    BY <1>3, <1>9 DEF Closing
  <2>4. /\ w.size = v.size0 + (-m.old) /\ w.size0 = w.size /\ w.size \in Int
        /\ w.objects = v.objects /\ w.objects0 = v.objects0 /\ w.sizes = v.sizes /\ w.numbers = v.numbers
    BY <1>1, <2>1, <2>2 DEF Sized
  <2>5. /\ z.size = w.size /\ z.size0 = w.size /\ z.objects = v.objects /\ z.objects0 = v.objects0
        /\ z.sizes = Stamp(v.sizes, t, w.size) /\ z.numbers = v.numbers
    BY <2>1, <2>3, <2>4 DEF Stamped
  <2>6. z.size # Nil
    BY <1>1, <2>4, <2>5
  <2>7. GoodSize(z, t, r, X)
    BY <1>2, <2>4, <2>5, <2>6, SizeStamped
  <2>8. GoodNumber(z, t)
    BY <1>1, <2>5, Renumbered
  <2>9. GoodValues(z)
    BY <1>1, <2>4, <2>5 DEF GoodValues
  <2>10. QED
    BY <2>7, <2>8, <2>9
<1>10. CASE Method(m) = "complete"
  <2>1. w = Numbered(v, 1) /\ g[1] = w.objects
    BY <1>3, <1>4, <1>10 DEF After, Replied
  <2>2. PICK n : n = AsIfEmpty(g[1], 1)
    OBVIOUS
  <2>3. z = Stamped(w, w.sizes, Stamp(w.numbers, t, n))
    BY <1>3, <1>10, <2>2 DEF Closing
  <2>4. /\ w.objects = v.objects0 + 1 /\ w.objects0 = w.objects /\ w.objects \in Int
        /\ w.size = v.size /\ w.size0 = v.size0 /\ w.sizes = v.sizes /\ w.numbers = v.numbers
    BY <1>1, <2>1 DEF Numbered
  <2>5. /\ z.objects = w.objects /\ z.objects0 = w.objects /\ z.size = v.size /\ z.size0 = v.size0
        /\ z.sizes = v.sizes /\ z.numbers = Stamp(v.numbers, t, n)
    BY <2>3, <2>4 DEF Stamped
  <2>6. n \in Int /\ (z.objects0 < 0 \/ n = z.objects0)
    BY <1>6, <2>1, <2>2, <2>4, <2>5
  <2>7. GoodNumber(z, t)
    BY <1>2, <2>5, <2>6, NumberStamped
  <2>8. GoodSize(z, t, r, X)
    BY <1>1, <2>5, Restamped
  <2>9. GoodValues(z)
    BY <1>1, <2>4, <2>5 DEF GoodValues
  <2>10. QED
    BY <2>7, <2>8, <2>9
<1>11. CASE Method(m) = "delete"
  <2>1. m.bytes \in Nat /\ (m.action # "abortMultipartUpload" => m.objects \in Nat)
    BY <1>11 DEF Typed
  <2>2. PICK a, b : a = AsIfEmpty(g[1], 0) /\ b = AsIfEmpty(Last(g), 0)
    OBVIOUS
  <2>3. g[1] = w.size /\ (m.action # "abortMultipartUpload" => Last(g) = w.objects)
    BY <1>4, <1>11 DEF Replied
  <2>4. CASE m.action = "abortMultipartUpload"
    <3>1. w = Sized(v, -m.bytes) /\ z = Stamped(w, Stamp(w.sizes, t, a), w.numbers)
      BY <1>3, <1>11, <2>2, <2>4 DEF After, Closing
    <3>2. /\ w.size = v.size0 + (-m.bytes) /\ w.size0 = w.size /\ w.size \in Int
          /\ w.objects = v.objects /\ w.objects0 = v.objects0 /\ w.sizes = v.sizes /\ w.numbers = v.numbers
      BY <1>1, <2>1, <3>1 DEF Sized
    <3>3. /\ z.size = w.size /\ z.size0 = w.size /\ z.objects = v.objects /\ z.objects0 = v.objects0
          /\ z.sizes = Stamp(v.sizes, t, a) /\ z.numbers = v.numbers
      BY <3>1, <3>2 DEF Stamped
    <3>4. a \in Int /\ (z.size0 < 0 \/ a = z.size0) /\ z.size # Nil
      BY <1>1, <1>6, <2>2, <2>3, <3>2, <3>3
    <3>5. GoodSize(z, t, r, X)
      BY <1>2, <3>3, <3>4, SizeStamped
    <3>6. GoodNumber(z, t)
      BY <1>1, <3>3, Renumbered
    <3>7. GoodValues(z)
      BY <1>1, <3>2, <3>3 DEF GoodValues
    <3>8. QED
      BY <3>5, <3>6, <3>7
  <2>5. CASE m.action # "abortMultipartUpload"
    <3>1. w = Numbered(Sized(v, -m.bytes), -m.objects)
          /\ z = Stamped(w, Stamp(w.sizes, t, a), Stamp(w.numbers, t, b))
      BY <1>3, <1>11, <2>2, <2>5 DEF After, Closing
    <3>2. /\ w.size = v.size0 + (-m.bytes) /\ w.size0 = w.size /\ w.size \in Int
          /\ w.objects = v.objects0 + (-m.objects) /\ w.objects0 = w.objects /\ w.objects \in Int
          /\ w.sizes = v.sizes /\ w.numbers = v.numbers
      BY <1>1, <2>1, <2>5, <3>1 DEF Sized, Numbered
    <3>3. /\ z.size = w.size /\ z.size0 = w.size /\ z.objects = w.objects /\ z.objects0 = w.objects
          /\ z.sizes = Stamp(v.sizes, t, a) /\ z.numbers = Stamp(v.numbers, t, b)
      BY <3>1, <3>2 DEF Stamped
    <3>4. a \in Int /\ (z.size0 < 0 \/ a = z.size0) /\ z.size # Nil
      BY <1>1, <1>6, <2>2, <2>3, <3>2, <3>3
    <3>5. GoodSize(z, t, r, X)
      BY <1>2, <3>3, <3>4, SizeStamped
    <3>6. b \in Int /\ (z.objects0 < 0 \/ b = z.objects0)
      BY <1>6, <2>2, <2>3, <2>5, <3>2, <3>3
    <3>7. GoodNumber(z, t)
      BY <1>2, <3>3, <3>6, NumberStamped
    <3>8. GoodValues(z)
      BY <3>2, <3>3 DEF GoodValues
    <3>9. QED
      BY <3>5, <3>7, <3>8
  <2>6. QED
    BY <2>4, <2>5
<1>12. CASE Method(m) = "put"
  <2>1. PICK a, b : a = AsIfEmpty(g[1], Delta(m)) /\ b = AsIfEmpty(g[2], 1)
    OBVIOUS
  <2>2. g[1] = w.size /\ g[2] = w.objects
    BY <1>4, <1>12 DEF Replied
  <2>3. w = (IF m.old = Nil THEN Numbered(Sized(v, Delta(m)), 1) ELSE Sized(v, Delta(m)))
        /\ z = Stamped(w, Stamp(w.sizes, t, a), Stamp(w.numbers, t, b))
    BY <1>3, <1>12, <2>1 DEF After, Closing
  <2>4. /\ w.size = v.size0 + Delta(m) /\ w.size0 = w.size /\ w.size \in Int
        /\ w.objects0 \in Int /\ w.objects \in {Nil, w.objects0}
        /\ w.sizes = v.sizes /\ w.numbers = v.numbers
    <3>1. CASE m.old = Nil
      BY <1>1, <1>7, <1>12, <2>3, <3>1 DEF Sized, Numbered
    <3>2. CASE m.old # Nil
      BY <1>1, <1>7, <1>12, <2>3, <3>2 DEF Sized
    <3>3. QED
      BY <3>1, <3>2
  <2>5. /\ z.size = w.size /\ z.size0 = w.size /\ z.objects = w.objects /\ z.objects0 = w.objects0
        /\ z.sizes = Stamp(v.sizes, t, a) /\ z.numbers = Stamp(v.numbers, t, b)
    BY <2>3, <2>4 DEF Stamped
  <2>6. a \in Int /\ (z.size0 < 0 \/ a = z.size0) /\ z.size # Nil
    <3>1. Delta(m) \in Int
      BY <1>7, <1>12
    <3>2. a = AsIfEmpty(w.size, Delta(m)) /\ w.size \in Int
      BY <2>1, <2>2, <2>4
    <3>3. a \in Int /\ (w.size < 0 \/ a = w.size)
      BY <1>6, <3>1, <3>2
    <3>4. QED
      BY <1>1, <2>4, <2>5, <3>3
  <2>7. GoodSize(z, t, r, X)
    BY <1>2, <2>5, <2>6, SizeStamped
  <2>8. b \in Int /\ (z.objects = Nil \/ z.objects0 < 0 \/ b = z.objects0)
    <3>1. CASE w.objects = Nil
      BY <1>6, <2>1, <2>2, <2>5, <3>1
    <3>2. CASE w.objects # Nil
      BY <1>6, <2>1, <2>2, <2>4, <2>5, <3>2
    <3>3. QED
      BY <3>1, <3>2
  <2>9. GoodNumber(z, t)
    BY <1>2, <2>5, <2>8, NumberStamped
  <2>10. GoodValues(z)
    BY <2>4, <2>5 DEF GoodValues
  <2>11. QED
    BY <2>7, <2>9, <2>10
<1>13. CASE Method(m) = "marker"
  <2>1. PICK a, b : a = MarkerSize(m, Last(g)) /\ b = AsIfEmpty(g[1], 1)
    OBVIOUS
  <2>2. w = Numbered(v, 1)
    BY <1>3, <1>13 DEF After
  <2>3. /\ w.objects = v.objects0 + 1 /\ w.objects0 = w.objects /\ w.objects \in Int
        /\ w.size = v.size /\ w.size0 = v.size0 /\ w.sizes = v.sizes /\ w.numbers = v.numbers
    BY <1>1, <2>2 DEF Numbered
  <2>4. g[1] = w.objects /\ Last(g) = {e[2] : e \in {x \in v.sizes : x[1] = t}}
    BY <1>4, <1>13, <2>3 DEF Replied
  <2>5. m.bytes \in Nat \cup {Nil}
    BY <1>13 DEF Typed
  <2>6. \/ a = NaN
        \/ /\ m.bytes \in Nat /\ v.size # Nil
           /\ \E old \in Int : /\ v.size0 < 0 \/ old = v.size0
                               /\ a = IF old < m.bytes THEN 0 ELSE old - m.bytes
    BY <1>1, <2>1, <2>4, <2>5, MarkerReads, ZenonT(30)
  <2>7. b \in Int /\ (w.objects < 0 \/ b = w.objects)
    BY <1>6, <2>1, <2>3, <2>4
  <2>8. CASE m.bytes = Nil
    <3>1. z = Stamped(w, Stamp(w.sizes, t, a), Stamp(w.numbers, t, b))
      BY <1>3, <1>13, <2>1, <2>8 DEF Closing
    <3>2. /\ z.size = v.size /\ z.size0 = v.size0 /\ z.objects = w.objects /\ z.objects0 = w.objects
          /\ z.sizes = Stamp(v.sizes, t, a) /\ z.numbers = Stamp(v.numbers, t, b)
      BY <2>3, <3>1 DEF Stamped
    <3>3. a = NaN /\ r \in X
      BY <1>1, <1>13, <2>6, <2>8
    <3>4. GoodSize(z, t, r, X)
      BY <1>2, <3>2, <3>3, SizeStamped
    <3>5. GoodNumber(z, t)
      BY <1>2, <2>7, <3>2, NumberStamped
    <3>6. GoodValues(z)
      BY <1>1, <2>3, <3>2 DEF GoodValues
    <3>7. QED
      BY <3>4, <3>5, <3>6
  <2>9. CASE m.bytes # Nil
    <3>1. z = Stamped(Sized(Numbered(w, -1), -m.bytes), Stamp(w.sizes, t, a), Stamp(w.numbers, t, b - 1))
      BY <1>3, <1>13, <2>1, <2>9 DEF Closing
    <3>2. /\ z.size = v.size0 + (-m.bytes) /\ z.size0 = z.size
          /\ z.objects = w.objects + (-1) /\ z.objects0 = z.objects
          /\ z.sizes = Stamp(v.sizes, t, a) /\ z.numbers = Stamp(v.numbers, t, b - 1)
      BY <2>3, <3>1 DEF Stamped, Sized, Numbered
    <3>3. m.bytes \in Nat
      BY <2>5, <2>9
    <3>4. z.size \in Int /\ z.objects \in Int
      BY <1>1, <2>3, <3>2, <3>3
    <3>5. (a = NaN /\ r \in X) \/ (a \in Int /\ z.size # Nil /\ (z.size0 < 0 \/ a = z.size0))
      BY <1>1, <1>13, <2>6, <3>2, <3>3, <3>4
    <3>6. GoodSize(z, t, r, X)
      BY <1>2, <3>2, <3>5, SizeStamped
    <3>7. b - 1 \in Int /\ (z.objects0 < 0 \/ b - 1 = z.objects0)
      BY <2>3, <2>7, <3>2
    <3>8. GoodNumber(z, t)
      BY <1>2, <3>2, <3>7, NumberStamped
    <3>9. GoodValues(z)
      BY <3>2, <3>4 DEF GoodValues
    <3>10. QED
      BY <3>6, <3>8, <3>9
  <2>10. QED
    BY <2>8, <2>9
<1>14. QED
  BY <1>8, <1>9, <1>10, <1>11, <1>12, <1>13 DEF Method, ReadsReplies

-----------------------------------------------------------------------------
(***************************************************************************)
(* The levels of a push do not touch each other.                           *)
(***************************************************************************)

\* Commands that are about one level.
Own(s, r) == \E C : s \in Seq(C) /\ \A c \in C : c.key[1] = r

LEMMA OwnBoth ==
  ASSUME NEW s, NEW u, NEW r, Own(s, r), Own(u, r)
  PROVE  Own(s \o u, r)
<1>1. PICK A : s \in Seq(A) /\ \A c \in A : c.key[1] = r
  BY DEF Own
<1>2. PICK B : u \in Seq(B) /\ \A c \in B : c.key[1] = r
  BY DEF Own
<1> DEFINE C == A \cup B
<1>3. s \in Seq(C) /\ u \in Seq(C) /\ \A c \in C : c.key[1] = r
  BY <1>1, <1>2
<1>4. s \o u \in Seq(C)
  <2> HIDE DEF C
  <2>1. QED
    BY <1>3, ConcatProperties
<1>5. QED
  BY <1>3, <1>4 DEF Own

LEMMA OwnFew ==
  ASSUME NEW r
  PROVE  /\ Own(<<>>, r)
         /\ \A c : c.key[1] = r => Own(<<c>>, r)
         /\ \A c, d : c.key[1] = r /\ d.key[1] = r => Own(<<c, d>>, r)
<1>1. Own(<<>>, r)
  <2> DEFINE C == {}
  <2>1. <<>> \in Seq(C) /\ \A c \in C : c.key[1] = r
    OBVIOUS
  <2> HIDE DEF C
  <2>2. QED
    BY <2>1 DEF Own
<1>2. ASSUME NEW c, c.key[1] = r
      PROVE  Own(<<c>>, r)
  <2> DEFINE C == {c}
  <2>1. <<c>> \in Seq(C) /\ \A x \in C : x.key[1] = r
    BY <1>2
  <2> HIDE DEF C
  <2>2. QED
    BY <2>1 DEF Own
<1>3. ASSUME NEW c, NEW d, c.key[1] = r, d.key[1] = r
      PROVE  Own(<<c, d>>, r)
  <2> DEFINE C == {c, d}
  <2>1. <<c, d>> \in Seq(C) /\ \A x \in C : x.key[1] = r
    BY <1>3
  <2> HIDE DEF C
  <2>2. QED
    BY <2>1 DEF Own
<1>4. QED
  BY <1>1, <1>2, <1>3

\* The keys of all commands of a level are keys of that level.
LEMMA KeysOwn ==
  ASSUME NEW r, NEW m, NEW t
  PROVE  /\ \A n : Size(r, n).key[1] = r /\ Objects(r, n).key[1] = r
         /\ \A way : Bytes(m, r, way, t).key[1] = r
         /\ \A op, metric, arg : /\ Cmd(op, generateStateKey(r, metric), arg).key[1] = r
                                 /\ Cmd(op, generateCounter(r, metric), arg).key[1] = r
         /\ Own(Operation(m, r, t), r)
<1>1. /\ \A n : Size(r, n).key[1] = r /\ Objects(r, n).key[1] = r
      /\ \A way : Bytes(m, r, way, t).key[1] = r
      /\ \A op, metric, arg : /\ Cmd(op, generateStateKey(r, metric), arg).key[1] = r
                              /\ Cmd(op, generateCounter(r, metric), arg).key[1] = r
      /\ \A op, metric, arg : Cmd(op, generateKey(r, metric, t), arg).key[1] = r
  BY DEF Size, Objects, Bytes, Cmd, generateCounter, generateStateKey, generateKey
<1>2. Own(Operation(m, r, t), r)
  BY <1>1, OwnFew DEF Operation
<1>3. QED
  BY <1>1, <1>2

LEMMA CommandsOwn ==
  ASSUME NEW m, NEW r, NEW t
  PROVE  Own(Commands(m, r, t), r)
<1>1. PICK ops : ops = Operation(m, r, t) /\ Own(ops, r)
  BY KeysOwn
<1>2. CASE Method(m) = "part"
  <2>1. PICK c, d : c = Size(r, Delta(m)) /\ d = Bytes(m, r, "incomingBytes", t)
    OBVIOUS
  <2>2. Commands(m, r, t) = <<c, d>> \o ops
    BY <1>1, <1>2, <2>1 DEF Commands, UploadPart
  <2>3. Own(<<c, d>>, r)
    <3>1. c.key[1] = r
      BY <2>1, KeysOwn
    <3>2. d.key[1] = r
      BY <2>1 DEF Bytes, Cmd, generateKey
    <3>3. QED
      BY <3>1, <3>2, OwnFew
  <2>4. QED
    BY <1>1, <2>2, <2>3, OwnBoth
<1>3. CASE Method(m) \in {"overwrite", "complete", "get"}
  <2>1. PICK c : c.key[1] = r /\ Commands(m, r, t) = <<c>> \o ops
    BY <1>1, <1>3, KeysOwn, SMTT(20) DEF Commands, MultipartUploadOverwrite, CompleteMultipartUpload, GetObject
  <2>2. QED
    BY <1>1, <2>1, OwnFew, OwnBoth
<1>4. CASE Method(m) = "delete"
  <2>1. PICK c, s : /\ c = Size(r, -m.bytes)
                    /\ s = IF m.action = "abortMultipartUpload" THEN <<>> ELSE <<Objects(r, -m.objects)>>
    OBVIOUS
  <2>2. Commands(m, r, t) = (<<c>> \o ops) \o s
    BY <1>1, <1>4, <2>1 DEF Commands, DeleteObject
  <2>3. Own(<<c>>, r) /\ Own(s, r)
    BY <2>1, KeysOwn, OwnFew
  <2>4. QED
    BY <1>1, <2>2, <2>3, OwnBoth
<1>5. CASE Method(m) = "put"
  <2>1. PICK c, d, s : /\ c = Size(r, Delta(m))
                       /\ d = IF m.old = Nil THEN Objects(r, 1)
                              ELSE Cmd("get", generateCounter(r, "numberOfObjectsCounter"), Nil)
                       /\ s = IF m.action = "copyObject" THEN <<>> ELSE <<Bytes(m, r, "incomingBytes", t)>>
    OBVIOUS
  <2>2. Commands(m, r, t) = (<<c, d>> \o ops) \o s
    BY <1>1, <1>5, <2>1 DEF Commands, PutObject
  <2>3. c.key[1] = r
    BY <2>1, KeysOwn
  <2>4. d.key[1] = r
    <3>1. Objects(r, 1).key[1] = r
      BY KeysOwn
    <3>2. Cmd("get", generateCounter(r, "numberOfObjectsCounter"), Nil).key[1] = r
      BY KeysOwn
    <3>3. QED
      BY <2>1, <3>1, <3>2
  <2>5. Own(<<c, d>>, r)
    BY <2>3, <2>4, OwnFew
  <2>6. Own(s, r)
    <3>1. Bytes(m, r, "incomingBytes", t).key[1] = r
      BY DEF Bytes, Cmd, generateKey
    <3>2. QED
      BY <2>1, <3>1, OwnFew
  <2>7. QED
    BY <1>1, <2>2, <2>5, <2>6, OwnBoth
<1>6. CASE Method(m) = "marker"
  <2>1. PICK c, d : /\ c = Objects(r, 1)
                    /\ d = Cmd("zrangebyscore", generateStateKey(r, "storageUtilized"), t)
    OBVIOUS
  <2>2. Commands(m, r, t) = (<<c>> \o ops) \o <<d>>
    BY <1>1, <1>6, <2>1 DEF Commands, DeleteMarker
  <2>3. Own(<<c>>, r) /\ Own(<<d>>, r)
    BY <2>1, KeysOwn, OwnFew
  <2>4. QED
    BY <1>1, <2>2, <2>3, OwnBoth
<1>7. CASE Method(m) = "generic"
  BY <1>1, <1>7 DEF Commands
<1>8. QED
  BY <1>2, <1>3, <1>4, <1>5, <1>6, <1>7 DEF Method

LEMMA SnapshotsOwn ==
  ASSUME NEW m, ReadsReplies(m), NEW r, NEW t, NEW g
  PROVE  Own(Snapshots(m, r, t, g), r)
<1>1. \A metric, n : Own(Snapshot(r, metric, t, n), r)
  <2>1. ASSUME NEW metric, NEW n
        PROVE  Own(Snapshot(r, metric, t, n), r)
    <3>1. PICK c, d : /\ c = Cmd("zremrangebyscore", generateStateKey(r, metric), t)
                      /\ d = Cmd("zadd", generateStateKey(r, metric), <<t, n>>)
      OBVIOUS
    <3>2. Snapshot(r, metric, t, n) = <<c, d>>
      BY <3>1 DEF Snapshot
    <3>3. c.key[1] = r
      BY <3>1 DEF Cmd, generateStateKey
    <3>4. d.key[1] = r
      BY <3>1 DEF Cmd, generateStateKey
    <3>5. QED
      BY <3>2, <3>3, <3>4, OwnFew
  <2>2. QED
    BY <2>1
<1>2. CASE Method(m) \in {"part", "overwrite", "complete"}
  BY <1>1, <1>2 DEF Snapshots, PartSnapshots, OverwriteSnapshots, CompleteSnapshots
<1>3. CASE Method(m) = "put"
  BY <1>1, <1>3, OwnBoth DEF Snapshots, PutSnapshots
<1>4. CASE Method(m) = "delete"
  BY <1>1, <1>4, OwnBoth, OwnFew DEF Snapshots, DeleteSnapshots
<1>5. CASE Method(m) = "marker"
  <2> DEFINE n == IF m.bytes # Nil THEN AsIfEmpty(g[1], 1) - 1 ELSE AsIfEmpty(g[1], 1)
             s == IF m.bytes # Nil THEN <<Objects(r, -1), Size(r, -m.bytes)>> ELSE <<>>
             v == MarkerSize(m, Last(g))
  <2>1. Snapshots(m, r, t, g) = (Snapshot(r, "numberOfObjects", t, n) \o s)
                                  \o Snapshot(r, "storageUtilized", t, v)
    BY <1>5 DEF Snapshots, MarkerSnapshots
  <2>2. Own(s, r)
    BY KeysOwn, OwnFew, ZenonT(30)
  <2> HIDE DEF n, s, v
  <2>3. Own(Snapshot(r, "numberOfObjects", t, n) \o s, r)
    BY <1>1, <2>2, OwnBoth
  <2>4. QED
    BY <1>1, <2>1, <2>3, OwnBoth
<1>6. QED
  BY <1>2, <1>3, <1>4, <1>5 DEF Method, ReadsReplies

\* They do nothing to another level.
LEMMA OwnElsewhere ==
  ASSUME NEW s, NEW q, Own(s, q), NEW r, r # q, NEW D
  PROVE  View(batch(D, s), r) = View(D, r)
<1>1. PICK C : s \in Seq(C) /\ \A c \in C : c.key[1] = q
  BY DEF Own
<1>2. \A c \in C : \A metric \in Sets : c.key # <<r, metric>>
  BY <1>1
<1>3. QED
  BY <1>1, <1>2, ViewElsewhere
\* The two levels of a push.
LEMMA AllCommandsAre ==
  ASSUME NEW m, NEW t
  PROVE  AllCommands(m, t) = Commands(m, m.bucket, t) \o Commands(m, m.account, t)
<1>1. PICK n : \A r : Long(Commands(m, r, t), n)
  BY CommandsShape
<1>2. Plain(Commands(m, m.bucket, t)) /\ Plain(Commands(m, m.account, t))
  BY <1>1 DEF Long
<1>3. QED
  BY <1>2, BothLevels

LEMMA AllSnapshotsAre ==
  ASSUME NEW m, ReadsReplies(m), NEW t, NEW g
  PROVE  AllSnapshots(m, t, g) = Snapshots(m, m.bucket, t, Group(m, t, g, 1))
                                   \o Snapshots(m, m.account, t, Group(m, t, g, 2))
<1> DEFINE S(l) == Snapshots(m, Levels(m)[l], t, Group(m, t, g, l))
           s == [l \in 1..Len(Levels(m)) |-> S(l)]
           a == S(1)
           b == S(2)
<1>1. Stored(a) /\ Stored(b)
  BY SnapshotsStored
<1>2. Len(Levels(m)) = 2 /\ Levels(m)[1] = m.bucket /\ Levels(m)[2] = m.account
  BY DEF Levels
<1>3. s = [l \in 1..2 |-> IF l = 1 THEN a ELSE b]
  BY <1>2
<1>4. AllSnapshots(m, t, g) = FlattenSeq(s)
  BY DEF AllSnapshots
<1>5. /\ a = Snapshots(m, m.bucket, t, Group(m, t, g, 1))
      /\ b = Snapshots(m, m.account, t, Group(m, t, g, 2))
  BY <1>2
<1> HIDE DEF S, a, b, s
<1>6. PICK C : a \in Seq(C) /\ b \in Seq(C)
  BY <1>1, StoredBoth
<1>7. FlattenSeq(s) = a \o b
  BY <1>3, <1>6, FlattenTwo
<1>8. QED
  BY <1>4, <1>5, <1>7

\* What two sequences, one for each level, do to the views.
LEMMA TwoViews ==
  ASSUME NEW s, NEW u, NEW b, NEW a, b # a, Own(s, b), Own(u, a), NEW D
  PROVE  /\ View(batch(D, s \o u), b) = View(batch(D, s), b)
         /\ \E E : View(E, a) = View(D, a) /\ View(batch(D, s \o u), a) = View(batch(E, u), a)
         /\ \A r : r \notin {a, b} => View(batch(D, s \o u), r) = View(D, r)
<1>1. IsSeq(s) /\ IsSeq(u)
  BY DEF Own, IsSeq
<1>2. PICK E : E = batch(D, s)
  OBVIOUS
<1>3. batch(D, s \o u) = batch(E, u)
  BY <1>1, <1>2, Then
<1>4. \A r : r # b => View(E, r) = View(D, r)
  BY <1>2, OwnElsewhere
<1>5. \A r : r # a => View(batch(E, u), r) = View(E, r)
  BY OwnElsewhere
<1>6. QED
  BY <1>2, <1>3, <1>4, <1>5

\* The first transaction, and the second, on all resources.
LEMMA CountedViews ==
  ASSUME NEW m, m.bucket # m.account, NEW t, NEW D
  PROVE  \A r : View(batch(D, AllCommands(m, t)), r) =
                  IF r \in {m.bucket, m.account} THEN After(m, View(D, r)) ELSE View(D, r)
<1>1. PICK b, a, s, u : /\ b = m.bucket /\ a = m.account
                        /\ s = Commands(m, b, t) /\ u = Commands(m, a, t)
  OBVIOUS
<1>2. AllCommands(m, t) = s \o u
  BY <1>1, AllCommandsAre
<1>3. Own(s, b) /\ Own(u, a) /\ b # a
  BY <1>1, CommandsOwn
<1>4. \A E : View(batch(E, s), b) = After(m, View(E, b)) /\ View(batch(E, u), a) = After(m, View(E, a))
  BY <1>1, CommandsView
<1>5. PICK F : F = batch(D, s \o u)
  OBVIOUS
<1>6. View(F, b) = After(m, View(D, b))
  BY <1>3, <1>4, <1>5, TwoViews
<1>7. View(F, a) = After(m, View(D, a))
  <2>1. PICK E : View(E, a) = View(D, a) /\ View(F, a) = View(batch(E, u), a)
    BY <1>3, <1>5, TwoViews
  <2>2. QED
    BY <1>4, <2>1
<1>8. \A r : r \notin {a, b} => View(F, r) = View(D, r)
  BY <1>3, <1>5, TwoViews
<1>9. QED
  BY <1>1, <1>2, <1>5, <1>6, <1>7, <1>8

LEMMA ClosedViews ==
  ASSUME NEW m, ReadsReplies(m), m.bucket # m.account, NEW t, NEW g, NEW D
  PROVE  LET F == batch(D, AllSnapshots(m, t, g))
         IN  /\ View(F, m.bucket) = Closing(m, View(D, m.bucket), t, Group(m, t, g, 1))
             /\ View(F, m.account) = Closing(m, View(D, m.account), t, Group(m, t, g, 2))
             /\ \A r : r \notin {m.bucket, m.account} => View(F, r) = View(D, r)
<1>1. PICK b, a, x, y, s, u : /\ b = m.bucket /\ a = m.account
                              /\ x = Group(m, t, g, 1) /\ y = Group(m, t, g, 2)
                              /\ s = Snapshots(m, b, t, x) /\ u = Snapshots(m, a, t, y)
  OBVIOUS
<1>2. AllSnapshots(m, t, g) = s \o u
  BY <1>1, AllSnapshotsAre
<1>3. Own(s, b) /\ Own(u, a) /\ b # a
  BY <1>1, SnapshotsOwn
<1>4. \A E : /\ View(batch(E, s), b) = Closing(m, View(E, b), t, x)
             /\ View(batch(E, u), a) = Closing(m, View(E, a), t, y)
  BY <1>1, SnapshotsView
<1>5. PICK F : F = batch(D, s \o u)
  OBVIOUS
<1>6. View(F, b) = Closing(m, View(D, b), t, x)
  BY <1>3, <1>4, <1>5, TwoViews
<1>7. View(F, a) = Closing(m, View(D, a), t, y)
  <2>1. PICK E : View(E, a) = View(D, a) /\ View(F, a) = View(batch(E, u), a)
    BY <1>3, <1>5, TwoViews
  <2>2. QED
    BY <1>4, <2>1
<1>8. \A r : r \notin {a, b} => View(F, r) = View(D, r)
  BY <1>3, <1>5, TwoViews
<1>9. QED
  BY <1>1, <1>2, <1>5, <1>6, <1>7, <1>8

\* Each level gets the replies to its own commands.
LEMMA GroupsAre ==
  ASSUME NEW m, NEW t, NEW E, NEW g, g = Replies(E, AllCommands(m, t))
  PROVE  /\ Group(m, t, g, 1) = [n \in 1..Len(Commands(m, m.bucket, t)) |-> Reply(E, Commands(m, m.bucket, t)[n])]
         /\ Group(m, t, g, 2) = [n \in 1..Len(Commands(m, m.account, t)) |-> Reply(E, Commands(m, m.account, t)[n])]
<1>1. PICK s, u, all : /\ s = Commands(m, m.bucket, t) /\ u = Commands(m, m.account, t)
                       /\ all = AllCommands(m, t)
  OBVIOUS
<1>2. PICK p : Long(s, p) /\ Long(u, p)
  BY <1>1, CommandsShape
<1>3. Len(s) = p /\ Len(u) = p /\ p \in Nat /\ all = s \o u
  BY <1>1, <1>2, AllCommandsAre DEF Long
<1>4. PICK C : s \in Seq(C) /\ u \in Seq(C)
  BY <1>2, PlainBoth DEF Long
<1>5. /\ all \in Seq(C) /\ Len(all) = p + p
      /\ \A n \in 1..p : all[n] = s[n] /\ all[p + n] = u[n]
  <2>1. all \in Seq(C) /\ Len(all) = p + p
    BY <1>3, <1>4, ConcatProperties
  <2>2. ASSUME NEW n \in 1..p
        PROVE  all[n] = s[n] /\ all[p + n] = u[n]
    <3>1. n \in 1..Len(s) /\ n \in 1..Len(u)
      BY <1>3
    <3>2. all[n] = s[n] /\ all[Len(s) + n] = u[n]
      BY <1>3, <1>4, <3>1, ConcatProperties
    <3>3. QED
      BY <1>3, <3>2
  <2>3. QED
    BY <2>1, <2>2
<1>6. g = [n \in 1..(p + p) |-> Reply(E, all[n])]
  BY <1>1, <1>5 DEF Replies
<1>7. GroupSize(m, t) = p
  BY <1>1, <1>3 DEF GroupSize
<1>8. Group(m, t, g, 1) = [n \in 1..p |-> Reply(E, s[n])]
  <2>1. Group(m, t, g, 1) = SubSeq(g, 1, p)
    <3>1. (1 - 1) * p + 1 = 1 /\ 1 * p = p
      BY <1>3
    <3>2. QED
      BY <1>7, <3>1 DEF Group
  <2>2. SubSeq(g, 1, p) = [n \in 1..p |-> g[n]]
    BY <1>3, <1>6
  <2>3. \A n \in 1..p : g[n] = Reply(E, s[n])
    BY <1>3, <1>5, <1>6
  <2>4. QED
    BY <2>1, <2>2, <2>3
<1>9. Group(m, t, g, 2) = [n \in 1..p |-> Reply(E, u[n])]
  <2>1. Group(m, t, g, 2) = SubSeq(g, p + 1, p + p)
    <3>1. (2 - 1) * p + 1 = p + 1 /\ 2 * p = p + p
      BY <1>3
    <3>2. QED
      BY <1>7, <3>1 DEF Group
  <2>2. SubSeq(g, p + 1, p + p) = [n \in 1..p |-> g[p + n]]
    BY <1>3, <1>6
  <2>3. \A n \in 1..p : g[p + n] = Reply(E, u[n])
    <3>1. \A n \in 1..p : p + n \in 1..(p + p)
      BY <1>3
    <3>2. QED
      BY <1>5, <1>6, <3>1
  <2>4. QED
    BY <2>1, <2>2, <2>3
<1>10. QED
  BY <1>1, <1>3, <1>8, <1>9

\* All levels are good.
Good(D, n, X) == \A r : GoodView(View(D, r), n, r, X)

LEMMA GoodMore ==
  ASSUME NEW D, NEW n, NEW X, NEW Y, X \subseteq Y, Good(D, n, X)
  PROVE  Good(D, n, Y)
<1>1. \A v, r : GoodSize(v, n, r, X) => GoodSize(v, n, r, Y)
  BY DEF GoodSize
<1>2. QED
  BY <1>1 DEF Good, GoodView

\* Both transactions, of which the second stores what the first replied.
LEMMA PushFollows ==
  ASSUME NEW m, Sound(m), ReadsReplies(m), NEW t \in Int, NEW D, NEW X, Good(D, t, X), NEW E,
         Method(m) = "marker" => m.bucket \in X /\ m.account \in X,
         E = batch(D, AllCommands(m, t)), NEW g, g = Replies(E, AllCommands(m, t))
  PROVE  Good(batch(E, AllSnapshots(m, t, g)), t, X)
<1>1. m.bucket # m.account /\ Typed(m)
  BY DEF Sound
<1>2. \A r : View(E, r) = IF r \in {m.bucket, m.account} THEN After(m, View(D, r)) ELSE View(D, r)
  BY <1>1, CountedViews
<1>3. PICK x, y : x = Group(m, t, g, 1) /\ y = Group(m, t, g, 2)
  OBVIOUS
<1>4. Replied(m, x, View(E, m.bucket), t)
  BY <1>3, GroupsAre, RepliesTell
<1>5. Replied(m, y, View(E, m.account), t)
  BY <1>3, GroupsAre, RepliesTell
<1>6. PICK F : F = batch(E, AllSnapshots(m, t, g))
  OBVIOUS
<1>7. /\ View(F, m.bucket) = Closing(m, View(E, m.bucket), t, x)
      /\ View(F, m.account) = Closing(m, View(E, m.account), t, y)
      /\ \A r : r \notin {m.bucket, m.account} => View(F, r) = View(E, r)
  BY <1>1, <1>3, <1>6, ClosedViews
<1>8. ASSUME NEW r
      PROVE  GoodView(View(F, r), t, r, X)
  <2>1. PICK v : v = View(D, r) /\ GoodView(v, t, r, X)
    BY DEF Good
  <2>2. CASE r = m.bucket
    <3>1. View(E, r) = After(m, v) /\ View(F, r) = Closing(m, After(m, v), t, x)
      BY <1>2, <1>7, <2>1, <2>2
    <3>2. Replied(m, x, After(m, v), t)
      BY <1>4, <2>2, <3>1
    <3>3. QED
      BY <1>1, <2>1, <2>2, <3>1, <3>2, GoodLevel
  <2>3. CASE r = m.account
    <3>1. View(E, r) = After(m, v) /\ View(F, r) = Closing(m, After(m, v), t, y)
      BY <1>2, <1>7, <2>1, <2>3
    <3>2. Replied(m, y, After(m, v), t)
      BY <1>5, <2>3, <3>1
    <3>3. QED
      BY <1>1, <2>1, <2>3, <3>1, <3>2, GoodLevel
  <2>4. CASE r \notin {m.bucket, m.account}
    BY <1>2, <1>7, <2>1, <2>4
  <2>5. QED
    BY <2>2, <2>3, <2>4
<1>9. QED
  BY <1>6, <1>8 DEF Good

\* Metrics of which no reply is read move no counter.
LEMMA OthersFollow ==
  ASSUME NEW m, Sound(m), ~ReadsReplies(m), NEW t, NEW n, NEW D, NEW X, Good(D, n, X)
  PROVE  Good(batch(D, AllCommands(m, t)), n, X)
<1>1. m.bucket # m.account
  BY DEF Sound
<1>2. \A v : After(m, v) = v
  BY DEF After, ReadsReplies
<1>3. \A r : View(batch(D, AllCommands(m, t)), r) = View(D, r)
  BY <1>1, <1>2, CountedViews
<1>4. QED
  BY <1>3 DEF Good

\* What is good stays it as time goes on.
LEMMA GoodLater ==
  ASSUME NEW D, NEW t \in Int, NEW n \in Int, t =< n, NEW X, Good(D, t, X)
  PROVE  Good(D, n, X)
<1>1. \A S, e : Newest(S, e, t) => Newest(S, e, n)
  BY DEF Newest
<1>2. \A v, r : GoodView(v, t, r, X) => GoodView(v, n, r, X)
  BY <1>1 DEF GoodView, GoodSize, GoodNumber
<1>3. QED
  BY <1>2 DEF Good

-----------------------------------------------------------------------------
(***************************************************************************)
(* Pushes that follow each other, step by step.                            *)
(***************************************************************************)

\* A push that was begun is of a period of the past or the present, and of a
\* metric that has the numbers it should have.
Begun(p, n) == p.at # "new" => p.time =< n /\ Sound(p.metric)

\* Before the first transaction of a push the snapshots are good, and after it
\* they will be with the second one.
Stands(D, p, X) ==
  /\ p.at \notin {"failed", "cached"}
  /\ p.at = "batch" => Good(D, p.time, X)
  /\ p.at = "snapshot" => /\ ReadsReplies(p.metric)
                          /\ Good(batch(D, AllSnapshots(p.metric, p.time, p.got)), p.time, X)

Transacting == {"batch", "snapshot"}
Single(P) == \A i, j \in Ids : P[i].at \in InFlight /\ P[j].at \in InFlight => i = j
Settled(D, P, n, X) == (\A i \in Ids : P[i].at \notin Transacting) => Good(D, n, X)

FollowInv ==
  /\ now % Period = 0
  /\ \A i \in Ids : Begun(push[i], now)
  /\ ~muddled => /\ dying = {}
                 /\ \A i \in Ids : Stands(db, push[i], Marked)
                 /\ Single(push)
                 /\ Settled(db, push, now, Marked)

\* What is muddled stays it.
LEMMA MuddledStep ==
  ASSUME FollowInv, now' = now, muddled', \A i \in Ids : Begun(push'[i], now)
  PROVE  FollowInv'
BY DEF FollowInv

LEMMA StillStep ==
  ASSUME FollowInv, now' = now, UNCHANGED <<db, dying, push>>, muddled' = muddled
  PROVE  FollowInv'
BY DEF FollowInv, Marked

\* A step of the only push in flight.
LEMMA OnePushStep ==
  ASSUME CountInv, FollowInv, NEW i \in Ids, NEW r, push' = [push EXCEPT ![i] = r],
         now' = now, Begun(r, now),
         r.at # "new", push[i].at # "new" => r.metric = push[i].metric,
         ~muddled' => /\ ~muddled /\ dying' = {}
                      /\ \A j \in Ids \ {i} : push[j].at \notin InFlight
                      /\ Stands(db', r, Marked)
                      /\ r.at \notin Transacting => Good(db', now, Marked)
  PROVE  FollowInv'
<1>1. push'[i] = r /\ \A j \in Ids \ {i} : push'[j] = push[j]
  BY DEF CountInv, PushTypes
<1>2. \A j \in Ids : Begun(push'[j], now)
  BY <1>1 DEF FollowInv
<1>3. CASE muddled'
  BY <1>2, <1>3, MuddledStep
<1>0. PICK X, Y : X = Marked /\ Y = Marked'
  OBVIOUS
<1>5. X \subseteq Y
  <2>1. ASSUME NEW j \in Ids, push[j].at # "new"
        PROVE  push'[j].at # "new" /\ push'[j].metric = push[j].metric
    BY <1>1, <2>1
  <2>2. QED
    BY <1>0, <2>1 DEF Marked
<1>6. ASSUME NEW D, NEW n, Good(D, n, X)
      PROVE  Good(D, n, Y)
  BY <1>5, <1>6, GoodMore
<1>7. ASSUME NEW D, NEW p, Stands(D, p, X)
      PROVE  Stands(D, p, Y)
  BY <1>6, <1>7 DEF Stands
<1>4. CASE ~muddled'
  <2>1. \A j \in Ids \ {i} : push'[j].at \notin InFlight /\ push'[j].at \notin Transacting
    BY <1>1, <1>4 DEF InFlight, Transacting
  <2>2. \A j \in Ids \ {i} : Stands(db', push'[j], X)
    BY <1>0, <1>1, <1>4, <2>1 DEF FollowInv, Stands, Transacting
  <2>3. \A j \in Ids : Stands(db', push'[j], Y)
    BY <1>0, <1>1, <1>4, <1>7, <2>2
  <2>4. Single(push')
    BY <2>1 DEF Single
  <2>5. Settled(db', push', now, Y)
    BY <1>0, <1>1, <1>4, <1>6 DEF Settled
  <2>6. QED
    BY <1>0, <1>2, <1>4, <2>3, <2>4, <2>5 DEF FollowInv
<1>8. QED
  BY <1>3, <1>4

LEMMA StartBegun ==
  ASSUME CountInv, FollowInv, NEW m, Sound(m), NEW by
  PROVE  Begun(Start(m, by), now) /\ Start(m, by).time = now /\ Start(m, by).at # "new"
<1>1. getNormalizedTimestamp = now
  BY DEF getNormalizedTimestamp, FollowInv, CountInv, PushTypes
<1>2. Start(m, by).time = now /\ Start(m, by).metric = m
  BY <1>1 DEF Start
<1>3. Start(m, by).at # "new"
  BY StartShape
<1>4. QED
  BY <1>2, <1>3 DEF Begun, CountInv, PushTypes

\* A push begins with good snapshots if it is alone.
LEMMA PushFollow ==
  ASSUME CountInv, FollowInv, NEW i \in Ids, NEW m, Sound(m), pushMetric(i, m)
  PROVE  FollowInv'
<1>1. PICK r : r = Start(m, "client")
  OBVIOUS
<1>2. Begun(r, now) /\ r.time = now /\ r.at \in {"batch", "scan", "done"}
  BY <1>1, StartBegun, StartShape
<1>3. push' = [push EXCEPT ![i] = r] /\ now' = now /\ UNCHANGED <<db, dying>>
  BY <1>1 DEF pushMetric, redis
<1>4. ASSUME ~muddled'
      PROVE  /\ ~muddled /\ dying' = {}
             /\ \A j \in Ids \ {i} : push[j].at \notin InFlight
             /\ Stands(db', r, Marked)
             /\ r.at \notin Transacting => Good(db', now, Marked)
  <2>1. ~muddled /\ \A j \in Ids : push[j].at \notin InFlight
    BY <1>4 DEF pushMetric
  <2>2. Good(db, now, Marked) /\ dying = {}
    BY <2>1 DEF FollowInv, Settled, InFlight, Transacting
  <2>3. QED
    BY <1>2, <1>3, <2>1, <2>2 DEF Stands
<1>5. r.at # "new" /\ push[i].at = "new"
  BY <1>2 DEF pushMetric
<1>6. QED
  BY <1>2, <1>3, <1>4, <1>5, OnePushStep

\* What a step on one push may change of it.
LEMMA BegunFurther ==
  ASSUME FollowInv, NEW i \in Ids, push[i].at # "new", NEW r,
         r.metric = push[i].metric, r.time = push[i].time
  PROVE  Begun(r, now)
BY DEF FollowInv, Begun

LEMMA Alone ==
  ASSUME FollowInv, ~muddled, NEW i \in Ids, push[i].at \in InFlight
  PROVE  \A j \in Ids \ {i} : push[j].at \notin InFlight
BY DEF FollowInv, Single

\* The first transaction: its replies are those the second one needs.
LEMMA BatchFollow ==
  ASSUME CountInv, FollowInv, NEW i \in Ids, BatchDone(i)
  PROVE  FollowInv'
<1>1. PICK p, m, t, D : p = push[i] /\ m = p.metric /\ t = p.time /\ D = db
  OBVIOUS
<1>2. Shaped(p) /\ p.at = "batch" /\ t \in Int /\ t =< now /\ now \in Int /\ Sound(m)
  BY <1>1 DEF BatchDone, CountInv, PushTypes, Shaped, FollowInv, Begun
<1>3. PICK all, E, g : /\ all = AllCommands(m, t) /\ E = batch(D, all)
                       /\ g = IF ReadsReplies(m) THEN Replies(E, all) ELSE <<>>
  OBVIOUS
<1>4. all = [n \in DOMAIN all |-> all[n]]
  <2>1. PICK n : \A r : Long(Commands(m, r, t), n)
    BY CommandsShape
  <2>2. PICK s, u : /\ s = Commands(m, m.bucket, t) /\ u = Commands(m, m.account, t)
                    /\ Plain(s) /\ Plain(u)
    BY <2>1 DEF Long
  <2>3. PICK C : s \o u \in Seq(C)
    BY <2>2, PlainBoth
  <2>4. all \in Seq(C)
    BY <1>3, <2>2, <2>3, AllCommandsAre
  <2>5. QED
    BY <2>4
<1> DEFINE a == IF ReadsReplies(m) THEN "snapshot" ELSE AfterCounting(m)
           r == [[p EXCEPT !.at = a] EXCEPT !.got = g]
<1>5. db' = E /\ push' = [push EXCEPT ![i].at = a, ![i].got = g]
  BY <1>1, <1>3, <1>4 DEF BatchDone, Count
<1>6. push' = [push EXCEPT ![i] = r]
  BY <1>1, <1>5 DEF CountInv, PushTypes
<1>7. now' = now /\ dying' = dying /\ muddled' = muddled
  BY DEF BatchDone, Count, history
<1>8. a \in {"snapshot", "scan", "done"} /\ (a = "snapshot" <=> ReadsReplies(m))
  BY DEF AfterCounting
<1> HIDE DEF a
<1>9. r.at = a /\ r.metric = m /\ r.time = t /\ r.got = g
  BY <1>1, <1>2 DEF Shaped, PushFields
<1> HIDE DEF r
<1>10. Begun(r, now)
  BY <1>2, <1>9 DEF Begun
<1>11. ASSUME ~muddled'
       PROVE  /\ ~muddled /\ dying' = {}
              /\ \A j \in Ids \ {i} : push[j].at \notin InFlight
              /\ Stands(db', r, Marked)
              /\ r.at \notin Transacting => Good(db', now, Marked)
  <2>0. PICK X : X = Marked
    OBVIOUS
  <2>1. ~muddled /\ dying' = {} /\ Good(D, t, X)
    BY <1>1, <1>2, <1>7, <1>11, <2>0 DEF FollowInv, Stands
  <2>2. \A j \in Ids \ {i} : push[j].at \notin InFlight
    BY <1>1, <1>2, <2>1, Alone DEF InFlight
  <2>3. CASE ReadsReplies(m)
    <3>1. g = Replies(E, AllCommands(m, t)) /\ E = batch(D, AllCommands(m, t))
      BY <1>3, <2>3
    <3>0. Method(m) = "marker" => m.bucket \in X /\ m.account \in X
      <4>1. m.bucket \in ToSet(Levels(m)) /\ m.account \in ToSet(Levels(m))
        BY DEF Levels, ToSet
      <4>2. Method(m) = "marker" => ToSet(Levels(m)) \subseteq X
        BY <1>1, <1>2, <2>0 DEF Marked
      <4>3. QED
        BY <4>1, <4>2
    <3>2. Good(batch(E, AllSnapshots(m, t, g)), t, X)
      BY <1>2, <2>1, <2>3, <3>0, <3>1, PushFollows
    <3>3. r.at = "snapshot"
      BY <1>8, <1>9, <2>3
    <3>4. Stands(db', r, Marked)
      BY <1>5, <1>9, <2>0, <2>3, <3>2, <3>3 DEF Stands
    <3>5. QED
      BY <2>1, <2>2, <3>3, <3>4 DEF Transacting
  <2>4. CASE ~ReadsReplies(m)
    <3>1. Good(E, t, X)
      BY <1>2, <1>3, <2>1, <2>4, OthersFollow
    <3>2. Good(E, now, X)
      BY <1>2, <3>1, GoodLater
    <3>3. Stands(db', r, Marked)
      BY <1>8, <1>9, <2>4 DEF Stands
    <3>4. QED
      BY <1>5, <2>0, <2>1, <2>2, <3>2, <3>3
  <2>5. QED
    BY <2>3, <2>4
<1>12. r.at # "new" /\ r.metric = push[i].metric
  BY <1>1, <1>8, <1>9
<1>13. QED
  BY <1>6, <1>7, <1>10, <1>11, <1>12, OnePushStep

\* What fails muddles.
LEMMA FailedFollow ==
  ASSUME CountInv, FollowInv, NEW i \in Ids, CommandFailed(i) \/ BatchFailed(i) \/ PushLocalCache(i)
  PROVE  FollowInv'
<1>1. push[i].at \in {"batch", "failed"} /\ Shaped(push[i]) /\ DOMAIN push = Ids
  BY DEF CommandFailed, BatchFailed, PushLocalCache, CountInv, PushTypes
<1>2. now' = now
  BY DEF CommandFailed, Count, BatchFailed, PushLocalCache
<1>3. muddled'
  <2>1. CASE CommandFailed(i) \/ BatchFailed(i)
    BY <2>1 DEF CommandFailed, BatchFailed, Fault
  <2>2. CASE PushLocalCache(i)
    <3>1. muddled
      BY <2>2 DEF PushLocalCache, FollowInv, Stands
    <3>2. QED
      BY <2>2, <3>1 DEF PushLocalCache, Fault
  <2>3. QED
    BY <2>1, <2>2
<1>4. PICK r : /\ push'[i] = r /\ \A j \in Ids \ {i} : push'[j] = push[j]
               /\ r.metric = push[i].metric /\ r.time = push[i].time
  <2>1. CASE CommandFailed(i)
    <3>1. PICK lost : Count(i, lost)
      BY <2>1 DEF CommandFailed
    <3>2. PICK x, g : push' = [push EXCEPT ![i].at = x, ![i].got = g]
      BY <3>1 DEF Count
    <3>3. PICK r : r = [[push[i] EXCEPT !.at = x] EXCEPT !.got = g]
      OBVIOUS
    <3>4. push'[i] = r /\ \A j \in Ids \ {i} : push'[j] = push[j]
      BY <1>1, <3>2, <3>3
    <3>5. r.metric = push[i].metric /\ r.time = push[i].time
      BY <1>1, <3>3 DEF Shaped, PushFields
    <3>6. QED
      BY <3>4, <3>5
  <2>2. CASE BatchFailed(i) \/ PushLocalCache(i)
    <3>1. PICK x : push' = [push EXCEPT ![i].at = x]
      BY <2>2 DEF BatchFailed, PushLocalCache, Goes
    <3>2. QED
      BY <1>1, <3>1 DEF Shaped, PushFields
  <2>3. QED
    BY <2>1, <2>2
<1>5. Begun(r, now)
  BY <1>1, <1>4, BegunFurther
<1>6. \A j \in Ids : Begun(push'[j], now)
  BY <1>4, <1>5 DEF FollowInv
<1>7. QED
  BY <1>2, <1>3, <1>6, MuddledStep

\* The second transaction ends the push.
LEMMA StoreFollow ==
  ASSUME CountInv, FollowInv, NEW i \in Ids, StoreSnapshots(i)
  PROVE  FollowInv'
<1>1. PICK p, r : p = push[i] /\ r = [[p EXCEPT !.at = "done"] EXCEPT !.got = <<>>]
  OBVIOUS
<1>2. Shaped(p) /\ p.at = "snapshot" /\ p.time \in Int /\ now \in Int /\ p.time =< now
  BY <1>1 DEF StoreSnapshots, CountInv, PushTypes, Shaped, FollowInv, Begun
<1>3. push' = [push EXCEPT ![i] = r] /\ now' = now
  BY <1>1 DEF StoreSnapshots, CountInv, PushTypes, local
<1>4. r.at = "done" /\ r.metric = p.metric /\ r.time = p.time
  BY <1>1, <1>2 DEF Shaped, PushFields
<1>5. Begun(r, now)
  BY <1>1, <1>2, <1>4, BegunFurther
<1>6. CASE muddled'
  <2>1. \A j \in Ids : Begun(push'[j], now)
    BY <1>3, <1>5 DEF FollowInv, CountInv, PushTypes
  <2>2. QED
    BY <1>3, <1>6, <2>1, MuddledStep
<1>7. CASE ~muddled'
  <2>1. /\ db' = batch(db, AllSnapshots(p.metric, p.time, p.got))
        /\ dying' \subseteq dying /\ ~muddled
    BY <1>1, <1>7 DEF StoreSnapshots, Fault
  <2>2. Good(db', p.time, Marked) /\ dying' = {}
    BY <1>1, <1>2, <2>1 DEF FollowInv, Stands
  <2>3. Good(db', now, Marked)
    <3>1. PICK E, X : E = db' /\ X = Marked
      OBVIOUS
    <3>2. Good(E, now, X)
      BY <1>2, <2>2, <3>1, GoodLater
    <3>3. QED
      BY <3>1, <3>2
  <2>4. \A j \in Ids \ {i} : push[j].at \notin InFlight
    BY <1>1, <1>2, <2>1, Alone DEF InFlight
  <2>5. Stands(db', r, Marked)
    BY <1>4 DEF Stands
  <2>6. QED
    BY <1>1, <1>3, <1>4, <1>5, <2>1, <2>2, <2>3, <2>4, <2>5, OnePushStep
<1>8. QED
  BY <1>6, <1>7

\* The keys of a deleted bucket are looked up, and made to expire.
LEMMA ExpiryFollow ==
  ASSUME CountInv, FollowInv, NEW i \in Ids, ScanKeys(i) \/ ExpireKeys(i)
  PROVE  FollowInv'
<1>1. Shaped(push[i]) /\ DOMAIN push = Ids /\ now' = now
  BY DEF CountInv, PushTypes, ScanKeys, ExpireKeys
<1>2. CASE ExpireKeys(i)
  <2>1. PICK r : r = [[push[i] EXCEPT !.at = "done"] EXCEPT !.got = <<>>]
    OBVIOUS
  <2>2. push' = [push EXCEPT ![i] = r] /\ push[i].at = "expire" /\ muddled'
    BY <1>1, <1>2, <2>1 DEF ExpireKeys
  <2>3. r.metric = push[i].metric /\ r.time = push[i].time
    BY <1>1, <2>1 DEF Shaped, PushFields
  <2>4. Begun(r, now) /\ r.at # "new"
    <3>1. r.at = "done"
      BY <1>1, <2>1 DEF Shaped, PushFields
    <3>2. QED
      BY <2>2, <2>3, <3>1, BegunFurther
  <2>5. QED
    BY <1>1, <2>2, <2>3, <2>4, OnePushStep
<1>3. CASE ScanKeys(i)
  <2>1. PICK r : r = [[push[i] EXCEPT !.at = "expire"]
                        EXCEPT !.got = {k \in DOMAIN db : k[1] = push[i].metric.bucket}]
    OBVIOUS
  <2>2. push' = [push EXCEPT ![i] = r] /\ push[i].at = "scan"
    BY <1>1, <1>3, <2>1 DEF ScanKeys
  <2>3. r.at = "expire" /\ r.metric = push[i].metric /\ r.time = push[i].time
    BY <1>1, <2>1 DEF Shaped, PushFields
  <2>4. Begun(r, now)
    BY <2>2, <2>3, BegunFurther
  <2>5. db' = db /\ dying' = dying /\ muddled' = muddled
    BY <1>3 DEF ScanKeys, redis, history
  <2>6. ASSUME ~muddled'
        PROVE  /\ ~muddled /\ dying' = {}
               /\ \A j \in Ids \ {i} : push[j].at \notin InFlight
               /\ Stands(db', r, Marked)
               /\ r.at \notin Transacting => Good(db', now, Marked)
    <3>1. ~muddled /\ dying' = {}
      BY <2>5, <2>6 DEF FollowInv
    <3>2. \A j \in Ids \ {i} : push[j].at \notin InFlight
      BY <2>2, <3>1, Alone DEF InFlight
    <3>3. \A j \in Ids : push[j].at \notin Transacting
      BY <2>2, <3>2 DEF InFlight, Transacting
    <3>4. Good(db, now, Marked)
      BY <3>1, <3>3 DEF FollowInv, Settled
    <3>5. QED
      BY <2>3, <2>5, <3>1, <3>2, <3>4 DEF Stands
  <2>7. QED
    BY <1>1, <2>2, <2>3, <2>4, <2>6, OnePushStep
<1>4. QED
  BY <1>2, <1>3

\* Keys expire only after a push that muddles.
LEMMA KeysFollow ==
  ASSUME FollowInv, KeysExpire
  PROVE  FollowInv'
<1>1. muddled' /\ now' = now /\ push' = push
  BY DEF KeysExpire, FollowInv, history
<1>2. QED
  BY <1>1, MuddledStep DEF FollowInv

\* The clock goes on by whole periods.
LEMMA TickFollow ==
  ASSUME CountInv, FollowInv, Tick
  PROVE  FollowInv'
<1>1. /\ now \in Nat /\ Period \in Nat \ {0} /\ now' = now + Period
      /\ UNCHANGED <<db, dying, push, muddled>>
  BY V1Assumption DEF CountInv, PushTypes, Tick, redis, history
<1>2. PICK n, q : n = now /\ q = n + Period
  OBVIOUS
<1>3. n \in Int /\ q \in Int /\ n =< q
  BY <1>1, <1>2
<1>4. q % Period = 0
  <2>1. n % Period = 0 /\ Period % Period = 0
    <3>1. Period = Period * 1 /\ 1 \in Int /\ Period \in Int
      BY <1>1
    <3>2. QED
      BY <1>1, <1>2, <3>1, ModZero DEF FollowInv
  <2>2. QED
    BY <1>1, <1>2, <1>3, <2>1, ModLess
<1>5. \A i \in Ids : Begun(push[i], q)
  BY <1>2, <1>3 DEF FollowInv, Begun, CountInv, PushTypes, Shaped
<1>6. ~muddled => Settled(db, push, q, Marked)
  <2>1. PICK D, X : D = db /\ X = Marked
    OBVIOUS
  <2>2. Good(D, n, X) => Good(D, q, X)
    BY <1>3, GoodLater
  <2>3. QED
    BY <1>2, <2>1, <2>2 DEF FollowInv, Settled
<1>7. Marked' = Marked
  BY <1>1 DEF Marked
<1>8. QED
  BY <1>1, <1>2, <1>4, <1>5, <1>6, <1>7 DEF FollowInv

\* The replay muddles, and so does its death.
LEMMA ReplayFollow ==
  ASSUME CountInv, FollowInv, Restarting \/ Crash
  PROVE  FollowInv'
<1>1. muddled' /\ now' = now
  BY DEF Restarting, PushCachedMetrics, PopFailed, Crash, Fault
<1>2. \A i \in Ids : Shaped(push[i]) /\ Begun(push[i], now)
  BY DEF CountInv, PushTypes, FollowInv
<1>3. PICK S : \/ Restarted(S) /\ (\A i \in S : push[i].at = "cached")
               \/ Lose(S) /\ (\A i \in S : push[i].at \in InFlight \cup {"cached"})
  BY Restarts
<1>4. ASSUME Lose(S), \A i \in S \cap Ids : push[i].at # "new", NEW i \in Ids
      PROVE  Begun(push'[i], now)
  <2>1. CASE i \in S
    <3>1. PICK r : r = [push[i] EXCEPT !.at = "lost"]
      OBVIOUS
    <3>2. push'[i] = r /\ push[i].at # "new"
      BY <1>4, <2>1, <3>1 DEF Lose
    <3>3. r.metric = push[i].metric /\ r.time = push[i].time
      BY <1>2, <3>1 DEF Shaped, PushFields
    <3>4. QED
      BY <3>2, <3>3, BegunFurther
  <2>2. CASE i \notin S
    BY <1>2, <1>4, <2>2 DEF Lose
  <2>3. QED
    BY <2>1, <2>2
<1>5. ASSUME NEW i \in Ids, push[i].at = "cached"
      PROVE  Begun(Start(push[i].metric, "replay"), now)
  BY <1>2, <1>5, StartBegun DEF Begun
<1>6. ASSUME NEW i \in Ids
      PROVE  Begun(push'[i], now)
  <2>1. CASE Restarted(S) /\ \A j \in S : push[j].at = "cached"
    BY <1>2, <1>5, <2>1 DEF Restarted
  <2>2. CASE Lose(S) /\ \A j \in S : push[j].at \in InFlight \cup {"cached"}
    <3>1. \A j \in S \cap Ids : push[j].at # "new"
      BY <2>2 DEF InFlight
    <3>2. QED
      BY <1>4, <2>2, <3>1
  <2>3. QED
    BY <1>3, <2>1, <2>2
<1>7. QED
  BY <1>1, <1>6, MuddledStep

LEMMA FollowNext ==
  ASSUME CountInv, FollowInv, [V1Next]_allvars
  PROVE  FollowInv'
<1>1. UNCHANGED <<redis, push, now, history>> => FollowInv'
  BY StillStep DEF redis, history
<1>2. Polling \/ LockExpires => FollowInv'
  BY <1>1 DEF Polling, ReplayJob, CheckLocalCache, GetCachedMetrics, LockExpires
<1>3. Execute => FollowInv'
  <2>1. SUFFICES ASSUME Execute
                 PROVE  FollowInv'
    OBVIOUS
  <2>2. muddled' /\ now' = now /\ push' = push
    BY <2>1 DEF Execute
  <2>3. QED
    BY <2>2, MuddledStep DEF FollowInv
<1>4. Working \/ Failing => FollowInv'
  BY <1>1, <1>3 DEF Working, Failing, ScheduleJob, ReindexLockExpires, ListBuckets, ListBucket,
     CountUploads, UpdateBuckets, ClearBuckets, UpdateAccounts, ClearAccounts, StageTo, FinishJob,
     SentinelDown, ScriptFails, ReindexCrash, ListingFailed, OddStatus, ScriptFault, RedisUnchanged,
     v1vars
<1>5. UNCHANGED allvars => FollowInv'
  BY <1>1 DEF allvars, v1vars
<1>6. \A i \in Ids : Proceed(i) => FollowInv'
  BY BatchFollow, StoreFollow, FailedFollow, ExpiryFollow DEF Proceed
<1>7. Serving => FollowInv'
  <2>1. ASSUME NEW i \in Ids, NEW x \in Changes, PutVersion(i, x[1], x[2]) \/ DeleteVersion(i, x[1], x[2])
        PROVE  FollowInv'
    <3>1. PICK m : pushMetric(i, m) /\ Sound(m)
      BY <2>1, PushedSound DEF PutVersion, DeleteVersion
    <3>2. QED
      BY <3>1, PushFollow
  <2>2. QED
    BY <1>6, <2>1 DEF Serving
<1>8. ClientNext => FollowInv'
  <2>1. \A i \in Ids, m \in Metrics : pushMetric(i, m) => FollowInv'
    BY PushedSound, PushFollow
  <2>2. \A i \in Ids : CommandFailed(i) \/ BatchFailed(i) => FollowInv'
    BY FailedFollow
  <2>3. QED
    BY <1>2, <1>6, <2>1, <2>2, KeysFollow, ReplayFollow, TickFollow
       DEF ClientNext, Replaying, Polling, Restarting
<1>9. QED
  BY <1>4, <1>5, <1>7, <1>8 DEF V1Next, ReindexNext

LEMMA FollowInit == Init => FollowInv
<1> SUFFICES ASSUME Init
             PROVE  FollowInv
  OBVIOUS
<1>1. db = <<>> /\ dying = {} /\ push = [i \in Ids |-> NewPush] /\ now = 0
  BY DEF Init
<1>2. 0 % Period = 0
  BY V1Assumption
<1>3. \A X : Good(<<>>, 0, X)
  <2>1. \A r : View(<<>>, r) = [size |-> Nil, size0 |-> 0, objects |-> Nil, objects0 |-> 0,
                                sizes |-> {}, numbers |-> {}]
    BY DEF View, Value
  <2>2. QED
    BY <2>1 DEF Good, GoodView, GoodValues, GoodSize, GoodNumber
<1>4. \A i \in Ids : Begun(push[i], now) /\ Stands(db, push[i], Marked) /\ push[i].at \notin InFlight
  BY <1>1 DEF NewPush, Begun, Stands, InFlight
<1>5. QED
  BY <1>1, <1>2, <1>3, <1>4 DEF FollowInv, Single, Settled
\* The last snapshot of a good level is the one a listing would find.
LEMMA LatestIs ==
  ASSUME NEW D, NEW k, NEW n \in Int, NEW e, Newest(Value(D, k, {}), e, n)
  PROVE  Latest(D, k, n) = e[2]
<1>1. PICK S : S = Value(D, k, {})
  OBVIOUS
<1> DEFINE older == {f \in S : f[1] =< n}
<1>2. e \in older /\ \A f \in older : f[1] =< e[1]
  BY <1>1 DEF Newest
<1>3. PICK x : x = CHOOSE y \in older : \A f \in older : f[1] =< y[1]
  OBVIOUS
<1>4. x \in older /\ \A f \in older : f[1] =< x[1]
  BY <1>2, <1>3
<1>5. x = e
  <2>1. x[1] =< e[1] /\ e[1] =< x[1] /\ x[1] \in Int /\ e[1] \in Int /\ x \in S
    BY <1>1, <1>2, <1>4 DEF Newest
  <2>2. x[1] = e[1]
    BY <2>1
  <2>3. QED
    BY <1>1, <2>1, <2>2 DEF Newest
<1>6. Latest(D, k, n) = x[2]
  BY <1>1, <1>2, <1>3 DEF Latest
<1>7. QED
  BY <1>5, <1>6

LEMMA NoneLatest ==
  ASSUME NEW D, NEW k, NEW n, Value(D, k, {}) = {}
  PROVE  Latest(D, k, n) = Nil
BY DEF Latest

\* Of a good level the last snapshots are the present values.
LEMMA GoodFollows ==
  ASSUME NEW D, NEW n \in Int, NEW X, Good(D, n, X), NEW r
  PROVE  /\ LET stored == Latest(D, generateStateKey(r, "storageUtilized"), n)
                size == Value(D, generateCounter(r, "storageUtilizedCounter"), Nil)
            IN  size # Nil => size < 0 \/ stored = size \/ (stored = NaN /\ r \in X)
         /\ LET stored == Latest(D, generateStateKey(r, "numberOfObjects"), n)
                number == Value(D, generateCounter(r, "numberOfObjectsCounter"), Nil)
            IN  number # Nil => number < 0 \/ stored = number
<1>1. PICK v : v = View(D, r) /\ GoodValues(v) /\ GoodSize(v, n, r, X) /\ GoodNumber(v, n)
  BY DEF Good, GoodView
<1>2. PICK x, y : x = generateStateKey(r, "storageUtilized") /\ y = generateStateKey(r, "numberOfObjects")
  OBVIOUS
<1>3. /\ v.sizes = Value(D, x, {}) /\ v.numbers = Value(D, y, {})
      /\ v.size = Value(D, generateCounter(r, "storageUtilizedCounter"), Nil)
      /\ v.objects = Value(D, generateCounter(r, "numberOfObjectsCounter"), Nil)
  BY <1>1, <1>2 DEF View
<1>4. ASSUME v.size # Nil
      PROVE  v.size < 0 \/ Latest(D, x, n) = v.size \/ (Latest(D, x, n) = NaN /\ r \in X)
  <2>1. PICK e : /\ Newest(v.sizes, e, n)
                 /\ \/ e[2] = NaN /\ r \in X
                    \/ e[2] \in Int /\ v.size # Nil /\ (v.size0 < 0 \/ e[2] = v.size0)
    BY <1>1, <1>4 DEF GoodSize
  <2>2. Latest(D, x, n) = e[2]
    BY <1>3, <2>1, LatestIs
  <2>3. QED
    BY <1>1, <1>4, <2>1, <2>2 DEF GoodValues
<1>5. ASSUME v.objects # Nil
      PROVE  v.objects < 0 \/ Latest(D, y, n) = v.objects
  <2>1. PICK e : /\ Newest(v.numbers, e, n)
                 /\ e[2] \in Int /\ (v.objects = Nil \/ v.objects0 < 0 \/ e[2] = v.objects0)
    BY <1>1, <1>5 DEF GoodNumber
  <2>2. Latest(D, y, n) = e[2]
    BY <1>3, <2>1, LatestIs
  <2>3. QED
    BY <1>1, <1>5, <2>1, <2>2 DEF GoodValues
<1>6. QED
  BY <1>2, <1>3, <1>4, <1>5

LEMMA FollowIs ==
  ASSUME CountInv, FollowInv
  PROVE  SnapshotsFollow
<1>1. SUFFICES ASSUME ~muddled, \A i \in Ids : push[i].at \notin InFlight
               PROVE  \A r :
                        /\ LET stored == Latest(db, generateStateKey(r, "storageUtilized"), now)
                               size == Value(db, generateCounter(r, "storageUtilizedCounter"), Nil)
                           IN  size # Nil => size < 0 \/ stored = size \/ (stored = NaN /\ r \in Marked)
                        /\ LET stored == Latest(db, generateStateKey(r, "numberOfObjects"), now)
                               number == Value(db, generateCounter(r, "numberOfObjectsCounter"), Nil)
                           IN  number # Nil => number < 0 \/ stored = number
  BY DEF SnapshotsFollow
<1>2. Good(db, now, Marked) /\ now \in Int
  BY <1>1 DEF FollowInv, Settled, InFlight, Transacting, CountInv, PushTypes
<1>3. PICK D, n, X : D = db /\ n = now /\ X = Marked
  OBVIOUS
<1>4. Good(D, n, X) /\ n \in Int
  BY <1>2, <1>3
<1>5. QED
  BY <1>3, <1>4, GoodFollows

\* Pushes that follow each other, with no fault, no reindex and no expiration
\* among them, leave of each counter that exists and is not negative its present
\* value as the last snapshot; only of the bytes, and only where a delete marker
\* was pushed, the last snapshot may be NaN instead.
THEOREM SnapshotsFollowCorrect == V1Spec => []SnapshotsFollow
<1> DEFINE IInv == CountInv /\ FollowInv
<1>1. Init => IInv
  BY CountInit, FollowInit
<1>2. IInv /\ [V1Next]_allvars => IInv'
  BY CountNext, FollowNext
<1>3. IInv => SnapshotsFollow
  BY FollowIs
<1> HIDE DEF IInv
<1>4. QED
  BY <1>1, <1>2, <1>3, PTL DEF V1Spec, V1Next
-----------------------------------------------------------------------------
(***************************************************************************)
(* The types.  Commands keep the counters numbers and the snapshots values *)
(* of a period: the first transaction whatever it meets, the second one    *)
(* because of the replies it is made from, a report one by one.            *)
(***************************************************************************)
\* A database whose counters are numbers, and whose snapshots are of a period
\* and hold a number, or NaN.
TypedDb(D) ==
  \A k \in DOMAIN D : IF k[2] \in StateKeys
                      THEN \A e \in D[k] : e[1] \in 0..MaxTime /\ e[2] \in Int \cup {NaN}
                      ELSE D[k] \in Int

\* Commands that keep it so.
Adding(c) == c.op = "incrby" /\ c.key[2] \notin StateKeys /\ c.arg \in Int
Reading(c) == c.op \in {"get", "zrangebyscore"}
Setting(c) == c.op = "set" /\ c.key[2] \notin StateKeys /\ c.arg \in Int
Stamping(c) ==
  c.op = "zadd" /\ c.key[2] \in StateKeys /\ c.arg[1] \in 0..MaxTime /\ c.arg[2] \in Int \cup {NaN}
Removing(c) == c.op = "zremrangebyscore" /\ c.key[2] \in StateKeys
Proper(c) == Adding(c) \/ Reading(c) \/ Setting(c) \/ Stamping(c) \/ Removing(c)

LEMMA PutTyped ==
  ASSUME NEW D, TypedDb(D), NEW k, NEW v,
         IF k[2] \in StateKeys THEN \A e \in v : e[1] \in 0..MaxTime /\ e[2] \in Int \cup {NaN}
                               ELSE v \in Int
  PROVE  TypedDb(Put(D, k, v)) /\ DOMAIN Put(D, k, v) = DOMAIN D \cup {k}
<1>1. PICK E : E = Put(D, k, v)
  OBVIOUS
<1>2. DOMAIN E = DOMAIN D \cup {k} /\ \A j \in DOMAIN E : E[j] = IF j = k THEN v ELSE D[j]
  BY <1>1 DEF Put
<1>3. ASSUME NEW j \in DOMAIN E
      PROVE  IF j[2] \in StateKeys THEN \A e \in E[j] : e[1] \in 0..MaxTime /\ e[2] \in Int \cup {NaN}
                                   ELSE E[j] \in Int
  <2>1. CASE j = k
    BY <1>2, <2>1
  <2>2. CASE j # k
    BY <1>2, <1>3, <2>2 DEF TypedDb
  <2>3. QED
    BY <2>1, <2>2
<1>4. QED
  BY <1>1, <1>2, <1>3 DEF TypedDb

LEMMA ValueTyped ==
  ASSUME NEW D, TypedDb(D), NEW k
  PROVE  /\ k[2] \in StateKeys =>
              \A e \in Value(D, k, {}) : e[1] \in 0..MaxTime /\ e[2] \in Int \cup {NaN}
         /\ k[2] \notin StateKeys => Value(D, k, 0) \in Int /\ Value(D, k, Nil) \in Int \cup {Nil}
BY DEF TypedDb, Value

LEMMA RestrictTyped ==
  ASSUME NEW D, TypedDb(D), NEW K
  PROVE  TypedDb(Restrict(D, DOMAIN D \ K)) /\ DOMAIN Restrict(D, DOMAIN D \ K) = DOMAIN D \ K
<1>1. PICK E : E = Restrict(D, DOMAIN D \ K)
  OBVIOUS
<1>2. DOMAIN E = DOMAIN D \ K /\ \A j \in DOMAIN E : E[j] = D[j]
  BY <1>1 DEF Restrict
<1>3. QED
  BY <1>1, <1>2 DEF TypedDb

LEMMA EffectTyped ==
  ASSUME NEW D, TypedDb(D), NEW c, Proper(c)
  PROVE  /\ TypedDb(Effect(D, c)) /\ DOMAIN D \ {c.key} \subseteq DOMAIN Effect(D, c)
         /\ ~Removing(c) => DOMAIN D \subseteq DOMAIN Effect(D, c)
         /\ Stamping(c) => c.key \in DOMAIN Effect(D, c)
<1>1. CASE Adding(c)
  <2>1. Effect(D, c) = Put(D, c.key, Value(D, c.key, 0) + c.arg)
    BY <1>1 DEF Adding, Effect, incrby
  <2>2. Value(D, c.key, 0) + c.arg \in Int
    BY <1>1, ValueTyped DEF Adding
  <2>3. PICK k, v : k = c.key /\ v = Value(D, c.key, 0) + c.arg
    OBVIOUS
  <2>4. k[2] \notin StateKeys /\ v \in Int
    BY <1>1, <2>2, <2>3 DEF Adding
  <2>5. TypedDb(Put(D, k, v)) /\ DOMAIN Put(D, k, v) = DOMAIN D \cup {k}
    BY <2>4, PutTyped
  <2>6. QED
    BY <1>1, <2>1, <2>3, <2>5 DEF Adding, Stamping
<1>2. CASE Reading(c)
  <2>1. Effect(D, c) = D
    BY <1>2 DEF Reading, Effect
  <2>2. QED
    BY <1>2, <2>1 DEF Reading, Stamping
<1>3. CASE Setting(c)
  <2>1. Effect(D, c) = Put(D, c.key, c.arg)
    BY <1>3 DEF Setting, Effect
  <2>2. PICK k, v : k = c.key /\ v = c.arg
    OBVIOUS
  <2>3. k[2] \notin StateKeys /\ v \in Int
    BY <1>3, <2>2 DEF Setting
  <2>4. TypedDb(Put(D, k, v)) /\ DOMAIN Put(D, k, v) = DOMAIN D \cup {k}
    BY <2>3, PutTyped
  <2>5. QED
    BY <1>3, <2>1, <2>2, <2>4 DEF Setting, Stamping
<1>4. CASE Stamping(c)
  <2>1. PICK v : v = Value(D, c.key, {}) \cup {<<c.arg[1], c.arg[2]>>}
    OBVIOUS
  <2>2. Effect(D, c) = Put(D, c.key, v)
    BY <1>4, <2>1 DEF Stamping, Effect, zadd
  <2>3. \A e \in v : e[1] \in 0..MaxTime /\ e[2] \in Int \cup {NaN}
    BY <1>4, <2>1, ValueTyped DEF Stamping
  <2>4. PICK k : k = c.key
    OBVIOUS
  <2>5. k[2] \in StateKeys
    BY <1>4, <2>4 DEF Stamping
  <2>6. TypedDb(Put(D, k, v)) /\ DOMAIN Put(D, k, v) = DOMAIN D \cup {k}
    BY <2>3, <2>5, PutTyped
  <2>7. ~Removing(c)
    BY <1>4 DEF Stamping, Removing
  <2>8. QED
    BY <2>2, <2>4, <2>6, <2>7
<1>5. CASE Removing(c)
  <2>1. PICK v : v = {e \in Value(D, c.key, {}) : e[1] # c.arg}
    OBVIOUS
  <2>2. Effect(D, c) = IF v = {} THEN Restrict(D, DOMAIN D \ {c.key}) ELSE Put(D, c.key, v)
    BY <1>5, <2>1 DEF Removing, Effect, zremrangebyscore
  <2>3. \A e \in v : e[1] \in 0..MaxTime /\ e[2] \in Int \cup {NaN}
    BY <1>5, <2>1, ValueTyped DEF Removing
  <2>4. TypedDb(Put(D, c.key, v)) /\ DOMAIN Put(D, c.key, v) = DOMAIN D \cup {c.key}
    <3>1. PICK k : k = c.key
      OBVIOUS
    <3>2. k[2] \in StateKeys
      BY <1>5, <3>1 DEF Removing
    <3>3. QED
      BY <2>3, <3>1, <3>2, PutTyped
  <2>5. /\ TypedDb(Restrict(D, DOMAIN D \ {c.key}))
        /\ DOMAIN Restrict(D, DOMAIN D \ {c.key}) = DOMAIN D \ {c.key}
    BY RestrictTyped
  <2>6. QED
    BY <1>5, <2>2, <2>4, <2>5 DEF Removing, Stamping
<1>6. QED
  BY <1>1, <1>2, <1>3, <1>4, <1>5 DEF Proper

\* Sequences of commands that keep a database typed, and every key it has.
Fit(s) == /\ IsSeq(s)
          /\ \A D : TypedDb(D) => TypedDb(batch(D, s)) /\ DOMAIN D \subseteq DOMAIN batch(D, s)

LEMMA FitEmpty == Fit(<<>>)
<1>1. <<>> \in Seq({})
  OBVIOUS
<1>2. QED
  BY <1>1, BatchEmpty DEF Fit, IsSeq

LEMMA FitBoth ==
  ASSUME NEW s, NEW u, Fit(s), Fit(u)
  PROVE  Fit(s \o u)
<1>1. IsSeq(s \o u) /\ \A D : batch(D, s \o u) = batch(batch(D, s), u)
  BY Then DEF Fit
<1>2. ASSUME NEW D, TypedDb(D)
      PROVE  TypedDb(batch(D, s \o u)) /\ DOMAIN D \subseteq DOMAIN batch(D, s \o u)
  <2>1. PICK E : E = batch(D, s) /\ TypedDb(E) /\ DOMAIN D \subseteq DOMAIN E
    BY <1>2 DEF Fit
  <2>2. TypedDb(batch(E, u)) /\ DOMAIN E \subseteq DOMAIN batch(E, u)
    BY <2>1 DEF Fit
  <2>3. QED
    BY <1>1, <2>1, <2>2
<1>3. QED
  BY <1>1, <1>2 DEF Fit

LEMMA FitOne ==
  ASSUME NEW c, Proper(c), ~Removing(c)
  PROVE  Fit(<<c>>)
BY OneSeq, BatchOne, EffectTyped DEF Fit

LEMMA FitSnapshot ==
  ASSUME NEW r, NEW metric \in StateKeys, NEW t \in 0..MaxTime, NEW n \in Int \cup {NaN}
  PROVE  Fit(Snapshot(r, metric, t, n))
<1>1. PICK c, d : /\ c = Cmd("zremrangebyscore", <<r, metric>>, t)
                  /\ d = Cmd("zadd", <<r, metric>>, <<t, n>>)
  OBVIOUS
<1>2. Snapshot(r, metric, t, n) = <<c, d>>
  BY <1>1 DEF Snapshot, generateStateKey
<1>3. Removing(c) /\ Stamping(d) /\ c.key = d.key
  BY <1>1 DEF Removing, Stamping, Cmd
<1>4. IsSeq(<<c, d>>) /\ \A D : batch(D, <<c, d>>) = Effect(Effect(D, c), d)
  <2>1. IsSeq(<<c, d>>) /\ \A D : batch(D, <<c, d>>) = batch(batch(D, <<c>>), <<d>>)
    BY PairSeq
  <2>2. \A D : batch(D, <<c>>) = Effect(D, c) /\ batch(D, <<d>>) = Effect(D, d)
    BY BatchOne
  <2>3. QED
    BY <2>1, <2>2
<1>5. ASSUME NEW D, TypedDb(D)
      PROVE  TypedDb(batch(D, <<c, d>>)) /\ DOMAIN D \subseteq DOMAIN batch(D, <<c, d>>)
  <2>1. PICK E : E = Effect(D, c)
    OBVIOUS
  <2>2. TypedDb(E) /\ DOMAIN D \ {c.key} \subseteq DOMAIN E
    BY <1>3, <1>5, <2>1, EffectTyped DEF Proper
  <2>3. /\ TypedDb(Effect(E, d)) /\ d.key \in DOMAIN Effect(E, d)
        /\ DOMAIN E \subseteq DOMAIN Effect(E, d)
    <3>1. ~Removing(d)
      BY <1>3 DEF Removing, Stamping
    <3>2. QED
      BY <1>3, <2>2, <3>1, EffectTyped DEF Proper
  <2>4. QED
    BY <1>3, <1>4, <2>1, <2>2, <2>3
<1>6. QED
  BY <1>2, <1>4, <1>5 DEF Fit

\* The commands of the first transaction, some of which may be lost.
Light(s) == \E C : s \in Seq(C) /\ \A c \in C : Adding(c) \/ Reading(c)

LEMMA LightOne ==
  ASSUME NEW c, Adding(c) \/ Reading(c)
  PROVE  Light(<<c>>)
<1> DEFINE C == {c}
<1>1. <<c>> \in Seq(C) /\ \A x \in C : Adding(x) \/ Reading(x)
  OBVIOUS
<1> HIDE DEF C
<1>2. QED
  BY <1>1 DEF Light

LEMMA LightEmpty == Light(<<>>)
<1>1. PICK C : C = {}
  OBVIOUS
<1>2. <<>> \in Seq(C) /\ \A c \in C : Adding(c) \/ Reading(c)
  BY <1>1
<1>3. QED
  BY <1>2 DEF Light

LEMMA LightBoth ==
  ASSUME NEW s, NEW u, Light(s), Light(u)
  PROVE  Light(s \o u)
<1>1. PICK A : s \in Seq(A) /\ \A c \in A : Adding(c) \/ Reading(c)
  BY DEF Light
<1>2. PICK B : u \in Seq(B) /\ \A c \in B : Adding(c) \/ Reading(c)
  BY DEF Light
<1>3. PICK C : s \in Seq(C) /\ u \in Seq(C) /\ \A c \in C : Adding(c) \/ Reading(c)
  <2> DEFINE C == A \cup B
  <2>1. s \in Seq(C) /\ u \in Seq(C) /\ \A c \in C : Adding(c) \/ Reading(c)
    BY <1>1, <1>2
  <2> HIDE DEF C
  <2>2. QED
    BY <2>1
<1>4. s \o u \in Seq(C)
  BY <1>3, ConcatProperties
<1>5. QED
  BY <1>3, <1>4 DEF Light

LEMMA LightFit ==
  ASSUME NEW s, Light(s)
  PROVE  Fit(s)
<1>1. PICK C : s \in Seq(C) /\ \A c \in C : Adding(c) \/ Reading(c)
  BY DEF Light
<1>2. \A c \in C : Proper(c) /\ ~Removing(c)
  BY <1>1 DEF Proper, Adding, Reading, Removing
<1>3. ASSUME NEW D, TypedDb(D)
      PROVE  TypedDb(batch(D, s)) /\ DOMAIN D \subseteq DOMAIN batch(D, s)
  <2>1. PICK g : Ran(g, D, s) /\ batch(D, s) = g[Len(s)]
    BY <1>1, BatchIs
  <2> DEFINE N == {n \in Nat : n =< Len(s) => TypedDb(g[n]) /\ DOMAIN D \subseteq DOMAIN g[n]}
  <2>2. 0 \in N
    BY <1>3, <2>1 DEF Ran
  <2>3. ASSUME NEW n \in Nat, n \in N
        PROVE  n + 1 \in N
    <3>1. SUFFICES ASSUME n + 1 =< Len(s)
                   PROVE  TypedDb(g[n + 1]) /\ DOMAIN D \subseteq DOMAIN g[n + 1]
      OBVIOUS
    <3>2. PICK E, c : E = g[n] /\ c = s[n + 1]
      OBVIOUS
    <3>3. TypedDb(E) /\ DOMAIN D \subseteq DOMAIN E /\ c \in C
      BY <1>1, <2>3, <3>1, <3>2
    <3>4. n + 1 \in 1..Len(s) /\ (n + 1) - 1 = n
      BY <1>1, <3>1
    <3>5. g[n + 1] = Effect(E, c)
      BY <2>1, <3>2, <3>4 DEF Ran
    <3>6. TypedDb(Effect(E, c)) /\ DOMAIN E \subseteq DOMAIN Effect(E, c)
      BY <1>2, <3>3, EffectTyped
    <3>7. QED
      BY <3>3, <3>5, <3>6
  <2> HIDE DEF N
  <2>4. Nat \subseteq N
    BY <2>2, <2>3, NatSetInduction
  <2>5. Len(s) \in Nat
    BY <1>1
  <2>6. Len(s) \in N
    BY <2>4, <2>5
  <2>7. QED
    BY <2>1, <2>5, <2>6 DEF N
<1>4. QED
  BY <1>1, <1>3 DEF Fit, IsSeq
-----------------------------------------------------------------------------
\* The commands of the first transaction are additions and reads.
LEMMA OperationLight ==
  ASSUME NEW m, NEW r, NEW t
  PROVE  Light(Operation(m, r, t))
<1>1. CASE Counted(m) \in Enabled
  <2>1. PICK c : c = Cmd("incrby", generateKey(r, Counted(m), t), 1)
    OBVIOUS
  <2>2. Counted(m) \notin StateKeys
    BY <1>1, V1Assumption
  <2>3. Adding(c)
    BY <2>1, <2>2 DEF Adding, Cmd, generateKey
  <2>4. Light(<<c>>)
    BY <2>3, LightOne
  <2>5. QED
    BY <1>1, <2>1, <2>4 DEF Operation
<1>2. CASE Counted(m) \notin Enabled
  BY <1>2, LightEmpty DEF Operation
<1>3. QED
  BY <1>1, <1>2

LEMMA SingleLight ==
  ASSUME NEW r
  PROVE  /\ \A n \in Int : Light(<<Size(r, n)>>) /\ Light(<<Objects(r, n)>>)
         /\ \A t, m : m.new \in Int => /\ Light(<<Bytes(m, r, "incomingBytes", t)>>)
                                       /\ Light(<<Bytes(m, r, "outgoingBytes", t)>>)
         /\ Light(<<Cmd("get", generateCounter(r, "numberOfObjectsCounter"), Nil)>>)
         /\ \A t : Light(<<Cmd("zrangebyscore", generateStateKey(r, "storageUtilized"), t)>>)
<1>1. ASSUME NEW n \in Int
      PROVE  Light(<<Size(r, n)>>) /\ Light(<<Objects(r, n)>>)
  <2>1. Adding(Size(r, n)) /\ Adding(Objects(r, n))
    BY DEF Adding, Size, Objects, Cmd, generateCounter, StateKeys
  <2>2. QED
    BY <2>1, LightOne
<1>2. ASSUME NEW t, NEW m, m.new \in Int
      PROVE  Light(<<Bytes(m, r, "incomingBytes", t)>>) /\ Light(<<Bytes(m, r, "outgoingBytes", t)>>)
  <2>1. Adding(Bytes(m, r, "incomingBytes", t)) /\ Adding(Bytes(m, r, "outgoingBytes", t))
    BY <1>2 DEF Adding, Bytes, Cmd, generateKey, StateKeys
  <2>2. QED
    BY <2>1, LightOne
<1>3. ASSUME NEW k, NEW x
      PROVE  Light(<<Cmd("get", k, x)>>) /\ Light(<<Cmd("zrangebyscore", k, x)>>)
  <2>1. Reading(Cmd("get", k, x)) /\ Reading(Cmd("zrangebyscore", k, x))
    BY DEF Reading, Cmd
  <2>2. QED
    BY <2>1, LightOne
<1>4. QED
  BY <1>1, <1>2, <1>3

LEMMA LightPair ==
  ASSUME NEW c, NEW d, Light(<<c>>), Light(<<d>>)
  PROVE  Light(<<c, d>>)
<1>1. <<c, d>> = <<c>> \o <<d>>
  BY TwoSeq
<1>2. QED
  BY <1>1, LightBoth

LEMMA CommandsLight ==
  ASSUME NEW m, Typed(m), NEW r, NEW t
  PROVE  Light(Commands(m, r, t))
<1>0. /\ \A n \in Int : Light(<<Size(r, n)>>)
      /\ \A n \in Int : Light(<<Objects(r, n)>>)
      /\ m.new \in Int => Light(<<Bytes(m, r, "incomingBytes", t)>>)
      /\ m.new \in Int => Light(<<Bytes(m, r, "outgoingBytes", t)>>)
      /\ Light(<<Cmd("get", generateCounter(r, "numberOfObjectsCounter"), Nil)>>)
      /\ Light(<<Cmd("zrangebyscore", generateStateKey(r, "storageUtilized"), t)>>)
      /\ 1 \in Int
  <2>1. ASSUME NEW n \in Int
        PROVE  Light(<<Size(r, n)>>) /\ Light(<<Objects(r, n)>>)
    BY SingleLight
  <2>2. ASSUME m.new \in Int
        PROVE  Light(<<Bytes(m, r, "incomingBytes", t)>>) /\ Light(<<Bytes(m, r, "outgoingBytes", t)>>)
    BY <2>2, SingleLight
  <2>3. /\ Light(<<Cmd("get", generateCounter(r, "numberOfObjectsCounter"), Nil)>>)
        /\ Light(<<Cmd("zrangebyscore", generateStateKey(r, "storageUtilized"), t)>>)
    BY SingleLight
  <2>4. \A n \in Int : Light(<<Size(r, n)>>)
    BY <2>1
  <2>5. \A n \in Int : Light(<<Objects(r, n)>>)
    BY <2>1
  <2>6. 1 \in Int
    OBVIOUS
  <2>7. QED
    BY <2>2, <2>3, <2>4, <2>5, <2>6, Zenon
<1>1. PICK ops : ops = Operation(m, r, t) /\ Light(ops)
  BY OperationLight
<1>2. /\ m.old \in Int \cup {Nil} /\ OldSize(m) \in Int
      /\ Moves(m) => m.new \in Int /\ Delta(m) \in Int
  BY DEF Typed, OldSize, Delta
<1>3. CASE Method(m) = "part"
  <2>1. m.new \in Int /\ Delta(m) \in Int
    BY <1>2, <1>3 DEF Moves
  <2>2. Light(<<Size(r, Delta(m)), Bytes(m, r, "incomingBytes", t)>>)
    BY <2>1, <1>0, LightPair
  <2>3. Commands(m, r, t) = <<Size(r, Delta(m)), Bytes(m, r, "incomingBytes", t)>> \o ops
    BY <1>1, <1>3 DEF Commands, UploadPart
  <2>4. QED
    BY <1>1, <2>2, <2>3, LightBoth
<1>4. CASE Method(m) = "overwrite"
  <2>1. m.old # Nil
    BY <1>4 DEF Method
  <2>2. -m.old \in Int
    BY <1>2, <2>1
  <2>3. Light(<<Size(r, -m.old)>>)
    BY <1>0, <2>2
  <2>4. Commands(m, r, t) = <<Size(r, -m.old)>> \o ops
    BY <1>1, <1>4 DEF Commands, MultipartUploadOverwrite
  <2>5. QED
    BY <1>1, <2>3, <2>4, LightBoth
<1>5. CASE Method(m) = "complete"
  <2>1. Commands(m, r, t) = <<Objects(r, 1)>> \o ops
    BY <1>1, <1>5 DEF Commands, CompleteMultipartUpload
  <2>2. Light(<<Objects(r, 1)>>)
    BY <1>0
  <2>3. QED
    BY <1>1, <2>1, <2>2, LightBoth
<1>6. CASE Method(m) = "delete"
  <2>1. PICK e : e = IF m.action = "abortMultipartUpload" THEN <<>> ELSE <<Objects(r, -m.objects)>>
    OBVIOUS
  <2>2. Commands(m, r, t) = (<<Size(r, -m.bytes)>> \o ops) \o e
    BY <1>1, <1>6, <2>1 DEF Commands, DeleteObject
  <2>3. -m.bytes \in Int /\ (m.action # "abortMultipartUpload" => -m.objects \in Int)
    BY <1>6 DEF Typed
  <2>4. Light(<<Size(r, -m.bytes)>>)
    BY <1>0, <2>3
  <2>5. Light(e)
    BY <2>1, <2>3, <1>0, LightEmpty
  <2>6. Light(<<Size(r, -m.bytes)>> \o ops)
    BY <1>1, <2>4, LightBoth
  <2>7. QED
    BY <2>2, <2>5, <2>6, LightBoth
<1>7. CASE Method(m) = "get"
  <2>1. m.new \in Int
    BY <1>2, <1>7 DEF Moves
  <2>2. Light(<<Bytes(m, r, "outgoingBytes", t)>>)
    BY <1>0, <2>1
  <2>3. Commands(m, r, t) = <<Bytes(m, r, "outgoingBytes", t)>> \o ops
    BY <1>1, <1>7 DEF Commands, GetObject
  <2>4. QED
    BY <1>1, <2>2, <2>3, LightBoth
<1>8. CASE Method(m) = "put"
  <2>1. m.new \in Int /\ Delta(m) \in Int
    BY <1>2, <1>8 DEF Moves
  <2>2. PICK d, e : /\ d = IF m.old = Nil THEN Objects(r, 1)
                           ELSE Cmd("get", generateCounter(r, "numberOfObjectsCounter"), Nil)
                    /\ e = IF m.action = "copyObject" THEN <<>> ELSE <<Bytes(m, r, "incomingBytes", t)>>
    OBVIOUS
  <2>3. Commands(m, r, t) = (<<Size(r, Delta(m)), d>> \o ops) \o e
    BY <1>1, <1>8, <2>2 DEF Commands, PutObject
  <2>4. Light(<<Size(r, Delta(m))>>)
    BY <1>0, <2>1
  <2>5. Light(<<d>>)
    BY <1>0, <2>2
  <2>6. Light(e)
    BY <2>1, <2>2, <1>0, LightEmpty
  <2>7. Light(<<Size(r, Delta(m)), d>>)
    BY <2>4, <2>5, LightPair
  <2>8. Light(<<Size(r, Delta(m)), d>> \o ops)
    BY <1>1, <2>7, LightBoth
  <2>9. QED
    BY <2>3, <2>6, <2>8, LightBoth
<1>9. CASE Method(m) = "marker"
  <2>1. PICK e : e = <<Cmd("zrangebyscore", generateStateKey(r, "storageUtilized"), t)>>
    OBVIOUS
  <2>2. Commands(m, r, t) = (<<Objects(r, 1)>> \o ops) \o e
    BY <1>1, <1>9, <2>1 DEF Commands, DeleteMarker
  <2>3. Light(<<Objects(r, 1)>>) /\ Light(e)
    BY <1>0, <2>1
  <2>4. Light(<<Objects(r, 1)>> \o ops)
    BY <1>1, <2>3, LightBoth
  <2>5. QED
    BY <2>2, <2>3, <2>4, LightBoth
<1>10. CASE Method(m) = "generic"
  BY <1>1, <1>10 DEF Commands
<1>11. QED
  BY <1>3, <1>4, <1>5, <1>6, <1>7, <1>8, <1>9, <1>10 DEF Method

\* The second transaction, with the replies of the first.
Told(m, g) ==
  /\ Method(m) \in {"part", "delete", "put"} => g[1] \in Int \cup {Nil}
  /\ Method(m) = "overwrite" => g[1] \in Int
  /\ Method(m) \in {"complete", "marker"} => g[1] \in Int \cup {Nil}
  /\ Method(m) = "put" => g[2] \in Int \cup {Nil}
  /\ Method(m) = "delete" /\ m.action # "abortMultipartUpload" => Last(g) \in Int \cup {Nil}
  /\ Method(m) = "marker" => Last(g) \subseteq Int \cup {NaN}

LEMMA AsIfEmptyType ==
  ASSUME NEW n \in Int \cup {Nil}, NEW v \in Int
  PROVE  AsIfEmpty(n, v) \in Int
BY DEF AsIfEmpty

LEMMA MarkerSizeType ==
  ASSUME NEW m, m.bytes \in Nat \cup {Nil}, NEW stored, stored \subseteq Int \cup {NaN}
  PROVE  MarkerSize(m, stored) \in Int \cup {NaN}
<1>1. CASE stored = {} \/ m.bytes = Nil
  BY <1>1 DEF MarkerSize
<1>2. CASE stored # {} /\ m.bytes # Nil
  <2>1. PICK old : old = CHOOSE v \in stored : TRUE
    OBVIOUS
  <2>2. old \in Int \cup {NaN} /\ m.bytes \in Nat
    BY <1>2, <2>1
  <2>3. MarkerSize(m, stored) = IF old = NaN THEN NaN ELSE IF old < m.bytes THEN 0 ELSE old - m.bytes
    BY <1>2, <2>1 DEF MarkerSize
  <2>4. QED
    BY <2>2, <2>3, ValuesAssumption
<1>3. QED
  BY <1>1, <1>2

LEMMA SnapshotsFit ==
  ASSUME NEW m, Typed(m), ReadsReplies(m), NEW r, NEW t \in 0..MaxTime, NEW g, Told(m, g)
  PROVE  Fit(Snapshots(m, r, t, g))
<1>0. /\ \A n \in Int \cup {Nil}, v \in Int : AsIfEmpty(n, v) \in Int
      /\ 0 \in Int /\ 1 \in Int
  BY AsIfEmptyType
<1>1. /\ m.old \in Int \cup {Nil} /\ OldSize(m) \in Int
      /\ Moves(m) => Delta(m) \in Int
  BY DEF Typed, OldSize, Delta
<1>2. \A n \in Int \cup {NaN} : /\ Fit(Snapshot(r, "storageUtilized", t, n))
                               /\ Fit(Snapshot(r, "numberOfObjects", t, n))
  BY FitSnapshot DEF StateKeys
<1>3. CASE Method(m) = "part"
  <2>1. AsIfEmpty(g[1], Delta(m)) \in Int
    BY <1>0, <1>1, <1>3 DEF Moves, Told
  <2>2. QED
    BY <1>2, <1>3, <2>1 DEF Snapshots, PartSnapshots
<1>4. CASE Method(m) = "overwrite"
  <2>1. PICK n : n = g[1] /\ n \in Int
    BY <1>4 DEF Told
  <2>2. Fit(Snapshot(r, "storageUtilized", t, n))
    BY <1>2, <2>1
  <2>3. Snapshots(m, r, t, g) = Snapshot(r, "storageUtilized", t, n)
    BY <1>4, <2>1 DEF Snapshots, OverwriteSnapshots
  <2>4. QED
    BY <2>2, <2>3
<1>5. CASE Method(m) = "complete"
  <2>1. AsIfEmpty(g[1], 1) \in Int
    BY <1>0, <1>5 DEF Told
  <2>2. QED
    BY <1>2, <1>5, <2>1 DEF Snapshots, CompleteSnapshots
<1>6. CASE Method(m) = "delete"
  <2>1. PICK a, e : /\ a = Snapshot(r, "storageUtilized", t, AsIfEmpty(g[1], 0))
                    /\ e = IF m.action = "abortMultipartUpload" THEN <<>>
                           ELSE Snapshot(r, "numberOfObjects", t, AsIfEmpty(Last(g), 0))
    OBVIOUS
  <2>2. Snapshots(m, r, t, g) = a \o e
    BY <1>6, <2>1 DEF Snapshots, DeleteSnapshots
  <2>3. AsIfEmpty(g[1], 0) \in Int
    BY <1>0, <1>6 DEF Told
  <2>4. m.action # "abortMultipartUpload" => AsIfEmpty(Last(g), 0) \in Int
    BY <1>0, <1>6 DEF Told
  <2>5. Fit(a)
    BY <1>2, <2>1, <2>3
  <2>6. Fit(e)
    BY <1>2, <2>1, <2>4, FitEmpty
  <2>7. QED
    BY <2>2, <2>5, <2>6, FitBoth
<1>7. CASE Method(m) = "put"
  <2>1. AsIfEmpty(g[1], Delta(m)) \in Int /\ AsIfEmpty(g[2], 1) \in Int
    <3>1. g[1] \in Int \cup {Nil} /\ g[2] \in Int \cup {Nil} /\ Delta(m) \in Int
      BY <1>1, <1>7 DEF Moves, Told
    <3>2. QED
      BY <1>0, <3>1
  <2>2. PICK a, e : /\ a = Snapshot(r, "storageUtilized", t, AsIfEmpty(g[1], Delta(m)))
                    /\ e = Snapshot(r, "numberOfObjects", t, AsIfEmpty(g[2], 1))
    OBVIOUS
  <2>3. Snapshots(m, r, t, g) = a \o e
    BY <1>7, <2>2 DEF Snapshots, PutSnapshots
  <2>4. Fit(a) /\ Fit(e)
    BY <1>2, <2>1, <2>2
  <2>5. QED
    BY <2>3, <2>4, FitBoth
<1>8. CASE Method(m) = "marker"
  <2>1. PICK n, v : /\ n = IF m.bytes # Nil THEN AsIfEmpty(g[1], 1) - 1 ELSE AsIfEmpty(g[1], 1)
                    /\ v = MarkerSize(m, Last(g))
    OBVIOUS
  <2>2. PICK a, s, e : /\ a = Snapshot(r, "numberOfObjects", t, n)
                       /\ s = IF m.bytes # Nil THEN <<Objects(r, -1), Size(r, -m.bytes)>> ELSE <<>>
                       /\ e = Snapshot(r, "storageUtilized", t, v)
    OBVIOUS
  <2>3. Snapshots(m, r, t, g) = (a \o s) \o e
    BY <1>8, <2>1, <2>2 DEF Snapshots, MarkerSnapshots
  <2>4. n \in Int
    <3>1. AsIfEmpty(g[1], 1) \in Int
      BY <1>0, <1>8 DEF Told
    <3>2. QED
      BY <2>1, <3>1
  <2>5. m.bytes \in Nat \cup {Nil} /\ v \in Int \cup {NaN}
    <3>1. m.bytes \in Nat \cup {Nil}
      BY <1>8 DEF Typed
    <3>2. QED
      BY <1>8, <2>1, <3>1, MarkerSizeType DEF Told
  <2>6. Fit(a) /\ Fit(e)
    BY <1>2, <2>2, <2>4, <2>5
  <2>7. Fit(s)
    <3>1. CASE m.bytes # Nil
      <4>1. -m.bytes \in Int
        BY <2>5, <3>1
      <4>2. Light(<<Objects(r, -1)>>) /\ Light(<<Size(r, -m.bytes)>>)
        <5>1. /\ \A k \in Int : Light(<<Size(r, k)>>)
              /\ \A k \in Int : Light(<<Objects(r, k)>>)
          BY SingleLight
        <5>2. -1 \in Int
          OBVIOUS
        <5>3. QED
          BY <4>1, <5>1, <5>2
      <4>3. Light(<<Objects(r, -1), Size(r, -m.bytes)>>)
        BY <4>2, LightPair
      <4>4. QED
        BY <2>2, <3>1, <4>3, LightFit
    <3>2. CASE m.bytes = Nil
      BY <2>2, <3>2, FitEmpty
    <3>3. QED
      BY <3>1, <3>2
  <2>8. Fit(a \o s)
    BY <2>6, <2>7, FitBoth
  <2>9. QED
    BY <2>3, <2>6, <2>8, FitBoth
<1>9. QED
  BY <1>3, <1>4, <1>5, <1>6, <1>7, <1>8 DEF ReadsReplies, Method

\* Levels get replies of the type their commands have.
LEMMA LevelTold ==
  ASSUME NEW m, Typed(m), ReadsReplies(m), NEW r, NEW t, NEW D, TypedDb(D), NEW v, v = View(D, r),
         Method(m) = "overwrite" => v.size \in Int, NEW g, Replied(m, g, v, t)
  PROVE  Told(m, g)
<1>1. v.size \in Int \cup {Nil} /\ v.objects \in Int \cup {Nil}
  <2>1. \A metric \in Counters : Value(D, <<r, metric>>, Nil) \in Int \cup {Nil}
    <3>1. ASSUME NEW metric \in Counters
          PROVE  Value(D, <<r, metric>>, Nil) \in Int \cup {Nil}
      <4>1. PICK k : k = <<r, metric>>
        OBVIOUS
      <4>2. k[2] \notin StateKeys
        BY <4>1 DEF Counters, StateKeys
      <4>3. QED
        BY <4>1, <4>2, ValueTyped
    <3>2. QED
      BY <3>1
  <2>2. QED
    BY <2>1 DEF View, generateCounter, Counters
<1>2. {e[2] : e \in {x \in v.sizes : x[1] = t}} \subseteq Int \cup {NaN}
  <2>1. PICK k : k = <<r, "storageUtilized">>
    OBVIOUS
  <2>2. k[2] \in StateKeys
    BY <2>1 DEF StateKeys
  <2>3. \A e \in Value(D, k, {}) : e[2] \in Int \cup {NaN}
    BY <2>2, ValueTyped
  <2>4. v.sizes = Value(D, k, {})
    BY <2>1 DEF View, generateStateKey
  <2>5. QED
    BY <2>3, <2>4
<1>3. /\ Method(m) \in {"part", "delete", "put"} => g[1] \in Int \cup {Nil}
      /\ Method(m) = "overwrite" => g[1] \in Int
  BY <1>1 DEF Replied
<1>4. /\ Method(m) \in {"complete", "marker"} => g[1] \in Int \cup {Nil}
      /\ Method(m) = "put" => g[2] \in Int \cup {Nil}
      /\ Method(m) = "delete" /\ m.action # "abortMultipartUpload" => Last(g) \in Int \cup {Nil}
  BY <1>1 DEF Replied
<1>5. Method(m) = "marker" => Last(g) \subseteq Int \cup {NaN}
  BY <1>2 DEF Replied
<1>6. QED
  BY <1>3, <1>4, <1>5 DEF Told

LEMMA AllLight ==
  ASSUME NEW m, Typed(m), NEW t
  PROVE  Light(AllCommands(m, t))
<1>1. PICK s, u : s = Commands(m, m.bucket, t) /\ u = Commands(m, m.account, t)
  OBVIOUS
<1>2. Light(s) /\ Light(u)
  BY <1>1, CommandsLight
<1>3. AllCommands(m, t) = s \o u
  BY <1>1, AllCommandsAre
<1>4. QED
  BY <1>2, <1>3, LightBoth

\* So the second transaction stores numbers, and NaN as a size.
LEMMA AllSnapshotsFit ==
  ASSUME NEW m, Sound(m), ReadsReplies(m), NEW t \in 0..MaxTime, NEW D, TypedDb(D), NEW E,
         E = batch(D, AllCommands(m, t)), NEW g, g = Replies(E, AllCommands(m, t))
  PROVE  Fit(AllSnapshots(m, t, g))
<1>1. Typed(m) /\ m.bucket # m.account
  BY DEF Sound
<1>2. TypedDb(E)
  <2>1. Fit(AllCommands(m, t))
    BY <1>1, AllLight, LightFit
  <2>2. QED
    BY <2>1 DEF Fit
<1>3. PICK x, y : x = Group(m, t, g, 1) /\ y = Group(m, t, g, 2)
  OBVIOUS
<1>4. Replied(m, x, View(E, m.bucket), t) /\ Replied(m, y, View(E, m.account), t)
  <2>1. Replied(m, x, View(E, m.bucket), t)
    BY <1>3, GroupsAre, RepliesTell
  <2>2. Replied(m, y, View(E, m.account), t)
    BY <1>3, GroupsAre, RepliesTell
  <2>3. QED
    BY <2>1, <2>2
<1>5. ASSUME NEW r \in {m.bucket, m.account}, Method(m) = "overwrite"
      PROVE  View(E, r).size \in Int
  <2>1. View(E, r) = After(m, View(D, r))
    BY <1>1, CountedViews
  <2>2. View(E, r).size = View(D, r).size0 + (-m.old)
    BY <1>5, <2>1 DEF After, Sized
  <2>3. -m.old \in Int
    BY <1>1, <1>5 DEF Typed, Method
  <2>4. View(D, r).size0 \in Int
    <3>1. PICK k : k = <<r, "storageUtilizedCounter">>
      OBVIOUS
    <3>2. k[2] \notin StateKeys
      BY <3>1 DEF StateKeys
    <3>3. Value(D, k, 0) \in Int
      BY <3>2, ValueTyped
    <3>4. QED
      BY <3>1, <3>3 DEF View, generateCounter
  <2>5. QED
    BY <2>2, <2>3, <2>4
<1>6. Told(m, x) /\ Told(m, y)
  <2>1. Told(m, x)
    BY <1>1, <1>2, <1>4, <1>5, LevelTold
  <2>2. Told(m, y)
    BY <1>1, <1>2, <1>4, <1>5, LevelTold
  <2>3. QED
    BY <2>1, <2>2
<1>7. PICK s, u : s = Snapshots(m, m.bucket, t, x) /\ u = Snapshots(m, m.account, t, y)
  OBVIOUS
<1>8. Fit(s) /\ Fit(u)
  BY <1>1, <1>6, <1>7, SnapshotsFit
<1>9. AllSnapshots(m, t, g) = s \o u
  BY <1>3, <1>7, AllSnapshotsAre
<1>10. QED
  BY <1>8, <1>9, FitBoth
-----------------------------------------------------------------------------
\* The types of the clients and their replay.
TypedPush(p) ==
  /\ p.time \in 0..MaxTime
  /\ p.at = "snapshot" => Fit(AllSnapshots(p.metric, p.time, p.got))
TypedStore == TypedDb(db) /\ dying \subseteq DOMAIN db
TypedRest == /\ now \in 0..MaxTime /\ faults \in 0..MaxFaults /\ lock \in BOOLEAN
             /\ \A j \in Jobs : replay[j].at \in {"idle", "check", "pop", "popped"}
TypedInv == TypedStore /\ TypedRest /\ \A i \in Ids : TypedPush(push[i])

LEMMA StartTyped ==
  ASSUME CountInv, FollowInv, TypedInv, NEW m, Sound(m), NEW by
  PROVE  TypedPush(Start(m, by))
<1>1. Start(m, by).time = now /\ Start(m, by).at \in {"batch", "scan", "done"}
  BY StartBegun, StartShape
<1>2. QED
  BY <1>1 DEF TypedPush, TypedInv, TypedRest

LEMMA OneTyped ==
  ASSUME CountInv, TypedInv, NEW i \in Ids, NEW r, push'[i] = r,
         \A j \in Ids \ {i} : push'[j] = push[j],
         r.time = push[i].time, r.at # "snapshot"
  PROVE  \A j \in Ids : TypedPush(push'[j])
BY DEF TypedInv, TypedPush

\* The first transaction, with or without its first commands.
LEMMA CountTyped ==
  ASSUME CountInv, FollowInv, TypedInv, NEW i \in Ids, push[i].at = "batch", NEW lost, Count(i, lost),
         UNCHANGED faults \/ Fault
  PROVE  TypedInv'
<1>1. PICK p, m, t, D : p = push[i] /\ m = p.metric /\ t = p.time /\ D = db
  OBVIOUS
<1>2. /\ Shaped(p) /\ Sound(m) /\ t \in 0..MaxTime /\ TypedDb(D) /\ DOMAIN push = Ids
  BY <1>1 DEF CountInv, PushTypes, FollowInv, Begun, TypedInv, TypedStore, TypedPush
<1>3. PICK all, cmds : /\ all = AllCommands(m, t)
                       /\ cmds = [n \in DOMAIN all |-> IF n \in lost THEN Cmd("get", all[n].key, Nil)
                                                       ELSE all[n]]
  OBVIOUS
<1>4. PICK C : all \in Seq(C) /\ \A c \in C : Adding(c) \/ Reading(c)
  BY <1>2, <1>3, AllLight DEF Sound, Light
<1>5. Light(cmds)
  <2>1. PICK B : B = C \cup {Cmd("get", c.key, Nil) : c \in C}
    OBVIOUS
  <2>2. \A c \in B : Adding(c) \/ Reading(c)
    BY <1>4, <2>1 DEF Reading, Cmd
  <2>3. DOMAIN all = 1..Len(all) /\ Len(all) \in Nat /\ \A n \in 1..Len(all) : all[n] \in C
    BY <1>4
  <2>4. cmds \in [1..Len(all) -> B]
    BY <1>3, <2>1, <2>3
  <2>5. cmds \in Seq(B)
    BY <2>3, <2>4
  <2>6. QED
    BY <2>2, <2>5 DEF Light
<1>6. PICK E : E = batch(D, cmds) /\ TypedDb(E) /\ DOMAIN D \subseteq DOMAIN E
  BY <1>2, <1>5, LightFit DEF Fit
<1> DEFINE reads == lost = {} /\ ReadsReplies(m)
           a == IF lost # {} THEN "failed" ELSE IF reads THEN "snapshot" ELSE AfterCounting(m)
           g == IF reads THEN Replies(E, cmds) ELSE <<>>
           r == [[p EXCEPT !.at = a] EXCEPT !.got = g]
<1>7. db' = E /\ push' = [push EXCEPT ![i].at = a, ![i].got = g] /\ UNCHANGED <<dying, local, now>>
  BY <1>1, <1>3, <1>6 DEF Count
<1>8. push'[i] = r /\ \A j \in Ids \ {i} : push'[j] = push[j]
  BY <1>1, <1>2, <1>7
<1>9. a = "snapshot" => reads
  BY DEF AfterCounting
<1> HIDE DEF a
<1>10. r.at = a /\ r.metric = m /\ r.time = t /\ r.got = g
  BY <1>1, <1>2 DEF Shaped, PushFields
<1> HIDE DEF r
<1>11. TypedPush(r)
  <2>1. CASE a # "snapshot"
    BY <1>2, <1>10, <2>1 DEF TypedPush
  <2>2. CASE a = "snapshot"
    <3>1. lost = {} /\ ReadsReplies(m)
      BY <1>9, <2>2
    <3>2. cmds = all
      BY <1>3, <1>4, <3>1
    <3>3. E = batch(D, AllCommands(m, t)) /\ g = Replies(E, AllCommands(m, t))
      BY <1>3, <1>6, <3>1, <3>2
    <3>4. Fit(AllSnapshots(m, t, g))
      BY <1>2, <3>1, <3>3, AllSnapshotsFit
    <3>5. QED
      BY <1>2, <1>10, <3>4 DEF TypedPush
  <2>3. QED
    BY <2>1, <2>2
<1>12. \A j \in Ids : TypedPush(push'[j])
  BY <1>8, <1>11 DEF TypedInv
<1>13. TypedStore'
  BY <1>1, <1>6, <1>7 DEF TypedInv, TypedStore
<1>14. TypedRest'
  BY <1>7, V1Assumption DEF TypedInv, TypedRest, Fault, local
<1>15. QED
  BY <1>12, <1>13, <1>14 DEF TypedInv

LEMMA PushTyped ==
  ASSUME CountInv, FollowInv, TypedInv, NEW i \in Ids, NEW m, Sound(m), pushMetric(i, m)
  PROVE  TypedInv'
<1>1. PICK r : r = Start(m, "client") /\ TypedPush(r)
  BY StartTyped
<1>2. /\ push' = [push EXCEPT ![i] = r] /\ UNCHANGED <<db, dying, now, faults, lock, replay>>
      /\ DOMAIN push = Ids
  BY <1>1 DEF pushMetric, redis, local, CountInv, PushTypes
<1>3. \A j \in Ids : TypedPush(push'[j])
  BY <1>1, <1>2 DEF TypedInv
<1>4. QED
  BY <1>2, <1>3 DEF TypedInv, TypedStore, TypedRest

LEMMA ModGap ==
  ASSUME NEW x \in Int, NEW y \in Int, NEW p \in Nat \ {0}, x % p = 0, y % p = 0, x < y
  PROVE  x + p =< y
<1>1. PICK a \in Int, b \in Int : x = p * a /\ y = p * b
  BY ModZero
<1>2. CASE b =< a
  <2>1. p * b =< p * a
    BY <1>2
  <2>2. QED
    BY <1>1, <2>1
<1>3. CASE a + 1 =< b
  <2>1. p * (a + 1) =< p * b /\ p * (a + 1) = p * a + p
    BY <1>3
  <2>2. QED
    BY <1>1, <2>1
<1>4. QED
  BY <1>2, <1>3

LEMMA BatchFailedTyped ==
  ASSUME CountInv, FollowInv, TypedInv, NEW i \in Ids, BatchFailed(i)
  PROVE  TypedInv'
<1>1. PICK r : r = [push[i] EXCEPT !.at = "failed"]
  OBVIOUS
<1>2. Shaped(push[i]) /\ DOMAIN push = Ids /\ push[i].at = "batch"
  BY DEF CountInv, PushTypes, BatchFailed
<1>3. push'[i] = r /\ (\A j \in Ids \ {i} : push'[j] = push[j])
  BY <1>1, <1>2 DEF BatchFailed, Goes
<1>4. r.at = "failed" /\ r.time = push[i].time
  BY <1>1, <1>2 DEF Shaped, PushFields
<1>5. \A j \in Ids : TypedPush(push'[j])
  BY <1>3, <1>4, OneTyped
<1>6. TypedStore'
  <2>1. CASE db' = batch(db, AllCommands(push[i].metric, push[i].time))
    <3>1. PICK m, t, D : m = push[i].metric /\ t = push[i].time /\ D = db
      OBVIOUS
    <3>2. Typed(m)
      BY <1>2, <3>1 DEF FollowInv, Begun, Sound
    <3>3. Fit(AllCommands(m, t))
      BY <3>2, AllLight, LightFit
    <3>4. TypedDb(batch(D, AllCommands(m, t))) /\ DOMAIN D \subseteq DOMAIN batch(D, AllCommands(m, t))
      BY <3>1, <3>3 DEF Fit, TypedInv, TypedStore
    <3>5. dying' = dying
      BY DEF BatchFailed
    <3>6. QED
      BY <2>1, <3>1, <3>4, <3>5 DEF TypedInv, TypedStore
  <2>2. CASE UNCHANGED db
    BY <2>2 DEF BatchFailed, TypedInv, TypedStore
  <2>3. QED
    BY <2>1, <2>2 DEF BatchFailed
<1>7. TypedRest'
  BY V1Assumption DEF Fault, BatchFailed, TypedInv, TypedRest, local
<1>8. QED
  BY <1>5, <1>6, <1>7 DEF TypedInv

LEMMA StoreTyped ==
  ASSUME CountInv, TypedInv, NEW i \in Ids, StoreSnapshots(i)
  PROVE  TypedInv'
<1>1. PICK r : r = [[push[i] EXCEPT !.at = "done"] EXCEPT !.got = <<>>]
  OBVIOUS
<1>2. Shaped(push[i]) /\ DOMAIN push = Ids /\ push[i].at = "snapshot"
  BY DEF CountInv, PushTypes, StoreSnapshots
<1>3. push'[i] = r /\ (\A j \in Ids \ {i} : push'[j] = push[j])
  BY <1>1, <1>2 DEF StoreSnapshots
<1>4. r.at = "done" /\ r.time = push[i].time
  BY <1>1, <1>2 DEF Shaped, PushFields
<1>5. \A j \in Ids : TypedPush(push'[j])
  BY <1>3, <1>4, OneTyped
<1>6. PICK cmds : cmds = AllSnapshots(push[i].metric, push[i].time, push[i].got) /\ Fit(cmds)
  BY <1>2 DEF TypedInv, TypedPush
<1>7. TypedStore'
  <2>1. CASE db' = batch(db, cmds) /\ dying' = dying \ Persisted(db, cmds)
    <3>1. PICK D : D = db /\ TypedDb(batch(D, cmds)) /\ DOMAIN D \subseteq DOMAIN batch(D, cmds)
      BY <1>6 DEF Fit, TypedInv, TypedStore
    <3>2. QED
      BY <2>1, <3>1 DEF TypedInv, TypedStore
  <2>2. CASE UNCHANGED <<db, dying>>
    BY <2>2 DEF TypedInv, TypedStore
  <2>3. QED
    BY <1>6, <2>1, <2>2 DEF StoreSnapshots
<1>8. TypedRest'
  BY V1Assumption DEF Fault, StoreSnapshots, TypedInv, TypedRest, local
<1>9. QED
  BY <1>5, <1>7, <1>8 DEF TypedInv

LEMMA LaterTyped ==
  ASSUME CountInv, TypedInv, NEW i \in Ids, PushLocalCache(i) \/ ScanKeys(i) \/ ExpireKeys(i)
  PROVE  TypedInv'
<1>1. Shaped(push[i]) /\ DOMAIN push = Ids
  BY DEF CountInv, PushTypes
<1>2. \E r : /\ push'[i] = r /\ (\A j \in Ids \ {i} : push'[j] = push[j])
             /\ r.time = push[i].time /\ r.at # "snapshot"
  <2>1. CASE PushLocalCache(i)
    <3>1. PICK x \in {"cached", "lost"} : push' = [push EXCEPT ![i].at = x]
      BY <2>1 DEF PushLocalCache, Goes
    <3>2. QED
      BY <1>1, <3>1 DEF Shaped, PushFields
  <2>2. CASE ScanKeys(i)
    <3>1. PICK r : r = [[push[i] EXCEPT !.at = "expire"] EXCEPT !.got = {k \in DOMAIN db : k[1] = push[i].metric.bucket}]
      OBVIOUS
    <3>2. push'[i] = r /\ (\A j \in Ids \ {i} : push'[j] = push[j])
      BY <1>1, <2>2, <3>1 DEF ScanKeys
    <3>3. r.time = push[i].time /\ r.at # "snapshot"
      BY <1>1, <3>1 DEF Shaped, PushFields
    <3>4. QED
      BY <3>2, <3>3
  <2>3. CASE ExpireKeys(i)
    <3>1. PICK r : r = [[push[i] EXCEPT !.at = "done"] EXCEPT !.got = <<>>]
      OBVIOUS
    <3>2. push'[i] = r /\ (\A j \in Ids \ {i} : push'[j] = push[j])
      BY <1>1, <2>3, <3>1 DEF ExpireKeys
    <3>3. r.time = push[i].time /\ r.at # "snapshot"
      BY <1>1, <3>1 DEF Shaped, PushFields
    <3>4. QED
      BY <3>2, <3>3
  <2>4. QED
    BY <2>1, <2>2, <2>3
<1>3. \A j \in Ids : TypedPush(push'[j])
  BY <1>2, OneTyped
<1>4. TypedStore'
  BY DEF PushLocalCache, ScanKeys, ExpireKeys, redis, TypedInv, TypedStore
<1>5. TypedRest'
  BY V1Assumption DEF Fault, PushLocalCache, ScanKeys, ExpireKeys, local, TypedInv, TypedRest
<1>6. QED
  BY <1>3, <1>4, <1>5 DEF TypedInv

LEMMA QuietTyped ==
  ASSUME CountInv, FollowInv, TypedInv,
         KeysExpire \/ Polling \/ LockExpires \/ Tick
  PROVE  TypedInv'
<1>1. push' = push
  BY DEF KeysExpire, Polling, ReplayJob, CheckLocalCache, GetCachedMetrics, LockExpires, Tick
<1>2. TypedStore'
  <2>1. CASE KeysExpire
    <3>1. PICK D, K : D = db /\ K = dying /\ TypedDb(Restrict(D, DOMAIN D \ K))
      BY RestrictTyped DEF TypedInv, TypedStore
    <3>2. QED
      BY <2>1, <3>1 DEF KeysExpire, TypedStore
  <2>2. CASE ~KeysExpire
    BY <2>2 DEF Polling, ReplayJob, CheckLocalCache, GetCachedMetrics, LockExpires, Tick, redis,
       TypedInv, TypedStore
  <2>3. QED
    BY <2>1, <2>2
<1>3. TypedRest'
  <2>1. CASE Tick
    <3>1. now + Period \in 0..MaxTime
      <4>1. PICK a, b, p : a = now /\ b = MaxTime /\ p = Period
        OBVIOUS
      <4>2. a \in Nat /\ b \in Nat /\ p \in Nat \ {0} /\ a < b /\ a % p = 0 /\ b % p = 0
        BY <2>1, <4>1, V1Assumption DEF Tick, FollowInv, TypedInv, TypedRest
      <4>3. a + p =< b
        <5>1. a \in Int /\ b \in Int
          BY <4>2
        <5>2. QED
          BY <4>2, <5>1, ModGap
      <4>4. QED
        BY <4>1, <4>2, <4>3
    <3>2. QED
      BY <2>1, <3>1 DEF Tick, local, TypedInv, TypedRest
  <2>2. CASE ~Tick
    <3>1. now' = now /\ faults' = faults
      BY <2>2 DEF KeysExpire, Polling, ReplayJob, CheckLocalCache, GetCachedMetrics, LockExpires
    <3>2. lock' \in BOOLEAN
      <4>1. lock \in BOOLEAN
        BY DEF TypedInv, TypedRest
      <4>2. lock' = lock \/ lock' = TRUE \/ lock' = FALSE
        BY <2>2 DEF KeysExpire, Polling, ReplayJob, CheckLocalCache, GetCachedMetrics, LockExpires,
           RemoveLock, local
      <4>3. QED
        BY <4>1, <4>2
    <3>3. \A j \in Jobs : replay'[j].at \in {"idle", "check", "pop", "popped"}
      <4>1. KeysExpire \/ LockExpires => UNCHANGED replay
        BY DEF KeysExpire, LockExpires, local
      <4>2. ASSUME NEW j \in Jobs, ReplayJob(j) \/ CheckLocalCache(j) \/ GetCachedMetrics(j)
            PROVE  \E x : /\ replay' = [replay EXCEPT ![j] = x]
                          /\ x.at \in {"idle", "check", "pop", "popped"}
        BY <4>2 DEF ReplayJob, CheckLocalCache, GetCachedMetrics, ReplayTo, RemoveLock, NoReplay
      <4>3. CASE Polling
        <5>1. PICK j \in Jobs :
                 \E x : /\ replay' = [replay EXCEPT ![j] = x]
                       /\ x.at \in {"idle", "check", "pop", "popped"}
          BY <4>2, <4>3 DEF Polling
        <5>2. QED
          BY <5>1 DEF TypedInv, TypedRest, CountInv, Waiting
      <4>4. QED
        BY <2>2, <4>1, <4>3 DEF TypedInv, TypedRest
    <3>4. QED
      BY <3>1, <3>2, <3>3 DEF TypedInv, TypedRest
  <2>3. QED
    BY <2>1, <2>2
<1>4. QED
  BY <1>1, <1>2, <1>3 DEF TypedInv

LEMMA ReplayTyped ==
  ASSUME CountInv, FollowInv, TypedInv, Restarting \/ Crash
  PROVE  TypedInv'
<1>1. TypedStore' /\ TypedRest'
  <2>1. TypedStore'
    BY DEF Restarting, PushCachedMetrics, PopFailed, Crash, redis, TypedInv, TypedStore
  <2>2. lock' \in BOOLEAN
    <3>1. lock \in BOOLEAN
      BY DEF TypedInv, TypedRest
    <3>2. lock' = lock \/ lock' = FALSE
      BY DEF Restarting, PushCachedMetrics, PopFailed, Crash, RemoveLock
    <3>3. QED
      BY <3>1, <3>2
  <2>3. \A j \in Jobs : replay'[j].at \in {"idle", "check", "pop", "popped"}
    <3>1. ASSUME NEW j \in Jobs, PushCachedMetrics(j) \/ PopFailed(j)
          PROVE  \E r : replay' = [replay EXCEPT ![j] = r] /\ r.at \in {"pop", "idle"}
      <4>1. \/ replay' = [replay EXCEPT ![j] = NoReplay]
            \/ replay' = [replay EXCEPT ![j] = [at |-> "pop", rounds |-> replay[j].rounds, held |-> <<>>]]
        BY <3>1 DEF PushCachedMetrics, PopFailed, ReplayTo, RemoveLock
      <4>2. CASE replay' = [replay EXCEPT ![j] = NoReplay]
        <5>1. NoReplay.at \in {"pop", "idle"}
          BY DEF NoReplay
        <5>2. QED
          BY <4>2, <5>1
      <4>3. CASE replay' = [replay EXCEPT ![j] = [at |-> "pop", rounds |-> replay[j].rounds, held |-> <<>>]]
        <5>1. [at |-> "pop", rounds |-> replay[j].rounds, held |-> <<>>].at \in {"pop", "idle"}
          OBVIOUS
        <5>2. QED
          BY <4>3, <5>1
      <4>4. QED
        BY <4>1, <4>2, <4>3
    <3>2. CASE Crash
      BY <3>2 DEF Crash, NoReplay
    <3>3. CASE Restarting
      <4>1. PICK j \in Jobs : \E x : replay' = [replay EXCEPT ![j] = x] /\ x.at \in {"pop", "idle"}
        BY <3>1, <3>3 DEF Restarting
      <4>2. QED
        BY <4>1 DEF TypedInv, TypedRest, CountInv, Waiting
    <3>4. QED
      BY <3>2, <3>3
  <2>4. now' \in 0..MaxTime /\ faults' \in 0..MaxFaults
    <3>1. now' = now /\ (faults' = faults \/ Fault)
      BY DEF Restarting, PushCachedMetrics, PopFailed, Crash
    <3>2. QED
      BY <3>1, V1Assumption DEF Fault, TypedInv, TypedRest
  <2>5. QED
    BY <2>1, <2>2, <2>3, <2>4 DEF TypedRest
<1>2. PICK S : \/ Restarted(S) /\ (\A i \in S : push[i].at = "cached")
               \/ Lose(S) /\ (\A i \in S : push[i].at \in InFlight \cup {"cached"})
  BY Restarts
<1>3. ASSUME NEW j \in Ids
      PROVE  TypedPush(push'[j])
  <2>1. Shaped(push[j]) /\ TypedPush(push[j])
    BY DEF CountInv, PushTypes, TypedInv
  <2>2. CASE Restarted(S) /\ \A i \in S : push[i].at = "cached"
    <3>1. push'[j] = IF j \in S THEN Start(push[j].metric, "replay") ELSE push[j]
      BY <2>2 DEF Restarted
    <3>2. CASE j \in S
      <4>1. Sound(push[j].metric)
        BY <2>2, <3>2 DEF FollowInv, Begun
      <4>2. QED
        BY <3>1, <3>2, <4>1, StartTyped
    <3>3. QED
      BY <2>1, <3>1, <3>2
  <2>3. CASE Lose(S)
    <3>1. push'[j] = push[j] \/ push'[j] = [push[j] EXCEPT !.at = "lost"]
      BY <2>3 DEF Lose
    <3>2. CASE push'[j] = [push[j] EXCEPT !.at = "lost"]
      <4>1. push'[j].at = "lost" /\ push'[j].time = push[j].time
        BY <2>1, <3>2 DEF Shaped, PushFields
      <4>2. QED
        BY <2>1, <4>1 DEF TypedPush
    <3>3. QED
      BY <2>1, <3>1, <3>2
  <2>4. QED
    BY <1>2, <2>2, <2>3
<1>4. QED
  BY <1>1, <1>3 DEF TypedInv
-----------------------------------------------------------------------------
\* Commands that may be executed one by one.
Apt(s) == \E C : s \in Seq(C) /\ \A c \in C : Proper(c)

LEMMA AptEmpty == Apt(<<>>)
<1>1. PICK C : C = {}
  OBVIOUS
<1>2. <<>> \in Seq(C) /\ \A c \in C : Proper(c)
  BY <1>1
<1>3. QED
  BY <1>2 DEF Apt

LEMMA UpdatesApt ==
  ASSUME NEW total, IsFiniteSet(DOMAIN total),
         \A r \in DOMAIN total : total[r][1] \in Int /\ total[r][2] \in Int,
         now \in 0..MaxTime, now % Period = 0
  PROVE  Apt(Updates(total))
<1>1. PICK C : Updates(total) \in Seq(C) /\ \A x \in C : Among(total, x)
  BY UpdatesAre
<1>2. getNormalizedTimestamp \in 0..MaxTime
  BY V1Assumption DEF getNormalizedTimestamp
<1>3. ASSUME NEW r, NEW n \in Int, NEW size \in Int, NEW m \in 1..6
      PROVE  Proper(UpdateRedis(r, n, size)[m])
  <2>1. PICK t : t = getNormalizedTimestamp /\ t \in 0..MaxTime
    BY <1>2
  <2>2. PICK a, b : a = <<r, "numberOfObjects">> /\ b = <<r, "storageUtilized">>
    OBVIOUS
  <2>3. a[2] \in StateKeys /\ b[2] \in StateKeys
    BY <2>2 DEF StateKeys
  <2>4. PICK c, d : c = <<r, "numberOfObjectsCounter">> /\ d = <<r, "storageUtilizedCounter">>
    OBVIOUS
  <2>5. c[2] \notin StateKeys /\ d[2] \notin StateKeys
    BY <2>4 DEF StateKeys
  <2>6. UpdateRedis(r, n, size) = << Cmd("zremrangebyscore", a, t), Cmd("zremrangebyscore", b, t),
                                     Cmd("zadd", a, <<t, n>>), Cmd("zadd", b, <<t, size>>),
                                     Cmd("set", c, n), Cmd("set", d, size) >>
    BY <2>1, <2>2, <2>4 DEF UpdateRedis, generateStateKey, generateCounter
  <2>7. Removing(Cmd("zremrangebyscore", a, t)) /\ Removing(Cmd("zremrangebyscore", b, t))
    BY <2>3 DEF Removing, Cmd
  <2>8. Stamping(Cmd("zadd", a, <<t, n>>)) /\ Stamping(Cmd("zadd", b, <<t, size>>))
    BY <2>1, <2>3 DEF Stamping, Cmd
  <2>9. Setting(Cmd("set", c, n)) /\ Setting(Cmd("set", d, size))
    BY <2>5 DEF Setting, Cmd
  <2>10. m = 1 \/ m = 2 \/ m = 3 \/ m = 4 \/ m = 5 \/ m = 6
    OBVIOUS
  <2>11. QED
    BY <2>6, <2>7, <2>8, <2>9, <2>10 DEF Proper
<1>4. ASSUME NEW x \in C
      PROVE  Proper(x)
  <2>1. PICK r \in DOMAIN total, m \in 1..6 : x = UpdateRedis(r, total[r][1], total[r][2])[m]
    BY <1>1 DEF Among
  <2>2. PICK n, size : n = total[r][1] /\ size = total[r][2] /\ n \in Int /\ size \in Int
    OBVIOUS
  <2>3. QED
    BY <1>3, <2>1, <2>2
<1>5. QED
  BY <1>1, <1>4 DEF Apt

\* A page is a sequence, of which some entries count.
LEMMA PageType ==
  ASSUME NEW b, IsFiniteSet(contents[b]), NEW marker
  PROVE  IsSeq(Page(b, marker))
<1>1. PICK rest : rest = {v \in contents[b] : marker = Nil \/ Before(marker, v)}
  OBVIOUS
<1>2. Cardinality(rest) \in Nat
  <2>1. rest \subseteq contents[b]
    BY <1>1
  <2>2. QED
    BY <2>1, FS_Subset, FS_CardinalityType
<1>3. PICK size \in Nat : size = IF Cardinality(rest) < PageSize THEN Cardinality(rest) ELSE PageSize
  BY <1>2, ReindexAssumption
<1> DEFINE Nth(n) == CHOOSE v \in rest : Cardinality({w \in rest : Before(w, v)}) = n - 1
           C == {Nth(n) : n \in 1..size}
<1>4. Page(b, marker) = [n \in 1..size |-> Nth(n)]
  BY <1>1, <1>3 DEF Page
<1>5. \A n \in 1..size : Nth(n) \in C
  OBVIOUS
<1> HIDE DEF Nth, C
<1>6. [n \in 1..size |-> Nth(n)] \in [1..size -> C]
  BY <1>5
<1>7. [n \in 1..size |-> Nth(n)] \in Seq(C)
  BY <1>6
<1>8. QED
  BY <1>4, <1>7 DEF IsSeq

LEMMA CountsType ==
  ASSUME NEW b, NEW page, IsSeq(page), NEW last
  PROVE  Counts(b, page, last) \in Nat
<1>1. DOMAIN page = 1..Len(page) /\ Len(page) \in Nat
  BY DEF IsSeq
<1>2. IsFiniteSet(DOMAIN page)
  BY <1>1, FS_Interval
<1>3. PICK S : S = {n \in DOMAIN page : page[n][1] # (IF n > 1 THEN page[n - 1][1] ELSE last)}
  OBVIOUS
<1>4. Cardinality(S) \in Nat
  BY <1>2, <1>3, FS_Subset, FS_CardinalityType
<1>5. QED
  BY <1>1, <1>3, <1>4 DEF Counts
-----------------------------------------------------------------------------
\* The types of the job.
WorkerTyped(w) ==
  /\ w.at \in {"none", "list", "uploads", "counted", "failed"}
  /\ w.count \in Int /\ w.size \in Int /\ (w.page = Nil \/ IsSeq(w.page))
JobTypes ==
  /\ exists \subseteq Buckets
  /\ DOMAIN contents = Buckets /\ \A b \in Buckets : IsFiniteSet(contents[b])
  /\ job.left \in 0..Sentinels /\ reindexLock \in BOOLEAN
  /\ \A b \in Buckets : WorkerTyped(worker[b])
  /\ Apt(pipeline)

LEMMA ListingTyped ==
  ASSUME JobInv, JobTypes, NEW b \in Buckets,
         ListBucket(b) \/ CountUploads(b) \/ ListingFailed(b) \/ OddStatus(b)
  PROVE  JobTypes'
<1>1. UNCHANGED <<exists, contents, job, pipeline, reindexLock>>
  BY DEF ListBucket, CountUploads, ListingFailed, OddStatus, RedisUnchanged, ScriptFault
<1>2. PICK w : w = worker[b] /\ DOMAIN w = WorkerFields /\ WorkerTyped(w) /\ DOMAIN worker = Buckets
  BY DEF JobInv, JobTypes
<1>3. \E r : /\ worker'[b] = r /\ WorkerTyped(r)
             /\ \A x \in Buckets \ {b} : worker'[x] = worker[x]
  <2>1. CASE ListBucket(b)
    <3>1. PICK page : page = Page(b, w.marker) /\ IsSeq(page)
      BY PageType DEF JobTypes
    <3>2. PICK n \in Nat : n = Counts(b, page, LastKey(w))
      BY <3>1, CountsType
    <3>3. PICK r : r = Summed(b, page)
      OBVIOUS
    <3>4. /\ r.at \in {"list", "uploads"} /\ r.page = page
          /\ r.count = w.count + n /\ r.size = w.size + n
      BY <1>2, <3>2, <3>3 DEF Summed, WorkerFields
    <3>5. worker' = [worker EXCEPT ![b] = r]
      BY <1>2, <2>1, <3>1, <3>3 DEF ListBucket
    <3>6. WorkerTyped(r)
      BY <1>2, <3>1, <3>4 DEF WorkerTyped
    <3>7. QED
      BY <1>2, <3>5, <3>6
  <2>2. CASE CountUploads(b)
    <3>1. PICK r : r = [[w EXCEPT !.size = @ + Uploads[b]] EXCEPT !.at = "counted"]
      OBVIOUS
    <3>2. worker'[b] = r /\ \A x \in Buckets \ {b} : worker'[x] = worker[x]
      BY <1>2, <2>2, <3>1 DEF CountUploads
    <3>3. r.at = "counted" /\ r.page = w.page /\ r.count = w.count /\ r.size = w.size + Uploads[b]
      BY <1>2, <3>1 DEF WorkerFields
    <3>4. Uploads[b] \in Int
      BY ReindexAssumption
    <3>5. WorkerTyped(r)
      BY <1>2, <3>3, <3>4 DEF WorkerTyped
    <3>6. QED
      BY <3>2, <3>5
  <2>3. CASE ListingFailed(b)
    <3>1. PICK r : r = [NoWorker EXCEPT !.at = "failed"]
      OBVIOUS
    <3>2. worker'[b] = r /\ \A x \in Buckets \ {b} : worker'[x] = worker[x]
      BY <1>2, <2>3, <3>1 DEF ListingFailed, FailBucket
    <3>3. WorkerTyped(r)
      BY <3>1 DEF NoWorker, WorkerTyped
    <3>4. QED
      BY <3>2, <3>3
  <2>4. CASE OddStatus(b)
    <3>1. IsSeq(w.page)
      BY <1>2, <2>4 DEF OddStatus, WorkerTyped
    <3>2. PICK n \in Nat : n = Counts(b, w.page, LastKey(w))
      BY <3>1, CountsType
    <3>3. PICK r : r = [[w EXCEPT !.count = @ + n] EXCEPT !.size = @ + n]
      OBVIOUS
    <3>4. worker'[b] = r /\ \A x \in Buckets \ {b} : worker'[x] = worker[x]
      BY <1>2, <2>4, <3>2, <3>3 DEF OddStatus
    <3>5. r.at = w.at /\ r.page = w.page /\ r.count = w.count + n /\ r.size = w.size + n
      BY <1>2, <3>3 DEF WorkerFields
    <3>6. WorkerTyped(r)
      BY <1>2, <3>5 DEF WorkerTyped
    <3>7. QED
      BY <3>4, <3>6
  <2>5. QED
    BY <2>1, <2>2, <2>3, <2>4
<1>4. \A x \in Buckets : WorkerTyped(worker'[x])
  BY <1>3 DEF JobTypes
<1>5. QED
  BY <1>1, <1>4 DEF JobTypes

LEMMA StageTyped ==
  ASSUME JobInv, JobTypes, FollowInv, TypedInv, NEW stage, NEW from, NEW total,
         StageTo(stage, from, Updates(total)), IsFiniteSet(DOMAIN total),
         \A r \in DOMAIN total : total[r][1] \in Int /\ total[r][2] \in Int
  PROVE  JobTypes'
<1>1. now \in 0..MaxTime /\ now % Period = 0
  BY DEF FollowInv, TypedInv, TypedRest
<1>2. Apt(Updates(total))
  BY <1>1, UpdatesApt
<1>3. /\ pipeline' = Updates(total) /\ job' = [job EXCEPT !.at = stage]
      /\ UNCHANGED <<contents, exists, worker, reindexLock>>
  BY DEF StageTo, RedisUnchanged
<1>4. job'.left = job.left
  BY <1>3 DEF JobInv
<1>5. QED
  BY <1>2, <1>3, <1>4 DEF JobTypes

LEMMA StagesTyped ==
  ASSUME JobInv, JobTypes, FollowInv, TypedInv,
         UpdateBuckets \/ ClearBuckets \/ UpdateAccounts \/ ClearAccounts
  PROVE  JobTypes'
<1>1. \A A \in SUBSET Buckets : IsFiniteSet(A)
  BY ReindexAssumption, FS_Subset
<1>2. \A A \in SUBSET Accounts : IsFiniteSet(A)
  <2> DEFINE o == [b \in Buckets |-> Owner[b]]
  <2>1. o \in Surjection(Buckets, Accounts)
    BY DEF Surjection, Accounts
  <2> HIDE DEF o
  <2>2. IsFiniteSet(Accounts)
    BY <2>1, ReindexAssumption, FS_Surjection
  <2>3. QED
    BY <2>2, FS_Subset
<1>3. \A b \in Buckets : worker[b].count \in Int /\ worker[b].size \in Int
  BY DEF JobTypes, WorkerTyped
<1>4. CASE UpdateBuckets
  <2> DEFINE A == {x \in Buckets : worker[x].at = "counted"}
             total == [b \in A |-> <<worker[b].count, worker[b].size>>]
  <2>1. StageTo("buckets", "count", Updates(total))
    BY <1>4 DEF UpdateBuckets
  <2>2. /\ DOMAIN total \in SUBSET Buckets
        /\ \A r \in DOMAIN total : total[r][1] \in Int /\ total[r][2] \in Int
    BY <1>3
  <2> HIDE DEF total
  <2>3. QED
    BY <1>1, <2>1, <2>2, StageTyped
<1>5. CASE ClearBuckets
  <2> DEFINE A == Recorded(Buckets) \ Observed
             total == [r \in A |-> <<0, 0>>]
  <2>1. StageTo("stale", "buckets", Updates(total))
    BY <1>5 DEF ClearBuckets, ClearAll
  <2>2. /\ DOMAIN total \in SUBSET Buckets
        /\ \A r \in DOMAIN total : total[r][1] \in Int /\ total[r][2] \in Int
    BY DEF Recorded
  <2> HIDE DEF total
  <2>3. QED
    BY <1>1, <2>1, <2>2, StageTyped
<1>6. CASE UpdateAccounts
  <2> DEFINE A == {x \in Accounts : Reported(x) # {}} \ FailedAccounts
             counts == [b \in Buckets |-> worker[b].count]
             sizes == [b \in Buckets |-> worker[b].size]
             total == [a \in A |-> << SumOver(counts, Reported(a)), SumOver(sizes, Reported(a)) >>]
  <2>1. StageTo("accounts", "stale", Updates(total))
    BY <1>6 DEF UpdateAccounts
  <2>2. DOMAIN total \in SUBSET Accounts
    OBVIOUS
  <2>3. ASSUME NEW r \in DOMAIN total
        PROVE  total[r][1] \in Int /\ total[r][2] \in Int
    <3>1. PICK S, f, g : S = Reported(r) /\ f = counts /\ g = sizes
      OBVIOUS
    <3>2. S \in SUBSET Buckets
      BY <3>1 DEF Reported
    <3>3. (\A x \in S : f[x] \in Int) /\ \A x \in S : g[x] \in Int
      BY <1>3, <3>1, <3>2
    <3>4. SumOver(f, S) \in Int /\ SumOver(g, S) \in Int
      BY <1>1, <3>2, <3>3, SumType
    <3>5. total[r] = <<SumOver(f, S), SumOver(g, S)>>
      BY <3>1
    <3>6. QED
      BY <3>4, <3>5
  <2> HIDE DEF total
  <2>4. QED
    BY <1>2, <2>1, <2>2, <2>3, StageTyped
<1>7. CASE ClearAccounts
  <2> DEFINE A == StaleAccounts
             total == [r \in A |-> <<0, 0>>]
  <2>1. StageTo("end", "accounts", Updates(total))
    BY <1>7 DEF ClearAccounts, ClearAll
  <2>2. /\ DOMAIN total \in SUBSET Accounts
        /\ \A r \in DOMAIN total : total[r][1] \in Int /\ total[r][2] \in Int
    BY DEF StaleAccounts, Recorded
  <2> HIDE DEF total
  <2>3. QED
    BY <1>2, <2>1, <2>2, StageTyped
<1>8. QED
  BY <1>4, <1>5, <1>6, <1>7

\* The other steps of the job.
LEMMA LockTyped ==
  ASSUME JobInv, JobTypes, ScheduleJob \/ SentinelDown \/ ScriptFails \/ ReindexLockExpires
  PROVE  JobTypes'
<1>1. UNCHANGED <<contents, exists, worker, pipeline>>
  BY DEF ScheduleJob, SentinelDown, ScriptFails, ReindexLockExpires, ScriptFault, RedisUnchanged
<1>2. reindexLock' \in BOOLEAN
  <2>1. reindexLock' = reindexLock \/ reindexLock' = TRUE \/ reindexLock' = FALSE
    BY DEF ScheduleJob, SentinelDown, ScriptFails, ReindexLockExpires, JobEnds
  <2>2. reindexLock \in BOOLEAN
    BY DEF JobTypes
  <2>3. QED
    BY <2>1, <2>2
<1>3. job'.left \in 0..Sentinels
  <2>1. job.left \in 0..Sentinels /\ Sentinels \in Nat /\ DOMAIN job = {"at", "left"}
    BY ReindexAssumption DEF JobInv, JobTypes
  <2>2. CASE ScheduleJob
    BY <2>1, <2>2 DEF ScheduleJob
  <2>3. CASE SentinelDown \/ ScriptFails
    <3>1. \/ job.left > 1 /\ job' = [job EXCEPT !.left = @ - 1]
          \/ job' = Idle
      BY <2>3 DEF SentinelDown, ScriptFails, JobEnds
    <3>2. QED
      BY <2>1, <3>1 DEF Idle
  <2>4. CASE ReindexLockExpires
    BY <2>1, <2>4 DEF ReindexLockExpires
  <2>5. QED
    BY <2>2, <2>3, <2>4
<1>4. QED
  BY <1>1, <1>2, <1>3 DEF JobTypes

LEMMA EndsTyped ==
  ASSUME JobInv, JobTypes, ReindexCrash \/ FinishJob
  PROVE  JobTypes'
<1>1. /\ job' = Idle /\ worker' = [b \in Buckets |-> NoWorker] /\ pipeline' = <<>>
      /\ UNCHANGED <<contents, exists>>
  BY DEF ReindexCrash, FinishJob, JobEnds, ScriptFault, RedisUnchanged
<1>2. reindexLock' \in BOOLEAN
  <2>1. reindexLock' = reindexLock \/ reindexLock' = FALSE
    BY DEF ReindexCrash, FinishJob, JobEnds
  <2>2. reindexLock \in BOOLEAN
    BY DEF JobTypes
  <2>3. QED
    BY <2>1, <2>2
<1>3. WorkerTyped(NoWorker)
  BY DEF WorkerTyped, NoWorker
<1>4. job'.left \in 0..Sentinels
  BY <1>1, ReindexAssumption DEF Idle
<1>5. QED
  BY <1>1, <1>2, <1>3, <1>4, AptEmpty DEF JobTypes

LEMMA ListBucketsTyped ==
  ASSUME JobInv, JobTypes, ListBuckets
  PROVE  JobTypes'
<1>1. /\ job' = [at |-> "count", left |-> 0] /\ UNCHANGED <<contents, exists, pipeline, reindexLock>>
      /\ worker' = [b \in Buckets |-> IF b \in exists THEN [NoWorker EXCEPT !.at = "list"] ELSE NoWorker]
  BY DEF ListBuckets, RedisUnchanged
<1>2. WorkerTyped(NoWorker) /\ WorkerTyped([NoWorker EXCEPT !.at = "list"])
  BY DEF WorkerTyped, NoWorker
<1>3. \A b \in Buckets : WorkerTyped(worker'[b])
  BY <1>1, <1>2
<1>4. job'.left \in 0..Sentinels
  BY <1>1, ReindexAssumption
<1>5. QED
  BY <1>1, <1>3, <1>4 DEF JobTypes

LEMMA ExecuteTyped ==
  ASSUME JobInv, JobTypes, TypedInv, Execute
  PROVE  JobTypes' /\ TypedInv'
<1>1. PICK C : pipeline \in Seq(C) /\ \A c \in C : Proper(c)
  BY DEF JobTypes, Apt
<1>2. PICK c, D : c = Head(pipeline) /\ D = db
  OBVIOUS
<1>3. c \in C /\ Tail(pipeline) \in Seq(C)
  BY <1>1, <1>2 DEF Execute
<1>4. Apt(pipeline')
  BY <1>1, <1>3 DEF Apt, Execute
<1>5. db' = Effect(D, c) /\ dying' = dying \ Persisted(D, <<c>>)
  BY <1>2 DEF Execute
<1>6. JobTypes'
  BY <1>4 DEF Execute, JobTypes
<1>7. TypedDb(D) /\ dying \subseteq DOMAIN D
  BY <1>2 DEF TypedInv, TypedStore
<1>8. TypedDb(Effect(D, c)) /\ DOMAIN D \ {c.key} \subseteq DOMAIN Effect(D, c)
  BY <1>1, <1>3, <1>7, EffectTyped
<1>9. c.key \notin DOMAIN Effect(D, c) => c.key \in Persisted(D, <<c>>)
  <2>1. c \in ToSet(<<c>>)
    BY DEF ToSet
  <2>2. QED
    BY <2>1 DEF Persisted
<1>10. TypedStore'
  BY <1>5, <1>7, <1>8, <1>9 DEF TypedStore
<1>11. TypedRest'
  BY DEF Execute, TypedInv, TypedRest, local
<1>12. QED
  BY <1>6, <1>10, <1>11 DEF Execute, TypedInv

\* The job leaves the clients alone but for its commands, and its faults are bounded.
LEMMA RestTyped ==
  ASSUME TypedInv, UNCHANGED <<db, dying, push, lock, replay, now>>,
         UNCHANGED faults \/ (faults < MaxFaults /\ faults' = faults + 1)
  PROVE  TypedInv'
<1>1. faults' \in 0..MaxFaults
  BY V1Assumption DEF TypedInv, TypedRest
<1>2. QED
  BY <1>1 DEF TypedInv, TypedRest, TypedStore

LEMMA ScriptTyped ==
  ASSUME TypedInv, RedisUnchanged \/ ScriptFault
  PROVE  TypedInv'
BY RestTyped DEF RedisUnchanged, ScriptFault, v1vars, redis, local

\* The service changes a bucket and pushes the metric.
LEMMA ServedTyped ==
  ASSUME JobInv, JobTypes, NEW i \in Ids, NEW x \in Changes,
         PutVersion(i, x[1], x[2]) \/ DeleteVersion(i, x[1], x[2])
  PROVE  JobTypes'
<1>1. PICK b, v : b = x[1] /\ v = x[2] /\ b \in Buckets
  BY ReindexAssumption
<1>2. UNCHANGED <<job, worker, failed, pipeline, reindexLock>>
  BY DEF PutVersion, DeleteVersion, script
<1>3. exists' \subseteq Buckets
  BY <1>1 DEF PutVersion, DeleteVersion, JobTypes
<1>4. PICK S \in {contents[b] \cup {v}, contents[b] \ {v}} : contents' = [contents EXCEPT ![b] = S]
  BY <1>1 DEF PutVersion, DeleteVersion
<1>5. IsFiniteSet(S)
  <2>1. PICK T : T = contents[b] /\ IsFiniteSet(T)
    BY <1>1 DEF JobTypes
  <2>2. IsFiniteSet(T \cup {v}) /\ IsFiniteSet(T \ {v})
    BY <2>1, FS_AddElement, FS_Subset
  <2>3. QED
    BY <1>4, <2>1, <2>2
<1>6. DOMAIN contents' = Buckets /\ \A y \in Buckets : IsFiniteSet(contents'[y])
  BY <1>4, <1>5 DEF JobTypes
<1>7. QED
  BY <1>2, <1>3, <1>6 DEF JobTypes
-----------------------------------------------------------------------------
LEMMA ProceedTyped ==
  ASSUME CountInv, FollowInv, TypedInv, NEW i \in Ids, Proceed(i)
  PROVE  TypedInv'
<1>1. CASE BatchDone(i)
  <2>1. push[i].at = "batch" /\ Count(i, {}) /\ UNCHANGED faults
    BY <1>1 DEF BatchDone
  <2>2. QED
    BY <2>1, CountTyped
<1>2. QED
  BY <1>1, StoreTyped, LaterTyped DEF Proceed

LEMMA CommandFailedTyped ==
  ASSUME CountInv, FollowInv, TypedInv, NEW i \in Ids, CommandFailed(i)
  PROVE  TypedInv'
<1>1. PICK lost : Count(i, lost) /\ push[i].at = "batch" /\ Fault
  BY DEF CommandFailed
<1>2. QED
  BY <1>1, CountTyped

TypesInv == CountInv /\ FollowInv /\ JobInv /\ TypedInv /\ JobTypes

LEMMA ClientTyped ==
  ASSUME TypesInv, ClientNext, UNCHANGED reindexing
  PROVE  TypedInv' /\ JobTypes'
<1>1. JobTypes'
  BY DEF TypesInv, JobTypes, reindexing
<1>2. \A i \in Ids, m \in Metrics : pushMetric(i, m) => TypedInv'
  BY PushedSound, PushTyped DEF TypesInv
<1>3. \A i \in Ids : Proceed(i) \/ CommandFailed(i) \/ BatchFailed(i) => TypedInv'
  BY ProceedTyped, CommandFailedTyped, BatchFailedTyped DEF TypesInv
<1>4. KeysExpire \/ Polling \/ Restarting \/ Crash \/ LockExpires \/ Tick => TypedInv'
  BY QuietTyped, ReplayTyped DEF TypesInv
<1>5. QED
  BY <1>1, <1>2, <1>3, <1>4 DEF ClientNext, Replaying, Polling, Restarting

LEMMA ScriptsTyped ==
  ASSUME TypesInv, Working \/ Failing
  PROVE  TypedInv' /\ JobTypes'
<1>1. CASE Execute
  BY <1>1, ExecuteTyped DEF TypesInv
<1>2. ASSUME NEW b \in Buckets, ListBucket(b) \/ CountUploads(b) \/ ListingFailed(b) \/ OddStatus(b)
      PROVE  TypedInv' /\ JobTypes'
  <2>1. RedisUnchanged \/ ScriptFault
    BY <1>2 DEF ListBucket, CountUploads, ListingFailed, OddStatus
  <2>2. QED
    BY <1>2, <2>1, ScriptTyped, ListingTyped DEF TypesInv
<1>3. CASE ScheduleJob \/ SentinelDown \/ ScriptFails \/ ReindexLockExpires
  <2>1. RedisUnchanged \/ ScriptFault
    BY <1>3 DEF ScheduleJob, SentinelDown, ScriptFails, ReindexLockExpires
  <2>2. QED
    BY <1>3, <2>1, ScriptTyped, LockTyped DEF TypesInv
<1>4. CASE ReindexCrash \/ FinishJob \/ ListBuckets
  <2>1. RedisUnchanged \/ ScriptFault
    BY <1>4 DEF ReindexCrash, FinishJob, ListBuckets
  <2>2. QED
    BY <1>4, <2>1, ScriptTyped, EndsTyped, ListBucketsTyped DEF TypesInv
<1>5. CASE UpdateBuckets \/ ClearBuckets \/ UpdateAccounts \/ ClearAccounts
  <2>1. RedisUnchanged
    BY <1>5 DEF UpdateBuckets, ClearBuckets, UpdateAccounts, ClearAccounts, StageTo
  <2>2. QED
    BY <1>5, <2>1, ScriptTyped, StagesTyped DEF TypesInv
<1>6. QED
  BY <1>1, <1>2, <1>3, <1>4, <1>5 DEF Working, Failing

LEMMA TypesNext ==
  ASSUME TypesInv, [V1Next]_allvars
  PROVE  TypesInv'
<1>1. CountInv' /\ FollowInv' /\ JobInv'
  BY CountNext, FollowNext, JobNext DEF TypesInv
<1>2. TypedInv' /\ JobTypes'
  <2>1. CASE ClientNext /\ UNCHANGED reindexing
    BY <2>1, ClientTyped
  <2>2. CASE Working \/ Failing
    BY <2>2, ScriptsTyped
  <2>3. CASE Serving
    <3>1. ASSUME NEW i \in Ids, NEW x \in Changes, PutVersion(i, x[1], x[2]) \/ DeleteVersion(i, x[1], x[2])
          PROVE  TypedInv' /\ JobTypes'
      <4>1. PICK m : pushMetric(i, m) /\ Sound(m)
        BY <3>1, PushedSound DEF PutVersion, DeleteVersion
      <4>2. QED
        BY <3>1, <4>1, PushTyped, ServedTyped DEF TypesInv
    <3>2. ASSUME NEW i \in Ids, Proceed(i), UNCHANGED reindexing
          PROVE  TypedInv' /\ JobTypes'
      BY <3>2, ProceedTyped DEF TypesInv, JobTypes, reindexing
    <3>3. QED
      BY <2>3, <3>1, <3>2 DEF Serving
  <2>4. CASE UNCHANGED allvars
    BY <2>4 DEF TypesInv, TypedInv, TypedStore, TypedRest, JobTypes, allvars, v1vars, redis, local, reindexing
  <2>5. QED
    BY <2>1, <2>2, <2>3, <2>4 DEF V1Next, ReindexNext
<1>3. QED
  BY <1>1, <1>2 DEF TypesInv

LEMMA TypesInit == Init /\ ReindexInit /\ exists = {} /\ contents = [b \in Buckets |-> {}] => TypesInv
<1> SUFFICES ASSUME Init, ReindexInit, exists = {}, contents = [b \in Buckets |-> {}]
             PROVE  TypesInv
  OBVIOUS
<1>1. TypedStore
  BY DEF Init, TypedStore, TypedDb
<1>2. TypedRest
  <2>1. now \in 0..MaxTime /\ faults \in 0..MaxFaults
    BY V1Assumption DEF Init
  <2>2. lock \in BOOLEAN
    BY DEF Init
  <2>3. QED
    BY <2>1, <2>2 DEF Init, NoReplay, TypedRest
<1>3. \A i \in Ids : TypedPush(push[i])
  BY V1Assumption DEF Init, NewPush, TypedPush
<1>4. WorkerTyped(NoWorker)
  BY DEF WorkerTyped, NoWorker
<1>5. \A b \in Buckets : IsFiniteSet(contents[b])
  BY FS_EmptySet
<1>6. Apt(pipeline)
  BY AptEmpty DEF ReindexInit
<1>7. JobTypes
  <2>1. job.left \in 0..Sentinels
    BY ReindexAssumption DEF ReindexInit, Idle
  <2>2. reindexLock \in BOOLEAN
    BY DEF ReindexInit
  <2>3. \A b \in Buckets : WorkerTyped(worker[b])
    BY <1>4 DEF ReindexInit
  <2>4. QED
    BY <1>5, <1>6, <2>1, <2>2, <2>3 DEF JobTypes
<1>8. QED
  BY <1>1, <1>2, <1>3, <1>7, CountInit, FollowInit, JobInit DEF TypesInv, TypedInv

LEMMA TypesAre ==
  ASSUME TypesInv
  PROVE  V1TypeOK
<1>1. \A i \in Ids : push[i].at \in InFlight \cup {"new", "cached", "done", "lost"}
  BY DEF TypesInv, CountInv, PushTypes, Shaped, Stages
<1>2. ToSet(list) \subseteq {i \in Ids : push[i].at = "cached"}
  BY DEF ToSet, TypesInv, CountInv, Waiting
<1>3. /\ \A k \in DOMAIN db : IF k[2] \in StateKeys
                              THEN \A e \in db[k] : e[1] \in 0..MaxTime /\ e[2] \in Int \cup {NaN}
                              ELSE db[k] \in Int
      /\ dying \subseteq DOMAIN db
  BY DEF TypesInv, TypedInv, TypedStore, TypedDb
<1>4. TypeOK
  BY <1>1, <1>2, <1>3 DEF TypesInv, TypedInv, TypedRest, TypeOK
<1>5. job.at \in {"idle", "connect", "count", "buckets", "stale", "accounts", "end"}
  BY DEF TypesInv, JobInv, Early, Late
<1>6. ReindexTypeOK
  BY <1>5 DEF TypesInv, JobInv, JobTypes, WorkerTyped, ReindexTypeOK
<1>7. QED
  BY <1>4, <1>6 DEF V1TypeOK

\* Whatever the commands of clients, of their replay and of the reindex meet in
\* Redis, its counters stay numbers and its snapshots values of a period, and the
\* lists, locks and stages beside them are what the code expects.
THEOREM V1TypesCorrect == V1Spec => []V1TypeOK
<1>1. TypesInv /\ [V1Next]_allvars => TypesInv'
  BY TypesNext
<1>2. TypesInv => V1TypeOK
  BY TypesAre
<1>3. QED
  BY TypesInit, <1>1, <1>2, PTL DEF V1Spec, V1Next
=============================================================================
