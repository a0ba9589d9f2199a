-------------------------- MODULE MaterializeProofs --------------------------
(* Theorems about Materialize, for any datasets, requests, threads and      *)
(* servers.                                                                 *)
EXTENDS Materialize, TLAPS

Ops == [op : OpNames, key : Keys]

(* After a "send" comes its "sent", which follows nothing else.             *)
Paced(s) ==
  \A i \in DOMAIN s :
    /\ s[i].op = "sent" => i = 1 \/ s[i - 1].op = "send"
    /\ s[i].op = "send" => i + 1 \in DOMAIN s /\ s[i + 1].op = "sent"
(* A plan is a sequence of operations that completes no creation: what a    *)
(* request and a create_function() are made of.                             *)
Plans ==
  {s \in Seq(Ops) : Paced(s) /\ \A i \in DOMAIN s : s[i].op # "made" /\ (s[i].op = "sent" => i # 1)}

LEMMA KeysTyped ==
  /\ UserData \in Keys
  /\ \A d \in Datasets : {Raw(d), Csv(d), Format(d), AugPosted(d)} \subseteq Keys
  /\ \A d \in Datasets, e \in DataIds : AugDataset(d, e) \in Keys
BY DEF Keys

LEMMA OpTyped ==
  ASSUME NEW name \in OpNames, NEW key \in Keys
  PROVE  Op(name, key) \in Seq(Ops) /\ (name \notin {"made", "send", "sent"} => Op(name, key) \in Plans)
BY DEF Op, Ops, Plans, Paced

LEMMA PacedJoined ==
  ASSUME NEW s \in Seq(Ops), NEW t \in Seq(Ops), Paced(s), Paced(t), t # <<>> => t[1].op # "sent"
  PROVE  Paced(s \o t)
<1> DEFINE u == s \o t
<1>1. /\ Len(s) \in Nat /\ Len(t) \in Nat
      /\ DOMAIN s = 1 .. Len(s) /\ DOMAIN t = 1 .. Len(t) /\ DOMAIN u = 1 .. Len(s) + Len(t)
      /\ \A i \in 1 .. Len(s) : u[i] = s[i]
      /\ \A i \in 1 .. Len(t) : u[i + Len(s)] = t[i]
  OBVIOUS
<1> HIDE DEF u
<1>2. ASSUME NEW i \in DOMAIN u, i <= Len(s)
      PROVE  /\ u[i].op = "sent" => i = 1 \/ u[i - 1].op = "send"
             /\ u[i].op = "send" => i + 1 \in DOMAIN u /\ u[i + 1].op = "sent"
  <2>1. i \in DOMAIN s /\ u[i] = s[i] /\ (i # 1 => u[i - 1] = s[i - 1])
    BY <1>1, <1>2
  <2>2. i + 1 \in DOMAIN s => i + 1 \in DOMAIN u /\ u[i + 1] = s[i + 1]
    BY <1>1
  <2> QED BY <2>1, <2>2 DEF Paced
<1>3. ASSUME NEW i \in DOMAIN u, ~(i <= Len(s))
      PROVE  /\ u[i].op = "sent" => i = 1 \/ u[i - 1].op = "send"
             /\ u[i].op = "send" => i + 1 \in DOMAIN u /\ u[i + 1].op = "sent"
  <2>1. PICK j \in DOMAIN t : i = j + Len(s)
    <3>1. i - Len(s) \in DOMAIN t /\ (i - Len(s)) + Len(s) = i
      BY <1>1, <1>3
    <3> QED BY <3>1
  <2>2. u[i] = t[j] /\ t # <<>>
    BY <1>1, <2>1
  <2>3. j # 1 => i - 1 = (j - 1) + Len(s) /\ j - 1 \in DOMAIN t /\ u[i - 1] = t[j - 1]
    <3>1. j \in Nat \ {0} /\ j <= Len(t) /\ Len(s) \in Nat /\ Len(t) \in Nat
      BY <1>1
    <3>2. i - 1 = (j - 1) + Len(s) /\ (j # 1 => j - 1 \in 1 .. Len(t))
      BY <2>1, <3>1
    <3> QED BY <1>1, <3>2
  <2>4. j + 1 \in DOMAIN t => i + 1 = (j + 1) + Len(s) /\ i + 1 \in DOMAIN u /\ u[i + 1] = t[j + 1]
    <3>1. i + 1 = (j + 1) + Len(s)
      BY <1>1, <2>1
    <3> QED BY <1>1, <3>1
  <2> QED BY <2>1, <2>2, <2>3, <2>4 DEF Paced
<1>4. Paced(u)
  BY <1>2, <1>3 DEF Paced
<1> QED BY <1>4 DEF u

LEMMA Joined ==
  ASSUME NEW s \in Plans, NEW t \in Plans
  PROVE  s \o t \in Plans
<1>1. s \in Seq(Ops) /\ t \in Seq(Ops) /\ s \o t \in Seq(Ops)
  BY DEF Plans
<1>2. ASSUME NEW i \in DOMAIN (s \o t)
      PROVE  (s \o t)[i].op # "made" /\ ((s \o t)[i].op = "sent" => i # 1)
  <2>1. CASE i \in DOMAIN s
    BY <1>1, <2>1 DEF Plans
  <2>2. CASE i \notin DOMAIN s
    <3>1. i - Len(s) \in DOMAIN t /\ (s \o t)[i] = t[i - Len(s)] /\ (i = 1 => i - Len(s) = 1)
      BY <1>1, <2>2
    <3> QED BY <3>1 DEF Plans
  <2> QED BY <2>1, <2>2
<1>3. Paced(s \o t)
  <2>1. Paced(s) /\ Paced(t) /\ (t # <<>> => 1 \in DOMAIN t)
    BY <1>1 DEF Plans
  <2> QED BY <1>1, <2>1, PacedJoined DEF Plans
<1> QED BY <1>1, <1>2, <1>3 DEF Plans

LEMMA EmptyPlan == <<>> \in Plans
BY DEF Plans, Paced

LEMMA CsvPlan ==
  ASSUME NEW d \in Datasets, NEW body \in Plans
  PROVE  WithCsv(d, body) \in Plans
<1>1. Op("get", Csv(d)) \in Plans /\ Op("drop", Csv(d)) \in Plans
  BY KeysTyped, OpTyped DEF OpNames
<1> QED BY <1>1, Joined DEF WithCsv
LEMMA SendPlan ==
  ASSUME NEW key \in Keys
  PROVE  Send(key) \in Plans /\ Augment(key) \in Plans /\ AugmentResult(key) \in Plans
<1>1. Op("get", key) \in Plans /\ Op("peek", key) \in Plans /\ Op("drop", key) \in Plans
  BY OpTyped DEF OpNames
<1>2. Send(key) \in Plans
  <2> DEFINE a == [op |-> "send", key |-> key]
             b == [op |-> "sent", key |-> key]
           u == <<a>> \o <<b>>
  <2>1. Send(key) = u /\ a \in Ops /\ b \in Ops /\ a.op = "send" /\ b.op = "sent"
    BY DEF Send, Op, Ops, OpNames
  <2> HIDE DEF a, b
  <2>2. <<a>> \in Seq(Ops) /\ <<b>> \in Seq(Ops) /\ Len(<<a>>) = 1 /\ Len(<<b>>) = 1
    BY <2>1
  <2>3. u \in Seq(Ops) /\ DOMAIN u = {1, 2} /\ u[1] = a /\ u[2] = b
    BY <2>1, <2>2
  <2> HIDE DEF u
  <2> QED BY <2>1, <2>3 DEF Plans, Paced
<1>3. (Op("get", key) \o Send(key)) \o Op("drop", key) \in Plans
  BY <1>1, <1>2, Joined
<1>4. (Op("peek", key) \o Send(key)) \o Op("drop", key) \in Plans
  BY <1>1, <1>2, Joined
<1> QED BY <1>2, <1>3, <1>4 DEF Augment, AugmentResult

LEMMA PostPlan == PostData \in Plans
<1>1. Op("get", UserData) \in Plans /\ Op("drop", UserData) \in Plans
  BY KeysTyped, OpTyped DEF OpNames
<1> QED BY <1>1, Joined DEF PostData

LEMMA ProfilePlan ==
  ASSUME NEW d \in Datasets
  PROVE  Profile(d) \in Plans
<1> DEFINE convert == IF d \in Converted
                      THEN Op("get", Csv(d)) \o Op("work", Csv(d)) \o Op("drop", Csv(d))
                      ELSE Op("work", Csv(d))
<1>1. /\ Op("get", Csv(d)) \in Plans /\ Op("work", Csv(d)) \in Plans
      /\ Op("drop", Csv(d)) \in Plans
      /\ Op("get", Raw(d)) \in Plans /\ Op("drop", Raw(d)) \in Plans
  BY KeysTyped, OpTyped DEF OpNames
<1>2. convert \in Plans
  <2>1. (Op("get", Csv(d)) \o Op("work", Csv(d))) \o Op("drop", Csv(d)) \in Plans
    BY <1>1, Joined
  <2> QED BY <1>1, <2>1
<1>3. (Op("get", Raw(d)) \o convert) \o Op("drop", Raw(d)) \in Plans
  <2> HIDE DEF convert
  <2> QED BY <1>1, <1>2, Joined
<1> QED BY <1>2, <1>3 DEF Profile

LEMMA ServePlan ==
  ASSUME NEW d \in Datasets, NEW endpoint \in {"download", "augment", "result"}
  PROVE  Serve(endpoint, d) \subseteq Plans
<1>1. /\ Csv(d) \in Keys /\ Format(d) \in Keys /\ AugPosted(d) \in Keys /\ UserData \in Keys
      /\ \A e \in DataIds : AugDataset(d, e) \in Keys
  BY KeysTyped
<1>2. Op("get", Format(d)) \in Plans /\ Op("drop", Format(d)) \in Plans
      /\ Op("peek", UserData) \in Plans /\ Op("drop", UserData) \in Plans
  BY <1>1, OpTyped DEF OpNames
<1>3. Download(d) \in Plans
  BY <1>1, SendPlan, CsvPlan DEF Download
<1>4. DownloadAs(d) \in Plans
  <2>1. WithCsv(d, Op("get", Format(d))) \in Plans /\ Send(Format(d)) \in Plans
    BY <1>1, <1>2, SendPlan, CsvPlan
  <2>2. (WithCsv(d, Op("get", Format(d))) \o Send(Format(d))) \o Op("drop", Format(d)) \in Plans
    BY <1>2, <2>1, Joined
  <2> QED BY <2>2 DEF DownloadAs
<1>5. PostData \o Augment(AugPosted(d)) \in Plans
  BY <1>1, PostPlan, SendPlan, Joined
<1>6. AugmentToken(d) \in Plans
  <2>1. Op("peek", UserData) \o PostData \in Plans
    BY <1>2, PostPlan, Joined
  <2>2. (Op("peek", UserData) \o PostData) \o Augment(AugPosted(d)) \in Plans
    BY <1>1, <2>1, SendPlan, Joined
  <2>3. ((Op("peek", UserData) \o PostData) \o Augment(AugPosted(d))) \o Op("drop", UserData) \in Plans
    BY <1>2, <2>2, Joined
  <2> QED BY <2>3 DEF AugmentToken
<1>7. \A e \in DataIds : Augment(AugDataset(d, e)) \in Plans
  BY <1>1, SendPlan
<1>8. AugmentResult(AugPosted(d)) \in Plans
  BY <1>1, SendPlan
<1> QED BY <1>3, <1>4, <1>5, <1>6, <1>7, <1>8 DEF Serve

LEMMA RequestPlan ==
  ASSUME NEW p \in Procs, NEW request \in Requests(p)
  PROVE  request \in Plans
<1>1. CASE p \in Threads
  BY <1>1, ProfilePlan DEF Requests
<1>2. CASE p \notin Threads
  <2>1. Endpoints[p] \subseteq {"download", "augment", "result"}
    BY <1>2, EndpointsAssumption DEF Procs
  <2>2. PICK endpoint \in Endpoints[p], d \in Datasets : request \in Serve(endpoint, d)
    BY <1>2 DEF Requests
  <2> QED BY <2>1, <2>2, ServePlan
<1> QED BY <1>1, <1>2

LEMMA CreatePlan ==
  ASSUME NEW key \in Keys
  PROVE  Create(key) \in Plans
<1>1. Op("work", key) \in Plans
  BY OpTyped DEF OpNames
<1>2. CASE key.kind # "aug"
  BY <1>1, <1>2 DEF Create
<1>3. CASE key.kind = "aug"
  <2>1. \/ \E d \in Datasets : key = AugPosted(d)
        \/ \E d \in Datasets, e \in DataIds : key = AugDataset(d, e)
    BY <1>3 DEF Keys, UserData, Raw, Csv, Format
  <2>2. ASSUME NEW d \in Datasets, key = AugPosted(d) PROVE Create(key) \in Plans
    <3>1. key.of = <<d>>
      BY <2>2 DEF AugPosted
    <3> QED BY <1>1, <1>3, <3>1, CsvPlan DEF Create
  <2>3. ASSUME NEW d \in Datasets, NEW e \in DataIds, key = AugDataset(d, e)
        PROVE Create(key) \in Plans
    <3>1. key.of = <<d, e>> /\ e \in Datasets
      BY <2>3, DatasetsAssumption DEF AugDataset
    <3>2. WithCsv(e, Op("work", key)) \in Plans
      BY <1>1, <3>1, CsvPlan
    <3> QED BY <1>3, <3>1, <3>2, CsvPlan DEF Create
  <2> QED BY <2>1, <2>2, <2>3
<1> QED BY <1>2, <1>3
-----------------------------------------------------------------------------
(* Types.                                                                   *)

LEMMA HeadTyped ==
  ASSUME TypeOK, NEW p \in Procs, todo[p] # <<>>
  PROVE  /\ Head(todo[p]) \in Ops /\ KeyOf(p) \in Keys /\ Tail(todo[p]) \in Seq(Ops)
         /\ 1 \in DOMAIN todo[p] /\ Head(todo[p]) = todo[p][1]
         /\ \A i \in DOMAIN Tail(todo[p]) :
              i + 1 \in DOMAIN todo[p] /\ Tail(todo[p])[i] = todo[p][i + 1]
<1>1. todo[p] \in Seq(Ops)
  BY DEF TypeOK, Ops
<1>2. Head(todo[p]) \in Ops /\ Tail(todo[p]) \in Seq(Ops)
  BY <1>1
<1> QED BY <1>1, <1>2 DEF KeyOf, Ops

LEMMA LoopTyped == ASSUME NEW p \in Procs PROVE Loop(p) \in Loops
BY DEF Loops

LEMMA ContinueTyped ==
  ASSUME TypeOK, NEW p \in Procs, NEW rest \in Seq(Ops), Continue(p, rest)
  PROVE  /\ todo' \in [Procs -> Seq([op : OpNames, key : Keys])]
         /\ phase' \in [Procs -> {"look", "lock", "unwind"}]
         /\ loop' \in [Loops -> Procs \cup {None}]
BY LoopTyped DEF TypeOK, Continue, Ops

LEMMA HoldTyped ==
  ASSUME TypeOK, NEW p \in Procs, NEW k \in Keys, Hold(p, k)
  PROVE  held' \in [Procs -> [Keys -> Nat]]
BY DEF TypeOK, Hold

LEMMA TypeStep == TypeOK /\ [Next]_vars => TypeOK'
<1> SUFFICES ASSUME TypeOK, [Next]_vars PROVE TypeOK'
  OBVIOUS
<1>1. CASE UNCHANGED vars
  BY <1>1 DEF TypeOK, vars
<1>2. ASSUME NEW p \in Procs, Start(p) PROVE TypeOK'
  <2>1. PICK request \in Requests(p) : todo' = [todo EXCEPT ![p] = request]
    BY <1>2 DEF Start
  <2>2. request \in Seq(Ops)
    BY RequestPlan DEF Plans
  <2>3. todo' \in [Procs -> Seq([op : OpNames, key : Keys])]
    BY <2>1, <2>2 DEF TypeOK, Ops
  <2> QED BY <1>2, <2>3, LoopTyped DEF Start, TypeOK
<1>3. ASSUME NEW p \in Procs, Look(p) \/ Peek(p) PROVE TypeOK'
  <2>1. KeyOf(p) \in Keys /\ Tail(todo[p]) \in Seq(Ops)
    BY <1>3, HeadTyped DEF Look, Peek, At
  <2>2. CASE entry[KeyOf(p)]
    <3>1. Hold(p, KeyOf(p)) /\ Continue(p, Tail(todo[p])) /\ UNCHANGED <<entry, writer>>
      BY <1>3, <2>2 DEF Look, Peek
    <3>2. held' \in [Procs -> [Keys -> Nat]]
      BY <2>1, <3>1, HoldTyped
    <3> QED BY <2>1, <3>1, <3>2, ContinueTyped DEF TypeOK
  <2>3. CASE ~entry[KeyOf(p)]
    <3>1. /\ \E ph \in {"lock", "unwind"} : phase' = [phase EXCEPT ![p] = ph]
          /\ UNCHANGED <<held, todo, loop, entry, writer>>
      BY <1>3, <2>3 DEF Look, Peek
    <3> QED BY <3>1 DEF TypeOK
  <2> QED BY <2>2, <2>3
<1>4. ASSUME NEW p \in Procs, Lock(p) PROVE TypeOK'
  <2>1. KeyOf(p) \in Keys
    BY <1>4, HeadTyped DEF Lock, At
  <2>2. Create(KeyOf(p)) \in Seq(Ops) /\ Op("made", KeyOf(p)) \in Seq(Ops)
    BY <2>1, CreatePlan, OpTyped DEF Plans, OpNames
  <2>3. todo[p] \in Seq(Ops)
    BY DEF TypeOK, Ops
  <2>4. Create(KeyOf(p)) \o Op("made", KeyOf(p)) \o todo[p] \in Seq(Ops)
    BY <2>2, <2>3
  <2>5. todo' \in [Procs -> Seq([op : OpNames, key : Keys])]
    BY <1>4, <2>4 DEF Lock, TypeOK, Ops
  <2> QED BY <1>4, <2>1, <2>5 DEF Lock, TypeOK
<1>5. ASSUME NEW p \in Procs, Made(p) PROVE TypeOK'
  <2>1. KeyOf(p) \in Keys /\ Tail(todo[p]) \in Seq(Ops)
    BY <1>5, HeadTyped DEF Made, At
  <2>2. entry' \in [Keys -> BOOLEAN] /\ writer' \in [Keys -> Procs \cup {None}]
    BY <1>5, <2>1 DEF Made, TypeOK
  <2>3. Continue(p, Tail(todo[p])) /\ UNCHANGED held
    BY <1>5 DEF Made
  <2> QED BY <2>1, <2>2, <2>3, ContinueTyped DEF TypeOK
<1>6. ASSUME NEW p \in Procs, Work(p) PROVE TypeOK'
  <2>1. Tail(todo[p]) \in Seq(Ops)
    BY <1>6, HeadTyped DEF Work, At
  <2>2. CASE Continue(p, Tail(todo[p]))
    BY <1>6, <2>1, <2>2, ContinueTyped DEF Work, TypeOK
  <2>3. CASE ~Continue(p, Tail(todo[p]))
    BY <1>6, <2>3 DEF Work, TypeOK
  <2> QED BY <2>2, <2>3
<1>7. ASSUME NEW p \in Procs, Drop(p) PROVE TypeOK'
  <2>1. KeyOf(p) \in Keys /\ Tail(todo[p]) \in Seq(Ops)
    BY <1>7, HeadTyped DEF Drop, At
  <2>2. held' \in [Procs -> [Keys -> Nat]]
    BY <1>7, <2>1 DEF Drop, TypeOK
  <2>3. Continue(p, Tail(todo[p])) /\ UNCHANGED <<entry, writer>>
    BY <1>7 DEF Drop
  <2> QED BY <2>1, <2>2, <2>3, ContinueTyped DEF TypeOK
<1>8. ASSUME NEW p \in Procs, Await(p) \/ Resume(p) PROVE TypeOK'
  <2>1. Tail(todo[p]) \in Seq(Ops)
    BY <1>8, HeadTyped DEF Await, Resume, At
  <2>2. todo' \in [Procs -> Seq([op : OpNames, key : Keys])]
    BY <1>8, <2>1 DEF Await, Resume, TypeOK, Ops
  <2>3. loop' \in [Loops -> Procs \cup {None}]
    BY <1>8, LoopTyped DEF Await, Resume, TypeOK
  <2> QED BY <1>8, <2>2, <2>3 DEF Await, Resume, TypeOK
<1>9. ASSUME NEW p \in Procs, Unwind(p) PROVE TypeOK'
  <2>1. KeyOf(p) \in Keys /\ Tail(todo[p]) \in Seq(Ops)
    BY <1>9, HeadTyped DEF Unwind, At
  <2>2. writer' \in [Keys -> Procs \cup {None}]
    BY <1>9, <2>1 DEF Unwind, TypeOK
  <2>3. Continue(p, Tail(todo[p])) /\ UNCHANGED <<entry, held>>
    BY <1>9 DEF Unwind
  <2> QED BY <2>1, <2>2, <2>3, ContinueTyped DEF TypeOK
<1>10. ASSUME NEW k \in Keys, Evict(k) PROVE TypeOK'
  BY <1>10 DEF Evict, TypeOK
<1> QED BY <1>1, <1>2, <1>3, <1>4, <1>5, <1>6, <1>7, <1>8, <1>9, <1>10 DEF Next, Step

(* The state keeps its types.                                               *)
THEOREM TypeCorrect == Spec => []TypeOK
<1>1. Init => TypeOK
  <2>1. <<>> \in Seq([op : OpNames, key : Keys])
    OBVIOUS
  <2> QED BY <2>1 DEF Init, TypeOK
<1> QED BY <1>1, TypeStep, PTL DEF Spec
-----------------------------------------------------------------------------
(* Creations.                                                               *)

MadeInv == MadeByWriter /\ MadeOnce

LEMMA KeysToDo ==
  ASSUME TypeOK
  PROVE  \A q \in Procs : \A i \in DOMAIN todo[q] : todo[q][i].key \in Keys
<1>1. ASSUME NEW q \in Procs, NEW i \in DOMAIN todo[q] PROVE todo[q][i].key \in Keys
  <2>1. todo[q] \in Seq(Ops)
    BY DEF TypeOK, Ops
  <2>2. todo[q][i] \in Ops
    BY <2>1
  <2> QED BY <2>2 DEF Ops
<1> QED BY <1>1

(* Where the elements of a sequence come from that an operation was put     *)
(* into.                                                                    *)
LEMMA Spliced ==
  ASSUME NEW s \in Seq(Ops), NEW m \in Ops, NEW t \in Seq(Ops),
         NEW i \in DOMAIN (s \o <<m>> \o t)
  PROVE  /\ i \in Nat
         /\ \/ i \in DOMAIN s /\ (s \o <<m>> \o t)[i] = s[i]
            \/ i = Len(s) + 1 /\ (s \o <<m>> \o t)[i] = m
            \/ /\ i - Len(s) - 1 \in DOMAIN t
               /\ (s \o <<m>> \o t)[i] = t[i - Len(s) - 1]
<1>1. /\ Len(s) \in Nat /\ Len(t) \in Nat /\ <<m>> \in Seq(Ops)
      /\ DOMAIN s = 1 .. Len(s) /\ DOMAIN t = 1 .. Len(t)
  OBVIOUS
<1> DEFINE u == s \o <<m>>
<1>2. /\ u \in Seq(Ops) /\ Len(u) = Len(s) + 1
      /\ \A j \in 1 .. Len(s) : u[j] = s[j]
      /\ u[Len(s) + 1] = m
  BY <1>1
<1> HIDE DEF u
<1>3. /\ DOMAIN (u \o t) = 1 .. Len(u) + Len(t)
      /\ \A j \in 1 .. Len(u) : (u \o t)[j] = u[j]
      /\ \A j \in Len(u) + 1 .. Len(u) + Len(t) : (u \o t)[j] = t[j - Len(u)]
  BY <1>2
<1>4. i \in DOMAIN (u \o t) /\ (s \o <<m>> \o t)[i] = (u \o t)[i]
  BY DEF u
<1>5. i \in 1 .. Len(s) \/ i = Len(s) + 1 \/ i \in Len(s) + 2 .. Len(s) + 1 + Len(t)
  BY <1>1, <1>2, <1>3, <1>4
<1>6. CASE i \in 1 .. Len(s)
  BY <1>1, <1>2, <1>3, <1>4, <1>6
<1>7. CASE i = Len(s) + 1
  BY <1>1, <1>2, <1>3, <1>4, <1>7
<1>8. CASE i \in Len(s) + 2 .. Len(s) + 1 + Len(t)
  <2>1. i - Len(u) = i - Len(s) - 1 /\ i - Len(s) - 1 \in 1 .. Len(t)
    BY <1>1, <1>2, <1>8
  <2> QED BY <1>1, <1>2, <1>3, <1>4, <1>8, <2>1
<1> QED BY <1>5, <1>6, <1>7, <1>8

(* Going on with the rest of a request, with the lock released if that was  *)
(* the end of a creation.                                                   *)
LEMMA TailMade ==
  ASSUME TypeOK, MadeInv, NEW p \in Procs, todo[p] # <<>>,
         todo' = [todo EXCEPT ![p] = Tail(todo[p])],
         \/ writer' = writer
         \/ Head(todo[p]).op = "made" /\ writer' = [writer EXCEPT ![KeyOf(p)] = None]
  PROVE  MadeInv'
<1>1. /\ 1 \in DOMAIN todo[p] /\ Head(todo[p]) = todo[p][1]
      /\ \A i \in DOMAIN todo'[p] : i + 1 \in DOMAIN todo[p] /\ todo'[p][i] = todo[p][i + 1]
      /\ \A i \in DOMAIN todo'[p] : i \in Nat \ {0}
  BY HeadTyped DEF TypeOK
<1>2. \A q \in Procs \ {p} : todo'[q] = todo[q]
  BY DEF TypeOK
<1>3. \A q \in Procs : \A i \in DOMAIN todo[q] : todo[q][i].key \in Keys
  BY KeysToDo
<1>4. MadeByWriter'
  <2> SUFFICES ASSUME NEW q \in Procs, NEW i \in DOMAIN todo'[q], todo'[q][i].op = "made"
               PROVE  writer'[todo'[q][i].key] = q
    BY DEF MadeByWriter, Completes
  <2>1. CASE q = p
    <3>1. Completes(p, i + 1) /\ todo'[q][i] = todo[p][i + 1]
      BY <1>1, <2>1 DEF Completes
    <3>2. writer[todo[p][i + 1].key] = p
      BY <3>1 DEF MadeInv, MadeByWriter, Completes
    <3>3. CASE writer' = writer
      BY <2>1, <3>1, <3>2, <3>3
    <3>4. CASE Head(todo[p]).op = "made" /\ writer' = [writer EXCEPT ![KeyOf(p)] = None]
      <4>1. Completes(p, 1) /\ KeyOf(p) = todo[p][1].key
        BY <1>1, <3>4 DEF Completes, KeyOf
      <4>2. todo[p][i + 1].key # KeyOf(p)
        BY <1>1, <2>1, <3>1, <4>1 DEF MadeInv, MadeOnce, Completes
      <4> QED BY <1>3, <2>1, <3>1, <3>2, <3>4, <4>2 DEF Completes, TypeOK
    <3> QED BY <3>3, <3>4
  <2>2. CASE q # p
    <3>1. todo'[q] = todo[q] /\ writer[todo[q][i].key] = q
      BY <1>2, <2>2 DEF MadeInv, MadeByWriter, Completes
    <3>2. CASE writer' = writer
      BY <3>1, <3>2
    <3>3. CASE Head(todo[p]).op = "made" /\ writer' = [writer EXCEPT ![KeyOf(p)] = None]
      <4>1. writer[KeyOf(p)] = p
        BY <1>1, <3>3 DEF MadeInv, MadeByWriter, Completes, KeyOf
      <4>2. todo[q][i].key # KeyOf(p)
        BY <2>2, <3>1, <4>1
      <4> QED BY <1>3, <3>1, <3>3, <4>2 DEF TypeOK
    <3> QED BY <3>2, <3>3
  <2> QED BY <2>1, <2>2
<1>5. MadeOnce'
  <2> SUFFICES ASSUME NEW q \in Procs, NEW i \in DOMAIN todo'[q], NEW j \in DOMAIN todo'[q],
                      todo'[q][i].op = "made", todo'[q][j].op = "made",
                      todo'[q][i].key = todo'[q][j].key
               PROVE  i = j
    BY DEF MadeOnce, Completes
  <2>1. CASE q = p
    <3>1. i + 1 = j + 1
      BY <1>1, <2>1 DEF MadeInv, MadeOnce, Completes
    <3> QED BY <1>1, <2>1, <3>1
  <2>2. CASE q # p
    BY <1>2, <2>2 DEF MadeInv, MadeOnce, Completes
  <2> QED BY <2>1, <2>2
<1> QED BY <1>4, <1>5 DEF MadeInv

(* Nothing to go on with: the operations and the locks stay.                *)
LEMMA SameMade ==
  ASSUME MadeInv, UNCHANGED <<todo, writer>>
  PROVE  MadeInv'
BY DEF MadeInv, MadeByWriter, MadeOnce, Completes

(* A new request completes no creation.                                     *)
LEMMA StartMade ==
  ASSUME TypeOK, MadeInv, NEW p \in Procs, NEW request \in Plans,
         todo' = [todo EXCEPT ![p] = request], writer' = writer
  PROVE  MadeInv'
<1>1. todo'[p] = request /\ \A q \in Procs \ {p} : todo'[q] = todo[q]
  BY DEF TypeOK
<1>2. \A i \in DOMAIN todo'[p] : todo'[p][i].op # "made"
  BY <1>1 DEF Plans
<1>3. MadeByWriter'
  BY <1>1, <1>2 DEF MadeInv, MadeByWriter, Completes
<1>4. MadeOnce'
  BY <1>1, <1>2 DEF MadeInv, MadeOnce, Completes
<1> QED BY <1>3, <1>4 DEF MadeInv

(* A creation begins on a key nobody creates.                               *)
LEMMA LockMade ==
  ASSUME TypeOK, MadeInv, NEW p \in Procs, NEW k \in Keys, writer[k] = None,
         writer' = [writer EXCEPT ![k] = p],
         todo' = [todo EXCEPT ![p] = Create(k) \o Op("made", k) \o @]
  PROVE  MadeInv'
<1> DEFINE plan == Create(k)
           old == todo[p]
           n == Len(plan)
<1>1. plan \in Plans /\ plan \in Seq(Ops) /\ n \in Nat
  BY CreatePlan DEF Plans
<1>2. old \in Seq(Ops)
  BY DEF TypeOK, Ops
<1>3. todo'[p] = plan \o Op("made", k) \o old /\ \A q \in Procs \ {p} : todo'[q] = todo[q]
  BY DEF TypeOK
<1>4. \A q \in Procs : \A i \in DOMAIN todo[q] : Completes(q, i) => todo[q][i].key # k
  BY ProcsAssumption DEF MadeInv, MadeByWriter
<1>5. \A i \in DOMAIN todo'[p] :
        /\ i \in Nat
        /\ \/ i \in DOMAIN plan /\ todo'[p][i] = plan[i]
           \/ i = n + 1 /\ todo'[p][i] = [op |-> "made", key |-> k]
           \/ i - n - 1 \in DOMAIN old /\ todo'[p][i] = old[i - n - 1]
  <2>1. [op |-> "made", key |-> k] \in Ops /\ Op("made", k) = <<[op |-> "made", key |-> k]>>
    BY DEF Op, Ops, OpNames
  <2>2. todo'[p] = plan \o <<[op |-> "made", key |-> k]>> \o old
    BY <1>3, <2>1
  <2>3. n = Len(plan)
    OBVIOUS
  <2> SUFFICES ASSUME NEW i \in DOMAIN todo'[p]
               PROVE  /\ i \in Nat
                      /\ \/ i \in DOMAIN plan /\ todo'[p][i] = plan[i]
                         \/ i = n + 1 /\ todo'[p][i] = [op |-> "made", key |-> k]
                         \/ i - n - 1 \in DOMAIN old /\ todo'[p][i] = old[i - n - 1]
    OBVIOUS
  <2> DEFINE m == [op |-> "made", key |-> k]
  <2>4. /\ m \in Ops /\ todo'[p] = plan \o <<m>> \o old /\ plan \in Seq(Ops) /\ old \in Seq(Ops)
        /\ i \in DOMAIN (plan \o <<m>> \o old)
    BY <1>1, <1>2, <2>1, <2>2
  <2> HIDE DEF plan, old, m, n
  <2>5. /\ i \in Nat
        /\ \/ i \in DOMAIN plan /\ (plan \o <<m>> \o old)[i] = plan[i]
           \/ i = Len(plan) + 1 /\ (plan \o <<m>> \o old)[i] = m
           \/ /\ i - Len(plan) - 1 \in DOMAIN old
              /\ (plan \o <<m>> \o old)[i] = old[i - Len(plan) - 1]
    BY <2>4, Spliced, Zenon
  <2> QED BY <2>3, <2>4, <2>5 DEF m
<1>6. \A i \in DOMAIN todo'[p] : todo'[p][i].op = "made" =>
        /\ i \in Nat
        /\ \/ i = n + 1 /\ todo'[p][i].key = k
           \/ /\ todo'[p][i] = todo[p][i - n - 1] /\ Completes(p, i - n - 1)
              /\ todo'[p][i].key # k
  <2>1. \A j \in DOMAIN plan : plan[j].op # "made"
    BY <1>1 DEF Plans
  <2> QED BY <1>4, <1>5, <2>1 DEF Completes
<1>7. MadeByWriter'
  <2> SUFFICES ASSUME NEW q \in Procs, NEW i \in DOMAIN todo'[q], todo'[q][i].op = "made"
               PROVE  writer'[todo'[q][i].key] = q
    BY DEF MadeByWriter, Completes
  <2>1. CASE q = p /\ todo'[q][i].key = k
    BY <2>1 DEF TypeOK
  <2>2. CASE q = p /\ todo'[q][i].key # k
    <3>1. writer[todo'[p][i].key] = p /\ todo'[p][i].key \in Keys
      BY <1>6, <2>2, KeysToDo DEF MadeInv, MadeByWriter, Completes
    <3> QED BY <2>2, <3>1 DEF TypeOK
  <2>3. CASE q # p
    <3>1. todo'[q] = todo[q] /\ Completes(q, i) /\ todo[q][i].key \in Keys
      BY <1>3, <2>3, KeysToDo DEF Completes
    <3>2. todo[q][i].key # k /\ writer[todo[q][i].key] = q
      BY <1>4, <3>1 DEF MadeInv, MadeByWriter
    <3> QED BY <3>1, <3>2 DEF TypeOK
  <2> QED BY <2>1, <2>2, <2>3
<1>8. MadeOnce'
  <2> SUFFICES ASSUME NEW q \in Procs, NEW i \in DOMAIN todo'[q], NEW j \in DOMAIN todo'[q],
                      todo'[q][i].op = "made", todo'[q][j].op = "made",
                      todo'[q][i].key = todo'[q][j].key
               PROVE  i = j
    BY DEF MadeOnce, Completes
  <2>1. CASE q = p /\ todo'[q][i].key = k
    BY <1>6, <2>1
  <2>2. CASE q = p /\ todo'[q][i].key # k
    <3>1. /\ Completes(p, i - n - 1) /\ Completes(p, j - n - 1) /\ i \in Nat /\ j \in Nat
          /\ todo[p][i - n - 1].key = todo[p][j - n - 1].key
      BY <1>6, <2>2
    <3>2. i - n - 1 = j - n - 1
      BY <3>1 DEF MadeInv, MadeOnce, Completes
    <3> QED BY <1>1, <3>1, <3>2
  <2>3. CASE q # p
    BY <1>3, <2>3 DEF MadeInv, MadeOnce, Completes
  <2> QED BY <2>1, <2>2, <2>3
<1> QED BY <1>7, <1>8 DEF MadeInv
(* The part of the invariant about the entries and their locks.             *)
EntryInv == HeldThere /\ NotYetThere

LEMMA StepMade == TypeOK /\ MadeInv /\ [Next]_vars => MadeInv'
<1> SUFFICES ASSUME TypeOK, MadeInv, [Next]_vars PROVE MadeInv'
  OBVIOUS
<1>1. CASE UNCHANGED vars
  BY <1>1, SameMade DEF vars
<1>2. ASSUME NEW p \in Procs, Start(p) PROVE MadeInv'
  BY <1>2, RequestPlan, StartMade DEF Start
<1>3. ASSUME NEW p \in Procs, Lock(p) PROVE MadeInv'
  <2>1. KeyOf(p) \in Keys /\ writer[KeyOf(p)] = None
    BY <1>3, HeadTyped DEF Lock, At, Unused
  <2>2. CASE entry[KeyOf(p)]
    BY <1>3, <2>2, SameMade DEF Lock
  <2>3. CASE ~entry[KeyOf(p)]
    BY <1>3, <2>1, <2>3, LockMade DEF Lock
  <2> QED BY <2>2, <2>3
<1>4. ASSUME NEW p \in Procs,
             Look(p) \/ Peek(p) \/ Made(p) \/ Work(p) \/ Drop(p) \/ Await(p) \/ Resume(p) \/ Unwind(p)
      PROVE MadeInv'
  <2>1. todo[p] # <<>>
    BY <1>4 DEF Look, Peek, Made, Work, Drop, Await, Resume, Unwind, At
  <2>2. \/ todo' = [todo EXCEPT ![p] = Tail(todo[p])]
        \/ UNCHANGED <<todo, writer>>
    BY <1>4 DEF Look, Peek, Made, Work, Drop, Await, Resume, Unwind, Continue
  <2>3. \/ writer' = writer
        \/ Head(todo[p]).op = "made" /\ writer' = [writer EXCEPT ![KeyOf(p)] = None]
    BY <1>4 DEF Look, Peek, Made, Work, Drop, Await, Resume, Unwind, At
  <2> QED BY <2>1, <2>2, <2>3, TailMade, SameMade
<1>5. ASSUME NEW k \in Keys, Evict(k) PROVE MadeInv'
  BY <1>5, SameMade DEF Evict
<1> QED BY <1>1, <1>2, <1>3, <1>4, <1>5 DEF Next, Step

(* The process that completes a creation has the key locked.                *)
LEMMA MadeOwned ==
  ASSUME TypeOK, MadeInv, NEW p \in Procs, todo[p] # <<>>, Head(todo[p]).op = "made"
  PROVE  writer[KeyOf(p)] = p
BY HeadTyped DEF MadeInv, MadeByWriter, Completes, KeyOf

LEMMA StepEntry == TypeOK /\ MadeInv /\ EntryInv /\ [Next]_vars => EntryInv'
<1> SUFFICES ASSUME TypeOK, MadeInv, EntryInv, [Next]_vars PROVE EntryInv'
  OBVIOUS
<1> USE DEF EntryInv, HeldThere, NotYetThere
<1>1. CASE UNCHANGED <<entry, writer, held>>
  BY <1>1
<1>2. ASSUME NEW p \in Procs, Look(p) \/ Peek(p), entry[KeyOf(p)] PROVE EntryInv'
  <2>1. KeyOf(p) \in Keys /\ writer[KeyOf(p)] = None
    BY <1>2, HeadTyped DEF Look, Peek, At
  <2>2. held' = [held EXCEPT ![p][KeyOf(p)] = @ + 1] /\ UNCHANGED <<entry, writer>>
    BY <1>2 DEF Look, Peek, Hold
  <2> QED BY <1>2, <2>1, <2>2 DEF TypeOK
<1>3. ASSUME NEW p \in Procs, Lock(p), ~entry[KeyOf(p)] PROVE EntryInv'
  <2>1. KeyOf(p) \in Keys /\ \A q \in Procs : held[q][KeyOf(p)] = 0
    BY <1>3, HeadTyped DEF Lock, At, Unused
  <2>2. writer' = [writer EXCEPT ![KeyOf(p)] = p] /\ UNCHANGED <<entry, held>>
    BY <1>3 DEF Lock
  <2> QED BY <1>3, <2>1, <2>2 DEF TypeOK
<1>4. ASSUME NEW p \in Procs, Made(p) PROVE EntryInv'
  <2>1. KeyOf(p) \in Keys
    BY <1>4, HeadTyped DEF Made, At
  <2>2. /\ entry' = [entry EXCEPT ![KeyOf(p)] = TRUE]
        /\ writer' = [writer EXCEPT ![KeyOf(p)] = None] /\ UNCHANGED held
    BY <1>4 DEF Made
  <2> QED BY <2>1, <2>2 DEF TypeOK
<1>5. ASSUME NEW p \in Procs, Drop(p) PROVE EntryInv'
  <2>1. KeyOf(p) \in Keys
    BY <1>5, HeadTyped DEF Drop, At
  <2>2. /\ held' = [held EXCEPT ![p][KeyOf(p)] = IF @ = 0 THEN 0 ELSE @ - 1]
        /\ UNCHANGED <<entry, writer>>
    BY <1>5 DEF Drop
  <2>3. \A q \in Procs, k \in Keys : held'[q][k] > 0 => held[q][k] > 0
    BY <2>1, <2>2 DEF TypeOK
  <2> QED BY <2>2, <2>3
<1>6. ASSUME NEW p \in Procs, Unwind(p) PROVE EntryInv'
  <2>1. KeyOf(p) \in Keys
    BY <1>6, HeadTyped DEF Unwind, At
  <2>2. /\ writer' = writer \/ writer' = [writer EXCEPT ![KeyOf(p)] = None]
        /\ UNCHANGED <<entry, held>>
    BY <1>6 DEF Unwind
  <2> QED BY <2>1, <2>2 DEF TypeOK
<1>7. ASSUME NEW k \in Keys, Evict(k) PROVE EntryInv'
  <2>1. writer[k] = None /\ \A q \in Procs : held[q][k] = 0
    BY <1>7 DEF Evict, Unused
  <2>2. entry' = [entry EXCEPT ![k] = FALSE] /\ UNCHANGED <<writer, held>>
    BY <1>7 DEF Evict
  <2> QED BY <2>1, <2>2 DEF TypeOK
<1>8. CASE \E p \in Procs : Start(p) \/ Work(p) \/ Await(p) \/ Resume(p)
  BY <1>1, <1>8 DEF Start, Work, Await, Resume
<1>9. ASSUME NEW p \in Procs, Look(p) \/ Peek(p), ~entry[KeyOf(p)] PROVE EntryInv'
  BY <1>1, <1>9 DEF Look, Peek
<1>10. ASSUME NEW p \in Procs, Lock(p), entry[KeyOf(p)] PROVE EntryInv'
  BY <1>1, <1>10 DEF Lock
<1> QED
  BY <1>1, <1>2, <1>3, <1>4, <1>5, <1>6, <1>7, <1>8, <1>9, <1>10 DEF Next, Step, vars

LEMMA InitInv == Init => TypeOK /\ MadeInv /\ EntryInv
<1> SUFFICES ASSUME Init PROVE TypeOK /\ MadeInv /\ EntryInv
  OBVIOUS
<1>1. <<>> \in Seq([op : OpNames, key : Keys])
  OBVIOUS
<1>2. TypeOK
  BY <1>1 DEF Init, TypeOK
<1>3. \A p \in Procs : DOMAIN todo[p] = {}
  BY DEF Init
<1>4. MadeInv
  BY <1>3 DEF MadeInv, MadeByWriter, MadeOnce
<1>5. EntryInv
  BY DEF Init, EntryInv, HeldThere, NotYetThere
<1> QED BY <1>2, <1>4, <1>5

(* What somebody is in a with-block on is there and not being created; an   *)
(* entry is created when there is none, by the one process that has the key *)
(* locked, once.                                                            *)
THEOREM IInvCorrect == Spec => []IInv
<1>1. TypeOK /\ MadeInv /\ EntryInv /\ [Next]_vars => (TypeOK /\ MadeInv /\ EntryInv)'
  BY TypeStep, StepMade, StepEntry
<1>2. MadeInv /\ EntryInv => IInv
  BY DEF MadeInv, EntryInv, IInv
<1> QED BY InitInv, <1>1, <1>2, PTL DEF Spec

-----------------------------------------------------------------------------
(* The contract.                                                            *)

Kept(k) == Promise(k)!Next \/ UNCHANGED Promise(k)!vars

LEMMA Untouched ==
  ASSUME NEW k \in Keys, entry'[k] = entry[k], \A q \in Procs : held'[q][k] > 0 <=> held[q][k] > 0
  PROVE  Kept(k)
BY DEF Kept, Promise!vars
LEMMA StepKept ==
  ASSUME TypeOK, TypeOK', MadeInv, EntryInv, [Next]_vars, NEW k \in Keys
  PROVE  Kept(k)
<1> DEFINE readers == {p \in Procs : held[p][k] > 0}
<1> USE DEF EntryInv, HeldThere, NotYetThere
<1>1. CASE UNCHANGED <<entry, held>>
  BY <1>1, Untouched
<1>2. ASSUME NEW p \in Procs, Look(p) \/ Peek(p), entry[KeyOf(p)] PROVE Kept(k)
  <2>1. KeyOf(p) \in Keys
    BY <1>2, HeadTyped DEF Look, Peek, At
  <2>2. held' = [held EXCEPT ![p][KeyOf(p)] = @ + 1] /\ entry' = entry
    BY <1>2 DEF Look, Peek, Hold
  <2>3. CASE KeyOf(p) # k
    <3>1. \A q \in Procs : held'[q][k] = held[q][k]
      BY <2>1, <2>2, <2>3 DEF TypeOK
    <3> QED BY <2>2, <3>1, Untouched
  <2>5. CASE KeyOf(p) = k /\ held[p][k] > 0
    <3>1. held'[p][k] = held[p][k] + 1 /\ held[p][k] \in Nat
      BY <2>1, <2>2, <2>5 DEF TypeOK
    <3>2. \A q \in Procs \ {p} : held'[q][k] = held[q][k]
      BY <2>1, <2>2 DEF TypeOK
    <3>3. \A q \in Procs : held'[q][k] > 0 <=> held[q][k] > 0
      BY <2>5, <3>1, <3>2
    <3> QED BY <2>2, <3>3, Untouched
  <2>4. CASE KeyOf(p) = k /\ ~(held[p][k] > 0)
    <3>1. entry[k] /\ p \notin readers /\ readers' = readers \cup {p} /\ entry'[k] = entry[k]
      BY <1>2, <2>1, <2>2, <2>4 DEF TypeOK
    <3>2. Promise(k)!Enter(p)
      BY <3>1 DEF Promise!Enter
    <3> QED BY <3>2 DEF Kept, Promise!Next, Promise!Keep
  <2> QED BY <2>3, <2>4, <2>5
<1>3. ASSUME NEW p \in Procs, Made(p) PROVE Kept(k)
  <2>1. KeyOf(p) \in Keys /\ writer[KeyOf(p)] = p
    BY <1>3, HeadTyped, MadeOwned DEF Made, At
  <2>2. entry' = [entry EXCEPT ![KeyOf(p)] = TRUE] /\ UNCHANGED held
    BY <1>3 DEF Made
  <2>3. CASE KeyOf(p) # k
    BY <2>1, <2>2, <2>3, Untouched DEF TypeOK
  <2>4. CASE KeyOf(p) = k
    <3>1. ~entry[k] /\ entry'[k] /\ readers = {} /\ readers' = readers
      BY <2>1, <2>2, <2>4, ProcsAssumption DEF TypeOK
    <3>2. Promise(k)!Create
      BY <3>1 DEF Promise!Create
    <3> QED BY <3>2 DEF Kept, Promise!Next, Promise!Keep
  <2> QED BY <2>3, <2>4
<1>4. ASSUME NEW p \in Procs, Drop(p) PROVE Kept(k)
  <2>1. KeyOf(p) \in Keys
    BY <1>4, HeadTyped DEF Drop, At
  <2>2. /\ held' = [held EXCEPT ![p][KeyOf(p)] = IF @ = 0 THEN 0 ELSE @ - 1]
        /\ entry' = entry
    BY <1>4 DEF Drop
  <2>3. CASE KeyOf(p) # k
    <3>1. \A q \in Procs : held'[q][k] = held[q][k]
      BY <2>1, <2>2, <2>3 DEF TypeOK
    <3> QED BY <2>2, <3>1, Untouched
  <2>4. CASE KeyOf(p) = k /\ held[p][k] = 1
    <3>1. p \in readers /\ readers' = readers \ {p} /\ entry'[k] = entry[k]
      BY <2>1, <2>2, <2>4 DEF TypeOK
    <3>2. Promise(k)!Leave(p)
      BY <3>1 DEF Promise!Leave
    <3> QED BY <3>2 DEF Kept, Promise!Next, Promise!Keep
  <2>5. CASE KeyOf(p) = k /\ held[p][k] # 1
    <3>1. held'[p][k] = IF held[p][k] = 0 THEN 0 ELSE held[p][k] - 1
      BY <2>1, <2>2, <2>5 DEF TypeOK
    <3>2. \A q \in Procs \ {p} : held'[q][k] = held[q][k]
      BY <2>1, <2>2 DEF TypeOK
    <3>3. held[p][k] \in Nat
      BY DEF TypeOK
    <3>4. \A q \in Procs : held'[q][k] > 0 <=> held[q][k] > 0
      BY <2>5, <3>1, <3>2, <3>3
    <3> QED BY <2>2, <3>4, Untouched
  <2> QED BY <2>3, <2>4, <2>5
<1>5. ASSUME NEW key \in Keys, Evict(key) PROVE Kept(k)
  <2>1. entry' = [entry EXCEPT ![key] = FALSE] /\ UNCHANGED held
    BY <1>5 DEF Evict
  <2>2. CASE key # k
    BY <2>1, <2>2, Untouched DEF TypeOK
  <2>3. CASE key = k
    <3>1. entry[k] /\ ~entry'[k] /\ readers = {} /\ readers' = readers
      BY <1>5, <2>1, <2>3 DEF Evict, Unused, TypeOK
    <3>2. Promise(k)!Evict
      BY <3>1 DEF Promise!Evict
    <3> QED BY <3>2 DEF Kept, Promise!Next, Promise!Keep
  <2> QED BY <2>2, <2>3
<1>6. ASSUME NEW p \in Procs,
             \/ Start(p) \/ Lock(p) \/ Work(p) \/ Await(p) \/ Resume(p) \/ Unwind(p)
             \/ (Look(p) \/ Peek(p)) /\ ~entry[KeyOf(p)]
      PROVE Kept(k)
  BY <1>1, <1>6 DEF Start, Lock, Work, Await, Resume, Unwind, Look, Peek
<1> QED BY <1>1, <1>2, <1>3, <1>4, <1>5, <1>6 DEF Next, Step, vars

(* Every step keeps the promises of the file cache for every key: entries   *)
(* appear once and stay while somebody is in a with-block on them.          *)
THEOREM Promises == Spec => PromisesKept
<1>1. Init => \A k \in Keys : Promise(k)!Init
  BY DEF Init, Promise!Init
<1>2. TypeOK /\ TypeOK' /\ MadeInv /\ EntryInv /\ [Next]_vars
      => [\A k \in Keys : Promise(k)!Next \/ UNCHANGED Promise(k)!vars]_vars
  BY StepKept DEF Kept
<1>3. TypeOK /\ MadeInv /\ EntryInv /\ [Next]_vars => (TypeOK /\ MadeInv /\ EntryInv)'
  BY TypeStep, StepMade, StepEntry
<1> QED BY InitInv, <1>1, <1>2, <1>3, PTL DEF Spec, PromisesKept

-----------------------------------------------------------------------------
(* Locks.  A sequence of operations runs from some locks to others: gets    *)
(* and drops move the levels of the keys, which stay natural numbers, and   *)
(* what an operation reads is locked where it is performed.  Levels are     *)
(* given by a function of the position, so that nothing is counted.         *)

Levels == [Keys -> Nat]
NoLocks == [k \in Keys |-> 0]
Up(l, k) == [l EXCEPT ![k] = @ + 1]

(* The locks before and after an operation that succeeds.                   *)
Moves(o, l, m) ==
  /\ m \in Levels
  /\ o.op \in {"get", "peek"} => m = Up(l, o.key)
  /\ o.op = "drop" => l[o.key] > 0 /\ m = [l EXCEPT ![o.key] = @ - 1]
  /\ o.op \notin {"get", "peek", "drop"} => m = l

Csvs(k) == {Csv(k.of[i]) : i \in {j \in DOMAIN k.of : k.of[j] \notin Stored}}
Raws(k) == {Raw(k.of[i]) : i \in {j \in DOMAIN k.of : k.of[j] \notin Stored}}
(* What a request has locked already when it gets a key, for the creation   *)
(* that may follow.                                                         *)
Inputs(p, k) ==
  CASE k.kind = "format" -> Csvs(k)
    [] k.kind \in {"raw", "csv"} /\ p \in Threads -> Raws(k) \ {k}
    [] OTHER -> {}
(* Reads(), for a key that is being created by p or is not.                 *)
ReadsOf(p, k, creating) ==
  CASE k.kind = "user" -> {}
    [] k.kind \in {"format", "aug"} -> IF creating THEN Csvs(k) ELSE {k}
    [] k.kind \in {"raw", "csv"} ->
         IF ~creating THEN Csvs(k) ELSE IF p \in Threads THEN Raws(k) \ {k} ELSE {}

(* The order in which locks are taken: what may be locked already when a    *)
(* key of a kind is got.                                                    *)
Below(kind) ==
  CASE kind = "raw" -> {} [] kind = "csv" -> {"user", "raw", "csv"} [] kind = "format" -> {"csv"}
    [] kind \in {"user", "aug"} -> {"user"}
Order(k, l) == \A j \in Keys : l[j] > 0 => j.kind \in Below(k.kind)

Allowed(p, o, creating, l) ==
  /\ o.op \in {"work", "send", "sent"} => \A r \in ReadsOf(p, o.key, creating) : l[r] > 0
  /\ o.op = "get" => \A r \in Inputs(p, o.key) : l[r] > 0
  /\ o.op \in {"get", "peek"} => Order(o.key, l) /\ (o.key.kind = "aug" => p \notin Threads)

(* The creation of k is completed after the n-th operation.                 *)
Ahead(s, n, k) == \E i \in DOMAIN s : i > n /\ s[i].op = "made" /\ s[i].key = k

(* C: what else is being created, until after the end of the sequence.      *)
RunsBy(p, s, C, b) ==
  /\ b \in [0 .. Len(s) -> Levels]
  /\ \A n \in 0 .. Len(s) - 1 :
       /\ Moves(s[n + 1], b[n], b[n + 1])
       /\ Allowed(p, s[n + 1], s[n + 1].key \in C \/ Ahead(s, n, s[n + 1].key), b[n])
Runs(p, s, l, m, C) ==
  \E b \in [0 .. Len(s) -> Levels] : RunsBy(p, s, C, b) /\ b[0] = l /\ b[Len(s)] = m

LEMMA RunsNothing ==
  ASSUME NEW p, NEW C, NEW l \in Levels, NEW m \in Levels
  PROVE  Runs(p, <<>>, l, m, C) <=> l = m
<1>1. ASSUME l = m PROVE Runs(p, <<>>, l, m, C)
  <2> DEFINE b == [n \in 0 .. 0 |-> l]
  <2>1. b \in [0 .. Len(<<>>) -> Levels] /\ b[0] = l /\ b[Len(<<>>)] = m /\ 0 .. Len(<<>>) - 1 = {}
    BY <1>1
  <2>2. RunsBy(p, <<>>, C, b)
    BY <2>1 DEF RunsBy
  <2> QED BY <2>1, <2>2 DEF Runs
<1>2. ASSUME Runs(p, <<>>, l, m, C) PROVE l = m
  BY <1>2 DEF Runs
<1> QED BY <1>1, <1>2

LEMMA RunsTail ==
  ASSUME NEW p, NEW C, NEW s \in Seq(Ops), s # <<>>, NEW l \in Levels, NEW m \in Levels,
         Runs(p, s, l, m, C)
  PROVE  \E h \in Levels :
           /\ Moves(Head(s), l, h)
           /\ Allowed(p, Head(s), Head(s).key \in C \/ Ahead(s, 0, Head(s).key), l)
           /\ Runs(p, Tail(s), h, m, C)
<1>1. PICK b \in [0 .. Len(s) -> Levels] : RunsBy(p, s, C, b) /\ b[0] = l /\ b[Len(s)] = m
  BY DEF Runs
<1> DEFINE t == Tail(s)
           c == [n \in 0 .. Len(t) |-> b[n + 1]]
<1>2. /\ Len(s) \in Nat \ {0} /\ Len(t) = Len(s) - 1 /\ t \in Seq(Ops)
      /\ DOMAIN s = 1 .. Len(s) /\ DOMAIN t = 1 .. Len(s) - 1
      /\ \A i \in 1 .. Len(s) - 1 : t[i] = s[i + 1]
      /\ Head(s) = s[1]
  OBVIOUS
<1>3. c \in [0 .. Len(t) -> Levels] /\ c[0] = b[1] /\ c[Len(t)] = m
  BY <1>1, <1>2
<1>4. \A n \in 0 .. Len(s) - 2 : \A k : Ahead(t, n, k) <=> Ahead(s, n + 1, k)
  <2> SUFFICES ASSUME NEW n \in 0 .. Len(s) - 2, NEW k PROVE Ahead(t, n, k) <=> Ahead(s, n + 1, k)
    OBVIOUS
  <2>1. ASSUME NEW i \in DOMAIN t, i > n, t[i].op = "made", t[i].key = k PROVE Ahead(s, n + 1, k)
    <3>1. i + 1 \in DOMAIN s /\ i + 1 > n + 1 /\ s[i + 1] = t[i]
      BY <1>2, <2>1
    <3> QED BY <2>1, <3>1 DEF Ahead
  <2>2. ASSUME NEW i \in DOMAIN s, i > n + 1, s[i].op = "made", s[i].key = k PROVE Ahead(t, n, k)
    <3>1. i - 1 \in DOMAIN t /\ i - 1 > n /\ t[i - 1] = s[i]
      BY <1>2, <2>2
    <3> QED BY <2>2, <3>1 DEF Ahead
  <2> QED BY <2>1, <2>2 DEF Ahead
<1>5. RunsBy(p, t, C, c)
  <2> SUFFICES ASSUME NEW n \in 0 .. Len(t) - 1
               PROVE  /\ Moves(t[n + 1], c[n], c[n + 1])
                      /\ Allowed(p, t[n + 1], t[n + 1].key \in C \/ Ahead(t, n, t[n + 1].key), c[n])
    BY <1>3 DEF RunsBy
  <2>1. /\ n + 1 \in 0 .. Len(s) - 1 /\ t[n + 1] = s[n + 2] /\ c[n] = b[n + 1] /\ c[n + 1] = b[n + 2]
        /\ (n + 1) + 1 = n + 2 /\ n \in 0 .. Len(s) - 2
    BY <1>2
  <2>2. /\ Moves(s[(n + 1) + 1], b[n + 1], b[(n + 1) + 1])
        /\ Allowed(p, s[(n + 1) + 1], s[(n + 1) + 1].key \in C \/ Ahead(s, n + 1, s[(n + 1) + 1].key),
                   b[n + 1])
    BY <1>1, <2>1 DEF RunsBy
  <2> HIDE DEF t, c
  <2> QED BY <1>4, <2>1, <2>2
<1>6. /\ Moves(s[0 + 1], b[0], b[0 + 1])
      /\ Allowed(p, s[0 + 1], s[0 + 1].key \in C \/ Ahead(s, 0, s[0 + 1].key), b[0])
  BY <1>1, <1>2 DEF RunsBy
<1>7. Runs(p, t, b[1], m, C)
  BY <1>3, <1>5 DEF Runs
<1>8. b[1] \in Levels
  BY <1>1, <1>2
<1> QED BY <1>1, <1>2, <1>6, <1>7, <1>8

LEMMA RunsOp ==
  ASSUME NEW p, NEW C, NEW o \in Ops, NEW l \in Levels, NEW m \in Levels, Moves(o, l, m),
         o.op = "made" \/ Allowed(p, o, o.key \in C, l)
  PROVE  Runs(p, <<o>>, l, m, C)
<1> DEFINE b == [n \in 0 .. 1 |-> IF n = 0 THEN l ELSE m]
<1>1. Len(<<o>>) = 1 /\ <<o>>[1] = o /\ DOMAIN <<o>> = {1} /\ 0 .. Len(<<o>>) - 1 = {0}
  OBVIOUS
<1>2. b \in [0 .. Len(<<o>>) -> Levels] /\ b[0] = l /\ b[1] = m
  BY <1>1
<1>3. Allowed(p, o, o.key \in C \/ Ahead(<<o>>, 0, o.key), l)
  <2>1. CASE o.op = "made"
    BY <2>1 DEF Allowed
  <2>2. CASE o.op # "made"
    <3>1. ~Ahead(<<o>>, 0, o.key)
      BY <1>1, <2>2 DEF Ahead
    <3> QED BY <2>2, <3>1
  <2> QED BY <2>1, <2>2
<1>4. RunsBy(p, <<o>>, C, b)
  <2> HIDE DEF b
  <2> QED BY <1>1, <1>2, <1>3 DEF RunsBy
<1> QED BY <1>1, <1>2, <1>4 DEF Runs

LEMMA RunsJoined ==
  ASSUME NEW p, NEW C, NEW D, NEW s \in Seq(Ops), NEW t \in Seq(Ops),
         NEW l \in Levels, NEW h \in Levels, NEW m \in Levels,
         Runs(p, s, l, h, D), Runs(p, t, h, m, C),
         \A k \in Keys : k \in D <=> k \in C \/ Ahead(t, 0, k)
  PROVE  Runs(p, s \o t, l, m, C)
<1>1. PICK b \in [0 .. Len(s) -> Levels] : RunsBy(p, s, D, b) /\ b[0] = l /\ b[Len(s)] = h
  BY DEF Runs
<1>2. PICK c \in [0 .. Len(t) -> Levels] : RunsBy(p, t, C, c) /\ c[0] = h /\ c[Len(t)] = m
  BY DEF Runs
<1> DEFINE u == s \o t
           N == Len(s)
           e == [n \in 0 .. Len(u) |-> IF n <= N THEN b[n] ELSE c[n - N]]
<1>3. /\ N \in Nat /\ Len(t) \in Nat /\ u \in Seq(Ops) /\ Len(u) = N + Len(t)
      /\ DOMAIN s = 1 .. N /\ DOMAIN t = 1 .. Len(t) /\ DOMAIN u = 1 .. N + Len(t)
      /\ \A i \in 1 .. N : u[i] = s[i]
      /\ \A i \in N + 1 .. N + Len(t) : u[i] = t[i - N]
  OBVIOUS
<1> HIDE DEF u, N
<1>4. e \in [0 .. Len(u) -> Levels] /\ e[0] = l /\ e[Len(u)] = m
  <2>1. ASSUME NEW n \in 0 .. Len(u) PROVE (IF n <= N THEN b[n] ELSE c[n - N]) \in Levels
    <3>1. CASE n <= N
      <4>1. n \in 0 .. Len(s)
        BY <1>3, <3>1 DEF N
      <4>2. b[n] \in Levels
        BY <1>1, <4>1
      <4> QED BY <3>1, <4>2
    <3>2. CASE ~(n <= N)
      <4>1. n - N \in 0 .. Len(t)
        BY <1>3, <3>2
      <4>2. c[n - N] \in Levels
        BY <1>2, <4>1
      <4> QED BY <3>2, <4>2
    <3> QED BY <3>1, <3>2
  <2>2. e[0] = l
    BY <1>1, <1>3
  <2>3. e[Len(u)] = m
    <3>1. CASE Len(t) = 0
      BY <1>1, <1>2, <1>3, <3>1 DEF N
    <3>2. CASE Len(t) # 0
      BY <1>1, <1>2, <1>3, <3>2
    <3> QED BY <3>1, <3>2
  <2> QED BY <2>1, <2>2, <2>3
<1>5. \A n \in 0 .. N : \A k : Ahead(u, n, k) <=> Ahead(s, n, k) \/ Ahead(t, 0, k)
  <2> SUFFICES ASSUME NEW n \in 0 .. N, NEW k
               PROVE  Ahead(u, n, k) <=> Ahead(s, n, k) \/ Ahead(t, 0, k)
    OBVIOUS
  <2>1. ASSUME NEW i \in DOMAIN u, i > n, u[i].op = "made", u[i].key = k
        PROVE  Ahead(s, n, k) \/ Ahead(t, 0, k)
    <3>1. CASE i <= N
      BY <1>3, <2>1, <3>1 DEF Ahead
    <3>2. CASE ~(i <= N)
      <4>1. i - N \in DOMAIN t /\ i - N > 0 /\ t[i - N] = u[i]
        BY <1>3, <3>2
      <4> QED BY <2>1, <4>1 DEF Ahead
    <3> QED BY <3>1, <3>2
  <2>2. ASSUME NEW i \in DOMAIN s, i > n, s[i].op = "made", s[i].key = k PROVE Ahead(u, n, k)
    BY <1>3, <2>2 DEF Ahead
  <2>3. ASSUME NEW i \in DOMAIN t, i > 0, t[i].op = "made", t[i].key = k PROVE Ahead(u, n, k)
    <3>1. i + N \in DOMAIN u /\ i + N > n /\ u[i + N] = t[i]
      BY <1>3
    <3> QED BY <2>3, <3>1 DEF Ahead
  <2> QED BY <2>1, <2>2, <2>3 DEF Ahead
<1>6. \A n \in 0 .. Len(t) : \A k : Ahead(u, N + n, k) <=> Ahead(t, n, k)
  <2> SUFFICES ASSUME NEW n \in 0 .. Len(t), NEW k PROVE Ahead(u, N + n, k) <=> Ahead(t, n, k)
    OBVIOUS
  <2>1. ASSUME NEW i \in DOMAIN u, i > N + n, u[i].op = "made", u[i].key = k PROVE Ahead(t, n, k)
    <3>1. i - N \in DOMAIN t /\ i - N > n /\ t[i - N] = u[i]
      BY <1>3, <2>1
    <3> QED BY <2>1, <3>1 DEF Ahead
  <2>2. ASSUME NEW i \in DOMAIN t, i > n, t[i].op = "made", t[i].key = k PROVE Ahead(u, N + n, k)
    <3>1. i + N \in DOMAIN u /\ i + N > N + n /\ u[i + N] = t[i]
      BY <1>3, <2>2
    <3> QED BY <2>2, <3>1 DEF Ahead
  <2> QED BY <2>1, <2>2 DEF Ahead
<1>7. RunsBy(p, u, C, e)
  <2> SUFFICES ASSUME NEW n \in 0 .. Len(u) - 1
               PROVE  /\ Moves(u[n + 1], e[n], e[n + 1])
                      /\ Allowed(p, u[n + 1], u[n + 1].key \in C \/ Ahead(u, n, u[n + 1].key), e[n])
    BY <1>4 DEF RunsBy
  <2>1. CASE n < N
    <3>1. /\ n \in 0 .. N /\ n \in 0 .. N - 1 /\ u[n + 1] = s[n + 1] /\ e[n] = b[n] /\ e[n + 1] = b[n + 1]
          /\ n + 1 \in DOMAIN s
      BY <1>3, <2>1
    <3>2. s[n + 1].key \in Keys
      <4>1. s[n + 1] \in Ops
        BY <3>1
      <4> QED BY <4>1 DEF Ops
    <3>3. /\ Moves(s[n + 1], b[n], b[n + 1])
          /\ Allowed(p, s[n + 1], s[n + 1].key \in D \/ Ahead(s, n, s[n + 1].key), b[n])
      BY <1>1, <3>1 DEF RunsBy, N
    <3>4. (s[n + 1].key \in D \/ Ahead(s, n, s[n + 1].key))
             = (s[n + 1].key \in C \/ Ahead(u, n, s[n + 1].key))
      BY <1>5, <3>1, <3>2
    <3> HIDE DEF e
    <3> QED BY <3>1, <3>3, <3>4
  <2>2. CASE ~(n < N)
    <3> DEFINE j == n - N
    <3>1. /\ j \in 0 .. Len(t) - 1 /\ j \in 0 .. Len(t) /\ N + j = n /\ u[n + 1] = t[j + 1]
          /\ e[n + 1] = c[j + 1]
      <4>1. /\ j \in 0 .. Len(t) - 1 /\ j \in 0 .. Len(t) /\ N + j = n /\ n \in Nat
            /\ n + 1 \in 0 .. Len(u) /\ ~(n + 1 <= N) /\ (n + 1) - N = j + 1
            /\ n + 1 \in N + 1 .. N + Len(t)
        BY <1>3, <2>2
      <4>2. u[n + 1] = t[j + 1]
        BY <1>3, <4>1
      <4>3. e[n + 1] = c[(n + 1) - N]
        BY <4>1
      <4> QED BY <4>1, <4>2, <4>3
    <3>2. e[n] = c[j]
      <4>1. CASE n = N
        BY <1>1, <1>2, <1>3, <4>1 DEF N
      <4>2. CASE n # N
        BY <1>3, <2>2, <4>2
      <4> QED BY <4>1, <4>2
    <3> HIDE DEF j, e
    <3>3. /\ Moves(t[j + 1], c[j], c[j + 1])
          /\ Allowed(p, t[j + 1], t[j + 1].key \in C \/ Ahead(t, j, t[j + 1].key), c[j])
      BY <1>2, <3>1 DEF RunsBy
    <3>4. Ahead(u, n, t[j + 1].key) <=> Ahead(t, j, t[j + 1].key)
      BY <1>6, <3>1
    <3>5. (t[j + 1].key \in C \/ Ahead(u, n, t[j + 1].key))
             = (t[j + 1].key \in C \/ Ahead(t, j, t[j + 1].key))
      BY <3>4
    <3> QED BY <3>1, <3>2, <3>3, <3>5
  <2> QED BY <1>3, <2>1, <2>2
<1> HIDE DEF e
<1>8. Runs(p, u, l, m, C)
  BY <1>4, <1>7 DEF Runs
<1> QED BY <1>8 DEF u

LEMMA PlansJoined ==
  ASSUME NEW p, NEW C, NEW s \in Plans, NEW t \in Plans,
         NEW l \in Levels, NEW h \in Levels, NEW m \in Levels,
         Runs(p, s, l, h, C), Runs(p, t, h, m, C)
  PROVE  Runs(p, s \o t, l, m, C)
<1>1. \A k : ~Ahead(t, 0, k)
  BY DEF Ahead, Plans
<1>2. s \in Seq(Ops) /\ t \in Seq(Ops)
  BY DEF Plans
<1> QED BY <1>1, <1>2, RunsJoined

LEMMA Upwards ==
  ASSUME NEW l \in Levels, NEW k \in Keys
  PROVE  /\ Up(l, k) \in Levels /\ Up(l, k)[k] > 0
         /\ \A r \in Keys : l[r] > 0 => Up(l, k)[r] > 0
         /\ Moves([op |-> "get", key |-> k], l, Up(l, k))
         /\ Moves([op |-> "peek", key |-> k], l, Up(l, k))
         /\ Moves([op |-> "drop", key |-> k], Up(l, k), l)
<1>1. /\ Up(l, k) \in Levels /\ Up(l, k)[k] = l[k] + 1 /\ l[k] \in Nat
      /\ \A r \in Keys : r # k => Up(l, k)[r] = l[r]
  BY DEF Levels, Up
<1>2. [Up(l, k) EXCEPT ![k] = @ - 1] = l
  BY <1>1 DEF Levels
<1> QED BY <1>1, <1>2 DEF Moves

LEMMA UpCommutes ==
  ASSUME NEW l \in Levels, NEW j \in Keys, NEW k \in Keys
  PROVE  Up(Up(l, j), k) = Up(Up(l, k), j)
BY DEF Levels, Up

LEMMA OpRuns ==
  ASSUME NEW p, NEW C, NEW k \in Keys, NEW l \in Levels
  PROVE  /\ Order(k, l) /\ (k.kind = "aug" => p \notin Threads) =>
              /\ (\A r \in Inputs(p, k) : l[r] > 0) => Runs(p, Op("get", k), l, Up(l, k), C)
              /\ Runs(p, Op("peek", k), l, Up(l, k), C)
         /\ Runs(p, Op("drop", k), Up(l, k), l, C)
         /\ \A name \in {"work", "send", "sent"} :
              (\A r \in ReadsOf(p, k, k \in C) : l[r] > 0) => Runs(p, Op(name, k), l, l, C)
<1>1. \A name \in OpNames : [op |-> name, key |-> k] \in Ops /\ Op(name, k) = <<[op |-> name, key |-> k]>>
  BY DEF Ops, Op
<1>2. ASSUME \A r \in Inputs(p, k) : l[r] > 0, Order(k, l), k.kind = "aug" => p \notin Threads
      PROVE  Runs(p, Op("get", k), l, Up(l, k), C)
  <2>1. Allowed(p, [op |-> "get", key |-> k], k \in C, l)
    BY <1>2 DEF Allowed
  <2> QED BY <1>1, <2>1, Upwards, RunsOp DEF OpNames
<1>3. /\ Order(k, l) /\ (k.kind = "aug" => p \notin Threads) => Runs(p, Op("peek", k), l, Up(l, k), C)
      /\ Runs(p, Op("drop", k), Up(l, k), l, C)
  <2>1. /\ Order(k, l) /\ (k.kind = "aug" => p \notin Threads)
             => Allowed(p, [op |-> "peek", key |-> k], k \in C, l)
        /\ Allowed(p, [op |-> "drop", key |-> k], k \in C, Up(l, k))
    BY DEF Allowed
  <2> QED BY <1>1, <2>1, Upwards, RunsOp DEF OpNames
<1>4. ASSUME NEW name \in {"work", "send", "sent"}, \A r \in ReadsOf(p, k, k \in C) : l[r] > 0
      PROVE  Runs(p, Op(name, k), l, l, C)
  <2>1. Allowed(p, [op |-> name, key |-> k], k \in C, l) /\ Moves([op |-> name, key |-> k], l, l)
    BY <1>4 DEF Allowed, Moves
  <2> QED BY <1>1, <2>1, RunsOp DEF OpNames
<1> QED BY <1>2, <1>3, <1>4

LEMMA Ordered ==
  /\ \A k : Order(k, NoLocks)
  /\ \A k : \A l \in Levels, j \in Keys : Order(k, l) /\ j.kind \in Below(k.kind) => Order(k, Up(l, j))
<1>1. ASSUME NEW k PROVE Order(k, NoLocks)
  BY DEF Order, NoLocks
<1>2. ASSUME NEW k, NEW l \in Levels, NEW j \in Keys, Order(k, l), j.kind \in Below(k.kind)
      PROVE  Order(k, Up(l, j))
  <2>1. \A i \in Keys : i # j => Up(l, j)[i] = l[i]
    BY <1>2 DEF Up, Levels
  <2> QED BY <1>2, <2>1 DEF Order
<1> QED BY <1>1, <1>2

LEMMA SendRuns ==
  ASSUME NEW p, NEW C, NEW k \in Keys, NEW l \in Levels, \A r \in ReadsOf(p, k, k \in C) : l[r] > 0
  PROVE  Runs(p, Send(k), l, l, C)
<1>1. Runs(p, Op("send", k), l, l, C) /\ Runs(p, Op("sent", k), l, l, C)
  BY OpRuns
<1>2. Op("send", k) \in Seq(Ops) /\ Op("sent", k) \in Seq(Ops)
  BY OpTyped DEF OpNames
<1>3. \A j : ~Ahead(Op("sent", k), 0, j)
  BY DEF Ahead, Op
<1> QED BY <1>1, <1>2, <1>3, RunsJoined DEF Send

(* A handler that has the CSV file of a dataset, if there is one to have.    *)
WithLock(l, d) == IF d \in Stored THEN l ELSE Up(l, Csv(d))

LEMMA KindsOf ==
  ASSUME NEW d \in Datasets
  PROVE  /\ Raw(d).kind \in {"raw", "csv"} /\ Raw(d).of = <<d>>
         /\ Csv(d).kind = "csv" /\ Csv(d).of = <<d>>
         /\ Format(d).kind = "format" /\ Format(d).of = <<d>>
         /\ AugPosted(d).kind = "aug" /\ AugPosted(d).of = <<d>>
         /\ \A e : AugDataset(d, e).kind = "aug" /\ AugDataset(d, e).of = <<d, e>>
         /\ UserData.kind = "user"
BY DEF Raw, Csv, Format, AugPosted, AugDataset, UserData

LEMMA OneInput ==
  ASSUME NEW d \in Datasets, NEW k, k.of = <<d>>
  PROVE  /\ Csvs(k) = IF d \in Stored THEN {} ELSE {Csv(d)}
         /\ Raws(k) = IF d \in Stored THEN {} ELSE {Raw(d)}
<1>1. DOMAIN k.of = {1} /\ k.of[1] = d
  OBVIOUS
<1> QED BY <1>1 DEF Csvs, Raws

LEMMA WithLockTyped ==
  ASSUME NEW l \in Levels, NEW d \in Datasets
  PROVE  /\ WithLock(l, d) \in Levels
         /\ \A r \in Keys : l[r] > 0 => WithLock(l, d)[r] > 0
         /\ \A k : k.of = <<d>> => \A r \in Csvs(k) : WithLock(l, d)[r] > 0
<1>1. Csv(d) \in Keys
  BY KeysTyped
<1> QED BY <1>1, Upwards, OneInput DEF WithLock

LEMMA CsvRuns ==
  ASSUME NEW p, p \notin Threads, NEW C, NEW d \in Datasets, NEW body \in Plans,
         NEW l \in Levels, NEW m \in Levels, Order(Csv(d), l),
         Runs(p, body, WithLock(l, d), WithLock(m, d), C)
  PROVE  Runs(p, WithCsv(d, body), l, m, C)
<1>1. CASE d \in Stored
  BY <1>1 DEF WithCsv, WithLock
<1>2. CASE d \notin Stored
  <2>1. Csv(d) \in Keys /\ Csv(d).kind = "csv"
    BY KeysTyped, KindsOf
  <2>2. Inputs(p, Csv(d)) = {}
    BY <2>1 DEF Inputs
  <2>3. /\ Runs(p, Op("get", Csv(d)), l, Up(l, Csv(d)), C)
        /\ Runs(p, Op("drop", Csv(d)), Up(m, Csv(d)), m, C)
    BY <2>1, <2>2, OpRuns
  <2>4. Op("get", Csv(d)) \in Plans /\ Op("drop", Csv(d)) \in Plans
    BY <2>1, OpTyped DEF OpNames
  <2>5. Up(l, Csv(d)) \in Levels /\ Up(m, Csv(d)) \in Levels
    BY <2>1, Upwards
  <2>6. Runs(p, body, Up(l, Csv(d)), Up(m, Csv(d)), C)
    BY <1>2 DEF WithLock
  <2>7. Runs(p, Op("get", Csv(d)) \o body, l, Up(m, Csv(d)), C) /\ Op("get", Csv(d)) \o body \in Plans
    BY <2>3, <2>4, <2>5, <2>6, PlansJoined, Joined
  <2>8. Runs(p, (Op("get", Csv(d)) \o body) \o Op("drop", Csv(d)), l, m, C)
    BY <2>3, <2>4, <2>5, <2>7, PlansJoined
  <2> QED BY <1>2, <2>8 DEF WithCsv
<1> QED BY <1>1, <1>2

LEMMA NoLocksTyped == NoLocks \in Levels /\ \A k \in Keys : NoLocks[k] = 0
BY DEF NoLocks, Levels

LEMMA DownloadRuns ==
  ASSUME NEW p, p \notin Threads, NEW d \in Datasets
  PROVE  /\ Runs(p, Download(d), NoLocks, NoLocks, {})
         /\ Runs(p, DownloadAs(d), NoLocks, NoLocks, {})
<1> DEFINE f == Format(d)
           c == Csv(d)
<1>1. f \in Keys /\ c \in Keys /\ f.kind = "format" /\ f.of = <<d>> /\ c.kind = "csv" /\ c.of = <<d>>
  BY KeysTyped, KindsOf
<1>2. NoLocks \in Levels /\ WithLock(NoLocks, d) \in Levels /\ Up(NoLocks, f) \in Levels
  BY <1>1, NoLocksTyped, WithLockTyped, Upwards
<1>5. Order(c, NoLocks) /\ Order(f, WithLock(NoLocks, d))
  <2>1. c.kind \in Below(f.kind)
    BY <1>1 DEF Below
  <2> HIDE DEF f
  <2> QED BY <1>1, <1>2, <2>1, Ordered DEF WithLock
<1> HIDE DEF f, c
<1>3. Runs(p, Download(d), NoLocks, NoLocks, {})
  <2>1. \A r \in ReadsOf(p, c, c \in {}) : WithLock(NoLocks, d)[r] > 0
    <3>1. ReadsOf(p, c, c \in {}) = Csvs(c)
      BY <1>1 DEF ReadsOf
    <3> QED BY <1>1, <1>2, <3>1, WithLockTyped
  <2>2. Runs(p, Send(c), WithLock(NoLocks, d), WithLock(NoLocks, d), {})
    BY <1>1, <1>2, <2>1, SendRuns
  <2>3. Send(c) \in Plans
    BY <1>1, SendPlan
  <2> QED BY <1>2, <1>5, <2>2, <2>3, CsvRuns DEF Download, c
<1>4. Runs(p, DownloadAs(d), NoLocks, NoLocks, {})
  <2>1. \A r \in Inputs(p, f) : WithLock(NoLocks, d)[r] > 0
    <3>1. Inputs(p, f) = Csvs(f)
      BY <1>1 DEF Inputs
    <3> QED BY <1>1, <1>2, <3>1, WithLockTyped
  <2>2. Runs(p, Op("get", f), WithLock(NoLocks, d), Up(WithLock(NoLocks, d), f), {})
    BY <1>1, <1>2, <1>5, <2>1, OpRuns
  <2>3. Up(WithLock(NoLocks, d), f) = WithLock(Up(NoLocks, f), d)
    BY <1>1, <1>2, UpCommutes DEF WithLock, c
  <2>4. Op("get", f) \in Plans /\ Op("drop", f) \in Plans /\ Send(f) \in Plans
    BY <1>1, OpTyped, SendPlan DEF OpNames
  <2>5. Runs(p, WithCsv(d, Op("get", f)), NoLocks, Up(NoLocks, f), {})
    BY <1>2, <1>5, <2>2, <2>3, <2>4, CsvRuns DEF c
  <2>6. Runs(p, Send(f), Up(NoLocks, f), Up(NoLocks, f), {})
    <3>1. ReadsOf(p, f, f \in {}) = {f}
      BY <1>1 DEF ReadsOf
    <3> QED BY <1>1, <1>2, <3>1, SendRuns, Upwards
  <2>7. Runs(p, Op("drop", f), Up(NoLocks, f), NoLocks, {})
    BY <1>1, <1>2, OpRuns
  <2>8. WithCsv(d, Op("get", f)) \in Plans
    BY <2>4, CsvPlan
  <2>9. /\ Runs(p, WithCsv(d, Op("get", f)) \o Send(f), NoLocks, Up(NoLocks, f), {})
        /\ WithCsv(d, Op("get", f)) \o Send(f) \in Plans
    BY <1>2, <2>4, <2>5, <2>6, <2>8, PlansJoined, Joined
  <2>10. Runs(p, (WithCsv(d, Op("get", f)) \o Send(f)) \o Op("drop", f), NoLocks, NoLocks, {})
    BY <1>2, <2>4, <2>7, <2>9, PlansJoined
  <2> QED BY <2>10 DEF DownloadAs, f
<1> QED BY <1>3, <1>4

LEMMA AugmentRuns ==
  ASSUME NEW p, p \notin Threads, NEW k \in Keys, k.kind = "aug", NEW l \in Levels, Order(k, l)
  PROVE  Runs(p, Augment(k), l, l, {}) /\ Runs(p, AugmentResult(k), l, l, {})
<1>1. ReadsOf(p, k, k \in {}) = {k} /\ Inputs(p, k) = {}
  BY DEF ReadsOf, Inputs
<1>2. Up(l, k) \in Levels /\ Up(l, k)[k] > 0
  BY Upwards
<1>3. /\ Runs(p, Op("get", k), l, Up(l, k), {}) /\ Runs(p, Op("peek", k), l, Up(l, k), {})
      /\ Runs(p, Op("drop", k), Up(l, k), l, {})
  BY <1>1, OpRuns
<1>4. Runs(p, Send(k), Up(l, k), Up(l, k), {})
  BY <1>1, <1>2, SendRuns
<1>5. Op("get", k) \in Plans /\ Op("peek", k) \in Plans /\ Op("drop", k) \in Plans /\ Send(k) \in Plans
  BY OpTyped, SendPlan DEF OpNames
<1>6. /\ Runs(p, Op("get", k) \o Send(k), l, Up(l, k), {}) /\ Op("get", k) \o Send(k) \in Plans
      /\ Runs(p, Op("peek", k) \o Send(k), l, Up(l, k), {}) /\ Op("peek", k) \o Send(k) \in Plans
  BY <1>2, <1>3, <1>4, <1>5, PlansJoined, Joined
<1>7. /\ Runs(p, (Op("get", k) \o Send(k)) \o Op("drop", k), l, l, {})
      /\ Runs(p, (Op("peek", k) \o Send(k)) \o Op("drop", k), l, l, {})
  BY <1>2, <1>3, <1>5, <1>6, PlansJoined
<1> QED BY <1>7 DEF Augment, AugmentResult

LEMMA PostRuns ==
  ASSUME NEW p, NEW l \in Levels, Order(UserData, l)
  PROVE  Runs(p, PostData, l, l, {})
<1>1. UserData \in Keys /\ Inputs(p, UserData) = {} /\ UserData.kind # "aug"
  BY KeysTyped DEF Inputs, UserData
<1>2. Up(l, UserData) \in Levels
  BY <1>1, Upwards
<1>3. /\ Runs(p, Op("get", UserData), l, Up(l, UserData), {})
      /\ Runs(p, Op("drop", UserData), Up(l, UserData), l, {})
  BY <1>1, OpRuns
<1>4. Op("get", UserData) \in Plans /\ Op("drop", UserData) \in Plans
  BY <1>1, OpTyped DEF OpNames
<1> QED BY <1>2, <1>3, <1>4, PlansJoined DEF PostData

LEMMA TokenRuns ==
  ASSUME NEW p, p \notin Threads, NEW d \in Datasets
  PROVE  /\ Runs(p, AugmentToken(d), NoLocks, NoLocks, {})
         /\ Runs(p, PostData \o Augment(AugPosted(d)), NoLocks, NoLocks, {})
<1> DEFINE u == UserData
           l == Up(NoLocks, u)
           a == AugPosted(d)
<1>1. u \in Keys /\ a \in Keys /\ a.kind = "aug" /\ NoLocks \in Levels /\ l \in Levels
  BY KeysTyped, KindsOf, NoLocksTyped, Upwards
<1>2. Op("peek", u) \in Plans /\ Op("drop", u) \in Plans /\ PostData \in Plans /\ Augment(a) \in Plans
  BY <1>1, OpTyped, PostPlan, SendPlan DEF OpNames
<1>9. \A m \in {NoLocks, l} : m \in Levels /\ Order(u, m) /\ Order(a, m)
  <2>1. u.kind \in Below(u.kind) /\ u.kind \in Below(a.kind)
    BY <1>1, KindsOf DEF Below
  <2> HIDE DEF u, a
  <2> QED BY <1>1, <2>1, Ordered
<1>3. Runs(p, Op("peek", u), NoLocks, l, {}) /\ Runs(p, Op("drop", u), l, NoLocks, {})
  BY <1>1, <1>9, OpRuns
<1>4. \A m \in {NoLocks, l} : Runs(p, PostData, m, m, {}) /\ Runs(p, Augment(a), m, m, {})
  <2> HIDE DEF l, a
  <2> QED BY <1>1, <1>9, PostRuns, AugmentRuns
<1> HIDE DEF u, l, a
<1>5. Runs(p, Op("peek", u) \o PostData, NoLocks, l, {}) /\ Op("peek", u) \o PostData \in Plans
  BY <1>1, <1>2, <1>3, <1>4, PlansJoined, Joined
<1>6. /\ Runs(p, (Op("peek", u) \o PostData) \o Augment(a), NoLocks, l, {})
      /\ (Op("peek", u) \o PostData) \o Augment(a) \in Plans
  BY <1>1, <1>2, <1>4, <1>5, PlansJoined, Joined
<1>7. Runs(p, ((Op("peek", u) \o PostData) \o Augment(a)) \o Op("drop", u), NoLocks, NoLocks, {})
  BY <1>1, <1>2, <1>3, <1>6, PlansJoined
<1>8. Runs(p, PostData \o Augment(a), NoLocks, NoLocks, {})
  BY <1>1, <1>2, <1>4, PlansJoined
<1> QED BY <1>7, <1>8 DEF AugmentToken, u, a

LEMMA ProfileRuns ==
  ASSUME NEW p \in Threads, NEW d \in Datasets
  PROVE  Runs(p, Profile(d), NoLocks, NoLocks, {})
<1> DEFINE c == Csv(d)
           r == Raw(d)
           l == IF d \in Stored THEN NoLocks ELSE Up(NoLocks, r)
           convert == IF d \in Converted
                      THEN Op("get", c) \o Op("work", c) \o Op("drop", c)
                      ELSE Op("work", c)
<1>1. /\ c \in Keys /\ r \in Keys /\ c.kind = "csv" /\ c.of = <<d>>
      /\ r.kind \in {"raw", "csv"} /\ r.of = <<d>>
      /\ d \notin Converted => r = c
  BY KeysTyped, KindsOf DEF Raw, Csv
<1>2. NoLocks \in Levels /\ l \in Levels /\ Up(l, c) \in Levels
  BY <1>1, NoLocksTyped, Upwards
<1>3. /\ Op("get", c) \in Plans /\ Op("work", c) \in Plans /\ Op("drop", c) \in Plans
      /\ Op("get", r) \in Plans /\ Op("drop", r) \in Plans
  BY <1>1, OpTyped DEF OpNames
<1>4. /\ Csvs(c) = IF d \in Stored THEN {} ELSE {c}
      /\ Raws(c) = IF d \in Stored THEN {} ELSE {r}
      /\ Raws(r) = IF d \in Stored THEN {} ELSE {r}
  BY <1>1, OneInput
<1>5. d \notin Stored => l[r] > 0
  BY <1>1, NoLocksTyped, Upwards
<1>6. ReadsOf(p, c, c \in {}) = Csvs(c) /\ Inputs(p, c) = Raws(c) \ {c} /\ Inputs(p, r) = {}
  BY <1>1, <1>4 DEF ReadsOf, Inputs
<1>7. convert \in Plans /\ Runs(p, convert, l, l, {})
  <2>1. CASE d \in Converted
    <3>1. \A k \in Inputs(p, c) : l[k] > 0
      BY <1>4, <1>5, <1>6
    <3>7. Order(c, l)
      <4>1. r.kind \in Below(c.kind)
        BY <1>1 DEF Below
      <4> HIDE DEF c, r
      <4> QED BY <1>1, <1>2, <4>1, Ordered
    <3>2. Runs(p, Op("get", c), l, Up(l, c), {}) /\ Runs(p, Op("drop", c), Up(l, c), l, {})
      <4> HIDE DEF c, l
      <4> QED BY <1>1, <1>2, <3>1, <3>7, OpRuns
    <3>3. \A k \in ReadsOf(p, c, c \in {}) : Up(l, c)[k] > 0
      <4> HIDE DEF c, l
      <4> QED BY <1>1, <1>2, <1>4, <1>6, Upwards DEF c
    <3> HIDE DEF c, l
    <3>4. Runs(p, Op("work", c), Up(l, c), Up(l, c), {})
      BY <1>1, <1>2, <3>3, OpRuns
    <3>5. Runs(p, Op("get", c) \o Op("work", c), l, Up(l, c), {}) /\ Op("get", c) \o Op("work", c) \in Plans
      BY <1>2, <1>3, <3>2, <3>4, PlansJoined, Joined
    <3>6. /\ Runs(p, (Op("get", c) \o Op("work", c)) \o Op("drop", c), l, l, {})
          /\ (Op("get", c) \o Op("work", c)) \o Op("drop", c) \in Plans
      BY <1>2, <1>3, <3>2, <3>5, PlansJoined, Joined
    <3> QED BY <2>1, <3>6 DEF c
  <2>2. CASE d \notin Converted
    <3>1. \A k \in ReadsOf(p, c, c \in {}) : l[k] > 0
      BY <1>1, <1>4, <1>5, <1>6, <2>2
    <3>2. Runs(p, Op("work", c), l, l, {})
      <4> HIDE DEF c, l
      <4> QED BY <1>1, <1>2, <3>1, OpRuns
    <3> QED BY <1>3, <2>2, <3>2
  <2> QED BY <2>1, <2>2
<1>8. CASE d \in Stored
  BY <1>7, <1>8 DEF Profile
<1>9. CASE d \notin Stored
  <2>1. Runs(p, Op("get", r), NoLocks, l, {}) /\ Runs(p, Op("drop", r), l, NoLocks, {}) /\ r.kind # "aug"
    <3>1. r.kind # "aug" /\ l = Up(NoLocks, r)
      BY <1>1, <1>9
    <3> HIDE DEF r, l
    <3> QED BY <1>1, <1>2, <1>6, <3>1, Ordered, OpRuns
  <2> HIDE DEF r, l, convert
  <2>2. Runs(p, Op("get", r) \o convert, NoLocks, l, {}) /\ Op("get", r) \o convert \in Plans
    BY <1>2, <1>3, <1>7, <2>1, PlansJoined, Joined
  <2>3. Runs(p, (Op("get", r) \o convert) \o Op("drop", r), NoLocks, NoLocks, {})
    BY <1>2, <1>3, <2>1, <2>2, PlansJoined
  <2> QED BY <1>9, <2>3 DEF Profile, r, convert, c
<1> QED BY <1>8, <1>9

LEMMA RequestRuns ==
  ASSUME NEW p \in Procs, NEW request \in Requests(p)
  PROVE  Runs(p, request, NoLocks, NoLocks, {})
<1>1. CASE p \in Threads
  BY <1>1, ProfileRuns DEF Requests
<1>2. CASE p \notin Threads
  <2>1. Endpoints[p] \subseteq {"download", "augment", "result"}
    BY <1>2, EndpointsAssumption DEF Procs
  <2>2. PICK endpoint \in Endpoints[p], d \in Datasets : request \in Serve(endpoint, d)
    BY <1>2 DEF Requests
  <2>3. /\ AugPosted(d) \in Keys /\ AugPosted(d).kind = "aug"
        /\ \A e \in DataIds : AugDataset(d, e) \in Keys /\ AugDataset(d, e).kind = "aug"
        /\ NoLocks \in Levels
    BY KeysTyped, KindsOf, NoLocksTyped
  <2>4. \/ request = Download(d) \/ request = DownloadAs(d)
        \/ request = PostData \o Augment(AugPosted(d)) \/ request = AugmentToken(d)
        \/ \E e \in DataIds : request = Augment(AugDataset(d, e))
        \/ request = AugmentResult(AugPosted(d))
    BY <2>1, <2>2 DEF Serve
  <2> QED BY <1>2, <2>3, <2>4, Ordered, DownloadRuns, TokenRuns, AugmentRuns
<1> QED BY <1>1, <1>2

(* What is started under an exclusive lock leaves the locks as they were.   *)
LEMMA CreateRuns ==
  ASSUME NEW p, NEW k \in Keys, NEW C, k \in C, NEW l \in Levels, Order(k, l),
         \A r \in Inputs(p, k) : l[r] > 0, k.kind = "aug" => p \notin Threads
  PROVE  Runs(p, Create(k), l, l, C)
<1>1. Op("work", k) \in Plans
  BY OpTyped DEF OpNames
<1>2. CASE k.kind # "aug"
  <2>1. ReadsOf(p, k, k \in C) = Inputs(p, k)
    <3>1. k.kind \in {"user", "raw", "csv", "format", "aug"}
      BY DEF Keys, UserData, Raw, Csv, Format, AugPosted, AugDataset
    <3> QED BY <1>2, <3>1 DEF ReadsOf, Inputs
  <2>2. Runs(p, Op("work", k), l, l, C)
    BY <2>1, OpRuns
  <2> QED BY <1>2, <2>2 DEF Create
<1>3. CASE k.kind = "aug"
  <2>1. \/ \E d \in Datasets : k = AugPosted(d)
        \/ \E d \in Datasets, e \in DataIds : k = AugDataset(d, e)
    BY <1>3 DEF Keys, UserData, Raw, Csv, Format
  <2>2. ReadsOf(p, k, k \in C) = Csvs(k)
    BY <1>3 DEF ReadsOf
  <2>5. \A d \in Datasets : Order(Csv(d), l)
    BY <1>3, KindsOf DEF Order, Below
  <2>3. ASSUME NEW d \in Datasets, k = AugPosted(d) PROVE Runs(p, Create(k), l, l, C)
    <3>1. k.of = <<d>>
      BY <2>3, KindsOf
    <3>2. Runs(p, Op("work", k), WithLock(l, d), WithLock(l, d), C)
      BY <2>2, <3>1, WithLockTyped, OpRuns
    <3> QED BY <1>1, <1>3, <2>5, <3>1, <3>2, CsvRuns DEF Create
  <2>4. ASSUME NEW d \in Datasets, NEW e \in DataIds, k = AugDataset(d, e)
        PROVE Runs(p, Create(k), l, l, C)
    <3>1. k.of = <<d, e>> /\ e \in Datasets
      BY <2>4, KindsOf, DatasetsAssumption
    <3> DEFINE h == WithLock(l, d)
               m == WithLock(h, e)
    <3>2. h \in Levels /\ m \in Levels
      BY <3>1, WithLockTyped
    <3>6. Order(Csv(e), h)
      <4>1. Csv(d) \in Keys /\ Csv(d).kind \in Below(Csv(e).kind)
        BY <3>1, KeysTyped, KindsOf DEF Below
      <4> QED BY <2>5, <3>1, <4>1, Ordered DEF WithLock
    <3>3. \A r \in Csvs(k) : m[r] > 0
      <4>1. \A r \in Csvs(k) : (r = Csv(d) /\ d \notin Stored) \/ (r = Csv(e) /\ e \notin Stored)
        BY <3>1 DEF Csvs
      <4>2. Csv(d) \in Keys /\ Csv(e) \in Keys
        BY <3>1, KeysTyped
      <4>3. d \notin Stored => h[Csv(d)] > 0
        BY <4>2, Upwards DEF WithLock
      <4>4. e \notin Stored => m[Csv(e)] > 0
        BY <3>2, <4>2, Upwards DEF WithLock
      <4>5. d \notin Stored => m[Csv(d)] > 0
        BY <3>1, <3>2, <4>2, <4>3, WithLockTyped
      <4> QED BY <4>1, <4>4, <4>5
    <3>4. Runs(p, Op("work", k), m, m, C)
      <4> HIDE DEF m, h
      <4> QED BY <2>2, <3>2, <3>3, OpRuns
    <3>5. Runs(p, WithCsv(e, Op("work", k)), h, h, C) /\ WithCsv(e, Op("work", k)) \in Plans
      <4> HIDE DEF h
      <4> QED BY <1>1, <1>3, <3>1, <3>2, <3>4, <3>6, CsvRuns, CsvPlan
    <3> QED BY <1>3, <2>5, <3>1, <3>5, CsvRuns DEF Create
  <2> QED BY <2>1, <2>3, <2>4
<1> QED BY <1>2, <1>3

(* Each process has the locks that the rest of its request starts from;     *)
(* when an exception passes through it, gets are left out, and it has no    *)
(* more than that.                                                          *)
Covered(p) ==
  \E l \in Levels :
    /\ Runs(p, todo[p], l, NoLocks, {})
    /\ \A k \in Keys : held[p][k] <= l[k]
    /\ phase[p] # "unwind" => held[p] = l
(* Whoever has a key locked exclusively will complete its creation.         *)
WriterCompletes ==
  \A p \in Procs, k \in Keys : writer[k] = p => Ahead(todo[p], 0, k)
LockInv == WriterCompletes /\ \A p \in Procs : Covered(p)

(* A creation starts where a key is got.                                    *)
LEMMA LockRuns ==
  ASSUME TypeOK, NEW p \in Procs, NEW l \in Levels, todo[p] # <<>>, Head(todo[p]).op = "get",
         Runs(p, todo[p], l, NoLocks, {})
  PROVE  Runs(p, Create(KeyOf(p)) \o Op("made", KeyOf(p)) \o todo[p], l, NoLocks, {})
<1> DEFINE k == KeyOf(p)
           s == todo[p]
           o == [op |-> "made", key |-> k]
           C == {j \in Keys : Ahead(s, 0, j)}
<1>1. k \in Keys /\ s \in Seq(Ops) /\ NoLocks \in Levels /\ o \in Ops
  BY HeadTyped, NoLocksTyped DEF TypeOK, Ops, OpNames
<1>2. /\ Create(k) \in Seq(Ops) /\ Op("made", k) \in Seq(Ops) /\ Op("made", k) = <<o>>
      /\ \A i \in DOMAIN Create(k) : Create(k)[i].op # "made"
  BY <1>1, CreatePlan, OpTyped DEF Plans, Op, OpNames
<1>3. (\A r \in Inputs(p, k) : l[r] > 0) /\ (k.kind = "aug" => p \notin Threads) /\ Order(k, l)
  <2>1. Allowed(p, Head(s), Head(s).key \in {} \/ Ahead(s, 0, Head(s).key), l)
    BY <1>1, RunsTail
  <2> QED BY <2>1 DEF Allowed, KeyOf
<1> HIDE DEF k, s
<1>4. Runs(p, <<o>>, l, l, C)
  <2>1. Moves(o, l, l)
    BY DEF Moves
  <2> QED BY <1>1, <2>1, RunsOp
<1>5. \A j \in Keys : j \in C \cup {k} <=> j \in C \/ Ahead(<<o>>, 0, j)
  BY DEF Ahead
<1>6. Runs(p, Create(k), l, l, C \cup {k})
  BY <1>1, <1>3, CreateRuns
<1>7. Runs(p, Create(k) \o <<o>>, l, l, C)
  <2>1. <<o>> \in Seq(Ops)
    BY <1>1
  <2> HIDE DEF o, C
  <2> QED BY <1>2, <1>4, <1>5, <1>6, <2>1, RunsJoined
<1>8. Create(k) \o <<o>> \in Seq(Ops)
  BY <1>1, <1>2
<1>9. Runs(p, (Create(k) \o <<o>>) \o s, l, NoLocks, {})
  <2>1. Runs(p, s, l, NoLocks, {})
    BY DEF s
  <2>2. \A j \in Keys : j \in C <=> j \in {} \/ Ahead(s, 0, j)
    OBVIOUS
  <2> HIDE DEF o, C
  <2> QED BY <1>1, <1>7, <1>8, <2>1, <2>2, RunsJoined
<1> QED BY <1>2, <1>9 DEF k, s

(* The next operation of a request that goes well.                          *)
LEMMA CoveredNext ==
  ASSUME TypeOK, NEW p \in Procs, Covered(p), todo[p] # <<>>, phase[p] # "unwind",
         todo'[p] = Tail(todo[p]), Moves(Head(todo[p]), held[p], held'[p]), phase'[p] # "unwind"
  PROVE  Covered(p)'
<1>1. Runs(p, todo[p], held[p], NoLocks, {}) /\ held[p] \in Levels
  BY DEF Covered
<1>2. todo[p] \in Seq(Ops) /\ NoLocks \in Levels
  BY NoLocksTyped DEF TypeOK, Ops
<1>3. PICK h \in Levels : Moves(Head(todo[p]), held[p], h) /\ Runs(p, Tail(todo[p]), h, NoLocks, {})
  BY <1>1, <1>2, RunsTail
<1>4. h = held'[p]
  BY <1>3 DEF Moves
<1>5. \A k \in Keys : held'[p][k] <= h[k]
  BY <1>4 DEF Levels
<1> QED BY <1>3, <1>4, <1>5 DEF Covered

(* What an exception leaves, or a drop of a lock that was not taken.        *)
LEMMA CoveredUnwound ==
  ASSUME TypeOK, NEW p \in Procs, Covered(p), todo[p] # <<>>, phase[p] = "unwind",
         todo'[p] = Tail(todo[p]),
         \A k \in Keys : held'[p][k] =
           IF Head(todo[p]).op = "drop" /\ k = KeyOf(p) /\ held[p][k] # 0
           THEN held[p][k] - 1 ELSE held[p][k],
         held'[p] \in Levels,
         phase'[p] = IF Tail(todo[p]) = <<>> THEN "look" ELSE "unwind"
  PROVE  Covered(p)'
<1>1. PICK l \in Levels : Runs(p, todo[p], l, NoLocks, {}) /\ \A k \in Keys : held[p][k] <= l[k]
  BY DEF Covered
<1>2. todo[p] \in Seq(Ops) /\ NoLocks \in Levels /\ KeyOf(p) \in Keys
  BY NoLocksTyped, HeadTyped DEF TypeOK, Ops
<1>3. PICK h \in Levels : Moves(Head(todo[p]), l, h) /\ Runs(p, Tail(todo[p]), h, NoLocks, {})
  BY <1>1, <1>2, RunsTail
<1>4. ASSUME NEW k \in Keys PROVE held'[p][k] <= h[k]
  <2>1. held[p][k] \in Nat /\ l[k] \in Nat /\ h[k] \in Nat /\ held[p][k] <= l[k]
    BY <1>1 DEF TypeOK, Levels
  <2>2. CASE Head(todo[p]).op = "drop"
    <3>1. h[k] = IF k = KeyOf(p) THEN l[k] - 1 ELSE l[k]
      BY <1>2, <1>3, <2>2 DEF Moves, KeyOf, Levels
    <3>2. k = KeyOf(p) => l[k] > 0
      BY <1>3, <2>2 DEF Moves, KeyOf
    <3> QED BY <2>1, <2>2, <3>1, <3>2
  <2>3. CASE Head(todo[p]).op # "drop"
    <3>1. h[k] = l[k] \/ h[k] = l[k] + 1
      BY <1>2, <1>3, <2>3 DEF Moves, Up, KeyOf, Levels
    <3> QED BY <2>1, <2>3, <3>1
  <2> QED BY <2>2, <2>3
<1>5. ASSUME Tail(todo[p]) = <<>> PROVE held'[p] = h
  <2>1. h = NoLocks
    <3>1. Runs(p, <<>>, h, NoLocks, {})
      BY <1>3, <1>5
    <3> QED BY <1>2, <3>1, RunsNothing
  <2>2. \A k \in Keys : held'[p][k] <= 0 /\ held'[p][k] \in Nat
    BY <1>4, <2>1 DEF NoLocks, Levels
  <2>3. \A k \in Keys : held'[p][k] = 0
    BY <2>2
  <2> QED BY <2>1, <2>3 DEF NoLocks, Levels
<1> QED BY <1>3, <1>4, <1>5 DEF Covered

LEMMA CoveredSame ==
  ASSUME NEW p \in Procs, Covered(p), todo'[p] = todo[p], held'[p] = held[p],
         phase[p] # "unwind" \/ phase'[p] = "unwind"
  PROVE  Covered(p)'
BY DEF Covered

LEMMA StepCovered ==
  ASSUME TypeOK, TypeOK', \A q \in Procs : Covered(q), [Next]_vars, NEW q \in Procs
  PROVE  Covered(q)'
<1>1. CASE UNCHANGED <<todo, held, phase>>
  BY <1>1, CoveredSame
<1>2. ASSUME NEW p \in Procs, p # q, Start(p) \/ Step(p) PROVE Covered(q)'
  <2>1. todo'[q] = todo[q] /\ held'[q] = held[q] /\ phase'[q] = phase[q]
    BY <1>2 DEF Start, Step, Look, Lock, Made, Peek, Work, Drop, Await, Resume, Unwind, Continue, Hold, TypeOK
  <2> QED BY <2>1, CoveredSame
<1>3. CASE Start(q)
  <2>1. PICK request \in Requests(q) : todo'[q] = request
    BY <1>3 DEF Start, TypeOK
  <2>2. held[q] = NoLocks
    <3>1. PICK l \in Levels : Runs(q, <<>>, l, NoLocks, {}) /\ \A k \in Keys : held[q][k] <= l[k]
      BY <1>3 DEF Covered, Start
    <3>2. l = NoLocks
      BY <3>1, RunsNothing, NoLocksTyped
    <3>3. \A k \in Keys : held[q][k] \in Nat /\ held[q][k] <= 0
      BY <3>1, <3>2 DEF NoLocks, TypeOK
    <3>4. \A k \in Keys : held[q][k] = 0
      BY <3>3
    <3> QED BY <3>4 DEF NoLocks, TypeOK
  <2>3. Runs(q, todo'[q], NoLocks, NoLocks, {}) /\ held'[q] = NoLocks
    BY <1>3, <2>1, <2>2, RequestRuns DEF Start
  <2> QED BY <2>3, NoLocksTyped DEF Covered
<1>4. ASSUME Look(q) \/ Peek(q), entry[KeyOf(q)] PROVE Covered(q)'
  <2>1. /\ todo[q] # <<>> /\ phase[q] = "look" /\ Head(todo[q]).op \in {"get", "peek"}
        /\ Hold(q, KeyOf(q)) /\ Continue(q, Tail(todo[q]))
    BY <1>4 DEF Look, Peek, At
  <2>2. todo'[q] = Tail(todo[q]) /\ phase'[q] = "look"
    BY <2>1 DEF Continue, TypeOK
  <2>3. held'[q] = Up(held[q], KeyOf(q)) /\ held'[q] \in Levels
    BY <2>1 DEF Hold, Up, TypeOK, Levels
  <2>4. Moves(Head(todo[q]), held[q], held'[q])
    BY <2>1, <2>3 DEF Moves, KeyOf
  <2> QED BY <2>1, <2>2, <2>4, CoveredNext
<1>5. ASSUME Look(q) \/ Peek(q), ~entry[KeyOf(q)] PROVE Covered(q)'
  <2>1. phase[q] = "look" /\ UNCHANGED <<held, todo>>
    BY <1>5 DEF Look, Peek, At
  <2> QED BY <2>1, CoveredSame
<1>6. CASE Lock(q)
  <2>1. /\ todo[q] # <<>> /\ phase[q] = "lock" /\ Head(todo[q]).op = "get" /\ held' = held
    BY <1>6 DEF Lock, At
  <2>2. CASE entry[KeyOf(q)]
    BY <1>6, <2>1, <2>2, CoveredSame DEF Lock
  <2>3. CASE ~entry[KeyOf(q)]
    <3>1. todo'[q] = Create(KeyOf(q)) \o Op("made", KeyOf(q)) \o todo[q]
      BY <1>6, <2>3 DEF Lock, TypeOK
    <3>2. PICK l \in Levels : /\ Runs(q, todo[q], l, NoLocks, {}) /\ held[q] = l
                              /\ \A k \in Keys : held[q][k] <= l[k]
      BY <2>1 DEF Covered
    <3>3. Runs(q, todo'[q], l, NoLocks, {})
      BY <2>1, <3>1, <3>2, LockRuns
    <3> QED BY <2>1, <3>2, <3>3 DEF Covered
  <2> QED BY <2>2, <2>3
<1>7. ASSUME \/ Made(q) \/ Await(q) \/ Resume(q)
             \/ Work(q) /\ Continue(q, Tail(todo[q]))
      PROVE  Covered(q)'
  <2>1. /\ todo[q] # <<>> /\ phase[q] = "look" /\ Head(todo[q]).op \in {"made", "send", "sent", "work"}
        /\ held' = held /\ todo' = [todo EXCEPT ![q] = Tail(todo[q])]
        /\ phase' = phase \/ phase' = [phase EXCEPT ![q] = "look"]
    BY <1>7 DEF Made, Await, Resume, Work, At, Continue
  <2>2. todo'[q] = Tail(todo[q]) /\ phase'[q] = "look" /\ held[q] \in Levels
    BY <2>1 DEF TypeOK, Levels
  <2>3. Moves(Head(todo[q]), held[q], held'[q])
    BY <2>1, <2>2 DEF Moves
  <2> QED BY <2>1, <2>2, <2>3, CoveredNext
<1>8. ASSUME Work(q), ~Continue(q, Tail(todo[q])) PROVE Covered(q)'
  <2>1. phase[q] = "look" /\ UNCHANGED <<held, todo>>
    BY <1>8 DEF Work, At
  <2> QED BY <2>1, CoveredSame
<1>9. CASE Drop(q)
  <2>1. /\ todo[q] # <<>> /\ Head(todo[q]).op = "drop" /\ phase[q] \in {"look", "unwind"}
        /\ held' = [held EXCEPT ![q][KeyOf(q)] = IF @ = 0 THEN 0 ELSE @ - 1]
        /\ Continue(q, Tail(todo[q]))
    BY <1>9 DEF Drop, At
  <2>2. /\ todo'[q] = Tail(todo[q]) /\ KeyOf(q) \in Keys /\ held'[q] \in Levels /\ held[q] \in Levels
        /\ phase'[q] = IF Tail(todo[q]) = <<>> \/ phase[q] # "unwind" THEN "look" ELSE "unwind"
    BY <2>1, HeadTyped DEF Continue, TypeOK, Levels
  <2>3. \A k \in Keys : held'[q][k] =
          IF k = KeyOf(q) /\ held[q][k] # 0 THEN held[q][k] - 1 ELSE held[q][k]
    BY <2>1, <2>2 DEF TypeOK
  <2>4. CASE phase[q] = "unwind"
    BY <2>1, <2>2, <2>3, <2>4, CoveredUnwound
  <2>5. CASE phase[q] = "look"
    <3>1. /\ todo[q] \in Seq(Ops) /\ NoLocks \in Levels /\ Runs(q, todo[q], held[q], NoLocks, {})
      BY <2>5, NoLocksTyped DEF Covered, TypeOK, Ops
    <3>2. held[q][KeyOf(q)] > 0
      <4>1. \E h \in Levels : Moves(Head(todo[q]), held[q], h)
        BY <2>1, <2>2, <3>1, RunsTail
      <4> QED BY <2>1, <4>1 DEF Moves, KeyOf
    <3>3. held'[q] = [held[q] EXCEPT ![KeyOf(q)] = @ - 1]
      <4>1. held'[q] = [held[q] EXCEPT ![KeyOf(q)] = IF @ = 0 THEN 0 ELSE @ - 1]
        BY <2>1 DEF TypeOK
      <4>2. held[q][KeyOf(q)] # 0
        BY <3>2
      <4> QED BY <4>1, <4>2, <2>2 DEF Levels
    <3>4. Moves(Head(todo[q]), held[q], held'[q])
      BY <2>1, <2>2, <3>2, <3>3 DEF Moves, KeyOf
    <3> QED BY <2>1, <2>2, <2>5, <3>4, CoveredNext
  <2> QED BY <2>1, <2>4, <2>5
<1>10. CASE Unwind(q)
  <2>1. /\ todo[q] # <<>> /\ Head(todo[q]).op # "drop" /\ phase[q] = "unwind" /\ held' = held
        /\ Continue(q, Tail(todo[q]))
    BY <1>10 DEF Unwind, At
  <2>2. /\ todo'[q] = Tail(todo[q]) /\ held'[q] \in Levels
        /\ phase'[q] = IF Tail(todo[q]) = <<>> THEN "look" ELSE "unwind"
    BY <2>1 DEF Continue, TypeOK, Levels
  <2> QED BY <2>1, <2>2, CoveredUnwound
<1>11. ASSUME NEW k \in Keys, Evict(k) PROVE Covered(q)'
  BY <1>1, <1>11 DEF Evict
<1> QED
  BY <1>1, <1>2, <1>3, <1>4, <1>5, <1>6, <1>7, <1>8, <1>9, <1>10, <1>11 DEF Next, Step, vars

LEMMA AheadOfTail ==
  ASSUME NEW s \in Seq(Ops), s # <<>>, NEW k, Ahead(s, 0, k), Head(s).op # "made" \/ Head(s).key # k
  PROVE  Ahead(Tail(s), 0, k)
<1>1. PICK i \in DOMAIN s : i > 0 /\ s[i].op = "made" /\ s[i].key = k
  BY DEF Ahead
<1>2. Head(s) = s[1] /\ i # 1
  BY <1>1
<1>3. i - 1 \in DOMAIN Tail(s) /\ i - 1 > 0 /\ Tail(s)[i - 1] = s[i]
  BY <1>1, <1>2
<1> QED BY <1>1, <1>3 DEF Ahead

LEMMA StepWriter ==
  ASSUME TypeOK, WriterCompletes, [Next]_vars
  PROVE  WriterCompletes'
<1> SUFFICES ASSUME NEW q \in Procs, NEW k \in Keys, writer'[k] = q PROVE Ahead(todo[q], 0, k)'
  BY DEF WriterCompletes
<1>1. \A s : Ahead(s, 0, k)' <=> Ahead(s', 0, k)
  BY DEF Ahead
<1>2. CASE writer'[k] = writer[k] /\ todo'[q] = todo[q]
  BY <1>1, <1>2 DEF WriterCompletes, Ahead
<1>3. ASSUME todo[q] # <<>>, todo'[q] = Tail(todo[q]), writer'[k] = writer[k],
             Head(todo[q]).op # "made" \/ Head(todo[q]).key # k
      PROVE  Ahead(todo[q], 0, k)'
  <2>1. todo[q] \in Seq(Ops) /\ Ahead(todo[q], 0, k)
    BY <1>3 DEF WriterCompletes, TypeOK, Ops
  <2>2. Ahead(Tail(todo[q]), 0, k)
    BY <1>3, <2>1, AheadOfTail
  <2> QED BY <1>3, <2>2 DEF Ahead
<1>4. ASSUME NEW p \in Procs, Start(p) PROVE Ahead(todo[q], 0, k)'
  <2>1. CASE p = q
    <3>1. writer[k] = q /\ DOMAIN todo[q] = {}
      BY <1>4, <2>1 DEF Start
    <3> QED BY <3>1 DEF WriterCompletes, Ahead
  <2>2. CASE p # q
    BY <1>2, <1>4, <2>2 DEF Start, TypeOK
  <2> QED BY <2>1, <2>2
<1>5. ASSUME NEW p \in Procs, Lock(p) PROVE Ahead(todo[q], 0, k)'
  <2>1. KeyOf(p) \in Keys
    BY <1>5, HeadTyped DEF Lock, At
  <2>2. CASE entry[KeyOf(p)]
    BY <1>2, <1>5, <2>2 DEF Lock
  <2>3. CASE ~entry[KeyOf(p)]
    <3>1. /\ writer' = [writer EXCEPT ![KeyOf(p)] = p]
          /\ todo' = [todo EXCEPT ![p] = Create(KeyOf(p)) \o Op("made", KeyOf(p)) \o @]
      BY <1>5, <2>3 DEF Lock
    <3>2. CASE p # q
      BY <1>2, <2>1, <3>1, <3>2 DEF TypeOK
    <3>3. CASE p = q
      <4> DEFINE c == Create(KeyOf(p))
                 t == todo[p]
                 o == [op |-> "made", key |-> KeyOf(p)]
                 u == (c \o <<o>>) \o t
      <4>1. c \in Seq(Ops) /\ t \in Seq(Ops) /\ o \in Ops
        BY <2>1, CreatePlan DEF Plans, TypeOK, Ops, OpNames
      <4>2. todo'[q] = u
        BY <3>1, <3>3 DEF Op, TypeOK
      <4> HIDE DEF c, t, o
      <4>3. /\ Len(c) + 1 \in DOMAIN u /\ u[Len(c) + 1] = o /\ Len(c) \in Nat
            /\ \A i \in DOMAIN t : i + Len(c) + 1 \in DOMAIN u /\ u[i + Len(c) + 1] = t[i] /\ i > 0
        <5>1. /\ c \o <<o>> \in Seq(Ops) /\ Len(c \o <<o>>) = Len(c) + 1 /\ Len(c) \in Nat
              /\ (c \o <<o>>)[Len(c) + 1] = o
          BY <4>1
        <5> DEFINE d == c \o <<o>>
        <5> HIDE DEF d
        <5>2. /\ DOMAIN (d \o t) = 1 .. Len(d) + Len(t)
              /\ \A i \in 1 .. Len(d) : (d \o t)[i] = d[i]
              /\ \A i \in 1 .. Len(t) : (d \o t)[i + Len(d)] = t[i]
              /\ DOMAIN t = 1 .. Len(t) /\ Len(t) \in Nat
          BY <4>1, <5>1 DEF d
        <5>3. u = d \o t /\ Len(d) = Len(c) + 1
          BY <5>1 DEF d
        <5>4. ASSUME NEW i \in DOMAIN t
              PROVE  i + Len(c) + 1 \in DOMAIN u /\ u[i + Len(c) + 1] = t[i] /\ i > 0
          <6>1. i + Len(c) + 1 = i + Len(d)
            BY <5>1, <5>2, <5>3
          <6> HIDE DEF u
          <6> QED BY <5>1, <5>2, <5>3, <6>1
        <5> HIDE DEF u
        <5>5. Len(c) + 1 \in DOMAIN u /\ u[Len(c) + 1] = o
          BY <5>1, <5>2, <5>3 DEF d
        <5> QED BY <5>1, <5>4, <5>5
      <4> HIDE DEF u
      <4>4. CASE k = KeyOf(p)
        BY <4>2, <4>3, <4>4 DEF Ahead, o
      <4>5. CASE k # KeyOf(p)
        <5>1. writer[k] = q
          BY <2>1, <3>1, <4>5 DEF TypeOK
        <5>2. PICK i \in DOMAIN t : t[i].op = "made" /\ t[i].key = k
          BY <3>3, <5>1 DEF WriterCompletes, Ahead, t
        <5>3. i + Len(c) + 1 > 0
          BY <4>3
        <5> QED BY <4>2, <4>3, <5>2, <5>3 DEF Ahead
      <4> QED BY <4>4, <4>5
    <3> QED BY <3>2, <3>3
  <2> QED BY <2>2, <2>3
<1>6. ASSUME NEW p \in Procs, Made(p) \/ Unwind(p) PROVE Ahead(todo[q], 0, k)'
  <2>1. /\ todo[p] # <<>> /\ todo' = [todo EXCEPT ![p] = Tail(todo[p])]
        /\ writer' = IF Head(todo[p]).op = "made" THEN [writer EXCEPT ![KeyOf(p)] = None] ELSE writer
    BY <1>6 DEF Made, Unwind, At, Continue
  <2>2. KeyOf(p) \in Keys /\ KeyOf(p) = Head(todo[p]).key
    BY <2>1, HeadTyped DEF KeyOf
  <2>3. writer'[k] = writer[k] /\ (Head(todo[p]).op # "made" \/ Head(todo[p]).key # k)
    BY <2>1, <2>2, ProcsAssumption DEF TypeOK
  <2>4. CASE p = q
    BY <1>3, <2>1, <2>3, <2>4 DEF TypeOK
  <2>5. CASE p # q
    BY <1>2, <2>1, <2>3, <2>5 DEF TypeOK
  <2> QED BY <2>4, <2>5
<1>7. ASSUME NEW p \in Procs,
             Look(p) \/ Peek(p) \/ Work(p) \/ Drop(p) \/ Await(p) \/ Resume(p)
      PROVE  Ahead(todo[q], 0, k)'
  <2>1. /\ todo[p] # <<>> /\ Head(todo[p]).op # "made" /\ writer' = writer
        /\ todo' = todo \/ todo' = [todo EXCEPT ![p] = Tail(todo[p])]
    BY <1>7 DEF Look, Peek, Work, Drop, Await, Resume, At, Continue
  <2>2. CASE todo'[q] = todo[q]
    BY <1>2, <2>1, <2>2
  <2>3. CASE todo'[q] # todo[q]
    <3>1. p = q /\ todo'[q] = Tail(todo[q])
      BY <2>1, <2>3 DEF TypeOK
    <3> QED BY <1>3, <2>1, <3>1
  <2> QED BY <2>2, <2>3
<1>8. CASE UNCHANGED vars \/ \E j \in Keys : Evict(j)
  BY <1>2, <1>8 DEF vars, Evict
<1> QED BY <1>4, <1>5, <1>6, <1>7, <1>8 DEF Next, Step

LEMMA InitLocks == Init => LockInv
<1> SUFFICES ASSUME Init PROVE LockInv
  OBVIOUS
<1>1. ASSUME NEW p \in Procs PROVE Covered(p)
  <2>1. todo[p] = <<>> /\ held[p] = NoLocks
    BY DEF Init, NoLocks
  <2>2. Runs(p, <<>>, NoLocks, NoLocks, {}) /\ \A k \in Keys : NoLocks[k] <= NoLocks[k]
    BY RunsNothing, NoLocksTyped
  <2> QED BY <2>1, <2>2, NoLocksTyped DEF Covered
<1>2. WriterCompletes
  BY ProcsAssumption DEF Init, WriterCompletes
<1> QED BY <1>1, <1>2 DEF LockInv

LEMMA StepLocks ==
  ASSUME TypeOK, LockInv, [Next]_vars
  PROVE  LockInv'
<1>1. TypeOK'
  BY TypeStep
<1>2. \A q \in Procs : Covered(q)'
  BY <1>1, StepCovered DEF LockInv
<1>3. WriterCompletes'
  BY StepWriter DEF LockInv
<1> QED BY <1>2, <1>3 DEF LockInv

LEMMA LocksReleased == TypeOK /\ LockInv => NothingKept
<1> SUFFICES ASSUME TypeOK, LockInv, NEW p \in Procs, todo[p] = <<>>, NEW k \in Keys
             PROVE  held[p][k] = 0 /\ writer[k] # p
  BY DEF NothingKept
<1>1. writer[k] # p
  BY DEF LockInv, WriterCompletes, Ahead
<1>2. PICK l \in Levels : Runs(p, <<>>, l, NoLocks, {}) /\ held[p][k] <= l[k]
  BY DEF LockInv, Covered
<1>3. l = NoLocks
  BY <1>2, RunsNothing, NoLocksTyped
<1>4. held[p][k] \in Nat /\ held[p][k] <= 0
  BY <1>2, <1>3, NoLocksTyped DEF TypeOK
<1> QED BY <1>1, <1>4

LEMMA ReadsLocked == TypeOK /\ MadeInv /\ LockInv => InputsHeld
<1> SUFFICES ASSUME TypeOK, MadeInv, LockInv, NEW p \in Procs, todo[p] # <<>>, phase[p] = "look",
                    Head(todo[p]).op \in {"work", "send", "sent"}, NEW k \in Reads(p)
             PROVE  held[p][k] > 0
  BY DEF InputsHeld
<1>1. /\ todo[p] \in Seq(Ops) /\ NoLocks \in Levels /\ held[p] \in Levels
      /\ Runs(p, todo[p], held[p], NoLocks, {}) /\ KeyOf(p) \in Keys
  BY NoLocksTyped, HeadTyped DEF LockInv, Covered, TypeOK, Ops
<1>2. Allowed(p, Head(todo[p]), Head(todo[p]).key \in {} \/ Ahead(todo[p], 0, Head(todo[p]).key), held[p])
  BY <1>1, RunsTail
<1>3. Ahead(todo[p], 0, KeyOf(p)) <=> writer[KeyOf(p)] = p
  <2>1. writer[KeyOf(p)] = p => Ahead(todo[p], 0, KeyOf(p))
    BY <1>1 DEF LockInv, WriterCompletes
  <2>2. Ahead(todo[p], 0, KeyOf(p)) => writer[KeyOf(p)] = p
    BY DEF Ahead, MadeInv, MadeByWriter, Completes
  <2> QED BY <2>1, <2>2
<1>4. (KeyOf(p) \in {} \/ Ahead(todo[p], 0, KeyOf(p))) = (writer[KeyOf(p)] = p)
  BY <1>3 DEF Ahead
<1>5. Allowed(p, Head(todo[p]), writer[KeyOf(p)] = p, held[p])
  BY <1>2, <1>4 DEF KeyOf
<1>6. \A r \in ReadsOf(p, KeyOf(p), writer[KeyOf(p)] = p) : held[p][r] > 0
  BY <1>5 DEF Allowed, KeyOf
<1>7. Reads(p) = ReadsOf(p, KeyOf(p), writer[KeyOf(p)] = p)
  BY DEF Reads, ReadsOf, Csvs, Raws
<1> QED BY <1>6, <1>7

(* A request that is over, in whatever way, has released every lock that it *)
(* took, shared or exclusive: get_dataset(), the conversions and the        *)
(* endpoints leave no with-block behind.                                    *)
THEOREM LocksAreReleased == Spec => []NothingKept
<1>1. Init => TypeOK /\ LockInv
  BY InitInv, InitLocks
<1>2. TypeOK /\ LockInv /\ [Next]_vars => (TypeOK /\ LockInv)'
  BY TypeStep, StepLocks
<1> QED BY <1>1, <1>2, LocksReleased, PTL DEF Spec

(* Whoever converts, augments, profiles or sends has every entry that it    *)
(* reads locked, while it reads: get_dataset() and its callers never let go *)
(* of a file too early.                                                     *)
THEOREM ReadsAreLocked == Spec => []InputsHeld
<1>1. Init => TypeOK /\ MadeInv /\ LockInv
  BY InitInv, InitLocks
<1>2. TypeOK /\ MadeInv /\ LockInv /\ [Next]_vars => (TypeOK /\ MadeInv /\ LockInv)'
  BY TypeStep, StepMade, StepLocks
<1> QED BY <1>1, <1>2, ReadsLocked, PTL DEF Spec
-----------------------------------------------------------------------------
(* Waiting.  A process has its loop until it sends.                         *)

Owned(p) ==
  /\ Paced(todo[p])
  /\ todo[p] = <<>> => phase[p] = "look"
  /\ todo[p] # <<>> => loop[Loop(p)] = p \/ (Head(todo[p]).op = "sent" /\ phase[p] = "look")
  /\ phase[p] = "lock" => todo[p] # <<>> /\ Head(todo[p]).op = "get"
OwnInv == \A p \in Procs : Owned(p)

LEMMA PacedTail ==
  ASSUME NEW s \in Seq(Ops), s # <<>>, Paced(s)
  PROVE  /\ Paced(Tail(s))
         /\ Tail(s) # <<>> /\ Head(s).op # "send" => Head(Tail(s)).op # "sent"
         /\ Head(s).op = "send" => Tail(s) # <<>> /\ Head(Tail(s)).op = "sent"
<1> DEFINE t == Tail(s)
<1>1. /\ Len(s) \in Nat \ {0} /\ t \in Seq(Ops) /\ DOMAIN s = 1 .. Len(s) /\ DOMAIN t = 1 .. Len(s) - 1
      /\ \A i \in 1 .. Len(s) - 1 : t[i] = s[i + 1]
      /\ Head(s) = s[1]
  OBVIOUS
<1>2. t # <<>> <=> 2 \in DOMAIN s
  <2>1. (t # <<>> <=> Len(t) # 0) /\ Len(t) = Len(s) - 1
    BY <1>1
  <2> QED BY <1>1, <2>1
<1>3. t # <<>> => Head(t) = s[2]
  <2>1. t # <<>> => Head(t) = t[1]
    BY <1>1
  <2> QED BY <1>1, <1>2, <2>1
<1> HIDE DEF t
<1>4. ASSUME NEW i \in DOMAIN t
      PROVE  /\ t[i].op = "sent" => i = 1 \/ t[i - 1].op = "send"
             /\ t[i].op = "send" => i + 1 \in DOMAIN t /\ t[i + 1].op = "sent"
  <2>1. i + 1 \in DOMAIN s /\ t[i] = s[i + 1] /\ i + 1 # 1 /\ (i + 1) - 1 = i
    BY <1>1
  <2>2. i # 1 => t[i - 1] = s[i]
    <3>1. i # 1 => i - 1 \in 1 .. Len(s) - 1 /\ (i - 1) + 1 = i
      BY <1>1
    <3> QED BY <1>1, <3>1
  <2>3. (i + 1) + 1 \in DOMAIN s => i + 1 \in DOMAIN t /\ t[i + 1] = s[(i + 1) + 1]
    BY <1>1
  <2>4. /\ s[i + 1].op = "sent" => s[i].op = "send"
        /\ s[i + 1].op = "send" => (i + 1) + 1 \in DOMAIN s /\ s[(i + 1) + 1].op = "sent"
    BY <2>1 DEF Paced
  <2> QED BY <2>1, <2>2, <2>3, <2>4
<1>5. Paced(t)
  BY <1>4 DEF Paced
<1>6. /\ 2 \in DOMAIN s /\ s[2].op = "sent" => s[1].op = "send"
      /\ s[1].op = "send" => 2 \in DOMAIN s /\ s[2].op = "sent"
  <2>1. ASSUME 2 \in DOMAIN s, s[2].op = "sent" PROVE s[1].op = "send"
    <3>1. 2 # 1 /\ 2 - 1 = 1
      OBVIOUS
    <3>2. s[2 - 1].op = "send"
      BY <2>1, <3>1 DEF Paced
    <3> QED BY <3>1, <3>2
  <2>2. ASSUME s[1].op = "send" PROVE 2 \in DOMAIN s /\ s[2].op = "sent"
    <3>1. 1 \in DOMAIN s /\ 1 + 1 = 2
      BY <1>1
    <3>2. 1 + 1 \in DOMAIN s /\ s[1 + 1].op = "sent"
      BY <2>2, <3>1 DEF Paced
    <3> QED BY <3>1, <3>2
  <2> QED BY <2>1, <2>2
<1> QED BY <1>1, <1>2, <1>3, <1>5, <1>6 DEF t

(* A creation that starts does so with something else than a "sent".        *)
LEMMA PacedCreate ==
  ASSUME NEW k \in Keys, NEW s \in Seq(Ops), Paced(s), s # <<>>, Head(s).op # "sent"
  PROVE  LET u == Create(k) \o Op("made", k) \o s IN
         Paced(u) /\ u # <<>> /\ Head(u).op # "sent"
<1> DEFINE c == Create(k)
           m == [op |-> "made", key |-> k]
           u == c \o <<m>> \o s
<1>1. c \in Plans /\ c \in Seq(Ops) /\ m \in Ops /\ Op("made", k) = <<m>> /\ <<m>> \in Seq(Ops)
  BY CreatePlan DEF Plans, Op, Ops, OpNames
<1>2. m.op = "made"
  OBVIOUS
<1> HIDE DEF c, m
<1>3. Paced(c) /\ \A i \in DOMAIN c : c[i].op = "sent" => i # 1
  BY <1>1 DEF Plans
<1>4. Paced(c \o <<m>>) /\ c \o <<m>> \in Seq(Ops)
  <2>1. Paced(<<m>>) /\ <<m>>[1].op # "sent"
    BY <1>2 DEF Paced
  <2>2. <<m>> # <<>> => <<m>>[1].op # "sent"
    BY <2>1
  <2>3. c \o <<m>> \in Seq(Ops)
    BY <1>1
  <2> QED BY <1>1, <1>3, <2>1, <2>2, <2>3, PacedJoined
<1>5. Paced(u)
  <2>1. s[1].op # "sent"
    OBVIOUS
  <2> QED BY <1>4, <2>1, PacedJoined
<1>6. u \in Seq(Ops) /\ u # <<>> /\ 1 \in DOMAIN u /\ Head(u) = u[1]
  <2>1. u \in Seq(Ops) /\ Len(u) = Len(c) + 1 + Len(s) /\ Len(c) \in Nat /\ Len(s) \in Nat
    BY <1>1
  <2> HIDE DEF u
  <2> QED BY <2>1
<1>7. u[1].op # "sent"
  <2>1. \/ 1 \in DOMAIN c /\ u[1] = c[1]
        \/ 1 = Len(c) + 1 /\ u[1] = m
        \/ 1 - Len(c) - 1 \in DOMAIN s
    BY <1>1, <1>6, Spliced
  <2>2. ~(1 - Len(c) - 1 \in DOMAIN s)
    BY <1>1
  <2> HIDE DEF u
  <2> QED BY <1>2, <1>3, <2>1, <2>2
<1> QED BY <1>1, <1>5, <1>6, <1>7 DEF u, c

LEMMA OwnedNext ==
  ASSUME TypeOK, NEW p \in Procs, Owned(p), todo[p] # <<>>, loop[Loop(p)] = p,
         Continue(p, Tail(todo[p]))
  PROVE  /\ Owned(p)'
         /\ todo'[p] = Tail(todo[p]) /\ phase'[p] # "lock"
         /\ phase'[p] # "unwind" <=> phase[p] # "unwind" \/ todo'[p] = <<>>
<1>1. /\ todo'[p] = Tail(todo[p])
      /\ phase'[p] = IF Tail(todo[p]) = <<>> \/ phase[p] # "unwind" THEN "look" ELSE phase[p]
      /\ loop'[Loop(p)] = IF Tail(todo[p]) = <<>> THEN None ELSE p
  BY LoopTyped DEF Continue, TypeOK
<1>2. Paced(Tail(todo[p]))
  BY PacedTail DEF Owned, TypeOK, Ops
<1>3. Paced(todo[p])'
  BY <1>1, <1>2 DEF Paced
<1> QED BY <1>1, <1>3 DEF Owned

LEMMA OwnedSame ==
  ASSUME NEW q \in Procs, Owned(q), todo'[q] = todo[q], phase'[q] = phase[q],
         loop[Loop(q)] = q => loop'[Loop(q)] = q
  PROVE  Owned(q)'
BY DEF Owned, Paced

(* What a step of a process leaves to the others.                           *)
LEMMA OthersStay ==
  ASSUME TypeOK, NEW p \in Procs, Start(p) \/ Step(p)
  PROVE  /\ \A q \in Procs : q # p =>
              /\ todo'[q] = todo[q] /\ phase'[q] = phase[q] /\ held'[q] = held[q]
              /\ loop[Loop(q)] = q => loop'[Loop(q)] = q
         /\ \A l \in Loops : loop'[l] \in {loop[l], p, None}
<1>1. loop[Loop(p)] \in {p, None}
  BY DEF Start, Step, Look, Lock, Made, Peek, Work, Drop, Await, Resume, Unwind, At
<1>2. \/ loop' = loop
      \/ \E x \in {p, None} : loop' = [loop EXCEPT ![Loop(p)] = x]
      \/ \E x \in {p, None} : loop' = [loop EXCEPT ![Loop(p)] = IF Tail(todo[p]) = <<>> THEN None ELSE x]
      \/ loop' = [loop EXCEPT ![Loop(p)] = IF Tail(todo[p]) = <<>> THEN None ELSE @]
  BY DEF Start, Step, Look, Lock, Made, Peek, Work, Drop, Await, Resume, Unwind, Continue
<1>3. \A l \in Loops : loop'[l] = loop[l] \/ (l = Loop(p) /\ loop'[l] \in {p, None})
  BY <1>1, <1>2, LoopTyped DEF TypeOK
<1>4. \A q \in Procs : q # p => todo'[q] = todo[q] /\ phase'[q] = phase[q] /\ held'[q] = held[q]
  BY DEF Start, Step, Look, Lock, Made, Peek, Work, Drop, Await, Resume, Unwind, Continue, Hold, TypeOK
<1>5. ASSUME NEW q \in Procs, q # p, loop[Loop(q)] = q PROVE loop'[Loop(q)] = q
  BY <1>1, <1>3, <1>5, LoopTyped, ProcsAssumption
<1> QED BY <1>3, <1>4, <1>5


LEMMA StepOwned ==
  ASSUME TypeOK, OwnInv, [Next]_vars
  PROVE  OwnInv'
<1>1. CASE UNCHANGED <<todo, phase, loop>>
  BY <1>1 DEF OwnInv, Owned, Paced
<1>2. ASSUME NEW p \in Procs, Start(p) \/ Step(p), Owned(p)' PROVE OwnInv'
  BY <1>2, OthersStay, OwnedSame DEF OwnInv
<1>3. ASSUME NEW p \in Procs, Start(p) PROVE Owned(p)'
  <2>1. PICK request \in Requests(p) : todo'[p] = request
    BY <1>3 DEF Start, TypeOK
  <2>2. Paced(request)
    BY RequestPlan DEF Plans
  <2>3. phase'[p] = "look" /\ loop'[Loop(p)] = p
    BY <1>3, LoopTyped DEF Start, OwnInv, Owned, TypeOK
  <2>4. Paced(todo[p])'
    BY <2>1, <2>2 DEF Paced
  <2> QED BY <2>3, <2>4 DEF Owned
<1>4. ASSUME NEW p \in Procs, todo[p] # <<>>, loop[Loop(p)] = p, Continue(p, Tail(todo[p]))
      PROVE  Owned(p)'
  BY <1>4, OwnedNext DEF OwnInv
<1>5. ASSUME NEW p \in Procs, todo[p] # <<>>, loop[Loop(p)] = p, UNCHANGED <<todo, loop>>,
             NEW ph \in {"look", "lock", "unwind"}, phase' = [phase EXCEPT ![p] = ph],
             ph = "lock" => Head(todo[p]).op = "get"
      PROVE  Owned(p)'
  <2>1. phase'[p] = ph
    BY <1>5 DEF TypeOK
  <2> QED BY <1>5, <2>1 DEF OwnInv, Owned, Paced
<1>6. ASSUME NEW p \in Procs, Look(p) \/ Peek(p) \/ Made(p) \/ Work(p) \/ Drop(p) \/ Unwind(p)
      PROVE  Owned(p)'
  <2>1. /\ todo[p] # <<>> /\ loop[Loop(p)] = p
        /\ \/ Continue(p, Tail(todo[p]))
           \/ UNCHANGED <<todo, loop>> /\ \E ph \in {"look", "lock", "unwind"} :
                phase' = [phase EXCEPT ![p] = ph] /\ (ph = "lock" => Head(todo[p]).op = "get")
    BY <1>6 DEF Look, Peek, Made, Work, Drop, Unwind, At
  <2> QED BY <1>4, <1>5, <2>1
<1>7. ASSUME NEW p \in Procs, Lock(p) PROVE Owned(p)'
  <2>1. /\ todo[p] # <<>> /\ Head(todo[p]).op = "get" /\ loop[Loop(p)] = p /\ KeyOf(p) \in Keys
        /\ phase' = [phase EXCEPT ![p] = "look"] /\ UNCHANGED loop
    BY <1>7, HeadTyped DEF Lock, At
  <2>2. CASE entry[KeyOf(p)]
    <3>1. UNCHANGED todo
      BY <1>7, <2>2 DEF Lock
    <3> QED BY <1>5, <2>1, <3>1
  <2>3. CASE ~entry[KeyOf(p)]
    <3> DEFINE u == Create(KeyOf(p)) \o Op("made", KeyOf(p)) \o todo[p]
    <3>1. todo'[p] = u /\ phase'[p] = "look" /\ loop'[Loop(p)] = p
      BY <1>7, <2>1, <2>3 DEF Lock, TypeOK
    <3>2. Paced(todo[p]) /\ todo[p] \in Seq(Ops)
      BY DEF OwnInv, Owned, TypeOK, Ops
    <3>3. Paced(u) /\ u # <<>>
      BY <2>1, <3>2, PacedCreate
    <3> HIDE DEF u
    <3>4. Paced(todo[p])'
      BY <3>1, <3>3 DEF Paced
    <3> QED BY <3>1, <3>3, <3>4 DEF Owned
  <2> QED BY <2>2, <2>3
<1>8. ASSUME NEW p \in Procs, Await(p) \/ Resume(p) PROVE Owned(p)'
  <2>1. /\ todo[p] # <<>> /\ todo'[p] = Tail(todo[p]) /\ phase[p] = "look" /\ phase'[p] = "look"
        /\ \/ Head(todo[p]).op = "send"
           \/ loop'[Loop(p)] = IF Tail(todo[p]) = <<>> THEN None ELSE p
    BY <1>8, LoopTyped DEF Await, Resume, At, TypeOK
  <2>2. /\ Paced(Tail(todo[p]))
        /\ Head(todo[p]).op = "send" => Tail(todo[p]) # <<>> /\ Head(Tail(todo[p])).op = "sent"
    BY <2>1, PacedTail DEF OwnInv, Owned, TypeOK, Ops
  <2>3. Paced(todo[p])'
    BY <2>1, <2>2 DEF Paced
  <2> QED BY <2>1, <2>2, <2>3 DEF Owned
<1>9. ASSUME NEW k \in Keys, Evict(k) PROVE OwnInv'
  BY <1>1, <1>9 DEF Evict
<1> QED BY <1>1, <1>2, <1>3, <1>6, <1>7, <1>8, <1>9 DEF Next, Step, vars

(* Processes that wait for an exclusive lock or for a loop, and only for    *)
(* each other: one that waits for a lock looked when nobody had it, and one *)
(* that waits for a loop left it to nobody, so that the last one to begin   *)
(* to wait had nobody to wait for.                                          *)
WaitsToLock(p, q) ==
  todo[p] # <<>> /\ Head(todo[p]).op = "get" /\ phase[p] = "lock" /\ held[q][KeyOf(p)] > 0
WaitsForLoop(p, q) ==
  todo[p] # <<>> /\ Head(todo[p]).op = "sent" /\ phase[p] # "unwind" /\ loop[Loop(p)] = q
Ring(S) == S # {} /\ \A p \in S : \E q \in S : WaitsToLock(p, q) \/ WaitsForLoop(p, q)
RingInv == \A S \in SUBSET Procs : ~Ring(S)

(* Whoever takes another step than to look for what is not there, or to     *)
(* give up the loop, does not wait in this way afterwards.                  *)
Busy(p) == phase[p] # "lock" /\ (todo[p] = <<>> \/ phase[p] = "unwind" \/ Head(todo[p]).op # "sent")

LEMMA StepBusy ==
  ASSUME TypeOK, OwnInv, NEW p \in Procs, Start(p) \/ Step(p)
  PROVE  \/ Busy(p)'
         \/ Look(p) /\ ~entry[KeyOf(p)]
         \/ Await(p)
<1>1. Owned(p) /\ todo[p] \in Seq(Ops) /\ Paced(todo[p])
  BY DEF OwnInv, Owned, TypeOK, Ops
<1>2. CASE Start(p)
  <2>1. PICK request \in Requests(p) : todo'[p] = request
    BY <1>2 DEF Start, TypeOK
  <2>2. request # <<>> => Head(request).op # "sent"
    <3>1. request \in Plans /\ request \in Seq(Ops)
      BY RequestPlan DEF Plans
    <3>2. request # <<>> => 1 \in DOMAIN request /\ Head(request) = request[1]
      BY <3>1
    <3> QED BY <3>1, <3>2 DEF Plans
  <2>3. phase'[p] = "look"
    BY <1>1, <1>2 DEF Start, Owned
  <2> QED BY <2>1, <2>2, <2>3 DEF Busy
<1>3. ASSUME todo[p] # <<>>, loop[Loop(p)] = p, Continue(p, Tail(todo[p])),
             Head(todo[p]).op # "send" \/ phase[p] = "unwind"
      PROVE  Busy(p)'
  <2>1. /\ todo'[p] = Tail(todo[p]) /\ phase'[p] # "lock"
        /\ phase'[p] # "unwind" <=> phase[p] # "unwind" \/ todo'[p] = <<>>
    BY <1>1, <1>3, OwnedNext
  <2>2. Tail(todo[p]) # <<>> /\ Head(todo[p]).op # "send" => Head(Tail(todo[p])).op # "sent"
    BY <1>1, <1>3, PacedTail
  <2> QED BY <1>3, <2>1, <2>2 DEF Busy
<1>4. ASSUME todo[p] # <<>>, UNCHANGED todo,
             \E ph \in {"look", "unwind"} : phase' = [phase EXCEPT ![p] = ph],
             Head(todo[p]).op # "sent"
      PROVE  Busy(p)'
  BY <1>4 DEF Busy, TypeOK
<1>5. CASE (Look(p) /\ entry[KeyOf(p)]) \/ Peek(p) \/ Made(p) \/ Work(p) \/ Drop(p) \/ Unwind(p)
  <2>1. /\ todo[p] # <<>> /\ loop[Loop(p)] = p
        /\ \/ Continue(p, Tail(todo[p])) /\ (Head(todo[p]).op # "send" \/ phase[p] = "unwind")
           \/ UNCHANGED todo /\ (\E ph \in {"look", "unwind"} : phase' = [phase EXCEPT ![p] = ph])
              /\ Head(todo[p]).op # "sent"
    BY <1>5 DEF Look, Peek, Made, Work, Drop, Unwind, At
  <2> QED BY <1>3, <1>4, <2>1
<1>6. CASE Lock(p)
  <2>1. /\ todo[p] # <<>> /\ Head(todo[p]).op = "get" /\ KeyOf(p) \in Keys
        /\ phase' = [phase EXCEPT ![p] = "look"]
    BY <1>6, HeadTyped DEF Lock, At
  <2>2. CASE entry[KeyOf(p)]
    <3>1. UNCHANGED todo
      BY <1>6, <2>2 DEF Lock
    <3> QED BY <1>4, <2>1, <3>1
  <2>3. CASE ~entry[KeyOf(p)]
    <3> DEFINE u == Create(KeyOf(p)) \o Op("made", KeyOf(p)) \o todo[p]
    <3>1. todo'[p] = u /\ phase'[p] = "look"
      BY <1>6, <2>1, <2>3 DEF Lock, TypeOK
    <3>2. u # <<>> /\ Head(u).op # "sent"
      BY <1>1, <2>1, PacedCreate
    <3> HIDE DEF u
    <3> QED BY <3>1, <3>2 DEF Busy
  <2> QED BY <2>2, <2>3
<1>7. CASE Resume(p)
  <2>1. todo[p] # <<>> /\ todo'[p] = Tail(todo[p]) /\ phase'[p] = "look" /\ Head(todo[p]).op = "sent"
    BY <1>7 DEF Resume, TypeOK
  <2>2. Tail(todo[p]) # <<>> => Head(Tail(todo[p])).op # "sent"
    BY <1>1, <2>1, PacedTail
  <2> QED BY <2>1, <2>2 DEF Busy
<1> QED BY <1>2, <1>5, <1>6, <1>7 DEF Step

LEMMA StepRing ==
  ASSUME TypeOK, EntryInv, OwnInv, RingInv, [Next]_vars
  PROVE  RingInv'
<1> SUFFICES ASSUME NEW S \in SUBSET Procs, Ring(S)' PROVE FALSE
  BY DEF RingInv
<1>1. S # {} /\ \A p \in S : \E q \in S : (WaitsToLock(p, q) \/ WaitsForLoop(p, q))'
  BY DEF Ring
<1>2. CASE UNCHANGED <<todo, phase, held, loop>>
  <2>1. \A p, q \in S : (WaitsToLock(p, q) \/ WaitsForLoop(p, q))' => WaitsToLock(p, q) \/ WaitsForLoop(p, q)
    BY <1>2 DEF WaitsToLock, WaitsForLoop, KeyOf
  <2> QED BY <1>1, <2>1 DEF RingInv, Ring
<1>3. ASSUME NEW a \in Procs, Start(a) \/ Step(a), a \notin S PROVE FALSE
  <2>1. /\ \A q \in S : todo'[q] = todo[q] /\ phase'[q] = phase[q] /\ held'[q] = held[q]
        /\ \A l \in Loops : loop'[l] \in {loop[l], a, None}
    BY <1>3, OthersStay
  <2>2. ASSUME NEW p \in S, NEW q \in S, (WaitsToLock(p, q) \/ WaitsForLoop(p, q))'
        PROVE  WaitsToLock(p, q) \/ WaitsForLoop(p, q)
    <3>1. CASE WaitsToLock(p, q)'
      BY <2>1, <3>1 DEF WaitsToLock, KeyOf
    <3>2. CASE WaitsForLoop(p, q)'
      <4>1. loop'[Loop(p)] = q /\ q # a /\ q # None /\ Loop(p) \in Loops
        BY <1>3, <3>2, LoopTyped, ProcsAssumption DEF WaitsForLoop
      <4>2. loop[Loop(p)] = q
        BY <2>1, <4>1
      <4> QED BY <2>1, <3>2, <4>2 DEF WaitsForLoop
    <3> QED BY <2>2, <3>1, <3>2
  <2> QED BY <1>1, <2>2 DEF RingInv, Ring
<1>4. ASSUME NEW a \in Procs, Start(a) \/ Step(a), a \in S PROVE FALSE
  <2>1. PICK q \in S : (WaitsToLock(a, q) \/ WaitsForLoop(a, q))'
    BY <1>1, <1>4
  <2>2. CASE Busy(a)'
    BY <2>1, <2>2 DEF Busy, WaitsToLock, WaitsForLoop
  <2>3. CASE Look(a) /\ ~entry[KeyOf(a)]
    <3>1. /\ Head(todo[a]).op = "get" /\ UNCHANGED <<todo, held>> /\ todo[a] # <<>> /\ KeyOf(a) \in Keys
      BY <2>3, HeadTyped DEF Look, At
    <3>2. held'[q][KeyOf(a)] > 0
      BY <2>1, <3>1 DEF WaitsToLock, WaitsForLoop, KeyOf
    <3> QED BY <2>3, <3>1, <3>2 DEF EntryInv, HeldThere
  <2>4. CASE Await(a)
    <3>1. phase'[a] = "look" /\ loop'[Loop(a)] = None
      BY <2>4, LoopTyped DEF Await, At, TypeOK
    <3> QED BY <2>1, <3>1, ProcsAssumption DEF WaitsToLock, WaitsForLoop
  <2> QED BY <1>4, <2>2, <2>3, <2>4, StepBusy
<1>5. ASSUME NEW k \in Keys, Evict(k) PROVE FALSE
  BY <1>2, <1>5 DEF Evict
<1> QED BY <1>2, <1>3, <1>4, <1>5 DEF Next, vars

(* What lies before the completion of a creation: of the creations one      *)
(* process has under way, the one that contains others is of an             *)
(* augmentation, and it contains those of the datasets it reads.            *)
Inside(o, k) == o.op \in {"get", "work", "drop", "made"} /\ (o.op = "get" => o.key.kind = "csv" /\ k.kind = "aug")
Nested(p, s) ==
  \A i \in DOMAIN s : s[i].op = "made" =>
    /\ s[i].key.kind = "aug" => p \notin Threads
    /\ \A j \in DOMAIN s : j < i => Inside(s[j], s[i].key)
NestInv == \A p \in Procs : Nested(p, todo[p])

LEMMA NestedTail ==
  ASSUME NEW p, NEW s \in Seq(Ops), s # <<>>, Nested(p, s)
  PROVE  Nested(p, Tail(s))
<1> DEFINE t == Tail(s)
<1>1. \A i \in DOMAIN t : i \in Nat /\ i + 1 \in DOMAIN s /\ t[i] = s[i + 1]
  OBVIOUS
<1>2. \A i, j \in DOMAIN t : j < i => j + 1 < i + 1
  BY <1>1
<1> HIDE DEF t
<1>3. Nested(p, t)
  BY <1>1, <1>2 DEF Nested
<1> QED BY <1>3 DEF t

(* Create() locks the datasets of an augmentation, and nothing for another  *)
(* key.                                                                     *)
LEMMA CreateInside ==
  ASSUME NEW k \in Keys
  PROVE  /\ \A i \in DOMAIN Create(k) : Inside(Create(k)[i], k)
         /\ k.kind # "aug" => \A i \in DOMAIN Create(k) : Create(k)[i].op = "work"
<1> DEFINE T == {o \in Ops : Inside(o, k)}
<1>1. Op("work", k) \in Seq(T)
  BY DEF Op, Ops, OpNames, Inside
<1>2. ASSUME NEW d \in Datasets, NEW body \in Seq(T), k.kind = "aug" PROVE WithCsv(d, body) \in Seq(T)
  <2>1. Op("get", Csv(d)) \in Seq(T) /\ Op("drop", Csv(d)) \in Seq(T)
    BY <1>2, KeysTyped, KindsOf DEF Op, Ops, OpNames, Inside
  <2> HIDE DEF T
  <2> QED BY <2>1 DEF WithCsv
<1>3. Create(k) \in Seq(T)
  <2>1. CASE k.kind # "aug"
    BY <1>1, <2>1 DEF Create
  <2>2. CASE k.kind = "aug"
    <3>1. \/ \E d \in Datasets : k = AugPosted(d)
          \/ \E d \in Datasets, e \in DataIds : k = AugDataset(d, e)
      BY <2>2 DEF Keys, UserData, Raw, Csv, Format
    <3> HIDE DEF T
    <3>2. ASSUME NEW d \in Datasets, k = AugPosted(d) PROVE Create(k) \in Seq(T)
      <4>1. k.of = <<d>>
        BY <3>2, KindsOf
      <4> QED BY <1>1, <1>2, <2>2, <4>1 DEF Create
    <3>3. ASSUME NEW d \in Datasets, NEW e \in DataIds, k = AugDataset(d, e) PROVE Create(k) \in Seq(T)
      <4>1. k.of = <<d, e>> /\ e \in Datasets
        BY <3>3, KindsOf, DatasetsAssumption
      <4>2. WithCsv(e, Op("work", k)) \in Seq(T)
        BY <1>1, <1>2, <2>2, <4>1
      <4> QED BY <1>2, <2>2, <4>1, <4>2 DEF Create
    <3> QED BY <3>1, <3>2, <3>3
  <2> QED BY <2>1, <2>2
<1>4. \A i \in DOMAIN Create(k) : Create(k)[i] \in T
  BY <1>3
<1>5. k.kind # "aug" => Create(k) = Op("work", k)
  BY DEF Create
<1> QED BY <1>4, <1>5 DEF Op

LEMMA NestedCreate ==
  ASSUME NEW p, NEW k \in Keys, NEW s \in Seq(Ops), s # <<>>, Nested(p, s),
         Head(s).op = "get", Head(s).key = k, k.kind = "aug" => p \notin Threads
  PROVE  Nested(p, Create(k) \o Op("made", k) \o s)
<1> DEFINE c == Create(k)
           m == [op |-> "made", key |-> k]
           n == Len(c)
           u == c \o <<m>> \o s
<1>1. c \in Seq(Ops) /\ n \in Nat /\ m \in Ops /\ Op("made", k) = <<m>> /\ DOMAIN c = 1 .. n
  BY CreatePlan DEF Plans, Op, Ops, OpNames
<1>2. /\ \A i \in DOMAIN c : Inside(c[i], k) /\ c[i].op # "made"
      /\ k.kind # "aug" => \A i \in DOMAIN c : c[i].op = "work"
  BY CreateInside, CreatePlan DEF Plans
<1>3. m.op = "made" /\ m.key = k /\ 1 \in DOMAIN s /\ s[1] = Head(s)
  OBVIOUS
<1>4. \A i \in DOMAIN s : i \in Nat \ {0}
  OBVIOUS
<1>5. \A i \in DOMAIN u :
        /\ i \in Nat
        /\ \/ i \in DOMAIN c /\ u[i] = c[i]
           \/ i = n + 1 /\ u[i] = m
           \/ i - n - 1 \in DOMAIN s /\ u[i] = s[i - n - 1]
  <2>1. \A i \in DOMAIN (c \o <<m>> \o s) :
        /\ i \in Nat
        /\ \/ i \in DOMAIN c /\ (c \o <<m>> \o s)[i] = c[i]
           \/ i = Len(c) + 1 /\ (c \o <<m>> \o s)[i] = m
           \/ i - Len(c) - 1 \in DOMAIN s /\ (c \o <<m>> \o s)[i] = s[i - Len(c) - 1]
    <3> HIDE DEF c, m
    <3> QED BY <1>1, Spliced
  <2> QED BY <2>1
<1> HIDE DEF c, m, n, u
<1>6. ASSUME NEW i \in DOMAIN u, u[i].op = "made"
      PROVE  /\ u[i].key.kind = "aug" => p \notin Threads
             /\ \A j \in DOMAIN u : j < i => Inside(u[j], u[i].key)
  <2>1. CASE i \in DOMAIN c /\ u[i] = c[i]
    BY <1>2, <1>6, <2>1
  <2>2. CASE i = n + 1 /\ u[i] = m
    <3>1. ASSUME NEW j \in DOMAIN u, j < i PROVE Inside(u[j], k)
      <4>1. j \in DOMAIN c /\ u[j] = c[j]
        BY <1>1, <1>4, <1>5, <2>2, <3>1
      <4> QED BY <1>2, <4>1
    <3> QED BY <1>3, <2>2, <3>1
  <2>3. CASE i - n - 1 \in DOMAIN s /\ u[i] = s[i - n - 1]
    <3>1. PICK h \in DOMAIN s : h = i - n - 1 /\ u[i] = s[h]
      BY <2>3
    <3>2. /\ s[h].key.kind = "aug" => p \notin Threads
          /\ \A j \in DOMAIN s : j < h => Inside(s[j], s[h].key)
      BY <1>6, <3>1 DEF Nested
    <3>3. 1 < h
      <4>1. h # 1
        BY <1>3, <1>6, <3>1
      <4> QED BY <1>4, <4>1
    <3>4. k.kind = "csv" /\ s[h].key.kind = "aug"
      BY <1>3, <3>2, <3>3 DEF Inside
    <3>5. ASSUME NEW j \in DOMAIN u, j < i PROVE Inside(u[j], s[h].key)
      <4>1. CASE j \in DOMAIN c /\ u[j] = c[j]
        BY <1>2, <3>4, <4>1 DEF Inside
      <4>2. CASE j = n + 1 /\ u[j] = m
        BY <1>3, <4>2 DEF Inside
      <4>3. CASE j - n - 1 \in DOMAIN s /\ u[j] = s[j - n - 1]
        <5>1. j - n - 1 < h
          BY <1>1, <1>5, <3>1, <3>5
        <5> QED BY <3>2, <4>3, <5>1
      <4> QED BY <1>5, <4>1, <4>2, <4>3
    <3> QED BY <3>1, <3>2, <3>5
  <2> QED BY <1>5, <2>1, <2>2, <2>3
<1>7. Nested(p, u)
  BY <1>6 DEF Nested
<1> QED BY <1>1, <1>7 DEF u, c

(* What is at the head of a request that does not unwind was foreseen.      *)
LEMMA HeadAllowed ==
  ASSUME TypeOK, LockInv, NEW p \in Procs, todo[p] # <<>>, phase[p] # "unwind",
         Head(todo[p]).op \in {"get", "peek"}
  PROVE  Order(KeyOf(p), held[p]) /\ (KeyOf(p).kind = "aug" => p \notin Threads)
<1>1. /\ todo[p] \in Seq(Ops) /\ NoLocks \in Levels /\ held[p] \in Levels
      /\ Runs(p, todo[p], held[p], NoLocks, {})
  BY NoLocksTyped DEF LockInv, Covered, TypeOK, Ops
<1>2. Allowed(p, Head(todo[p]), Head(todo[p]).key \in {} \/ Ahead(todo[p], 0, Head(todo[p]).key), held[p])
  BY <1>1, RunsTail
<1> QED BY <1>2 DEF Allowed, KeyOf

LEMMA StepNested ==
  ASSUME TypeOK, LockInv, NestInv, [Next]_vars
  PROVE  NestInv'
<1> USE DEF NestInv
<1>1. ASSUME UNCHANGED todo PROVE NestInv'
  BY <1>1 DEF Nested
<1>2. ASSUME NEW p \in Procs, NEW s, todo' = [todo EXCEPT ![p] = s], Nested(p, s) PROVE NestInv'
  <2>1. todo'[p] = s /\ \A q \in Procs : q # p => todo'[q] = todo[q]
    BY <1>2 DEF TypeOK
  <2> QED BY <1>2, <2>1 DEF Nested
<1>3. ASSUME NEW p \in Procs, Start(p) PROVE NestInv'
  <2>1. PICK request \in Requests(p) : todo' = [todo EXCEPT ![p] = request]
    BY <1>3 DEF Start
  <2>2. Nested(p, request)
    BY RequestPlan DEF Plans, Nested
  <2> QED BY <1>2, <2>1, <2>2
<1>4. ASSUME NEW p \in Procs, Lock(p) PROVE NestInv'
  <2>1. todo[p] # <<>> /\ Head(todo[p]).op = "get" /\ phase[p] = "lock" /\ KeyOf(p) \in Keys
    BY <1>4, HeadTyped DEF Lock, At
  <2>2. Nested(p, Create(KeyOf(p)) \o Op("made", KeyOf(p)) \o todo[p])
    <3>1. todo[p] \in Seq(Ops) /\ (KeyOf(p).kind = "aug" => p \notin Threads)
      BY <2>1, HeadAllowed DEF TypeOK, Ops
    <3> QED BY <2>1, <3>1, NestedCreate DEF KeyOf
  <2> QED BY <1>1, <1>2, <1>4, <2>2 DEF Lock
<1>5. ASSUME NEW p \in Procs,
             Look(p) \/ Peek(p) \/ Made(p) \/ Work(p) \/ Drop(p) \/ Await(p) \/ Resume(p) \/ Unwind(p)
      PROVE NestInv'
  <2>1. todo[p] # <<>>
    BY <1>5 DEF Look, Peek, Made, Work, Drop, Await, Resume, Unwind, At
  <2>2. todo' = [todo EXCEPT ![p] = Tail(todo[p])] \/ UNCHANGED todo
    BY <1>5 DEF Look, Peek, Made, Work, Drop, Await, Resume, Unwind, Continue
  <2>3. Nested(p, Tail(todo[p]))
    BY <2>1, NestedTail DEF TypeOK, Ops
  <2> QED BY <1>1, <1>2, <2>2, <2>3
<1>6. ASSUME NEW k \in Keys, Evict(k) PROVE NestInv'
  BY <1>1, <1>6 DEF Evict
<1> QED BY <1>1, <1>3, <1>4, <1>5, <1>6 DEF Next, Step, vars

(* Who waits: it is where it may wait, locked what it may have locked, and  *)
(* if it creates something, that is an augmentation, and it waits for a     *)
(* dataset.                                                                 *)
LEMMA Waiting ==
  ASSUME TypeOK, LockInv, OwnInv, NestInv, NEW p \in Procs, NEW q, WaitsFor(p, q)
  PROVE  /\ Head(todo[p]).op \in {"get", "peek", "sent"} /\ KeyOf(p) \in Keys
         /\ Head(todo[p]).op \in {"get", "peek"} =>
              /\ Order(KeyOf(p), held[p]) /\ loop[Loop(p)] = p
              /\ KeyOf(p).kind = "aug" => p \notin Threads
              /\ writer[KeyOf(p)] = q \/ WaitsToLock(p, q)
         /\ Head(todo[p]).op = "sent" => WaitsForLoop(p, q)
         /\ \A k \in Keys : writer[k] = p =>
              k.kind = "aug" /\ p \notin Threads /\ Head(todo[p]).op = "get" /\ KeyOf(p).kind = "csv"
<1>1. /\ todo[p] # <<>> /\ phase[p] # "unwind" /\ Head(todo[p]).op \in {"get", "peek", "sent"}
      /\ KeyOf(p) \in Keys
  BY HeadTyped DEF WaitsFor
<1>2. ASSUME Head(todo[p]).op \in {"get", "peek"}
      PROVE  /\ Order(KeyOf(p), held[p]) /\ loop[Loop(p)] = p
             /\ KeyOf(p).kind = "aug" => p \notin Threads
             /\ writer[KeyOf(p)] = q \/ WaitsToLock(p, q)
  <2>1. Order(KeyOf(p), held[p]) /\ (KeyOf(p).kind = "aug" => p \notin Threads)
    BY <1>1, <1>2, HeadAllowed
  <2>2. loop[Loop(p)] = p /\ (phase[p] = "lock" => Head(todo[p]).op = "get")
    BY <1>1, <1>2 DEF OwnInv, Owned
  <2>3. writer[KeyOf(p)] = q \/ WaitsToLock(p, q)
    BY <1>1, <1>2, <2>2 DEF WaitsFor, WaitsToLock
  <2> QED BY <2>1, <2>2, <2>3
<1>3. ASSUME Head(todo[p]).op = "sent" PROVE WaitsForLoop(p, q)
  BY <1>1, <1>3 DEF WaitsFor, WaitsForLoop
<1>4. ASSUME NEW k \in Keys, writer[k] = p
      PROVE  k.kind = "aug" /\ p \notin Threads /\ Head(todo[p]).op = "get" /\ KeyOf(p).kind = "csv"
  <2>1. PICK i \in DOMAIN todo[p] : todo[p][i].op = "made" /\ todo[p][i].key = k
    BY <1>4 DEF LockInv, WriterCompletes, Ahead
  <2>2. 1 \in DOMAIN todo[p] /\ todo[p][1] = Head(todo[p]) /\ 1 < i
    <3>1. todo[p] \in Seq(Ops) /\ 1 \in DOMAIN todo[p] /\ todo[p][1] = Head(todo[p])
      BY <1>1, HeadTyped DEF TypeOK, Ops
    <3>2. i # 1
      BY <1>1, <2>1, <3>1
    <3> QED BY <3>1, <3>2
  <2>3. Inside(Head(todo[p]), k) /\ (k.kind = "aug" => p \notin Threads)
    BY <2>1, <2>2 DEF NestInv, Nested
  <2> QED BY <1>1, <2>3 DEF Inside, KeyOf
<1> QED BY <1>1, <1>2, <1>3, <1>4

LEMMA Explained ==
  ASSUME TypeOK, LockInv, OwnInv, NestInv, RingInv
  PROVE  CircularWaitsExplained
<1> SUFFICES ASSUME NEW S \in SUBSET Procs, Circular(S)
             PROVE  \E p, q, r, t \in S :
                      /\ {p, r} \subseteq Handlers /\ Loop(r) # Loop(p)
                      /\ KeyOf(r).kind = "aug" /\ writer[KeyOf(r)] = p
                      /\ KeyOf(p).kind = "csv" /\ phase[p] = "lock"
                      /\ Head(todo[q]).op = "sent" /\ Loop(q) # Loop(p) /\ loop[Loop(q)] \in S
                      /\ KeyOf(t).kind \in {"csv", "format"} /\ phase[t] = "lock" /\ held[q][KeyOf(t)] > 0
  BY DEF CircularWaitsExplained
<1>1. S # {} /\ \A a \in S : \E b \in S : WaitsFor(a, b)
  BY DEF Circular
<1>2. ASSUME NEW a \in S
      PROVE  /\ Head(todo[a]).op \in {"get", "peek", "sent"} /\ KeyOf(a) \in Keys
             /\ \A k \in Keys : writer[k] = a =>
                  k.kind = "aug" /\ a \notin Threads /\ Head(todo[a]).op = "get" /\ KeyOf(a).kind = "csv"
  BY <1>1, Waiting
<1>3. PICK r \in S : \A b \in S : ~WaitsToLock(r, b) /\ ~WaitsForLoop(r, b)
  BY <1>1 DEF RingInv, Ring
<1>4. PICK p \in S : WaitsFor(r, p)
  BY <1>1
<1>5. /\ Head(todo[r]).op \in {"get", "peek"} /\ writer[KeyOf(r)] = p /\ KeyOf(r) \in Keys
      /\ loop[Loop(r)] = r /\ (KeyOf(r).kind = "aug" => r \notin Threads)
  BY <1>3, <1>4, Waiting
<1>6. KeyOf(r).kind = "aug" /\ p \notin Threads /\ Head(todo[p]).op = "get" /\ KeyOf(p).kind = "csv"
  BY <1>2, <1>5
<1>7. phase[p] = "lock" /\ loop[Loop(p)] = p
  <2>1. PICK b \in S : WaitsFor(p, b)
    BY <1>1
  <2>2. KeyOf(p) \in Keys /\ loop[Loop(p)] = p /\ (writer[KeyOf(p)] = b \/ WaitsToLock(p, b))
    BY <1>6, <2>1, Waiting
  <2>3. writer[KeyOf(p)] # b
    BY <1>2, <1>6, <2>2
  <2> QED BY <2>2, <2>3 DEF WaitsToLock
<1>8. Loop(r) # Loop(p) /\ {p, r} \subseteq Handlers
  <2>1. r # p
    BY <1>6
  <2> QED BY <1>5, <1>6, <1>7, <2>1 DEF Procs
(* Those that wait for a dataset or a conversion, and those that wait for   *)
(* the loop of p.                                                           *)
<1> DEFINE U == {u \in S : \/ Head(todo[u]).op \in {"get", "peek"} /\ KeyOf(u).kind \in {"csv", "format"}
                           \/ Head(todo[u]).op = "sent" /\ loop[Loop(u)] = p}
<1>9. p \in U /\ U \in SUBSET Procs
  BY <1>6
<1>10. PICK t \in U : \A b \in U : ~WaitsToLock(t, b) /\ ~WaitsForLoop(t, b)
  <2> HIDE DEF U
  <2> QED BY <1>9 DEF RingInv, Ring
<1>11. PICK q \in S : WaitsFor(t, q)
  BY <1>1
<1>12. /\ KeyOf(t) \in Keys /\ KeyOf(t).kind \in {"csv", "format"}
       /\ phase[t] = "lock" /\ held[q][KeyOf(t)] > 0 /\ q \notin U
  <2>1. Head(todo[t]).op # "sent"
    <3>1. ASSUME Head(todo[t]).op = "sent" PROVE FALSE
      <4>1. loop[Loop(t)] = p /\ WaitsForLoop(t, q)
        BY <1>11, <3>1, Waiting
      <4> QED BY <1>9, <1>10, <4>1 DEF WaitsForLoop
    <3> QED BY <3>1
  <2>2. Head(todo[t]).op \in {"get", "peek"} /\ KeyOf(t) \in Keys
        /\ KeyOf(t).kind \in {"csv", "format"}
    BY <1>2, <2>1
  <2>3. WaitsToLock(t, q)
    <3>1. writer[KeyOf(t)] = q \/ WaitsToLock(t, q)
      BY <1>11, <2>2, Waiting
    <3>2. writer[KeyOf(t)] # q
      BY <1>2, <2>2
    <3> QED BY <3>1, <3>2
  <2>4. q \notin U
    BY <1>10, <2>3
  <2> QED BY <2>2, <2>3, <2>4 DEF WaitsToLock
<1>13. PICK b \in S : WaitsFor(q, b)
  BY <1>1
<1>14. Head(todo[q]).op = "sent"
  <2>1. ASSUME Head(todo[q]).op \in {"get", "peek"} PROVE FALSE
    <3>1. Order(KeyOf(q), held[q]) /\ KeyOf(q) \in Keys
      BY <1>13, <2>1, Waiting
    <3>2. KeyOf(t).kind \in Below(KeyOf(q).kind)
      BY <1>12, <3>1 DEF Order
    <3>3. KeyOf(q).kind \in {"user", "raw", "csv", "format", "aug"}
      BY <3>1 DEF Keys, UserData, Raw, Csv, Format, AugPosted, AugDataset
    <3>4. KeyOf(q).kind \in {"csv", "format"}
      BY <1>12, <3>2, <3>3 DEF Below
    <3> QED BY <1>12, <2>1, <3>4
  <2> QED BY <1>2, <2>1
<1>15. loop[Loop(q)] = b /\ loop[Loop(q)] # p
  BY <1>12, <1>13, <1>14, Waiting DEF WaitsForLoop
<1>16. Loop(q) # Loop(p)
  BY <1>7, <1>15
<1> HIDE DEF U
<1> QED
  <2>1. t \in S
    BY <1>10 DEF U
  <2> QED BY <1>5, <1>6, <1>7, <1>8, <1>12, <1>14, <1>15, <1>16, <2>1

LEMMA InitWaiting == Init => OwnInv /\ NestInv /\ RingInv
<1> SUFFICES ASSUME Init PROVE OwnInv /\ NestInv /\ RingInv
  OBVIOUS
<1>1. \A p \in Procs : todo[p] = <<>> /\ phase[p] = "look"
  BY DEF Init
<1>2. OwnInv
  BY <1>1 DEF OwnInv, Owned, Paced
<1>3. NestInv
  BY <1>1 DEF NestInv, Nested
<1>4. RingInv
  BY <1>1 DEF RingInv, Ring, WaitsToLock, WaitsForLoop
<1> QED BY <1>2, <1>3, <1>4

WaitInv == TypeOK /\ MadeInv /\ EntryInv /\ LockInv /\ OwnInv /\ NestInv /\ RingInv

LEMMA WaitingCorrect == Spec => []WaitInv
<1>1. Init => WaitInv
  BY InitInv, InitLocks, InitWaiting DEF WaitInv
<1>2. WaitInv /\ [Next]_vars => WaitInv'
  BY TypeStep, StepMade, StepEntry, StepLocks, StepOwned, StepNested, StepRing DEF WaitInv
<1> QED BY <1>1, <1>2, PTL DEF Spec

(* When processes wait for each other, they do in the one way that          *)
(* CircularWaitsExplained describes: through the locks of cache_get_or_set()*)
(* and the event loops of two apiservers at least, one of which waits for   *)
(* the augmentation that the other creates.                                 *)
THEOREM CircularWaitsAreExplained == Spec => []CircularWaitsExplained
<1>1. WaitInv => CircularWaitsExplained
  BY Explained DEF WaitInv
<1> QED BY <1>1, WaitingCorrect, PTL

(* With a single apiserver, whatever requests it serves and however many    *)
(* profilers there are, nobody ever waits in a circle for a lock of the     *)
(* cache or for the event loop.                                             *)
THEOREM OneServerNeverStops ==
  ASSUME \A g, h \in Handlers : Server[g] = Server[h]
  PROVE  Spec => []NoCircularWait
<1>1. WaitInv => NoCircularWait
  <2> SUFFICES ASSUME WaitInv, NEW S \in SUBSET Procs, Circular(S) PROVE FALSE
    BY DEF NoCircularWait
  <2>1. CircularWaitsExplained
    BY Explained DEF WaitInv
  <2>2. PICK p, r \in S : {p, r} \subseteq Handlers /\ Loop(r) # Loop(p)
    BY <2>1 DEF CircularWaitsExplained
  <2> QED BY <2>2 DEF Loop
<1> QED BY <1>1, WaitingCorrect, PTL
=============================================================================
