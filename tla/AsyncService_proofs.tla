------------------------ MODULE AsyncService_proofs ------------------------
(***************************************************************************)
(* Safety of AsyncService for any number of workers, clients, models,      *)
(* requests and sentences.                                                 *)
(*                                                                         *)
(* The inductive invariant IInv says where every sentence is: a request    *)
(* that has been handed to the pool has counter_ sentences waiting or in   *)
(* workers' batches, and a request still being submitted has none.  The    *)
(* count of the pool, the reachability of its sentences and the single     *)
(* answer of each request follow from that.                                *)
(***************************************************************************)
EXTENDS AsyncService, TLAPS, FiniteSetTheorems, FunctionTheorems

Submitting(c) == cpc[c] \in {"submitFirst", "submitLast", "submitOne"}

(* Requests that exist and whose sentences are not in the pool yet.        *)
Unsubmitted == {r \in Requests : \E c \in Clients : Submitting(c) /\ r \in group[c]}

(* The sentences of r that are still to be translated.                     *)
Open(r) ==
    {s \in Sentences : s[1] = r /\ (s \in waiting \/ \E w \in Workers : s \in todo[w])}

(* A sentence is in one place.                                             *)
OneHome ==
    /\ \A w \in Workers : todo[w] \cap waiting = {}
    /\ \A v, w \in Workers : v # w => todo[v] \cap todo[w] = {}

(* An id that was not given out has no sentence and no answer.             *)
UnbornOpen ==
    \A r \in Requests : r > requestId => req[r] = Unborn /\ Open(r) = {}

(* A call submits requests that exist, and no other call submits them.     *)
GroupsApart ==
    /\ \A c \in Clients : group[c] \subseteq 1 .. requestId
    /\ \A c, d \in Clients :
          c # d /\ Submitting(c) /\ Submitting(d) => group[c] \cap group[d] = {}

(* The counter of a request is the number of its open sentences, and the   *)
(* response is there when it is zero.                                      *)
Counted ==
    \A r \in 1 .. requestId :
        /\ Cardinality(Open(r)) = IF r \in Unsubmitted THEN 0 ELSE req[r].counter
        /\ req[r].answers = IF req[r].counter = 0 THEN 1 ELSE 0

Accounting == OneHome /\ UnbornOpen /\ GroupsApart /\ Counted

(* What a call is about to enqueue is for the model it will put in the     *)
(* aggregate queue.                                                        *)
LegOf(c) == IF cpc[c] = "submitLast" THEN args[c][Len(args[c])] ELSE args[c][1]

CallsMatch ==
    \A c \in Clients :
        /\ Submitting(c) => Len(args[c]) >= 1 /\ \A r \in group[c] : req[r].leg = LegOf(c)
        /\ cpc[c] \in {"submitFirst", "collectFirst"} => Len(args[c]) = 2

(* After the shutdown no call submits anything; a worker that left its     *)
(* loop holds nothing, and the last one leaves nothing in the pools.       *)
ShutdownOrder ==
    /\ shutdown => \A c \in Clients : cpc[c] \in {"idle", "maintain", "await", "observe"}
    /\ \A w \in Workers : wpc[w] \notin {"translate", "count"} => todo[w] = {}
    /\ (\A w \in Workers : wpc[w] = "exit") => waiting = {}

IInv ==
    /\ TypeOK
    /\ Accounting
    /\ NothingStranded
    /\ CallsMatch
    /\ WorkersStayOn
    /\ ShutdownOrder

-----------------------------------------------------------------------------
(* Facts about the operators of the model.                                 *)

LEMMA SentencesFinite ==
    IsFiniteSet(Sentences) /\ \A S \in SUBSET Sentences : IsFiniteSet(S)
<1>1. IsFiniteSet(Requests) /\ IsFiniteSet(1 .. MaxSegments)
  BY FS_Interval, ServiceAssumption DEF Requests
<1>2. IsFiniteSet(Sentences)
  BY <1>1, FS_Product DEF Sentences
<1> QED BY <1>2, FS_Subset

(* A request with k segments brings k sentences.                           *)
LEMMA SegmentCount ==
    ASSUME NEW r \in Requests, NEW k \in 0 .. MaxSegments
    PROVE  Cardinality({s \in Sentences : s[1] = r /\ s[2] <= k}) = k
<1> DEFINE S == {s \in Sentences : s[1] = r /\ s[2] <= k}
           f == [i \in 1 .. k |-> <<r, i>>]
<1>1. \A i \in 1 .. k : <<r, i>> \in S
  BY ServiceAssumption DEF Sentences
<1>2. \A s \in S : s[2] \in 1 .. k /\ s = <<r, s[2]>>
  BY ServiceAssumption DEF Sentences
<1>3. f \in Bijection(1 .. k, S)
  <2>1. f \in [1 .. k -> S]
    BY <1>1
  <2>2. \A i, j \in 1 .. k : f[i] = f[j] => i = j
    OBVIOUS
  <2>3. \A s \in S : \E i \in 1 .. k : f[i] = s
    BY <1>2
  <2> QED BY <2>1, <2>2, <2>3, Fun_IsBij
<1>4. ExistsBijection(1 .. k, S)
  BY <1>3 DEF ExistsBijection
<1>5. k \in Nat
  BY ServiceAssumption
<1> QED BY <1>4, <1>5, FS_CountingElements

LEMMA RequestTyped ==
    ASSUME NEW m \in Models, NEW nxt \in Models \cup {NoModel},
           NEW k \in 0 .. MaxSegments
    PROVE  Request(m, nxt, k) \in RequestRecord
  BY DEF Request, RequestRecord

(* What Create() does to the table of requests.                            *)
LEMMA CreateFacts ==
    ASSUME TypeOK, ServiceAssumption,
           NEW old \in [Requests -> RequestRecord],
           NEW new, IsFiniteSet(DOMAIN new),
           \A r \in DOMAIN new : new[r] \in RequestRecord,
           Create(new, old)
    PROVE  /\ requestId' \in requestId .. MaxRequests
           /\ DOMAIN new = requestId + 1 .. requestId'
           /\ DOMAIN new \subseteq Requests
           /\ req' \in [Requests -> RequestRecord]
           /\ \A r \in Requests : req'[r] = IF r \in DOMAIN new THEN new[r] ELSE old[r]
<1>1. Cardinality(DOMAIN new) \in Nat
  BY FS_CardinalityType
<1>2. requestId \in 0 .. MaxRequests /\ MaxRequests \in Nat
  BY DEF TypeOK, ServiceAssumption
<1>3. /\ requestId' \in requestId .. MaxRequests
      /\ DOMAIN new = requestId + 1 .. requestId'
  BY <1>1, <1>2 DEF Create
<1>4. DOMAIN new \subseteq Requests
  BY <1>2, <1>3 DEF Requests
<1>5. req' = [r \in Requests |-> IF r \in DOMAIN new THEN new[r] ELSE old[r]]
  BY DEF Create
<1> QED BY <1>3, <1>4, <1>5

(* The requests that a finished first leg may chain.                       *)
LEMMA SecondLegFacts ==
    ASSUME ServiceAssumption, NEW q \in RequestRecord, NEW id \in Nat,
           NEW new \in SecondLegs(q, id)
    PROVE  /\ IsFiniteSet(DOMAIN new)
           /\ \A r \in DOMAIN new :
                 /\ q.next \in Models
                 /\ \E k \in 0 .. MaxSegments : new[r] = Request(q.next, NoModel, k)
                 /\ new[r] \in RequestRecord
                 /\ new[r].leg = q.next
<1>0. q.next \in Models \cup {NoModel}
  BY DEF RequestRecord
<1>1. CASE q.next = NoModel
  <2>1. DOMAIN new = {}
    BY <1>1 DEF SecondLegs, NoRequests
  <2> QED BY <2>1, FS_EmptySet
<1>2. CASE q.next # NoModel
  <2>1. PICK k \in 0 .. MaxSegments :
            new = [r \in {id + 1} |-> Request(q.next, NoModel, k)]
    BY <1>2 DEF SecondLegs
  <2>2. IsFiniteSet(DOMAIN new)
    BY <2>1, FS_Singleton
  <2>3. Request(q.next, NoModel, k) \in RequestRecord
    BY <1>0, <1>2, RequestTyped
  <2>4. Request(q.next, NoModel, k).leg = q.next
    BY DEF Request
  <2> QED BY <1>0, <1>2, <2>1, <2>2, <2>3, <2>4
<1> QED BY <1>1, <1>2

-----------------------------------------------------------------------------
(* Types.                                                                  *)

(* A sentence in a worker's batch is one its request still counts.         *)
LEMMA StillCounted ==
    ASSUME TypeOK, Accounting, NEW w \in Workers, NEW s \in todo[w]
    PROVE  /\ s \in Sentences
           /\ s[1] \in 1 .. requestId
           /\ s[1] \in Requests
           /\ s[1] \notin Unsubmitted
           /\ req[s[1]].counter \in 1 .. MaxSegments
           /\ req[s[1]].answers = 0
<1>1. s \in Sentences /\ s[1] \in Requests
  BY DEF TypeOK, Sentences
<1>2. s \in Open(s[1])
  BY <1>1 DEF Open
<1>3. s[1] \in 1 .. requestId
  BY <1>1, <1>2 DEF Accounting, UnbornOpen, Requests, TypeOK
<1>4. Cardinality(Open(s[1])) # 0
  <2>1. Open(s[1]) \in SUBSET Sentences
    BY DEF Open
  <2> QED BY <1>2, <2>1, SentencesFinite, FS_EmptySet
<1>5. s[1] \notin Unsubmitted /\ req[s[1]].counter # 0 /\ req[s[1]].answers = 0
  BY <1>3, <1>4 DEF Accounting, Counted
<1>6. req[s[1]].counter \in 0 .. MaxSegments
  BY <1>1 DEF TypeOK, RequestRecord
<1> QED BY <1>1, <1>3, <1>5, <1>6

LEMMA TypeInit == ASSUME ServiceAssumption, Init PROVE TypeOK
<1>1. requestId \in 0 .. MaxRequests /\ 0 \in 0 .. MaxSegments
  BY DEF ServiceAssumption, Init
<1>2. req \in [Requests -> RequestRecord]
  BY <1>1 DEF Init, RequestRecord, Unborn
<1>3. args \in [Clients -> Seq(Models)]
  BY DEF Init
<1>4. shutdown \in BOOLEAN /\ destroyed \in [Clients -> BOOLEAN] /\ settled \in [Clients -> BOOLEAN]
  BY DEF Init
<1>5. /\ wpc \in [Workers -> {"wait", "translate", "count", "drop", "maintain", "exit"}]
      /\ batch \in [Workers -> SUBSET Sentences]
      /\ todo \in [Workers -> SUBSET Sentences]
      /\ held \in [Workers -> Models \cup {NoModel}]
      /\ seen \in [Workers -> Nat]
  BY DEF Init
<1>6. /\ cpc \in [Clients -> {"idle", "submitFirst", "collectFirst", "submitLast",
                            "collectLast", "submitOne", "maintain", "await", "observe"}]
      /\ group \in [Clients -> SUBSET Requests]
      /\ target \in [Clients -> Models \cup {NoModel}]
  BY DEF Init
<1>7. /\ enqueued \in Int /\ epoch \in Nat /\ acked \in Nat
      /\ serial \in Clients \cup {NoClient}
      /\ stored = {} /\ waiting = {} /\ queue = {} /\ asleep = {} /\ stale = {}
      /\ handles = Models
  BY DEF Init
<1> QED BY <1>1, <1>2, <1>3, <1>4, <1>5, <1>6, <1>7 DEF TypeOK

-----------------------------------------------------------------------------
(* Steps that create requests.                                             *)

(* The step gives the ids in N to new requests; the response of a new      *)
(* request with nothing to translate is there at once.                     *)
Creates(N) ==
    /\ requestId' \in requestId .. MaxRequests
    /\ N = requestId + 1 .. requestId'
    /\ N \subseteq Requests
    /\ req' \in [Requests -> RequestRecord]
    /\ \A r \in N : req'[r].answers = IF req'[r].counter = 0 THEN 1 ELSE 0

(* The step puts the sentences of the requests R in the pools and their    *)
(* models in the aggregate queue.                                          *)
Submits(R) ==
    /\ waiting' = waiting \cup SentencesOf(R, req')
    /\ enqueued' = enqueued + Cardinality(SentencesOf(R, req'))
    /\ queue \subseteq queue' /\ queue' \subseteq Models
    /\ asleep' \subseteq asleep
    /\ \A r \in R : SentencesOf({r}, req') # {} => req'[r].leg \in queue'

LEMMA SentencesOfNone == ASSUME NEW table PROVE SentencesOf({}, table) = {}
  BY DEF SentencesOf

LEMMA SubmitsNone ==
    ASSUME TypeOK, UNCHANGED <<poolvars, asleep>>
    PROVE  Submits({})
<1>1. Cardinality(SentencesOf({}, req')) = 0 /\ SentencesOf({}, req') = {}
  BY SentencesOfNone, FS_EmptySet
<1> QED BY <1>1 DEF Submits, poolvars, TypeOK

LEMMA SubmitsPut ==
    ASSUME TypeOK, NEW R, NEW m \in Models, NEW ms \in SUBSET {m},
           Put(SentencesOf(R, req'), ms),
           \A r \in R : SentencesOf({r}, req') # {} => ms = {m} /\ req'[r].leg = m
    PROVE  Submits(R)
  BY DEF Submits, Put, Notify, TypeOK

(* What CountDown() does, whether or not it chains a second leg: one       *)
(* sentence leaves the batch, its request is counted down, and the         *)
(* requests N of the second leg are created and submitted.                 *)
LEMMA CountDownFacts ==
    ASSUME ServiceAssumption, TypeOK, Accounting, NEW w \in Workers, CountDown(w)
    PROVE  \E s \in todo[w], N \in SUBSET Requests :
              /\ todo' = [todo EXCEPT ![w] = @ \ {s}]
              /\ Creates(N)
              /\ Submits(N)
              /\ \A r \in Requests \ N : r # s[1] => req'[r] = req[r]
              /\ s[1] \notin N
              /\ req'[s[1]].leg = req[s[1]].leg
              /\ req'[s[1]].counter = req[s[1]].counter - 1
              /\ req'[s[1]].answers = IF req'[s[1]].counter = 0 THEN 1 ELSE 0
<1> DEFINE After(r) == [req EXCEPT ![r].counter = @ - 1,
                                   ![r].answers = IF Completes(req[r]) THEN @ + 1 ELSE @]
           Chained(r) == IF Completes(req[r]) THEN SecondLegs(req[r], requestId)
                                              ELSE {NoRequests}
<1>1. PICK s \in todo[w] : \E new \in Chained(s[1]) :
          /\ Create(new, After(s[1]))
          /\ IF DOMAIN new = {}
               THEN UNCHANGED <<poolvars, asleep>>
               ELSE Put(SentencesOf(DOMAIN new, req'), {req[s[1]].next})
          /\ todo' = [todo EXCEPT ![w] = @ \ {s}]
  BY DEF CountDown
<1> DEFINE r == s[1]
<1>2. PICK new \in Chained(r) :
          /\ Create(new, After(r))
          /\ IF DOMAIN new = {}
               THEN UNCHANGED <<poolvars, asleep>>
               ELSE Put(SentencesOf(DOMAIN new, req'), {req[r].next})
          /\ todo' = [todo EXCEPT ![w] = @ \ {s}]
  BY <1>1
<1>3. /\ s \in Sentences /\ r \in Requests /\ r \in 1 .. requestId
      /\ req[r].counter \in 1 .. MaxSegments /\ req[r].answers = 0
  BY StillCounted
<1>4. /\ After(r) \in [Requests -> RequestRecord]
      /\ After(r)[r].leg = req[r].leg
      /\ After(r)[r].counter = req[r].counter - 1
      /\ After(r)[r].answers = IF After(r)[r].counter = 0 THEN 1 ELSE 0
      /\ \A x \in Requests : x # r => After(r)[x] = req[x]
  <2>1. req[r] \in RequestRecord /\ req \in [Requests -> RequestRecord]
    BY <1>3 DEF TypeOK
  <2>2. /\ After(r)[r].leg = req[r].leg
        /\ After(r)[r].next = req[r].next
        /\ After(r)[r].counter = req[r].counter - 1
        /\ After(r)[r].answers = IF req[r].counter = 1 THEN 1 ELSE 0
    BY <1>3, <2>1 DEF RequestRecord, Completes
  <2>3. After(r)[r] \in RequestRecord
    <3> DEFINE n == IF Completes(req[r]) THEN req[r].answers + 1 ELSE req[r].answers
    <3>1. req[r].counter - 1 \in 0 .. MaxSegments /\ n \in Nat
      BY <1>3, <2>1 DEF RequestRecord, ServiceAssumption
    <3>2. After(r)[r] = [req[r] EXCEPT !.counter = req[r].counter - 1, !.answers = n]
      BY <1>3, <2>1 DEF RequestRecord
    <3> HIDE DEF n, After, r
    <3> QED BY <2>1, <3>1, <3>2 DEF RequestRecord
  <2>4. \A x \in Requests : x # r => After(r)[x] = req[x]
    BY <2>1
  <2> QED BY <1>3, <2>1, <2>2, <2>3, <2>4 DEF RequestRecord
<1>5. /\ IsFiniteSet(DOMAIN new)
      /\ \A x \in DOMAIN new :
            /\ req[r].next \in Models
            /\ new[x] \in RequestRecord
            /\ new[x].leg = req[r].next
            /\ new[x].answers = IF new[x].counter = 0 THEN 1 ELSE 0
  <2>1. CASE Completes(req[r])
    <3>1. requestId \in Nat /\ req[r] \in RequestRecord
      BY <1>3 DEF TypeOK, ServiceAssumption
    <3>2. new \in SecondLegs(req[r], requestId)
      BY <2>1, <1>2
    <3> HIDE DEF r
    <3> QED BY <3>1, <3>2, SecondLegFacts DEF Request
  <2>2. CASE ~Completes(req[r])
    BY <2>2, <1>2, FS_EmptySet DEF NoRequests
  <2> QED BY <2>1, <2>2
<1> DEFINE N == DOMAIN new
<1>6. /\ requestId' \in requestId .. MaxRequests
      /\ N = requestId + 1 .. requestId'
      /\ N \subseteq Requests
      /\ req' \in [Requests -> RequestRecord]
      /\ \A x \in Requests : req'[x] = IF x \in N THEN new[x] ELSE After(r)[x]
  <2> HIDE DEF After, r
  <2> QED BY <1>2, <1>4, <1>5, CreateFacts
<1>7. Creates(N)
  BY <1>5, <1>6 DEF Creates
<1>8. Submits(N)
  <2>1. CASE N = {}
    BY <2>1, <1>2, SubmitsNone
  <2>2. CASE N # {}
    <3>1. Put(SentencesOf(N, req'), {req[r].next}) /\ req[r].next \in Models
      BY <2>2, <1>2, <1>5
    <3>2. \A x \in N : req'[x].leg = req[r].next
      BY <1>5, <1>6
    <3> HIDE DEF N, r
    <3> QED BY <3>1, <3>2, SubmitsPut
  <2> QED BY <2>1, <2>2
<1>9. r \notin N
  BY <1>3, <1>6 DEF TypeOK
<1> HIDE DEF N, After, r
<1>10. N \in SUBSET Requests /\ todo' = [todo EXCEPT ![w] = @ \ {s}]
  BY <1>2, <1>6
<1>11. /\ \A x \in Requests \ N : x # s[1] => req'[x] = req[x]
       /\ req'[s[1]].leg = req[s[1]].leg
       /\ req'[s[1]].counter = req[s[1]].counter - 1
       /\ req'[s[1]].answers = IF req'[s[1]].counter = 0 THEN 1 ELSE 0
  BY <1>3, <1>4, <1>6, <1>9 DEF r
<1> QED BY <1>7, <1>8, <1>9, <1>10, <1>11 DEF r

(* The models of a call: one, or two for a pivot.                          *)
LEMMA CallArguments ==
    ASSUME TypeOK, NEW ms \in UNION {[1 .. n -> handles] : n \in 1 .. 2}
    PROVE  /\ ms \in Seq(Models)
           /\ Len(ms) \in 1 .. 2
           /\ ms[1] \in Models
           /\ Len(ms) = 2 => ms[2] \in Models
<1>1. PICK n \in 1 .. 2 : ms \in [1 .. n -> handles]
  OBVIOUS
<1>2. n \in Nat /\ ms \in [1 .. n -> Models]
  BY <1>1 DEF TypeOK
<1>3. ms \in Seq(Models) /\ Len(ms) = n
  BY <1>2
<1> QED BY <1>1, <1>2, <1>3

(* A table of new requests, all of them for model m and chaining nothing.  *)
LEMMA CreatesTable ==
    ASSUME ServiceAssumption, TypeOK, NEW n \in Nat, NEW m \in Models,
           NEW new \in NewRequests(n, m), Create(new, req)
    PROVE  /\ Creates(DOMAIN new)
           /\ \A r \in Requests \ DOMAIN new : req'[r] = req[r]
           /\ \A r \in DOMAIN new : req'[r].leg = m
<1>1. requestId \in Nat
  BY DEF TypeOK, ServiceAssumption
<1>2. IsFiniteSet(DOMAIN new)
  BY <1>1, FS_Interval DEF NewRequests
<1>3. \A r \in DOMAIN new :
          /\ new[r] \in RequestRecord
          /\ new[r].leg = m
          /\ new[r].answers = IF new[r].counter = 0 THEN 1 ELSE 0
  <2> TAKE r \in DOMAIN new
  <2>1. PICK k \in 0 .. MaxSegments : new[r] = Request(m, NoModel, k)
    BY DEF NewRequests
  <2> QED BY <2>1, RequestTyped DEF Request
<1>4. req \in [Requests -> RequestRecord]
  BY DEF TypeOK
<1>5. /\ requestId' \in requestId .. MaxRequests
      /\ DOMAIN new = requestId + 1 .. requestId'
      /\ DOMAIN new \subseteq Requests
      /\ req' \in [Requests -> RequestRecord]
      /\ \A r \in Requests : req'[r] = IF r \in DOMAIN new THEN new[r] ELSE req[r]
  BY <1>2, <1>3, <1>4, CreateFacts
<1> QED BY <1>3, <1>5 DEF Creates

LEMMA CallMultipleFacts ==
    ASSUME ServiceAssumption, TypeOK, NEW c \in Clients, CallMultiple(c)
    PROVE  \E N \in SUBSET Requests, ms \in Seq(Models) :
              /\ Creates(N)
              /\ \A r \in Requests \ N : req'[r] = req[r]
              /\ \A r \in N : req'[r].leg = ms[1]
              /\ group' = [group EXCEPT ![c] = N]
              /\ args' = [args EXCEPT ![c] = ms]
              /\ Len(ms) \in 1 .. 2
              /\ cpc' = [cpc EXCEPT ![c] =
                            IF Len(ms) = 2 THEN "submitFirst" ELSE "submitLast"]
<1>1. PICK ms \in UNION {[1 .. n -> handles] : n \in 1 .. 2}, n \in 1 .. MaxSources :
          /\ \E new \in NewRequests(n, ms[1]) :
              /\ Create(new, req)
              /\ group' = [group EXCEPT ![c] = DOMAIN new]
          /\ args' = [args EXCEPT ![c] = ms]
          /\ cpc' = [cpc EXCEPT ![c] = IF Len(ms) = 2 THEN "submitFirst" ELSE "submitLast"]
  BY DEF CallMultiple
<1>2. PICK new \in NewRequests(n, ms[1]) :
          /\ Create(new, req)
          /\ group' = [group EXCEPT ![c] = DOMAIN new]
  BY <1>1
<1>3. ms \in Seq(Models) /\ Len(ms) \in 1 .. 2 /\ ms[1] \in Models
  BY CallArguments
<1>4. n \in Nat
  BY DEF ServiceAssumption
<1> DEFINE N == DOMAIN new
<1>5. /\ Creates(N)
      /\ \A r \in Requests \ N : req'[r] = req[r]
      /\ \A r \in N : req'[r].leg = ms[1]
  BY <1>2, <1>3, <1>4, CreatesTable
<1>6. N \in SUBSET Requests /\ group' = [group EXCEPT ![c] = N]
  BY <1>2, <1>5 DEF Creates
<1> HIDE DEF N
<1> QED BY <1>1, <1>3, <1>5, <1>6

LEMMA StartSecondLegFacts ==
    ASSUME ServiceAssumption, TypeOK, NEW c \in Clients, StartSecondLeg(c),
           Len(args[c]) = 2
    PROVE  \E N \in SUBSET Requests :
              /\ Creates(N)
              /\ \A r \in Requests \ N : req'[r] = req[r]
              /\ \A r \in N : req'[r].leg = args[c][2]
              /\ group' = [group EXCEPT ![c] = N]
<1>1. PICK new \in NewRequests(Cardinality(group[c]), args[c][2]) :
          /\ Create(new, req)
          /\ group' = [group EXCEPT ![c] = DOMAIN new]
  BY DEF StartSecondLeg
<1>2. args[c][2] \in Models
  <2>1. args[c] \in Seq(Models)
    BY DEF TypeOK
  <2> QED BY <2>1
<1>3. Cardinality(group[c]) \in Nat
  <2>1. IsFiniteSet(Requests)
    BY FS_Interval, ServiceAssumption DEF Requests
  <2>2. group[c] \in SUBSET Requests
    BY DEF TypeOK
  <2> QED BY <2>1, <2>2, FS_Subset, FS_CardinalityType
<1> DEFINE N == DOMAIN new
<1>4. /\ Creates(N)
      /\ \A r \in Requests \ N : req'[r] = req[r]
      /\ \A r \in N : req'[r].leg = args[c][2]
  BY <1>1, <1>2, <1>3, CreatesTable
<1>5. N \in SUBSET Requests /\ group' = [group EXCEPT ![c] = N]
  BY <1>1, <1>4 DEF Creates
<1> HIDE DEF N
<1> QED BY <1>4, <1>5

(* A single request is created and will be submitted by the call; if it    *)
(* has nothing to translate its second leg, R, is submitted in this step.  *)
LEMMA CallOneFacts ==
    ASSUME ServiceAssumption, TypeOK, NEW c \in Clients, CallOne(c)
    PROVE  \E N, R \in SUBSET Requests, ms \in Seq(Models) :
              /\ Creates(N)
              /\ Submits(R)
              /\ requestId + 1 \in N
              /\ R = N \ {requestId + 1}
              /\ \A r \in Requests \ N : req'[r] = req[r]
              /\ req'[requestId + 1].leg = ms[1]
              /\ group' = [group EXCEPT ![c] = {requestId + 1}]
              /\ args' = [args EXCEPT ![c] = ms]
              /\ Len(ms) \in 1 .. 2
<1> DEFINE one == requestId + 1
           First(ms, k) == Request(ms[1], IF Len(ms) = 2 THEN ms[2] ELSE NoModel, k)
           Seconds(ms, k) == IF k = 0 THEN SecondLegs(First(ms, k), one) ELSE {NoRequests}
           Both(ms, k, second) == [r \in {one} \cup DOMAIN second |->
                                      IF r = one THEN First(ms, k) ELSE second[r]]
<1>1. PICK ms \in UNION {[1 .. n -> handles] : n \in 1 .. 2}, k \in 0 .. MaxSegments :
          \E second \in Seconds(ms, k) :
              /\ Create(Both(ms, k, second), req)
              /\ IF DOMAIN second = {}
                   THEN UNCHANGED <<poolvars, asleep>>
                   ELSE Put(SentencesOf(DOMAIN second, req'), {First(ms, k).next})
              /\ group' = [group EXCEPT ![c] = {one}]
              /\ args' = [args EXCEPT ![c] = ms]
  BY DEF CallOne
<1>2. PICK second \in Seconds(ms, k) :
          /\ Create(Both(ms, k, second), req)
          /\ IF DOMAIN second = {}
               THEN UNCHANGED <<poolvars, asleep>>
               ELSE Put(SentencesOf(DOMAIN second, req'), {First(ms, k).next})
          /\ group' = [group EXCEPT ![c] = {one}]
          /\ args' = [args EXCEPT ![c] = ms]
  BY <1>1
<1>3. ms \in Seq(Models) /\ Len(ms) \in 1 .. 2 /\ ms[1] \in Models
                         /\ (Len(ms) = 2 => ms[2] \in Models)
  BY CallArguments
<1>4. requestId \in Nat /\ one \in Nat
  BY DEF TypeOK, ServiceAssumption
<1> DEFINE first == First(ms, k)
<1>5. /\ first \in RequestRecord
      /\ first.leg = ms[1]
      /\ first.answers = IF first.counter = 0 THEN 1 ELSE 0
  BY <1>3, RequestTyped DEF Request
<1> DEFINE R == DOMAIN second
           new == Both(ms, k, second)
           N == DOMAIN new
<1>6. /\ IsFiniteSet(R)
      /\ \A x \in R :
            /\ first.next \in Models
            /\ second[x] \in RequestRecord
            /\ second[x].leg = first.next
            /\ second[x].answers = IF second[x].counter = 0 THEN 1 ELSE 0
            /\ x # one
  <2>1. CASE k = 0
    <3>1. second \in SecondLegs(first, one)
      BY <2>1, <1>2
    <3>2. \A x \in R : x # one
      BY <3>1, <1>4 DEF SecondLegs, NoRequests
    <3> HIDE DEF first, one
    <3> QED BY <1>4, <1>5, <3>1, <3>2, SecondLegFacts DEF Request
  <2>2. CASE k # 0
    BY <2>2, <1>2, FS_EmptySet DEF NoRequests
  <2> QED BY <2>1, <2>2
<1>7. N = {one} \cup R /\ IsFiniteSet(N)
  <2>1. N = {one} \cup R
    OBVIOUS
  <2> QED BY <2>1, <1>6, FS_AddElement
<1>8. \A x \in N :
          /\ new[x] = IF x = one THEN first ELSE second[x]
          /\ new[x] \in RequestRecord
          /\ new[x].answers = IF new[x].counter = 0 THEN 1 ELSE 0
  <2> TAKE x \in N
  <2>1. new[x] = IF x = one THEN first ELSE second[x]
    OBVIOUS
  <2> HIDE DEF new, first
  <2> QED BY <2>1, <1>5, <1>6, <1>7
<1>9. Create(new, req) /\ req \in [Requests -> RequestRecord]
  BY <1>2 DEF TypeOK
<1> HIDE DEF new, first
<1>10. /\ requestId' \in requestId .. MaxRequests
       /\ N = requestId + 1 .. requestId'
       /\ N \subseteq Requests
       /\ req' \in [Requests -> RequestRecord]
       /\ \A x \in Requests : req'[x] = IF x \in N THEN new[x] ELSE req[x]
  BY <1>7, <1>8, <1>9, CreateFacts
<1>11. Creates(N) /\ one \in N /\ R = N \ {one} /\ R \subseteq Requests
  BY <1>6, <1>7, <1>8, <1>10 DEF Creates
<1>12. /\ \A r \in Requests \ N : req'[r] = req[r]
       /\ \A x \in R : req'[x].leg = first.next
       /\ req'[one].leg = ms[1]
  BY <1>5, <1>6, <1>7, <1>8, <1>10
<1>13. Submits(R)
  <2>1. CASE R = {}
    BY <2>1, <1>2, SubmitsNone
  <2>2. CASE R # {}
    <3>1. Put(SentencesOf(R, req'), {first.next})
      BY <2>2, <1>2 DEF first
    <3>2. first.next \in Models
      BY <2>2, <1>6
    <3> HIDE DEF R
    <3> QED BY <3>1, <3>2, <1>12, SubmitsPut
  <2> QED BY <2>1, <2>2
<1>14. /\ group' = [group EXCEPT ![c] = {one}]
       /\ args' = [args EXCEPT ![c] = ms]
  BY <1>2
<1> HIDE DEF N, R
<1> QED BY <1>3, <1>10, <1>11, <1>12, <1>13, <1>14

LEMMA SubmitsTyped ==
    ASSUME TypeOK, NEW R, Submits(R)
    PROVE  /\ waiting' \in SUBSET Sentences
           /\ queue' \in SUBSET Models
           /\ enqueued' \in Int
           /\ asleep' \in SUBSET (Workers \cup Clients)
<1>1. SentencesOf(R, req') \in SUBSET Sentences
  BY DEF SentencesOf
<1>2. Cardinality(SentencesOf(R, req')) \in Nat
  BY <1>1, SentencesFinite, FS_CardinalityType
<1> QED BY <1>1, <1>2 DEF Submits, TypeOK

(* A call submits the requests it created.                                 *)
LEMMA SubmitsGroup ==
    ASSUME TypeOK, CallsMatch, NEW c \in Clients,
           \/ EnqueueRequests(c)
           \/ EnqueueRequest(c)
    PROVE  Submits(group[c])
<1>1. req' = req
  BY DEF EnqueueRequests, EnqueueRequest, reqvars
<1>2. Submitting(c)
  BY DEF EnqueueRequests, EnqueueRequest, Submitting
<1>3. LegOf(c) \in Models /\ \A r \in group[c] : req[r].leg = LegOf(c)
  <2>1. args[c] \in Seq(Models) /\ Len(args[c]) >= 1 /\ Len(args[c]) \in Nat
    BY <1>2 DEF CallsMatch, TypeOK
  <2>2. args[c][1] \in Models /\ args[c][Len(args[c])] \in Models
    BY <2>1
  <2> QED BY <1>2, <2>2 DEF CallsMatch, LegOf
<1> DEFINE S == SentencesOf(group[c], req')
<1>4. \E ms \in SUBSET {LegOf(c)} : Put(S, ms) /\ (S # {} => ms = {LegOf(c)})
  <2>1. CASE EnqueueRequests(c)
    <3>1. Put(S, IF S = {} THEN {} ELSE {LegOf(c)})
      BY <1>1, <2>1 DEF EnqueueRequests, LegOf
    <3> HIDE DEF S
    <3> QED BY <3>1
  <2>2. CASE EnqueueRequest(c)
    <3>1. Put(S, {LegOf(c)})
      BY <1>1, <2>2 DEF EnqueueRequest, LegOf
    <3> HIDE DEF S
    <3> QED BY <3>1
  <2> QED BY <2>1, <2>2
<1>5. PICK ms \in SUBSET {LegOf(c)} : Put(S, ms) /\ (S # {} => ms = {LegOf(c)})
  BY <1>4
<1>6. \A r \in group[c] : SentencesOf({r}, req') # {} => S # {}
  BY DEF SentencesOf
<1>7. \A r \in group[c] :
          SentencesOf({r}, req') # {} => ms = {LegOf(c)} /\ req'[r].leg = LegOf(c)
  BY <1>1, <1>3, <1>5, <1>6
<1> QED BY <1>3, <1>5, <1>7, SubmitsPut

-----------------------------------------------------------------------------
(* Every step keeps the types.                                             *)

LEMMA TypeWork ==
    ASSUME ServiceAssumption, TypeOK, Accounting, NEW w \in Workers, Work(w)
    PROVE  TypeOK'
<1>1. CASE WorkerSleep(w)
  BY <1>1 DEF WorkerSleep, TypeOK, reqvars, poolvars, maintvars, workervars, clientvars
<1>2. CASE NoticeMaintenance(w)
  BY <1>2 DEF NoticeMaintenance, TypeOK, reqvars, poolvars, maintvars, clientvars
<1>3. CASE DrawBatch(w)
  <2>1. PICK m \in queue : \E B \in (SUBSET Pool(m)) \ {{}} :
            /\ batch' = [batch EXCEPT ![w] = B]
            /\ todo' = [todo EXCEPT ![w] = B]
            /\ held' = [held EXCEPT ![w] = m]
            /\ waiting' = waiting \ B
            /\ enqueued' = enqueued - Cardinality(B)
    BY <1>3 DEF DrawBatch
  <2>2. PICK B \in (SUBSET Pool(m)) \ {{}} :
            /\ batch' = [batch EXCEPT ![w] = B]
            /\ todo' = [todo EXCEPT ![w] = B]
            /\ held' = [held EXCEPT ![w] = m]
            /\ waiting' = waiting \ B
            /\ enqueued' = enqueued - Cardinality(B)
    BY <2>1
  <2>3. B \in SUBSET Sentences /\ Cardinality(B) \in Nat
    <3>1. B \in SUBSET Sentences
      BY DEF Pool, TypeOK
    <3> QED BY <3>1, SentencesFinite, FS_CardinalityType
  <2>4. queue' \in SUBSET Models
    BY <1>3 DEF DrawBatch, ClearedWhenDrained, TypeOK
  <2>5. /\ wpc' = [wpc EXCEPT ![w] = "translate"]
        /\ UNCHANGED <<reqvars, shutdown, maintvars, asleep, seen, clientvars>>
    BY <1>3 DEF DrawBatch
  <2>6. enqueued' \in Int /\ waiting' \in SUBSET Sentences
    BY <2>2, <2>3 DEF TypeOK
  <2>7. /\ batch' \in [Workers -> SUBSET Sentences]
        /\ todo' \in [Workers -> SUBSET Sentences]
        /\ held' \in [Workers -> Models \cup {NoModel}]
    BY <2>2, <2>3 DEF TypeOK
  <2> QED BY <2>4, <2>5, <2>6, <2>7 DEF TypeOK, reqvars, maintvars, clientvars
<1>4. CASE WorkerExit(w)
  BY <1>4 DEF WorkerExit, TypeOK, reqvars, maintvars, clientvars
<1>5. CASE StoreHistory(w)
  BY <1>5 DEF StoreHistory, TypeOK, poolvars, maintvars, clientvars
<1>6. CASE CountDown(w)
  <2>1. PICK s \in todo[w], N \in SUBSET Requests :
            /\ todo' = [todo EXCEPT ![w] = @ \ {s}]
            /\ Creates(N)
            /\ Submits(N)
    BY <1>6, CountDownFacts
  <2>2. todo' \in [Workers -> SUBSET Sentences]
    BY <2>1 DEF TypeOK
  <2>3. /\ requestId' \in 0 .. MaxRequests
        /\ req' \in [Requests -> RequestRecord]
    BY <2>1 DEF Creates, TypeOK, ServiceAssumption
  <2>4. /\ waiting' \in SUBSET Sentences
        /\ queue' \in SUBSET Models
        /\ enqueued' \in Int
        /\ asleep' \in SUBSET (Workers \cup Clients)
    BY <2>1, SubmitsTyped
  <2>5. /\ wpc' = [wpc EXCEPT ![w] = IF todo'[w] = {} THEN "drop" ELSE "translate"]
        /\ UNCHANGED <<stored, shutdown, maintvars, batch, held, seen, clientvars>>
    BY <1>6 DEF CountDown
  <2> QED BY <2>2, <2>3, <2>4, <2>5 DEF TypeOK, maintvars, clientvars
<1>7. CASE DropBatch(w)
  BY <1>7 DEF DropBatch, TypeOK, reqvars, poolvars, clientvars
<1>8. CASE AckMaintenance(w)
  BY <1>8 DEF AckMaintenance, Notify, TypeOK, reqvars, poolvars, clientvars
<1> QED BY <1>1, <1>2, <1>3, <1>4, <1>5, <1>6, <1>7, <1>8 DEF Work

(* The requests of a call, and what it holds.                              *)
LEMMA TypeBegin ==
    ASSUME ServiceAssumption, TypeOK, NEW c \in Clients, Begin(c)
    PROVE  TypeOK'
<1>1. CASE CallMultiple(c)
  <2>1. PICK N \in SUBSET Requests, ms \in Seq(Models) :
            /\ Creates(N)
            /\ group' = [group EXCEPT ![c] = N]
            /\ args' = [args EXCEPT ![c] = ms]
            /\ cpc' = [cpc EXCEPT ![c] = IF Len(ms) = 2 THEN "submitFirst" ELSE "submitLast"]
    BY <1>1, CallMultipleFacts
  <2>2. /\ requestId' \in 0 .. MaxRequests
        /\ req' \in [Requests -> RequestRecord]
    BY <2>1 DEF Creates, TypeOK, ServiceAssumption
  <2>3. /\ settled' = [d \in Clients |-> FALSE]
        /\ UNCHANGED <<stored, poolvars, shutdown, maintvars, asleep, workervars,
                       handles, target, destroyed>>
    BY <1>1 DEF CallMultiple
  <2>4. settled' \in [Clients -> BOOLEAN]
    BY <2>3
  <2>5. /\ group' \in [Clients -> SUBSET Requests]
        /\ args' \in [Clients -> Seq(Models)]
        /\ cpc' \in [Clients -> {"idle", "submitFirst", "collectFirst", "submitLast",
                            "collectLast", "submitOne", "maintain", "await", "observe"}]
    BY <2>1 DEF TypeOK
  <2> QED BY <2>2, <2>3, <2>4, <2>5 DEF TypeOK, poolvars, maintvars, workervars
<1>2. CASE CallOne(c)
  <2>1. PICK N \in SUBSET Requests, R \in SUBSET Requests, ms \in Seq(Models) :
            /\ Creates(N)
            /\ Submits(R)
            /\ requestId + 1 \in N
            /\ group' = [group EXCEPT ![c] = {requestId + 1}]
            /\ args' = [args EXCEPT ![c] = ms]
    BY <1>2, CallOneFacts
  <2>2. /\ requestId' \in 0 .. MaxRequests
        /\ req' \in [Requests -> RequestRecord]
    BY <2>1 DEF Creates, TypeOK, ServiceAssumption
  <2>3. /\ waiting' \in SUBSET Sentences
        /\ queue' \in SUBSET Models
        /\ enqueued' \in Int
        /\ asleep' \in SUBSET (Workers \cup Clients)
    BY <2>1, SubmitsTyped
  <2>4. /\ settled' = [d \in Clients |-> FALSE]
        /\ cpc' = [cpc EXCEPT ![c] = "submitOne"]
        /\ UNCHANGED <<stored, shutdown, maintvars, workervars, handles, target, destroyed>>
    BY <1>2 DEF CallOne
  <2>5. settled' \in [Clients -> BOOLEAN]
    BY <2>4
  <2>6. /\ group' \in [Clients -> SUBSET Requests]
        /\ args' \in [Clients -> Seq(Models)]
        /\ cpc' \in [Clients -> {"idle", "submitFirst", "collectFirst", "submitLast",
                            "collectLast", "submitOne", "maintain", "await", "observe"}]
    BY <2>1, <2>4 DEF TypeOK
  <2> QED BY <2>2, <2>3, <2>4, <2>5, <2>6 DEF TypeOK, maintvars, workervars
<1>3. CASE \E m \in Models : Release(c, m)
  <2>1. PICK m \in Models : Release(c, m)
    BY <1>3
  <2>2. Idle \in BOOLEAN
    BY DEF Idle
  <2>3. settled' = [settled EXCEPT ![c] = Idle]
    BY <2>1 DEF Release
  <2>4. settled' \in [Clients -> BOOLEAN]
    BY <2>2, <2>3 DEF TypeOK
  <2> QED BY <2>1, <2>4 DEF Release, TypeOK, reqvars, poolvars, maintvars, workervars
<1>4. CASE Drain(c)
  BY <1>4 DEF Drain, TypeOK, reqvars, poolvars, maintvars, workervars
<1> QED BY <1>1, <1>2, <1>3, <1>4 DEF Begin

LEMMA TypeProceed ==
    ASSUME ServiceAssumption, TypeOK, CallsMatch, NEW c \in Clients, Proceed(c)
    PROVE  TypeOK'
<1>1. CASE EnqueueRequests(c)
  <2>1. Submits(group[c])
    BY <1>1, SubmitsGroup DEF EnqueueRequests
  <2>2. /\ waiting' \in SUBSET Sentences
        /\ queue' \in SUBSET Models
        /\ enqueued' \in Int
        /\ asleep' \in SUBSET (Workers \cup Clients)
    BY <2>1, SubmitsTyped
  <2> QED BY <1>1, <2>2 DEF EnqueueRequests, TypeOK, reqvars, maintvars, workervars
<1>2. CASE StartSecondLeg(c)
  <2>1. Len(args[c]) = 2
    BY <1>2 DEF StartSecondLeg, CallsMatch
  <2>2. PICK N \in SUBSET Requests :
            /\ Creates(N)
            /\ group' = [group EXCEPT ![c] = N]
    BY <1>2, <2>1, StartSecondLegFacts
  <2>3. /\ requestId' \in 0 .. MaxRequests
        /\ req' \in [Requests -> RequestRecord]
    BY <2>2 DEF Creates, TypeOK, ServiceAssumption
  <2>4. /\ cpc' = [cpc EXCEPT ![c] = "submitLast"]
        /\ UNCHANGED <<stored, poolvars, shutdown, maintvars, asleep, workervars,
                       handles, args, target, destroyed, settled>>
    BY <1>2 DEF StartSecondLeg
  <2> QED BY <2>2, <2>3, <2>4 DEF TypeOK, poolvars, maintvars, workervars
<1>3. CASE Return(c)
  BY <1>3 DEF Return, TypeOK, reqvars, poolvars, maintvars, workervars
<1>4. CASE EnqueueRequest(c)
  <2>1. Submits(group[c])
    BY <1>4, SubmitsGroup DEF EnqueueRequest
  <2>2. /\ waiting' \in SUBSET Sentences
        /\ queue' \in SUBSET Models
        /\ enqueued' \in Int
        /\ asleep' \in SUBSET (Workers \cup Clients)
    BY <2>1, SubmitsTyped
  <2> QED BY <1>4, <2>2 DEF EnqueueRequest, TypeOK, reqvars, maintvars, workervars
<1>5. CASE StartMaintenance(c)
  <2>1. UNCHANGED <<reqvars, waiting, enqueued, shutdown, workervars,
                    handles, args, group, target, destroyed, settled>>
    BY <1>5 DEF StartMaintenance
  <2>2. CASE shutdown
    BY <1>5, <2>1, <2>2 DEF StartMaintenance, TypeOK, reqvars, maintvars, workervars
  <2>3. CASE ~shutdown
    <3>1. /\ queue' \in SUBSET Models
          /\ epoch' \in Nat /\ acked' \in Nat
          /\ serial' \in Clients \cup {NoClient}
          /\ stale' \in SUBSET Workers
          /\ asleep' \in SUBSET (Workers \cup Clients)
      BY <1>5, <2>3 DEF StartMaintenance, RaiseEpoch, Notify, ClearedWhenDrained, Busy, TypeOK
    <3>2. cpc' = [cpc EXCEPT ![c] = "await"]
      BY <1>5, <2>3 DEF StartMaintenance
    <3> QED BY <2>1, <3>1, <3>2 DEF TypeOK, reqvars, workervars
  <2> QED BY <2>2, <2>3
<1>6. CASE AwaitAcks(c)
  <2>1. /\ serial' \in Clients \cup {NoClient}
        /\ asleep' \in SUBSET (Workers \cup Clients)
        /\ cpc' = cpc \/ cpc' = [cpc EXCEPT ![c] = "observe"]
    BY <1>6 DEF AwaitAcks, TypeOK
  <2>2. UNCHANGED <<reqvars, poolvars, shutdown, epoch, acked, stale, workervars,
                    handles, args, group, target, destroyed, settled>>
    BY <1>6 DEF AwaitAcks
  <2> QED BY <2>1, <2>2 DEF TypeOK, reqvars, poolvars, workervars
<1>7. CASE Observe(c)
  <2>1. Owned(target[c]) \in BOOLEAN
    BY DEF Owned
  <2>2. destroyed' = [destroyed EXCEPT ![c] =
                         IF target[c] = NoModel THEN @ ELSE ~Owned(target[c])]
    BY <1>7 DEF Observe
  <2>3. destroyed' \in [Clients -> BOOLEAN]
    BY <2>1, <2>2 DEF TypeOK
  <2> QED BY <1>7, <2>3 DEF Observe, TypeOK, reqvars, poolvars, maintvars, workervars
<1> QED BY <1>1, <1>2, <1>3, <1>4, <1>5, <1>6, <1>7 DEF Proceed

LEMMA TypeStep ==
    ASSUME ServiceAssumption, TypeOK, Accounting, CallsMatch, [Next]_vars
    PROVE  TypeOK'
<1>1. CASE UNCHANGED vars
  BY <1>1 DEF vars, TypeOK, reqvars, poolvars, maintvars, workervars, clientvars
<1>2. CASE Shutdown
  BY <1>2 DEF Shutdown, Notify, TypeOK, reqvars, poolvars, maintvars, workervars, clientvars
<1> QED BY <1>1, <1>2, TypeWork, TypeBegin, TypeProceed DEF Next

-----------------------------------------------------------------------------
(* Every step keeps the accounts.                                          *)

(* A step that moves no sentence, creates no request and changes nothing   *)
(* about what is being submitted.                                          *)
SameSubmissions ==
    /\ \A c \in Clients : group'[c] \subseteq group[c]
    /\ \A c \in Clients : Submitting(c)' <=> Submitting(c)
    /\ \A c \in Clients : Submitting(c) => group'[c] = group[c]

LEMMA AccountingFrame ==
    ASSUME Accounting, SameSubmissions, UNCHANGED <<requestId, req, waiting, todo>>
    PROVE  Accounting'
<1>1. OneHome'
  BY DEF Accounting, OneHome
<1>2. \A r : Open(r)' = Open(r)
  BY DEF Open
<1>3. UnbornOpen'
  BY <1>2 DEF Accounting, UnbornOpen
<1>4. GroupsApart'
  BY DEF Accounting, GroupsApart, SameSubmissions
<1>5. Unsubmitted' = Unsubmitted
  BY DEF Unsubmitted, SameSubmissions
<1>6. Counted'
  BY <1>2, <1>5 DEF Accounting, Counted
<1> QED BY <1>1, <1>3, <1>4, <1>6 DEF Accounting

(* Submitting requests whose sentences were in no pool opens exactly their *)
(* own sentences.                                                          *)
LEMMA OpenAfterSubmit ==
    ASSUME ServiceAssumption, TypeOK, Accounting,
           NEW R \in SUBSET Requests, Submits(R), \A r \in R : Open(r) = {},
           NEW s, \A w \in Workers : todo'[w] = todo[w] \ {s}
    PROVE  /\ OneHome'
           /\ \A r \in R : Open(r)' = SentencesOf({r}, req')
           /\ \A r \in Requests \ R : Open(r)' = Open(r) \ ({s} \ waiting)
<1>1. \A x \in SentencesOf(R, req') : x \in Sentences /\ x[1] \in R
  BY DEF SentencesOf
<1>2. \A x \in SentencesOf(R, req') : x \notin waiting /\ \A w \in Workers : x \notin todo[w]
  BY <1>1 DEF Open
<1>3. OneHome'
  BY <1>2 DEF Accounting, OneHome, Submits
<1>4. \A r \in R : Open(r)' = SentencesOf({r}, req')
  BY <1>1, <1>2 DEF Open, Submits, SentencesOf
<1>5. \A r \in Requests \ R : Open(r)' = Open(r) \ ({s} \ waiting)
  BY <1>1 DEF Open, Submits
<1> QED BY <1>3, <1>4, <1>5

LEMMA SubmittedCount ==
    ASSUME ServiceAssumption, NEW r \in Requests, NEW table \in [Requests -> RequestRecord]
    PROVE  Cardinality(SentencesOf({r}, table)) = table[r].counter
<1>1. table[r].counter \in 0 .. MaxSegments
  BY DEF RequestRecord
<1>2. SentencesOf({r}, table) = {s \in Sentences : s[1] = r /\ s[2] <= table[r].counter}
  BY DEF SentencesOf
<1> QED BY <1>1, <1>2, SegmentCount

LEMMA AccountingDraw ==
    ASSUME ServiceAssumption, TypeOK, Accounting, ShutdownOrder,
           NEW w \in Workers, DrawBatch(w)
    PROVE  Accounting'
<1>1. PICK m \in queue : \E B \in (SUBSET Pool(m)) \ {{}} :
          /\ todo' = [todo EXCEPT ![w] = B]
          /\ waiting' = waiting \ B
  BY DEF DrawBatch
<1>2. PICK B \in (SUBSET Pool(m)) \ {{}} :
          /\ todo' = [todo EXCEPT ![w] = B]
          /\ waiting' = waiting \ B
  BY <1>1
<1>3. B \subseteq waiting
  BY DEF Pool
<1>4. todo[w] = {} /\ todo \in [Workers -> SUBSET Sentences]
  BY DEF DrawBatch, ShutdownOrder, TypeOK
<1>5. \A v \in Workers : todo'[v] = IF v = w THEN B ELSE todo[v]
  BY <1>2, <1>4
<1>6. OneHome'
  BY <1>2, <1>3, <1>5 DEF Accounting, OneHome
<1>7. \A s : (s \in waiting' \/ \E v \in Workers : s \in todo'[v])
                <=> (s \in waiting \/ \E v \in Workers : s \in todo[v])
  BY <1>2, <1>3, <1>4, <1>5
<1>8. \A r : Open(r)' = Open(r)
  BY <1>7 DEF Open
<1>9. UNCHANGED <<requestId, req, group, cpc>>
  BY DEF DrawBatch, reqvars, clientvars
<1>10. Unsubmitted' = Unsubmitted /\ GroupsApart'
  BY <1>9 DEF Unsubmitted, Submitting, Accounting, GroupsApart
<1>11. UnbornOpen' /\ Counted'
  BY <1>8, <1>9, <1>10 DEF Accounting, UnbornOpen, Counted
<1> QED BY <1>6, <1>10, <1>11 DEF Accounting

LEMMA AccountingCountDown ==
    ASSUME ServiceAssumption, TypeOK, Accounting, NEW w \in Workers, CountDown(w)
    PROVE  Accounting'
<1>1. PICK s \in todo[w], N \in SUBSET Requests :
          /\ todo' = [todo EXCEPT ![w] = @ \ {s}]
          /\ Creates(N)
          /\ Submits(N)
          /\ \A r \in Requests \ N : r # s[1] => req'[r] = req[r]
          /\ s[1] \notin N
          /\ req'[s[1]].counter = req[s[1]].counter - 1
          /\ req'[s[1]].answers = IF req'[s[1]].counter = 0 THEN 1 ELSE 0
  BY CountDownFacts
<1> DEFINE r == s[1]
<1>2. /\ s \in Sentences /\ r \in Requests /\ r \in 1 .. requestId
      /\ r \notin Unsubmitted
  BY StillCounted
<1>3. requestId \in Nat /\ MaxRequests \in Nat
  BY DEF TypeOK, ServiceAssumption
<1>4. /\ N = requestId + 1 .. requestId' /\ requestId' \in Nat /\ requestId <= requestId'
      /\ \A x \in N : Open(x) = {} /\ x \notin Unsubmitted
  <2>1. N = requestId + 1 .. requestId' /\ requestId' \in Nat /\ requestId <= requestId'
    BY <1>1, <1>3 DEF Creates
  <2>2. \A x \in N : x > requestId
    BY <1>3, <2>1
  <2>3. \A x \in N : Open(x) = {} /\ x \notin Unsubmitted
    BY <1>3, <2>2 DEF Accounting, UnbornOpen, GroupsApart, Unsubmitted
  <2> QED BY <2>1, <2>3
<1>5. /\ \A v \in Workers : v # w => s \notin todo[v]
      /\ s \notin waiting
  BY <1>1 DEF Accounting, OneHome
<1>6. \A v \in Workers : todo'[v] = todo[v] \ {s}
  BY <1>1, <1>5 DEF TypeOK
<1>7. /\ OneHome'
      /\ \A x \in N : Open(x)' = SentencesOf({x}, req')
      /\ \A x \in Requests \ N : Open(x)' = Open(x) \ ({s} \ waiting)
  BY <1>1, <1>4, <1>6, OpenAfterSubmit
<1>8. \A x \in Requests \ N : Open(x)' = Open(x) \ {s}
  BY <1>5, <1>7
<1>9. \A x \in Requests \ N : x # r => Open(x)' = Open(x)
  BY <1>8 DEF Open
<1>10. /\ IsFiniteSet(Open(r))
       /\ s \in Open(r)
       /\ Cardinality(Open(r) \ {s}) = Cardinality(Open(r)) - 1
  <2>1. Open(r) \in SUBSET Sentences
    BY DEF Open
  <2>2. s \in Open(r)
    BY <1>1, <1>2 DEF Open
  <2> QED BY <2>1, <2>2, SentencesFinite, FS_RemoveElement
<1>11. UNCHANGED <<group, cpc>>
  BY DEF CountDown, clientvars
<1>12. Unsubmitted' = Unsubmitted
  BY <1>11 DEF Unsubmitted, Submitting
<1>13. GroupsApart'
  <2>1. \A c \in Clients : group[c] \subseteq 1 .. requestId'
    BY <1>3, <1>4 DEF Accounting, GroupsApart
  <2> QED BY <1>11, <2>1 DEF Accounting, GroupsApart, Submitting
<1>14. UnbornOpen'
  <2> SUFFICES ASSUME NEW x \in Requests, x > requestId'
               PROVE  req'[x] = Unborn /\ Open(x)' = {}
    BY DEF UnbornOpen
  <2>1. x > requestId /\ x \notin N /\ x # r
    BY <1>2, <1>3, <1>4 DEF Requests
  <2> HIDE DEF r
  <2> QED BY <1>1, <1>9, <2>1 DEF Accounting, UnbornOpen, r
<1>15. Counted'
  <2> SUFFICES ASSUME NEW x \in 1 .. requestId'
               PROVE  /\ Cardinality(Open(x)') = IF x \in Unsubmitted THEN 0 ELSE req'[x].counter
                      /\ req'[x].answers = IF req'[x].counter = 0 THEN 1 ELSE 0
    BY <1>12 DEF Counted
  <2>1. x \in Requests
    BY <1>1, <1>3 DEF Creates, Requests
  <2>2. CASE x \in N
    BY <1>1, <1>4, <1>7, <2>1, <2>2, SubmittedCount DEF Creates
  <2>3. CASE x = r
    BY <1>1, <1>2, <1>8, <1>10, <2>3 DEF Accounting, Counted
  <2>4. CASE x \notin N /\ x # r
    <3>1. x \in 1 .. requestId
      BY <1>3, <1>4, <2>4
    <3>2. Open(x)' = Open(x) /\ req'[x] = req[x]
      BY <1>1, <1>9, <2>1, <2>4
    <3> QED BY <3>1, <3>2 DEF Accounting, Counted
  <2> QED BY <2>2, <2>3, <2>4
<1> QED BY <1>7, <1>13, <1>14, <1>15 DEF Accounting

(* A call that creates the requests it will submit, and moves no sentence. *)
LEMMA AccountingCreate ==
    ASSUME ServiceAssumption, TypeOK, Accounting, NEW c \in Clients,
           NEW N \in SUBSET Requests, Creates(N), ~Submitting(c),
           \A r \in Requests \ N : req'[r] = req[r],
           group' = [group EXCEPT ![c] = N],
           \A d \in Clients : d # c => cpc'[d] = cpc[d],
           Submitting(c)',
           UNCHANGED <<waiting, todo>>
    PROVE  Accounting'
<1>1. requestId \in Nat /\ MaxRequests \in Nat /\ group \in [Clients -> SUBSET Requests]
  BY DEF TypeOK, ServiceAssumption
<1>2. /\ N = requestId + 1 .. requestId' /\ requestId' \in Nat /\ requestId <= requestId'
      /\ requestId' <= MaxRequests
  BY <1>1 DEF Creates
<1>3. \A r \in N : r > requestId /\ Open(r) = {}
  BY <1>1, <1>2 DEF Accounting, UnbornOpen
<1>4. OneHome' /\ \A r : Open(r)' = Open(r)
  BY DEF Accounting, OneHome, Open
<1>5. \A d \in Clients : /\ group'[d] = IF d = c THEN N ELSE group[d]
                         /\ d # c => (Submitting(d)' <=> Submitting(d))
  BY <1>1 DEF Submitting
<1>6. \A d \in Clients : group[d] \subseteq 1 .. requestId /\ group[d] \cap N = {}
  BY <1>1, <1>2 DEF Accounting, GroupsApart
<1>7. GroupsApart'
  <2>1. \A d \in Clients : group'[d] \subseteq 1 .. requestId'
    BY <1>1, <1>2, <1>5, <1>6
  <2>2. \A d, e \in Clients :
            d # e /\ Submitting(d)' /\ Submitting(e)' => group'[d] \cap group'[e] = {}
    BY <1>5, <1>6 DEF Accounting, GroupsApart
  <2> QED BY <2>1, <2>2 DEF GroupsApart
<1>8. \A r \in Requests : r \in Unsubmitted' <=> r \in N \/ r \in Unsubmitted
  BY <1>5 DEF Unsubmitted
<1>9. UnbornOpen'
  <2> SUFFICES ASSUME NEW r \in Requests, r > requestId'
               PROVE  req'[r] = Unborn /\ Open(r)' = {}
    BY DEF UnbornOpen
  <2>1. r > requestId /\ r \notin N
    BY <1>1, <1>2 DEF Requests
  <2> QED BY <1>4, <2>1 DEF Accounting, UnbornOpen
<1>10. Counted'
  <2> SUFFICES ASSUME NEW r \in 1 .. requestId'
               PROVE  /\ Cardinality(Open(r)') = IF r \in Unsubmitted' THEN 0 ELSE req'[r].counter
                      /\ req'[r].answers = IF req'[r].counter = 0 THEN 1 ELSE 0
    BY DEF Counted
  <2>1. r \in Requests
    BY <1>1, <1>2 DEF Requests
  <2>2. CASE r \in N
    BY <1>3, <1>4, <1>8, <2>1, <2>2, FS_EmptySet DEF Creates
  <2>3. CASE r \notin N
    <3>1. r \in 1 .. requestId
      BY <1>1, <1>2, <2>3
    <3> QED BY <1>4, <1>8, <2>1, <2>3, <3>1 DEF Accounting, Counted
  <2> QED BY <2>2, <2>3
<1> QED BY <1>4, <1>7, <1>9, <1>10 DEF Accounting

(* A call that submits its requests.                                       *)
LEMMA AccountingEnqueue ==
    ASSUME ServiceAssumption, TypeOK, Accounting, CallsMatch, NEW c \in Clients,
           \/ EnqueueRequests(c)
           \/ EnqueueRequest(c)
    PROVE  Accounting'
<1> DEFINE R == group[c]
<1>1. /\ UNCHANGED <<requestId, req, todo>>
      /\ Submits(R)
  BY SubmitsGroup DEF EnqueueRequests, EnqueueRequest, reqvars, workervars
<1>2. /\ Submitting(c)
      /\ ~Submitting(c)'
      /\ group'[c] \subseteq group[c]
      /\ \A d \in Clients : d # c => group'[d] = group[d] /\ cpc'[d] = cpc[d]
  BY DEF EnqueueRequests, EnqueueRequest, Submitting, TypeOK
<1>3. R \in SUBSET Requests /\ R \subseteq 1 .. requestId
  BY DEF Accounting, GroupsApart, TypeOK
<1>4. \A r \in R : r \in Unsubmitted /\ Open(r) = {}
  <2> TAKE r \in R
  <2>1. r \in Unsubmitted
    BY <1>2, <1>3 DEF Unsubmitted
  <2>2. Cardinality(Open(r)) = 0
    BY <1>3, <2>1 DEF Accounting, Counted
  <2>3. Open(r) \in SUBSET Sentences
    BY DEF Open
  <2>4. Open(r) = {}
    BY <2>2, <2>3, SentencesFinite, FS_EmptySet
  <2> QED BY <2>1, <2>4
<1>5. PICK s : s \notin Sentences
  BY NoSetContainsEverything
<1>6. \A w \in Workers : todo'[w] = todo[w] \ {s}
  BY <1>1, <1>5 DEF TypeOK
<1>7. /\ OneHome'
      /\ \A r \in R : Open(r)' = SentencesOf({r}, req')
      /\ \A r \in Requests \ R : Open(r)' = Open(r) \ ({s} \ waiting)
  BY <1>1, <1>3, <1>4, <1>6, OpenAfterSubmit
<1>8. \A r \in Requests \ R : Open(r)' = Open(r)
  BY <1>5, <1>7 DEF Open
<1>9. \A r \in Requests : r \in Unsubmitted' <=> r \in Unsubmitted /\ r \notin R
  BY <1>2 DEF Unsubmitted, Submitting, Accounting, GroupsApart
<1>10. GroupsApart'
  BY <1>1, <1>2 DEF Accounting, GroupsApart, Submitting
<1>11. UnbornOpen'
  <2> SUFFICES ASSUME NEW r \in Requests, r > requestId
               PROVE  req[r] = Unborn /\ Open(r)' = {}
    BY <1>1 DEF UnbornOpen
  <2>1. r \notin R
    BY <1>3 DEF TypeOK
  <2> QED BY <1>8, <2>1 DEF Accounting, UnbornOpen
<1>12. Counted'
  <2> SUFFICES ASSUME NEW r \in 1 .. requestId
               PROVE  /\ Cardinality(Open(r)') = IF r \in Unsubmitted' THEN 0 ELSE req[r].counter
                      /\ req[r].answers = IF req[r].counter = 0 THEN 1 ELSE 0
    BY <1>1 DEF Counted
  <2>1. r \in Requests
    BY DEF TypeOK, ServiceAssumption, Requests
  <2>2. CASE r \in R
    <3>1. Cardinality(Open(r)') = req[r].counter
      BY <1>1, <1>7, <2>1, <2>2, SubmittedCount DEF TypeOK
    <3> QED BY <1>9, <2>1, <2>2, <3>1 DEF Accounting, Counted
  <2>3. CASE r \notin R
    BY <1>8, <1>9, <2>1, <2>3 DEF Accounting, Counted
  <2> QED BY <2>2, <2>3
<1> QED BY <1>7, <1>10, <1>11, <1>12 DEF Accounting

(* A call for one request, whose second leg may be submitted at once.      *)
LEMMA AccountingCallOne ==
    ASSUME ServiceAssumption, TypeOK, Accounting, NEW c \in Clients, CallOne(c)
    PROVE  Accounting'
<1> DEFINE one == requestId + 1
<1>1. PICK N \in SUBSET Requests, R \in SUBSET Requests, ms \in Seq(Models) :
          /\ Creates(N)
          /\ Submits(R)
          /\ one \in N
          /\ R = N \ {one}
          /\ \A r \in Requests \ N : req'[r] = req[r]
          /\ group' = [group EXCEPT ![c] = {one}]
  BY CallOneFacts
<1>2. /\ ~Submitting(c)
      /\ Submitting(c)'
      /\ \A d \in Clients : d # c => cpc'[d] = cpc[d]
      /\ UNCHANGED todo
  BY DEF CallOne, Submitting, TypeOK, workervars
<1>3. requestId \in Nat /\ MaxRequests \in Nat /\ group \in [Clients -> SUBSET Requests]
  BY DEF TypeOK, ServiceAssumption
<1>4. /\ N = requestId + 1 .. requestId' /\ requestId' \in Nat /\ requestId <= requestId'
      /\ requestId' <= MaxRequests
  BY <1>1, <1>3 DEF Creates
<1>5. \A r \in N : r > requestId /\ Open(r) = {}
  BY <1>3, <1>4 DEF Accounting, UnbornOpen
<1>6. PICK s : s \notin Sentences
  BY NoSetContainsEverything
<1>7. \A w \in Workers : todo'[w] = todo[w] \ {s}
  BY <1>2, <1>6 DEF TypeOK
<1>8. /\ OneHome'
      /\ \A r \in R : Open(r)' = SentencesOf({r}, req')
      /\ \A r \in Requests \ R : Open(r)' = Open(r) \ ({s} \ waiting)
  BY <1>1, <1>5, <1>7, OpenAfterSubmit
<1>9. \A r \in Requests \ R : Open(r)' = Open(r)
  BY <1>6, <1>8 DEF Open
<1> HIDE DEF one
<1>10. \A d \in Clients : /\ group'[d] = IF d = c THEN {one} ELSE group[d]
                          /\ d # c => (Submitting(d)' <=> Submitting(d))
  BY <1>1, <1>2, <1>3 DEF Submitting
<1>11. \A d \in Clients : group[d] \subseteq 1 .. requestId /\ one \notin group[d]
  BY <1>3 DEF Accounting, GroupsApart, one
<1>12. GroupsApart'
  <2>1. \A d \in Clients : group'[d] \subseteq 1 .. requestId'
    BY <1>1, <1>3, <1>4, <1>10, <1>11 DEF one
  <2>2. \A d, e \in Clients :
            d # e /\ Submitting(d)' /\ Submitting(e)' => group'[d] \cap group'[e] = {}
    BY <1>10, <1>11 DEF Accounting, GroupsApart
  <2> QED BY <2>1, <2>2 DEF GroupsApart
<1>13. \A r \in Requests : r \in Unsubmitted' <=> r = one \/ r \in Unsubmitted
  BY <1>2, <1>10 DEF Unsubmitted, Submitting
<1>14. UnbornOpen'
  BY <1>1, <1>3, <1>4, <1>9 DEF Accounting, UnbornOpen
<1>15. Counted'
  <2> SUFFICES ASSUME NEW r \in 1 .. requestId'
               PROVE  /\ Cardinality(Open(r)') = IF r \in Unsubmitted' THEN 0 ELSE req'[r].counter
                      /\ req'[r].answers = IF req'[r].counter = 0 THEN 1 ELSE 0
    BY DEF Counted
  <2>1. r \in Requests
    BY <1>3, <1>4 DEF Requests
  <2>2. CASE r = one
    <3>1. r \notin R /\ r \in N /\ Cardinality({}) = 0
      BY <1>1, <2>2, FS_EmptySet
    <3> QED BY <1>1, <1>5, <1>9, <1>13, <2>1, <2>2, <3>1 DEF Creates
  <2>3. CASE r \in R
    <3>1. Cardinality(Open(r)') = req'[r].counter
      BY <1>1, <1>8, <2>1, <2>3, SubmittedCount DEF Creates
    <3>2. r \notin Unsubmitted
      BY <1>1, <1>3, <1>5, <2>3 DEF Unsubmitted, Accounting, GroupsApart
    <3> QED BY <1>1, <1>13, <2>1, <2>3, <3>1, <3>2 DEF Creates
  <2>4. CASE r \notin N
    <3>1. r \in 1 .. requestId /\ r # one /\ r \notin R
      BY <1>1, <1>3, <1>4, <2>4
    <3> QED BY <1>1, <1>9, <1>13, <2>1, <2>4, <3>1 DEF Accounting, Counted
  <2> QED BY <1>1, <2>2, <2>3, <2>4
<1> QED BY <1>8, <1>12, <1>14, <1>15 DEF Accounting

LEMMA AccountingStep ==
    ASSUME ServiceAssumption, TypeOK, Accounting, CallsMatch, ShutdownOrder, [Next]_vars
    PROVE  Accounting'
<1>1. CASE UNCHANGED vars
  BY <1>1, AccountingFrame
     DEF vars, reqvars, poolvars, workervars, clientvars, SameSubmissions, Submitting
<1>2. CASE Shutdown
  BY <1>2, AccountingFrame
     DEF Shutdown, reqvars, poolvars, workervars, clientvars, SameSubmissions, Submitting
<1>3. ASSUME NEW w \in Workers, Work(w)
      PROVE  Accounting'
  <2>1. CASE DrawBatch(w)
    BY <2>1, AccountingDraw
  <2>2. CASE CountDown(w)
    BY <2>2, AccountingCountDown
  <2>3. CASE \/ WorkerSleep(w) \/ NoticeMaintenance(w) \/ WorkerExit(w)
             \/ StoreHistory(w) \/ DropBatch(w) \/ AckMaintenance(w)
    <3>1. UNCHANGED <<requestId, req, waiting, todo, group, cpc>>
      BY <2>3 DEF WorkerSleep, NoticeMaintenance, WorkerExit, StoreHistory, DropBatch,
                  AckMaintenance, reqvars, poolvars, workervars, clientvars
    <3> QED BY <3>1, AccountingFrame DEF SameSubmissions, Submitting
  <2> QED BY <1>3, <2>1, <2>2, <2>3 DEF Work
<1>4. ASSUME NEW c \in Clients, Begin(c)
      PROVE  Accounting'
  <2>1. CASE CallMultiple(c)
    <3>1. PICK N \in SUBSET Requests, ms \in Seq(Models) :
              /\ Creates(N)
              /\ \A r \in Requests \ N : req'[r] = req[r]
              /\ group' = [group EXCEPT ![c] = N]
              /\ cpc' = [cpc EXCEPT ![c] = IF Len(ms) = 2 THEN "submitFirst" ELSE "submitLast"]
      BY <2>1, CallMultipleFacts
    <3>2. ~Submitting(c) /\ UNCHANGED <<waiting, todo>>
      BY <2>1 DEF CallMultiple, Submitting, poolvars, workervars
    <3>3. Submitting(c)' /\ \A d \in Clients : d # c => cpc'[d] = cpc[d]
      BY <3>1 DEF Submitting, TypeOK
    <3> QED BY <3>1, <3>2, <3>3, AccountingCreate
  <2>2. CASE CallOne(c)
    BY <2>2, AccountingCallOne
  <2>3. CASE (\E m \in Models : Release(c, m)) \/ Drain(c)
    <3>1. /\ UNCHANGED <<requestId, req, waiting, todo, group>>
          /\ cpc[c] = "idle" /\ cpc' = [cpc EXCEPT ![c] = "maintain"]
      BY <2>3 DEF Release, Drain, reqvars, poolvars, workervars
    <3>2. SameSubmissions
      BY <3>1 DEF SameSubmissions, Submitting, TypeOK
    <3> QED BY <3>1, <3>2, AccountingFrame
  <2> QED BY <1>4, <2>1, <2>2, <2>3 DEF Begin
<1>5. ASSUME NEW c \in Clients, Proceed(c)
      PROVE  Accounting'
  <2>1. CASE EnqueueRequests(c) \/ EnqueueRequest(c)
    BY <2>1, AccountingEnqueue
  <2>2. CASE StartSecondLeg(c)
    <3>1. Len(args[c]) = 2
      BY <2>2 DEF StartSecondLeg, CallsMatch
    <3>2. PICK N \in SUBSET Requests :
              /\ Creates(N)
              /\ \A r \in Requests \ N : req'[r] = req[r]
              /\ group' = [group EXCEPT ![c] = N]
      BY <2>2, <3>1, StartSecondLegFacts
    <3>3. /\ ~Submitting(c) /\ UNCHANGED <<waiting, todo>>
          /\ cpc' = [cpc EXCEPT ![c] = "submitLast"]
      BY <2>2 DEF StartSecondLeg, Submitting, poolvars, workervars
    <3>4. Submitting(c)' /\ \A d \in Clients : d # c => cpc'[d] = cpc[d]
      BY <3>3 DEF Submitting, TypeOK
    <3> QED BY <3>2, <3>3, <3>4, AccountingCreate
  <2>3. CASE Return(c) \/ StartMaintenance(c) \/ AwaitAcks(c) \/ Observe(c)
    <3>1. /\ UNCHANGED <<requestId, req, waiting, todo>>
          /\ group' = group \/ group' = [group EXCEPT ![c] = {}]
      BY <2>3 DEF Return, StartMaintenance, AwaitAcks, Observe,
                  reqvars, poolvars, workervars
    <3>2. /\ ~Submitting(c)
          /\ \/ \E new \in {"idle", "await", "observe"} : cpc' = [cpc EXCEPT ![c] = new]
             \/ cpc' = cpc
      BY <2>3 DEF Return, StartMaintenance, AwaitAcks, Observe, Submitting
    <3>3. SameSubmissions
      BY <3>1, <3>2 DEF SameSubmissions, Submitting, TypeOK
    <3> QED BY <3>1, <3>3, AccountingFrame
  <2> QED BY <1>5, <2>1, <2>2, <2>3 DEF Proceed
<1> QED BY <1>1, <1>2, <1>3, <1>4, <1>5 DEF Next

-----------------------------------------------------------------------------
(* Every step keeps calls and their requests matched.                      *)

LEMMA CallsMatchStep ==
    ASSUME ServiceAssumption, TypeOK, Accounting, CallsMatch, [Next]_vars
    PROVE  CallsMatch'
<1>0. requestId \in Nat /\ \A c \in Clients : group[c] \subseteq 1 .. requestId
  BY DEF TypeOK, ServiceAssumption, Accounting, GroupsApart
<1>1. CASE UNCHANGED vars \/ Shutdown
  <2>1. UNCHANGED <<req, group, cpc, args>>
    BY <1>1 DEF vars, Shutdown, reqvars, clientvars
  <2> QED BY <2>1 DEF CallsMatch, Submitting, LegOf
<1>2. ASSUME NEW w \in Workers, Work(w)
      PROVE  CallsMatch'
  <2>1. UNCHANGED <<group, cpc, args>>
    BY <1>2 DEF Work, WorkerSleep, NoticeMaintenance, DrawBatch, WorkerExit, StoreHistory,
                CountDown, DropBatch, AckMaintenance, clientvars
  <2>2. \A r \in 1 .. requestId : req'[r].leg = req[r].leg
    <3>1. CASE CountDown(w)
      <4>1. PICK s \in todo[w], N \in SUBSET Requests :
                /\ Creates(N)
                /\ \A r \in Requests \ N : r # s[1] => req'[r] = req[r]
                /\ req'[s[1]].leg = req[s[1]].leg
        BY <3>1, CountDownFacts
      <4>2. \A r \in 1 .. requestId : r \in Requests \ N
        BY <1>0, <4>1 DEF Creates, Requests, TypeOK, ServiceAssumption
      <4> QED BY <4>1, <4>2
    <3>2. CASE ~CountDown(w)
      <4>1. req' = req
        BY <1>2, <3>2 DEF Work, WorkerSleep, NoticeMaintenance, DrawBatch, WorkerExit,
                          StoreHistory, DropBatch, AckMaintenance, reqvars
      <4> QED BY <4>1
    <3> QED BY <3>1, <3>2
  <2> QED BY <1>0, <2>1, <2>2 DEF CallsMatch, Submitting, LegOf
<1>3. ASSUME NEW c \in Clients, Begin(c) \/ Proceed(c)
      PROVE  CallsMatch'
  <2>1. CASE CallMultiple(c)
    <3>1. PICK N \in SUBSET Requests, ms \in Seq(Models) :
              /\ Creates(N)
              /\ \A r \in Requests \ N : req'[r] = req[r]
              /\ \A r \in N : req'[r].leg = ms[1]
              /\ group' = [group EXCEPT ![c] = N]
              /\ args' = [args EXCEPT ![c] = ms]
              /\ Len(ms) \in 1 .. 2
              /\ cpc' = [cpc EXCEPT ![c] = IF Len(ms) = 2 THEN "submitFirst" ELSE "submitLast"]
      BY <2>1, CallMultipleFacts
    <3>2. \A r \in 1 .. requestId : r \in Requests \ N
      BY <1>0, <3>1 DEF Creates, Requests, TypeOK, ServiceAssumption
    <3>3. \A d \in Clients : d # c => \A r \in group[d] : req'[r] = req[r]
      BY <1>0, <3>1, <3>2
    <3>4. \A d \in Clients : d # c => cpc'[d] = cpc[d] /\ args'[d] = args[d] /\ group'[d] = group[d]
      BY <3>1 DEF TypeOK
    <3>5. /\ args'[c] = ms /\ group'[c] = N /\ LegOf(c)' = ms[1]
          /\ cpc'[c] = IF Len(ms) = 2 THEN "submitFirst" ELSE "submitLast"
      BY <3>1 DEF TypeOK, LegOf
    <3> QED BY <3>1, <3>3, <3>4, <3>5 DEF CallsMatch, Submitting, LegOf
  <2>2. CASE CallOne(c)
    <3>1. PICK N \in SUBSET Requests, R \in SUBSET Requests, ms \in Seq(Models) :
              /\ Creates(N)
              /\ \A r \in Requests \ N : req'[r] = req[r]
              /\ req'[requestId + 1].leg = ms[1]
              /\ group' = [group EXCEPT ![c] = {requestId + 1}]
              /\ args' = [args EXCEPT ![c] = ms]
              /\ Len(ms) \in 1 .. 2
      BY <2>2, CallOneFacts
    <3>2. \A r \in 1 .. requestId : r \in Requests \ N
      BY <1>0, <3>1 DEF Creates, Requests, TypeOK, ServiceAssumption
    <3>3. \A d \in Clients : d # c => \A r \in group[d] : req'[r] = req[r]
      BY <1>0, <3>1, <3>2
    <3>4. cpc' = [cpc EXCEPT ![c] = "submitOne"]
      BY <2>2 DEF CallOne
    <3>5. \A d \in Clients : d # c => cpc'[d] = cpc[d] /\ args'[d] = args[d] /\ group'[d] = group[d]
      BY <3>1, <3>4 DEF TypeOK
    <3>6. /\ args'[c] = ms /\ group'[c] = {requestId + 1} /\ cpc'[c] = "submitOne"
      BY <3>1, <3>4 DEF TypeOK
    <3> QED BY <3>1, <3>3, <3>5, <3>6 DEF CallsMatch, Submitting, LegOf
  <2>3. CASE StartSecondLeg(c)
    <3>1. Len(args[c]) = 2 /\ args[c] \in Seq(Models)
      BY <2>3 DEF StartSecondLeg, CallsMatch, TypeOK
    <3>2. PICK N \in SUBSET Requests :
              /\ Creates(N)
              /\ \A r \in Requests \ N : req'[r] = req[r]
              /\ \A r \in N : req'[r].leg = args[c][2]
              /\ group' = [group EXCEPT ![c] = N]
      BY <2>3, <3>1, StartSecondLegFacts
    <3>3. \A r \in 1 .. requestId : r \in Requests \ N
      BY <1>0, <3>2 DEF Creates, Requests, TypeOK, ServiceAssumption
    <3>4. \A d \in Clients : d # c => \A r \in group[d] : req'[r] = req[r]
      BY <1>0, <3>2, <3>3
    <3>5. cpc' = [cpc EXCEPT ![c] = "submitLast"] /\ args' = args
      BY <2>3 DEF StartSecondLeg
    <3>6. \A d \in Clients : d # c => cpc'[d] = cpc[d] /\ group'[d] = group[d]
      BY <3>2, <3>5 DEF TypeOK
    <3>7. group'[c] = N /\ cpc'[c] = "submitLast"
      BY <3>2, <3>5 DEF TypeOK
    <3> QED BY <3>1, <3>2, <3>4, <3>5, <3>6, <3>7 DEF CallsMatch, Submitting, LegOf
  <2>4. CASE EnqueueRequests(c)
    <3>1. /\ UNCHANGED <<req, args, group>>
          /\ cpc' = [cpc EXCEPT ![c] = IF @ = "submitFirst" THEN "collectFirst" ELSE "collectLast"]
      BY <2>4 DEF EnqueueRequests, reqvars
    <3>2. \A d \in Clients : cpc'[d] = IF d # c THEN cpc[d]
                                       ELSE IF cpc[c] = "submitFirst" THEN "collectFirst"
                                                                      ELSE "collectLast"
      BY <3>1 DEF TypeOK
    <3> QED BY <3>1, <3>2 DEF CallsMatch, Submitting, LegOf
  <2>5. CASE \/ \E m \in Models : Release(c, m)
             \/ Drain(c) \/ Return(c) \/ EnqueueRequest(c)
             \/ StartMaintenance(c) \/ AwaitAcks(c) \/ Observe(c)
    <3>1. /\ req' = req
          /\ \A d \in Clients : d # c => args'[d] = args[d] /\ group'[d] = group[d]
      BY <2>5 DEF Release, Drain, Return, EnqueueRequest, StartMaintenance, AwaitAcks,
                  Observe, reqvars, TypeOK
    <3>2. \/ \E new \in {"idle", "maintain", "await", "observe"} :
                cpc' = [cpc EXCEPT ![c] = new]
          \/ cpc' = cpc /\ cpc[c] = "await"
      BY <2>5 DEF Release, Drain, Return, EnqueueRequest, StartMaintenance, AwaitAcks, Observe
    <3>3. /\ \A d \in Clients : d # c => cpc'[d] = cpc[d]
          /\ cpc'[c] \in {"idle", "maintain", "await", "observe"}
      BY <3>2 DEF TypeOK
    <3> QED BY <3>1, <3>3 DEF CallsMatch, Submitting, LegOf
  <2> QED BY <1>3, <2>1, <2>2, <2>3, <2>4, <2>5 DEF Begin, Proceed
<1> QED BY <1>1, <1>2, <1>3 DEF Next

-----------------------------------------------------------------------------
(* Every step keeps the pool's count, and its sentences within reach.      *)

LEMMA WaitingBorn ==
    ASSUME ServiceAssumption, TypeOK, Accounting, NEW s \in waiting
    PROVE  s \in Sentences /\ s[1] \in 1 .. requestId /\ s[1] \in Requests
<1>1. s \in Sentences /\ s[1] \in Requests
  BY DEF TypeOK, Sentences
<1>2. s \in Open(s[1])
  BY <1>1 DEF Open
<1> QED BY <1>1, <1>2 DEF Accounting, UnbornOpen, Requests, TypeOK

LEMMA StrandedSubmit ==
    ASSUME ServiceAssumption, TypeOK, Accounting, NothingStranded,
           NEW R \in SUBSET Requests, Submits(R), \A r \in R : Open(r) = {},
           \A s \in waiting : req'[s[1]].leg = req[s[1]].leg
    PROVE  NothingStranded'
<1> DEFINE S == SentencesOf(R, req')
<1>1. S \in SUBSET Sentences /\ waiting \in SUBSET Sentences
  BY DEF SentencesOf, TypeOK
<1>2. S \cap waiting = {}
  BY DEF SentencesOf, Open
<1>3. waiting' = waiting \cup S /\ enqueued' = enqueued + Cardinality(S)
  BY DEF Submits
<1>4. \A s \in S : s[1] \in R /\ SentencesOf({s[1]}, req') # {}
  BY DEF SentencesOf
<1>5. \A s \in S : req'[s[1]].leg \in queue'
  BY <1>4 DEF Submits
<1>6. \A s \in waiting : req'[s[1]].leg \in queue'
  BY DEF NothingStranded, Submits
<1> HIDE DEF S
<1>7. IsFiniteSet(S) /\ IsFiniteSet(waiting)
  BY <1>1, SentencesFinite
<1>8. Cardinality(waiting \cup S) = Cardinality(waiting) + Cardinality(S)
  <2>1. Cardinality(waiting \cap S) = 0
    BY <1>2, FS_EmptySet
  <2>2. Cardinality(S) \in Nat /\ Cardinality(waiting) \in Nat
    BY <1>7, FS_CardinalityType
  <2>3. Cardinality(waiting \cup S) =
            Cardinality(waiting) + Cardinality(S) - Cardinality(waiting \cap S)
    BY <1>7, FS_Union
  <2> QED BY <2>1, <2>2, <2>3
<1> QED BY <1>3, <1>5, <1>6, <1>8 DEF NothingStranded

LEMMA StrandedDraw ==
    ASSUME ServiceAssumption, TypeOK, Accounting, NothingStranded,
           NEW w \in Workers, DrawBatch(w)
    PROVE  NothingStranded'
<1>1. PICK m \in queue : \E B \in (SUBSET Pool(m)) \ {{}} :
          /\ waiting' = waiting \ B
          /\ enqueued' = enqueued - Cardinality(B)
  BY DEF DrawBatch
<1>2. PICK B \in (SUBSET Pool(m)) \ {{}} :
          /\ waiting' = waiting \ B
          /\ enqueued' = enqueued - Cardinality(B)
  BY <1>1
<1>3. PICK gone \in SUBSET {x \in queue : Pool(x) = {}} :
          queue' = ClearedWhenDrained(queue \ gone, enqueued')
  BY DEF DrawBatch
<1>4. req' = req
  BY DEF DrawBatch, reqvars
<1>5. B \subseteq waiting /\ waiting \in SUBSET Sentences /\ B \in SUBSET Sentences
  BY DEF Pool, TypeOK
<1>6. IsFiniteSet(waiting) /\ IsFiniteSet(B) /\ IsFiniteSet(waiting')
  BY <1>2, <1>5, SentencesFinite
<1>7. enqueued' = Cardinality(waiting')
  <2>1. waiting \cap B = B
    BY <1>5
  <2>2. Cardinality(waiting \ B) = Cardinality(waiting) - Cardinality(B)
    BY <1>6, <2>1, FS_Difference
  <2> QED BY <1>2, <2>2 DEF NothingStranded
<1>8. \A s \in waiting' : req'[s[1]].leg \in queue'
  <2> SUFFICES ASSUME NEW s \in waiting' PROVE req[s[1]].leg \in queue'
    BY <1>4
  <2>1. enqueued' # 0
    BY <1>6, <1>7, FS_EmptySet
  <2>2. queue' = queue \ gone
    BY <1>3, <2>1 DEF ClearedWhenDrained
  <2>3. s \in waiting
    BY <1>2
  <2>4. req[s[1]].leg \in queue /\ Pool(req[s[1]].leg) # {}
    BY <2>3 DEF NothingStranded, Pool
  <2> QED BY <2>2, <2>4
<1> QED BY <1>7, <1>8 DEF NothingStranded

(* A pool whose queue reaches no sentence has none.                        *)
LEMMA ExhaustedEmpty ==
    ASSUME NothingStranded, Exhausted
    PROVE  waiting = {} /\ enqueued = 0
<1>1. waiting = {}
  BY DEF NothingStranded, Exhausted, Pool
<1> QED BY <1>1, FS_EmptySet DEF NothingStranded

LEMMA StrandedStep ==
    ASSUME ServiceAssumption, TypeOK, Accounting, CallsMatch, NothingStranded, [Next]_vars
    PROVE  NothingStranded'
<1>0. requestId \in Nat /\ \A s \in waiting : s[1] \in 1 .. requestId /\ s[1] \in Requests
  BY WaitingBorn DEF TypeOK, ServiceAssumption
<1>1. ASSUME NEW N \in SUBSET Requests, Creates(N)
      PROVE  \A r \in N : r \notin 1 .. requestId /\ Open(r) = {}
  <2>1. N = requestId + 1 .. requestId' /\ requestId' \in Int
    BY <1>0, <1>1 DEF Creates, TypeOK, ServiceAssumption
  <2>2. \A r \in N : r > requestId /\ r \notin 1 .. requestId
    BY <1>0, <2>1
  <2> QED BY <2>2 DEF Accounting, UnbornOpen
<1>2. ASSUME UNCHANGED poolvars, \A s \in waiting : req'[s[1]].leg = req[s[1]].leg
      PROVE  NothingStranded'
  BY <1>2 DEF NothingStranded, poolvars
<1>3. CASE UNCHANGED vars \/ Shutdown
  BY <1>2, <1>3 DEF vars, Shutdown, reqvars
<1>4. ASSUME NEW w \in Workers, Work(w)
      PROVE  NothingStranded'
  <2>1. CASE DrawBatch(w)
    BY <2>1, StrandedDraw
  <2>2. CASE CountDown(w)
    <3>1. PICK s \in todo[w], N \in SUBSET Requests :
              /\ Creates(N)
              /\ Submits(N)
              /\ \A r \in Requests \ N : r # s[1] => req'[r] = req[r]
              /\ req'[s[1]].leg = req[s[1]].leg
      BY <2>2, CountDownFacts
    <3>2. \A r \in N : r \notin 1 .. requestId /\ Open(r) = {}
      BY <1>1, <3>1
    <3>3. \A x \in waiting : req'[x[1]].leg = req[x[1]].leg
      BY <1>0, <3>1, <3>2
    <3> QED BY <3>1, <3>2, <3>3, StrandedSubmit
  <2>3. CASE WorkerExit(w)
    <3>1. waiting = {} /\ enqueued = 0 /\ UNCHANGED <<waiting, enqueued>>
      BY <2>3, ExhaustedEmpty DEF WorkerExit
    <3> QED BY <3>1, FS_EmptySet DEF NothingStranded
  <2>4. CASE \/ WorkerSleep(w) \/ NoticeMaintenance(w) \/ StoreHistory(w)
             \/ DropBatch(w) \/ AckMaintenance(w)
    <3>1. req' = req /\ UNCHANGED poolvars
      BY <2>4 DEF WorkerSleep, NoticeMaintenance, StoreHistory, DropBatch,
                  AckMaintenance, reqvars
    <3> QED BY <1>2, <3>1
  <2> QED BY <1>4, <2>1, <2>2, <2>3, <2>4 DEF Work
<1>5. ASSUME NEW c \in Clients, Begin(c)
      PROVE  NothingStranded'
  <2>1. CASE CallMultiple(c)
    <3>1. PICK N \in SUBSET Requests :
              Creates(N) /\ \A r \in Requests \ N : req'[r] = req[r]
      BY <2>1, CallMultipleFacts
    <3>2. \A x \in waiting : req'[x[1]].leg = req[x[1]].leg
      BY <1>0, <1>1, <3>1
    <3>3. UNCHANGED poolvars
      BY <2>1 DEF CallMultiple
    <3> QED BY <1>2, <3>2, <3>3
  <2>2. CASE CallOne(c)
    <3>1. PICK N \in SUBSET Requests, R \in SUBSET Requests :
              /\ Creates(N)
              /\ Submits(R)
              /\ R \subseteq N
              /\ \A r \in Requests \ N : req'[r] = req[r]
      BY <2>2, CallOneFacts
    <3>2. \A r \in N : r \notin 1 .. requestId /\ Open(r) = {}
      BY <1>1, <3>1
    <3>3. \A x \in waiting : req'[x[1]].leg = req[x[1]].leg
      BY <1>0, <3>1, <3>2
    <3> QED BY <3>1, <3>2, <3>3, StrandedSubmit
  <2>3. CASE (\E m \in Models : Release(c, m)) \/ Drain(c)
    <3>1. req' = req /\ UNCHANGED poolvars
      BY <2>3 DEF Release, Drain, reqvars
    <3> QED BY <1>2, <3>1
  <2> QED BY <1>5, <2>1, <2>2, <2>3 DEF Begin
<1>6. ASSUME NEW c \in Clients, Proceed(c)
      PROVE  NothingStranded'
  <2>1. CASE EnqueueRequests(c) \/ EnqueueRequest(c)
    <3>1. Submits(group[c]) /\ req' = req
      BY <2>1, SubmitsGroup DEF EnqueueRequests, EnqueueRequest, reqvars
    <3>2. group[c] \in SUBSET Requests /\ \A r \in group[c] : r \in Unsubmitted
      BY <2>1 DEF EnqueueRequests, EnqueueRequest, Unsubmitted, Submitting, TypeOK
    <3>3. \A r \in group[c] : Open(r) = {}
      <4> TAKE r \in group[c]
      <4>1. Cardinality(Open(r)) = 0
        BY <3>2 DEF Accounting, Counted, GroupsApart
      <4>2. Open(r) \in SUBSET Sentences
        BY DEF Open
      <4> QED BY <4>1, <4>2, SentencesFinite, FS_EmptySet
    <3> QED BY <3>1, <3>2, <3>3, StrandedSubmit
  <2>2. CASE StartSecondLeg(c)
    <3>1. Len(args[c]) = 2
      BY <2>2 DEF StartSecondLeg, CallsMatch
    <3>2. PICK N \in SUBSET Requests :
              Creates(N) /\ \A r \in Requests \ N : req'[r] = req[r]
      BY <2>2, <3>1, StartSecondLegFacts
    <3>3. \A x \in waiting : req'[x[1]].leg = req[x[1]].leg
      BY <1>0, <1>1, <3>2
    <3>4. UNCHANGED poolvars
      BY <2>2 DEF StartSecondLeg
    <3> QED BY <1>2, <3>3, <3>4
  <2>3. CASE StartMaintenance(c)
    <3>1. UNCHANGED <<req, waiting, enqueued>>
      BY <2>3 DEF StartMaintenance, reqvars
    <3>2. queue' = queue \/ queue' = ClearedWhenDrained(queue, enqueued)
      BY <2>3 DEF StartMaintenance
    <3>3. enqueued = 0 => waiting = {}
      <4>1. IsFiniteSet(waiting)
        BY SentencesFinite DEF TypeOK
      <4> QED BY <4>1, FS_EmptySet DEF NothingStranded
    <3> QED BY <3>1, <3>2, <3>3 DEF NothingStranded, ClearedWhenDrained
  <2>4. CASE Return(c) \/ AwaitAcks(c) \/ Observe(c)
    <3>1. req' = req /\ UNCHANGED poolvars
      BY <2>4 DEF Return, AwaitAcks, Observe, reqvars
    <3> QED BY <1>2, <3>1
  <2> QED BY <1>6, <2>1, <2>2, <2>3, <2>4 DEF Proceed
<1> QED BY <1>3, <1>4, <1>5, <1>6 DEF Next

-----------------------------------------------------------------------------
(* Leaving the worker loop.                                                *)

LEMMA StayOnStep ==
    ASSUME TypeOK, NothingStranded, WorkersStayOn, [Next]_vars
    PROVE  WorkersStayOn'
<1>1. CASE UNCHANGED vars \/ Shutdown
  BY <1>1 DEF vars, Shutdown, workervars, WorkersStayOn
<1>2. ASSUME NEW w \in Workers, Work(w)
      PROVE  WorkersStayOn'
  <2>1. shutdown' = shutdown
    BY <1>2 DEF Work, WorkerSleep, NoticeMaintenance, DrawBatch, WorkerExit, StoreHistory,
                CountDown, DropBatch, AckMaintenance
  <2>2. CASE WorkerExit(w)
    <3>1. shutdown
      BY <2>2, ExhaustedEmpty DEF WorkerExit, WorkOrShutdown
    <3> QED BY <2>1, <3>1 DEF WorkersStayOn
  <2>3. CASE ~WorkerExit(w)
    <3>1. \/ wpc' = wpc
          \/ \E pc \in {"wait", "translate", "count", "drop", "maintain"} :
                wpc' = [wpc EXCEPT ![w] = pc]
      <4>1. CASE CountDown(w)
        <5>1. wpc' = [wpc EXCEPT ![w] = IF todo'[w] = {} THEN "drop" ELSE "translate"]
          BY <4>1 DEF CountDown
        <5> QED BY <5>1
      <4>2. CASE ~CountDown(w)
        BY <1>2, <2>3, <4>2 DEF Work, WorkerSleep, NoticeMaintenance, DrawBatch,
                    StoreHistory, DropBatch, AckMaintenance, workervars
      <4> QED BY <4>1, <4>2
    <3>2. \A v \in Workers : wpc'[v] = "exit" => wpc[v] = "exit"
      BY <3>1 DEF TypeOK
    <3> QED BY <2>1, <3>2 DEF WorkersStayOn
  <2> QED BY <2>2, <2>3
<1>3. ASSUME NEW c \in Clients, Begin(c) \/ Proceed(c)
      PROVE  WorkersStayOn'
  <2>1. UNCHANGED <<shutdown, wpc>>
    BY <1>3 DEF Begin, Proceed, CallMultiple, CallOne, Release, Drain, EnqueueRequests,
                StartSecondLeg, Return, EnqueueRequest, StartMaintenance, AwaitAcks,
                Observe, workervars
  <2> QED BY <2>1 DEF WorkersStayOn
<1> QED BY <1>1, <1>2, <1>3 DEF Next

-----------------------------------------------------------------------------
(* The order of a shutdown.                                                *)

LEMMA ShutdownOrderStep ==
    ASSUME ServiceAssumption, TypeOK, NothingStranded, WorkersStayOn, ShutdownOrder, [Next]_vars
    PROVE  ShutdownOrder'
<1> DEFINE Quiet == {"idle", "maintain", "await", "observe"}
<1>1. CASE UNCHANGED vars
  BY <1>1 DEF vars, poolvars, workervars, clientvars, ShutdownOrder
<1>2. CASE Shutdown
  BY <1>2 DEF Shutdown, poolvars, workervars, clientvars, ShutdownOrder
<1>3. ASSUME NEW w \in Workers, Work(w)
      PROVE  ShutdownOrder'
  <2>1. UNCHANGED <<shutdown, cpc>>
    BY <1>3 DEF Work, WorkerSleep, NoticeMaintenance, DrawBatch, WorkerExit, StoreHistory,
                CountDown, DropBatch, AckMaintenance, clientvars
  <2>2. \A v \in Workers : v # w => wpc'[v] = wpc[v] /\ todo'[v] = todo[v]
    BY <1>3 DEF Work, WorkerSleep, NoticeMaintenance, DrawBatch, WorkerExit, StoreHistory,
                CountDown, DropBatch, AckMaintenance, workervars, TypeOK
  <2>3. wpc'[w] \notin {"translate", "count"} => todo'[w] = {}
    <3>1. CASE CountDown(w) \/ DrawBatch(w) \/ StoreHistory(w)
      BY <3>1 DEF CountDown, DrawBatch, StoreHistory, TypeOK
    <3>2. CASE \/ WorkerSleep(w) \/ NoticeMaintenance(w) \/ WorkerExit(w)
               \/ DropBatch(w) \/ AckMaintenance(w)
      <4>1. todo' = todo /\ wpc[w] \notin {"translate", "count"}
        BY <3>2 DEF WorkerSleep, NoticeMaintenance, WorkerExit, DropBatch, AckMaintenance,
                    workervars
      <4> QED BY <4>1 DEF ShutdownOrder
    <3> QED BY <1>3, <3>1, <3>2 DEF Work
  <2>4. wpc'[w] = "exit" => waiting' = {}
    <3>1. CASE WorkerExit(w)
      BY <3>1, ExhaustedEmpty DEF WorkerExit
    <3>2. CASE CountDown(w)
      <4>1. wpc'[w] = IF todo'[w] = {} THEN "drop" ELSE "translate"
        BY <3>2 DEF CountDown, TypeOK
      <4> QED BY <4>1
    <3>3. CASE \/ WorkerSleep(w) \/ NoticeMaintenance(w) \/ DrawBatch(w)
               \/ StoreHistory(w) \/ DropBatch(w) \/ AckMaintenance(w)
      BY <3>3 DEF WorkerSleep, NoticeMaintenance, DrawBatch, StoreHistory, DropBatch,
                  AckMaintenance, workervars, TypeOK
    <3> QED BY <1>3, <3>1, <3>2, <3>3 DEF Work
  <2> QED BY <2>1, <2>2, <2>3, <2>4 DEF ShutdownOrder
<1>4. ASSUME NEW c \in Clients, Begin(c)
      PROVE  ShutdownOrder'
  <2>1. /\ ~shutdown /\ ~shutdown'
        /\ UNCHANGED <<wpc, todo>>
    BY <1>4 DEF Begin, CallMultiple, CallOne, Release, Drain, workervars
  <2>2. ~\A w \in Workers : wpc[w] = "exit"
    BY <2>1 DEF WorkersStayOn, ServiceAssumption
  <2> QED BY <2>1, <2>2 DEF ShutdownOrder
<1>5. ASSUME NEW c \in Clients, Proceed(c)
      PROVE  ShutdownOrder'
  <2>1. UNCHANGED <<shutdown, wpc, todo>>
    BY <1>5 DEF Proceed, EnqueueRequests, StartSecondLeg, Return, EnqueueRequest,
                StartMaintenance, AwaitAcks, Observe, workervars
  <2>2. CASE ~shutdown
    <3>1. ~\A w \in Workers : wpc[w] = "exit"
      BY <2>2 DEF WorkersStayOn, ServiceAssumption
    <3> QED BY <2>1, <2>2, <3>1 DEF ShutdownOrder
  <2>3. CASE shutdown
    <3>1. cpc[c] \in Quiet
      BY <2>3 DEF ShutdownOrder
    <3>2. StartMaintenance(c) \/ AwaitAcks(c) \/ Observe(c)
      BY <1>5, <3>1 DEF Proceed, EnqueueRequests, StartSecondLeg, Return, EnqueueRequest
    <3>3. waiting' = waiting
      BY <3>2 DEF StartMaintenance, AwaitAcks, Observe, poolvars
    <3>4. cpc' = cpc \/ \E pc \in Quiet : cpc' = [cpc EXCEPT ![c] = pc]
      BY <3>2 DEF StartMaintenance, AwaitAcks, Observe
    <3>5. \A d \in Clients : cpc'[d] \in Quiet
      BY <2>3, <3>4 DEF ShutdownOrder, TypeOK
    <3> QED BY <2>1, <3>3, <3>5 DEF ShutdownOrder
  <2> QED BY <2>2, <2>3
<1> QED BY <1>1, <1>2, <1>3, <1>4, <1>5 DEF Next

-----------------------------------------------------------------------------
(* The inductive invariant.                                                *)

LEMMA InvariantInit == ASSUME ServiceAssumption, Init PROVE IInv
<1>1. TypeOK
  BY TypeInit
<1>2. \A r \in Requests : Open(r) = {} /\ req[r] = Unborn
  BY DEF Init, Open
<1>3. requestId = 0 /\ \A c \in Clients : group[c] = {} /\ cpc[c] = "idle"
  BY DEF Init
<1>4. Accounting
  BY <1>2, <1>3 DEF Init, Accounting, OneHome, UnbornOpen, GroupsApart, Counted, Submitting
<1>5. NothingStranded
  BY FS_EmptySet DEF Init, NothingStranded
<1>6. CallsMatch
  BY <1>3 DEF CallsMatch, Submitting
<1>7. WorkersStayOn /\ ShutdownOrder
  BY DEF Init, WorkersStayOn, ShutdownOrder
<1> QED BY <1>1, <1>4, <1>5, <1>6, <1>7 DEF IInv

LEMMA InvariantStep ==
    ASSUME ServiceAssumption, IInv, [Next]_vars
    PROVE  IInv'
<1>1. /\ TypeOK /\ Accounting /\ NothingStranded
      /\ CallsMatch /\ WorkersStayOn /\ ShutdownOrder
  BY DEF IInv
<1>2. TypeOK'
  BY <1>1, TypeStep
<1>3. Accounting'
  BY <1>1, AccountingStep
<1>4. NothingStranded'
  BY <1>1, StrandedStep
<1>5. CallsMatch'
  BY <1>1, CallsMatchStep
<1>6. WorkersStayOn'
  BY <1>1, StayOnStep
<1>7. ShutdownOrder'
  BY <1>1, ShutdownOrderStep
<1> QED BY <1>2, <1>3, <1>4, <1>5, <1>6, <1>7 DEF IInv

LEMMA Invariance == Spec => []IInv
<1> USE ServiceAssumption
<1>1. Init => IInv
  BY InvariantInit
<1>2. IInv /\ [Next]_vars => IInv'
  BY InvariantStep
<1> QED BY <1>1, <1>2, PTL DEF Spec

-----------------------------------------------------------------------------
(* What follows from it.                                                   *)

(* Every variable keeps its type in every reachable state; in particular   *)
(* no counter_ of a request ever goes below zero.                          *)
THEOREM TypeCorrect == Spec => []TypeOK
<1>1. IInv => TypeOK
  BY DEF IInv
<1> QED BY <1>1, Invariance, PTL

(* enqueued_ of the thread-safe pool counts the sentences in the pools of  *)
(* the models exactly, and the aggregate queue reaches every one of them.  *)
THEOREM NeverStranded == Spec => []NothingStranded
<1>1. IInv => NothingStranded
  BY DEF IInv
<1> QED BY <1>1, Invariance, PTL

(* The response of a request is built at most once, and only when none of  *)
(* its sentences is left in a pool or in a worker's batch.                 *)
THEOREM AlwaysAnsweredWhole == Spec => []AnsweredWhole
<1>1. ASSUME IInv PROVE AnsweredWhole
  <2>1. TypeOK /\ UnbornOpen /\ Counted
    BY <1>1 DEF IInv, Accounting
  <2>2. SUFFICES ASSUME NEW r \in Requests
                 PROVE  /\ req[r].answers <= 1
                        /\ req[r].answers = 1 =>
                              /\ req[r].counter = 0
                              /\ \A s \in waiting : s[1] # r
                              /\ \A w \in Workers : \A s \in todo[w] : s[1] # r
    BY DEF AnsweredWhole
  <2>3. CASE r > requestId
    BY <2>1, <2>3 DEF UnbornOpen, Unborn
  <2>4. CASE r \in 1 .. requestId
    <3>1. req[r].answers = IF req[r].counter = 0 THEN 1 ELSE 0
      BY <2>1, <2>4 DEF Counted
    <3>2. SUFFICES ASSUME req[r].counter = 0
                   PROVE  /\ \A s \in waiting : s[1] # r
                          /\ \A w \in Workers : \A s \in todo[w] : s[1] # r
      BY <3>1
    <3>3. Cardinality(Open(r)) = 0
      BY <2>1, <2>4, <3>2 DEF Counted
    <3>4. Open(r) = {}
      <4>1. Open(r) \in SUBSET Sentences
        BY DEF Open
      <4> QED BY <3>3, <4>1, SentencesFinite, FS_EmptySet
    <3>5. waiting \subseteq Sentences /\ \A w \in Workers : todo[w] \subseteq Sentences
      BY <2>1 DEF TypeOK
    <3> QED BY <3>4, <3>5 DEF Open
  <2>5. r > requestId \/ r \in 1 .. requestId
    BY <2>1, ServiceAssumption DEF TypeOK, Requests
  <2> QED BY <2>3, <2>4, <2>5
<1> QED BY <1>1, Invariance, PTL

(* A worker leaves its loop only when the service has been shut down.      *)
THEOREM AlwaysStayOn == Spec => []WorkersStayOn
<1>1. IInv => WorkersStayOn
  BY DEF IInv
<1> QED BY <1>1, Invariance, PTL

(* When the last worker has left its loop, every request that was made has *)
(* had its answer: a shutdown loses nothing.                               *)
THEOREM ShutdownLosesNothing == Spec => []ShutdownDrains
<1>1. ASSUME IInv PROVE ShutdownDrains
  <2>1. TypeOK /\ Counted /\ WorkersStayOn /\ ShutdownOrder
    BY <1>1 DEF IInv, Accounting
  <2>2. SUFFICES ASSUME \A w \in Workers : wpc[w] = "exit", NEW r \in 1 .. requestId
                 PROVE  req[r].answers = 1
    BY DEF ShutdownDrains
  <2>3. shutdown
    BY <2>1, <2>2, ServiceAssumption DEF WorkersStayOn
  <2>4. r \notin Unsubmitted
    BY <2>1, <2>3 DEF ShutdownOrder, Unsubmitted, Submitting
  <2>5. Open(r) = {}
    BY <2>1, <2>2 DEF ShutdownOrder, Open
  <2>6. req[r].counter = 0
    BY <2>1, <2>4, <2>5, FS_EmptySet DEF Counted
  <2> QED BY <2>1, <2>6 DEF Counted
<1> QED BY <1>1, Invariance, PTL

=============================================================================
