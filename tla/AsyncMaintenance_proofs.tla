---------------------- MODULE AsyncMaintenance_proofs ----------------------
(***************************************************************************)
(* The maintenance handshake of AsyncService, what a release finds after   *)
(* it, and the promise of TranslationService, on top of the invariant IInv *)
(* of AsyncService_proofs.                                                 *)
(*                                                                         *)
(* Handshake counts the workers that are through with the pass; Calm says  *)
(* that a service that was idle when a release began stays so, and that    *)
(* workers through with the pass hold nothing.  WorkersAwake and           *)
(* ClientsAwake say that no wake-up is lost.                               *)
(***************************************************************************)
EXTENDS AsyncService_proofs

(* Workers that have acknowledged the latest epoch.                        *)
Flushed == {w \in Workers : seen[w] = epoch /\ wpc[w] # "maintain"}

(* maintenanceAcked_ counts them; between passes they are all, and who is  *)
(* busy since before the pass is none of them.                             *)
Handshake ==
    /\ \A w \in Workers : seen[w] <= epoch
    /\ \A w \in Workers : wpc[w] = "maintain" => seen[w] = epoch /\ epoch > 0
    /\ epoch > 0 => acked = Cardinality(Flushed)
    /\ epoch = 0 => serial = NoClient
    /\ ~shutdown /\ serial = NoClient => Flushed = Workers
    /\ \A w \in stale : wpc[w] \in {"translate", "count", "drop"} /\ seen[w] < epoch

LEMMA FlushedFinite == IsFiniteSet(Flushed) /\ IsFiniteSet(Workers)
  BY ServiceAssumption, FS_Subset DEF Flushed

(* A step that leaves the pass alone and takes no worker into it or out.   *)
LEMMA HandshakeFrame ==
    ASSUME TypeOK, Handshake,
           UNCHANGED <<epoch, acked, serial, stale, seen>>,
           shutdown => shutdown',
           \A w \in Workers : wpc[w] = "maintain" <=> wpc'[w] = "maintain",
           \A w \in stale : wpc'[w] \in {"translate", "count", "drop"}
    PROVE  Handshake'
<1>1. Flushed' = Flushed
  BY DEF Flushed
<1> QED BY <1>1 DEF Handshake

LEMMA HandshakeWork ==
    ASSUME ServiceAssumption, TypeOK, Handshake, NEW w \in Workers, Work(w)
    PROVE  Handshake'
<1>0. epoch \in Nat /\ seen \in [Workers -> Nat] /\ stale \subseteq Workers
  BY DEF TypeOK
<1>1. CASE WorkerSleep(w) \/ WorkerExit(w) \/ DrawBatch(w)
  <2>1. /\ UNCHANGED <<epoch, acked, serial, stale, seen, shutdown>>
        /\ wpc[w] = "wait"
        /\ wpc' = wpc \/ \E pc \in {"exit", "translate"} : wpc' = [wpc EXCEPT ![w] = pc]
    BY <1>1 DEF WorkerSleep, WorkerExit, DrawBatch, maintvars, workervars
  <2>2. w \notin stale
    BY <2>1 DEF Handshake
  <2>3. \A v \in Workers : v # w => wpc'[v] = wpc[v]
    BY <2>1 DEF TypeOK
  <2>4. wpc'[w] # "maintain"
    BY <2>1 DEF TypeOK
  <2> QED BY <1>0, <2>1, <2>2, <2>3, <2>4, HandshakeFrame DEF Handshake
<1>2. CASE StoreHistory(w) \/ CountDown(w)
  <2>1. /\ UNCHANGED <<epoch, acked, serial, stale, seen, shutdown>>
        /\ wpc[w] \in {"translate", "count"}
        /\ \E pc \in {"translate", "count", "drop"} : wpc' = [wpc EXCEPT ![w] = pc]
    BY <1>2 DEF StoreHistory, CountDown, maintvars, workervars
  <2>2. \A v \in Workers : v # w => wpc'[v] = wpc[v]
    BY <2>1 DEF TypeOK
  <2>3. wpc'[w] \in {"translate", "count", "drop"}
    BY <2>1 DEF TypeOK
  <2> QED BY <1>0, <2>1, <2>2, <2>3, HandshakeFrame DEF Handshake
<1>3. CASE NoticeMaintenance(w)
  <2>1. /\ UNCHANGED <<epoch, acked, serial, stale, shutdown>>
        /\ wpc[w] = "wait" /\ epoch # seen[w]
        /\ seen' = [seen EXCEPT ![w] = epoch]
        /\ wpc' = [wpc EXCEPT ![w] = "maintain"]
    BY <1>3 DEF NoticeMaintenance, maintvars
  <2>2. /\ \A v \in Workers : v # w => wpc'[v] = wpc[v] /\ seen'[v] = seen[v]
        /\ wpc'[w] = "maintain" /\ seen'[w] = epoch
    BY <2>1 DEF TypeOK
  <2>3. epoch > 0
    BY <1>0, <2>1 DEF Handshake
  <2>4. Flushed' = Flushed
    BY <2>1, <2>2 DEF Flushed
  <2>5. w \notin stale
    BY <2>1 DEF Handshake
  <2> QED BY <1>0, <2>1, <2>2, <2>3, <2>4, <2>5 DEF Handshake
<1>4. CASE DropBatch(w)
  <2>1. /\ UNCHANGED <<epoch, acked, serial, seen, shutdown>>
        /\ wpc[w] = "drop"
        /\ stale' = stale \ {w}
        /\ wpc' = [wpc EXCEPT ![w] = "wait"]
    BY <1>4 DEF DropBatch
  <2>2. /\ \A v \in Workers : v # w => wpc'[v] = wpc[v]
        /\ wpc'[w] = "wait"
    BY <2>1 DEF TypeOK
  <2>3. Flushed' = Flushed
    BY <2>1, <2>2 DEF Flushed
  <2> QED BY <1>0, <2>1, <2>2, <2>3 DEF Handshake
<1>5. CASE AckMaintenance(w)
  <2>1. /\ UNCHANGED <<epoch, serial, stale, seen, shutdown>>
        /\ wpc[w] = "maintain"
        /\ acked' = acked + 1
        /\ wpc' = [wpc EXCEPT ![w] = "wait"]
    BY <1>5 DEF AckMaintenance
  <2>2. /\ \A v \in Workers : v # w => wpc'[v] = wpc[v]
        /\ wpc'[w] = "wait"
    BY <2>1 DEF TypeOK
  <2>3. seen[w] = epoch /\ epoch > 0 /\ w \notin stale /\ w \notin Flushed
    BY <2>1 DEF Handshake, Flushed
  <2>4. Flushed' = Flushed \cup {w}
    BY <2>1, <2>2, <2>3 DEF Flushed
  <2>5. Cardinality(Flushed') = Cardinality(Flushed) + 1
    BY <2>3, <2>4, FlushedFinite, FS_AddElement
  <2>6. ~(~shutdown /\ serial = NoClient)
    BY <2>3 DEF Handshake
  <2> QED BY <1>0, <2>1, <2>2, <2>3, <2>5, <2>6 DEF Handshake
<1> QED BY <1>1, <1>2, <1>3, <1>4, <1>5 DEF Work

LEMMA HandshakeProceed ==
    ASSUME ServiceAssumption, TypeOK, Handshake, NEW c \in Clients, Proceed(c)
    PROVE  Handshake'
<1>0. /\ epoch \in Nat /\ seen \in [Workers -> Nat] /\ stale \subseteq Workers
      /\ acked \in Nat
  BY DEF TypeOK
<1>1. CASE \/ EnqueueRequests(c) \/ StartSecondLeg(c) \/ Return(c)
           \/ EnqueueRequest(c) \/ Observe(c)
  <2>1. UNCHANGED <<epoch, acked, serial, stale, seen, shutdown, wpc>>
    BY <1>1 DEF EnqueueRequests, StartSecondLeg, Return, EnqueueRequest, Observe,
                maintvars, workervars
  <2> QED BY <1>0, <2>1, HandshakeFrame DEF Handshake
<1>2. CASE StartMaintenance(c)
  <2>1. CASE shutdown
    <3>1. UNCHANGED <<epoch, acked, serial, stale, seen, shutdown, wpc>>
      BY <1>2, <2>1 DEF StartMaintenance, maintvars, workervars
    <3> QED BY <1>0, <3>1, HandshakeFrame DEF Handshake
  <2>2. CASE ~shutdown
    <3>1. /\ epoch' = epoch + 1 /\ acked' = 0 /\ serial' = c /\ stale' = Busy
          /\ serial = NoClient
          /\ UNCHANGED <<seen, wpc, shutdown>>
      BY <1>2, <2>2 DEF StartMaintenance, RaiseEpoch, workervars
    <3>2. \A w \in Workers : seen'[w] < epoch' /\ wpc'[w] # "maintain"
      BY <1>0, <2>2, <3>1 DEF Handshake, Flushed
    <3>3. Flushed' = {}
      BY <1>0, <3>1, <3>2 DEF Flushed
    <3>4. serial' # NoClient /\ epoch' > 0
      BY <1>0, <3>1, ServiceAssumption
    <3>5. \A w \in stale' : wpc'[w] \in {"translate", "count", "drop"} /\ w \in Workers
      BY <3>1 DEF Busy
    <3>6. \A w \in Workers : seen'[w] <= epoch'
      BY <1>0, <3>1, <3>2
    <3>7. acked' = Cardinality(Flushed')
      BY <3>1, <3>3, FS_EmptySet
    <3> QED BY <3>2, <3>4, <3>5, <3>6, <3>7 DEF Handshake
  <2> QED BY <2>1, <2>2
<1>3. CASE AwaitAcks(c)
  <2>1. UNCHANGED <<epoch, acked, stale, seen, shutdown, wpc>>
    BY <1>3 DEF AwaitAcks, workervars
  <2>2. Flushed' = Flushed
    BY <2>1 DEF Flushed
  <2>3. serial' = serial \/ (serial' = NoClient /\ (AllAcked \/ shutdown))
    BY <1>3 DEF AwaitAcks
  <2>4. epoch > 0 /\ AllAcked => Flushed = Workers
    <3>1. SUFFICES ASSUME epoch > 0, AllAcked PROVE Flushed = Workers
      OBVIOUS
    <3>2. Cardinality(Flushed) >= Cardinality(Workers)
      BY <3>1 DEF Handshake, AllAcked
    <3>3. Flushed \subseteq Workers
      BY DEF Flushed
    <3> QED BY <3>2, <3>3, FlushedFinite, FS_Subset, FS_CardinalityType
  <2>5. epoch = 0 /\ ~shutdown => Flushed = Workers
    BY DEF Handshake
  <2> QED BY <1>0, <2>1, <2>2, <2>3, <2>4, <2>5 DEF Handshake
<1> QED BY <1>1, <1>2, <1>3 DEF Proceed

LEMMA HandshakeStep ==
    ASSUME ServiceAssumption, TypeOK, Handshake, [Next]_vars
    PROVE  Handshake'
<1>1. CASE UNCHANGED vars
  BY <1>1, HandshakeFrame DEF Handshake, vars, maintvars, workervars
<1>2. CASE Shutdown
  BY <1>2, HandshakeFrame DEF Handshake, Shutdown, maintvars, workervars
<1>3. ASSUME NEW c \in Clients, Begin(c)
      PROVE  Handshake'
  <2>1. UNCHANGED <<epoch, acked, serial, stale, seen, shutdown, wpc>>
    BY <1>3 DEF Begin, CallMultiple, CallOne, Release, Drain, maintvars, workervars
  <2> QED BY <2>1, HandshakeFrame DEF Handshake
<1> QED BY <1>1, <1>2, <1>3, HandshakeWork, HandshakeProceed DEF Next

-----------------------------------------------------------------------------
(* What a release finds.                                                   *)

(* A call holds its models until it returns.                               *)
CallsHold ==
    \A c \in Clients :
        cpc[c] \in {"submitFirst", "collectFirst", "submitLast", "collectLast", "submitOne"}
            => args[c] # <<>>

(* maintenanceSerial_ is held by the client that waits for its pass.       *)
OneAwaits == \A c \in Clients : serial = c <=> cpc[c] = "await"

TargetsGone == \A c \in Clients : target[c] # NoModel => target[c] \notin handles

Holds(w) == held[w] # NoModel \/ batch[w] # {}

(* A service that was idle when a release began stays idle, and nothing is *)
(* held any more by the queue and by the workers the pass has been through.*)
StaysIdle ==
    \A c \in Clients : settled[c] =>
        /\ Idle
        /\ cpc[c] = "await" => queue = {} /\ \A w \in Flushed : ~Holds(w)
        /\ cpc[c] = "observe" /\ ~shutdown => queue = {} /\ \A w \in Workers : ~Holds(w)

Calm == CallsHold /\ OneAwaits /\ TargetsGone /\ StaysIdle

LEMMA CallsHoldStep ==
    ASSUME ServiceAssumption, TypeOK, CallsHold, [Next]_vars
    PROVE  CallsHold'
<1> DEFINE Calling == {"submitFirst", "collectFirst", "submitLast", "collectLast", "submitOne"}
<1>1. CASE UNCHANGED vars
  BY <1>1 DEF CallsHold, vars, clientvars
<1>2. CASE Shutdown \/ \E w \in Workers : Work(w)
  <2>1. UNCHANGED <<cpc, args>>
    BY <1>2 DEF Shutdown, Work, WorkerSleep, NoticeMaintenance, DrawBatch, WorkerExit,
                StoreHistory, CountDown, DropBatch, AckMaintenance, clientvars
  <2> QED BY <2>1 DEF CallsHold
<1>3. ASSUME NEW c \in Clients, CallMultiple(c) \/ CallOne(c)
      PROVE  CallsHold'
  <2>1. \E ms \in Seq(Models) : Len(ms) \in 1 .. 2 /\ args' = [args EXCEPT ![c] = ms]
    <3>1. CASE CallMultiple(c)
      BY <3>1, CallMultipleFacts
    <3>2. CASE CallOne(c)
      BY <3>2, CallOneFacts
    <3> QED BY <1>3, <3>1, <3>2
  <2>2. args'[c] # <<>> /\ \A d \in Clients : d # c => args'[d] = args[d]
    <3>1. PICK ms \in Seq(Models) : Len(ms) \in 1 .. 2 /\ args' = [args EXCEPT ![c] = ms]
      BY <2>1
    <3>2. Len(<<>>) = 0 /\ 0 \notin 1 .. 2
      OBVIOUS
    <3>3. ms # <<>>
      BY <3>1, <3>2, Zenon
    <3>4. args \in [Clients -> Seq(Models)]
      BY DEF TypeOK
    <3>5. args'[c] = ms
      BY <3>1, <3>4
    <3>6. ASSUME NEW d \in Clients, d # c
          PROVE  args'[d] = args[d]
      BY <3>1, <3>4, <3>6
    <3> QED BY <3>3, <3>5, <3>6
  <2>3. \A d \in Clients : d # c => cpc'[d] = cpc[d]
    BY <1>3 DEF CallMultiple, CallOne, TypeOK
  <2> QED BY <2>2, <2>3 DEF CallsHold
<1>4. ASSUME NEW c \in Clients, EnqueueRequests(c) \/ StartSecondLeg(c)
      PROVE  CallsHold'
  <2>1. args' = args /\ cpc[c] \in Calling
    BY <1>4 DEF EnqueueRequests, StartSecondLeg
  <2>2. \A d \in Clients : d # c => cpc'[d] = cpc[d]
    BY <1>4 DEF EnqueueRequests, StartSecondLeg, TypeOK
  <2> QED BY <2>1, <2>2 DEF CallsHold
<1>5. ASSUME NEW c \in Clients,
             \/ Return(c) \/ EnqueueRequest(c) \/ StartMaintenance(c) \/ AwaitAcks(c)
             \/ Observe(c) \/ Drain(c) \/ \E m \in Models : Release(c, m)
      PROVE  CallsHold'
  <2>1. /\ args' = args \/ args' = [args EXCEPT ![c] = <<>>]
        /\ \/ cpc' = cpc /\ args' = args
           \/ \E pc \in {"idle", "maintain", "await", "observe"} : cpc' = [cpc EXCEPT ![c] = pc]
    BY <1>5 DEF Return, EnqueueRequest, StartMaintenance, AwaitAcks, Observe, Drain, Release
  <2>2. (cpc' = cpc /\ args' = args) \/ cpc'[c] \notin Calling
    BY <2>1 DEF TypeOK
  <2>3. \A d \in Clients : d # c => cpc'[d] = cpc[d] /\ args'[d] = args[d]
    BY <2>1 DEF TypeOK
  <2> QED BY <2>2, <2>3 DEF CallsHold
<1> QED BY <1>1, <1>2, <1>3, <1>4, <1>5 DEF Next, Begin, Proceed

LEMMA OneAwaitsStep ==
    ASSUME ServiceAssumption, TypeOK, OneAwaits, [Next]_vars
    PROVE  OneAwaits'
<1>1. CASE UNCHANGED vars
  BY <1>1 DEF OneAwaits, vars, clientvars, maintvars
<1>2. CASE Shutdown \/ \E w \in Workers : Work(w)
  <2>1. UNCHANGED <<cpc, serial>>
    BY <1>2 DEF Shutdown, Work, WorkerSleep, NoticeMaintenance, DrawBatch, WorkerExit,
                StoreHistory, CountDown, DropBatch, AckMaintenance, clientvars, maintvars
  <2> QED BY <2>1 DEF OneAwaits
<1>3. ASSUME NEW c \in Clients,
             \/ Begin(c) \/ EnqueueRequests(c) \/ StartSecondLeg(c) \/ Return(c)
             \/ EnqueueRequest(c) \/ Observe(c)
      PROVE  OneAwaits'
  <2>1. serial' = serial /\ cpc[c] # "await"
    BY <1>3 DEF Begin, CallMultiple, CallOne, Release, Drain, EnqueueRequests, StartSecondLeg,
                Return, EnqueueRequest, Observe, maintvars
  <2>2. \E pc \in {"submitFirst", "submitLast", "submitOne", "collectFirst", "collectLast",
                   "maintain", "idle"} : cpc' = [cpc EXCEPT ![c] = pc]
    <3>1. CASE Begin(c)
      BY <3>1 DEF Begin, CallMultiple, CallOne, Release, Drain
    <3>2. CASE \/ EnqueueRequests(c) \/ StartSecondLeg(c) \/ Return(c)
               \/ EnqueueRequest(c) \/ Observe(c)
      BY <3>2 DEF EnqueueRequests, StartSecondLeg, Return, EnqueueRequest, Observe
    <3> QED BY <1>3, <3>1, <3>2
  <2>3. cpc'[c] # "await" /\ \A d \in Clients : d # c => cpc'[d] = cpc[d]
    BY <2>2 DEF TypeOK
  <2> QED BY <2>1, <2>3 DEF OneAwaits
<1>4. ASSUME NEW c \in Clients, StartMaintenance(c)
      PROVE  OneAwaits'
  <2>1. cpc[c] = "maintain" /\ serial = NoClient
    BY <1>4 DEF StartMaintenance
  <2>2. \/ serial' = serial /\ cpc' = [cpc EXCEPT ![c] = "observe"]
        \/ serial' = c /\ cpc' = [cpc EXCEPT ![c] = "await"]
    BY <1>4 DEF StartMaintenance, maintvars
  <2>3. \A d \in Clients : cpc[d] # "await"
    BY <2>1, ServiceAssumption DEF OneAwaits
  <2>4. \A d \in Clients : d # c => cpc'[d] = cpc[d]
    BY <2>2 DEF TypeOK
  <2>5. (serial' = c /\ cpc'[c] = "await") \/ (serial' = NoClient /\ cpc'[c] = "observe")
    BY <2>1, <2>2 DEF TypeOK
  <2> QED BY <2>3, <2>4, <2>5, ServiceAssumption DEF OneAwaits
<1>5. ASSUME NEW c \in Clients, AwaitAcks(c)
      PROVE  OneAwaits'
  <2>1. serial = c
    BY <1>5 DEF AwaitAcks, OneAwaits
  <2>2. \/ UNCHANGED <<serial, cpc>>
        \/ serial' = NoClient /\ cpc' = [cpc EXCEPT ![c] = "observe"]
    BY <1>5 DEF AwaitAcks
  <2>3. CASE UNCHANGED <<serial, cpc>>
    BY <2>3 DEF OneAwaits
  <2>4. CASE serial' = NoClient /\ cpc' = [cpc EXCEPT ![c] = "observe"]
    <3>1. cpc'[c] = "observe" /\ \A d \in Clients : d # c => cpc'[d] = cpc[d]
      BY <2>4 DEF TypeOK
    <3> QED BY <2>1, <2>4, <3>1, ServiceAssumption DEF OneAwaits
  <2> QED BY <2>2, <2>3, <2>4
<1> QED BY <1>1, <1>2, <1>3, <1>4, <1>5 DEF Next, Proceed

LEMMA TargetsGoneStep ==
    ASSUME ServiceAssumption, TypeOK, TargetsGone, [Next]_vars
    PROVE  TargetsGone'
<1>1. CASE UNCHANGED vars
  BY <1>1 DEF TargetsGone, vars, clientvars
<1>2. CASE Shutdown \/ \E w \in Workers : Work(w)
  <2>1. UNCHANGED <<handles, target>>
    BY <1>2 DEF Shutdown, Work, WorkerSleep, NoticeMaintenance, DrawBatch, WorkerExit,
                StoreHistory, CountDown, DropBatch, AckMaintenance, clientvars
  <2> QED BY <2>1 DEF TargetsGone
<1>3. ASSUME NEW c \in Clients,
             \/ CallMultiple(c) \/ CallOne(c) \/ Drain(c)
             \/ EnqueueRequests(c) \/ StartSecondLeg(c) \/ Return(c)
             \/ EnqueueRequest(c) \/ StartMaintenance(c) \/ AwaitAcks(c)
      PROVE  TargetsGone'
  <2>1. UNCHANGED <<handles, target>>
    BY <1>3 DEF CallMultiple, CallOne, Drain, EnqueueRequests, StartSecondLeg, Return,
                EnqueueRequest, StartMaintenance, AwaitAcks
  <2> QED BY <2>1 DEF TargetsGone
<1>4. ASSUME NEW c \in Clients, NEW m \in Models, Release(c, m)
      PROVE  TargetsGone'
  BY <1>4 DEF Release, TargetsGone, TypeOK
<1>5. ASSUME NEW c \in Clients, Observe(c)
      PROVE  TargetsGone'
  BY <1>5 DEF Observe, TargetsGone, TypeOK
<1> QED BY <1>1, <1>2, <1>3, <1>4, <1>5 DEF Next, Begin, Proceed

(* On an idle service no sentence is left to translate.                    *)
LEMMA IdleEmpty ==
    ASSUME ServiceAssumption, IInv, Idle
    PROVE  /\ waiting = {} /\ enqueued = 0
           /\ \A w \in Workers : todo[w] = {}
<1>1. TypeOK /\ Accounting /\ NothingStranded
  BY DEF IInv
<1>2. \A w \in Workers : todo[w] = {}
  <2> SUFFICES ASSUME NEW w \in Workers, NEW s \in todo[w] PROVE FALSE
    OBVIOUS
  <2> QED BY <1>1, StillCounted DEF Idle
<1>3. waiting = {}
  <2> SUFFICES ASSUME NEW s \in waiting PROVE FALSE
    OBVIOUS
  <2>1. s \in Sentences /\ s[1] \in 1 .. requestId /\ s[1] \in Requests
    BY <1>1, WaitingBorn
  <2>2. s \in Open(s[1])
    BY <2>1 DEF Open
  <2>3. Open(s[1]) \in SUBSET Sentences
    BY DEF Open
  <2>4. Cardinality(Open(s[1])) # 0
    BY <2>2, <2>3, SentencesFinite, FS_EmptySet
  <2>5. req[s[1]].answers = 0
    BY <1>1, <2>1, <2>4 DEF Accounting, Counted
  <2> QED BY <2>1, <2>5 DEF Idle
<1>4. enqueued = 0
  BY <1>1, <1>3, FS_EmptySet DEF NothingStranded
<1> QED BY <1>2, <1>3, <1>4

LEMMA IdleSame ==
    ASSUME Idle, UNCHANGED <<args, requestId, req>>
    PROVE  Idle'
  BY DEF Idle

LEMMA StaysIdleWork ==
    ASSUME ServiceAssumption, IInv, Handshake, StaysIdle, NEW w \in Workers, Work(w)
    PROVE  StaysIdle'
<1>0. TypeOK
  BY DEF IInv
<1>1. UNCHANGED <<args, settled, cpc, shutdown>>
  BY DEF Work, WorkerSleep, NoticeMaintenance, DrawBatch, WorkerExit,
         StoreHistory, CountDown, DropBatch, AckMaintenance, clientvars
<1> SUFFICES ASSUME NEW c \in Clients, settled[c]
             PROVE  /\ Idle'
                    /\ cpc[c] = "await" => queue' = {} /\ \A v \in Flushed' : ~Holds(v)'
                    /\ cpc[c] = "observe" /\ ~shutdown =>
                          queue' = {} /\ \A v \in Workers : ~Holds(v)'
  BY <1>1 DEF StaysIdle
<1>2. /\ Idle
      /\ cpc[c] = "await" => queue = {} /\ \A v \in Flushed : ~Holds(v)
      /\ cpc[c] = "observe" /\ ~shutdown => queue = {} /\ \A v \in Workers : ~Holds(v)
  BY DEF StaysIdle
<1>3. waiting = {} /\ \A v \in Workers : todo[v] = {}
  BY <1>2, IdleEmpty
<1>4. ~DrawBatch(w) /\ ~StoreHistory(w) /\ ~CountDown(w)
  BY <1>3 DEF DrawBatch, StoreHistory, CountDown, Pool
<1>5. WorkerSleep(w) \/ NoticeMaintenance(w) \/ WorkerExit(w) \/ DropBatch(w) \/ AckMaintenance(w)
  BY <1>4 DEF Work
<1>6. Idle'
  BY <1>1, <1>2, <1>5, IdleSame
     DEF WorkerSleep, NoticeMaintenance, WorkerExit, DropBatch, AckMaintenance, reqvars
<1>7. queue' = queue \/ queue' = {}
  BY <1>5 DEF WorkerSleep, NoticeMaintenance, WorkerExit, DropBatch, AckMaintenance, poolvars
<1>8. CASE WorkerSleep(w) \/ NoticeMaintenance(w) \/ WorkerExit(w)
  <2>1. UNCHANGED <<batch, held, epoch>>
    BY <1>8 DEF WorkerSleep, NoticeMaintenance, WorkerExit, workervars, maintvars
  <2>2. \/ UNCHANGED <<seen, wpc>>
        \/ UNCHANGED seen /\ wpc[w] = "wait" /\ wpc' = [wpc EXCEPT ![w] = "exit"]
        \/ wpc' = [wpc EXCEPT ![w] = "maintain"] /\ seen' = [seen EXCEPT ![w] = epoch]
    BY <1>8 DEF WorkerSleep, NoticeMaintenance, WorkerExit, workervars
  <2>3. Flushed' \subseteq Flushed
    BY <1>0, <2>1, <2>2 DEF Flushed, TypeOK
  <2> QED BY <1>2, <1>6, <1>7, <2>1, <2>3 DEF Holds
<1>9. CASE DropBatch(w) \/ AckMaintenance(w)
  <2>1. /\ batch' = [batch EXCEPT ![w] = {}] /\ held' = [held EXCEPT ![w] = NoModel]
        /\ UNCHANGED <<epoch, seen>>
        /\ wpc' = [wpc EXCEPT ![w] = "wait"]
    BY <1>9 DEF DropBatch, AckMaintenance
  <2>2. ~Holds(w)' /\ \A v \in Workers : v # w => Holds(v)' = Holds(v)
    BY <1>0, <2>1 DEF Holds, TypeOK
  <2>3. Flushed' \subseteq Flushed \cup {w}
    BY <1>0, <2>1 DEF Flushed, TypeOK
  <2>4. Flushed \subseteq Workers
    BY DEF Flushed
  <2> QED BY <1>2, <1>6, <1>7, <2>2, <2>3, <2>4
<1> QED BY <1>5, <1>8, <1>9

LEMMA StaysIdleProceed ==
    ASSUME ServiceAssumption, IInv, Handshake, CallsHold, OneAwaits, StaysIdle,
           NEW c \in Clients, Proceed(c)
    PROVE  StaysIdle'
<1>0. TypeOK
  BY DEF IInv
<1>1. UNCHANGED <<settled, wpc, batch, held, seen, shutdown>>
  BY DEF Proceed, EnqueueRequests, StartSecondLeg, Return, EnqueueRequest,
         StartMaintenance, AwaitAcks, Observe, workervars
<1> SUFFICES ASSUME NEW d \in Clients, settled[d]
             PROVE  /\ Idle'
                    /\ cpc'[d] = "await" => queue' = {} /\ \A v \in Flushed' : ~Holds(v)
                    /\ cpc'[d] = "observe" /\ ~shutdown =>
                          queue' = {} /\ \A v \in Workers : ~Holds(v)
  BY <1>1 DEF StaysIdle, Holds
<1>2. /\ Idle
      /\ cpc[d] = "await" => queue = {} /\ \A v \in Flushed : ~Holds(v)
      /\ cpc[d] = "observe" /\ ~shutdown => queue = {} /\ \A v \in Workers : ~Holds(v)
  BY DEF StaysIdle
<1>3. enqueued = 0
  BY <1>2, IdleEmpty
<1>4. cpc[c] \notin {"submitFirst", "collectFirst", "submitLast", "collectLast", "submitOne"}
  BY <1>2 DEF Idle, CallsHold
<1>5. StartMaintenance(c) \/ AwaitAcks(c) \/ Observe(c)
  BY <1>4 DEF Proceed, EnqueueRequests, StartSecondLeg, Return, EnqueueRequest
<1>6. Idle'
  BY <1>2, <1>5, IdleSame DEF StartMaintenance, AwaitAcks, Observe, reqvars
<1>7. CASE StartMaintenance(c)
  <2>1. CASE shutdown
    <3>1. UNCHANGED <<queue, epoch>> /\ cpc' = [cpc EXCEPT ![c] = "observe"]
      BY <1>7, <2>1 DEF StartMaintenance, maintvars
    <3>2. Flushed' = Flushed
      BY <1>1, <3>1 DEF Flushed
    <3>3. cpc'[d] = "await" => cpc[d] = "await"
      BY <1>0, <3>1 DEF TypeOK
    <3> QED BY <1>2, <1>6, <2>1, <3>1, <3>2, <3>3
  <2>2. CASE ~shutdown
    <3>1. queue' = {} /\ epoch' = epoch + 1 /\ cpc' = [cpc EXCEPT ![c] = "await"]
      BY <1>3, <1>7, <2>2 DEF StartMaintenance, ClearedWhenDrained, RaiseEpoch
    <3>2. Flushed' = {}
      BY <1>0, <1>1, <3>1 DEF Flushed, Handshake, TypeOK
    <3>3. cpc'[d] = "observe" => cpc[d] = "observe"
      BY <1>0, <3>1 DEF TypeOK
    <3> QED BY <1>2, <1>6, <3>1, <3>2, <3>3
  <2> QED BY <2>1, <2>2
<1>8. CASE AwaitAcks(c)
  <2>1. UNCHANGED <<queue, epoch>> /\ serial = c /\ cpc[c] = "await"
    BY <1>8 DEF AwaitAcks, OneAwaits, poolvars
  <2>2. Flushed' = Flushed
    BY <1>1, <2>1 DEF Flushed
  <2>3. CASE cpc' = cpc
    BY <1>2, <1>6, <2>1, <2>2, <2>3
  <2>4. CASE cpc' = [cpc EXCEPT ![c] = "observe"] /\ (AllAcked \/ shutdown)
    <3>1. d # c => cpc'[d] = cpc[d]
      BY <2>4
    <3>2. cpc'[c] = "observe"
      BY <1>0, <2>4 DEF TypeOK
    <3>3. ASSUME d = c, ~shutdown
          PROVE  queue' = {} /\ \A v \in Workers : ~Holds(v)
      <4>1. epoch > 0
        BY <1>0, <2>1, ServiceAssumption DEF Handshake, TypeOK
      <4>2. Cardinality(Flushed) >= Cardinality(Workers)
        BY <2>4, <3>3, <4>1 DEF Handshake, AllAcked
      <4>3. Flushed = Workers
        <5>1. Flushed \subseteq Workers
          BY DEF Flushed
        <5> QED BY <4>2, <5>1, FlushedFinite, FS_Subset, FS_CardinalityType
      <4> QED BY <1>2, <2>1, <3>3, <4>3
    <3> QED BY <1>2, <1>6, <2>1, <2>2, <3>1, <3>2, <3>3
  <2> QED BY <1>8, <2>3, <2>4 DEF AwaitAcks
<1>9. CASE Observe(c)
  <2>1. UNCHANGED <<queue, epoch>> /\ cpc' = [cpc EXCEPT ![c] = "idle"]
    BY <1>9 DEF Observe, poolvars, maintvars
  <2>2. Flushed' = Flushed
    BY <1>1, <2>1 DEF Flushed
  <2>3. cpc'[d] = cpc[d] \/ cpc'[d] = "idle"
    BY <1>0, <2>1 DEF TypeOK
  <2> QED BY <1>2, <1>6, <2>1, <2>2, <2>3
<1> QED BY <1>5, <1>7, <1>8, <1>9

LEMMA StaysIdleStep ==
    ASSUME ServiceAssumption, IInv, Handshake, CallsHold, OneAwaits, StaysIdle, [Next]_vars
    PROVE  StaysIdle'
<1>0. TypeOK
  BY DEF IInv
<1>1. CASE UNCHANGED vars
  <2>1. Idle' = Idle /\ Flushed' = Flushed
    BY <1>1 DEF Idle, Flushed, vars, reqvars, maintvars, workervars, clientvars
  <2>2. UNCHANGED <<settled, cpc, queue, shutdown, held, batch>>
    BY <1>1 DEF vars, poolvars, workervars, clientvars
  <2> QED BY <2>1, <2>2 DEF StaysIdle, Holds
<1>2. CASE Shutdown
  <2>1. UNCHANGED <<settled, cpc, queue, held, batch, epoch, seen, wpc, args, requestId, req>>
    BY <1>2 DEF Shutdown, reqvars, poolvars, maintvars, workervars, clientvars
  <2>2. Idle' = Idle /\ Flushed' = Flushed /\ shutdown'
    BY <1>2, <2>1 DEF Idle, Flushed, Shutdown
  <2> QED BY <2>1, <2>2 DEF StaysIdle, Holds
<1>3. ASSUME NEW c \in Clients, CallMultiple(c) \/ CallOne(c)
      PROVE  StaysIdle'
  <2>1. \A d \in Clients : settled'[d] = FALSE
    BY <1>3 DEF CallMultiple, CallOne
  <2> QED BY <2>1 DEF StaysIdle
<1>4. ASSUME NEW c \in Clients, Drain(c) \/ \E m \in Models : Release(c, m)
      PROVE  StaysIdle'
  <2>1. /\ UNCHANGED <<queue, held, batch, epoch, seen, wpc, args, requestId, req, shutdown>>
        /\ cpc' = [cpc EXCEPT ![c] = "maintain"]
        /\ settled' = settled \/ settled' = [settled EXCEPT ![c] = Idle]
    BY <1>4 DEF Drain, Release, reqvars, poolvars, maintvars, workervars
  <2>2. Idle' = Idle /\ Flushed' = Flushed
    BY <2>1 DEF Idle, Flushed
  <2>3. \A d \in Clients : settled'[d] => Idle
    BY <1>0, <2>1 DEF StaysIdle, TypeOK
  <2>4. \A d \in Clients : d # c => cpc'[d] = cpc[d] /\ settled'[d] = settled[d]
    BY <1>0, <2>1 DEF TypeOK
  <2>5. cpc'[c] = "maintain"
    BY <1>0, <2>1 DEF TypeOK
  <2> QED BY <2>1, <2>2, <2>3, <2>4, <2>5 DEF StaysIdle, Holds
<1> QED BY <1>1, <1>2, <1>3, <1>4, StaysIdleWork, StaysIdleProceed DEF Next, Begin

-----------------------------------------------------------------------------
LEMMA FurtherInit == ASSUME ServiceAssumption, Init PROVE Handshake /\ Calm
<1>1. Handshake
  BY DEF Init, Handshake, Flushed
<1>2. Calm
  BY DEF Init, Calm, CallsHold, OneAwaits, TargetsGone, StaysIdle
<1> QED BY <1>1, <1>2

LEMMA FurtherInvariance == Spec => [](IInv /\ Handshake /\ Calm)
<1> USE ServiceAssumption
<1>1. Init => Handshake /\ Calm
  BY FurtherInit
<1>2. IInv /\ Handshake /\ Calm /\ [Next]_vars => Handshake' /\ Calm'
  <2> SUFFICES ASSUME IInv, Handshake, Calm, [Next]_vars PROVE Handshake' /\ Calm'
    OBVIOUS
  <2>1. TypeOK /\ CallsHold /\ OneAwaits /\ TargetsGone /\ StaysIdle
    BY DEF IInv, Calm
  <2>2. Handshake'
    BY <2>1, HandshakeStep
  <2>3. CallsHold' /\ OneAwaits' /\ TargetsGone' /\ StaysIdle'
    BY <2>1, CallsHoldStep, OneAwaitsStep, TargetsGoneStep, StaysIdleStep
  <2> QED BY <2>2, <2>3 DEF Calm
<1> QED BY <1>1, <1>2, Invariance, PTL DEF Spec

(* When the last acknowledgement of a pass is in, no worker holds what it  *)
(* held when the epoch was raised (ThreadsafeBatchingPool::runMaintenance()*)
(* and ackMaintenance()).                                                  *)
THEOREM AcknowledgedIsFlushed == Spec => []FlushedWhenAcked
<1>1. ASSUME IInv, Handshake
      PROVE  FlushedWhenAcked
  <2> SUFFICES ASSUME serial # NoClient, AllAcked
               PROVE  stale = {} /\ \A w \in Workers : seen[w] = epoch /\ wpc[w] # "maintain"
    BY DEF FlushedWhenAcked
  <2>1. TypeOK
    BY <1>1 DEF IInv
  <2>2. epoch > 0
    BY <1>1, <2>1 DEF Handshake, TypeOK
  <2>3. Cardinality(Flushed) >= Cardinality(Workers)
    BY <1>1, <2>2 DEF Handshake, AllAcked
  <2>4. Flushed \subseteq Workers
    BY DEF Flushed
  <2>5. Flushed = Workers
    BY <2>3, <2>4, FlushedFinite, FS_Subset, FS_CardinalityType
  <2>6. stale = {}
    BY <1>1, <2>1, <2>5 DEF Handshake, Flushed, TypeOK
  <2> QED BY <2>5, <2>6 DEF Flushed
<1> QED BY <1>1, FurtherInvariance, PTL

(* A release that begins on an idle service destroys the model: when       *)
(* runMaintenance() returns, nobody holds a reference any more             *)
(* (AsyncService::release()).                                              *)
THEOREM ReleaseAlwaysDestroys == Spec => []ReleaseDestroys
<1>1. ASSUME IInv, Calm
      PROVE  ReleaseDestroys
  <2> SUFFICES ASSUME NEW c \in Clients,
                      cpc[c] = "observe", target[c] # NoModel, settled[c], ~shutdown
               PROVE  ~Owned(target[c])
    BY DEF ReleaseDestroys
  <2>1. Idle /\ queue = {} /\ (\A w \in Workers : ~Holds(w)) /\ target[c] \notin handles
    BY <1>1 DEF Calm, StaysIdle, TargetsGone
  <2>2. waiting = {}
    BY <1>1, <2>1, ServiceAssumption, IdleEmpty
  <2>3. waiting \cup UNION {batch[w] : w \in Workers} = {}
    BY <2>1, <2>2 DEF Holds
  <2>4. \A d \in Clients : DOMAIN args[d] = {}
    BY <2>1 DEF Idle
  <2> QED BY <2>1, <2>3, <2>4 DEF Owned, Holds
<1> QED BY <1>1, FurtherInvariance, PTL

(* A worker that is still to notice a maintenance pass is busy only with   *)
(* the batch it held when the pass began, so a release waits for at most   *)
(* one batch per worker (ThreadsafeBatchingPool::generateBatch()).         *)
THEOREM BoundedByOneBatch == Spec => []OneBatchInFlight
<1>1. Init => OneBatchInFlight
  BY DEF Init, OneBatchInFlight, Busy
<1>2. ASSUME TypeOK, OneBatchInFlight, [Next]_vars
      PROVE  OneBatchInFlight'
  <2>1. CASE UNCHANGED vars
    BY <1>2, <2>1 DEF OneBatchInFlight, Busy, vars, workervars, maintvars
  <2>2. ASSUME NEW c \in Clients, StartMaintenance(c)
        PROVE  OneBatchInFlight'
    <3>1. wpc' = wpc /\ seen' = seen
      BY <2>2 DEF StartMaintenance, workervars
    <3>2. stale' = Busy \/ UNCHANGED <<stale, epoch>>
      BY <2>2 DEF StartMaintenance, maintvars
    <3> QED BY <1>2, <3>1, <3>2 DEF OneBatchInFlight, Busy
  <2>3. CASE \/ Shutdown
             \/ \E c \in Clients :
                    \/ Begin(c) \/ EnqueueRequests(c) \/ StartSecondLeg(c) \/ Return(c)
                    \/ EnqueueRequest(c) \/ AwaitAcks(c) \/ Observe(c)
    <3>1. UNCHANGED <<wpc, seen, epoch, stale>>
      BY <2>3 DEF Shutdown, Begin, CallMultiple, CallOne, Release, Drain, EnqueueRequests,
                  StartSecondLeg, Return, EnqueueRequest, AwaitAcks, Observe,
                  workervars, maintvars
    <3> QED BY <1>2, <3>1 DEF OneBatchInFlight, Busy
  <2>4. ASSUME NEW w \in Workers, Work(w)
        PROVE  OneBatchInFlight'
    <3>1. epoch' = epoch /\ \A v \in Workers : v # w =>
              /\ wpc'[v] = wpc[v] /\ seen'[v] = seen[v]
              /\ v \in stale => v \in stale'
      <4>1. /\ epoch' = epoch
            /\ stale' = stale \/ stale' = stale \ {w}
            /\ seen' = seen \/ seen' = [seen EXCEPT ![w] = epoch]
        BY <2>4 DEF Work, WorkerSleep, NoticeMaintenance, DrawBatch, WorkerExit, StoreHistory,
                    CountDown, DropBatch, AckMaintenance, workervars, maintvars
      <4>2. \A v \in Workers : v # w => wpc'[v] = wpc[v]
        BY <1>2, <2>4 DEF Work, WorkerSleep, NoticeMaintenance, DrawBatch, WorkerExit,
                    StoreHistory, CountDown, DropBatch, AckMaintenance, workervars, TypeOK
      <4> QED BY <1>2, <4>1, <4>2 DEF TypeOK
    <3>2. ASSUME wpc'[w] \in {"translate", "count", "drop"}
          PROVE  seen'[w] = epoch \/ w \in stale'
      <4>1. CASE DrawBatch(w)
        BY <4>1 DEF DrawBatch, NoMaintenance
      <4>2. CASE StoreHistory(w) \/ CountDown(w)
        <5>1. UNCHANGED <<seen, stale>> /\ w \in Busy
          BY <4>2 DEF StoreHistory, CountDown, Busy, maintvars
        <5> QED BY <1>2, <5>1 DEF OneBatchInFlight
      <4>3. CASE WorkerSleep(w)
        BY <3>2, <4>3 DEF WorkerSleep, workervars
      <4>4. CASE NoticeMaintenance(w) \/ WorkerExit(w) \/ DropBatch(w) \/ AckMaintenance(w)
        <5>1. \E pc \in {"maintain", "exit", "wait"} : wpc' = [wpc EXCEPT ![w] = pc]
          BY <4>4 DEF NoticeMaintenance, WorkerExit, DropBatch, AckMaintenance
        <5> QED BY <1>2, <3>2, <5>1 DEF TypeOK
      <4> QED BY <2>4, <4>1, <4>2, <4>3, <4>4 DEF Work
    <3> QED BY <1>2, <3>1, <3>2 DEF OneBatchInFlight, Busy
  <2> QED BY <1>2, <2>1, <2>2, <2>3, <2>4 DEF Next, Proceed
<1> QED BY <1>1, <1>2, TypeCorrect, PTL DEF Spec

-----------------------------------------------------------------------------
(* Nobody waits for ever.                                                  *)

(* A thread sleeps only while the predicate of its wait is false.          *)
WorkersAwake ==
    \A w \in Workers \cap asleep : wpc[w] = "wait" /\ ~WorkOrShutdown /\ NoMaintenance(w)

ClientsAwake ==
    \A c \in Clients \cap asleep : cpc[c] = "await" /\ ~AllAcked /\ ~shutdown

(* A worker with a batch has a sentence to go on with.                     *)
HasWork ==
    \A w \in Workers :
        /\ wpc[w] = "translate" => todo[w] # {}
        /\ wpc[w] = "count" => todo[w] \cap stored # {}

(* A step that adds no work and leaves the others where they are.          *)
LEMMA AwakeFrame ==
    ASSUME WorkersAwake, ClientsAwake,
           UNCHANGED <<enqueued, shutdown, epoch, acked>>,
           asleep' \subseteq asleep,
           \A w \in Workers \cap asleep' : wpc'[w] = wpc[w] /\ seen'[w] = seen[w],
           \A c \in Clients \cap asleep' : cpc'[c] = cpc[c]
    PROVE  WorkersAwake' /\ ClientsAwake'
  BY DEF WorkersAwake, ClientsAwake, WorkOrShutdown, NoMaintenance, AllAcked

(* A step that wakes the workers.                                          *)
LEMMA WorkersWoken ==
    ASSUME ServiceAssumption, ClientsAwake, Notify(Workers), UNCHANGED <<shutdown, acked>>,
           \A c \in Clients \cap asleep : cpc'[c] = cpc[c]
    PROVE  WorkersAwake' /\ ClientsAwake'
<1>1. asleep' \cap Workers = {} /\ asleep' \subseteq asleep
  BY DEF Notify
<1> QED BY <1>1 DEF WorkersAwake, ClientsAwake, AllAcked

LEMMA AwakeWork ==
    ASSUME ServiceAssumption, TypeOK, WorkersAwake, ClientsAwake, NEW w \in Workers, Work(w)
    PROVE  WorkersAwake' /\ ClientsAwake'
<1>1. /\ cpc' = cpc
      /\ \A v \in Workers : v # w => wpc'[v] = wpc[v] /\ seen'[v] = seen[v]
  BY DEF Work, WorkerSleep, NoticeMaintenance, DrawBatch, WorkerExit, StoreHistory,
         CountDown, DropBatch, AckMaintenance, workervars, clientvars, TypeOK
<1>2. w \notin Clients /\ Cardinality(Workers) \in Nat
  BY FS_CardinalityType DEF ServiceAssumption
<1>3. CASE WorkerSleep(w)
  <2>1. /\ UNCHANGED <<enqueued, shutdown, epoch, acked, wpc, seen>>
        /\ asleep' = asleep \cup {w}
        /\ wpc[w] = "wait" /\ ~WorkOrShutdown /\ NoMaintenance(w)
    BY <1>3 DEF WorkerSleep, poolvars, maintvars, workervars
  <2> QED BY <1>1, <1>2, <2>1 DEF WorkersAwake, ClientsAwake, WorkOrShutdown, NoMaintenance, AllAcked
<1>4. CASE \/ NoticeMaintenance(w) \/ WorkerExit(w) \/ StoreHistory(w) \/ DropBatch(w)
  <2>1. /\ UNCHANGED <<enqueued, shutdown, epoch, acked, asleep>>
        /\ w \notin asleep
    BY <1>4 DEF NoticeMaintenance, WorkerExit, StoreHistory, DropBatch, poolvars, maintvars,
                WorkersAwake
  <2> QED BY <1>1, <2>1, AwakeFrame
<1>5. CASE DrawBatch(w)
  <2>1. /\ UNCHANGED <<shutdown, epoch, acked, asleep>>
        /\ w \notin asleep /\ WorkOrShutdown
    BY <1>5 DEF DrawBatch, maintvars
  <2>2. Workers \cap asleep = {}
    BY <2>1 DEF WorkersAwake
  <2> QED BY <1>1, <2>1, <2>2 DEF WorkersAwake, ClientsAwake, AllAcked
<1>6. CASE CountDown(w)
  <2>1. /\ UNCHANGED <<shutdown, epoch, acked>>
        /\ w \notin asleep
        /\ UNCHANGED <<enqueued, asleep>> \/ Notify(Workers)
    BY <1>6 DEF CountDown, maintvars, poolvars, Put, WorkersAwake
  <2> QED BY <1>1, <2>1, AwakeFrame, WorkersWoken
<1>7. CASE AckMaintenance(w)
  <2>1. /\ UNCHANGED <<enqueued, shutdown, epoch>>
        /\ w \notin asleep
        /\ asleep' = asleep \ Clients
    BY <1>7 DEF AckMaintenance, poolvars, Notify, WorkersAwake
  <2> QED BY <1>1, <2>1 DEF WorkersAwake, ClientsAwake, WorkOrShutdown, NoMaintenance
<1> QED BY <1>3, <1>4, <1>5, <1>6, <1>7 DEF Work

LEMMA AwakeProceed ==
    ASSUME ServiceAssumption, TypeOK, OneAwaits, WorkersAwake, ClientsAwake,
           NEW c \in Clients, Proceed(c)
    PROVE  WorkersAwake' /\ ClientsAwake'
<1>1. /\ UNCHANGED <<wpc, seen, shutdown>>
      /\ \A d \in Clients : d # c => cpc'[d] = cpc[d]
  BY DEF Proceed, EnqueueRequests, StartSecondLeg, Return, EnqueueRequest,
         StartMaintenance, AwaitAcks, Observe, workervars, TypeOK
<1>2. c \notin Workers /\ (c \in asleep => cpc[c] = "await")
  BY DEF ServiceAssumption, ClientsAwake
<1>3. CASE EnqueueRequests(c) \/ EnqueueRequest(c)
  <2>1. Notify(Workers) /\ acked' = acked /\ c \notin asleep
    BY <1>2, <1>3 DEF EnqueueRequests, EnqueueRequest, Put, maintvars
  <2> QED BY <1>1, <2>1, WorkersWoken
<1>4. CASE StartSecondLeg(c) \/ Return(c) \/ Observe(c)
  <2>1. UNCHANGED <<enqueued, epoch, acked, asleep>> /\ c \notin asleep
    BY <1>2, <1>4 DEF StartSecondLeg, Return, Observe, poolvars, maintvars
  <2> QED BY <1>1, <2>1, AwakeFrame
<1>5. CASE StartMaintenance(c)
  <2>1. c \notin asleep /\ enqueued' = enqueued
    BY <1>2, <1>5 DEF StartMaintenance
  <2>2. CASE shutdown
    <3>1. UNCHANGED <<epoch, acked, asleep>>
      BY <1>5, <2>2 DEF StartMaintenance, maintvars
    <3> QED BY <1>1, <2>1, <3>1, AwakeFrame
  <2>3. CASE ~shutdown
    <3>1. serial = NoClient /\ Notify(Workers)
      BY <1>5, <2>3 DEF StartMaintenance
    <3>2. Clients \cap asleep = {}
      BY <3>1 DEF OneAwaits, ClientsAwake, ServiceAssumption
    <3> QED BY <3>1, <3>2 DEF Notify, WorkersAwake, ClientsAwake
  <2> QED BY <2>2, <2>3
<1>6. CASE AwaitAcks(c)
  <2>1. UNCHANGED <<enqueued, epoch, acked>> /\ c \notin asleep /\ cpc[c] = "await"
    BY <1>6 DEF AwaitAcks, poolvars
  <2>2. CASE AllAcked \/ shutdown
    <3>1. asleep' = asleep
      BY <1>6, <2>2 DEF AwaitAcks
    <3> QED BY <1>1, <2>1, <3>1, AwakeFrame
  <2>3. CASE ~(AllAcked \/ shutdown)
    <3>1. asleep' = asleep \cup {c} /\ cpc' = cpc
      BY <1>6, <2>3 DEF AwaitAcks
    <3> QED BY <1>1, <1>2, <2>1, <2>3, <3>1
            DEF WorkersAwake, ClientsAwake, WorkOrShutdown, NoMaintenance, AllAcked
  <2> QED BY <2>2, <2>3
<1> QED BY <1>3, <1>4, <1>5, <1>6 DEF Proceed

LEMMA AwakeStep ==
    ASSUME ServiceAssumption, TypeOK, OneAwaits, WorkersAwake, ClientsAwake, [Next]_vars
    PROVE  WorkersAwake' /\ ClientsAwake'
<1>1. CASE UNCHANGED vars
  BY <1>1 DEF vars, poolvars, maintvars, workervars, clientvars,
              WorkersAwake, ClientsAwake, WorkOrShutdown, NoMaintenance, AllAcked
<1>2. CASE Shutdown
  <2>1. asleep' \cap Workers = {} /\ asleep' \cap Clients = {}
    BY <1>2 DEF Shutdown, Notify
  <2> QED BY <2>1 DEF WorkersAwake, ClientsAwake
<1>3. ASSUME NEW c \in Clients, Begin(c)
      PROVE  WorkersAwake' /\ ClientsAwake'
  <2>1. c \notin asleep
    BY <1>3 DEF Begin, CallMultiple, CallOne, Release, Drain, ClientsAwake
  <2>2. \A d \in Clients : d # c => cpc'[d] = cpc[d]
    BY <1>3 DEF Begin, CallMultiple, CallOne, Release, Drain, TypeOK
  <2>3. UNCHANGED <<wpc, seen, shutdown, epoch, acked>>
    BY <1>3 DEF Begin, CallMultiple, CallOne, Release, Drain, workervars, maintvars
  <2>4. UNCHANGED <<enqueued, asleep>> \/ Notify(Workers)
    BY <1>3 DEF Begin, CallMultiple, CallOne, Release, Drain, poolvars, Put
  <2> QED BY <2>1, <2>2, <2>3, <2>4, AwakeFrame, WorkersWoken
<1> QED BY <1>1, <1>2, <1>3, AwakeWork, AwakeProceed DEF Next

LEMMA HasWorkStep ==
    ASSUME TypeOK, HasWork, [Next]_vars
    PROVE  HasWork'
<1>1. CASE UNCHANGED vars
  BY <1>1 DEF vars, reqvars, workervars, HasWork
<1>2. ASSUME Shutdown \/ \E c \in Clients : Begin(c) \/ Proceed(c)
      PROVE  HasWork'
  <2>1. UNCHANGED <<wpc, todo, stored>>
    BY <1>2 DEF Shutdown, Begin, CallMultiple, CallOne, Release, Drain, Proceed,
                EnqueueRequests, StartSecondLeg, Return, EnqueueRequest,
                StartMaintenance, AwaitAcks, Observe, workervars, reqvars
  <2> QED BY <2>1 DEF HasWork
<1>3. ASSUME NEW w \in Workers, Work(w)
      PROVE  HasWork'
  <2>1. /\ stored \subseteq stored'
        /\ \A v \in Workers : v # w => wpc'[v] = wpc[v] /\ todo'[v] = todo[v]
    BY <1>3 DEF Work, WorkerSleep, NoticeMaintenance, DrawBatch, WorkerExit, StoreHistory,
                CountDown, DropBatch, AckMaintenance, workervars, reqvars, TypeOK
  <2>2. (wpc'[w] = "translate" => todo'[w] # {}) /\ (wpc'[w] = "count" => todo'[w] \cap stored' # {})
    <3>1. CASE DrawBatch(w)
      BY <3>1 DEF DrawBatch, TypeOK
    <3>2. CASE StoreHistory(w)
      BY <3>2 DEF StoreHistory, TypeOK
    <3>3. CASE CountDown(w)
      <4>1. wpc' = [wpc EXCEPT ![w] = IF todo'[w] = {} THEN "drop" ELSE "translate"]
        BY <3>3 DEF CountDown
      <4> QED BY <4>1 DEF TypeOK
    <3>4. CASE WorkerSleep(w)
      BY <3>4 DEF WorkerSleep, workervars, reqvars, HasWork
    <3>5. CASE NoticeMaintenance(w) \/ WorkerExit(w) \/ DropBatch(w) \/ AckMaintenance(w)
      <4>1. \E pc \in {"maintain", "exit", "wait"} : wpc' = [wpc EXCEPT ![w] = pc]
        BY <3>5 DEF NoticeMaintenance, WorkerExit, DropBatch, AckMaintenance
      <4> QED BY <4>1 DEF TypeOK
    <3> QED BY <1>3, <3>1, <3>2, <3>3, <3>4, <3>5 DEF Work
  <2> QED BY <2>1, <2>2 DEF HasWork
<1> QED BY <1>1, <1>2, <1>3 DEF Next

LEMMA AwakeInvariance == Spec => [](WorkersAwake /\ ClientsAwake /\ HasWork)
<1> USE ServiceAssumption
<1>1. Init => WorkersAwake /\ ClientsAwake /\ HasWork
  BY DEF Init, WorkersAwake, ClientsAwake, HasWork
<1>2. IInv /\ Calm /\ WorkersAwake /\ ClientsAwake /\ HasWork /\ [Next]_vars
        => WorkersAwake' /\ ClientsAwake' /\ HasWork'
  BY AwakeStep, HasWorkStep DEF IInv, Calm
<1> QED BY <1>1, <1>2, FurtherInvariance, PTL DEF Spec

(* Requests that nobody works on and nobody submits have their answers.    *)
LEMMA NothingOpenAnswered ==
    ASSUME ServiceAssumption, IInv, waiting = {}, \A w \in Workers : todo[w] = {},
           \A c \in Clients : ~Submitting(c)
    PROVE  \A r \in 1 .. requestId : req[r].answers = 1
<1> SUFFICES ASSUME NEW r \in 1 .. requestId PROVE req[r].answers = 1
  OBVIOUS
<1>1. Open(r) = {} /\ r \notin Unsubmitted
  BY DEF Open, Unsubmitted
<1>2. Cardinality(Open(r)) = 0
  BY <1>1, FS_EmptySet
<1>3. req[r].counter = 0
  BY <1>1, <1>2 DEF IInv, Accounting, Counted
<1> QED BY <1>3 DEF IInv, Accounting, Counted

(* The workers and the clients of the service never wait for each other:   *)
(* when no thread can go on, all requests are answered and all calls have  *)
(* returned (ThreadsafeBatchingPool: work_, maintenanceDone_).             *)
THEOREM NeverWaitsForEver == Spec => []NeverStuck
<1> USE ServiceAssumption
<1>1. ASSUME IInv, Handshake, Calm, WorkersAwake, ClientsAwake, HasWork, Resting
      PROVE  /\ \A r \in 1 .. requestId : req[r].answers = 1
             /\ \A c \in Clients : cpc[c] = "idle"
  <2>1. /\ TypeOK /\ OneAwaits /\ NothingStranded /\ WorkersStayOn /\ ShutdownOrder
        /\ GroupsApart
    BY <1>1 DEF IInv, Calm, Accounting
  <2>2. \A w \in Workers : w \in asleep \/ wpc[w] = "exit"
    BY <1>1 DEF Resting, HasWork
  <2>3. \A c \in Clients : ~Submitting(c)
    BY <1>1 DEF Resting, Submitting, ClientsAwake
  <2>4. \A w \in Workers : todo[w] = {}
    BY <1>1, <2>1, <2>2 DEF WorkersAwake, ShutdownOrder
  <2>5. waiting = {}
    <3>1. CASE \A w \in Workers : wpc[w] = "exit"
      BY <2>1, <3>1 DEF ShutdownOrder
    <3>2. CASE \E w \in Workers : w \in asleep
      <4>1. enqueued = 0
        BY <1>1, <3>2 DEF WorkersAwake, WorkOrShutdown
      <4>2. IsFiniteSet(waiting)
        BY <2>1, SentencesFinite DEF TypeOK
      <4> QED BY <2>1, <4>1, <4>2, FS_EmptySet DEF NothingStranded
    <3> QED BY <2>2, <3>1, <3>2
  <2>6. \A r \in 1 .. requestId : req[r].answers = 1
    BY <1>1, <2>3, <2>4, <2>5, NothingOpenAnswered
  <2>7. \A c \in Clients : Collected(c)
    BY <2>1, <2>6 DEF Collected, GroupsApart
  <2>8. Clients \cap asleep = {}
    <3> SUFFICES ASSUME NEW c \in Clients \cap asleep PROVE FALSE
      OBVIOUS
    <3>1. cpc[c] = "await" /\ ~AllAcked /\ ~shutdown
      BY <1>1 DEF ClientsAwake
    <3>2. serial # NoClient /\ serial = c
      BY <2>1, <3>1 DEF OneAwaits
    <3>3. \A w \in Workers : wpc[w] = "wait" /\ seen[w] = epoch
      BY <1>1, <2>1, <2>2, <3>1 DEF WorkersAwake, NoMaintenance, WorkersStayOn
    <3>4. Flushed = Workers
      BY <3>3 DEF Flushed
    <3>5. epoch > 0
      BY <1>1, <2>1, <3>2 DEF Handshake, TypeOK
    <3>6. acked = Cardinality(Workers) /\ acked \in Nat
      BY <1>1, <2>1, <3>4, <3>5 DEF Handshake, TypeOK
    <3> QED BY <3>1, <3>6 DEF AllAcked
  <2>9. serial = NoClient
    <3> SUFFICES ASSUME serial # NoClient PROVE FALSE
      OBVIOUS
    <3>1. serial \in Clients /\ cpc[serial] = "await"
      BY <2>1 DEF TypeOK, OneAwaits
    <3> QED BY <1>1, <2>8, <3>1 DEF Resting
  <2> QED BY <1>1, <2>6, <2>7, <2>8, <2>9 DEF Resting
<1> QED BY <1>1, FurtherInvariance, AwakeInvariance, PTL DEF NeverStuck

-----------------------------------------------------------------------------
(* The promise of TranslationService.                                      *)

(* Ids are given out upwards, and an answer is given to a request that had *)
(* none and is never taken back.                                           *)
Served ==
    /\ requestId' \in requestId .. MaxRequests
    /\ \A r \in Requests :
          \/ req'[r].answers = req[r].answers
          \/ req[r].answers = 0 /\ req'[r].answers = 1 /\ r <= requestId'

LEMMA CreatedServed ==
    ASSUME ServiceAssumption, TypeOK, Accounting, NEW N \in SUBSET Requests,
           Creates(N), \A r \in Requests \ N : req'[r] = req[r]
    PROVE  Served
<1>1. requestId \in Nat /\ requestId' \in requestId .. MaxRequests
  BY DEF Creates, TypeOK, ServiceAssumption
<1>2. ASSUME NEW r \in N
      PROVE  /\ req[r].answers = 0 /\ r <= requestId'
             /\ req'[r].answers \in {0, 1}
  <2>1. r \in Requests /\ r > requestId /\ r <= requestId'
    BY <1>1 DEF Creates, Requests
  <2>2. req[r].answers = 0
    BY <2>1 DEF Accounting, UnbornOpen, Unborn
  <2> QED BY <2>1, <2>2 DEF Creates
<1> QED BY <1>1, <1>2 DEF Served

LEMMA SameServed ==
    ASSUME ServiceAssumption, TypeOK, UNCHANGED <<requestId, req>>
    PROVE  Served
  BY DEF Served, TypeOK, ServiceAssumption

LEMMA StepServes ==
    ASSUME ServiceAssumption, IInv, [Next]_vars
    PROVE  Served
<1>0. TypeOK /\ Accounting
  BY DEF IInv
<1>1. CASE UNCHANGED vars \/ Shutdown
  BY <1>0, <1>1, SameServed DEF vars, reqvars, Shutdown
<1>2. ASSUME NEW w \in Workers, CountDown(w)
      PROVE  Served
  <2>1. PICK s \in todo[w], N \in SUBSET Requests :
            /\ Creates(N)
            /\ \A r \in Requests \ N : r # s[1] => req'[r] = req[r]
            /\ s[1] \notin N
            /\ req'[s[1]].answers = IF req'[s[1]].counter = 0 THEN 1 ELSE 0
    BY <1>0, <1>2, CountDownFacts
  <2>2. s[1] \in Requests /\ s[1] \in 1 .. requestId /\ req[s[1]].answers = 0
    BY <1>0, <2>1, StillCounted
  <2>3. requestId \in Nat /\ requestId' \in requestId .. MaxRequests
    BY <1>0, <2>1 DEF Creates, TypeOK, ServiceAssumption
  <2>4. ASSUME NEW r \in N
        PROVE  req[r].answers = 0 /\ r <= requestId' /\ req'[r].answers \in {0, 1}
    <3>1. r \in Requests /\ r > requestId /\ r <= requestId'
      BY <2>1, <2>3 DEF Creates, Requests
    <3>2. req[r].answers = 0
      BY <1>0, <3>1 DEF Accounting, UnbornOpen, Unborn
    <3> QED BY <2>1, <3>1, <3>2 DEF Creates
  <2>5. \/ req'[s[1]].answers = 0
        \/ req'[s[1]].answers = 1 /\ s[1] <= requestId'
    BY <2>1, <2>2, <2>3
  <2> QED BY <2>1, <2>2, <2>3, <2>4, <2>5 DEF Served
<1>3. ASSUME NEW w \in Workers,
             \/ WorkerSleep(w) \/ NoticeMaintenance(w) \/ DrawBatch(w) \/ WorkerExit(w)
             \/ StoreHistory(w) \/ DropBatch(w) \/ AckMaintenance(w)
      PROVE  Served
  <2>1. UNCHANGED <<requestId, req>>
    BY <1>3 DEF WorkerSleep, NoticeMaintenance, DrawBatch, WorkerExit, StoreHistory,
                DropBatch, AckMaintenance, reqvars
  <2> QED BY <1>0, <2>1, SameServed
<1>4. ASSUME NEW c \in Clients, CallMultiple(c) \/ CallOne(c) \/ StartSecondLeg(c)
      PROVE  Served
  <2>1. \E N \in SUBSET Requests : Creates(N) /\ \A r \in Requests \ N : req'[r] = req[r]
    <3>1. CASE CallMultiple(c)
      BY <1>0, <3>1, CallMultipleFacts
    <3>2. CASE CallOne(c)
      BY <1>0, <3>2, CallOneFacts
    <3>3. CASE StartSecondLeg(c)
      <4>1. Len(args[c]) = 2
        BY <3>3 DEF StartSecondLeg, IInv, CallsMatch
      <4> QED BY <1>0, <3>3, <4>1, StartSecondLegFacts
    <3> QED BY <1>4, <3>1, <3>2, <3>3
  <2> QED BY <1>0, <2>1, CreatedServed
<1>5. ASSUME NEW c \in Clients,
             \/ Drain(c) \/ (\E m \in Models : Release(c, m)) \/ EnqueueRequests(c)
             \/ Return(c) \/ EnqueueRequest(c) \/ StartMaintenance(c) \/ AwaitAcks(c)
             \/ Observe(c)
      PROVE  Served
  <2>1. UNCHANGED <<requestId, req>>
    BY <1>5 DEF Drain, Release, EnqueueRequests, Return, EnqueueRequest, StartMaintenance,
                AwaitAcks, Observe, reqvars
  <2> QED BY <1>0, <2>1, SameServed
<1> QED BY <1>1, <1>2, <1>3, <1>4, <1>5 DEF Next, Work, Proceed, Begin

(* AsyncService implements the safety half of TranslationService: ids are  *)
(* given out in order, and a request is answered at most once, after it    *)
(* was created.                                                            *)
THEOREM KeepsThePromise == Spec => Abstract!Spec
<1> USE ServiceAssumption
<1>1. Init => Abstract!Init
  BY DEF Init, Abstract!Init, Unborn, Requests, Abstract!Requests
<1>2. ASSUME IInv, [Next]_vars
      PROVE  [Abstract!Next]_(Abstract!svars)
  <2>1. Served /\ TypeOK /\ TypeOK'
    BY <1>2, StepServes, InvariantStep DEF IInv
  <2>2. requestId \in Nat /\ MaxRequests \in Nat /\ requestId' \in requestId .. MaxRequests
    BY <2>1 DEF Served, TypeOK, ServiceAssumption
  <2>3. PICK n \in 0 .. MaxRequests : requestId' = requestId + n
    <3>1. PICK id \in requestId .. MaxRequests : id = requestId'
      BY <2>2
    <3>2. id - requestId \in 0 .. MaxRequests /\ id = requestId + (id - requestId)
      BY <2>2
    <3> QED BY <3>1, <3>2
  <2>4. PICK done \in SUBSET Requests :
            \A r \in Requests : r \in done <=> req[r].answers = 0 /\ req'[r].answers = 1
    <3>1. {r \in Requests : req[r].answers = 0 /\ req'[r].answers = 1} \in SUBSET Requests
      OBVIOUS
    <3> QED BY <3>1
  <2>5. \A r \in Requests :
            req'[r].answers = IF r \in done THEN 1 ELSE req[r].answers
    BY <2>1, <2>4 DEF Served
  <2>6. \A r \in done : r \in Requests /\ r \in 1 .. requestId' /\ req[r].answers = 0
    <3> TAKE r \in done
    <3>1. r \in Requests /\ r \in Nat /\ r >= 1
      BY DEF Requests
    <3>2. req[r].answers = 0 /\ req'[r].answers = 1
      BY <2>4, <3>1
    <3>3. r <= requestId'
      BY <2>1, <3>1, <3>2 DEF Served
    <3> QED BY <2>2, <3>1, <3>2, <3>3
  <2>7. Abstract!Requests = Requests
    BY DEF Abstract!Requests, Requests
  <2>8. done \subseteq {r \in 1 .. requestId' : [x \in Requests |-> req[x].answers][r] = 0}
    BY <2>6
  <2>9. [r \in Requests |-> req'[r].answers] =
            [r \in Requests |->
                IF r \in done THEN 1 ELSE [x \in Requests |-> req[x].answers][r]]
    BY <2>5
  <2>10. requestId' <= MaxRequests
    BY <2>2
  <2>11. Abstract!Serve(n, done)
    BY <2>3, <2>7, <2>8, <2>9, <2>10 DEF Abstract!Serve
  <2> QED BY <2>7, <2>11 DEF Abstract!Next
<1> QED BY <1>1, <1>2, Invariance, PTL DEF Spec, Abstract!Spec
=============================================================================
