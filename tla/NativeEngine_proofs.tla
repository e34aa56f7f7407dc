------------------------- MODULE NativeEngine_proofs ------------------------
(***************************************************************************)
(* Theorems about NativeEngine, for any calls, models, directories,        *)
(* clients and unconfirmed releases.                                       *)
(*                                                                         *)
(* The argument: at every step of the engine thread a directory is         *)
(* reserved once for each model that is resident, being loaded or being    *)
(* released (Reserved), and once for each unconfirmed release (Counting);  *)
(* native memory holds one instance for each of those that loaded (Lives); *)
(* so what an instance reads from cannot be deleted (Kept).  The close     *)
(* task runs when no call is left, so it drops none (Phases).              *)
(***************************************************************************)
EXTENDS NativeEngine, FiniteSetTheorems, SequenceTheorems, TLAPS

Calling == {"acquire", "load", "infer", "finally"}
Releasing == {"release", "unreserve"}

(* The engine thread and its task.                                         *)
Control ==
    /\ task = "none" <=> at = "none"
    /\ task = "none" => leg = 1
    /\ at \in Calling => /\ task \in Calls
                         /\ want[task] # <<>>
                         /\ leg <= Len(want[task])
    /\ task \in Calls => call[task] = "running" /\ at \in Calling \cup Releasing
    /\ task = "sweep" => at \in Releasing
    /\ task = "close" => phase = "closing" /\ at \in Releasing \cup {"destroy", "settle"}
    /\ at \notin Releasing => letGo = {}
    /\ at = "unreserve" => released # <<>>

(* What a client finds that gets the lease.                                *)
Clean ==
    /\ ~service /\ models = {} /\ unconfirmed = <<>> /\ tracked = {} /\ ~pending
    /\ \A m \in Models : live[m] = 0
    /\ \A d \in Directories : counts[d] = 0

Phases ==
    /\ phase \in {"closing", "none"} => \A c \in Calls : call[c] = "none"
    /\ phase = "none" => task = "none" /\ queue = <<>> /\ Clean
    /\ \A i \in DOMAIN queue : queue[i] = "close" => phase = "closing"

(* Handles, and the models a call has got so far.                          *)
Residence ==
    /\ models # {} => service
    /\ letGo \subseteq models
    /\ at = "unreserve" => /\ released[1] \notin letGo
                           /\ task = "sweep" => released[1] \notin models
    /\ at = "load" => want[task][leg] \notin models
    /\ at \in {"acquire", "load"} => \A i \in 1 .. leg - 1 : want[task][i] \in models
    /\ at = "infer" => \A i \in DOMAIN want[task] : want[task][i] \in models
    /\ at \in {"destroy", "settle"} => models = {} /\ tracked = {} /\ ~pending
    /\ at = "settle" => ~service /\ \A m \in Models : live[m] = 0

(* Where nothing has been loaded since the last task.                      *)
Fresh == task = "none" \/ (at \in {"acquire", "load"} /\ leg = 1)

Booked ==
    /\ retention = "timed" =>
          /\ Fresh /\ models # {} => pending
          /\ at \in Calling \cup {"none"} => models \subseteq tracked
          /\ task = "sweep" => models \subseteq tracked \cup letGo
    /\ retention = "none" => /\ Fresh => models = {}
                             /\ ~pending /\ task # "sweep"

(* Models whose handle stands for an instance: releaseAll() keeps the      *)
(* handles of what it has released until its end.                          *)
Resident == IF at \in Releasing /\ task # "sweep" THEN letGo ELSE models

Reserved ==
    Resident \cup (IF at = "load" THEN {want[task][leg]} ELSE {})
             \cup (IF at = "unreserve" THEN {released[1]} ELSE {})

Reading(S, d) == {m \in S : d \in DirectoriesOf[m]}
Unconfirmed(d) == {i \in DOMAIN unconfirmed : d \in DirectoriesOf[unconfirmed[i]]}

Counting ==
    \A d \in Directories : counts[d] = Cardinality(Reading(Reserved, d)) + Cardinality(Unconfirmed(d))

Leftovers(m) == {i \in DOMAIN unconfirmed : unconfirmed[i] = m}

Lives ==
    at # "settle" =>
        \A m \in Models :
            live[m] = (IF m \in Resident \/ (at = "unreserve" /\ released = <<m, FALSE>>) THEN 1 ELSE 0)
                      + Cardinality(Leftovers(m))

Kept ==
    \A m \in Models :
        m \in Resident \/ (at = "unreserve" /\ m = released[1]) \/ Leftovers(m) # {}
            => OnDisk(m)

Ledger == Counting /\ Lives /\ Kept

IInv == TypeOK /\ Control /\ Phases /\ NoCallDropped /\ Residence /\ Booked /\ Ledger

CallOK ==
    /\ call \in [Calls -> {"none", "started", "entering", "queued", "running"}]
    /\ want \in [Calls -> Seq(Models)]
    /\ cancelled \in [Calls -> BOOLEAN]

(* What is counted is finite.                                              *)
LEMMA Finite ==
  ASSUME TypeOK
  PROVE  /\ \A d : IsFiniteSet(Unconfirmed(d)) /\ Cardinality(Unconfirmed(d)) \in Nat
         /\ \A m : IsFiniteSet(Leftovers(m)) /\ Cardinality(Leftovers(m)) \in Nat
         /\ \A S \in SUBSET Models : IsFiniteSet(S) /\ Cardinality(S) \in Nat
<1>1. IsFiniteSet(DOMAIN unconfirmed)
  BY FS_Interval DEF TypeOK
<1>2. \A d : Unconfirmed(d) \in SUBSET DOMAIN unconfirmed
  BY DEF Unconfirmed
<1>3. \A m : Leftovers(m) \in SUBSET DOMAIN unconfirmed
  BY DEF Leftovers
<1>4. QED
  BY <1>1, <1>2, <1>3, EngineAssumption, FS_Subset, FS_CardinalityType

(* The end of a call keeps the types.                                      *)
LEMMA Ended ==
  ASSUME TypeOK, NEW t, End(t)
  PROVE  CallOK'
<1>1. want' \in [Calls -> Seq(Models)]
  <2>1. <<>> \in Seq(Models)
    OBVIOUS
  <2>2. QED
    BY <2>1 DEF End, TypeOK
<1>2. QED
  BY <1>1 DEF End, TypeOK, CallOK

(* Where a task ends or goes on, the types are kept.                       *)
LEMMA Gone ==
  ASSUME TypeOK, Finish \/ (\E p \in Calling \cup Releasing \cup {"destroy", "settle"} : Goto(p))
  PROVE  /\ CallOK' /\ task' \in Calls \cup {"none", "close", "sweep"}
         /\ at' \in Calling \cup Releasing \cup {"destroy", "settle", "none"}
         /\ Finish => leg' = 1
<1>1. CASE Finish
  BY <1>1, Ended DEF Finish, TypeOK
<1>2. CASE \E p \in Calling \cup Releasing \cup {"destroy", "settle"} : Goto(p)
  BY <1>2 DEF Goto, Finish, TypeOK, CallOK, callvars, Calling, Releasing
<1>3. QED
  BY <1>1, <1>2 DEF Finish

LEMMA WantedTyped ==
  ASSUME TypeOK, Control, at \in {"acquire", "load"}
  PROVE  Wanted \in Models /\ want[task] \in Seq(Models) /\ task \in Calls
BY DEF TypeOK, Control, Calling, Wanted

(* Counts stay natural numbers.                                            *)
LEMMA CountsTyped ==
  ASSUME TypeOK, NEW m
  PROVE  /\ Reserve(counts, m) \in [Directories -> Nat]
         /\ Unreserve(counts, m) \in [Directories -> Nat]
BY DEF TypeOK, Reserve, Unreserve

(* The type of what no call owns.                                          *)
RestOK ==
    /\ clients \in 0 .. MaxClients
    /\ phase \in {"none", "open", "joining", "closing"}
    /\ retention \in {"never", "none", "timed"}
    /\ queue \in Seq(Calls \cup {"close"})
    /\ letGo \in SUBSET Models
    /\ released \in {<<>>} \cup (Models \X BOOLEAN)
    /\ service \in BOOLEAN
    /\ models \in SUBSET Models
    /\ unconfirmed \in Seq(Models)
    /\ tracked \in SUBSET Models
    /\ pending \in BOOLEAN
    /\ counts \in [Directories -> Nat]
    /\ disk \in SUBSET Directories
    /\ live \in [Models -> Nat]

(* When the service is gone only unconfirmed releases hold reservations.   *)
LEMMA Emptied ==
  ASSUME IInv, at = "settle"
  PROVE  [d \in Directories |-> counts[d] - Reservations(d)] = [d \in Directories |-> 0]
<1>1. \A d \in Directories : Reading(Reserved, d) = {}
  BY DEF IInv, Residence, Reading, Reserved, Resident, Releasing
<1>2. \A d \in Directories : counts[d] = 0 + Reservations(d)
  BY <1>1, FS_EmptySet DEF IInv, Ledger, Counting, Unconfirmed, Reservations
<1>3. \A d \in Directories : Reservations(d) \in Nat
  BY Finite DEF IInv, Unconfirmed, Reservations
<1>4. \A d \in Directories : counts[d] - Reservations(d) = 0
  BY <1>2, <1>3 DEF IInv, TypeOK
<1>5. QED
  BY <1>4

(* Every step keeps the types.                                             *)
LEMMA TypeOKStep ==
  ASSUME IInv, Next
  PROVE  TypeOK'
<1> USE EngineAssumption DEF IInv
<1>1. ASSUME Create PROVE TypeOK'
  BY <1>1 DEF TypeOK, Control, Calling, Releasing, Create, callvars, threadvars, sweepvars, modelvars
<1>2. ASSUME NEW c \in Calls, Run(c) PROVE TypeOK'
  BY <1>2 DEF TypeOK, Control, Calling, Releasing, Run, Injection, IsInjective, callvars, threadvars, sweepvars, modelvars
<1>3. ASSUME NEW c \in Calls, Cancel(c) PROVE TypeOK'
  BY <1>3 DEF TypeOK, Control, Calling, Releasing, Cancel, callvars, threadvars, sweepvars, modelvars
<1>4. ASSUME NEW c \in Calls, Enter(c) PROVE TypeOK'
  <2>1. CASE cancelled[c]
    BY <1>4, <2>1, Ended DEF Enter, TypeOK, CallOK, threadvars, sweepvars, modelvars
  <2>2. CASE ~cancelled[c]
    <3>1. /\ call' = [call EXCEPT ![c] = "entering"] /\ UNCHANGED <<want, cancelled>>
          /\ UNCHANGED <<clients, phase, retention, queue, threadvars, sweepvars, modelvars, counts, disk>>
      BY <1>4, <2>2 DEF Enter
    <3>2. QED
      BY <3>1 DEF TypeOK, threadvars, sweepvars, modelvars
  <2>3. QED
    BY <2>1, <2>2
<1>5. ASSUME NEW c \in Calls, Dispatch(c) PROVE TypeOK'
  BY <1>5 DEF TypeOK, Control, Calling, Releasing, Dispatch, callvars, threadvars, sweepvars, modelvars
<1>6. ASSUME Shutdown PROVE TypeOK'
  BY <1>6 DEF TypeOK, Control, Calling, Releasing, Shutdown, callvars, threadvars, sweepvars, modelvars
<1>7. ASSUME CloseBackend PROVE TypeOK'
  BY <1>7 DEF TypeOK, Control, Calling, Releasing, CloseBackend, Joined, callvars, threadvars, sweepvars, modelvars
<1>8. ASSUME NEW d \in Directories, Delete(d) PROVE TypeOK'
  BY <1>8 DEF TypeOK, Control, Calling, Releasing, Delete, IsActive, callvars, threadvars, sweepvars, modelvars
<1>9. ASSUME NEW d \in Directories, Publish(d) PROVE TypeOK'
  BY <1>9 DEF TypeOK, Control, Calling, Releasing, Publish, callvars, threadvars, sweepvars, modelvars
<1>10. ASSUME StartCall PROVE TypeOK'
  <2> DEFINE c == Head(queue)
  <2>1. c \in Calls /\ queue' = Tail(queue) /\ queue' \in Seq(Calls \cup {"close"})
        /\ UNCHANGED <<clients, phase, retention, leg, released, sweepvars, modelvars, counts, disk>>
    BY <1>10 DEF StartCall, TypeOK
  <2>2. CASE End(c) /\ UNCHANGED <<task, at, letGo>>
    BY <2>1, <2>2, Ended DEF TypeOK, CallOK, sweepvars, modelvars
  <2>3. CASE /\ call' = [call EXCEPT ![c] = "running"]
             /\ UNCHANGED <<want, cancelled>>
             /\ task' = c
             /\ at' = IF want[c] = <<>> THEN "release" ELSE "acquire"
             /\ letGo' = IF want[c] = <<>> THEN models ELSE {}
    BY <2>1, <2>3 DEF TypeOK, sweepvars, modelvars
  <2>4. QED
    BY <1>10, <2>2, <2>3 DEF StartCall
<1>11. ASSUME StartClose PROVE TypeOK'
  BY <1>11 DEF TypeOK, Control, Calling, Releasing, StartClose, callvars, threadvars, sweepvars, modelvars
<1>12. ASSUME StartSweep PROVE TypeOK'
  BY <1>12 DEF TypeOK, Control, Calling, Releasing, StartSweep, Left, callvars, threadvars, sweepvars, modelvars
<1>13. ASSUME Acquire PROVE TypeOK'
  <2>1. Wanted \in Models
    BY <1>13, WantedTyped DEF Acquire
  <2>2. (Finish \/ \E p \in Calling \cup Releasing \cup {"destroy", "settle"} : Goto(p))
    BY <1>13 DEF Acquire, GiveUp, Proceed, Calling, Releasing
  <2>3. leg' \in Nat \ {0}
    BY <1>13 DEF Acquire, GiveUp, Proceed, Finish, TypeOK, Control, Calling
  <2>4. RestOK'
    BY <1>13, <2>1, CountsTyped DEF Acquire, GiveUp, Proceed, RestOK, TypeOK, modelvars
  <2>5. QED
    BY <2>2, <2>3, <2>4, Gone DEF TypeOK, RestOK, CallOK, Calling, Releasing
<1>14. ASSUME Load PROVE TypeOK'
  <2>1. Wanted \in Models
    BY <1>14, WantedTyped DEF Load
  <2>2. (Finish \/ \E p \in Calling \cup Releasing \cup {"destroy", "settle"} : Goto(p))
    BY <1>14 DEF Load, Proceed, Calling, Releasing
  <2>3. leg' \in Nat \ {0}
    BY <1>14 DEF Load, Proceed, TypeOK, Control, Calling
  <2>4. RestOK'
    BY <1>14, <2>1 DEF Load, Proceed, RestOK, TypeOK, modelvars
  <2>5. QED
    BY <2>2, <2>3, <2>4, Gone DEF TypeOK, RestOK, CallOK, Calling, Releasing
<1>15. ASSUME LoadFails PROVE TypeOK'
  <2>1. Wanted \in Models
    BY <1>15, WantedTyped DEF LoadFails
  <2>2. (Finish \/ \E p \in Calling \cup Releasing \cup {"destroy", "settle"} : Goto(p))
    BY <1>15 DEF LoadFails, GiveUp, Calling, Releasing
  <2>3. leg' \in Nat \ {0}
    BY <1>15 DEF LoadFails, GiveUp, Finish, TypeOK
  <2>4. RestOK'
    BY <1>15, <2>1, CountsTyped DEF LoadFails, Undo, RestOK, TypeOK, sweepvars
  <2>5. QED
    BY <2>2, <2>3, <2>4, Gone DEF TypeOK, RestOK, CallOK, Calling, Releasing
<1>16. ASSUME Infer PROVE TypeOK'
  BY <1>16 DEF TypeOK, Control, Calling, Releasing, Infer, Goto, callvars, threadvars, sweepvars, modelvars
<1>17. ASSUME Finally PROVE TypeOK'
  <2>1. (Finish \/ \E p \in Calling \cup Releasing \cup {"destroy", "settle"} : Goto(p))
    BY <1>17 DEF Finally, Calling, Releasing
  <2>2. leg' \in Nat \ {0}
    BY <1>17 DEF Finally, Finish, TypeOK
  <2>3. Range(want[task]) \subseteq Models
    BY <1>17 DEF Finally, TypeOK, Control, Calling, Range
  <2>4. RestOK'
    BY <1>17, <2>3 DEF Finally, Rearm, RestOK, TypeOK, sweepvars, modelvars
  <2>5. QED
    BY <2>1, <2>2, <2>4, Gone DEF TypeOK, RestOK, CallOK, Calling, Releasing
<1>18. ASSUME Release PROVE TypeOK'
  <2>1. at' = "unreserve" /\ UNCHANGED <<task, callvars>>
    BY <1>18 DEF Release, Goto
  <2>2. PICK m \in letGo, destroyed \in BOOLEAN :
            /\ live' = IF destroyed THEN [live EXCEPT ![m] = @ - 1] ELSE live
            /\ released' = <<m, destroyed>>
            /\ letGo' = letGo \ {m}
            /\ models' = DropHandle(m)
    BY <1>18 DEF Release
  <2>3. m \in Models /\ live[m] - 1 \in Nat
    <3>1. m \in Models /\ m \in Resident /\ at # "settle" /\ live[m] \in Nat
      BY <1>18, <2>2 DEF Release, Resident, Residence, TypeOK
    <3>2. live[m] = 1 + Cardinality(Leftovers(m))
      BY <3>1 DEF Ledger, Lives
    <3>3. QED
      BY <3>1, <3>2, Finite
  <2>4. QED
    BY <1>18, <2>1, <2>2, <2>3 DEF Release, DropHandle, TypeOK, callvars, sweepvars
<1>19. ASSUME Settle PROVE TypeOK'
  <2>1. at' = "release" /\ UNCHANGED <<task, callvars>>
    BY <1>19 DEF Settle, Goto
  <2>2. released[1] \in Models
    BY <1>19 DEF Settle, Control, TypeOK
  <2>3. unconfirmed' \in Seq(Models) /\ counts' \in [Directories -> Nat]
    <3>1. CASE released[2]
      BY <1>19, <2>2, <3>1, CountsTyped DEF Settle, TypeOK
    <3>2. CASE ~released[2]
      <4>1. unconfirmed' = Append(unconfirmed, released[1]) /\ counts' = counts
        BY <1>19, <3>2 DEF Settle
      <4>2. QED
        BY <4>1, <2>2 DEF TypeOK
    <3>3. QED
      BY <3>1, <3>2
  <2>4. QED
    BY <1>19, <2>1, <2>3 DEF Settle, TypeOK, callvars, sweepvars
<1>20. ASSUME Released PROVE TypeOK'
  <2>1. (Finish \/ \E p \in Calling \cup Releasing \cup {"destroy", "settle"} : Goto(p))
    BY <1>20 DEF Released
  <2>2. leg' \in Nat \ {0}
    BY <1>20 DEF Released, Finish, TypeOK
  <2>3. RestOK'
    BY <1>20 DEF Released, Rearm, RestOK, TypeOK
  <2>4. QED
    BY <2>1, <2>2, <2>3, Gone DEF TypeOK, RestOK, CallOK, Calling, Releasing
<1>21. ASSUME Destroy PROVE TypeOK'
  BY <1>21 DEF TypeOK, Control, Calling, Releasing, Destroy, Goto, callvars, threadvars, sweepvars, modelvars
<1>22. ASSUME Terminate PROVE TypeOK'
  <2>1. counts' = [d \in Directories |-> 0]
    BY <1>22, Emptied DEF Terminate
  <2>2. <<>> \in Seq(Models) /\ <<>> \in Seq(Calls \cup {"close"})
    OBVIOUS
  <2>3. RestOK'
    BY <1>22, <2>1, <2>2 DEF Terminate, RestOK, TypeOK, sweepvars
  <2>4. QED
    BY <1>22, <2>3, Gone DEF Terminate, TypeOK, RestOK, CallOK, Calling, Releasing
<1>23. QED
  BY <1>1, <1>2, <1>3, <1>4, <1>5, <1>6, <1>7, <1>8, <1>9,
     <1>10, <1>11, <1>12, <1>13, <1>14, <1>15, <1>16, <1>17, <1>18,
     <1>19, <1>20, <1>21, <1>22 DEF Next, Engine

(* Every step keeps the engine thread in order.                            *)
LEMMA ControlStep ==
  ASSUME IInv, Next
  PROVE  Control'
<1> USE EngineAssumption DEF IInv
<1>1. ASSUME Create PROVE Control'
  BY <1>1 DEF TypeOK, Control, Phases, Calling, Releasing, Create, callvars, threadvars, sweepvars, modelvars
<1>2. ASSUME NEW c \in Calls, Run(c) PROVE Control'
  BY <1>2 DEF TypeOK, Control, Phases, Calling, Releasing, Run, Injection, IsInjective, callvars, threadvars, sweepvars, modelvars
<1>3. ASSUME NEW c \in Calls, Cancel(c) PROVE Control'
  BY <1>3 DEF TypeOK, Control, Phases, Calling, Releasing, Cancel, callvars, threadvars, sweepvars, modelvars
<1>4. ASSUME NEW c \in Calls, Enter(c) PROVE Control'
  BY <1>4 DEF TypeOK, Control, Phases, Calling, Releasing, Enter, End, callvars, threadvars, sweepvars, modelvars
<1>5. ASSUME NEW c \in Calls, Dispatch(c) PROVE Control'
  BY <1>5 DEF TypeOK, Control, Phases, Calling, Releasing, Dispatch, callvars, threadvars, sweepvars, modelvars
<1>6. ASSUME Shutdown PROVE Control'
  BY <1>6 DEF TypeOK, Control, Phases, Calling, Releasing, Shutdown, callvars, threadvars, sweepvars, modelvars
<1>7. ASSUME CloseBackend PROVE Control'
  BY <1>7 DEF TypeOK, Control, Phases, Calling, Releasing, CloseBackend, Joined, callvars, threadvars, sweepvars, modelvars
<1>8. ASSUME NEW d \in Directories, Delete(d) PROVE Control'
  BY <1>8 DEF TypeOK, Control, Phases, Calling, Releasing, Delete, IsActive, callvars, threadvars, sweepvars, modelvars
<1>9. ASSUME NEW d \in Directories, Publish(d) PROVE Control'
  BY <1>9 DEF TypeOK, Control, Phases, Calling, Releasing, Publish, callvars, threadvars, sweepvars, modelvars
<1>10. ASSUME StartCall PROVE Control'
  BY <1>10 DEF TypeOK, Control, Phases, Calling, Releasing, StartCall, End, Closing, callvars, threadvars, sweepvars, modelvars
<1>11. ASSUME StartClose PROVE Control'
  BY <1>11 DEF TypeOK, Control, Phases, Calling, Releasing, StartClose, callvars, threadvars, sweepvars, modelvars
<1>12. ASSUME StartSweep PROVE Control'
  BY <1>12 DEF TypeOK, Control, Phases, Calling, Releasing, StartSweep, Left, callvars, threadvars, sweepvars, modelvars
<1>13. ASSUME Acquire PROVE Control'
  BY <1>13 DEF TypeOK, Control, Phases, Calling, Releasing, Acquire, Wanted, GiveUp, Proceed, Finish, Goto, End, Reserve, callvars, threadvars, sweepvars, modelvars
<1>14. ASSUME Load PROVE Control'
  BY <1>14 DEF TypeOK, Control, Phases, Calling, Releasing, Load, Wanted, Proceed, Goto, callvars, threadvars, sweepvars, modelvars
<1>15. ASSUME LoadFails PROVE Control'
  BY <1>15 DEF TypeOK, Control, Phases, Calling, Releasing, LoadFails, Undo, Unreserve, Wanted, GiveUp, Finish, Goto, End, callvars, threadvars, sweepvars, modelvars
<1>16. ASSUME Infer PROVE Control'
  BY <1>16 DEF TypeOK, Control, Phases, Calling, Releasing, Infer, Goto, callvars, threadvars, sweepvars, modelvars
<1>17. ASSUME Finally PROVE Control'
  BY <1>17 DEF TypeOK, Control, Phases, Calling, Releasing, Finally, Goto, Finish, End, Rearm, Range, callvars, threadvars, sweepvars, modelvars
<1>18. ASSUME Release PROVE Control'
  BY <1>18 DEF TypeOK, Control, Phases, Calling, Releasing, Release, DropHandle, Goto, callvars, threadvars, sweepvars, modelvars
<1>19. ASSUME Settle PROVE Control'
  BY <1>19 DEF TypeOK, Control, Phases, Calling, Releasing, Settle, Unreserve, Goto, callvars, threadvars, sweepvars, modelvars
<1>20. ASSUME Released PROVE Control'
  BY <1>20 DEF TypeOK, Control, Phases, Calling, Releasing, Released, Rearm, Goto, Finish, End, callvars, threadvars, sweepvars, modelvars
<1>21. ASSUME Destroy PROVE Control'
  BY <1>21 DEF TypeOK, Control, Phases, Calling, Releasing, Destroy, Goto, callvars, threadvars, sweepvars, modelvars
<1>22. ASSUME Terminate PROVE Control'
  BY <1>22 DEF TypeOK, Control, Phases, Calling, Releasing, Terminate, Finish, End, callvars, threadvars, sweepvars, modelvars
<1>23. QED
  BY <1>1, <1>2, <1>3, <1>4, <1>5, <1>6, <1>7, <1>8, <1>9,
     <1>10, <1>11, <1>12, <1>13, <1>14, <1>15, <1>16, <1>17, <1>18,
     <1>19, <1>20, <1>21, <1>22 DEF Next, Engine

(* Every step keeps what the phases promise.                               *)
LEMMA PhasesStep ==
  ASSUME IInv, Next
  PROVE  Phases'
<1> USE EngineAssumption DEF IInv
<1>1. ASSUME Create PROVE Phases'
  BY <1>1 DEF TypeOK, Control, Phases, Residence, Clean, Calling, Releasing, Create, callvars, threadvars, sweepvars, modelvars
<1>2. ASSUME NEW c \in Calls, Run(c) PROVE Phases'
  BY <1>2 DEF TypeOK, Control, Phases, Residence, Clean, Calling, Releasing, Run, Injection, IsInjective, callvars, threadvars, sweepvars, modelvars
<1>3. ASSUME NEW c \in Calls, Cancel(c) PROVE Phases'
  BY <1>3 DEF TypeOK, Control, Phases, Residence, Clean, Calling, Releasing, Cancel, callvars, threadvars, sweepvars, modelvars
<1>4. ASSUME NEW c \in Calls, Enter(c) PROVE Phases'
  BY <1>4 DEF TypeOK, Control, Phases, Residence, Clean, Calling, Releasing, Enter, End, callvars, threadvars, sweepvars, modelvars
<1>5. ASSUME NEW c \in Calls, Dispatch(c) PROVE Phases'
  BY <1>5 DEF TypeOK, Control, Phases, Residence, Clean, Calling, Releasing, Dispatch, callvars, threadvars, sweepvars, modelvars
<1>6. ASSUME Shutdown PROVE Phases'
  BY <1>6 DEF TypeOK, Control, Phases, Residence, Clean, Calling, Releasing, Shutdown, callvars, threadvars, sweepvars, modelvars
<1>7. ASSUME CloseBackend PROVE Phases'
  BY <1>7 DEF TypeOK, Control, Phases, Residence, Clean, Calling, Releasing, CloseBackend, Joined, callvars, threadvars, sweepvars, modelvars
<1>8. ASSUME NEW d \in Directories, Delete(d) PROVE Phases'
  BY <1>8 DEF TypeOK, Control, Phases, Residence, Clean, Calling, Releasing, Delete, IsActive, callvars, threadvars, sweepvars, modelvars
<1>9. ASSUME NEW d \in Directories, Publish(d) PROVE Phases'
  BY <1>9 DEF TypeOK, Control, Phases, Residence, Clean, Calling, Releasing, Publish, callvars, threadvars, sweepvars, modelvars
<1>10. ASSUME StartCall PROVE Phases'
  BY <1>10 DEF TypeOK, Control, Phases, Residence, Clean, Calling, Releasing, StartCall, End, Closing, callvars, threadvars, sweepvars, modelvars
<1>11. ASSUME StartClose PROVE Phases'
  BY <1>11 DEF TypeOK, Control, Phases, Residence, Clean, Calling, Releasing, StartClose, callvars, threadvars, sweepvars, modelvars
<1>12. ASSUME StartSweep PROVE Phases'
  BY <1>12 DEF TypeOK, Control, Phases, Residence, Clean, Calling, Releasing, StartSweep, Left, callvars, threadvars, sweepvars, modelvars
<1>13. ASSUME Acquire PROVE Phases'
  BY <1>13 DEF TypeOK, Control, Phases, Residence, Clean, Calling, Releasing, Acquire, Wanted, GiveUp, Proceed, Finish, Goto, End, Reserve, callvars, threadvars, sweepvars, modelvars
<1>14. ASSUME Load PROVE Phases'
  BY <1>14 DEF TypeOK, Control, Phases, Residence, Clean, Calling, Releasing, Load, Wanted, Proceed, Goto, callvars, threadvars, sweepvars, modelvars
<1>15. ASSUME LoadFails PROVE Phases'
  BY <1>15 DEF TypeOK, Control, Phases, Residence, Clean, Calling, Releasing, LoadFails, Undo, Unreserve, Wanted, GiveUp, Finish, Goto, End, callvars, threadvars, sweepvars, modelvars
<1>16. ASSUME Infer PROVE Phases'
  BY <1>16 DEF TypeOK, Control, Phases, Residence, Clean, Calling, Releasing, Infer, Goto, callvars, threadvars, sweepvars, modelvars
<1>17. ASSUME Finally PROVE Phases'
  BY <1>17 DEF TypeOK, Control, Phases, Residence, Clean, Calling, Releasing, Finally, Goto, Finish, End, Rearm, Range, callvars, threadvars, sweepvars, modelvars
<1>18. ASSUME Release PROVE Phases'
  BY <1>18 DEF TypeOK, Control, Phases, Residence, Clean, Calling, Releasing, Release, DropHandle, Goto, callvars, threadvars, sweepvars, modelvars
<1>19. ASSUME Settle PROVE Phases'
  BY <1>19 DEF TypeOK, Control, Phases, Residence, Clean, Calling, Releasing, Settle, Unreserve, Goto, callvars, threadvars, sweepvars, modelvars
<1>20. ASSUME Released PROVE Phases'
  BY <1>20 DEF TypeOK, Control, Phases, Residence, Clean, Calling, Releasing, Released, Rearm, Goto, Finish, End, callvars, threadvars, sweepvars, modelvars
<1>21. ASSUME Destroy PROVE Phases'
  BY <1>21 DEF TypeOK, Control, Phases, Residence, Clean, Calling, Releasing, Destroy, Goto, callvars, threadvars, sweepvars, modelvars
<1>22. ASSUME Terminate PROVE Phases'
  <2>1. counts' = [d \in Directories |-> 0]
    BY <1>22, Emptied DEF Terminate
  <2>2. /\ phase = "closing" /\ phase' = "none" /\ task' = "none" /\ queue' = <<>> /\ unconfirmed' = <<>>
        /\ UNCHANGED <<sweepvars, service, models, live>>
    BY <1>22 DEF Terminate, Finish, Control, TypeOK, Calling, Releasing
  <2>3. \A c \in Calls : call'[c] = "none"
    BY <1>22, <2>2 DEF Terminate, Finish, End, Phases, TypeOK
  <2>4. Clean'
    BY <1>22, <2>1, <2>2 DEF Terminate, Clean, Residence, sweepvars
  <2>5. QED
    BY <2>2, <2>3, <2>4 DEF Phases
<1>23. QED
  BY <1>1, <1>2, <1>3, <1>4, <1>5, <1>6, <1>7, <1>8, <1>9,
     <1>10, <1>11, <1>12, <1>13, <1>14, <1>15, <1>16, <1>17, <1>18,
     <1>19, <1>20, <1>21, <1>22 DEF Next, Engine

(* No step loses a queued call.                                            *)
LEMMA NoCallDroppedStep ==
  ASSUME IInv, Next
  PROVE  NoCallDropped'
<1> USE EngineAssumption DEF IInv
<1>1. ASSUME Create PROVE NoCallDropped'
  BY <1>1 DEF TypeOK, Control, Phases, NoCallDropped, Calling, Releasing, Create, callvars, threadvars, sweepvars, modelvars
<1>2. ASSUME NEW c \in Calls, Run(c) PROVE NoCallDropped'
  BY <1>2 DEF TypeOK, Control, Phases, NoCallDropped, Calling, Releasing, Run, Injection, IsInjective, callvars, threadvars, sweepvars, modelvars
<1>3. ASSUME NEW c \in Calls, Cancel(c) PROVE NoCallDropped'
  BY <1>3 DEF TypeOK, Control, Phases, NoCallDropped, Calling, Releasing, Cancel, callvars, threadvars, sweepvars, modelvars
<1>4. ASSUME NEW c \in Calls, Enter(c) PROVE NoCallDropped'
  <2>1. \A b \in Calls : call'[b] = "queued" => call[b] = "queued"
    BY <1>4 DEF Enter, End, TypeOK
  <2>2. queue' = queue
    BY <1>4 DEF Enter
  <2>3. QED
    BY <2>1, <2>2 DEF NoCallDropped
<1>5. ASSUME NEW c \in Calls, Dispatch(c) PROVE NoCallDropped'
  <2>1. /\ queue' = Append(queue, c) /\ Len(queue') = Len(queue) + 1
        /\ \A i \in DOMAIN queue : i \in DOMAIN queue' /\ queue'[i] = queue[i]
        /\ Len(queue') \in DOMAIN queue' /\ queue'[Len(queue')] = c
    BY <1>5 DEF Dispatch, TypeOK
  <2>2. SUFFICES ASSUME NEW b \in Calls, call'[b] = "queued"
                 PROVE  \E i \in DOMAIN queue' : queue'[i] = b
    BY DEF NoCallDropped
  <2>3. CASE b = c
    BY <2>1, <2>3
  <2>4. CASE b # c
    <3>1. PICK i \in DOMAIN queue : queue[i] = b
      BY <1>5, <2>2, <2>4 DEF Dispatch, NoCallDropped, TypeOK
    <3>2. QED
      BY <2>1, <3>1
  <2>5. QED
    BY <2>3, <2>4
<1>6. ASSUME Shutdown PROVE NoCallDropped'
  BY <1>6 DEF TypeOK, Control, Phases, NoCallDropped, Calling, Releasing, Shutdown, callvars, threadvars, sweepvars, modelvars
<1>7. ASSUME CloseBackend PROVE NoCallDropped'
  BY <1>7 DEF TypeOK, Control, Phases, NoCallDropped, Calling, Releasing, CloseBackend, Joined, callvars, threadvars, sweepvars, modelvars
<1>8. ASSUME NEW d \in Directories, Delete(d) PROVE NoCallDropped'
  BY <1>8 DEF TypeOK, Control, Phases, NoCallDropped, Calling, Releasing, Delete, IsActive, callvars, threadvars, sweepvars, modelvars
<1>9. ASSUME NEW d \in Directories, Publish(d) PROVE NoCallDropped'
  BY <1>9 DEF TypeOK, Control, Phases, NoCallDropped, Calling, Releasing, Publish, callvars, threadvars, sweepvars, modelvars
<1>10. ASSUME StartCall PROVE NoCallDropped'
  <2> DEFINE c == Head(queue)
  <2>1. /\ c = queue[1] /\ queue' = Tail(queue)
        /\ \A i \in DOMAIN queue : i # 1 => i - 1 \in DOMAIN queue' /\ queue'[i - 1] = queue[i]
    BY <1>10 DEF StartCall, TypeOK
  <2>2. \A b \in Calls : call'[b] = "queued" => b # c /\ call[b] = "queued"
    BY <1>10 DEF StartCall, End, TypeOK
  <2>3. SUFFICES ASSUME NEW b \in Calls, call'[b] = "queued"
                 PROVE  \E i \in DOMAIN queue' : queue'[i] = b
    BY DEF NoCallDropped
  <2>4. PICK i \in DOMAIN queue : queue[i] = b
    BY <2>2, <2>3 DEF NoCallDropped
  <2>5. i # 1
    BY <2>1, <2>2, <2>3, <2>4
  <2>6. QED
    BY <2>1, <2>4, <2>5
<1>11. ASSUME StartClose PROVE NoCallDropped'
  BY <1>11 DEF TypeOK, Control, Phases, NoCallDropped, Calling, Releasing, StartClose, callvars, threadvars, sweepvars, modelvars
<1>12. ASSUME StartSweep PROVE NoCallDropped'
  BY <1>12 DEF TypeOK, Control, Phases, NoCallDropped, Calling, Releasing, StartSweep, Left, callvars, threadvars, sweepvars, modelvars
<1>13. ASSUME Acquire PROVE NoCallDropped'
  BY <1>13 DEF TypeOK, Control, Phases, NoCallDropped, Calling, Releasing, Acquire, Wanted, GiveUp, Proceed, Finish, Goto, End, Reserve, callvars, threadvars, sweepvars, modelvars
<1>14. ASSUME Load PROVE NoCallDropped'
  BY <1>14 DEF TypeOK, Control, Phases, NoCallDropped, Calling, Releasing, Load, Wanted, Proceed, Goto, callvars, threadvars, sweepvars, modelvars
<1>15. ASSUME LoadFails PROVE NoCallDropped'
  BY <1>15 DEF TypeOK, Control, Phases, NoCallDropped, Calling, Releasing, LoadFails, Undo, Unreserve, Wanted, GiveUp, Finish, Goto, End, callvars, threadvars, sweepvars, modelvars
<1>16. ASSUME Infer PROVE NoCallDropped'
  BY <1>16 DEF TypeOK, Control, Phases, NoCallDropped, Calling, Releasing, Infer, Goto, callvars, threadvars, sweepvars, modelvars
<1>17. ASSUME Finally PROVE NoCallDropped'
  BY <1>17 DEF TypeOK, Control, Phases, NoCallDropped, Calling, Releasing, Finally, Goto, Finish, End, Rearm, Range, callvars, threadvars, sweepvars, modelvars
<1>18. ASSUME Release PROVE NoCallDropped'
  BY <1>18 DEF TypeOK, Control, Phases, NoCallDropped, Calling, Releasing, Release, DropHandle, Goto, callvars, threadvars, sweepvars, modelvars
<1>19. ASSUME Settle PROVE NoCallDropped'
  BY <1>19 DEF TypeOK, Control, Phases, NoCallDropped, Calling, Releasing, Settle, Unreserve, Goto, callvars, threadvars, sweepvars, modelvars
<1>20. ASSUME Released PROVE NoCallDropped'
  BY <1>20 DEF TypeOK, Control, Phases, NoCallDropped, Calling, Releasing, Released, Rearm, Goto, Finish, End, callvars, threadvars, sweepvars, modelvars
<1>21. ASSUME Destroy PROVE NoCallDropped'
  BY <1>21 DEF TypeOK, Control, Phases, NoCallDropped, Calling, Releasing, Destroy, Goto, callvars, threadvars, sweepvars, modelvars
<1>22. ASSUME Terminate PROVE NoCallDropped'
  BY <1>22 DEF TypeOK, Control, Phases, NoCallDropped, Calling, Releasing, Terminate, Finish, End, callvars, threadvars, sweepvars, modelvars
<1>23. QED
  BY <1>1, <1>2, <1>3, <1>4, <1>5, <1>6, <1>7, <1>8, <1>9,
     <1>10, <1>11, <1>12, <1>13, <1>14, <1>15, <1>16, <1>17, <1>18,
     <1>19, <1>20, <1>21, <1>22 DEF Next, Engine

(* Every step keeps handles in order.                                      *)
LEMMA ResidenceStep ==
  ASSUME IInv, Next
  PROVE  Residence'
<1> USE EngineAssumption DEF IInv
<1>1. ASSUME Create PROVE Residence'
  BY <1>1 DEF TypeOK, Control, Phases, Residence, Clean, Calling, Releasing, Create, callvars, threadvars, sweepvars, modelvars
<1>2. ASSUME NEW c \in Calls, Run(c) PROVE Residence'
  BY <1>2 DEF TypeOK, Control, Phases, Residence, Clean, Calling, Releasing, Run, Injection, IsInjective, callvars, threadvars, sweepvars, modelvars
<1>3. ASSUME NEW c \in Calls, Cancel(c) PROVE Residence'
  BY <1>3 DEF TypeOK, Control, Phases, Residence, Clean, Calling, Releasing, Cancel, callvars, threadvars, sweepvars, modelvars
<1>4. ASSUME NEW c \in Calls, Enter(c) PROVE Residence'
  <2>1. /\ call[c] = "started" /\ (\A b \in Calls : b # c => want'[b] = want[b])
        /\ UNCHANGED <<threadvars, modelvars, sweepvars>>
    BY <1>4 DEF Enter, End, TypeOK
  <2>2. at \in Calling => task # c /\ task \in Calls
    BY <2>1 DEF Control
  <2>3. at \in Calling => want'[task] = want[task]
    BY <2>1, <2>2
  <2>4. QED
    BY <2>1, <2>3 DEF Residence, threadvars, modelvars, sweepvars, Calling
<1>5. ASSUME NEW c \in Calls, Dispatch(c) PROVE Residence'
  BY <1>5 DEF TypeOK, Control, Phases, Residence, Clean, Calling, Releasing, Dispatch, callvars, threadvars, sweepvars, modelvars
<1>6. ASSUME Shutdown PROVE Residence'
  BY <1>6 DEF TypeOK, Control, Phases, Residence, Clean, Calling, Releasing, Shutdown, callvars, threadvars, sweepvars, modelvars
<1>7. ASSUME CloseBackend PROVE Residence'
  BY <1>7 DEF TypeOK, Control, Phases, Residence, Clean, Calling, Releasing, CloseBackend, Joined, callvars, threadvars, sweepvars, modelvars
<1>8. ASSUME NEW d \in Directories, Delete(d) PROVE Residence'
  BY <1>8 DEF TypeOK, Control, Phases, Residence, Clean, Calling, Releasing, Delete, IsActive, callvars, threadvars, sweepvars, modelvars
<1>9. ASSUME NEW d \in Directories, Publish(d) PROVE Residence'
  BY <1>9 DEF TypeOK, Control, Phases, Residence, Clean, Calling, Releasing, Publish, callvars, threadvars, sweepvars, modelvars
<1>10. ASSUME StartCall PROVE Residence'
  BY <1>10 DEF TypeOK, Control, Phases, Residence, Clean, Calling, Releasing, StartCall, End, Closing, callvars, threadvars, sweepvars, modelvars
<1>11. ASSUME StartClose PROVE Residence'
  BY <1>11 DEF TypeOK, Control, Phases, Residence, Clean, Calling, Releasing, StartClose, callvars, threadvars, sweepvars, modelvars
<1>12. ASSUME StartSweep PROVE Residence'
  BY <1>12 DEF TypeOK, Control, Phases, Residence, Clean, Calling, Releasing, StartSweep, Left, callvars, threadvars, sweepvars, modelvars
<1>13. ASSUME Acquire PROVE Residence'
  BY <1>13 DEF TypeOK, Control, Phases, Residence, Clean, Calling, Releasing, Acquire, Wanted, GiveUp, Proceed, Finish, Goto, End, Reserve, callvars, threadvars, sweepvars, modelvars
<1>14. ASSUME Load PROVE Residence'
  BY <1>14 DEF TypeOK, Control, Phases, Residence, Clean, Calling, Releasing, Load, Wanted, Proceed, Goto, callvars, threadvars, sweepvars, modelvars
<1>15. ASSUME LoadFails PROVE Residence'
  <2>1. UNCHANGED <<letGo, released, sweepvars, models>> /\ at = "load"
    BY <1>15 DEF LoadFails
  <2>0. service => service'
    BY <1>15 DEF LoadFails
  <2>2. at' \in {"none", "finally"} /\ letGo = {}
    BY <1>15 DEF LoadFails, GiveUp, Finish, Goto, Control, Releasing
  <2>3. QED
    BY <2>0, <2>1, <2>2 DEF Residence, sweepvars
<1>16. ASSUME Infer PROVE Residence'
  BY <1>16 DEF TypeOK, Control, Phases, Residence, Clean, Calling, Releasing, Infer, Goto, callvars, threadvars, sweepvars, modelvars
<1>17. ASSUME Finally PROVE Residence'
  BY <1>17 DEF TypeOK, Control, Phases, Residence, Clean, Calling, Releasing, Finally, Goto, Finish, End, Rearm, Range, callvars, threadvars, sweepvars, modelvars
<1>18. ASSUME Release PROVE Residence'
  BY <1>18 DEF TypeOK, Control, Phases, Residence, Clean, Calling, Releasing, Release, DropHandle, Goto, callvars, threadvars, sweepvars, modelvars
<1>19. ASSUME Settle PROVE Residence'
  BY <1>19 DEF TypeOK, Control, Phases, Residence, Clean, Calling, Releasing, Settle, Unreserve, Goto, callvars, threadvars, sweepvars, modelvars
<1>20. ASSUME Released PROVE Residence'
  BY <1>20 DEF TypeOK, Control, Phases, Residence, Clean, Calling, Releasing, Released, Rearm, Goto, Finish, End, callvars, threadvars, sweepvars, modelvars
<1>21. ASSUME Destroy PROVE Residence'
  BY <1>21 DEF TypeOK, Control, Phases, Residence, Clean, Calling, Releasing, Destroy, Goto, callvars, threadvars, sweepvars, modelvars
<1>22. ASSUME Terminate PROVE Residence'
  BY <1>22 DEF TypeOK, Control, Phases, Residence, Clean, Calling, Releasing, Terminate, Finish, End, callvars, threadvars, sweepvars, modelvars
<1>23. QED
  BY <1>1, <1>2, <1>3, <1>4, <1>5, <1>6, <1>7, <1>8, <1>9,
     <1>10, <1>11, <1>12, <1>13, <1>14, <1>15, <1>16, <1>17, <1>18,
     <1>19, <1>20, <1>21, <1>22 DEF Next, Engine

(* Every step keeps a sweep booked where one is needed.                    *)
LEMMA BookedStep ==
  ASSUME IInv, Next
  PROVE  Booked'
<1> USE EngineAssumption DEF IInv
<1>1. ASSUME Create PROVE Booked'
  BY <1>1 DEF TypeOK, Control, Phases, Residence, Booked, Fresh, Clean, Calling, Releasing, Create, callvars, threadvars, sweepvars, modelvars
<1>2. ASSUME NEW c \in Calls, Run(c) PROVE Booked'
  BY <1>2 DEF TypeOK, Control, Phases, Residence, Booked, Fresh, Clean, Calling, Releasing, Run, Injection, IsInjective, callvars, threadvars, sweepvars, modelvars
<1>3. ASSUME NEW c \in Calls, Cancel(c) PROVE Booked'
  BY <1>3 DEF TypeOK, Control, Phases, Residence, Booked, Fresh, Clean, Calling, Releasing, Cancel, callvars, threadvars, sweepvars, modelvars
<1>4. ASSUME NEW c \in Calls, Enter(c) PROVE Booked'
  BY <1>4 DEF TypeOK, Control, Phases, Residence, Booked, Fresh, Clean, Calling, Releasing, Enter, End, callvars, threadvars, sweepvars, modelvars
<1>5. ASSUME NEW c \in Calls, Dispatch(c) PROVE Booked'
  BY <1>5 DEF TypeOK, Control, Phases, Residence, Booked, Fresh, Clean, Calling, Releasing, Dispatch, callvars, threadvars, sweepvars, modelvars
<1>6. ASSUME Shutdown PROVE Booked'
  BY <1>6 DEF TypeOK, Control, Phases, Residence, Booked, Fresh, Clean, Calling, Releasing, Shutdown, callvars, threadvars, sweepvars, modelvars
<1>7. ASSUME CloseBackend PROVE Booked'
  BY <1>7 DEF TypeOK, Control, Phases, Residence, Booked, Fresh, Clean, Calling, Releasing, CloseBackend, Joined, callvars, threadvars, sweepvars, modelvars
<1>8. ASSUME NEW d \in Directories, Delete(d) PROVE Booked'
  BY <1>8 DEF TypeOK, Control, Phases, Residence, Booked, Fresh, Clean, Calling, Releasing, Delete, IsActive, callvars, threadvars, sweepvars, modelvars
<1>9. ASSUME NEW d \in Directories, Publish(d) PROVE Booked'
  BY <1>9 DEF TypeOK, Control, Phases, Residence, Booked, Fresh, Clean, Calling, Releasing, Publish, callvars, threadvars, sweepvars, modelvars
<1>10. ASSUME StartCall PROVE Booked'
  BY <1>10 DEF TypeOK, Control, Phases, Residence, Booked, Fresh, Clean, Calling, Releasing, StartCall, End, Closing, callvars, threadvars, sweepvars, modelvars
<1>11. ASSUME StartClose PROVE Booked'
  BY <1>11 DEF TypeOK, Control, Phases, Residence, Booked, Fresh, Clean, Calling, Releasing, StartClose, callvars, threadvars, sweepvars, modelvars
<1>12. ASSUME StartSweep PROVE Booked'
  BY <1>12 DEF TypeOK, Control, Phases, Residence, Booked, Fresh, Clean, Calling, Releasing, StartSweep, Left, callvars, threadvars, sweepvars, modelvars
<1>13. ASSUME Acquire PROVE Booked'
  BY <1>13 DEF TypeOK, Control, Phases, Residence, Booked, Fresh, Clean, Calling, Releasing, Acquire, Wanted, GiveUp, Proceed, Finish, Goto, End, Reserve, callvars, threadvars, sweepvars, modelvars
<1>14. ASSUME Load PROVE Booked'
  BY <1>14 DEF TypeOK, Control, Phases, Residence, Booked, Fresh, Clean, Calling, Releasing, Load, Wanted, Proceed, Goto, callvars, threadvars, sweepvars, modelvars
<1>15. ASSUME LoadFails PROVE Booked'
  BY <1>15 DEF TypeOK, Control, Phases, Residence, Booked, Fresh, Clean, Calling, Releasing, LoadFails, Undo, Unreserve, Wanted, GiveUp, Finish, Goto, End, callvars, threadvars, sweepvars, modelvars
<1>16. ASSUME Infer PROVE Booked'
  BY <1>16 DEF TypeOK, Control, Phases, Residence, Booked, Fresh, Clean, Calling, Releasing, Infer, Goto, callvars, threadvars, sweepvars, modelvars
<1>17. ASSUME Finally PROVE Booked'
  BY <1>17 DEF TypeOK, Control, Phases, Residence, Booked, Fresh, Clean, Calling, Releasing, Finally, Goto, Finish, End, Rearm, Range, callvars, threadvars, sweepvars, modelvars
<1>18. ASSUME Release PROVE Booked'
  BY <1>18 DEF TypeOK, Control, Phases, Residence, Booked, Fresh, Clean, Calling, Releasing, Release, DropHandle, Goto, callvars, threadvars, sweepvars, modelvars
<1>19. ASSUME Settle PROVE Booked'
  BY <1>19 DEF TypeOK, Control, Phases, Residence, Booked, Fresh, Clean, Calling, Releasing, Settle, Unreserve, Goto, callvars, threadvars, sweepvars, modelvars
<1>20. ASSUME Released PROVE Booked'
  BY <1>20 DEF TypeOK, Control, Phases, Residence, Booked, Fresh, Clean, Calling, Releasing, Released, Rearm, Goto, Finish, End, callvars, threadvars, sweepvars, modelvars
<1>21. ASSUME Destroy PROVE Booked'
  BY <1>21 DEF TypeOK, Control, Phases, Residence, Booked, Fresh, Clean, Calling, Releasing, Destroy, Goto, callvars, threadvars, sweepvars, modelvars
<1>22. ASSUME Terminate PROVE Booked'
  BY <1>22 DEF TypeOK, Control, Phases, Residence, Booked, Fresh, Clean, Calling, Releasing, Terminate, Finish, End, callvars, threadvars, sweepvars, modelvars
<1>23. QED
  BY <1>1, <1>2, <1>3, <1>4, <1>5, <1>6, <1>7, <1>8, <1>9,
     <1>10, <1>11, <1>12, <1>13, <1>14, <1>15, <1>16, <1>17, <1>18,
     <1>19, <1>20, <1>21, <1>22 DEF Next, Engine

(* Models that read from d, with one more or one less.                     *)
LEMMA OneMore ==
  ASSUME NEW S \in SUBSET Models, NEW m \in Models, m \notin S, NEW d
  PROVE  /\ Cardinality(Reading(S, d)) \in Nat
         /\ Cardinality(Reading(S \cup {m}, d)) =
                Cardinality(Reading(S, d)) + (IF d \in DirectoriesOf[m] THEN 1 ELSE 0)
<1>1. IsFiniteSet(Reading(S, d)) /\ Cardinality(Reading(S, d)) \in Nat
  <2>1. Reading(S, d) \in SUBSET Models
    BY DEF Reading
  <2>2. QED
    BY <2>1, EngineAssumption, FS_Subset, FS_CardinalityType
<1>2. CASE d \in DirectoriesOf[m]
  <2>1. Reading(S \cup {m}, d) = Reading(S, d) \cup {m} /\ m \notin Reading(S, d)
    BY <1>2 DEF Reading
  <2>2. Cardinality(Reading(S, d) \cup {m}) = Cardinality(Reading(S, d)) + 1
    BY <1>1, <2>1, FS_AddElement
  <2>3. QED
    BY <1>1, <1>2, <2>1, <2>2
<1>3. CASE d \notin DirectoriesOf[m]
  <2>1. Reading(S \cup {m}, d) = Reading(S, d)
    BY <1>3 DEF Reading
  <2>2. QED
    BY <1>1, <1>3, <2>1
<1>4. QED
  BY <1>2, <1>3

(* A release that was not confirmed is one more leftover of its model.     *)
LEMMA OneLeftover ==
  ASSUME TypeOK, NEW m \in Models, unconfirmed' = Append(unconfirmed, m)
  PROVE  /\ \A d : Cardinality(Unconfirmed(d)') =
                Cardinality(Unconfirmed(d)) + (IF d \in DirectoriesOf[m] THEN 1 ELSE 0)
         /\ \A n : Cardinality(Leftovers(n)') = Cardinality(Leftovers(n)) + (IF n = m THEN 1 ELSE 0)
         /\ \A n : Leftovers(n)' # {} => n = m \/ Leftovers(n) # {}
<1> DEFINE k == Len(unconfirmed) + 1
<1>1. /\ DOMAIN unconfirmed' = DOMAIN unconfirmed \cup {k} /\ k \notin DOMAIN unconfirmed
      /\ \A i \in DOMAIN unconfirmed : unconfirmed'[i] = unconfirmed[i]
      /\ unconfirmed'[k] = m
  BY DEF TypeOK
<1> HIDE DEF k
<1>2. ASSUME NEW d
      PROVE  Unconfirmed(d)' = IF d \in DirectoriesOf[m] THEN Unconfirmed(d) \cup {k} ELSE Unconfirmed(d)
  BY <1>1 DEF Unconfirmed
<1>3. ASSUME NEW n
      PROVE  Leftovers(n)' = IF n = m THEN Leftovers(n) \cup {k} ELSE Leftovers(n)
  BY <1>1 DEF Leftovers
<1>4. \A d : k \notin Unconfirmed(d)
  BY <1>1 DEF Unconfirmed
<1>5. \A n : k \notin Leftovers(n)
  BY <1>1 DEF Leftovers
<1>6. ASSUME NEW d
      PROVE  Cardinality(Unconfirmed(d)') =
                Cardinality(Unconfirmed(d)) + (IF d \in DirectoriesOf[m] THEN 1 ELSE 0)
  <2>1. Cardinality(Unconfirmed(d) \cup {k}) = Cardinality(Unconfirmed(d)) + 1
    BY <1>4, Finite, FS_AddElement
  <2>2. CASE d \in DirectoriesOf[m]
    BY <1>2, <2>1, <2>2
  <2>3. CASE d \notin DirectoriesOf[m]
    <3>1. Unconfirmed(d)' = Unconfirmed(d)
      BY <1>2, <2>3
    <3>2. QED
      BY <2>3, <3>1, Finite
  <2>4. QED
    BY <2>2, <2>3
<1>7. ASSUME NEW n
      PROVE  Cardinality(Leftovers(n)') = Cardinality(Leftovers(n)) + (IF n = m THEN 1 ELSE 0)
  <2>1. Cardinality(Leftovers(n) \cup {k}) = Cardinality(Leftovers(n)) + 1
    BY <1>5, Finite, FS_AddElement
  <2>2. CASE n = m
    BY <1>3, <2>1, <2>2
  <2>3. CASE n # m
    <3>1. Leftovers(n)' = Leftovers(n)
      BY <1>3, <2>3
    <3>2. QED
      BY <2>3, <3>1, Finite
  <2>4. QED
    BY <2>2, <2>3
<1>8. QED
  BY <1>3, <1>6, <1>7

(* A step outside the engine thread.                                       *)
LEMMA Outside ==
  ASSUME IInv, UNCHANGED <<threadvars, models, unconfirmed, counts, live>>, disk \subseteq disk',
         at = "load" => want'[task] = want[task]
  PROVE  Ledger'
<1>1. Resident' = Resident /\ Reserved' = Reserved
  BY DEF Resident, Reserved, threadvars
<1>2. (\A d : Reading(Reserved, d)' = Reading(Reserved, d)) /\ (\A d : Unconfirmed(d)' = Unconfirmed(d))
      /\ \A m : Leftovers(m)' = Leftovers(m)
  BY <1>1 DEF Reading, Unconfirmed, Leftovers
<1>3. Counting' /\ Lives'
  BY <1>1, <1>2 DEF IInv, Ledger, Counting, Lives, threadvars
<1>4. Kept'
  BY <1>1, <1>2 DEF IInv, Ledger, Kept, OnDisk, threadvars
<1>5. QED
  BY <1>3, <1>4 DEF Ledger

(* A step of the engine thread that loads and releases nothing.            *)
LEMMA Inside ==
  ASSUME IInv, UNCHANGED <<unconfirmed, counts, live, disk>>, Resident' = Resident,
         at \notin {"load", "unreserve", "settle"}, at' \notin {"load", "unreserve"}
  PROVE  Ledger'
<1>1. Reserved' = Reserved
  BY DEF Reserved
<1>2. (\A d : Reading(Reserved, d)' = Reading(Reserved, d)) /\ (\A d : Unconfirmed(d)' = Unconfirmed(d))
      /\ \A m : Leftovers(m)' = Leftovers(m)
  BY <1>1 DEF Reading, Unconfirmed, Leftovers
<1>3. Counting' /\ Lives'
  BY <1>1, <1>2 DEF IInv, Ledger, Counting, Lives
<1>4. Kept'
  BY <1>2 DEF IInv, Ledger, Kept, OnDisk
<1>5. QED
  BY <1>3, <1>4 DEF Ledger

(* Every step keeps reservations and instances in balance.                 *)
LEMMA LedgerStep ==
  ASSUME IInv, Next
  PROVE  Ledger'
<1> USE EngineAssumption DEF IInv
<1>1. ASSUME Create PROVE Ledger'
  BY <1>1, Outside DEF Create, TypeOK, Control, Calling, callvars, modelvars
<1>2. ASSUME NEW c \in Calls, Run(c) PROVE Ledger'
  <2>1. at = "load" => task # c
    BY <1>2 DEF Run, Control, Calling
  <2>2. at = "load" => want'[task] = want[task]
    BY <1>2, <2>1 DEF Run, TypeOK
  <2>3. QED
    BY <1>2, <2>2, Outside DEF Run, modelvars
<1>3. ASSUME NEW c \in Calls, Cancel(c) PROVE Ledger'
  BY <1>3, Outside DEF Cancel, TypeOK, Control, Calling, callvars, modelvars
<1>4. ASSUME NEW c \in Calls, Enter(c) PROVE Ledger'
  <2>1. call[c] = "started" /\ \A b \in Calls : b # c => want'[b] = want[b]
    BY <1>4 DEF Enter, End, TypeOK
  <2>2. at = "load" => want'[task] = want[task]
    BY <2>1 DEF Control, Calling
  <2>3. QED
    BY <1>4, <2>2, Outside DEF Enter, modelvars
<1>5. ASSUME NEW c \in Calls, Dispatch(c) PROVE Ledger'
  BY <1>5, Outside DEF Dispatch, TypeOK, Control, Calling, callvars, modelvars
<1>6. ASSUME Shutdown PROVE Ledger'
  BY <1>6, Outside DEF Shutdown, TypeOK, Control, Calling, callvars, modelvars
<1>7. ASSUME CloseBackend PROVE Ledger'
  BY <1>7, Outside DEF CloseBackend, Joined, TypeOK, Control, Calling, callvars, modelvars
<1>8. ASSUME NEW d \in Directories, Delete(d) PROVE Ledger'
  <2>1. counts[d] = 0 /\ disk' = disk \ {d}
        /\ UNCHANGED <<callvars, threadvars, models, unconfirmed, counts, live>>
    BY <1>8 DEF Delete, IsActive, TypeOK, modelvars
  <2>2. Reserved \subseteq Models
    BY DEF Reserved, Resident, TypeOK, Control, Calling
  <2>3. Cardinality(Reading(Reserved, d)) \in Nat /\ IsFiniteSet(Reading(Reserved, d))
    BY <2>2, Finite DEF Reading
  <2>4. Reading(Reserved, d) = {} /\ Unconfirmed(d) = {}
    BY <2>1, <2>3, Finite, FS_EmptySet DEF Ledger, Counting
  <2>5. ASSUME NEW m \in Models, m \in Reserved \/ Leftovers(m) # {}
        PROVE  d \notin DirectoriesOf[m]
    BY <2>4, <2>5 DEF Reading, Unconfirmed, Leftovers
  <2>6. Resident' = Resident /\ Reserved' = Reserved /\ \A m : Leftovers(m)' = Leftovers(m)
    BY <2>1 DEF Resident, Reserved, Leftovers, threadvars, callvars
  <2>7. (\A e : Reading(Reserved, e)' = Reading(Reserved, e)) /\ (\A e : Unconfirmed(e)' = Unconfirmed(e))
    BY <2>1, <2>6 DEF Reading, Unconfirmed
  <2>8. Counting' /\ Lives'
    BY <2>1, <2>6, <2>7 DEF Ledger, Counting, Lives, threadvars
  <2>9. Kept'
    BY <2>1, <2>5, <2>6 DEF Ledger, Kept, OnDisk, Reserved, threadvars
  <2>10. QED
    BY <2>8, <2>9 DEF Ledger
<1>9. ASSUME NEW d \in Directories, Publish(d) PROVE Ledger'
  BY <1>9, Outside DEF Publish, TypeOK, Control, Calling, callvars, modelvars
<1>10. ASSUME StartCall PROVE Ledger'
  <2>1. at = "none" /\ task = "none"
    BY <1>10 DEF StartCall, Control
  <2>2. UNCHANGED <<unconfirmed, counts, live, disk, models>>
    BY <1>10 DEF StartCall, modelvars
  <2>3. \/ UNCHANGED <<at, task, letGo>>
        \/ at' = "release" /\ letGo' = models /\ task' \in Calls
        \/ at' = "acquire"
    BY <1>10 DEF StartCall
  <2>4. Resident' = Resident
    BY <2>1, <2>2, <2>3, EngineAssumption DEF Resident, Releasing
  <2>5. QED
    BY <2>1, <2>2, <2>3, <2>4, Inside
<1>11. ASSUME StartClose PROVE Ledger'
  BY <1>11, Inside DEF StartClose, Control, Resident, Releasing, modelvars
<1>12. ASSUME StartSweep PROVE Ledger'
  BY <1>12, Inside DEF StartSweep, Control, Resident, Releasing, modelvars
<1>13. ASSUME Acquire PROVE Ledger'
  <2>1. at = "acquire" /\ UNCHANGED <<modelvars, disk, letGo>> /\ Wanted \in Models
    BY <1>13, WantedTyped DEF Acquire
  <2>2. CASE counts' = counts /\ at' # "load"
    <3>1. at' \in {"none", "finally", "acquire", "infer"}
      BY <1>13, <2>2 DEF Acquire, GiveUp, Proceed, Finish, Goto
    <3>2. QED
      BY <2>1, <2>2, <3>1, Inside DEF Resident, Releasing, modelvars
  <2>3. CASE Wanted \notin models /\ counts' = Reserve(counts, Wanted) /\ Goto("load") /\ leg' = leg
    <3>1. Reserved = models /\ Reserved' = models \cup {Wanted} /\ Resident' = Resident
      BY <2>1, <2>3 DEF Reserved, Resident, Releasing, Goto, Wanted, modelvars, callvars
    <3>2. /\ \A d : Reading(Reserved, d)' = Reading(models \cup {Wanted}, d)
          /\ \A d : Unconfirmed(d)' = Unconfirmed(d)
          /\ \A m : Leftovers(m)' = Leftovers(m)
      BY <2>1, <3>1 DEF Reading, Unconfirmed, Leftovers, modelvars
    <3>3. ASSUME NEW d \in Directories
          PROVE  counts'[d] = Cardinality(Reading(Reserved, d)') + Cardinality(Unconfirmed(d)')
      <4>1. counts[d] = Cardinality(Reading(models, d)) + Cardinality(Unconfirmed(d))
        BY <3>1 DEF Ledger, Counting
      <4>2. counts'[d] = counts[d] + (IF d \in DirectoriesOf[Wanted] THEN 1 ELSE 0)
        BY <2>3 DEF Reserve, TypeOK
      <4>3. /\ Cardinality(Reading(models, d)) \in Nat
            /\ Cardinality(Reading(models \cup {Wanted}, d)) =
                 Cardinality(Reading(models, d)) + (IF d \in DirectoriesOf[Wanted] THEN 1 ELSE 0)
        BY <2>1, <2>3, OneMore DEF TypeOK
      <4>4. QED
        BY <3>2, <4>1, <4>2, <4>3, Finite
    <3>4. Counting'
      BY <3>3 DEF Counting
    <3>5. Lives' /\ Kept'
      BY <2>1, <2>3, <3>1, <3>2 DEF Ledger, Lives, Kept, OnDisk, Goto, modelvars
    <3>6. QED
      BY <3>4, <3>5 DEF Ledger
  <2>4. QED
    BY <1>13, <2>2, <2>3 DEF Acquire, GiveUp, Proceed, Finish, Goto
<1>14. ASSUME Load PROVE Ledger'
  <2>1. /\ at = "load" /\ Wanted \in Models /\ Wanted \notin models /\ OnDisk(Wanted)
        /\ live' = [live EXCEPT ![Wanted] = @ + 1] /\ models' = models \cup {Wanted}
        /\ at' \in {"acquire", "infer"} /\ UNCHANGED <<unconfirmed, counts, disk>>
    BY <1>14, WantedTyped DEF Load, Proceed, Goto, Residence, Wanted
  <2>2. Resident = models /\ Reserved = models \cup {Wanted}
        /\ Resident' = models \cup {Wanted} /\ Reserved' = models \cup {Wanted}
    BY <2>1 DEF Reserved, Resident, Releasing, Wanted
  <2>3. /\ \A d : Reading(Reserved, d)' = Reading(Reserved, d)
        /\ \A d : Unconfirmed(d)' = Unconfirmed(d)
        /\ \A m : Leftovers(m)' = Leftovers(m)
    BY <2>1, <2>2 DEF Reading, Unconfirmed, Leftovers
  <2>4. Counting'
    BY <2>1, <2>3 DEF Ledger, Counting
  <2>5. Lives'
    <3> SUFFICES ASSUME NEW n \in Models
                 PROVE  live'[n] = (IF n \in Resident' THEN 1 ELSE 0) + Cardinality(Leftovers(n)')
      BY <2>1 DEF Lives
    <3>1. live[n] = (IF n \in Resident THEN 1 ELSE 0) + Cardinality(Leftovers(n))
      BY <2>1 DEF Ledger, Lives
    <3>2. Cardinality(Leftovers(n)) \in Nat
      BY Finite
    <3>3. CASE n = Wanted
      BY <3>1, <3>2, <3>3, <2>1, <2>2, <2>3 DEF TypeOK
    <3>4. CASE n # Wanted
      BY <3>1, <3>2, <3>4, <2>1, <2>2, <2>3 DEF TypeOK
    <3>5. QED
      BY <3>3, <3>4
  <2>6. Kept'
    BY <2>1, <2>2, <2>3 DEF Ledger, Kept, OnDisk
  <2>7. QED
    BY <2>4, <2>5, <2>6 DEF Ledger
<1>15. ASSUME LoadFails PROVE Ledger'
  <2>1. /\ at = "load" /\ Wanted \in Models /\ Wanted \notin models
        /\ at' \in {"none", "finally"} /\ counts' = Unreserve(counts, Wanted)
        /\ UNCHANGED <<models, unconfirmed, live, disk>>
    BY <1>15, WantedTyped DEF LoadFails, Undo, GiveUp, Finish, Goto, Residence, Wanted
  <2>2. Resident = models /\ Reserved = models \cup {Wanted}
        /\ Resident' = models /\ Reserved' = models
    BY <2>1 DEF Reserved, Resident, Releasing, Wanted
  <2>3. /\ \A d : Reading(Reserved, d)' = Reading(models, d)
        /\ \A d : Unconfirmed(d)' = Unconfirmed(d)
        /\ \A m : Leftovers(m)' = Leftovers(m)
    BY <2>1, <2>2 DEF Reading, Unconfirmed, Leftovers
  <2>4. ASSUME NEW d \in Directories
        PROVE  counts'[d] = Cardinality(Reading(Reserved, d)') + Cardinality(Unconfirmed(d)')
    <3>1. counts[d] = Cardinality(Reading(models \cup {Wanted}, d)) + Cardinality(Unconfirmed(d))
      BY <2>2 DEF Ledger, Counting
    <3>2. /\ Cardinality(Reading(models, d)) \in Nat
          /\ Cardinality(Reading(models \cup {Wanted}, d)) =
               Cardinality(Reading(models, d)) + (IF d \in DirectoriesOf[Wanted] THEN 1 ELSE 0)
      BY <2>1, OneMore DEF TypeOK
    <3>3. Cardinality(Unconfirmed(d)) \in Nat
      BY Finite
    <3>4. counts'[d] = IF d \in DirectoriesOf[Wanted] /\ counts[d] > 0 THEN counts[d] - 1 ELSE counts[d]
      BY <2>1 DEF Unreserve
    <3>5. QED
      BY <2>3, <3>1, <3>2, <3>3, <3>4
  <2>5. Counting'
    BY <2>4 DEF Counting
  <2>6. Lives' /\ Kept'
    BY <2>1, <2>2, <2>3 DEF Ledger, Lives, Kept, OnDisk
  <2>7. QED
    BY <2>5, <2>6 DEF Ledger
<1>16. ASSUME Infer PROVE Ledger'
  BY <1>16, Inside DEF Infer, Goto, Resident, Releasing, modelvars
<1>17. ASSUME Finally PROVE Ledger'
  <2>1. at = "finally" /\ task \in Calls /\ UNCHANGED <<unconfirmed, counts, live, disk, models>>
    BY <1>17 DEF Finally, Control, Calling, modelvars
  <2>2. (at' = "release" /\ letGo' = models /\ task' = task) \/ at' = "none"
    BY <1>17 DEF Finally, Goto, Finish
  <2>3. Resident' = Resident
    BY <2>1, <2>2, EngineAssumption DEF Resident, Releasing
  <2>4. QED
    BY <2>1, <2>2, <2>3, Inside
<1>18. ASSUME Release PROVE Ledger'
  <2>1. PICK m \in letGo, destroyed \in BOOLEAN :
            /\ live' = IF destroyed THEN [live EXCEPT ![m] = @ - 1] ELSE live
            /\ released' = <<m, destroyed>>
            /\ letGo' = letGo \ {m}
            /\ models' = DropHandle(m)
    BY <1>18 DEF Release
  <2>2. /\ at = "release" /\ at' = "unreserve" /\ m \in Models /\ m \in models
        /\ UNCHANGED <<task, unconfirmed, counts, disk>>
    BY <1>18 DEF Release, Goto, TypeOK, Residence
  <2>3. m \in Resident /\ Resident' = Resident \ {m} /\ Reserved = Resident
    BY <2>1, <2>2 DEF Resident, Reserved, Releasing, DropHandle
  <2>4. Reserved' = Reserved
    BY <2>1, <2>2, <2>3 DEF Reserved
  <2>5. /\ \A d : Reading(Reserved, d)' = Reading(Reserved, d)
        /\ \A d : Unconfirmed(d)' = Unconfirmed(d)
        /\ \A n : Leftovers(n)' = Leftovers(n)
    BY <2>2, <2>4 DEF Reading, Unconfirmed, Leftovers
  <2>6. Counting'
    BY <2>2, <2>5 DEF Ledger, Counting
  <2>7. live[m] = 1 + Cardinality(Leftovers(m))
    BY <2>2, <2>3 DEF Ledger, Lives
  <2>8. ASSUME NEW n \in Models
        PROVE  live'[n] = (IF n \in Resident' \/ released' = <<n, FALSE>> THEN 1 ELSE 0)
                          + Cardinality(Leftovers(n)')
    <3>1. CASE n = m
      <4>1. Cardinality(Leftovers(n)) \in Nat /\ n \notin Resident'
            /\ live[n] = 1 + Cardinality(Leftovers(n)) /\ Leftovers(n)' = Leftovers(n)
        BY <2>3, <2>5, <2>7, <3>1, Finite
      <4>2. CASE destroyed
        <5>1. live'[n] = live[n] - 1 /\ released' = <<n, TRUE>>
          BY <3>1, <4>2, <2>1, <2>2 DEF TypeOK
        <5>2. released'[2] /\ released' # <<n, FALSE>>
          BY <5>1
        <5>3. QED
          BY <5>1, <5>2, <4>1
      <4>3. CASE ~destroyed
        <5>1. live'[n] = live[n] /\ released' = <<n, FALSE>>
          BY <3>1, <4>3, <2>1
        <5>2. QED
          BY <5>1, <4>1
      <4>4. QED
        BY <4>2, <4>3
    <3>2. CASE n # m
      <4>1. live'[n] = live[n] /\ released' # <<n, FALSE>> /\ (n \in Resident' <=> n \in Resident)
        BY <3>2, <2>1, <2>2, <2>3 DEF TypeOK
      <4>2. QED
        BY <4>1, <2>2, <2>5 DEF Ledger, Lives
    <3>3. QED
      BY <3>1, <3>2
  <2>9. Lives'
    BY <2>2, <2>8 DEF Lives
  <2>10. Kept'
    BY <2>1, <2>2, <2>3, <2>5 DEF Ledger, Kept, OnDisk
  <2>11. QED
    BY <2>6, <2>9, <2>10 DEF Ledger
<1>19. ASSUME Settle PROVE Ledger'
  <2> DEFINE m == released[1]
  <2>1. /\ at = "unreserve" /\ at' = "release" /\ UNCHANGED <<task, letGo, models, live, disk>>
        /\ m \in Models /\ released[2] \in BOOLEAN /\ released = <<m, released[2]>>
    BY <1>19 DEF Settle, Goto, Control, TypeOK
  <2>2. m \notin Resident /\ Resident \in SUBSET Models /\ Resident' = Resident
        /\ Reserved = Resident \cup {m} /\ Reserved' = Resident
    BY <2>1 DEF Resident, Reserved, Releasing, Residence, TypeOK
  <2>3. \A d : Reading(Reserved, d)' = Reading(Resident, d)
    BY <2>2 DEF Reading
  <2>4. ASSUME NEW d \in Directories
        PROVE  /\ counts[d] = Cardinality(Reading(Resident, d)) + (IF d \in DirectoriesOf[m] THEN 1 ELSE 0)
                              + Cardinality(Unconfirmed(d))
               /\ Cardinality(Reading(Resident, d)) \in Nat /\ Cardinality(Unconfirmed(d)) \in Nat
    BY <2>1, <2>2, OneMore, Finite DEF Ledger, Counting
  <2>5. CASE released[2]
    <3>1. counts' = Unreserve(counts, m) /\ unconfirmed' = unconfirmed
      BY <1>19, <2>5 DEF Settle
    <3>2. (\A d : Unconfirmed(d)' = Unconfirmed(d)) /\ \A n : Leftovers(n)' = Leftovers(n)
      BY <3>1 DEF Unconfirmed, Leftovers
    <3>3. ASSUME NEW d \in Directories
          PROVE  counts'[d] = Cardinality(Reading(Resident, d)) + Cardinality(Unconfirmed(d))
      <4>1. counts'[d] = IF d \in DirectoriesOf[m] /\ counts[d] > 0 THEN counts[d] - 1 ELSE counts[d]
        BY <3>1 DEF Unreserve
      <4>2. QED
        BY <4>1, <2>4
    <3>4. Counting'
      BY <2>3, <3>2, <3>3 DEF Counting
    <3>5. Lives'
      <4>1. ASSUME NEW n, released = <<n, FALSE>> PROVE FALSE
        <5>1. released[2] = FALSE
          BY <4>1
        <5>2. QED
          BY <5>1, <2>5
      <4>2. QED
        BY <4>1, <2>1, <2>2, <3>2 DEF Ledger, Lives
    <3>6. Kept'
      BY <2>1, <2>2, <3>2 DEF Ledger, Kept, OnDisk
    <3>7. QED
      BY <3>4, <3>5, <3>6 DEF Ledger
  <2>6. CASE ~released[2]
    <3>1. counts' = counts /\ unconfirmed' = Append(unconfirmed, m) /\ released = <<m, FALSE>>
      BY <1>19, <2>1, <2>6 DEF Settle
    <3>2. /\ \A d : Cardinality(Unconfirmed(d)') =
                Cardinality(Unconfirmed(d)) + (IF d \in DirectoriesOf[m] THEN 1 ELSE 0)
          /\ \A n : Cardinality(Leftovers(n)') = Cardinality(Leftovers(n)) + (IF n = m THEN 1 ELSE 0)
          /\ \A n : Leftovers(n)' # {} => n = m \/ Leftovers(n) # {}
      <4>0. PICK n \in Models : n = m
        BY <2>1
      <4>1. unconfirmed' = Append(unconfirmed, n)
        BY <3>1, <4>0
      <4>2. QED
        BY <4>0, <4>1, OneLeftover
    <3>3. Counting'
      BY <2>3, <2>4, <3>1, <3>2 DEF Counting
    <3>4. ASSUME NEW n \in Models
          PROVE  live[n] = (IF n \in Resident THEN 1 ELSE 0) + Cardinality(Leftovers(n)')
      <4>1. live[n] = (IF n \in Resident \/ n = m THEN 1 ELSE 0) + Cardinality(Leftovers(n))
        <5>1. released = <<n, FALSE>> <=> n = m
          <6>1. ASSUME released = <<n, FALSE>> PROVE n = m
            BY <6>1
          <6>2. ASSUME n = m PROVE released = <<n, FALSE>>
            BY <6>2, <3>1
          <6>3. QED
            BY <6>1, <6>2
        <5>2. QED
          BY <5>1, <2>1 DEF Ledger, Lives
      <4>2. QED
        BY <4>1, <2>2, <3>2, Finite
    <3>5. Lives'
      BY <2>1, <2>2, <3>4 DEF Lives
    <3>6. Kept'
      BY <2>1, <2>2, <3>2 DEF Ledger, Kept, OnDisk
    <3>7. QED
      BY <3>3, <3>5, <3>6 DEF Ledger
  <2>7. QED
    BY <2>1, <2>5, <2>6
<1>20. ASSUME Released PROVE Ledger'
  <2>1. at = "release" /\ letGo = {} /\ UNCHANGED <<unconfirmed, counts, live, disk, letGo>>
    BY <1>20 DEF Released
  <2>2. at' \in {"none", "destroy"}
    BY <1>20 DEF Released, Finish, Goto
  <2>3. Resident' = Resident
    BY <1>20, <2>1, <2>2 DEF Released, Resident, Releasing
  <2>4. QED
    BY <2>1, <2>2, <2>3, Inside
<1>21. ASSUME Destroy PROVE Ledger'
  <2>1. at = "destroy" /\ at' = "settle" /\ UNCHANGED <<task, letGo, models, released, unconfirmed, counts, disk>>
    BY <1>21 DEF Destroy, Goto
  <2>2. Resident = {} /\ Reserved = {} /\ Resident' = {} /\ Reserved' = {}
    BY <2>1 DEF Resident, Reserved, Releasing, Residence
  <2>3. (\A d : Reading(Reserved, d)' = Reading(Reserved, d)) /\ (\A d : Unconfirmed(d)' = Unconfirmed(d))
        /\ \A m : Leftovers(m)' = Leftovers(m)
    BY <2>1, <2>2 DEF Reading, Unconfirmed, Leftovers
  <2>4. QED
    BY <2>1, <2>2, <2>3 DEF Ledger, Counting, Lives, Kept, OnDisk
<1>22. ASSUME Terminate PROVE Ledger'
  <2>1. /\ at = "settle" /\ at' = "none" /\ task' = "none" /\ models = {} /\ models' = {}
        /\ unconfirmed' = <<>> /\ live' = live /\ \A m \in Models : live[m] = 0
        /\ counts' = [d \in Directories |-> 0]
    BY <1>22, Emptied DEF Terminate, Finish, Residence
  <2>2. Resident' = {} /\ Reserved' = {}
    BY <2>1 DEF Resident, Reserved, Releasing
  <2>3. (\A d : Reading(Reserved, d)' = {}) /\ (\A d : Unconfirmed(d)' = {}) /\ \A m : Leftovers(m)' = {}
    BY <2>1, <2>2 DEF Reading, Unconfirmed, Leftovers
  <2>4. QED
    <3>0. /\ \A d : Cardinality(Reading(Reserved, d)') = 0 /\ Cardinality(Unconfirmed(d)') = 0
          /\ \A m : Cardinality(Leftovers(m)') = 0
      BY <2>3, FS_EmptySet, Zenon
    <3>1. Counting'
      BY <2>1, <3>0 DEF Counting
    <3>2. Lives'
      BY <2>1, <2>2, <3>0 DEF Lives
    <3>3. Kept'
      BY <2>1, <2>2, <2>3 DEF Kept
    <3>4. QED
      BY <3>1, <3>2, <3>3 DEF Ledger
<1>23. QED
  BY <1>1, <1>2, <1>3, <1>4, <1>5, <1>6, <1>7, <1>8, <1>9,
     <1>10, <1>11, <1>12, <1>13, <1>14, <1>15, <1>16, <1>17, <1>18,
     <1>19, <1>20, <1>21, <1>22 DEF Next, Engine

-----------------------------------------------------------------------------
LEMMA Initially == Init => IInv
<1> SUFFICES ASSUME Init PROVE IInv
  OBVIOUS
<1> USE EngineAssumption DEF Init
<1>1. <<>> \in Seq(Models) /\ <<>> \in Seq(Calls \cup {"close"}) /\ Len(<<>>) = 0
  OBVIOUS
<1>2. TypeOK
  <2>1. want \in [Calls -> Seq(Models)] /\ queue \in Seq(Calls \cup {"close"}) /\ unconfirmed \in Seq(Models)
    BY <1>1
  <2>2. /\ clients \in 0 .. MaxClients
        /\ counts \in [Directories -> Nat] /\ live \in [Models -> Nat] /\ disk \in SUBSET Directories
    OBVIOUS
  <2>3. cancelled \in [Calls -> BOOLEAN] /\ call \in [Calls -> {"none", "started", "entering", "queued", "running"}]
    OBVIOUS
  <2>4. /\ phase \in {"none", "open", "joining", "closing"}
        /\ retention \in {"never", "none", "timed"}
        /\ task \in Calls \cup {"none", "close", "sweep"}
        /\ leg \in Nat \ {0}
    OBVIOUS
  <2>5. at \in {"none", "acquire", "load", "infer", "finally", "release", "unreserve", "destroy", "settle"}
    OBVIOUS
  <2>6. /\ released \in {<<>>} \cup (Models \X BOOLEAN)
        /\ letGo \in SUBSET Models /\ models \in SUBSET Models /\ tracked \in SUBSET Models
        /\ service \in BOOLEAN /\ pending \in BOOLEAN
    OBVIOUS
  <2>7. QED
    BY <2>1, <2>2, <2>3, <2>4, <2>5, <2>6, Zenon DEF TypeOK
<1>3. Control /\ Phases /\ NoCallDropped /\ Residence /\ Booked
  BY DEF Control, Phases, Clean, NoCallDropped, Residence, Booked, Fresh, Calling, Releasing
<1>4. Resident = {} /\ Reserved = {}
  BY DEF Resident, Reserved, Releasing
<1>5. (\A d : Reading(Reserved, d) = {}) /\ (\A d : Unconfirmed(d) = {}) /\ \A m : Leftovers(m) = {}
  BY <1>4 DEF Reading, Unconfirmed, Leftovers
<1>6. Ledger
  <2>0. /\ \A d : Cardinality(Reading(Reserved, d)) = 0 /\ Cardinality(Unconfirmed(d)) = 0
        /\ \A m : Cardinality(Leftovers(m)) = 0
    BY <1>5, FS_EmptySet, Zenon
  <2>1. Counting
    BY <2>0 DEF Counting
  <2>2. Lives
    BY <1>4, <2>0 DEF Lives
  <2>3. Kept
    BY <1>4, <1>5 DEF Kept
  <2>4. QED
    BY <2>1, <2>2, <2>3 DEF Ledger
<1>7. QED
  BY <1>2, <1>3, <1>6 DEF IInv

LEMMA Invariance == Spec => []IInv
<1>1. ASSUME IInv, UNCHANGED vars PROVE IInv'
  <2>1. TypeOK' /\ Control' /\ Phases' /\ NoCallDropped' /\ Residence' /\ Booked'
    BY <1>1 DEF IInv, TypeOK, Control, Phases, Clean, NoCallDropped, Residence, Booked, Fresh, vars,
                callvars, threadvars, sweepvars, modelvars
  <2>2. Ledger'
    BY <1>1, Outside DEF vars, callvars, modelvars
  <2>3. QED
    BY <2>1, <2>2 DEF IInv
<1>2. IInv /\ [Next]_vars => IInv'
  BY <1>1, TypeOKStep, ControlStep, PhasesStep, NoCallDroppedStep, ResidenceStep, BookedStep,
     LedgerStep DEF IInv
<1>3. QED
  BY <1>2, Initially, PTL DEF Spec

(* The state stays in its sets.                                            *)
THEOREM TypeCorrect == Spec => []TypeOK
BY Invariance, PTL DEF IInv

(* Files are never deleted under an instance in native memory.             *)
THEOREM LiveFilesAlwaysOnDisk == Spec => []LiveFilesOnDisk
<1>1. IInv => LiveFilesOnDisk
  <2> SUFFICES ASSUME IInv, NEW m \in Models, live[m] > 0 PROVE OnDisk(m)
    BY DEF LiveFilesOnDisk
  <2>1. at # "settle"
    BY DEF IInv, Residence
  <2>2. m \in Resident \/ (at = "unreserve" /\ released = <<m, FALSE>>) \/ Leftovers(m) # {}
    <3>1. Leftovers(m) = {} => Cardinality(Leftovers(m)) = 0
      BY FS_EmptySet, Zenon
    <3>2. live[m] = (IF m \in Resident \/ (at = "unreserve" /\ released = <<m, FALSE>>) THEN 1 ELSE 0)
                    + Cardinality(Leftovers(m))
      BY <2>1 DEF IInv, Ledger, Lives
    <3>3. CASE m \in Resident \/ (at = "unreserve" /\ released = <<m, FALSE>>)
      BY <3>3
    <3>4. CASE ~(m \in Resident \/ (at = "unreserve" /\ released = <<m, FALSE>>))
      <4>1. live[m] = 0 + Cardinality(Leftovers(m))
        BY <3>2, <3>4
      <4>2. Cardinality(Leftovers(m)) # 0
        BY <4>1
      <4>3. QED
        BY <3>1, <4>2
    <3>5. QED
      BY <3>3, <3>4
  <2>3. released = <<m, FALSE>> => m = released[1]
    OBVIOUS
  <2>4. QED
    BY <2>2, <2>3 DEF IInv, Ledger, Kept
<1>2. QED
  BY <1>1, Invariance, PTL

(* Between tasks reservations are exact.                                   *)
THEOREM ReservationsAlwaysExact == Spec => []ReservationsExact
<1>1. IInv => ReservationsExact
  <2> SUFFICES ASSUME IInv, task = "none" PROVE ReservationsExact
    BY DEF ReservationsExact
  <2>1. Reserved = models
    BY DEF IInv, Control, Reserved, Resident, Releasing
  <2>2. QED
    BY <2>1 DEF IInv, Ledger, Counting, ReservationsExact, Reading, Unconfirmed, Reservations
<1>2. QED
  BY <1>1, Invariance, PTL

(* A native call is always given handles of instances that exist.          *)
THEOREM HandlesAlwaysValid == Spec => []HandlesValid
<1>1. IInv => HandlesValid
  <2> SUFFICES ASSUME IInv, at = "infer"
               PROVE  service /\ \A i \in DOMAIN want[task] : live[want[task][i]] > 0
    BY DEF HandlesValid
  <2>1. \A i \in DOMAIN want[task] : want[task][i] \in models
    BY DEF IInv, Residence
  <2>2. 1 \in DOMAIN want[task] /\ models \subseteq Models /\ Resident = models
    BY DEF IInv, Control, Calling, TypeOK, Resident, Releasing
  <2>3. \A m \in models : live[m] > 0
    BY <2>2, Finite DEF IInv, Ledger, Lives
  <2>4. QED
    BY <2>1, <2>2, <2>3 DEF IInv, Residence
<1>2. QED
  BY <1>1, Invariance, PTL

(* Under a positive retention a sweep is always booked for what is         *)
(* resident, and without retention nothing is resident between tasks.      *)
THEOREM SweepAlwaysBooked == Spec => []SweepBooked
<1>1. IInv => SweepBooked
  BY DEF IInv, Booked, Fresh, Control, SweepBooked
<1>2. QED
  BY <1>1, Invariance, PTL

(* A queued call stays queued until it is run.                             *)
THEOREM NoCallEverDropped == Spec => []NoCallDropped
BY Invariance, PTL DEF IInv

(* The lease is free only when nothing of the last client is left.         *)
THEOREM AlwaysTornDownClean == Spec => []TornDownClean
<1>1. IInv => TornDownClean
  BY DEF IInv, Phases, Clean, TornDownClean
<1>2. QED
  BY <1>1, Invariance, PTL

-----------------------------------------------------------------------------
(* Nothing is left undone.                                                 *)

(* Only the engine thread's own call runs, the close task is on its way    *)
(* while the client closes, and a booked sweep has something to look at.   *)
Working ==
    /\ \A c \in Calls : call[c] = "running" => task = c
    /\ phase = "closing" => task = "close" \/ \E i \in DOMAIN queue : queue[i] = "close"
    /\ pending => tracked # {}

LEMMA WorkingStep ==
  ASSUME IInv, Working, Next
  PROVE  Working'
<1> USE EngineAssumption DEF IInv, TypeOK, Control, Phases, Working
<1>1. ASSUME Create PROVE Working'
  BY <1>1 DEF Create, callvars, threadvars, sweepvars
<1>2. ASSUME NEW c \in Calls, Run(c) PROVE Working'
  BY <1>2 DEF Run, threadvars, sweepvars
<1>3. ASSUME NEW c \in Calls, Cancel(c) PROVE Working'
  BY <1>3 DEF Cancel, threadvars, sweepvars
<1>4. ASSUME NEW c \in Calls, Enter(c) PROVE Working'
  BY <1>4 DEF Enter, End, threadvars, sweepvars
<1>5. ASSUME NEW c \in Calls, Dispatch(c) PROVE Working'
  BY <1>5 DEF Dispatch, threadvars, sweepvars
<1>6. ASSUME Shutdown PROVE Working'
  BY <1>6 DEF Shutdown, threadvars, sweepvars
<1>7. ASSUME CloseBackend PROVE Working'
  <2>1. queue' = Append(queue, "close") /\ UNCHANGED <<call, task, tracked, pending>>
    BY <1>7 DEF CloseBackend, callvars, threadvars, sweepvars
  <2>2. Len(queue) + 1 \in DOMAIN queue' /\ queue'[Len(queue) + 1] = "close"
    BY <2>1
  <2>3. QED
    BY <2>1, <2>2
<1>8. ASSUME NEW d \in Directories, Delete(d) \/ Publish(d) PROVE Working'
  BY <1>8 DEF Delete, Publish, callvars, threadvars, sweepvars
<1>10. ASSUME StartCall PROVE Working'
  <2>1. queue # <<>> /\ Head(queue) # "close" /\ queue' = Tail(queue)
    BY <1>10 DEF StartCall
  <2>2. ASSUME NEW i \in DOMAIN queue, queue[i] = "close"
        PROVE  i - 1 \in DOMAIN queue' /\ queue'[i - 1] = "close"
    <3>1. i # 1 /\ i \in 1 .. Len(queue)
      BY <2>1, <2>2
    <3>2. QED
      BY <2>1, <2>2, <3>1
  <2>3. phase' = phase /\ task # "close"
    BY <1>10 DEF StartCall
  <2>4. phase' = "closing" => \E i \in DOMAIN queue' : queue'[i] = "close"
    BY <2>2, <2>3
  <2>5. (\A c \in Calls : call'[c] = "running" => task' = c) /\ (pending' => tracked' # {})
    BY <1>10 DEF StartCall, End, sweepvars
  <2>6. QED
    BY <2>4, <2>5
<1>11. ASSUME StartClose PROVE Working'
  BY <1>11 DEF StartClose, callvars, sweepvars
<1>12. ASSUME StartSweep PROVE Working'
  BY <1>12 DEF StartSweep, callvars
<1>13. ASSUME Acquire PROVE Working'
  BY <1>13 DEF Acquire, GiveUp, Proceed, Finish, End, Goto, callvars, Calling
<1>14. ASSUME Load PROVE Working'
  BY <1>14 DEF Load, Proceed, Goto, callvars
<1>15. ASSUME LoadFails PROVE Working'
  BY <1>15 DEF LoadFails, GiveUp, Finish, End, Goto, callvars, sweepvars, Calling
<1>16. ASSUME Infer PROVE Working'
  BY <1>16 DEF Infer, Goto, callvars, sweepvars
<1>17. ASSUME Finally PROVE Working'
  BY <1>17 DEF Finally, Rearm, Finish, End, Goto, callvars, sweepvars, Calling
<1>18. ASSUME Release PROVE Working'
  BY <1>18 DEF Release, Goto, callvars, sweepvars
<1>19. ASSUME Settle PROVE Working'
  BY <1>19 DEF Settle, Goto, callvars, sweepvars
<1>20. ASSUME Released PROVE Working'
  BY <1>20 DEF Released, Rearm, Finish, End, Goto, callvars
<1>21. ASSUME Destroy PROVE Working'
  BY <1>21 DEF Destroy, Goto, callvars, sweepvars
<1>22. ASSUME Terminate PROVE Working'
  BY <1>22 DEF Terminate, Finish, End, sweepvars, Calling, Releasing
<1>23. QED
  BY <1>1, <1>2, <1>3, <1>4, <1>5, <1>6, <1>7, <1>8, <1>10, <1>11, <1>12, <1>13,
     <1>14, <1>15, <1>16, <1>17, <1>18, <1>19, <1>20, <1>21, <1>22 DEF Next, Engine

(* When nobody can go on every call has returned, a shutdown is over, and  *)
(* nothing idle is left in memory (ClientLifecycle.shutdown(),             *)
(* IdleSweeper.sweep()).                                                   *)
THEOREM NeverWaitsForEver == Spec => []NeverStuck
<1>1. Init => Working
  BY DEF Init, Working
<1>2. IInv /\ Working /\ [Next]_vars => Working'
  <2>1. ASSUME Working, UNCHANGED vars PROVE Working'
    BY <2>1 DEF Working, vars, callvars, threadvars, sweepvars
  <2>2. QED
    BY <2>1, WorkingStep
<1>3. IInv /\ Working => NeverStuck
  <2> SUFFICES ASSUME IInv, Working, Resting
               PROVE  /\ \A c \in Calls : call[c] = "none"
                      /\ phase \in {"none", "open"}
                      /\ retention # "never" => models = {}
    BY DEF NeverStuck
  <2>1. ASSUME NEW c \in Calls PROVE call[c] = "none"
    <3>1. call[c] # "queued"
      BY DEF IInv, NoCallDropped, Resting
    <3>2. call[c] # "running"
      BY EngineAssumption DEF Working, Resting
    <3>3. QED
      BY <3>1, <3>2 DEF IInv, TypeOK, Resting
  <2>2. phase \in {"none", "open"}
    <3>1. phase # "joining"
      BY <2>1 DEF Resting, Joined
    <3>2. phase # "closing"
      BY DEF Working, Resting
    <3>3. QED
      BY <3>1, <3>2 DEF IInv, TypeOK
  <2>3. retention # "never" => models = {}
    BY DEF IInv, TypeOK, Booked, Fresh, Working, Resting
  <2>4. QED
    BY <2>1, <2>2, <2>3
<1>4. QED
  BY <1>1, <1>2, <1>3, Invariance, PTL DEF Spec

-----------------------------------------------------------------------------
(* The client and its contract.                                            *)

InProgress == {c \in Calls : call[c] # "none"}
InMemory == {m \in Models : live[m] > 0}

(* A task in the queue is that of a call that waits for it, and is there   *)
(* once.                                                                   *)
Waiting ==
    /\ \A i \in DOMAIN queue : queue[i] \in Calls => call[queue[i]] = "queued"
    /\ \A i, j \in DOMAIN queue : queue[i] \in Calls /\ queue[i] = queue[j] => i = j

LEMMA WaitingKept ==
  ASSUME Waiting, queue' = queue, \A c \in Calls : call[c] = "queued" => call'[c] = "queued"
  PROVE  Waiting'
BY DEF Waiting

(* The call of the task that ends is not one that waits.                   *)
LEMMA WaitingAfterTask ==
  ASSUME IInv, Waiting, queue' = queue, UNCHANGED callvars \/ End(task)
  PROVE  Waiting'
<1>1. task \in Calls => call[task] # "queued"
  BY DEF IInv, Control
<1>2. \A c \in Calls : call[c] = "queued" => call'[c] = "queued"
  BY <1>1 DEF callvars, End
<1>3. QED
  BY <1>2, WaitingKept

LEMMA WaitingStep ==
  ASSUME IInv, Waiting, Next
  PROVE  Waiting'
<1> USE EngineAssumption DEF IInv, TypeOK
<1>1. ASSUME Create PROVE Waiting'
  BY <1>1, WaitingKept DEF Create, callvars
<1>2. ASSUME NEW c \in Calls, Run(c) PROVE Waiting'
  BY <1>2, WaitingKept DEF Run
<1>3. ASSUME NEW c \in Calls, Cancel(c) PROVE Waiting'
  BY <1>3, WaitingKept DEF Cancel
<1>4. ASSUME NEW c \in Calls, Enter(c) PROVE Waiting'
  BY <1>4, WaitingKept DEF Enter, End
<1>5. ASSUME NEW c \in Calls, Dispatch(c) PROVE Waiting'
  <2>1. /\ call[c] = "entering" /\ call' = [call EXCEPT ![c] = "queued"]
        /\ queue' = Append(queue, c)
    BY <1>5 DEF Dispatch
  <2>2. /\ DOMAIN queue' = DOMAIN queue \cup {Len(queue) + 1} /\ queue'[Len(queue) + 1] = c
        /\ \A i \in DOMAIN queue : queue'[i] = queue[i] /\ queue[i] # c
    BY <2>1 DEF Waiting
  <2>3. QED
    BY <2>1, <2>2 DEF Waiting
<1>6. ASSUME Shutdown PROVE Waiting'
  BY <1>6, WaitingKept DEF Shutdown
<1>7. ASSUME CloseBackend PROVE Waiting'
  <2>1. call' = call /\ queue' = Append(queue, "close") /\ "close" \notin Calls
    BY <1>7 DEF CloseBackend, callvars
  <2>2. /\ DOMAIN queue' = DOMAIN queue \cup {Len(queue) + 1} /\ queue'[Len(queue) + 1] \notin Calls
        /\ \A i \in DOMAIN queue : queue'[i] = queue[i]
    BY <2>1
  <2>3. QED
    BY <2>1, <2>2 DEF Waiting
<1>8. ASSUME NEW d \in Directories, Delete(d) \/ Publish(d) PROVE Waiting'
  BY <1>8, WaitingKept DEF Delete, Publish, callvars
<1>9. ASSUME StartCall PROVE Waiting'
  <2>1. /\ queue # <<>> /\ Head(queue) \in Calls /\ queue' = Tail(queue)
        /\ \A c \in Calls : c # Head(queue) => call'[c] = call[c]
    BY <1>9 DEF StartCall, End
  <2>2. \A i \in DOMAIN queue' : /\ i + 1 \in DOMAIN queue /\ queue'[i] = queue[i + 1]
                                 /\ queue[i + 1] # Head(queue)
    BY <2>1 DEF Waiting
  <2>3. QED
    BY <2>1, <2>2 DEF Waiting
<1>10. ASSUME StartClose PROVE Waiting'
  <2>1. queue # <<>> /\ queue' = Tail(queue) /\ call' = call
    BY <1>10 DEF StartClose, callvars
  <2>2. DOMAIN queue' \subseteq Nat
        /\ \A i \in DOMAIN queue' : i + 1 \in DOMAIN queue /\ queue'[i] = queue[i + 1]
    BY <2>1
  <2>3. \A i \in DOMAIN queue' : queue'[i] \in Calls => call'[queue'[i]] = "queued"
    BY <2>1, <2>2 DEF Waiting
  <2>4. ASSUME NEW i \in DOMAIN queue', NEW j \in DOMAIN queue', queue'[i] \in Calls,
               queue'[i] = queue'[j]
        PROVE  i = j
    <3>1. i + 1 = j + 1
      BY <2>2, <2>4 DEF Waiting
    <3>2. QED
      BY <2>2, <3>1
  <2>5. QED
    BY <2>3, <2>4 DEF Waiting
<1>11. ASSUME StartSweep PROVE Waiting'
  BY <1>11, WaitingKept DEF StartSweep, callvars
<1>12. ASSUME Acquire PROVE Waiting'
  BY <1>12, WaitingAfterTask DEF Acquire, GiveUp, Proceed, Finish, Goto
<1>13. ASSUME Load PROVE Waiting'
  BY <1>13, WaitingAfterTask DEF Load, Proceed, Goto
<1>14. ASSUME LoadFails PROVE Waiting'
  BY <1>14, WaitingAfterTask DEF LoadFails, GiveUp, Finish, Goto
<1>15. ASSUME Infer PROVE Waiting'
  BY <1>15, WaitingAfterTask DEF Infer, Goto
<1>16. ASSUME Finally PROVE Waiting'
  BY <1>16, WaitingAfterTask DEF Finally, Finish, Goto
<1>17. ASSUME Release PROVE Waiting'
  BY <1>17, WaitingAfterTask DEF Release, Goto
<1>18. ASSUME Settle PROVE Waiting'
  BY <1>18, WaitingAfterTask DEF Settle, Goto
<1>19. ASSUME Released PROVE Waiting'
  BY <1>19, WaitingAfterTask DEF Released, Finish, Goto
<1>20. ASSUME Destroy PROVE Waiting'
  BY <1>20, WaitingAfterTask DEF Destroy, Goto
<1>21. ASSUME Terminate PROVE Waiting'
  BY <1>21 DEF Terminate, Waiting
<1>22. QED
  BY <1>1, <1>2, <1>3, <1>4, <1>5, <1>6, <1>7, <1>8, <1>9, <1>10, <1>11, <1>12, <1>13,
     <1>14, <1>15, <1>16, <1>17, <1>18, <1>19, <1>20, <1>21 DEF Next, Engine

LEMMA WaitingInvariance == Spec => []Waiting
<1>1. Init => Waiting
  BY DEF Init, Waiting
<1>2. IInv /\ Waiting /\ [Next]_vars => Waiting'
  BY WaitingStep, WaitingKept DEF vars, callvars
<1>3. QED
  BY <1>1, <1>2, Invariance, PTL DEF Spec

(* What has instances in native memory is reserved on disk.                *)
LEMMA Instances ==
  ASSUME IInv, NEW m \in InMemory
  PROVE  at # "settle" /\ \A d \in DirectoriesOf[m] : IsActive(d)
<1>1. at # "settle"
  BY DEF IInv, Residence, InMemory
<1>2. m \in Reserved \/ Leftovers(m) # {}
  <2>1. live[m] = (IF m \in Resident \/ (at = "unreserve" /\ released = <<m, FALSE>>) THEN 1 ELSE 0)
                  + Cardinality(Leftovers(m))
    BY <1>1 DEF IInv, Ledger, Lives, InMemory
  <2>2. Leftovers(m) = {} => Cardinality(Leftovers(m)) = 0
    BY FS_EmptySet, Zenon
  <2>3. released = <<m, FALSE>> => m = released[1]
    OBVIOUS
  <2>4. m \in Resident \/ (at = "unreserve" /\ m = released[1]) \/ Leftovers(m) # {}
    <3>1. CASE m \in Resident \/ (at = "unreserve" /\ released = <<m, FALSE>>)
      BY <2>3, <3>1
    <3>2. CASE ~(m \in Resident \/ (at = "unreserve" /\ released = <<m, FALSE>>))
      <4>1. live[m] = 0 + Cardinality(Leftovers(m)) /\ live[m] > 0
        BY <2>1, <3>2 DEF InMemory
      <4>2. Cardinality(Leftovers(m)) # 0
        BY <4>1
      <4>3. QED
        BY <2>2, <4>2
    <3>3. QED
      BY <3>1, <3>2
  <2>5. QED
    BY <2>4 DEF Reserved
<1>3. ASSUME NEW d \in DirectoriesOf[m] PROVE IsActive(d)
  <2>1. d \in Directories
    BY EngineAssumption DEF InMemory
  <2>2. Reading(Reserved, d) # {} \/ Unconfirmed(d) # {}
    BY <1>2 DEF Reading, Leftovers, Unconfirmed
  <2>3. Reserved \in SUBSET Models
    BY WantedTyped DEF IInv, TypeOK, Reserved, Resident, Wanted, Control, Releasing
  <2>4. /\ IsFiniteSet(Reading(Reserved, d)) /\ Cardinality(Reading(Reserved, d)) \in Nat
        /\ IsFiniteSet(Unconfirmed(d)) /\ Cardinality(Unconfirmed(d)) \in Nat
    <3>1. Reading(Reserved, d) \in SUBSET Models
      BY <2>3 DEF Reading
    <3>2. QED
      BY <3>1, Finite DEF IInv
  <2>5. Cardinality(Reading(Reserved, d)) # 0 \/ Cardinality(Unconfirmed(d)) # 0
    BY <2>2, <2>4, FS_EmptySet
  <2>6. counts[d] = Cardinality(Reading(Reserved, d)) + Cardinality(Unconfirmed(d))
    BY <2>1 DEF IInv, Ledger, Counting
  <2>7. QED
    BY <2>4, <2>5, <2>6 DEF IsActive
<1>4. QED
  BY <1>1, <1>3

(* A step that leaves memory and disk alone and ends at most one call.     *)
LEMMA EndReturns ==
  ASSUME TypeOK, NEW t, End(t), UNCHANGED <<live, disk>>, Closing' <=> Closing,
         ~Closing => phase' = phase
  PROVE  [Client!Next]_(Client!cvars)
<1>1. InMemory' = InMemory /\ (IF Closing THEN "joining" ELSE phase)' = (IF Closing THEN "joining" ELSE phase)
  BY DEF InMemory
<1>2. CASE t \in InProgress
  <2>1. t \in Calls /\ InProgress' = InProgress \ {t}
    BY <1>2 DEF End, TypeOK, InProgress
  <2>2. Client!Return(t)
    BY <1>1, <1>2, <2>1 DEF Client!Return, InProgress, InMemory
  <2>3. QED
    BY <2>1, <2>2 DEF Client!Next
<1>3. CASE t \notin InProgress
  <2>1. InProgress' = InProgress
    BY <1>3 DEF End, TypeOK, InProgress
  <2>2. QED
    BY <1>1, <2>1 DEF Client!cvars, InProgress, InMemory
<1>4. QED
  BY <1>2, <1>3

(* A step of the engine thread under which native memory only shrinks.     *)
LEMMA Shrinks ==
  ASSUME InMemory' \subseteq InMemory, InProgress' = InProgress, UNCHANGED <<phase, disk>>
  PROVE  Client!Next
<1>1. PICK ms \in SUBSET Models : ms = InMemory \ InMemory'
  BY DEF InMemory
<1>2. InMemory' = InMemory \ ms
  BY <1>1
<1>3. Client!Unload(ms)
  BY <1>2 DEF Client!Unload, InProgress, InMemory, Closing
<1>4. QED
  BY <1>3 DEF Client!Next

(* A step that changes nothing a caller or the store sees.                 *)
LEMMA Unseen ==
  ASSUME InProgress' = InProgress, UNCHANGED <<phase, live, disk>>
  PROVE  [Client!Next]_(Client!cvars)
BY DEF Client!cvars, InProgress, Closing

(* Every step is one the contract allows, or none it speaks of.            *)
LEMMA StepRefines ==
  ASSUME IInv, Waiting, Next
  PROVE  [Client!Next]_(Client!cvars)
<1> USE EngineAssumption DEF IInv, TypeOK
<1>1. ASSUME Create PROVE Client!Next
  BY <1>1 DEF Create, callvars, modelvars, Closing, Client!Next, Client!Open
<1>2. ASSUME NEW c \in Calls, Run(c) PROVE Client!Next
  <2>1. c \notin InProgress /\ InProgress' = InProgress \cup {c}
    BY <1>2 DEF Run, InProgress
  <2>2. Client!Begin(c)
    BY <1>2, <2>1 DEF Run, modelvars, Client!Begin, InProgress, Closing
  <2>3. QED
    BY <2>2 DEF Client!Next
<1>3. ASSUME NEW c \in Calls, Cancel(c) PROVE [Client!Next]_(Client!cvars)
  BY <1>3, Unseen DEF Cancel, InProgress, modelvars
<1>4. ASSUME NEW c \in Calls, Enter(c) PROVE [Client!Next]_(Client!cvars)
  <2>1. UNCHANGED <<phase, live, disk>>
    BY <1>4 DEF Enter, modelvars
  <2>2. CASE cancelled[c]
    BY <1>4, <2>1, <2>2, EndReturns DEF Enter, Closing
  <2>3. CASE ~cancelled[c]
    BY <1>4, <2>1, <2>3, Unseen DEF Enter, InProgress
  <2>4. QED
    BY <2>2, <2>3
<1>5. ASSUME NEW c \in Calls, Dispatch(c) PROVE [Client!Next]_(Client!cvars)
  BY <1>5, Unseen DEF Dispatch, InProgress, modelvars
<1>6. ASSUME Shutdown PROVE Client!Next
  BY <1>6 DEF Shutdown, modelvars, Closing, Client!Next, Client!Shutdown
<1>7. ASSUME CloseBackend PROVE [Client!Next]_(Client!cvars)
  BY <1>7 DEF CloseBackend, callvars, modelvars, Closing, Client!cvars
<1>8. ASSUME NEW d \in Directories, Delete(d) PROVE Client!Next
  <2>1. \A m \in InMemory : d \notin DirectoriesOf[m]
    BY <1>8, Instances DEF Delete
  <2>2. UNCHANGED <<phase, call, live>> /\ disk' = disk \ {d}
    BY <1>8 DEF Delete, callvars, modelvars
  <2>3. Client!Delete(d)
    BY <2>1, <2>2 DEF Client!Delete, InMemory, Closing
  <2>4. QED
    BY <2>3 DEF Client!Next
<1>9. ASSUME NEW d \in Directories, Publish(d) PROVE Client!Next
  BY <1>9 DEF Publish, callvars, modelvars, Closing, Client!Next, Client!Publish
<1>10. ASSUME StartCall PROVE [Client!Next]_(Client!cvars)
  <2>1. UNCHANGED <<phase, live, disk>> /\ Head(queue) \in Calls
    BY <1>10 DEF StartCall, modelvars
  <2>2. CASE End(Head(queue))
    BY <2>1, <2>2, EndReturns DEF Closing
  <2>3. CASE call' = [call EXCEPT ![Head(queue)] = "running"]
    <3>1. call[Head(queue)] = "queued"
      BY <1>10 DEF StartCall, Waiting
    <3>2. QED
      BY <2>1, <2>3, <3>1, Unseen DEF InProgress
  <2>4. QED
    BY <1>10, <2>2, <2>3 DEF StartCall
<1>11. ASSUME StartClose PROVE [Client!Next]_(Client!cvars)
  BY <1>11, Unseen DEF StartClose, callvars, modelvars, InProgress
<1>12. ASSUME StartSweep PROVE [Client!Next]_(Client!cvars)
  BY <1>12, Unseen DEF StartSweep, callvars, modelvars, InProgress
<1>13. ASSUME Acquire PROVE [Client!Next]_(Client!cvars)
  <2>1. UNCHANGED <<phase, live, disk>>
    BY <1>13 DEF Acquire, modelvars
  <2>2. CASE End(task)
    BY <2>1, <2>2, EndReturns DEF Closing
  <2>3. CASE UNCHANGED callvars
    BY <2>1, <2>3, Unseen DEF callvars, InProgress
  <2>4. QED
    BY <1>13, <2>2, <2>3 DEF Acquire, GiveUp, Finish, Proceed, Goto
<1>14. ASSUME Load PROVE Client!Next
  <2>1. /\ at = "load" /\ OnDisk(Wanted) /\ live' = [live EXCEPT ![Wanted] = @ + 1]
        /\ UNCHANGED <<phase, call, disk>>
    BY <1>14 DEF Load, Proceed, Goto, callvars
  <2>2. Wanted \in Models /\ task \in InProgress
    BY <2>1, WantedTyped DEF Control, Calling, InProgress
  <2>3. PICK m \in Models : m = Wanted
    BY <2>2
  <2>4. OnDisk(m) /\ live' = [live EXCEPT ![m] = @ + 1]
    BY <2>1, <2>3
  <2>5. InMemory' = InMemory \cup {m}
    BY <2>4 DEF InMemory
  <2>6. Client!Load(m)
    BY <2>1, <2>2, <2>4, <2>5 DEF Client!Load, InMemory, InProgress, OnDisk, Closing
  <2>7. QED
    BY <2>6 DEF Client!Next
<1>15. ASSUME LoadFails PROVE [Client!Next]_(Client!cvars)
  <2>1. UNCHANGED <<phase, live, disk>>
    BY <1>15 DEF LoadFails
  <2>2. CASE End(task)
    BY <2>1, <2>2, EndReturns DEF Closing
  <2>3. CASE UNCHANGED callvars
    BY <2>1, <2>3, Unseen DEF callvars, InProgress
  <2>4. QED
    BY <1>15, <2>2, <2>3 DEF LoadFails, GiveUp, Finish, Goto
<1>16. ASSUME Infer PROVE [Client!Next]_(Client!cvars)
  BY <1>16, Unseen DEF Infer, Goto, callvars, modelvars, InProgress
<1>17. ASSUME Finally PROVE [Client!Next]_(Client!cvars)
  <2>1. UNCHANGED <<phase, live, disk>>
    BY <1>17 DEF Finally, modelvars
  <2>2. CASE End(task)
    BY <2>1, <2>2, EndReturns DEF Closing
  <2>3. CASE UNCHANGED callvars
    BY <2>1, <2>3, Unseen DEF callvars, InProgress
  <2>4. QED
    BY <1>17, <2>2, <2>3 DEF Finally, Finish, Goto
<1>18. ASSUME Release PROVE Client!Next
  <2>1. UNCHANGED <<phase, call, disk>>
    BY <1>18 DEF Release, Goto, callvars
  <2>2. \A m \in Models : live'[m] > 0 => live[m] > 0
    BY <1>18 DEF Release
  <2>3. QED
    BY <2>1, <2>2, Shrinks DEF InMemory, InProgress
<1>19. ASSUME Settle PROVE [Client!Next]_(Client!cvars)
  BY <1>19, Unseen DEF Settle, Goto, callvars, InProgress
<1>20. ASSUME Released PROVE [Client!Next]_(Client!cvars)
  <2>1. UNCHANGED <<phase, live, disk>>
    BY <1>20 DEF Released
  <2>2. CASE End(task)
    BY <2>1, <2>2, EndReturns DEF Closing
  <2>3. CASE UNCHANGED callvars
    BY <2>1, <2>3, Unseen DEF callvars, InProgress
  <2>4. QED
    BY <1>20, <2>2, <2>3 DEF Released, Finish, Goto
<1>21. ASSUME Destroy PROVE Client!Next
  <2>1. UNCHANGED <<phase, call, disk>> /\ live' = [m \in Models |-> 0]
    BY <1>21 DEF Destroy, Goto, callvars
  <2>2. QED
    BY <2>1, Shrinks DEF InMemory, InProgress
<1>22. ASSUME Terminate PROVE Client!Next
  <2>1. /\ at = "settle" /\ phase = "closing" /\ phase' = "none"
        /\ UNCHANGED <<live, disk>> /\ End(task)
    BY <1>22 DEF Terminate, Finish, Control, Calling, Releasing
  <2>2. InProgress = {} /\ InProgress' = {}
    BY <2>1 DEF Phases, End, InProgress
  <2>3. InMemory = {}
    BY <2>1 DEF Residence, InMemory
  <2>4. Client!Closed
    BY <2>1, <2>2, <2>3 DEF Client!Closed, InProgress, InMemory, Closing
  <2>5. QED
    BY <2>4 DEF Client!Next
<1>23. QED
  BY <1>1, <1>2, <1>3, <1>4, <1>5, <1>6, <1>7, <1>8, <1>9,
     <1>10, <1>11, <1>12, <1>13, <1>14, <1>15, <1>16, <1>17, <1>18,
     <1>19, <1>20, <1>21, <1>22 DEF Next, Engine

(* NativeEngine implements the safety half of TranslationClient: accepted  *)
(* calls are not lost, shutdown() waits for them, nothing is in memory     *)
(* when it returns, and what is in memory is not deleted.                  *)
THEOREM KeepsTheContract == Spec => Client!Spec
<1>1. Init => Client!Init
  BY DEF Init, Client!Init, Closing
<1>2. IInv /\ Waiting /\ [Next]_vars => [Client!Next]_(Client!cvars)
  <2>1. ASSUME UNCHANGED vars PROVE UNCHANGED Client!cvars
    BY <2>1 DEF vars, callvars, modelvars, Client!cvars, Closing
  <2>2. QED
    BY <2>1, StepRefines
<1>3. QED
  BY <1>1, <1>2, Invariance, WaitingInvariance, PTL DEF Spec, Client!Spec

(* NativeEngine implements ModelRoot: no directory is removed under an     *)
(* instance that reads from it, and the engine changes none itself.        *)
THEOREM KeepsTheRoot == Spec => ImplementsRoot
<1>1. Init => Root!Init
  BY DEF Init, Root!Init
<1>2. IInv /\ [Next]_vars => [Root!Next]_(Root!rvars)
  <2> SUFFICES ASSUME IInv, [Next]_vars PROVE [Root!Next]_(Root!rvars)
    OBVIOUS
  <2>1. ASSUME NEW d \in Directories, Delete(d) PROVE Root!Next
    <3>1. d \in disk /\ ~IsActive(d) /\ disk' = disk \ {d} /\ live' = live
      BY <2>1 DEF Delete, modelvars
    <3>2. ~\E m \in Models : live[m] > 0 /\ d \in DirectoriesOf[m]
      BY <3>1, Instances DEF InMemory
    <3>3. Root!Remove(d)
      BY <3>1, <3>2 DEF Root!Remove, Root!Become
    <3>4. QED
      BY <3>3 DEF Root!Next
  <2>2. ASSUME NEW d \in Directories, Publish(d) PROVE Root!Next
    <3>1. d \notin disk /\ disk' = disk \cup {d} /\ live' = live
      BY <2>2 DEF Publish, modelvars
    <3>2. Root!Publish(d)
      BY <3>1 DEF Root!Publish, Root!Become
    <3>3. QED
      BY <3>2 DEF Root!Next
  <2>3. CASE disk' = disk
    BY <2>3 DEF Root!Next, Root!Use
  <2>4. CASE Create \/ Shutdown \/ CloseBackend \/ UNCHANGED vars
             \/ \E c \in Calls : Run(c) \/ Cancel(c) \/ Enter(c) \/ Dispatch(c)
    BY <2>3, <2>4 DEF Create, Shutdown, CloseBackend, vars, Run, Cancel, Enter, Dispatch
  <2>5. CASE Engine
    BY <2>3, <2>5 DEF Engine, StartCall, StartClose, StartSweep, Acquire, Load, LoadFails, Infer,
       Finally, Release, Settle, Released, Destroy, Terminate
  <2>6. QED
    BY <2>1, <2>2, <2>4, <2>5 DEF Next
<1>3. QED
  BY <1>1, <1>2, Invariance, PTL DEF Spec, ImplementsRoot, Root!Spec
=============================================================================
