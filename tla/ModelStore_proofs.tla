-------------------------- MODULE ModelStore_proofs -------------------------
(***************************************************************************)
(* Theorems about ModelStore, for any versions, trash names and faults.    *)
(*                                                                         *)
(* CleanupKeepsBest rests on Kept: what a cleanup has still to remove does *)
(* not hold the newest of the installations that verify, which exists      *)
(* because versions are bounded (NewestExists).  The names of deletions never run  *)
(* out because each that is left behind has cost a fault (Littered).       *)
(***************************************************************************)
EXTENDS ModelStore, FiniteSetTheorems, WellFoundedInduction, TLAPS

(* What the place of an operation says about the operation.                *)
Phase ==
    /\ at = "sweep" => op = "cleanup"
    /\ at = "erase" => op \in {"delete", "cleanup"}
    /\ at = "remove" => op \in {"delete", "cleanup"}
    /\ op = "none" <=> at = "idle"
    /\ op = "download" <=> at = "fetch"
    /\ op = "none" => todo = {}

(* Each name of an incomplete deletion cost a fault, but for the one in    *)
(* progress.                                                               *)
Littered ==
    /\ at # "erase" => erasing = {}
    /\ erasing \subseteq trash
    /\ erasing = {} \/ \E t \in TrashNames : erasing = {t}
    /\ Cardinality(trash \ erasing) <= faults

(* What a cleanup is still to remove leaves the newest that verifies.      *)
Kept ==
    op = "cleanup" /\ todo # {} =>
        Verified # {} /\ Newest(Verified) \notin todo

IInv == TypeOK /\ Phase /\ Littered /\ InUseStays /\ Kept

-----------------------------------------------------------------------------
(* A nonempty set of natural numbers has a least one.                      *)
LEMMA Least ==
  ASSUME NEW T \in SUBSET Nat, T # {}
  PROVE  \E x \in T : \A y \in T : x <= y
<1> DEFINE R == {p \in Nat \X Nat : p[1] < p[2]}
<1>1. R = OpToRel(<, Nat)
  BY DEF OpToRel
<1>2. IsWellFoundedOn(R, Nat)
  BY <1>1, NatLessThanWellFounded
<1>3. \E x \in T : \A y \in T : <<y, x>> \notin R
  <2> HIDE DEF R
  <2> QED
    BY <1>2, WFMin
<1>4. PICK x \in T : \A y \in T : <<y, x>> \notin R
  BY <1>3
<1>5. ASSUME NEW y \in T PROVE x <= y
  <2>1. x \in Nat /\ y \in Nat
    OBVIOUS
  <2>2. <<y, x>> \in Nat \X Nat
    BY <2>1
  <2>3. ~ (y < x)
    BY <1>4, <2>2
  <2>4. QED
    BY <2>1, <2>3
<1>6. QED
  BY <1>5

(* Every nonempty set of installations has a newest, and it comes first.   *)
LEMMA NewestExists ==
  ASSUME NEW S \in SUBSET Entries, S # {}
  PROVE  Newest(S) \in S /\ \A e \in S \ {Newest(S)} : Before(Newest(S), e)
<1> USE StoreAssumption DEF Entries, Versions
<1> DEFINE T == {MaxVersion - e[1] : e \in S}
<1>1. T \in SUBSET Nat /\ T # {}
  OBVIOUS
<1>2. PICK x \in T : \A y \in T : x <= y
  BY <1>1, Least
<1>3. PICK e \in S : x = MaxVersion - e[1]
  OBVIOUS
<1>4. \A f \in S : f[1] <= e[1]
  <2> SUFFICES ASSUME NEW f \in S PROVE f[1] <= e[1]
    OBVIOUS
  <2>1. MaxVersion - e[1] <= MaxVersion - f[1]
    BY <1>2, <1>3
  <2> QED
    BY <2>1
<1>5. \E d \in S : \A f \in S \ {d} : Before(d, f)
  <2>1. CASE <<e[1], FALSE>> \in S
    <3>1. \A f \in S \ {<<e[1], FALSE>>} : Before(<<e[1], FALSE>>, f)
      <4> SUFFICES ASSUME NEW f \in S, f # <<e[1], FALSE>>
                   PROVE  Before(<<e[1], FALSE>>, f)
        OBVIOUS
      <4>1. f = <<f[1], f[2]>> /\ f[2] \in BOOLEAN /\ f[1] <= e[1]
        BY <1>4
      <4>2. f[1] # e[1] \/ f[2] = TRUE
        BY <4>1
      <4>3. f[1] \in Int /\ e[1] \in Int
        BY <4>1
      <4> QED
        BY <4>1, <4>2, <4>3 DEF Before
    <3> QED
      BY <2>1, <3>1
  <2>2. CASE <<e[1], FALSE>> \notin S
    <3>1. e = <<e[1], TRUE>>
      <4>1. e = <<e[1], e[2]>> /\ e[2] \in BOOLEAN
        OBVIOUS
      <4> QED
        BY <4>1, <2>2
    <3>2. ASSUME NEW f \in S, f # e PROVE Before(e, f)
      <4>1. f = <<f[1], f[2]>> /\ f[2] \in BOOLEAN /\ f[1] <= e[1]
        BY <1>4
      <4>2. f[1] # e[1]
        BY <2>2, <3>1, <3>2, <4>1
      <4> QED
        BY <4>1, <4>2 DEF Before
    <3> QED
      BY <3>2
  <2> QED
    BY <2>1, <2>2
<1>6. QED
  BY <1>5 DEF Newest

(* Of two installations at most one comes before the other.                *)
LEMMA BeforeAsymmetric ==
  ASSUME NEW d \in Entries, NEW e \in Entries, Before(d, e)
  PROVE  ~Before(e, d)
BY StoreAssumption DEF Entries, Versions, Before

(* The newest of some is the newest of fewer that it is among.             *)
LEMMA NewestAmong ==
  ASSUME NEW S \in SUBSET Entries, NEW T \in SUBSET S, Newest(S) \in T
  PROVE  Newest(T) = Newest(S)
<1> DEFINE n == Newest(S)
<1> DEFINE k == Newest(T)
<1>1. n \in S /\ \A e \in S \ {n} : Before(n, e)
  BY NewestExists
<1>2. k \in T /\ \A e \in T \ {k} : Before(k, e)
  <2>1. T \in SUBSET Entries /\ T # {}
    OBVIOUS
  <2> QED
    BY <2>1, NewestExists
<1>3. SUFFICES ASSUME k # n PROVE FALSE
  OBVIOUS
<1>4. Before(n, k) /\ Before(k, n)
  BY <1>1, <1>2, <1>3
<1>5. n \in Entries /\ k \in Entries
  BY <1>1, <1>2
<1> HIDE DEF n, k
<1>6. QED
  BY <1>4, <1>5, BeforeAsymmetric

(* The newest stays the newest when another goes.                          *)
LEMMA NewestStays ==
  ASSUME NEW S \in SUBSET Entries, S # {}, NEW d \in Entries, d # Newest(S)
  PROVE  S \ {d} # {} /\ Newest(S \ {d}) = Newest(S)
<1>1. Newest(S) \in S \ {d}
  BY NewestExists
<1>2. QED
  BY <1>1, NewestAmong

-----------------------------------------------------------------------------
(* Steps.                                                                  *)

(* A removal finds a free name.                                            *)
LEMMA FreeName ==
  ASSUME IInv, at = "remove"
  PROVE  NewName \in TrashNames
<1>1. trash \ erasing = trash
  BY DEF IInv, Littered
<1>2. trash \in SUBSET TrashNames /\ Cardinality(trash) <= faults /\ faults \in 0 .. MaxFaults
  BY <1>1 DEF IInv, Littered, TypeOK
<1>3. trash # TrashNames
  <2>1. CASE trash = TrashNames
    <3>1. Cardinality(trash) \in Nat
      BY <2>1, FS_CardinalityType, StoreAssumption
    <3>2. QED
      BY <1>2, <2>1, <3>1, StoreAssumption
  <2>2. QED
    BY <2>1
<1>4. \E t \in TrashNames : t \notin trash
  BY <1>2, <1>3
<1>5. QED
  BY <1>4 DEF NewName

(* Every step keeps the types.                                             *)
LEMMA TypeOKStep ==
  ASSUME IInv, Next
  PROVE  TypeOK'
<1> USE StoreAssumption DEF IInv, TypeOK, tempvars, lockvars, findvars, Finish, Fault
<1>1. gap' \in BOOLEAN
  BY DEF Next, Witness, Starts
<1>2. ASSUME NEW d \in Entries, Reserve(d) \/ Unreserve(d) \/ Damage(d) PROVE TypeOK'
  BY <1>1, <1>2 DEF Reserve, Unreserve, Damage
<1>3. ASSUME NEW v \in Versions, Age(v) \/ Download(v) PROVE TypeOK'
  BY <1>1, <1>3 DEF Age, Download
<1>4. CASE Crash
  BY <1>1, <1>4 DEF Crash
<1>5. CASE Delete
  BY <1>1, <1>5 DEF Delete, Installed
<1>6. CASE Cleanup
  BY <1>1, <1>6 DEF Cleanup, Remnants
<1>7. ASSUME NEW v \in Versions, Publish(v) \/ DownloadFails(v) PROVE TypeOK'
  <2>1. CASE Publish(v)
    BY <1>1, <2>1 DEF Publish
  <2>2. CASE DownloadFails(v)
    BY <1>1, <2>2 DEF DownloadFails
  <2> QED
    BY <1>7, <2>1, <2>2
<1>8. CASE Sweep
  <2> PICK r \in due : /\ due' = due \ {r}
                       /\ \/ /\ trash' = trash \ {r} /\ temps' = temps \ {r} /\ stale' = stale \ {r}
                             /\ UNCHANGED faults
                          \/ Fault /\ UNCHANGED <<trash, tempvars>>
    BY <1>8 DEF Sweep
  <2> QED
    BY <1>1, <1>8 DEF Sweep
<1>9. CASE Supersede
  <2>1. todo' \in SUBSET Entries
    BY <1>9 DEF Supersede, Superseded, Installed
  <2> QED
    BY <1>1, <1>9, <2>1 DEF Supersede, Phase
<1>10. CASE Unpublish
  <2>1. PICK d \in todo :
            /\ todo' = todo \ {d}
            /\ \/ /\ erasing' = {NewName}
                  /\ trash' = trash \cup erasing'
                  /\ state' = [state EXCEPT ![d] = "absent"]
                  /\ at' = "erase"
                  /\ UNCHANGED faults
               \/ UNCHANGED <<state, trash, at, erasing, faults>>
               \/ Fault /\ UNCHANGED <<state, trash, at, erasing>>
    BY <1>10 DEF Unpublish
  <2>2. NewName \in TrashNames
    BY <1>10, FreeName DEF Unpublish
  <2> QED
    BY <1>1, <1>10, <2>1, <2>2 DEF Unpublish
<1>11. CASE Erase
  BY <1>1, <1>11 DEF Erase
<1>12. CASE Removed
  BY <1>1, <1>12 DEF Removed
<1>13. CASE Find \/ List \/ Check \/ NoneFound
  BY <1>1, <1>13 DEF Find, List, Check, NoneFound, EndSearch, Installed
<1>14. QED
  BY <1>2, <1>3, <1>4, <1>5, <1>6, <1>7, <1>8, <1>9, <1>10, <1>11, <1>12, <1>13
     DEF Next, Step, Manager

(* Places and operations go together.                                     *)
LEMMA PhaseStep ==
  ASSUME IInv, Next
  PROVE  Phase'
<1> USE DEF IInv, TypeOK, Phase, tempvars, lockvars, findvars, Finish, Fault
<1>1. ASSUME NEW d \in Entries, Reserve(d) \/ Unreserve(d) \/ Damage(d) PROVE Phase'
  BY <1>1 DEF Reserve, Unreserve, Damage
<1>2. ASSUME NEW v \in Versions, Age(v) \/ Download(v) PROVE Phase'
  BY <1>2 DEF Age, Download
<1>3. ASSUME NEW v \in Versions, Publish(v) \/ DownloadFails(v) PROVE Phase'
  BY <1>3 DEF Publish, DownloadFails
<1>4. CASE Crash \/ Delete \/ Cleanup \/ Sweep \/ Supersede \/ Erase \/ Removed
  BY <1>4 DEF Crash, Delete, Cleanup, Sweep, Supersede, Erase, Removed
<1>5. CASE Unpublish
  BY <1>5 DEF Unpublish
<1>6. CASE Find \/ List \/ Check \/ NoneFound
  BY <1>6 DEF Find, List, Check, NoneFound, EndSearch
<1>7. QED
  BY <1>1, <1>2, <1>3, <1>4, <1>5, <1>6 DEF Next, Step, Manager

(* Cardinality when elements go.                                           *)
LEMMA Fewer ==
  ASSUME NEW S, IsFiniteSet(S), NEW T
  PROVE  /\ IsFiniteSet(S \ T)
         /\ Cardinality(S \ T) \in Nat
         /\ Cardinality(S \ T) <= Cardinality(S)
<1>1. S \ T \in SUBSET S
  OBVIOUS
<1>2. QED
  BY <1>1, FS_Subset, FS_CardinalityType

LEMMA OneLess ==
  ASSUME NEW S, IsFiniteSet(S), NEW x
  PROVE  Cardinality(S) <= Cardinality(S \ {x}) + 1
<1>1. Cardinality(S \ {x}) = IF x \in S THEN Cardinality(S) - 1 ELSE Cardinality(S)
  BY FS_RemoveElement
<1>2. Cardinality(S) \in Nat
  BY FS_CardinalityType
<1>3. QED
  BY <1>1, <1>2

(* Every name of a deletion that is left behind costs a fault.             *)
LEMMA LitteredStep ==
  ASSUME IInv, Next
  PROVE  Littered'
<1> USE StoreAssumption DEF IInv, tempvars, lockvars, findvars, Finish, Fault
<1>1. /\ IsFiniteSet(trash) /\ faults \in Nat
      /\ Cardinality(trash) \in Nat /\ Cardinality(trash \ erasing) \in Nat
  <2>1. IsFiniteSet(trash)
    BY FS_Subset DEF TypeOK
  <2>2. Cardinality(trash) \in Nat
    BY <2>1, FS_CardinalityType
  <2>3. Cardinality(trash \ erasing) \in Nat
    BY <2>1, Fewer
  <2>4. faults \in Nat
    BY DEF TypeOK
  <2>5. QED
    BY <2>1, <2>2, <2>3, <2>4
<1>2. ASSUME UNCHANGED <<trash, erasing>>, faults' \in {faults, faults + 1},
             at' = "erase" \/ erasing = {}
      PROVE  Littered'
  BY <1>1, <1>2 DEF Littered
<1>3. Cardinality(trash) <= Cardinality(trash \ erasing) + 1
  <2>1. CASE erasing = {}
    <3>1. trash \ erasing = trash
      BY <2>1
    <3>2. QED
      BY <1>1, <3>1
  <2>2. ASSUME NEW t, erasing = {t} PROVE Cardinality(trash) <= Cardinality(trash \ erasing) + 1
    BY <1>1, <2>2, OneLess
  <2>3. QED
    BY <2>1, <2>2 DEF Littered
<1>4. ASSUME NEW d \in Entries, Reserve(d) \/ Unreserve(d) \/ Damage(d) PROVE Littered'
  <2>1. UNCHANGED <<trash, erasing, at>> /\ faults' \in {faults, faults + 1}
    BY <1>4 DEF Reserve, Unreserve, Damage
  <2>2. QED
    BY <1>2, <2>1 DEF Littered
<1>5. ASSUME NEW v \in Versions, Age(v) \/ Download(v) PROVE Littered'
  <2>1. UNCHANGED <<trash, erasing, faults>> /\ (at' = at \/ at = "idle")
    BY <1>5 DEF Age, Download, Phase
  <2>2. QED
    BY <1>2, <2>1 DEF Littered
<1>6. ASSUME NEW v \in Versions, Publish(v) \/ DownloadFails(v) PROVE Littered'
  <2>1. erasing = {} /\ erasing' = {} /\ UNCHANGED <<trash, faults>>
    BY <1>6 DEF Publish, DownloadFails, Phase, Littered
  <2>2. QED
    BY <1>2, <2>1
<1>7. CASE Crash
  <2>1. erasing' = {} /\ trash' = trash /\ faults' = faults + 1
    BY <1>7 DEF Crash
  <2>2. trash' \ erasing' = trash
    BY <2>1
  <2>3. QED
    BY <1>1, <1>3, <2>1, <2>2 DEF Littered
<1>8. CASE Delete \/ Cleanup \/ Supersede
  <2>1. UNCHANGED <<trash, erasing, faults>> /\ at # "erase"
    BY <1>8 DEF Delete, Cleanup, Supersede, Phase
  <2>2. QED
    BY <1>2, <2>1 DEF Littered
<1>9. CASE Sweep
  <2>1. erasing = {} /\ UNCHANGED erasing
    BY <1>9 DEF Sweep, Littered
  <2>2. PICK r : \/ trash' = trash \ {r} /\ UNCHANGED faults
                 \/ trash' = trash /\ faults' = faults + 1
    BY <1>9 DEF Sweep
  <2>3. trash \ erasing = trash /\ trash' \ erasing' = trash'
    BY <2>1
  <2>4. CASE trash' = trash \ {r} /\ UNCHANGED faults
    <3>1. Cardinality(trash') \in Nat /\ Cardinality(trash') <= Cardinality(trash)
      BY <1>1, <2>4, Fewer
    <3>2. QED
      BY <1>1, <2>1, <2>3, <2>4, <3>1 DEF Littered
  <2>5. QED
    BY <1>2, <2>1, <2>2, <2>4
<1>10. CASE Unpublish
  <2>1. erasing = {}
    BY <1>10 DEF Unpublish, Littered
  <2>2. CASE erasing' = {NewName} /\ trash' = trash \cup erasing' /\ at' = "erase" /\ UNCHANGED faults
    <3>1. trash' \ erasing' = trash \ {NewName} /\ trash \ erasing = trash
      BY <2>1, <2>2
    <3>2. Cardinality(trash \ {NewName}) \in Nat /\ Cardinality(trash \ {NewName}) <= Cardinality(trash)
      BY <1>1, Fewer
    <3>3. NewName \in TrashNames
      BY <1>10, FreeName DEF Unpublish
    <3>4. QED
      BY <1>1, <2>2, <3>1, <3>2, <3>3 DEF Littered
  <2>3. CASE UNCHANGED <<trash, erasing>> /\ faults' \in {faults, faults + 1}
    BY <1>2, <2>1, <2>3
  <2>4. QED
    BY <1>10, <2>2, <2>3 DEF Unpublish
<1>11. CASE Erase
  <2>1. erasing' = {}
    BY <1>11 DEF Erase
  <2>2. CASE trash' = trash \ erasing /\ UNCHANGED faults
    <3>1. trash' \ erasing' = trash \ erasing
      BY <2>1, <2>2
    <3>2. QED
      BY <1>1, <2>1, <2>2, <3>1 DEF Littered
  <2>3. CASE trash' = trash /\ faults' = faults + 1
    <3>1. trash' \ erasing' = trash
      BY <2>1, <2>3
    <3>2. QED
      BY <1>1, <1>3, <2>1, <2>3, <3>1 DEF Littered
  <2>4. QED
    BY <1>11, <2>2, <2>3 DEF Erase
<1>12. CASE Removed
  <2>1. erasing = {} /\ erasing' = {} /\ UNCHANGED <<trash, faults>>
    BY <1>12 DEF Removed, Littered
  <2>2. QED
    BY <1>2, <2>1
<1>13. CASE Find \/ List \/ Check \/ NoneFound
  <2>1. UNCHANGED <<trash, erasing, at, faults>>
    BY <1>13 DEF Find, List, Check, NoneFound, EndSearch
  <2>2. QED
    BY <1>2, <2>1 DEF Littered
<1>14. QED
  BY <1>4, <1>5, <1>6, <1>7, <1>8, <1>9, <1>10, <1>11, <1>12, <1>13 DEF Next, Step, Manager

(* What the engine reads from is not removed.                              *)
LEMMA InUseStaysStep ==
  ASSUME IInv, Next
  PROVE  InUseStays'
<1> USE DEF IInv, TypeOK, Phase, InUseStays, Installed, tempvars, lockvars, findvars, Finish, Fault
<1>1. ASSUME NEW d \in Entries, Reserve(d) \/ Unreserve(d) \/ Damage(d) PROVE InUseStays'
  BY <1>1 DEF Reserve, Unreserve, Damage, Monitor, Usable, Verified
<1>2. ASSUME NEW v \in Versions, Age(v) \/ Download(v) PROVE InUseStays'
  BY <1>2 DEF Age, Download
<1>3. ASSUME NEW v \in Versions, Publish(v) \/ DownloadFails(v) PROVE InUseStays'
  BY <1>3 DEF Publish, DownloadFails
<1>4. CASE Crash \/ Cleanup \/ Sweep \/ Supersede \/ Erase \/ Removed
  BY <1>4 DEF Crash, Cleanup, Sweep, Supersede, Erase, Removed
<1>5. CASE Delete
  BY <1>5 DEF Delete
<1>6. CASE Unpublish
  BY <1>6 DEF Unpublish, InUse
<1>7. CASE Find \/ List \/ Check \/ NoneFound
  BY <1>7 DEF Find, List, Check, NoneFound, EndSearch
<1>8. QED
  BY <1>1, <1>2, <1>3, <1>4, <1>5, <1>6, <1>7 DEF Next, Step, Manager

(* A cleanup takes an installation that is not the newest to verify.      *)
LEMMA UnpublishKeeps ==
  ASSUME IInv, Unpublish, op = "cleanup"
  PROVE  Verified # {} => Verified' # {} /\ Newest(Verified') = Newest(Verified)
<1>1. PICK d \in todo : state' = [state EXCEPT ![d] = "absent"] \/ UNCHANGED state
  BY DEF Unpublish
<1>2. d \in Entries /\ Verified \in SUBSET Entries /\ state \in [Entries -> {"absent", "whole", "damaged", "unknown"}]
  BY DEF IInv, TypeOK, Verified
<1>3. CASE UNCHANGED state
  BY <1>3 DEF Verified
<1>4. CASE state' = [state EXCEPT ![d] = "absent"]
  <2>1. Verified' = Verified \ {d}
    BY <1>2, <1>4 DEF Verified
  <2>2. Verified # {} /\ d # Newest(Verified)
    BY <1>1 DEF IInv, Kept
  <2>3. QED
    BY <1>2, <2>1, <2>2, NewestStays
<1>5. QED
  BY <1>1, <1>3, <1>4

(* What a cleanup has still to remove leaves the newest that verifies.     *)
LEMMA KeptStep ==
  ASSUME IInv, Next
  PROVE  Kept'
<1> USE DEF IInv, Phase, tempvars, lockvars, findvars, Finish
<1>1. ASSUME UNCHANGED <<state, op, todo>> PROVE Kept'
  BY <1>1 DEF Kept, Verified
<1>2. ASSUME op' # "cleanup" \/ todo' = {} PROVE Kept'
  BY <1>2 DEF Kept
<1>3. ASSUME NEW d \in Entries, Reserve(d) \/ Unreserve(d) \/ Damage(d) PROVE Kept'
  BY <1>1, <1>2, <1>3 DEF Reserve, Unreserve, Damage
<1>4. ASSUME NEW v \in Versions, Age(v) \/ Download(v) PROVE Kept'
  BY <1>1, <1>2, <1>4 DEF Age, Download
<1>5. ASSUME NEW v \in Versions, Publish(v) \/ DownloadFails(v) PROVE Kept'
  BY <1>2, <1>5 DEF Publish, DownloadFails
<1>6. CASE Crash \/ Delete \/ Cleanup \/ Removed
  BY <1>2, <1>6 DEF Crash, Delete, Cleanup, Removed
<1>7. CASE Sweep \/ Erase \/ Find \/ List \/ Check \/ NoneFound
  BY <1>1, <1>7 DEF Sweep, Erase, Find, List, Check, NoneFound, EndSearch
<1>8. CASE Supersede
  <2>1. PICK keep \in SUBSET Entries :
            todo' = UNION {Superseded(best) : best \in Best(Installed)} \ keep
    BY <1>8 DEF Supersede
  <2>2. Installed \cap Verified = Verified /\ Verified \in SUBSET Entries
    BY DEF Installed, Verified
  <2>3. CASE Verified = {}
    <3>1. Best(Installed) = {}
      BY <2>2, <2>3 DEF Best
    <3>2. QED
      BY <1>2, <2>1, <3>1
  <2>4. CASE Verified # {}
    <3>1. Best(Installed) = {Newest(Verified)}
      BY <2>2, <2>4 DEF Best
    <3>2. Newest(Verified) \in Entries
      BY <2>2, <2>4, NewestExists
    <3>3. Newest(Verified) \notin Superseded(Newest(Verified))
      BY <3>2, StoreAssumption DEF Superseded, Entries, Versions
    <3>4. Newest(Verified) \notin todo'
      BY <2>1, <3>1, <3>3
    <3>5. Verified' = Verified
      BY <1>8 DEF Supersede, Verified
    <3>6. QED
      BY <2>4, <3>4, <3>5 DEF Kept
  <2>5. QED
    BY <2>3, <2>4
<1>9. CASE Unpublish
  <2>1. CASE op = "cleanup"
    <3>1. Verified # {} => Verified' # {} /\ Newest(Verified') = Newest(Verified)
      BY <1>9, <2>1, UnpublishKeeps
    <3>2. todo' \subseteq todo /\ todo # {} /\ op' = op
      BY <1>9 DEF Unpublish
    <3>3. QED
      BY <2>1, <3>1, <3>2 DEF Kept
  <2>2. CASE op # "cleanup"
    BY <1>2, <1>9, <2>2 DEF Unpublish
  <2>3. QED
    BY <2>1, <2>2
<1>10. QED
  BY <1>3, <1>4, <1>5, <1>6, <1>7, <1>8, <1>9 DEF Next, Step, Manager

-----------------------------------------------------------------------------
(* The inductive invariant holds in every state.                           *)
LEMMA Invariance == Spec => []IInv
<1>1. Init => IInv
  <2> SUFFICES ASSUME Init PROVE IInv
    OBVIOUS
  <2>1. TypeOK
    BY StoreAssumption DEF Init, TypeOK
  <2>2. Phase /\ InUseStays /\ Kept
    BY DEF Init, Phase, InUseStays, Kept, Installed
  <2>3. Littered
    <3>1. trash \ erasing = {}
      BY DEF Init
    <3>2. QED
      BY <3>1, FS_EmptySet DEF Init, Littered
  <2>4. QED
    BY <2>1, <2>2, <2>3 DEF IInv
<1>2. IInv /\ [Next]_vars => IInv'
  <2> SUFFICES ASSUME IInv, [Next]_vars PROVE IInv'
    OBVIOUS
  <2>1. CASE Next
    BY <2>1, TypeOKStep, PhaseStep, LitteredStep, InUseStaysStep, KeptStep DEF IInv
  <2>2. CASE UNCHANGED vars
    BY <2>2 DEF IInv, TypeOK, Phase, Littered, InUseStays, Kept, Installed, Verified,
                vars, tempvars, lockvars, findvars
  <2>3. QED
    BY <2>1, <2>2
<1>3. QED
  BY <1>1, <1>2, PTL DEF Spec

(* Every variable keeps its type: there is a free name for every deletion. *)
THEOREM TypeCorrect == Spec => []TypeOK
<1>1. IInv => TypeOK
  BY DEF IInv
<1>2. QED
  BY <1>1, Invariance, PTL

(* What the engine reads from is never removed (ModelStore.kt,             *)
(* ifInactive).                                                            *)
THEOREM InUseAlwaysStays == Spec => []InUseStays
<1>1. IInv => InUseStays
  BY DEF IInv
<1>2. QED
  BY <1>1, Invariance, PTL

(* No step of a cleanup changes which installation is the newest that      *)
(* verifies (ModelStore.cleanup()); if this engine supports it, no step    *)
(* changes what a search selects.                                          *)
THEOREM CleanupAlwaysKeepsBest == Spec => CleanupKeepsBest
<1> DEFINE Kept1 == Verified' # {} /\ Newest(Verified') = Newest(Verified)
<1> DEFINE Selected1 == Newest(Verified) \in Usable =>
                           Usable' # {} /\ Newest(Usable') = Newest(Verified)
<1> DEFINE A == op = "cleanup" /\ Verified # {} => Kept1 /\ Selected1
<1>1. IInv /\ [Next]_vars => [A]_vars
  <2> SUFFICES ASSUME IInv, Next, op = "cleanup", Verified # {}
               PROVE  Kept1 /\ Selected1
    OBVIOUS
  <2>1. Kept1
    <3>1. CASE Unpublish
      BY <3>1, UnpublishKeeps
    <3>2. CASE UNCHANGED state
      BY <3>2 DEF Verified
    <3>3. UNCHANGED state \/ Unpublish
      BY DEF Next, Step, Manager, Reserve, Unreserve, Damage, Age, Download, Crash, Delete,
             Cleanup, Publish, DownloadFails, Sweep, Supersede, Erase, Removed, Find, List,
             Check, NoneFound, IInv, Phase
    <3>4. QED
      BY <3>1, <3>2, <3>3
  <2>2. ASSUME Newest(Verified) \in Usable
        PROVE  Usable' # {} /\ Newest(Usable') = Newest(Verified)
    <3>1. Verified' \in SUBSET Entries /\ Usable' \in SUBSET Verified'
      BY DEF Verified, Usable
    <3>2. Newest(Verified') \in Verified'
      BY <2>1, <3>1, NewestExists
    <3>3. Newest(Verified') \in Usable'
      BY <2>1, <2>2, <3>2 DEF Usable
    <3>4. Newest(Usable') = Newest(Verified')
      BY <3>1, <3>3, NewestAmong
    <3>5. QED
      BY <2>1, <3>3, <3>4
  <2>3. QED
    BY <2>1, <2>2
<1>2. QED
  BY <1>1, Invariance, PTL DEF Spec, CleanupKeepsBest

-----------------------------------------------------------------------------
(* The contract of the model root.                                         *)

Seen == [d \in Entries |-> IF state[d] \in {"damaged", "unknown"} THEN "bad" ELSE state[d]]

LEMMA SeenOne ==
  ASSUME TypeOK, NEW d \in Entries, NEW s \in {"absent", "whole", "damaged", "unknown"},
         state' = [state EXCEPT ![d] = s]
  PROVE  /\ s \in {"absent", "whole"} => Seen' = [Seen EXCEPT ![d] = s]
         /\ s \in {"damaged", "unknown"} => Seen' = [Seen EXCEPT ![d] = "bad"]
BY DEF TypeOK, Seen

(* ModelStore implements ModelRoot: directories come and go one at a time, *)
(* appear whole under a free name, and go only while nobody reads them.    *)
THEOREM KeepsTheContract == Spec => ImplementsRoot
<1>1. Init => Root!Init
  BY DEF Init, Root!Init
<1>2. ASSUME IInv, [Next]_vars
      PROVE  [Root!Next]_(Root!rvars)
  <2> USE <1>2 DEF IInv
  <2>1. CASE UNCHANGED <<state, reserved>>
    BY <2>1 DEF Root!rvars
  <2>2. ASSUME UNCHANGED state, reserved' \in SUBSET Entries
        PROVE  Root!Next
    BY <2>2 DEF Root!Next, Root!Use
  <2>3. ASSUME NEW v \in Versions, Publish(v)
        PROVE  Root!Next
    <3>1. PICK b \in BOOLEAN : state[<<v, b>>] = "absent"
                               /\ state' = [state EXCEPT ![<<v, b>>] = "whole"]
      BY <2>3 DEF Publish
    <3>2. PICK d \in Entries : d = <<v, b>>
      BY DEF Entries
    <3>3. Seen[d] = "absent" /\ Seen' = [Seen EXCEPT ![d] = "whole"] /\ reserved' = reserved
      BY <2>3, <3>1, <3>2, SeenOne DEF Publish, Seen
    <3>4. Root!Publish(d)
      BY <3>3 DEF Root!Publish, Root!Become, Seen
    <3>5. QED
      BY <3>4 DEF Root!Next
  <2>4. ASSUME NEW d \in Entries, Damage(d)
        PROVE  Root!Next
    <3>1. Seen[d] = "whole" /\ Seen' = [Seen EXCEPT ![d] = "bad"] /\ reserved' = reserved
      BY <2>4, SeenOne DEF Damage, Seen
    <3>2. Root!Damage(d)
      BY <3>1 DEF Root!Damage, Root!Become, Seen
    <3>3. QED
      BY <3>2 DEF Root!Next
  <2>5. ASSUME Unpublish, state' # state
        PROVE  Root!Next
    <3>1. PICK d \in todo : ~InUse(d) /\ state' = [state EXCEPT ![d] = "absent"]
      BY <2>5 DEF Unpublish
    <3>2. d \in Entries /\ d \notin reserved /\ state[d] # "absent" /\ reserved' = reserved
      BY <2>5, <3>1 DEF TypeOK, InUse, Unpublish
    <3>3. Seen[d] # "absent" /\ Seen' = [Seen EXCEPT ![d] = "absent"]
      BY <3>1, <3>2, SeenOne DEF Seen
    <3>4. Root!Remove(d)
      BY <3>2, <3>3 DEF Root!Remove, Root!Become, Seen
    <3>5. QED
      BY <3>2, <3>4 DEF Root!Next
  <2>6. CASE Unpublish
    BY <2>1, <2>5, <2>6 DEF Unpublish
  <2>7. ASSUME NEW d \in Entries, Reserve(d) \/ Unreserve(d)
        PROVE  Root!Next
    BY <2>2, <2>7 DEF Reserve, Unreserve, TypeOK
  <2>8. CASE Crash
    BY <2>2, <2>8 DEF Crash
  <2>9. CASE UNCHANGED vars
    BY <2>1, <2>9 DEF vars
  <2>10. CASE \E v \in Versions : Age(v) \/ Download(v) \/ DownloadFails(v)
    BY <2>1, <2>10 DEF Age, Download, DownloadFails
  <2>11. CASE Delete \/ Cleanup \/ Find \/ List \/ Check \/ NoneFound \/ Sweep \/ Supersede
              \/ Erase \/ Removed
    BY <2>1, <2>11 DEF Delete, Cleanup, Find, List, Check, NoneFound, Sweep, Supersede, Erase, Removed
  <2>12. QED
    BY <2>3, <2>4, <2>6, <2>7, <2>8, <2>9, <2>10, <2>11 DEF Next, Step, Manager
<1>3. QED
  BY <1>1, <1>2, Invariance, PTL DEF Spec, ImplementsRoot, Root!Spec
=============================================================================
