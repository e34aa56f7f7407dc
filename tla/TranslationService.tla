------------------------- MODULE TranslationService -------------------------
(***************************************************************************)
(* What a translation service promises its callers: every request it       *)
(* accepts is answered exactly once, eventually.  Answering a request may  *)
(* create the request for the second leg of a pivot in the same step, and  *)
(* a request with nothing to translate is answered as it is created.       *)
(***************************************************************************)
EXTENDS Integers

CONSTANT MaxRequests        \* requests are numbered from 1 as they are created

VARIABLES
    created,                \* how many requests exist
    answers                 \* answers[r]: responses built for request r

svars == <<created, answers>>

Requests == 1 .. MaxRequests

Init ==
    /\ created = 0
    /\ answers = [r \in Requests |-> 0]

(* Some requests are created, and some that had no answer get one.         *)
Serve(n, done) ==
    /\ created' = created + n
    /\ created' <= MaxRequests
    /\ done \subseteq {r \in 1 .. created' : answers[r] = 0}
    /\ answers' = [r \in Requests |-> IF r \in done THEN 1 ELSE answers[r]]

Next == \E n \in 0 .. MaxRequests, done \in SUBSET Requests : Serve(n, done)

Spec == Init /\ [][Next]_svars

EveryRequestAnswered ==
    \A r \in Requests : r <= created ~> answers[r] = 1

FairSpec == Spec /\ EveryRequestAnswered
=============================================================================
