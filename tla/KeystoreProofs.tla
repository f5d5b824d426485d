--------------------------- MODULE KeystoreProofs ---------------------------
(***************************************************************************)
(* Proofs about Keystore, for any number of blocks, subjects and trust      *)
(* messages and any combination of failures.  IInv is the inductive         *)
(* invariant; the properties of the runs follow from it.                    *)
(***************************************************************************)
EXTENDS Keystore, FiniteSetTheorems, TLAPS

IInv == /\ TypeOK
        /\ PoolAccounting
        /\ PinAccounting
        /\ KeyOfSender
        /\ ResultsHaveItems
        /\ OneVerification
        /\ NoResultDuringEcdh

-----------------------------------------------------------------------------
(* Lists without repetition. *)

Distinct(l) == \A i, j \in 1..Len(l) : l[i] = l[j] => i = j

(* An element of a list. *)
LEMMA ElementOf ==
    ASSUME NEW S, NEW l \in Seq(S), NEW i \in 1..Len(l)
    PROVE  l[i] \in S
  OBVIOUS

(* What list_add does to the elements of a list. *)
LEMMA AppendList ==
    ASSUME NEW S, NEW l \in Seq(S), NEW s \in S
    PROVE  /\ Append(l, s) \in Seq(S)
           /\ ListSet(Append(l, s)) = ListSet(l) \cup {s}
           /\ Distinct(l) /\ s \notin ListSet(l) => Distinct(Append(l, s))
           /\ l # <<>> => Head(Append(l, s)) = Head(l)
           /\ Append(l, s) # <<>>
<1>1. /\ Len(Append(l, s)) = Len(l) + 1
      /\ \A i \in 1..Len(l) : Append(l, s)[i] = l[i]
      /\ Append(l, s)[Len(l) + 1] = s
      /\ Append(l, s) \in Seq(S)
  OBVIOUS
<1>2. ListSet(Append(l, s)) = ListSet(l) \cup {s}
  BY <1>1 DEF ListSet
<1>3. Distinct(l) /\ s \notin ListSet(l) => Distinct(Append(l, s))
  BY <1>1 DEF ListSet, Distinct
<1>4. l # <<>> => Head(Append(l, s)) = Head(l)
  OBVIOUS
<1>5. Append(l, s) # <<>>
  BY <1>1
<1> QED
  BY <1>1, <1>2, <1>3, <1>4, <1>5

(* Removing the head of a list with list_remove. *)
LEMMA RemoveHead ==
    ASSUME NEW S, NEW l \in Seq(S), l # <<>>, Distinct(l)
    PROVE  /\ ListRemove(l, Head(l)) \in Seq(S)
           /\ ListSet(ListRemove(l, Head(l))) = ListSet(l) \ {Head(l)}
           /\ Distinct(ListRemove(l, Head(l)))
           /\ Head(l) \in ListSet(l)
           /\ Head(l) \in S
<1>1. Len(l) \in Nat \ {0} /\ Head(l) = l[1] /\ l[1] \in S
  OBVIOUS
<1>2. Head(l) \in ListSet(l)
  BY <1>1 DEF ListSet
<1>3. \E j \in 1..Len(l) : l[j] = Head(l)
  BY <1>1
<1>4. (CHOOSE j \in 1..Len(l) : l[j] = Head(l)) = 1
  BY <1>1, <1>3 DEF Distinct
<1> DEFINE t == [j \in 1..(Len(l) - 1) |-> l[j + 1]]
<1>5. ListRemove(l, Head(l)) = t
  <2>1. ListRemove(l, Head(l)) = [j \in 1..(Len(l) - 1) |-> IF j < 1 THEN l[j] ELSE l[j + 1]]
    BY <1>2, <1>4 DEF ListRemove
  <2>2. \A j \in 1..(Len(l) - 1) : ~(j < 1)
    BY <1>1
  <2> QED
    BY <2>1, <2>2
<1>6. t \in Seq(S) /\ Len(t) = Len(l) - 1
  <2>1. Len(l) - 1 \in Nat /\ \A j \in 1..(Len(l) - 1) : l[j + 1] \in S
    BY <1>1
  <2> QED
    BY <2>1
<1>7. \A j \in 1..Len(t) : t[j] = l[j + 1]
  BY <1>6
<1> HIDE DEF t
<1>8. ListSet(t) = ListSet(l) \ {Head(l)}
  <2>1. ASSUME NEW x \in ListSet(t) PROVE x \in ListSet(l) \ {Head(l)}
    <3>1. PICK j \in 1..Len(t) : x = l[j + 1]
      BY <1>7 DEF ListSet
    <3>2. j + 1 \in 1..Len(l) /\ j + 1 # 1
      BY <1>1, <1>6
    <3> QED
      BY <1>1, <3>1, <3>2 DEF ListSet, Distinct
  <2>2. ASSUME NEW x \in ListSet(l), x # Head(l) PROVE x \in ListSet(t)
    <3>1. PICK j \in 1..Len(l) : x = l[j]
      BY DEF ListSet
    <3>2. j # 1
      BY <1>1, <2>2, <3>1
    <3>3. (j - 1) \in 1..Len(t) /\ t[j - 1] = l[j]
      BY <1>1, <1>6, <1>7, <3>2
    <3> QED
      BY <3>1, <3>3 DEF ListSet
  <2> QED
    BY <2>1, <2>2
<1>9. Distinct(t)
  BY <1>1, <1>6, <1>7 DEF Distinct
<1> QED
  BY <1>1, <1>2, <1>5, <1>6, <1>8, <1>9

(* Taking the first element of a queue (queue_dequeue, event delivery). *)
LEMMA TailList ==
    ASSUME NEW S, NEW l \in Seq(S), l # <<>>
    PROVE  /\ Tail(l) \in Seq(S)
           /\ Len(Tail(l)) = Len(l) - 1
           /\ Len(l) \in Nat \ {0}
           /\ \A i \in 1..Len(Tail(l)) : Tail(l)[i] = l[i + 1] /\ i + 1 \in 1..Len(l)
           /\ Head(l) = l[1]
           /\ Head(l) \in S
  OBVIOUS

(* What keystore_add may do: it evicts only keys that are neither the root's *)
(* nor pinned, and it may fill a block that is then free.                    *)
AddEffect(c, evicted) ==
    /\ evicted \subseteq {s \in public_keys : Evictable(s)}
    /\ poll' \in BOOLEAN
    /\ context' = context
    /\ \/ /\ cert' = [t \in Slots |-> IF t \in evicted THEN None ELSE cert[t]]
          /\ public_keys' = public_keys \ evicted
          /\ UNCHANGED <<pin_count, public_keys_to_verify>>
       \/ \E s \in FreeSlots \cup evicted : QueueToVerify(s, c, evicted)

LEMMA KeystoreAddEffect ==
    ASSUME TypeOK, NEW c \in Subjects, NEW ret \in BOOLEAN, KeystoreAdd(c, ret)
    PROVE  \E evicted \in SUBSET public_keys : AddEffect(c, evicted)
<1>1. CASE Find(c) \cup FindInList(c, public_keys_to_verify) # {}
  <2>1. /\ poll' \in BOOLEAN
        /\ UNCHANGED <<cert, context, pin_count, public_keys, public_keys_to_verify>>
    BY <1>1 DEF KeystoreAdd, TypeOK
  <2>2. cert' = [t \in Slots |-> IF t \in {} THEN None ELSE cert[t]]
    BY <2>1 DEF TypeOK
  <2>3. AddEffect(c, {})
    BY <2>1, <2>2 DEF AddEffect
  <2> QED
    BY <2>3
<1>2. CASE /\ Find(c) \cup FindInList(c, public_keys_to_verify) = {}
           /\ FreeSlots # {}
  <2>1. PICK s \in FreeSlots : QueueToVerify(s, c, {})
    BY <1>2 DEF KeystoreAdd
  <2>2. AddEffect(c, {})
    BY <2>1 DEF AddEffect, QueueToVerify
  <2> QED
    BY <2>2
<1>3. CASE /\ Find(c) \cup FindInList(c, public_keys_to_verify) = {}
           /\ FreeSlots = {}
  <2>1. PICK evicted \in SUBSET public_keys :
             /\ FreeUpSpace(evicted, ret)
             /\ IF ret
                THEN \E s \in evicted : QueueToVerify(s, c, evicted)
                ELSE /\ cert' = [t \in Slots |-> IF t \in evicted THEN None ELSE cert[t]]
                     /\ public_keys' = public_keys \ evicted
                     /\ UNCHANGED <<context, pin_count, public_keys_to_verify, poll>>
    BY <1>3 DEF KeystoreAdd
  <2>2. evicted \subseteq {s \in public_keys : Evictable(s)}
    BY <2>1 DEF FreeUpSpace
  <2>3. CASE ret
    BY <2>1, <2>2, <2>3 DEF AddEffect, QueueToVerify
  <2>4. CASE ~ret
    BY <2>1, <2>2, <2>4 DEF AddEffect, TypeOK
  <2> QED
    BY <2>3, <2>4
<1> QED
  BY <1>1, <1>2, <1>3

-----------------------------------------------------------------------------
(* The invariant is preserved.  One lemma per action. *)

(* A key in use is pinned, so it cannot be evicted. *)
LEMMA InUseNotEvictable ==
    ASSUME IInv, NEW s \in Slots, Evictable(s)
    PROVE  Users(s) = {} /\ pkitem # s
<1>1. IsFiniteSet(Users(s))
  BY RxAssumption, FS_Subset DEF Users
<1>2. Cardinality(Users(s)) \in Nat
  BY <1>1, FS_CardinalityType
<1>3. pin_count[s] = 0
  BY DEF IInv, TypeOK, Evictable, IsPinned
<1>4. Cardinality(Users(s)) = 0 /\ pkitem # s
  BY <1>2, <1>3 DEF IInv, PinAccounting
<1> QED
  BY <1>1, <1>4, FS_EmptySet

(* keystore_add, wherever it is called from. *)
LEMMA AddPreserves ==
    ASSUME IInv, NEW c \in Subjects, NEW evicted \in SUBSET public_keys,
           AddEffect(c, evicted),
           UNCHANGED <<adding, rx, service>>,
           exchanges' \in [Subjects -> Nat], in_use' \in BOOLEAN
    PROVE  IInv'
<1> USE DEF adding, service
<1>1. /\ public_keys \subseteq Slots
      /\ public_keys' = public_keys \ evicted
      /\ \A s \in evicted : s \in Slots /\ Evictable(s)
  BY DEF AddEffect, QueueToVerify, IInv, TypeOK
<1>2. \A s \in evicted : Users(s) = {} /\ pkitem # s
  BY <1>1, InUseNotEvictable
<1>3. Users(None)' = Users(None) /\ \A s \in Slots : Users(s)' = Users(s)
  BY DEF Users
<1>4. CASE /\ cert' = [t \in Slots |-> IF t \in evicted THEN None ELSE cert[t]]
           /\ UNCHANGED <<pin_count, public_keys_to_verify>>
  <2>1. TypeOK'
    BY <1>1, <1>4 DEF IInv, TypeOK, AddEffect
  <2>2. PoolAccounting'
    BY <1>1, <1>4 DEF IInv, TypeOK, PoolAccounting
  <2>3. PinAccounting'
    BY <1>3, <1>4 DEF IInv, PinAccounting
  <2>4. KeyOfSender'
    BY <1>1, <1>2, <1>4 DEF IInv, TypeOK, KeyOfSender, Users
  <2>5. ResultsHaveItems'
    BY DEF IInv, ResultsHaveItems
  <2>6. OneVerification' /\ NoResultDuringEcdh'
    BY <1>4 DEF IInv, OneVerification, NoResultDuringEcdh, KeyJobs, KeyEvents
  <2> QED
    BY <2>1, <2>2, <2>3, <2>4, <2>5, <2>6 DEF IInv
<1>5. CASE \E s \in FreeSlots \cup evicted : QueueToVerify(s, c, evicted)
  <2>1. PICK s \in FreeSlots \cup evicted : QueueToVerify(s, c, evicted)
    BY <1>5
  <2>2. /\ s \in Slots
        /\ s \notin ListSet(public_keys_to_verify)
        /\ s \notin public_keys'
        /\ public_keys_to_verify \in Seq(Slots)
        /\ Distinct(public_keys_to_verify)
    BY <1>1, <2>1 DEF IInv, TypeOK, PoolAccounting, FreeSlots, Distinct
  <2>3. Users(s) = {} /\ pkitem # s
    <3>1. CASE s \in evicted
      BY <1>2, <3>1
    <3>2. CASE s \in FreeSlots
      <4>1. s \notin public_keys
        BY <3>2, <2>2 DEF IInv, PoolAccounting, FreeSlots
      <4> QED
        BY <4>1, <2>2, SlotsAssumption DEF IInv, KeyOfSender, Users
    <3> QED
      BY <2>1, <3>1, <3>2
  <2>4. pin_count' = [pin_count EXCEPT ![s] = 0] /\ pin_count[s] = 0
    <3>1. Cardinality(Users(s)) = 0
      BY <2>3, FS_EmptySet
    <3>2. pin_count[s] = 0
      <4>1. pin_count[s] = Cardinality(Users(s)) + (IF pkitem = s THEN 1 ELSE 0)
        BY <2>2 DEF IInv, PinAccounting
      <4> QED
        BY <2>3, <3>1, <4>1
    <3> QED
      BY <2>1, <3>2 DEF QueueToVerify
  <2>5. pin_count' = pin_count
    BY <2>2, <2>4 DEF IInv, TypeOK
  <2>6. /\ public_keys_to_verify' \in Seq(Slots)
        /\ ListSet(public_keys_to_verify') = ListSet(public_keys_to_verify) \cup {s}
        /\ Distinct(public_keys_to_verify')
        /\ public_keys_to_verify # <<>> => Head(public_keys_to_verify') = Head(public_keys_to_verify)
        /\ public_keys_to_verify' # <<>>
    BY <2>1, <2>2, AppendList DEF QueueToVerify
  <2>7. /\ cert' = [t \in Slots |-> IF t = s THEN c ELSE IF t \in evicted THEN None ELSE cert[t]]
        /\ c # None
    BY <2>1, SubjectsAssumption DEF QueueToVerify
  <2>8. TypeOK'
    BY <1>1, <2>1, <2>5, <2>6, <2>7 DEF IInv, TypeOK, AddEffect
  <2>9. PoolAccounting'
    <3>1. ASSUME NEW t \in Slots
          PROVE  (cert'[t] # None) <=> (t \in public_keys' \/ t \in ListSet(public_keys_to_verify'))
      BY <1>1, <2>2, <2>6, <2>7 DEF IInv, PoolAccounting
    <3>2. public_keys' \cap ListSet(public_keys_to_verify') = {}
      BY <1>1, <2>2, <2>6 DEF IInv, PoolAccounting
    <3> QED
      BY <2>6, <3>1, <3>2 DEF PoolAccounting, ListSet, Distinct
  <2>10. PinAccounting'
    BY <1>3, <2>5 DEF IInv, PinAccounting
  <2>11. KeyOfSender'
    <3>1. ASSUME NEW r \in Rx, rx[r] # None
          PROVE  rx[r].key \in public_keys' /\ cert'[rx[r].key] = rx[r].from
      <4>1. rx[r].key \in Slots /\ rx[r].key \in public_keys /\ cert[rx[r].key] = rx[r].from
        BY <3>1, <1>1 DEF IInv, KeyOfSender
      <4>2. rx[r].key \notin evicted /\ rx[r].key # s
        BY <3>1, <4>1, <1>2, <2>3 DEF Users
      <4> QED
        BY <4>1, <4>2, <1>1, <2>7
    <3>2. pkitem # None => pkitem \in public_keys'
      BY <1>1, <1>2 DEF IInv, KeyOfSender
    <3> QED
      BY <3>1, <3>2 DEF KeyOfSender
  <2>12. ResultsHaveItems'
    BY DEF IInv, ResultsHaveItems
  <2>13. OneVerification' /\ NoResultDuringEcdh'
    BY <2>6 DEF IInv, OneVerification, NoResultDuringEcdh, KeyJobs, KeyEvents
  <2> QED
    BY <2>8, <2>9, <2>10, <2>11, <2>12, <2>13 DEF IInv
<1> QED
  BY <1>4, <1>5 DEF AddEffect

(* Steps that touch only the request's lock and exchanges. *)
LEMMA RequestPreserves ==
    ASSUME IInv, UNCHANGED <<keys, adding, rx, service>>,
           exchanges' \in [Subjects -> Nat], in_use' \in BOOLEAN
    PROVE  IInv'
<1> USE DEF keys, adding, service
<1>1. TypeOK'
  BY DEF IInv, TypeOK
<1>2. PoolAccounting' /\ KeyOfSender' /\ ResultsHaveItems'
  BY DEF IInv, PoolAccounting, KeyOfSender, ResultsHaveItems
<1>3. PinAccounting'
  BY DEF IInv, PinAccounting, Users
<1>4. OneVerification' /\ NoResultDuringEcdh'
  BY DEF IInv, OneVerification, NoResultDuringEcdh, KeyJobs, KeyEvents
<1> QED
  BY <1>1, <1>2, <1>3, <1>4 DEF IInv

LEMMA AddStartPreserves ==
    ASSUME IInv, AddStart
    PROVE  IInv'
<1> USE DEF request
<1>1. /\ UNCHANGED <<context, pin_count, public_keys, pkitem, in_use, exchanges, rx, posted, leaked>>
      /\ poll' = FALSE /\ pkitem = None
  BY DEF AddStart
<1>2. PinAccounting'
  BY <1>1 DEF IInv, PinAccounting, Users
<1>3. CASE UNCHANGED <<cert, public_keys_to_verify, add_buffer_in_use, verifyQueue>>
  <2>1. TypeOK'
    BY <1>1, <1>3 DEF IInv, TypeOK
  <2>2. PoolAccounting' /\ KeyOfSender' /\ ResultsHaveItems'
    BY <1>1, <1>3 DEF IInv, PoolAccounting, KeyOfSender, ResultsHaveItems
  <2>3. OneVerification' /\ NoResultDuringEcdh'
    BY <1>1, <1>3 DEF IInv, OneVerification, NoResultDuringEcdh, KeyJobs, KeyEvents
  <2> QED
    BY <1>2, <2>1, <2>2, <2>3 DEF IInv
<1>4. CASE /\ ~add_buffer_in_use
           /\ public_keys_to_verify # <<>>
           /\ verifyQueue' = Append(verifyQueue, KeyJob(Head(public_keys_to_verify)))
           /\ add_buffer_in_use' = TRUE
           /\ UNCHANGED <<cert, public_keys_to_verify>>
  <2> DEFINE h == Head(public_keys_to_verify)
  <2>1. h \in Slots /\ KeyJob(h) \in Job
    BY <1>4 DEF IInv, TypeOK, KeyJob, Job
  <2>2. KeyJobs = {} /\ KeyEvents = {}
    BY <1>4 DEF IInv, OneVerification
  <2>3. verifyQueue \in Seq(Job) /\ posted \in Seq([job : Job, ok : BOOLEAN])
    BY DEF IInv, TypeOK
  <2>4. /\ Len(verifyQueue') = Len(verifyQueue) + 1
        /\ Len(verifyQueue) \in Nat
        /\ \A i \in 1..Len(verifyQueue) : verifyQueue'[i] = verifyQueue[i]
        /\ verifyQueue'[Len(verifyQueue) + 1] = KeyJob(h)
        /\ verifyQueue' \in Seq(Job)
    BY <1>4, <2>1, <2>3
  <2>5. /\ KeyJob(h).owner = "keystore" /\ KeyJob(h).item = h
        /\ \A i \in 1..Len(verifyQueue) : verifyQueue[i].owner # "keystore"
        /\ \A i \in 1..Len(posted) : posted[i].job.owner # "keystore"
    BY <2>2 DEF KeyJob, KeyJobs, KeyEvents
  <2> HIDE DEF h
  <2>6. TypeOK'
    BY <1>1, <1>4, <2>4 DEF IInv, TypeOK
  <2>7. PoolAccounting' /\ KeyOfSender'
    BY <1>1, <1>4 DEF IInv, PoolAccounting, KeyOfSender
  <2>8. ResultsHaveItems'
    <3>1. \A i, j \in 1..Len(verifyQueue') : verifyQueue'[i] = verifyQueue'[j] => i = j
      BY <2>4, <2>5 DEF IInv, ResultsHaveItems
    <3>2. \A i \in 1..Len(verifyQueue'), j \in 1..Len(posted) : verifyQueue'[i] # posted[j].job
      BY <2>4, <2>5 DEF IInv, ResultsHaveItems
    <3>3. \A i \in 1..Len(verifyQueue') :
             verifyQueue'[i].owner = "trust" => rx[verifyQueue'[i].item] # None
      BY <2>4, <2>5 DEF IInv, ResultsHaveItems
    <3> QED
      BY <1>1, <3>1, <3>2, <3>3 DEF IInv, ResultsHaveItems
  <2>9. KeyJobs' = {Len(verifyQueue) + 1} /\ KeyEvents' = {}
    BY <1>1, <2>4, <2>5 DEF KeyJobs, KeyEvents
  <2>10. OneVerification'
    BY <1>1, <1>4, <2>4, <2>5, <2>9 DEF OneVerification, h
  <2>11. NoResultDuringEcdh'
    BY <1>1 DEF NoResultDuringEcdh
  <2> QED
    BY <1>2, <2>6, <2>7, <2>8, <2>10, <2>11 DEF IInv
<1>5. CASE /\ ~add_buffer_in_use
           /\ public_keys_to_verify # <<>>
           /\ DropHead
           /\ UNCHANGED <<add_buffer_in_use, verifyQueue>>
  <2> DEFINE h == Head(public_keys_to_verify)
  <2>1. /\ public_keys_to_verify' \in Seq(Slots)
        /\ ListSet(public_keys_to_verify') = ListSet(public_keys_to_verify) \ {h}
        /\ Distinct(public_keys_to_verify')
        /\ h \in ListSet(public_keys_to_verify)
        /\ h \in Slots
    <3>1. public_keys_to_verify \in Seq(Slots) /\ Distinct(public_keys_to_verify)
      BY DEF IInv, TypeOK, PoolAccounting, Distinct
    <3> QED
      BY <1>5, <3>1, RemoveHead DEF DropHead
  <2>2. cert' = [cert EXCEPT ![h] = None] /\ cert \in [Slots -> Subjects \cup {None}]
    BY <1>5 DEF DropHead, IInv, TypeOK
  <2>3. h \notin public_keys
    BY <2>1 DEF IInv, PoolAccounting
  <2> HIDE DEF h
  <2>4. TypeOK'
    BY <1>1, <1>5, <2>1, <2>2 DEF IInv, TypeOK
  <2>5. PoolAccounting'
    <3>1. ASSUME NEW t \in Slots
          PROVE  (cert'[t] # None) <=> (t \in public_keys \/ t \in ListSet(public_keys_to_verify'))
      BY <2>1, <2>2, <2>3 DEF IInv, PoolAccounting
    <3>2. public_keys \cap ListSet(public_keys_to_verify') = {}
      BY <2>1 DEF IInv, PoolAccounting
    <3> QED
      BY <1>1, <2>1, <3>1, <3>2 DEF PoolAccounting, ListSet, Distinct
  <2>6. KeyOfSender'
    BY <1>1, <2>2, <2>3 DEF IInv, TypeOK, KeyOfSender
  <2>7. ResultsHaveItems'
    BY <1>1, <1>5 DEF IInv, ResultsHaveItems
  <2>8. KeyJobs' = KeyJobs /\ KeyEvents' = KeyEvents /\ KeyJobs = {} /\ KeyEvents = {}
    BY <1>1, <1>5 DEF IInv, OneVerification, KeyJobs, KeyEvents
  <2>9. OneVerification' /\ NoResultDuringEcdh'
    BY <1>1, <1>5, <2>8 DEF OneVerification, NoResultDuringEcdh
  <2> QED
    BY <1>2, <2>4, <2>5, <2>6, <2>7, <2>9 DEF IInv
<1> QED
  BY <1>3, <1>4, <1>5 DEF AddStart, IInv, TypeOK

LEMMA PollDuringEcdhPreserves ==
    ASSUME IInv, PollDuringEcdh
    PROVE  IInv'
<1> USE DEF PollDuringEcdh, adding, request, service
<1>1. TypeOK'
  BY DEF IInv, TypeOK
<1>2. PoolAccounting' /\ KeyOfSender' /\ ResultsHaveItems'
  BY DEF IInv, PoolAccounting, KeyOfSender, ResultsHaveItems
<1>3. PinAccounting'
  BY DEF IInv, PinAccounting, Users
<1>4. OneVerification' /\ NoResultDuringEcdh'
  BY DEF IInv, OneVerification, NoResultDuringEcdh, KeyJobs, KeyEvents
<1> QED
  BY <1>1, <1>2, <1>3, <1>4 DEF IInv

LEMMA VerifyPreserves ==
    ASSUME IInv, NEW ok \in BOOLEAN, Verify(ok)
    PROVE  IInv'
<1> USE DEF keys, adding, request
<1>1. /\ UNCHANGED <<cert, context, pin_count, public_keys, public_keys_to_verify, poll,
                     add_buffer_in_use, pkitem, in_use, exchanges, rx>>
      /\ verifyQueue # <<>>
      /\ verifyQueue' = Tail(verifyQueue)
  BY DEF Verify
<1>2. verifyQueue \in Seq(Job) /\ posted \in Seq([job : Job, ok : BOOLEAN]) /\ leaked \in Nat
  BY DEF IInv, TypeOK
<1>3. /\ verifyQueue' \in Seq(Job)
      /\ Len(verifyQueue') = Len(verifyQueue) - 1
      /\ Len(verifyQueue) \in Nat \ {0}
      /\ \A i \in 1..Len(verifyQueue') : verifyQueue'[i] = verifyQueue[i + 1] /\ i + 1 \in 1..Len(verifyQueue)
      /\ Head(verifyQueue) = verifyQueue[1]
      /\ verifyQueue[1] \in Job
  BY <1>1, <1>2, TailList
<1>4. PoolAccounting' /\ KeyOfSender'
  BY <1>1 DEF IInv, PoolAccounting, KeyOfSender
<1>5. PinAccounting'
  BY <1>1 DEF IInv, PinAccounting, Users
<1>r. /\ \A i, j \in 1..Len(verifyQueue) : verifyQueue[i] = verifyQueue[j] => i = j
      /\ \A i \in 1..Len(verifyQueue), j \in 1..Len(posted) : verifyQueue[i] # posted[j].job
      /\ \A i \in 1..Len(verifyQueue) :
            verifyQueue[i].owner = "trust" => rx[verifyQueue[i].item] # None
      /\ \A i \in 1..Len(posted) :
            posted[i].job.owner = "trust" => rx[posted[i].job.item] # None
  BY DEF IInv, ResultsHaveItems
<1>6. /\ \A i, j \in 1..Len(verifyQueue') : verifyQueue'[i] = verifyQueue'[j] => i = j
      /\ \A i \in 1..Len(verifyQueue') : verifyQueue'[i] # verifyQueue[1]
      /\ \A i \in 1..Len(verifyQueue'), j \in 1..Len(posted) : verifyQueue'[i] # posted[j].job
      /\ \A i \in 1..Len(verifyQueue') :
            verifyQueue'[i].owner = "trust" => rx[verifyQueue'[i].item] # None
  <2>1. 1 \in 1..Len(verifyQueue)
    BY <1>3
  <2>2. \A i, j \in 1..Len(verifyQueue') : verifyQueue'[i] = verifyQueue'[j] => i = j
    <3>1. ASSUME NEW i \in 1..Len(verifyQueue'), NEW j \in 1..Len(verifyQueue'),
                 verifyQueue'[i] = verifyQueue'[j]
          PROVE  i = j
      <4>1. /\ verifyQueue[i + 1] = verifyQueue[j + 1]
            /\ i + 1 \in 1..Len(verifyQueue) /\ j + 1 \in 1..Len(verifyQueue)
        BY <1>3, <3>1
      <4>2. i + 1 = j + 1
        BY <1>r, <4>1
      <4> QED
        BY <4>2
    <3> QED
      BY <3>1
  <2>3. ASSUME NEW i \in 1..Len(verifyQueue') PROVE verifyQueue'[i] # verifyQueue[1]
    <3>1. i + 1 # 1
      OBVIOUS
    <3> QED
      BY <1>3, <1>r, <2>1, <3>1
  <2>4. \A i \in 1..Len(verifyQueue'), j \in 1..Len(posted) : verifyQueue'[i] # posted[j].job
    BY <1>3, <1>r
  <2>5. \A i \in 1..Len(verifyQueue') :
            verifyQueue'[i].owner = "trust" => rx[verifyQueue'[i].item] # None
    BY <1>3, <1>r
  <2> QED
    BY <2>2, <2>3, <2>4, <2>5
<1>7. CASE posted' = Append(posted, [job |-> Head(verifyQueue), ok |-> ok]) /\ leaked' = leaked
  <2>1. /\ Len(posted') = Len(posted) + 1 /\ Len(posted) \in Nat
        /\ \A i \in 1..Len(posted) : posted'[i] = posted[i]
        /\ posted'[Len(posted) + 1].job = verifyQueue[1]
        /\ posted' \in Seq([job : Job, ok : BOOLEAN])
    BY <1>2, <1>3, <1>7
  <2>2. TypeOK'
    BY <1>1, <1>3, <1>7, <2>1 DEF IInv, TypeOK
  <2>3. ResultsHaveItems'
    <3>1. \A i, j \in 1..Len(posted') : posted'[i].job = posted'[j].job => i = j
      <4>1. \A j \in 1..Len(posted) : posted'[j].job # verifyQueue[1]
        BY <1>3, <2>1 DEF IInv, ResultsHaveItems
      <4>2. \A i, j \in 1..Len(posted) : posted'[i].job = posted'[j].job => i = j
        BY <2>1 DEF IInv, ResultsHaveItems
      <4>3. \A i \in 1..Len(posted') : i \in 1..Len(posted) \/ i = Len(posted) + 1
        BY <2>1
      <4> QED
        BY <2>1, <4>1, <4>2, <4>3
    <3>2. \A i \in 1..Len(verifyQueue'), j \in 1..Len(posted') : verifyQueue'[i] # posted'[j].job
      BY <1>6, <2>1
    <3>3. \A i \in 1..Len(posted') :
             posted'[i].job.owner = "trust" => rx[posted'[i].job.item] # None
      <4>1. \A i \in 1..Len(posted) :
               posted'[i].job.owner = "trust" => rx[posted'[i].job.item] # None
        BY <1>r, <2>1
      <4>2. verifyQueue[1].owner = "trust" => rx[verifyQueue[1].item] # None
        BY <1>3, <1>r
      <4>3. \A i \in 1..Len(posted') : i \in 1..Len(posted) \/ i = Len(posted) + 1
        BY <2>1
      <4> QED
        BY <2>1, <4>1, <4>2, <4>3
    <3> QED
      BY <1>1, <1>6, <3>1, <3>2, <3>3 DEF ResultsHaveItems
  <2>4. /\ KeyJobs' = {i \in 1..Len(verifyQueue') : i + 1 \in KeyJobs}
        /\ KeyEvents' = KeyEvents \cup {i \in {Len(posted) + 1} : 1 \in KeyJobs}
    <3>1. ASSUME NEW i \in 1..Len(verifyQueue') PROVE i \in KeyJobs' <=> i + 1 \in KeyJobs
      BY <1>3 DEF KeyJobs
    <3>2. ASSUME NEW i \in 1..Len(posted) PROVE i \in KeyEvents' <=> i \in KeyEvents
      BY <2>1 DEF KeyEvents
    <3>3. Len(posted) + 1 \in KeyEvents' <=> 1 \in KeyJobs
      BY <1>3, <2>1 DEF KeyJobs, KeyEvents
    <3>4. KeyJobs' \subseteq 1..Len(verifyQueue') /\ KeyEvents \subseteq 1..Len(posted)
      BY DEF KeyJobs, KeyEvents
    <3>5. KeyEvents' \subseteq 1..Len(posted) \cup {Len(posted) + 1}
      BY <2>1 DEF KeyEvents
    <3> QED
      BY <3>1, <3>2, <3>3, <3>4, <3>5
  <2>5. OneVerification'
    <3>1. KeyJobs \subseteq 1..Len(verifyQueue) /\ KeyEvents \subseteq 1..Len(posted)
      BY DEF KeyJobs, KeyEvents
    <3>2. \A i \in KeyJobs' : verifyQueue'[i].item = Head(public_keys_to_verify)
      BY <1>3, <2>4 DEF IInv, OneVerification
    <3>3. \A i \in KeyEvents' : posted'[i].job.item = Head(public_keys_to_verify)
      BY <2>1, <2>4, <3>1 DEF IInv, OneVerification
    <3>4. \A i, j \in KeyJobs' : i = j
      BY <1>3, <2>4 DEF IInv, OneVerification
    <3>5. (\A i, j \in KeyEvents' : i = j) /\ (KeyJobs' = {} \/ KeyEvents' = {})
      <4>1. CASE 1 \in KeyJobs
        <5>1. KeyEvents = {} /\ \A i \in KeyJobs : i = 1
          BY <4>1 DEF IInv, OneVerification
        <5>2. KeyJobs' = {}
          BY <1>3, <2>4, <5>1
        <5> QED
          BY <2>4, <5>1, <5>2
      <4>2. CASE 1 \notin KeyJobs
        <5>1. KeyEvents' = KeyEvents
          BY <2>4, <4>2
        <5>2. KeyJobs = {} => KeyJobs' = {}
          BY <2>4
        <5> QED
          BY <5>1, <5>2 DEF IInv, OneVerification
      <4> QED
        BY <4>1, <4>2
    <3>6. KeyJobs' \cup KeyEvents' # {} => KeyJobs \cup KeyEvents # {}
      BY <2>4
    <3>7. KeyJobs \cup KeyEvents # {} => KeyJobs' \cup KeyEvents' # {}
      <4>1. ASSUME NEW i \in KeyJobs, i # 1 PROVE KeyJobs' # {}
        <5>1. i - 1 \in 1..Len(verifyQueue') /\ (i - 1) + 1 = i
          BY <1>3, <3>1, <4>1
        <5> QED
          BY <2>4, <5>1, <4>1
      <4> QED
        BY <2>4, <4>1
    <3> QED
      BY <1>1, <1>7, <3>2, <3>3, <3>4, <3>5, <3>6, <3>7 DEF IInv, OneVerification
  <2>6. NoResultDuringEcdh'
    BY <1>1, <2>4 DEF IInv, NoResultDuringEcdh
  <2> QED
    BY <1>4, <1>5, <2>2, <2>3, <2>5, <2>6 DEF IInv
<1>8. CASE leaked' = leaked + 1 /\ posted' = posted
  <2>1. TypeOK'
    BY <1>1, <1>2, <1>3, <1>8 DEF IInv, TypeOK
  <2>2. ResultsHaveItems'
    BY <1>1, <1>6, <1>8 DEF IInv, ResultsHaveItems
  <2>3. KeyJobs' = {i \in 1..Len(verifyQueue') : i + 1 \in KeyJobs} /\ KeyEvents' = KeyEvents
    <3>1. ASSUME NEW i \in 1..Len(verifyQueue') PROVE i \in KeyJobs' <=> i + 1 \in KeyJobs
      BY <1>3 DEF KeyJobs
    <3> QED
      BY <3>1, <1>8 DEF KeyJobs, KeyEvents
  <2>4. OneVerification'
    <3>1. leaked' # 0
      BY <1>2, <1>8
    <3>2. \A i \in KeyJobs' : verifyQueue'[i].item = Head(public_keys_to_verify)
      BY <1>3, <2>3 DEF IInv, OneVerification
    <3>3. \A i, j \in KeyJobs' : i = j
      BY <1>3, <2>3 DEF IInv, OneVerification
    <3>4. (KeyJobs = {} => KeyJobs' = {}) /\ (KeyJobs' # {} => KeyJobs # {})
      BY <2>3
    <3> QED
      BY <1>1, <1>8, <2>3, <3>1, <3>2, <3>3, <3>4 DEF IInv, OneVerification
  <2>5. NoResultDuringEcdh'
    BY <1>1, <2>3 DEF IInv, NoResultDuringEcdh
  <2> QED
    BY <1>4, <1>5, <2>1, <2>2, <2>4, <2>5 DEF IInv
<1> QED
  BY <1>7, <1>8 DEF Verify

(* Facts about the event that Deliver takes off the kernel's queue. *)
LEMMA Delivered ==
    ASSUME IInv, NEW o \in {"keystore", "trust"}, Deliver(o)
    PROVE  /\ posted' \in Seq([job : Job, ok : BOOLEAN])
           /\ Len(posted') = Len(posted) - 1
           /\ Len(posted) \in Nat \ {0}
           /\ \A i \in 1..Len(posted') : posted'[i] = posted[i + 1] /\ i + 1 \in 1..Len(posted)
           /\ Head(posted) = posted[1]
           /\ posted[1] \in [job : Job, ok : BOOLEAN]
           /\ posted[1].job.owner = o
           /\ \A i \in 1..Len(posted') : posted'[i].job # posted[1].job
<1>1. posted \in Seq([job : Job, ok : BOOLEAN]) /\ posted # <<>> /\ posted' = Tail(posted)
  BY DEF IInv, TypeOK, Deliver
<1>2. /\ posted' \in Seq([job : Job, ok : BOOLEAN])
      /\ Len(posted') = Len(posted) - 1
      /\ Len(posted) \in Nat \ {0}
      /\ \A i \in 1..Len(posted') : posted'[i] = posted[i + 1] /\ i + 1 \in 1..Len(posted)
      /\ Head(posted) = posted[1]
      /\ posted[1] \in [job : Job, ok : BOOLEAN]
  BY <1>1, TailList
<1>3. posted[1].job.owner = o
  BY <1>2 DEF Deliver
<1>4. ASSUME NEW i \in 1..Len(posted') PROVE posted'[i].job # posted[1].job
  <2>1. i + 1 # 1 /\ 1 \in 1..Len(posted)
    BY <1>2
  <2>2. \A j, k \in 1..Len(posted) : posted[j].job = posted[k].job => j = k
    BY DEF IInv, ResultsHaveItems
  <2> QED
    BY <1>2, <2>1, <2>2
<1> QED
  BY <1>2, <1>3, <1>4

(* The item of a trust event is one of trust_rx_memb. *)
LEMMA TrustEvents ==
    ASSUME IInv
    PROVE  \A i \in 1..Len(posted) : posted[i].job.owner = "trust" => posted[i].job.item \in Rx
<1>1. posted \in Seq([job : Job, ok : BOOLEAN])
  BY DEF IInv, TypeOK
<1>2. ASSUME NEW i \in 1..Len(posted), posted[i].job.owner = "trust"
      PROVE  posted[i].job.item \in Rx
  <2>1. posted[i] \in [job : Job, ok : BOOLEAN]
    BY <1>1, ElementOf
  <2>2. posted[i].job \in Job
    BY <2>1
  <2> QED
    BY <1>2, <2>2 DEF Job
<1> QED
  BY <1>2

(* The same, for what the invariant says of the remaining events. *)
LEMMA DeliveredResults ==
    ASSUME IInv, NEW o \in {"keystore", "trust"}, Deliver(o), verifyQueue' = verifyQueue
    PROVE  /\ \A i, j \in 1..Len(posted') : posted'[i].job = posted'[j].job => i = j
           /\ \A i \in 1..Len(verifyQueue'), j \in 1..Len(posted') : verifyQueue'[i] # posted'[j].job
           /\ KeyJobs' = KeyJobs
           /\ KeyEvents' = {i \in 1..Len(posted') : i + 1 \in KeyEvents}
<1>1. /\ Len(posted') = Len(posted) - 1
      /\ Len(posted) \in Nat \ {0}
      /\ \A i \in 1..Len(posted') : posted'[i] = posted[i + 1] /\ i + 1 \in 1..Len(posted)
  BY Delivered
<1>2. /\ \A i, j \in 1..Len(posted') : posted'[i].job = posted'[j].job => i = j
      /\ \A i \in 1..Len(verifyQueue'), j \in 1..Len(posted') : verifyQueue'[i] # posted'[j].job
  <2>1. ASSUME NEW i \in 1..Len(posted'), NEW j \in 1..Len(posted'),
               posted'[i].job = posted'[j].job
        PROVE  i = j
    <3>1. /\ posted[i + 1].job = posted[j + 1].job
          /\ i + 1 \in 1..Len(posted) /\ j + 1 \in 1..Len(posted)
      BY <1>1, <2>1
    <3>2. \A m, n \in 1..Len(posted) : posted[m].job = posted[n].job => m = n
      BY DEF IInv, ResultsHaveItems
    <3>3. i + 1 = j + 1
      BY <3>1, <3>2
    <3> QED
      BY <3>3
  <2>2. ASSUME NEW i \in 1..Len(verifyQueue'), NEW j \in 1..Len(posted')
        PROVE  verifyQueue'[i] # posted'[j].job
    BY <1>1 DEF IInv, ResultsHaveItems
  <2> QED
    BY <2>1, <2>2
<1>3. ASSUME NEW i \in 1..Len(posted') PROVE i \in KeyEvents' <=> i + 1 \in KeyEvents
  BY <1>1 DEF KeyEvents
<1>4. KeyEvents' \subseteq 1..Len(posted')
  BY DEF KeyEvents
<1>5. KeyJobs' = KeyJobs
  BY DEF KeyJobs
<1> QED
  BY <1>2, <1>3, <1>4, <1>5

LEMMA AddContinuedPreserves ==
    ASSUME IInv, AddContinued
    PROVE  IInv'
<1> DEFINE item == posted[1].job.item
<1>1. /\ UNCHANGED <<context, in_use, exchanges, rx, verifyQueue, leaked>>
      /\ add_buffer_in_use' = FALSE
      /\ pkitem = None
      /\ Deliver("keystore")
  BY DEF AddContinued, request
<1>2. /\ posted' \in Seq([job : Job, ok : BOOLEAN])
      /\ Len(posted') = Len(posted) - 1
      /\ Len(posted) \in Nat \ {0}
      /\ \A i \in 1..Len(posted') : posted'[i] = posted[i + 1] /\ i + 1 \in 1..Len(posted)
      /\ Head(posted) = posted[1]
      /\ posted[1] \in [job : Job, ok : BOOLEAN]
      /\ posted[1].job.owner = "keystore"
  BY <1>1, Delivered
<1>3. 1 \in KeyEvents
  BY <1>2 DEF KeyEvents
<1>4. /\ KeyJobs = {} /\ \A i \in KeyEvents : i = 1
      /\ item = Head(public_keys_to_verify)
      /\ public_keys_to_verify # <<>>
  BY <1>3 DEF IInv, OneVerification
<1>5. KeyJobs' = {} /\ KeyEvents' = {}
  <2>1. KeyJobs' = KeyJobs /\ KeyEvents' = {i \in 1..Len(posted') : i + 1 \in KeyEvents}
    BY <1>1, DeliveredResults
  <2>2. \A i \in 1..Len(posted') : i + 1 # 1
    BY <1>2
  <2> QED
    BY <1>4, <2>1, <2>2
<1>6. /\ public_keys_to_verify' \in Seq(Slots)
      /\ ListSet(public_keys_to_verify') = ListSet(public_keys_to_verify) \ {item}
      /\ Distinct(public_keys_to_verify')
      /\ item \in ListSet(public_keys_to_verify)
      /\ item \in Slots
  <2>1. public_keys_to_verify \in Seq(Slots) /\ Distinct(public_keys_to_verify)
    BY DEF IInv, TypeOK, PoolAccounting, Distinct
  <2>2. public_keys_to_verify' = ListRemove(public_keys_to_verify, item)
    BY <1>2 DEF AddContinued
  <2> QED
    BY <1>4, <2>1, <2>2, RemoveHead
<1>7. item \notin public_keys /\ cert[item] # None
  BY <1>6 DEF IInv, PoolAccounting
<1>8. ResultsHaveItems'
  <2>1. \A i \in 1..Len(posted') : posted'[i].job.owner = "trust" => rx[posted'[i].job.item] # None
    BY <1>2 DEF IInv, ResultsHaveItems
  <2> QED
    BY <1>1, <2>1, DeliveredResults DEF IInv, ResultsHaveItems
<1>9. OneVerification'
  BY <1>1, <1>5 DEF OneVerification
<1>10. NoResultDuringEcdh'
  BY <1>1, <1>5 DEF NoResultDuringEcdh
<1>11. CASE posted[1].ok
  <2>1. /\ public_keys' = public_keys \cup {item}
        /\ pin_count' = [pin_count EXCEPT ![item] = @ + 1]
        /\ pkitem' = item
        /\ UNCHANGED <<cert, poll>>
    BY <1>2, <1>11 DEF AddContinued
  <2> HIDE DEF item
  <2>2. TypeOK'
    <3>1. pin_count \in [Slots -> Nat] /\ pin_count[item] + 1 \in Nat
      BY <1>6 DEF IInv, TypeOK
    <3>2. pin_count' \in [Slots -> Nat]
      BY <2>1, <3>1
    <3> QED
      BY <1>1, <1>2, <1>6, <2>1, <3>2 DEF IInv, TypeOK
  <2>3. PoolAccounting'
    <3>1. ASSUME NEW t \in Slots
          PROVE  (cert'[t] # None) <=> (t \in public_keys' \/ t \in ListSet(public_keys_to_verify'))
      BY <1>6, <1>7, <2>1 DEF IInv, PoolAccounting
    <3>2. public_keys' \cap ListSet(public_keys_to_verify') = {}
      BY <1>6, <2>1 DEF IInv, PoolAccounting
    <3> QED
      BY <1>6, <3>1, <3>2 DEF PoolAccounting, ListSet, Distinct
  <2>4. PinAccounting'
    <3>1. ASSUME NEW s \in Slots
          PROVE  pin_count'[s] = Cardinality(Users(s)') + (IF pkitem' = s THEN 1 ELSE 0)
      <4>1. Users(s)' = Users(s)
        BY <1>1 DEF Users
      <4>2. pin_count[s] = Cardinality(Users(s)) + (IF pkitem = s THEN 1 ELSE 0)
        BY DEF IInv, PinAccounting
      <4>3. pkitem # s
        BY <1>1, SlotsAssumption
      <4>4. Cardinality(Users(s)) = pin_count[s] /\ pin_count[s] \in Nat
        <5>1. IsFiniteSet(Users(s))
          BY RxAssumption, FS_Subset DEF Users
        <5>2. Cardinality(Users(s)) \in Nat
          BY <5>1, FS_CardinalityType
        <5> QED
          BY <4>2, <4>3, <5>2
      <4>5. pin_count'[s] = IF s = item THEN pin_count[s] + 1 ELSE pin_count[s]
        BY <1>6, <2>1 DEF IInv, TypeOK
      <4> QED
        BY <2>1, <4>1, <4>4, <4>5
    <3> QED
      BY <3>1 DEF PinAccounting
  <2>5. KeyOfSender'
    BY <1>1, <2>1 DEF IInv, KeyOfSender
  <2> QED
    BY <1>8, <1>9, <1>10, <2>2, <2>3, <2>4, <2>5 DEF IInv
<1>12. CASE ~posted[1].ok
  <2>1. /\ cert' = [cert EXCEPT ![item] = None]
        /\ poll' = TRUE
        /\ UNCHANGED <<public_keys, pin_count, pkitem>>
    BY <1>2, <1>12 DEF AddContinued
  <2> HIDE DEF item
  <2>2. TypeOK'
    BY <1>1, <1>2, <1>6, <2>1 DEF IInv, TypeOK
  <2>3. PoolAccounting'
    <3>1. ASSUME NEW t \in Slots
          PROVE  (cert'[t] # None) <=> (t \in public_keys \/ t \in ListSet(public_keys_to_verify'))
      BY <1>6, <1>7, <2>1 DEF IInv, TypeOK, PoolAccounting
    <3>2. public_keys \cap ListSet(public_keys_to_verify') = {}
      BY <1>6 DEF IInv, PoolAccounting
    <3> QED
      BY <1>6, <2>1, <3>1, <3>2 DEF PoolAccounting, ListSet, Distinct
  <2>4. PinAccounting'
    BY <1>1, <2>1 DEF IInv, PinAccounting, Users
  <2>5. KeyOfSender'
    BY <1>1, <1>7, <2>1 DEF IInv, TypeOK, KeyOfSender
  <2> QED
    BY <1>8, <1>9, <1>10, <2>2, <2>3, <2>4, <2>5 DEF IInv
<1> QED
  BY <1>11, <1>12

LEMMA EcdhDonePreserves ==
    ASSUME IInv, NEW ok \in BOOLEAN, EcdhDone(ok)
    PROVE  IInv'
<1>1. /\ UNCHANGED <<cert, public_keys, public_keys_to_verify, add_buffer_in_use,
                     in_use, exchanges, rx, verifyQueue, posted, leaked>>
      /\ pkitem # None /\ pkitem' = None
      /\ poll' = TRUE
      /\ pin_count' = [pin_count EXCEPT ![pkitem] = pin_count[pkitem] - 1]
      /\ context' = DerivedContexts(ok)
  BY DEF EcdhDone, EcdhEnds, request, service
<1>2. pkitem \in Slots /\ pin_count \in [Slots -> Nat]
  BY <1>1 DEF IInv, TypeOK
<1>3. ASSUME NEW s \in Slots
      PROVE  /\ Users(s)' = Users(s)
             /\ Cardinality(Users(s)) \in Nat
             /\ pin_count[s] = Cardinality(Users(s)) + (IF pkitem = s THEN 1 ELSE 0)
  <2>1. IsFiniteSet(Users(s))
    BY RxAssumption, FS_Subset DEF Users
  <2> QED
    BY <1>1, <2>1, FS_CardinalityType DEF IInv, PinAccounting, Users
<1>4. \A s \in Slots : pin_count'[s] = Cardinality(Users(s))
  BY <1>1, <1>2, <1>3
<1>5. TypeOK'
  <2>1. context' \in [Slots -> Subjects \cup {None}]
    BY <1>1, <1>2 DEF IInv, TypeOK, DerivedContexts
  <2>2. pin_count' \in [Slots -> Nat]
    BY <1>1, <1>2, <1>3, <1>4
  <2> QED
    BY <1>1, <2>1, <2>2 DEF IInv, TypeOK
<1>6. PinAccounting'
  <2>1. ASSUME NEW s \in Slots
        PROVE  pin_count'[s] = Cardinality(Users(s)') + (IF pkitem' = s THEN 1 ELSE 0)
    BY <1>1, <1>3, <1>4, SlotsAssumption
  <2> QED
    BY <2>1 DEF PinAccounting
<1>7. PoolAccounting' /\ KeyOfSender' /\ ResultsHaveItems'
  BY <1>1 DEF IInv, PoolAccounting, KeyOfSender, ResultsHaveItems
<1>8. OneVerification' /\ NoResultDuringEcdh'
  BY <1>1 DEF IInv, OneVerification, NoResultDuringEcdh, KeyJobs, KeyEvents
<1> QED
  BY <1>5, <1>6, <1>7, <1>8 DEF IInv

(* A trust message adds one user to its key, and pins it once. *)
LEMMA TrustPostPreserves ==
    ASSUME IInv, NEW c \in Subjects, TrustPost(c)
    PROVE  IInv'
<1>1. PICK k \in Find(c), r \in {q \in Rx : rx[q] = None} :
          /\ rx' = [rx EXCEPT ![r] = [key |-> k, from |-> c]]
          /\ pin_count' = [pin_count EXCEPT ![k] = @ + 1]
          /\ verifyQueue' = Append(verifyQueue, TrustJob(r))
  BY DEF TrustPost, TrustPostInto
<1>2. UNCHANGED <<cert, context, public_keys, public_keys_to_verify, poll,
                  add_buffer_in_use, pkitem, in_use, exchanges, posted, leaked>>
  BY DEF TrustPost, TrustPostInto, adding, request
<1>3. /\ k \in Slots /\ k \in public_keys /\ cert[k] = c
      /\ r \in Rx /\ rx[r] = None
      /\ rx \in [Rx -> RxItem \cup {None}] /\ pin_count \in [Slots -> Nat]
      /\ verifyQueue \in Seq(Job)
  BY DEF Find, FindInList, IInv, TypeOK
<1> DEFINE new == [key |-> k, from |-> c]
<1>4. new \in RxItem /\ new.key = k /\ new.from = c /\ rx' = [rx EXCEPT ![r] = new]
  BY <1>1, <1>3 DEF RxItem
<1>5. new # None
  BY <1>4, RxAssumption DEF RxItem
<1> HIDE DEF new
<1>6. /\ TrustJob(r) \in Job /\ TrustJob(r).owner = "trust" /\ TrustJob(r).item = r
  BY <1>3 DEF TrustJob, Job
<1>7. /\ Len(verifyQueue') = Len(verifyQueue) + 1 /\ Len(verifyQueue) \in Nat
      /\ \A i \in 1..Len(verifyQueue) : verifyQueue'[i] = verifyQueue[i]
      /\ verifyQueue'[Len(verifyQueue) + 1] = TrustJob(r)
      /\ verifyQueue' \in Seq(Job)
  BY <1>1, <1>3, <1>6
<1>8. TypeOK'
  <2>1. rx' \in [Rx -> RxItem \cup {None}] /\ pin_count' \in [Slots -> Nat]
    BY <1>1, <1>3, <1>4
  <2> QED
    BY <1>2, <1>7, <2>1 DEF IInv, TypeOK
<1>9. PoolAccounting'
  BY <1>2 DEF IInv, PoolAccounting
<1>10. KeyOfSender'
  <2>1. ASSUME NEW q \in Rx, rx'[q] # None
        PROVE  rx'[q].key \in public_keys /\ cert[rx'[q].key] = rx'[q].from
    BY <1>3, <1>4, <2>1 DEF IInv, KeyOfSender
  <2> QED
    BY <1>2, <2>1 DEF IInv, KeyOfSender
<1>11. PinAccounting'
  <2>1. ASSUME NEW s \in Slots
        PROVE  pin_count'[s] = Cardinality(Users(s)') + (IF pkitem' = s THEN 1 ELSE 0)
    <3>1. IsFiniteSet(Users(s)) /\ Cardinality(Users(s)) \in Nat
      BY RxAssumption, FS_Subset, FS_CardinalityType DEF Users
    <3>2. pin_count[s] = Cardinality(Users(s)) + (IF pkitem = s THEN 1 ELSE 0)
      BY DEF IInv, PinAccounting
    <3>3. CASE s = k
      <4>1. Users(s)' = Users(s) \cup {r} /\ r \notin Users(s)
        BY <1>3, <1>4, <1>5, <3>3 DEF Users
      <4>2. Cardinality(Users(s)') = Cardinality(Users(s)) + 1
        BY <3>1, <4>1, FS_AddElement
      <4>3. pin_count'[s] = pin_count[s] + 1
        BY <1>1, <1>3, <3>3
      <4> QED
        BY <1>2, <3>1, <3>2, <4>2, <4>3
    <3>4. CASE s # k
      <4>1. Users(s)' = Users(s)
        BY <1>3, <1>4, <3>4 DEF Users
      <4>2. pin_count'[s] = pin_count[s]
        BY <1>1, <1>3, <3>4
      <4> QED
        BY <1>2, <3>2, <4>1, <4>2
    <3> QED
      BY <3>3, <3>4
  <2> QED
    BY <2>1 DEF PinAccounting
<1>12. ResultsHaveItems'
  <2>1. /\ \A i \in 1..Len(verifyQueue) : verifyQueue[i] # TrustJob(r)
        /\ \A i \in 1..Len(posted) : posted[i].job # TrustJob(r)
    BY <1>3, <1>6 DEF IInv, ResultsHaveItems
  <2>2. \A i \in 1..Len(verifyQueue') : i \in 1..Len(verifyQueue) \/ i = Len(verifyQueue) + 1
    BY <1>7
  <2>3. \A i, j \in 1..Len(verifyQueue') : verifyQueue'[i] = verifyQueue'[j] => i = j
    BY <1>7, <2>1, <2>2 DEF IInv, ResultsHaveItems
  <2>4. \A i \in 1..Len(verifyQueue'), j \in 1..Len(posted) : verifyQueue'[i] # posted[j].job
    BY <1>7, <2>1, <2>2 DEF IInv, ResultsHaveItems
  <2>5. \A q \in Rx : rx[q] # None => rx'[q] # None
    BY <1>3, <1>4
  <2>6. rx'[r] # None
    BY <1>3, <1>4, <1>5
  <2>7. \A i \in 1..Len(verifyQueue) : verifyQueue[i].owner = "trust" => verifyQueue[i].item \in Rx
    BY <1>3 DEF Job
  <2>8. \A i \in 1..Len(posted) : posted[i].job.owner = "trust" => posted[i].job.item \in Rx
    BY TrustEvents
  <2>9. \A i \in 1..Len(verifyQueue') :
           verifyQueue'[i].owner = "trust" => rx'[verifyQueue'[i].item] # None
    BY <1>6, <1>7, <2>2, <2>5, <2>6, <2>7 DEF IInv, ResultsHaveItems
  <2>10. \A i \in 1..Len(posted) :
           posted[i].job.owner = "trust" => rx'[posted[i].job.item] # None
    BY <2>5, <2>8 DEF IInv, ResultsHaveItems
  <2> QED
    BY <1>2, <2>3, <2>4, <2>9, <2>10 DEF IInv, ResultsHaveItems
<1>13. KeyJobs' = KeyJobs /\ KeyEvents' = KeyEvents
  <2>1. ASSUME NEW i \in 1..Len(verifyQueue) PROVE i \in KeyJobs' <=> i \in KeyJobs
    BY <1>7 DEF KeyJobs
  <2>2. Len(verifyQueue) + 1 \notin KeyJobs'
    BY <1>6, <1>7 DEF KeyJobs
  <2>3. /\ KeyJobs' \subseteq 1..Len(verifyQueue) \cup {Len(verifyQueue) + 1}
        /\ KeyJobs \subseteq 1..Len(verifyQueue)
    BY <1>7 DEF KeyJobs
  <2>4. KeyEvents' = KeyEvents
    BY <1>2 DEF KeyEvents
  <2> QED
    BY <2>1, <2>2, <2>3, <2>4
<1>14. OneVerification'
  <2>1. \A i \in KeyJobs : verifyQueue'[i] = verifyQueue[i]
    BY <1>7 DEF KeyJobs
  <2> QED
    BY <1>2, <1>13, <2>1 DEF IInv, OneVerification
<1>15. NoResultDuringEcdh'
  BY <1>2, <1>13 DEF IInv, NoResultDuringEcdh
<1> QED
  BY <1>8, <1>9, <1>10, <1>11, <1>12, <1>14, <1>15 DEF IInv

(* trust_rx_continue takes one user away, and unpins its key once. *)
LEMMA TrustRxContinuePreserves ==
    ASSUME IInv, TrustRxContinue
    PROVE  IInv'
<1> DEFINE r == posted[1].job.item
           k == rx[r].key
<1>1. /\ UNCHANGED <<cert, context, public_keys, public_keys_to_verify, poll,
                     add_buffer_in_use, pkitem, in_use, exchanges, verifyQueue, leaked>>
      /\ Deliver("trust")
  BY DEF TrustRxContinue, TrustRxEnds, adding, request
<1>2. /\ posted' \in Seq([job : Job, ok : BOOLEAN])
      /\ Len(posted') = Len(posted) - 1
      /\ Len(posted) \in Nat \ {0}
      /\ \A i \in 1..Len(posted') : posted'[i] = posted[i + 1] /\ i + 1 \in 1..Len(posted)
      /\ Head(posted) = posted[1]
      /\ posted[1] \in [job : Job, ok : BOOLEAN]
      /\ posted[1].job.owner = "trust"
      /\ \A i \in 1..Len(posted') : posted'[i].job # posted[1].job
  BY <1>1, Delivered
<1>3. /\ pin_count' = [pin_count EXCEPT ![k] = @ - 1]
      /\ rx' = [rx EXCEPT ![r] = None]
  BY <1>2 DEF TrustRxContinue, TrustRxEnds
<1>4. /\ r \in Rx /\ rx[r] # None
      /\ rx \in [Rx -> RxItem \cup {None}] /\ pin_count \in [Slots -> Nat]
  <2>1. 1 \in 1..Len(posted)
    BY <1>2
  <2>2. r \in Rx
    BY <1>2, <2>1, TrustEvents
  <2>3. rx[r] # None
    BY <1>2, <2>1 DEF IInv, ResultsHaveItems
  <2> QED
    BY <2>2, <2>3 DEF IInv, TypeOK
<1>5. k \in Slots
  BY <1>4 DEF RxItem
<1>6. ASSUME NEW i \in 1..Len(posted'), posted'[i].job.owner = "trust"
      PROVE  posted'[i].job.item # r
  <2>1. posted'[i] \in [job : Job, ok : BOOLEAN]
    BY <1>2, ElementOf
  <2>2. posted'[i].job \in Job /\ posted[1].job \in Job
    BY <1>2, <2>1
  <2>3. posted'[i].job # posted[1].job
    BY <1>2
  <2> QED
    BY <1>2, <1>6, <2>2, <2>3 DEF Job
<1>7. ASSUME NEW i \in 1..Len(verifyQueue), verifyQueue[i].owner = "trust"
      PROVE  verifyQueue[i].item # r
  <2>1. verifyQueue[i] \in Job /\ posted[1].job \in Job
    BY <1>2, ElementOf DEF IInv, TypeOK
  <2>2. verifyQueue[i] # posted[1].job
    BY <1>2 DEF IInv, ResultsHaveItems
  <2> QED
    BY <1>2, <1>7, <2>1, <2>2 DEF Job
<1> HIDE DEF r, k
<1>8. PinAccounting' /\ pin_count' \in [Slots -> Nat]
  <2>1. ASSUME NEW s \in Slots
        PROVE  /\ pin_count'[s] = Cardinality(Users(s)') + (IF pkitem' = s THEN 1 ELSE 0)
               /\ Cardinality(Users(s)') \in Nat
    <3>1. IsFiniteSet(Users(s)) /\ Cardinality(Users(s)) \in Nat
      BY RxAssumption, FS_Subset, FS_CardinalityType DEF Users
    <3>2. pin_count[s] = Cardinality(Users(s)) + (IF pkitem = s THEN 1 ELSE 0)
      BY DEF IInv, PinAccounting
    <3>3. CASE s = k
      <4>1. Users(s)' = Users(s) \ {r} /\ r \in Users(s)
        BY <1>3, <1>4, <3>3 DEF Users, k
      <4>2. Cardinality(Users(s)') = Cardinality(Users(s)) - 1 /\ IsFiniteSet(Users(s)')
        BY <3>1, <4>1, FS_RemoveElement
      <4>3. pin_count'[s] = pin_count[s] - 1
        BY <1>3, <1>4, <3>3
      <4>4. Cardinality(Users(s)') \in Nat
        BY <4>2, FS_CardinalityType
      <4> QED
        BY <1>1, <3>1, <3>2, <4>2, <4>3, <4>4
    <3>4. CASE s # k
      <4>1. Users(s)' = Users(s)
        BY <1>3, <1>4, <3>4 DEF Users, k
      <4>2. pin_count'[s] = pin_count[s]
        BY <1>3, <1>4, <3>4
      <4> QED
        BY <1>1, <3>1, <3>2, <4>1, <4>2
    <3> QED
      BY <3>3, <3>4
  <2>2. \A s \in Slots : pin_count'[s] \in Nat
    BY <2>1
  <2>3. DOMAIN pin_count' = Slots /\ pin_count' = [s \in Slots |-> pin_count'[s]]
    BY <1>3, <1>4
  <2> QED
    BY <2>1, <2>2, <2>3 DEF PinAccounting
<1>9. TypeOK'
  <2>1. rx' \in [Rx -> RxItem \cup {None}]
    BY <1>3, <1>4
  <2> QED
    BY <1>1, <1>2, <1>8, <2>1 DEF IInv, TypeOK
<1>10. PoolAccounting'
  BY <1>1 DEF IInv, PoolAccounting
<1>11. KeyOfSender'
  BY <1>1, <1>3, <1>4 DEF IInv, KeyOfSender
<1>12. ResultsHaveItems'
  <2>1. /\ \A i, j \in 1..Len(posted') : posted'[i].job = posted'[j].job => i = j
        /\ \A i \in 1..Len(verifyQueue'), j \in 1..Len(posted') : verifyQueue'[i] # posted'[j].job
    BY <1>1, DeliveredResults
  <2>2. ASSUME NEW i \in 1..Len(posted'), posted'[i].job.owner = "trust"
        PROVE  rx'[posted'[i].job.item] # None
    <3>1. rx[posted[i + 1].job.item] # None /\ posted[i + 1].job.item \in Rx
      BY <1>2, <2>2, TrustEvents DEF IInv, ResultsHaveItems
    <3> QED
      BY <1>2, <1>3, <1>4, <1>6, <2>2, <3>1
  <2>3. ASSUME NEW i \in 1..Len(verifyQueue), verifyQueue[i].owner = "trust"
        PROVE  rx'[verifyQueue[i].item] # None
    <3>1. verifyQueue[i] \in Job
      BY ElementOf DEF IInv, TypeOK
    <3>2. verifyQueue[i].item \in Rx
      BY <2>3, <3>1 DEF Job
    <3>3. rx[verifyQueue[i].item] # None
      BY <2>3 DEF IInv, ResultsHaveItems
    <3> QED
      BY <1>3, <1>4, <1>7, <2>3, <3>2, <3>3
  <2>4. \A i, j \in 1..Len(verifyQueue) : verifyQueue[i] = verifyQueue[j] => i = j
    BY DEF IInv, ResultsHaveItems
  <2> QED
    BY <1>1, <2>1, <2>2, <2>3, <2>4 DEF ResultsHaveItems
<1>13. /\ KeyJobs' = KeyJobs
       /\ KeyEvents' = {i \in 1..Len(posted') : i + 1 \in KeyEvents}
  BY <1>1, DeliveredResults
<1>14. KeyEvents' = {} <=> KeyEvents = {}
  <2>1. ASSUME NEW i \in KeyEvents PROVE KeyEvents' # {}
    <3>1. i \in 1..Len(posted) /\ i # 1
      BY <1>2 DEF KeyEvents
    <3>2. i - 1 \in 1..Len(posted') /\ (i - 1) + 1 = i
      BY <1>2, <3>1
    <3> QED
      BY <1>13, <3>2
  <2> QED
    BY <1>13, <2>1
<1>15. OneVerification'
  <2>1. \A i \in KeyJobs' : verifyQueue'[i].item = Head(public_keys_to_verify')
    BY <1>1, <1>13 DEF IInv, OneVerification
  <2>2. \A i \in KeyEvents' : posted'[i].job.item = Head(public_keys_to_verify')
    BY <1>1, <1>2, <1>13 DEF IInv, OneVerification
  <2>3. \A i, j \in KeyEvents' : i = j
    <3>1. ASSUME NEW i \in KeyEvents', NEW j \in KeyEvents' PROVE i = j
      <4>1. i \in 1..Len(posted') /\ j \in 1..Len(posted')
        BY <1>13
      <4>2. i + 1 = j + 1
        BY <1>13 DEF IInv, OneVerification
      <4> QED
        BY <1>2, <4>1, <4>2
    <3> QED
      BY <3>1
  <2> QED
    BY <1>1, <1>13, <1>14, <2>1, <2>2, <2>3 DEF IInv, OneVerification
<1>16. NoResultDuringEcdh'
  BY <1>1, <1>13, <1>14 DEF IInv, NoResultDuringEcdh
<1> QED
  BY <1>8, <1>9, <1>10, <1>11, <1>12, <1>15, <1>16 DEF IInv

(* The request's lock and its exchanges stay well typed. *)
LEMMA RequestTypes ==
    ASSUME IInv, NEW c \in Subjects,
           \/ Send(c)
           \/ UNCHANGED request
           \/ exchanges[c] > 0 /\ exchanges' = [exchanges EXCEPT ![c] = @ - 1] /\ in_use' = FALSE
    PROVE  exchanges' \in [Subjects -> Nat] /\ in_use' \in BOOLEAN
<1>1. exchanges \in [Subjects -> Nat] /\ in_use \in BOOLEAN
  BY DEF IInv, TypeOK
<1>2. CASE Send(c)
  BY <1>1, <1>2 DEF Send
<1>3. CASE UNCHANGED request
  BY <1>1, <1>3 DEF request
<1>4. CASE exchanges[c] > 0 /\ exchanges' = [exchanges EXCEPT ![c] = @ - 1] /\ in_use' = FALSE
  <2>1. exchanges[c] - 1 \in Nat
    BY <1>1, <1>4
  <2> QED
    BY <1>1, <1>4, <2>1
<1> QED
  BY <1>2, <1>3, <1>4

(* keystore_init establishes the invariant. *)
LEMMA InitIInv == Init => IInv
<1> SUFFICES ASSUME Init PROVE IInv
  OBVIOUS
<1>1. PICK s \in Slots : /\ cert = [t \in Slots |-> IF t = s THEN RootSubject ELSE None]
                         /\ public_keys_to_verify = <<s>>
  BY DEF Init
<1>2. TypeOK
  <2>1. cert \in [Slots -> Subjects \cup {None}]
    BY <1>1, SubjectsAssumption
  <2>2. public_keys_to_verify \in Seq(Slots)
    BY <1>1
  <2>3. verifyQueue \in Seq(Job) /\ posted \in Seq([job : Job, ok : BOOLEAN])
    BY DEF Init
  <2>4. /\ context \in [Slots -> Subjects \cup {None}]
        /\ pin_count \in [Slots -> Nat] /\ exchanges \in [Subjects -> Nat]
        /\ rx \in [Rx -> RxItem \cup {None}]
    BY DEF Init
  <2> QED
    BY <2>1, <2>2, <2>3, <2>4 DEF Init, TypeOK
<1>3. PoolAccounting
  <2>1. ListSet(public_keys_to_verify) = {s}
    BY <1>1 DEF ListSet
  <2>2. public_keys = {}
    BY DEF Init
  <2>3. \A t \in Slots : cert[t] # None <=> t = s
    BY <1>1, SubjectsAssumption
  <2>4. \A i, j \in 1..Len(public_keys_to_verify) : i = j
    BY <1>1
  <2> QED
    BY <2>1, <2>2, <2>3, <2>4 DEF PoolAccounting
<1>4. PinAccounting
  <2>1. ASSUME NEW t \in Slots
        PROVE  pin_count[t] = Cardinality(Users(t)) + (IF pkitem = t THEN 1 ELSE 0)
    <3>1. Users(t) = {} /\ pin_count[t] = 0 /\ pkitem # t
      BY SlotsAssumption DEF Init, Users
    <3>2. Cardinality(Users(t)) = 0
      BY <3>1, FS_EmptySet
    <3> QED
      BY <3>1, <3>2
  <2> QED
    BY <2>1 DEF PinAccounting
<1>5. KeyOfSender /\ ResultsHaveItems
  BY DEF Init, KeyOfSender, ResultsHaveItems
<1>6. KeyJobs = {} /\ KeyEvents = {}
  BY DEF Init, KeyJobs, KeyEvents
<1>7. OneVerification /\ NoResultDuringEcdh
  BY <1>6 DEF Init, OneVerification, NoResultDuringEcdh
<1> QED
  BY <1>2, <1>3, <1>4, <1>5, <1>7 DEF IInv

(* Every handler preserves the invariant. *)
LEMMA NextIInv == IInv /\ [Next]_vars => IInv'
<1> SUFFICES ASSUME IInv, [Next]_vars PROVE IInv'
  OBVIOUS
<1>1. ASSUME NEW c \in Subjects, ProcessCertificate(c) PROVE IInv'
  <2>1. PICK ret \in BOOLEAN : KeystoreAdd(c, ret)
    BY <1>1 DEF ProcessCertificate
  <2>2. PICK evicted \in SUBSET public_keys : AddEffect(c, evicted)
    BY <2>1, KeystoreAddEffect DEF IInv
  <2>3. exchanges' \in [Subjects -> Nat] /\ in_use' \in BOOLEAN
    BY <1>1, RequestTypes DEF ProcessCertificate
  <2> QED
    BY <1>1, <2>2, <2>3, AddPreserves DEF ProcessCertificate
<1>2. ASSUME NEW c \in Subjects, RequestPublicKey(c) PROVE IInv'
  BY <1>2, RequestTypes, RequestPreserves DEF RequestPublicKey
<1>3. ASSUME NEW c \in Subjects, Response(c) PROVE IInv'
  <2>1. exchanges' \in [Subjects -> Nat] /\ in_use' \in BOOLEAN
    BY <1>3, RequestTypes DEF Response
  <2>2. CASE UNCHANGED keys
    BY <1>3, <2>1, <2>2, RequestPreserves DEF Response
  <2>3. CASE \E ret \in BOOLEAN : KeystoreAdd(c, ret)
    <3>1. PICK evicted \in SUBSET public_keys : AddEffect(c, evicted)
      BY <2>3, KeystoreAddEffect DEF IInv
    <3> QED
      BY <1>3, <2>1, <3>1, AddPreserves DEF Response
  <2> QED
    BY <1>3, <2>2, <2>3 DEF Response
<1>4. ASSUME NEW c \in Subjects, RequestFailed(c) PROVE IInv'
  BY <1>4, RequestTypes, RequestPreserves DEF RequestFailed
<1>5. CASE RequestLockExpires
  <2>1. exchanges' \in [Subjects -> Nat] /\ in_use' \in BOOLEAN
    BY <1>5 DEF RequestLockExpires, IInv, TypeOK
  <2> QED
    BY <1>5, <2>1, RequestPreserves DEF RequestLockExpires
<1>6. CASE UNCHANGED vars
  <2>1. exchanges' \in [Subjects -> Nat] /\ in_use' \in BOOLEAN
    BY <1>6 DEF vars, request, IInv, TypeOK
  <2> QED
    BY <1>6, <2>1, RequestPreserves DEF vars
<1> QED
  BY <1>1, <1>2, <1>3, <1>4, <1>5, <1>6, TrustPostPreserves, AddStartPreserves,
     PollDuringEcdhPreserves, AddContinuedPreserves, TrustRxContinuePreserves,
     VerifyPreserves, EcdhDonePreserves
  DEF Next

-----------------------------------------------------------------------------
(* The invariant of the key store holds in every reachable state.            *)
THEOREM Invariance == Spec => []IInv
<1>1. Init => IInv
  BY InitIInv
<1>2. IInv /\ [Next]_vars => IInv'
  BY NextIInv
<1> QED
  BY <1>1, <1>2, PTL DEF Spec

(* Every variable keeps the type keystore.c gives it: in particular no       *)
(* pin_count is ever decremented below zero (keystore_unpin).                *)
THEOREM TypeCorrect == Spec => []TypeOK
  BY Invariance, PTL DEF IInv

(* No block of public_keys_memb is lost or freed twice: each allocated block *)
(* is on exactly one of the two lists, once (keystore_add, keystore_remove,  *)
(* keystore_add_start, keystore_add_continued).                              *)
THEOREM BlocksAccounted == Spec => []PoolAccounting
  BY Invariance, PTL DEF IInv

(* pin_count counts exactly the trust messages and the ECDH computation that *)
(* use the key (keystore_pin, keystore_unpin and all of their callers).      *)
THEOREM PinsAccounted == Spec => []PinAccounting
  BY Invariance, PTL DEF IInv

(* Blocks and pins are accounted for in every reachable state, with any      *)
(* number of blocks and whatever fails (keystore_add, keystore_remove,       *)
(* keystore_pin, keystore_unpin and their callers).                          *)
THEOREM AllAccounted == Spec => []Accounting
<1>1. IInv => Accounting
  BY DEF IInv, Accounting
<1> QED
  BY <1>1, Invariance, PTL

(* The key a received trust message points to is in the store and is still   *)
(* its sender's, however many keys are evicted meanwhile (trust_rx_continue).*)
THEOREM SendersKeyStays == Spec => []KeyOfSender
  BY Invariance, PTL DEF IInv

(* Each awaited result belongs to one allocated item; add_buffer holds one   *)
(* certificate at a time, that of the queue's head; and no result is posted  *)
(* while the process waits inside ecdh2.                                     *)
THEOREM VerificationsSerial == Spec => []VerificationConsistent
<1>1. IInv => VerificationConsistent
  BY DEF IInv, VerificationConsistent
<1> QED
  BY <1>1, Invariance, PTL

-----------------------------------------------------------------------------
(* What a step may never do. *)

(* A key that may not be evicted survives every step, unchanged. *)
LEMMA StepKeeps ==
    ASSUME IInv, [Next]_vars, NEW s \in public_keys, ~Evictable(s)
    PROVE  s \in public_keys' /\ cert'[s] = cert[s]
<1>1. s \in Slots /\ cert[s] # None /\ s \notin ListSet(public_keys_to_verify)
  BY DEF IInv, TypeOK, PoolAccounting
<1>2. ASSUME NEW c \in Subjects, NEW ret \in BOOLEAN, KeystoreAdd(c, ret)
      PROVE  s \in public_keys' /\ cert'[s] = cert[s]
  <2>1. PICK evicted \in SUBSET public_keys : AddEffect(c, evicted)
    BY <1>2, KeystoreAddEffect DEF IInv
  <2>2. s \notin evicted /\ s \notin FreeSlots
    BY <1>1, <2>1 DEF AddEffect, FreeSlots
  <2> QED
    BY <1>1, <2>1, <2>2 DEF AddEffect, QueueToVerify
<1>3. CASE UNCHANGED <<cert, public_keys>>
  BY <1>3
<1>4. ASSUME NEW c \in Subjects, ProcessCertificate(c) \/ Response(c)
      PROVE  s \in public_keys' /\ cert'[s] = cert[s]
  BY <1>2, <1>3, <1>4 DEF ProcessCertificate, Response, keys
<1>5. CASE AddStart
  <2>1. CASE DropHead /\ public_keys_to_verify # <<>>
    <3>1. /\ public_keys_to_verify \in Seq(Slots) /\ Distinct(public_keys_to_verify)
          /\ cert \in [Slots -> Subjects \cup {None}]
      BY DEF IInv, TypeOK, PoolAccounting, Distinct
    <3>2. Head(public_keys_to_verify) \in ListSet(public_keys_to_verify)
      BY <2>1, <3>1, RemoveHead
    <3>3. cert' = [cert EXCEPT ![Head(public_keys_to_verify)] = None]
      BY <2>1 DEF DropHead
    <3>4. public_keys' = public_keys
      BY <1>5 DEF AddStart
    <3> QED
      BY <1>1, <3>1, <3>2, <3>3, <3>4
  <2> QED
    BY <1>3, <1>5, <2>1 DEF AddStart
<1>6. CASE AddContinued
  <2>1. /\ posted[1].job.owner = "keystore" /\ Head(posted) = posted[1]
        /\ Len(posted) \in Nat \ {0}
    BY <1>6, Delivered DEF AddContinued
  <2>2. 1 \in KeyEvents
    BY <2>1 DEF KeyEvents
  <2>3. posted[1].job.item = Head(public_keys_to_verify) /\ public_keys_to_verify # <<>>
    BY <2>2 DEF IInv, OneVerification
  <2>4. posted[1].job.item \in ListSet(public_keys_to_verify)
    BY <2>3, RemoveHead DEF IInv, TypeOK, PoolAccounting, Distinct
  <2> QED
    BY <1>1, <1>6, <2>1, <2>4 DEF AddContinued, IInv, TypeOK
<1>7. CASE TrustRxContinue
  BY <1>3, <1>7 DEF TrustRxContinue, TrustRxEnds
<1>8. ASSUME NEW c \in Subjects, RequestPublicKey(c) \/ RequestFailed(c) \/ TrustPost(c)
      PROVE  s \in public_keys' /\ cert'[s] = cert[s]
  BY <1>3, <1>8 DEF RequestPublicKey, RequestFailed, TrustPost, TrustPostInto, keys
<1>9. ASSUME NEW ok \in BOOLEAN, Verify(ok) \/ EcdhDone(ok)
      PROVE  s \in public_keys' /\ cert'[s] = cert[s]
  BY <1>3, <1>9 DEF Verify, EcdhDone, EcdhEnds, keys
<1>10. CASE RequestLockExpires \/ PollDuringEcdh \/ UNCHANGED vars
  BY <1>3, <1>10 DEF RequestLockExpires, PollDuringEcdh, vars, keys
<1> QED
  BY <1>4, <1>5, <1>6, <1>7, <1>8, <1>9, <1>10 DEF Next

(* A pinned block is a verified key: only keys in the store are pinned. *)
LEMMA PinnedIsKey ==
    ASSUME IInv, NEW s \in Slots, IsPinned(s)
    PROVE  s \in public_keys
<1>1. CASE pkitem = s
  BY <1>1, SlotsAssumption DEF IInv, KeyOfSender
<1>2. CASE pkitem # s
  <2>1. Cardinality(Users(s)) # 0
    <3>1. pin_count[s] = Cardinality(Users(s)) + 0 /\ pin_count[s] # 0
      BY <1>2 DEF IInv, TypeOK, PinAccounting, IsPinned
    <3> QED
      BY <3>1
  <2>2. Users(s) # {}
    BY <2>1, FS_EmptySet
  <2> QED
    BY <2>2 DEF Users, IInv, KeyOfSender
<1> QED
  BY <1>1, <1>2

(* Once the root's key is verified, no later step removes it from the store  *)
(* (keystore_free_up_space skips it).                                        *)
LEMMA RootNeverEvicted == Spec => RootKept
<1>1. IInv /\ [Next]_vars => (Find(RootSubject) # {} => Find(RootSubject)' # {})
  <2> SUFFICES ASSUME IInv, [Next]_vars, Find(RootSubject) # {}
               PROVE  Find(RootSubject)' # {}
    OBVIOUS
  <2>1. PICK s \in public_keys : cert[s] = RootSubject
    BY DEF Find, FindInList
  <2>2. s \in public_keys' /\ cert'[s] = RootSubject
    BY <2>1, StepKeeps DEF Evictable
  <2> QED
    BY <2>2 DEF Find, FindInList
<1> QED
  BY <1>1, Invariance, PTL DEF Spec, RootKept

(* A key in use is neither evicted nor overwritten by any handler            *)
(* (keystore_pin protects it from keystore_free_up_space).                   *)
LEMMA PinnedNeverEvicted == Spec => PinnedKept
<1>1. IInv /\ [Next]_vars
         => \A s \in Slots : IsPinned(s) => s \in public_keys' /\ cert'[s] = cert[s]
  BY PinnedIsKey, StepKeeps DEF Evictable
<1> QED
  BY <1>1, Invariance, PTL DEF Spec, PinnedKept

(* The root's key and keys in use survive whatever keystore_free_up_space    *)
(* removes.                                                                  *)
THEOREM EvictionSparesKeys == Spec => EvictionSpares
  BY RootNeverEvicted, PinnedNeverEvicted DEF EvictionSpares

-----------------------------------------------------------------------------
(* The pool of messages to verify. *)

(* Without a certificate under way, every job is for a trust message of its own. *)
LEMMA JobsAreTrust ==
    ASSUME IInv, ~add_buffer_in_use
    PROVE  /\ \A i \in 1..Len(verifyQueue) : /\ verifyQueue[i].item \in Rx
                                             /\ verifyQueue[i] = TrustJob(verifyQueue[i].item)
           /\ \A i \in 1..Len(posted) : /\ posted[i].job.item \in Rx
                                        /\ posted[i].job = TrustJob(posted[i].job.item)
<1>1. KeyJobs = {} /\ KeyEvents = {}
  BY DEF IInv, OneVerification
<1>2. \A x \in Job : x.owner # "keystore" => x.item \in Rx /\ x = TrustJob(x.item)
  BY DEF Job, TrustJob
<1>3. ASSUME NEW i \in 1..Len(verifyQueue)
      PROVE  verifyQueue[i].item \in Rx /\ verifyQueue[i] = TrustJob(verifyQueue[i].item)
  <2>1. verifyQueue[i] \in Job
    BY ElementOf DEF IInv, TypeOK
  <2>2. verifyQueue[i].owner # "keystore"
    BY <1>1 DEF KeyJobs
  <2> QED
    BY <1>2, <2>1, <2>2
<1>4. ASSUME NEW i \in 1..Len(posted)
      PROVE  posted[i].job.item \in Rx /\ posted[i].job = TrustJob(posted[i].job.item)
  <2>1. posted[i] \in [job : Job, ok : BOOLEAN]
    BY ElementOf DEF IInv, TypeOK
  <2>2. posted[i].job \in Job
    BY <2>1
  <2>3. posted[i].job.owner # "keystore"
    BY <1>1 DEF KeyEvents
  <2> QED
    BY <1>2, <2>2, <2>3
<1> QED
  BY <1>3, <1>4

(* So there are no more jobs than blocks of trust_rx_memb. *)
LEMMA JobsBounded ==
    ASSUME IInv, ~add_buffer_in_use
    PROVE  Len(verifyQueue) + Len(posted) <= Cardinality(Rx)
<1> DEFINE v == Len(verifyQueue)
           p == Len(posted)
           f == [i \in 1..(v + p) |-> IF i <= v THEN verifyQueue[i].item ELSE posted[i - v].job.item]
<1>1. v \in Nat /\ p \in Nat
  BY DEF IInv, TypeOK
<1>2. /\ \A i \in 1..v : verifyQueue[i].item \in Rx /\ verifyQueue[i] = TrustJob(verifyQueue[i].item)
      /\ \A i \in 1..p : posted[i].job.item \in Rx /\ posted[i].job = TrustJob(posted[i].job.item)
  BY JobsAreTrust
<1>3. /\ \A i, j \in 1..v : verifyQueue[i] = verifyQueue[j] => i = j
      /\ \A i, j \in 1..p : posted[i].job = posted[j].job => i = j
      /\ \A i \in 1..v, j \in 1..p : verifyQueue[i] # posted[j].job
  BY DEF IInv, ResultsHaveItems
<1> HIDE DEF v, p
<1>4. \A i \in 1..(v + p) : (i <= v => i \in 1..v) /\ (~(i <= v) => i - v \in 1..p)
  BY <1>1
<1>5. /\ \A i, j \in 1..v : verifyQueue[i].item = verifyQueue[j].item => i = j
      /\ \A i, j \in 1..p : posted[i].job.item = posted[j].job.item => i = j
      /\ \A i \in 1..v, j \in 1..p : verifyQueue[i].item # posted[j].job.item
  BY <1>2, <1>3
<1>6. f \in [1..(v + p) -> Rx]
  BY <1>2, <1>4
<1>7. ASSUME NEW i \in 1..(v + p), NEW j \in 1..(v + p), f[i] = f[j] PROVE i = j
  <2>1. CASE i <= v /\ j <= v
    BY <1>4, <1>5, <1>7, <2>1
  <2>2. CASE i <= v /\ ~(j <= v)
    BY <1>4, <1>5, <1>7, <2>2
  <2>3. CASE ~(i <= v) /\ j <= v
    BY <1>4, <1>5, <1>7, <2>3
  <2>4. CASE ~(i <= v) /\ ~(j <= v)
    <3>1. i - v = j - v
      BY <1>4, <1>5, <1>7, <2>4
    <3> QED
      BY <1>1, <3>1
  <2> QED
    BY <2>1, <2>2, <2>3, <2>4
<1> HIDE DEF f
<1>8. f \in Injection(1..(v + p), Rx)
  BY <1>6, <1>7 DEF Injection, IsInjective
<1>9. Cardinality(1..(v + p)) <= Cardinality(Rx)
  BY <1>8, RxAssumption, FS_Injection
<1> DEFINE n == v + p
<1>10. n \in Nat /\ n \in Int /\ 1 \in Int
  BY <1>1
<1> HIDE DEF n
<1>11. Cardinality(1..n) = IF 1 > n THEN 0 ELSE n - 1 + 1
  BY <1>10, FS_Interval
<1>12. Cardinality(1..n) = n
  BY <1>10, <1>11
<1> QED
  BY <1>9, <1>12 DEF n, v, p

LEMMA PoolSuffices == IInv => VerifyPoolSuffices
<1> SUFFICES ASSUME IInv, Cardinality(Rx) < VerifySize, leaked = 0, ~add_buffer_in_use
             PROVE  PoolUsed < VerifySize
  BY DEF VerifyPoolSuffices
<1>1. Len(verifyQueue) + Len(posted) <= Cardinality(Rx)
  BY JobsBounded
<1>2. /\ Len(verifyQueue) \in Nat /\ Len(posted) \in Nat
      /\ Cardinality(Rx) \in Nat /\ VerifySize \in Nat
  BY RxAssumption, SizesAssumption, FS_CardinalityType DEF IInv, TypeOK
<1> QED
  BY <1>1, <1>2 DEF PoolUsed

(* With MESSAGES_TO_VERIFY_SIZE above TRUST_RX_SIZE and no event lost, an entry *)
(* is free whenever a certificate's turn comes (keystore_add_start drops the   *)
(* certificate if there is none).                                            *)
THEOREM VerifyPoolIsEnough == Spec => []VerifyPoolSuffices
  BY PoolSuffices, Invariance, PTL

-----------------------------------------------------------------------------
(* The queue of certificates. *)

(* Some step is to come that takes up the queue. *)
TakenUp == \/ public_keys_to_verify = <<>>
           \/ poll
           \/ add_buffer_in_use
           \/ pkitem # None

(* keystore_add polls the process when it queues a certificate, and takes no *)
(* poll back.                                                                *)
LEMMA AddPolls ==
    ASSUME NEW c \in Subjects, NEW ret \in BOOLEAN, KeystoreAdd(c, ret)
    PROVE  \/ poll'
           \/ public_keys_to_verify' = public_keys_to_verify /\ (poll => poll')
<1>1. CASE Find(c) \cup FindInList(c, public_keys_to_verify) # {}
  <2>1. poll' = (poll \/ Find(c) = {}) /\ public_keys_to_verify' = public_keys_to_verify
    BY <1>1 DEF KeystoreAdd
  <2> QED
    BY <2>1
<1>2. CASE UNCHANGED <<public_keys_to_verify, poll>>
  BY <1>2
<1>3. CASE \E s \in FreeSlots : QueueToVerify(s, c, {})
  BY <1>3 DEF QueueToVerify
<1>4. CASE \E evicted \in SUBSET public_keys : \E s \in evicted : QueueToVerify(s, c, evicted)
  BY <1>4 DEF QueueToVerify
<1> QED
  BY <1>1, <1>2, <1>3, <1>4 DEF KeystoreAdd

(* A step that loses no event leaves the queue taken up. *)
LEMMA StepTakesUp ==
    ASSUME IInv, Cardinality(Rx) < VerifySize, ~EncodeMayFail, leaked = 0, TakenUp, [Next]_vars
    PROVE  TakenUp'
<1>1. ASSUME UNCHANGED <<adding, public_keys_to_verify, poll>> PROVE TakenUp'
  BY <1>1 DEF TakenUp, adding
<1>2. ASSUME NEW c \in Subjects, ProcessCertificate(c) \/ Response(c) PROVE TakenUp'
  BY <1>1, <1>2, AddPolls DEF ProcessCertificate, Response, keys, TakenUp, adding
<1>3. ASSUME NEW c \in Subjects, RequestPublicKey(c) \/ RequestFailed(c) \/ TrustPost(c)
      PROVE  TakenUp'
  BY <1>1, <1>3 DEF RequestPublicKey, RequestFailed, TrustPost, TrustPostInto, keys, adding
<1>4. CASE AddStart
  <2>1. ~add_buffer_in_use => ~Rejected
    <3>1. ~add_buffer_in_use => PoolUsed < VerifySize
      BY PoolSuffices DEF VerifyPoolSuffices
    <3>2. PoolUsed \in Nat /\ VerifySize \in Nat
      BY SizesAssumption DEF PoolUsed, IInv, TypeOK
    <3> QED
      BY <3>1, <3>2 DEF Rejected
  <2> QED
    BY <1>4, <2>1 DEF AddStart, TakenUp
<1>5. CASE AddContinued
  <2>1. /\ Head(posted) = posted[1] /\ posted[1].job.owner = "keystore"
        /\ posted[1] \in [job : Job, ok : BOOLEAN]
    BY <1>5, Delivered DEF AddContinued
  <2>2. posted[1].job.item \in Slots
    BY <2>1 DEF Job
  <2>3. pkitem' = posted[1].job.item \/ poll' = TRUE
    BY <1>5, <2>1 DEF AddContinued
  <2> QED
    BY <2>2, <2>3, SlotsAssumption DEF TakenUp
<1>6. CASE PollDuringEcdh
  BY <1>6 DEF PollDuringEcdh, TakenUp, adding
<1>7. ASSUME NEW ok \in BOOLEAN, EcdhDone(ok) PROVE TakenUp'
  BY <1>7 DEF EcdhDone, EcdhEnds, TakenUp
<1>8. ASSUME NEW ok \in BOOLEAN, Verify(ok) PROVE TakenUp'
  BY <1>1, <1>8 DEF Verify, keys
<1>9. CASE TrustRxContinue
  BY <1>1, <1>9 DEF TrustRxContinue, TrustRxEnds
<1>10. CASE RequestLockExpires \/ UNCHANGED vars
  BY <1>1, <1>10 DEF RequestLockExpires, vars, keys
<1> QED
  BY <1>2, <1>3, <1>4, <1>5, <1>6, <1>7, <1>8, <1>9, <1>10 DEF Next

(* No step gives back what a lost event held. *)
LEMMA LeakedStays ==
    ASSUME IInv, [Next]_vars, leaked' = 0
    PROVE  leaked = 0
<1>1. leaked' = leaked \/ leaked' = leaked + 1
  BY DEF Next, ProcessCertificate, Response, RequestPublicKey, RequestFailed, TrustPost, TrustPostInto,
         AddStart, AddContinued, PollDuringEcdh, EcdhDone, EcdhEnds, Verify, TrustRxContinue, TrustRxEnds,
         RequestLockExpires, vars, service
<1> QED
  BY <1>1 DEF IInv, TypeOK

(* As long as no event is lost, every queued certificate has a poll, a       *)
(* verification or a running ecdh2 ahead of it that takes it up: no          *)
(* interleaving of keystore_add, of polls swallowed by ecdh2 and of results  *)
(* leaves the queue of keystore_add_start behind.                            *)
THEOREM NoCertificateLeftBehind == Spec => []CertificatesTakenUp
<1> DEFINE Taken == Cardinality(Rx) < VerifySize /\ ~EncodeMayFail /\ leaked = 0 => TakenUp
<1>1. Init => Taken
  BY DEF Init, TakenUp
<1>2. IInv /\ Taken /\ [Next]_vars => Taken'
  BY StepTakesUp, LeakedStays
<1>3. IInv /\ Taken => CertificatesTakenUp
  BY DEF IInv, OneVerification, TakenUp, CertificatesTakenUp
<1> QED
  BY <1>1, <1>2, <1>3, Invariance, PTL DEF Spec
=============================================================================
