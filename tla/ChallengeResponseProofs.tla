------------------------ MODULE ChallengeResponseProofs ------------------------
(***************************************************************************)
(* The challenges of a node, for any number of Edges and blocks and any       *)
(* duration and period that challenge-response.c compiles with and any lock    *)
(* and transmission time, whatever Edges answer and however they come and go.         *)
(***************************************************************************)
EXTENDS ChallengeResponse, SequenceTheorems, FiniteSetTheorems, TLAPS

(* Requests were sent when the period that runs now began, or before, and the  *)
(* period's end is still to come or has just come.                            *)
PeriodCovers ==
    /\ \A x \in open : x.ch <= challenge_timer.start
    /\ challenge_timer.on => challenge_timer.start + Period > now
    /\ "challenge" \in posted => /\ challenge_timer.start + Period >= now
                                 /\ \A x \in open : x.ch + Period <= now

(* A request is open until CoAP gives up on it. *)
OpenInTime == \A x \in open : x.ch <= now /\ now - x.ch <= AckBy

IInv == TypeOK /\ OneChallengerEach /\ CallbackHasChallenge /\ PeriodCovers /\ OpenInTime

-----------------------------------------------------------------------------
(* The list and its memory. *)

LEMMA NoneIsNoBlock == None \notin Blocks /\ Period \in Nat \ {0} /\ Blocks \subseteq Nat
  BY TimeAssumption DEF Blocks

LEMMA ListDomain ==
    ASSUME TypeOK
    PROVE  /\ Len(challengers) \in Nat /\ DOMAIN challengers = 1..Len(challengers)
           /\ \A i \in 1..Len(challengers) : challengers[i] \in Blocks
           /\ OnList \subseteq Blocks
<1>1. Len(challengers) \in Nat /\ DOMAIN challengers = 1..Len(challengers)
      /\ \A i \in 1..Len(challengers) : challengers[i] \in Blocks
  BY LenProperties DEF TypeOK
<1> QED
  BY <1>1 DEF OnList

(* The next challenge is one of a challenger on the list; there is none only   *)
(* if the list is empty.                                                      *)
LEMMA MoveOnList ==
    ASSUME TypeOK
    PROVE  /\ MoveToNext \in OnList \cup {None}
           /\ OnList # {} => MoveToNext # None
<1>1. list_head \in OnList \cup {None} /\ (OnList # {} => list_head \in OnList)
  <2>1. CASE challengers = <<>>
    BY <2>1 DEF list_head, OnList
  <2>2. CASE challengers # <<>>
    <3>1. 1 \in DOMAIN challengers /\ Head(challengers) = challengers[1]
      BY <2>2, ListDomain, EmptySeq DEF TypeOK
    <3> QED
      BY <2>2, <3>1 DEF list_head, OnList
  <2> QED
    BY <2>1, <2>2
<1>2. \A b : list_item_next(b) \in OnList \cup {None}
  <2> SUFFICES ASSUME NEW b, \E i \in DOMAIN challengers : i < Len(challengers) /\ challengers[i] = b
               PROVE  list_item_next(b) \in OnList
    BY DEF list_item_next
  <2> DEFINE i == CHOOSE j \in DOMAIN challengers : j < Len(challengers) /\ challengers[j] = b
  <2>1. i \in DOMAIN challengers /\ i < Len(challengers)
    OBVIOUS
  <2>2. i + 1 \in DOMAIN challengers
    BY <2>1, ListDomain
  <2>3. list_item_next(b) = challengers[i + 1]
    BY DEF list_item_next
  <2> QED
    BY <2>2, <2>3 DEF OnList
<1>3. None \notin OnList
  BY ListDomain, NoneIsNoBlock
<1> QED
  BY <1>1, <1>2, <1>3 DEF MoveToNext

(* An Edge with the capability has its challenger. *)
LEMMA FindsChallenger ==
    ASSUME TypeOK, OneChallengerEach, NEW e
    PROVE  /\ find_edge_challenger(e) \in OnList \cup {None}
           /\ e \in capable => /\ find_edge_challenger(e) \in OnList
                               /\ block[find_edge_challenger(e)].edge = e
           /\ find_edge_challenger(e) # None => e \in capable /\ block[find_edge_challenger(e)].edge = e
<1>1. e \in capable <=> \E b \in OnList : block[b].edge = e
  BY DEF OneChallengerEach
<1> QED
  BY <1>1 DEF find_edge_challenger

(* An Edge that gets the capability finds a free block: there is one for each Edge. *)
LEMMA BlockIsFree ==
    ASSUME TypeOK, OneChallengerEach, NEW e \in Edges, e \notin capable
    PROVE  FreeBlocks # {}
<1> SUFFICES ASSUME FreeBlocks = {} PROVE FALSE
  OBVIOUS
<1>1. OnList = Blocks
  BY ListDomain DEF FreeBlocks
<1> DEFINE f == [b \in Blocks |-> block[b].edge]
<1>2. f \in [Blocks -> Edges \ {e}]
  BY <1>1 DEF OneChallengerEach, TypeOK
<1>3. IsFiniteSet(Edges \ {e}) /\ Cardinality(Edges \ {e}) = Cardinality(Edges) - 1
  BY EdgeAssumption, FS_RemoveElement
<1>4. Cardinality(Edges) \in Nat /\ Cardinality(Edges) # 0
  BY EdgeAssumption, FS_CardinalityType, FS_EmptySet
<1>5. IsFiniteSet(Blocks) /\ Cardinality(Blocks) = NumEdgeResources
  BY TimeAssumption, FS_Interval DEF Blocks
<1>6. Cardinality(Edges \ {e}) < Cardinality(Blocks)
  BY <1>3, <1>4, <1>5, EdgeAssumption, TimeAssumption
<1> HIDE DEF f
<1>7. \E b, c \in Blocks : b # c /\ f[b] = f[c]
  BY <1>2, <1>3, <1>5, <1>6, FS_PigeonHole
<1> QED
  BY <1>1, <1>7 DEF f, OneChallengerEach

(* list_add of a free block *)
LEMMA ListAdds ==
    ASSUME TypeOK, NEW b \in FreeBlocks, challengers' = <<b>> \o challengers,
           \A i, j \in DOMAIN challengers : challengers[i] = challengers[j] => i = j
    PROVE  /\ challengers' \in Seq(Blocks)
           /\ OnList' = OnList \cup {b}
           /\ \A i, j \in DOMAIN challengers' : challengers'[i] = challengers'[j] => i = j
<1> DEFINE n == Len(challengers)
<1>1. <<b>> \in Seq(Blocks) /\ Len(<<b>>) = 1 /\ <<b>>[1] = b
  BY DEF FreeBlocks
<1>2. n \in Nat /\ DOMAIN challengers = 1..n /\ b \notin OnList
  BY ListDomain DEF FreeBlocks
<1>3. /\ challengers' \in Seq(Blocks) /\ Len(challengers') = n + 1
      /\ \A i \in 1..(n + 1) : challengers'[i] = IF i <= 1 THEN <<b>>[i] ELSE challengers[i - 1]
  BY <1>1, <1>2, ConcatProperties DEF TypeOK
<1>4. DOMAIN challengers' = 1..(n + 1)
  BY <1>3, LenProperties
<1>5. challengers'[1] = b /\ \A i \in 2..(n + 1) : challengers'[i] = challengers[i - 1] /\ i - 1 \in 1..n
  BY <1>1, <1>2, <1>3
<1>6. OnList' = OnList \cup {b}
  <2>1. OnList' = {challengers'[i] : i \in 1..(n + 1)}
    BY <1>4 DEF OnList
  <2>2. ASSUME NEW c \in OnList' PROVE c \in OnList \cup {b}
    <3>1. PICK i \in 1..(n + 1) : c = challengers'[i]
      BY <2>1, <2>2
    <3>2. i = 1 \/ i \in 2..(n + 1)
      BY <1>2
    <3> QED
      BY <1>2, <1>5, <3>1, <3>2 DEF OnList
  <2>3. ASSUME NEW c \in OnList PROVE c \in OnList'
    <3>1. PICK i \in 1..n : c = challengers[i]
      BY <1>2 DEF OnList
    <3>2. i + 1 \in 2..(n + 1) /\ (i + 1) - 1 = i /\ i + 1 \in 1..(n + 1)
      BY <1>2
    <3>3. challengers'[i + 1] = c
      BY <1>5, <3>1, <3>2
    <3> QED
      BY <2>1, <3>2, <3>3
  <2>4. b \in OnList'
    BY <1>2, <1>5, <2>1
  <2> QED
    BY <2>2, <2>3, <2>4
<1>7. ASSUME NEW i \in DOMAIN challengers', NEW j \in DOMAIN challengers', challengers'[i] = challengers'[j]
      PROVE  i = j
  <2>1. \A m \in 2..(n + 1) : challengers'[m] # b
    BY <1>2, <1>5 DEF OnList
  <2>2. (i = 1 \/ i \in 2..(n + 1)) /\ (j = 1 \/ j \in 2..(n + 1))
    BY <1>2, <1>4
  <2>3. CASE i \in 2..(n + 1) /\ j \in 2..(n + 1)
    <3>1. i - 1 = j - 1
      BY <1>2, <1>5, <1>7, <2>3
    <3> QED
      BY <1>2, <2>3, <3>1
  <2> QED
    BY <1>5, <1>7, <2>1, <2>2, <2>3
<1> QED
  BY <1>3, <1>6, <1>7

(* list_remove of a block on the list *)
LEMMA ListRemoves ==
    ASSUME TypeOK, NEW b \in OnList, challengers' = list_remove(b),
           \A i, j \in DOMAIN challengers : challengers[i] = challengers[j] => i = j
    PROVE  /\ challengers' \in Seq(Blocks)
           /\ OnList' = OnList \ {b}
           /\ \A i, j \in DOMAIN challengers' : challengers'[i] = challengers'[j] => i = j
<1> DEFINE n == Len(challengers)
           k == CHOOSE j \in DOMAIN challengers : challengers[j] = b
<1>1. n \in Nat /\ DOMAIN challengers = 1..n /\ \A i \in 1..n : challengers[i] \in Blocks
  BY ListDomain
<1>2. k \in 1..n /\ challengers[k] = b
  BY <1>1 DEF OnList
<1>3. challengers' = [j \in 1..(n - 1) |-> IF j < k THEN challengers[j] ELSE challengers[j + 1]]
  BY DEF list_remove
<1> HIDE DEF k
<1>4. n - 1 \in Nat /\ \A j \in 1..(n - 1) : j \in 1..n /\ j + 1 \in 1..n
  BY <1>1, <1>2
<1>5. challengers' \in [1..(n - 1) -> Blocks]
  BY <1>1, <1>3, <1>4
<1>6. challengers' \in Seq(Blocks)
  BY <1>4, <1>5, SeqDef
<1>7. DOMAIN challengers' = 1..(n - 1)
  BY <1>3
<1>8. OnList' = OnList \ {b}
  <2>1. OnList' = {challengers'[i] : i \in 1..(n - 1)}
    BY <1>7 DEF OnList
  <2>2. ASSUME NEW c \in OnList' PROVE c \in OnList \ {b}
    <3>1. PICK j \in 1..(n - 1) : c = IF j < k THEN challengers[j] ELSE challengers[j + 1]
      BY <1>3, <2>1, <2>2
    <3>2. PICK i \in 1..n : c = challengers[i] /\ i # k
      BY <1>1, <1>2, <1>4, <3>1
    <3> QED
      BY <1>1, <1>2, <3>2 DEF OnList
  <2>3. ASSUME NEW c \in OnList \ {b} PROVE c \in OnList'
    <3>1. PICK i \in 1..n : c = challengers[i] /\ i # k
      BY <1>1, <1>2 DEF OnList
    <3>2. CASE i < k
      <4>1. i \in 1..(n - 1) /\ challengers'[i] = c
        BY <1>1, <1>2, <1>3, <3>1, <3>2
      <4> QED
        BY <2>1, <4>1
    <3>3. CASE i > k
      <4>1. i - 1 \in 1..(n - 1) /\ ~(i - 1 < k) /\ (i - 1) + 1 = i
        BY <1>1, <1>2, <3>3
      <4>2. challengers'[i - 1] = c
        BY <1>3, <3>1, <4>1
      <4> QED
        BY <2>1, <4>1, <4>2
    <3> QED
      BY <1>1, <1>2, <3>1, <3>2, <3>3
  <2> QED
    BY <2>2, <2>3
<1>9. ASSUME NEW i \in DOMAIN challengers', NEW j \in DOMAIN challengers', challengers'[i] = challengers'[j]
      PROVE  i = j
  <2>1. i \in 1..(n - 1) /\ j \in 1..(n - 1)
    BY <1>7
  <2>2. (IF i < k THEN i ELSE i + 1) = (IF j < k THEN j ELSE j + 1)
    BY <1>1, <1>3, <1>4, <1>9, <2>1
  <2> QED
    BY <1>1, <1>2, <2>1, <2>2
<1> QED
  BY <1>6, <1>8, <1>9

-----------------------------------------------------------------------------
(* Steps that leave the list alone keep every Edge's challenger. *)
LEMMA ListSame ==
    ASSUME OneChallengerEach, UNCHANGED <<challengers, capable>>,
           \A b \in OnList : block'[b].edge = block[b].edge
    PROVE  OneChallengerEach' /\ OnList' = OnList
<1>1. OnList' = OnList
  BY DEF OnList
<1> QED
  BY <1>1 DEF OneChallengerEach

Challenger == [edge : Edges \cup {None}, ch : Nat, gen : Nat, rec : Nat]

(* A challenge sent, timed out or answered is the same Edge's. *)
LEMMA SameEdge ==
    ASSUME TypeOK, NEW b \in Blocks,
           \/ block' = [block EXCEPT ![b].ch = now, ![b].gen = now]
           \/ block' = [block EXCEPT ![b].gen = 0, ![b].rec = 0]
           \/ block' = [block EXCEPT ![b].rec = now]
    PROVE  block' \in [Blocks -> Challenger] /\ \A c \in Blocks : block'[c].edge = block[c].edge
<1>1. block \in [Blocks -> Challenger] /\ now \in Nat
  BY DEF TypeOK, Challenger
<1> QED
  BY <1>1 DEF Challenger

LEMMA AckByBound == ASSUME TypeOK PROVE AckBy \in Nat /\ (~Fault("slow") => AckBy < Period)
  BY TimeAssumption DEF AckBy

LEMMA MaxDurationType == ASSUME NEW b PROVE MaxDuration(b) \in Nat
  BY TimeAssumption DEF MaxDuration

LEMMA TickIInv == IInv /\ Tick => IInv'
<1> SUFFICES ASSUME IInv, Tick PROVE IInv'
  OBVIOUS
<1> USE DEF IInv
<1>1. /\ posted = {} /\ now' = now + 1 /\ \A x \in open : now - x.ch < AckBy
      /\ challenge_timer' = [challenge_timer EXCEPT
            !.on = @ /\ ~Due(challenge_timer.on, challenge_timer.start + Period)]
      /\ challenge_response_timer' \in {0, challenge_response_timer}
      /\ posted' \subseteq {"challenge", "response"}
      /\ "challenge" \in posted' => Due(challenge_timer.on, challenge_timer.start + Period)
      /\ UNCHANGED <<scenario, capable, known, memory, lock, ep, open, asked, bad, history>>
  BY DEF Tick
<1>2. challenge_timer \in [start : Nat, on : BOOLEAN] /\ now \in Nat
  BY DEF TypeOK
<1>3. /\ challenge_timer' \in [start : Nat, on : BOOLEAN]
      /\ challenge_timer'.start = challenge_timer.start
      /\ challenge_timer'.on <=> challenge_timer.on /\ ~(challenge_timer.start + Period <= now + 1)
  BY <1>1, <1>2 DEF Due
<1>4. TypeOK'
  <2>1. now' \in Nat /\ challenge_response_timer' \in Nat
    BY <1>1, <1>2 DEF TypeOK
  <2>2. UNCHANGED <<scenario, capable, known, block, challengers, next_challenge, lock, ep, open, asked, bad,
                    failed, solved>>
    BY <1>1 DEF memory, history
  <2>3. challenge_timer' \in [start : Nat, on : BOOLEAN] /\ posted' \subseteq {"challenge", "response"}
    BY <1>1, <1>3
  <2> QED
    BY <2>1, <2>2, <2>3 DEF TypeOK
<1>5. OneChallengerEach'
  BY <1>1, ListSame DEF memory
<1>6. CallbackHasChallenge'
  <2>1. \A x \in open : x.ch \in Nat
    BY DEF TypeOK
  <2>2. \A x \in open : now' - x.ch < Period => now - x.ch < Period
    BY <1>1, <1>2, <2>1, TimeAssumption
  <2>3. \A y \in open : now - y.ch >= Period => now' - y.ch >= Period
    BY <1>1, <1>2, <2>1, TimeAssumption
  <2>4. UNCHANGED <<open, ep, next_challenge>>
    BY <1>1 DEF memory
  <2> QED
    BY <2>2, <2>3, <2>4 DEF CallbackHasChallenge
<1>7. \A x \in open : x.ch \in Nat /\ x.ch <= now /\ now + 1 - x.ch <= AckBy
  <2> SUFFICES ASSUME NEW x \in open PROVE x.ch \in Nat /\ x.ch <= now /\ now + 1 - x.ch <= AckBy
    OBVIOUS
  <2>1. x.ch \in Nat /\ x.ch <= now /\ now - x.ch < AckBy
    BY <1>1 DEF TypeOK, OpenInTime
  <2> QED
    BY <1>2, <2>1, AckByBound
<1>8. OpenInTime'
  <2>1. AckBy' = AckBy
    BY <1>1 DEF AckBy, Fault
  <2> QED
    BY <1>1, <1>2, <1>7, <2>1 DEF OpenInTime
<1>9. PeriodCovers'
  <2>1. ASSUME challenge_timer'.on PROVE challenge_timer'.start + Period > now'
    BY <1>1, <1>2, <1>3, <2>1, TimeAssumption DEF PeriodCovers
  <2>2. \A x \in open' : x.ch <= challenge_timer'.start
    BY <1>1, <1>3 DEF PeriodCovers
  <2>3. ASSUME "challenge" \in posted'
        PROVE  challenge_timer'.start + Period >= now' /\ \A x \in open' : x.ch + Period <= now'
    <3>1. challenge_timer.on /\ challenge_timer.start + Period <= now + 1
      BY <1>1, <2>3 DEF Due
    <3>2. challenge_timer.start + Period > now /\ \A x \in open : x.ch <= challenge_timer.start
      BY <3>1 DEF PeriodCovers
    <3>3. \A x \in open : x.ch + Period <= now + 1
      BY <1>2, <1>7, <3>1, <3>2, TimeAssumption
    <3> QED
      BY <1>1, <1>2, <1>3, <3>2, <3>3, TimeAssumption
  <2> QED
    BY <2>1, <2>2, <2>3 DEF PeriodCovers
<1> QED
  BY <1>4, <1>5, <1>6, <1>8, <1>9

(* periodic_action leaves the list alone; a challenge that it sends is a       *)
(* period younger than the requests that are still open.                      *)
LEMMA ChallengeTimerIInv == IInv /\ ChallengeTimer => IInv'
<1> SUFFICES ASSUME IInv, ChallengeTimer PROVE IInv'
  OBVIOUS
<1> USE DEF IInv
<1>1. /\ "challenge" \in posted /\ posted' = posted \ {"challenge"} /\ periodic_action
      /\ challenge_timer' = [start |-> challenge_timer.start + Period, on |-> TRUE]
      /\ UNCHANGED <<scenario, now, capable, known, bad, history>>
  BY DEF ChallengeTimer
<1>2. challenge_timer.start + Period >= now /\ challenge_timer.start \in Nat /\ now \in Nat
  BY <1>1 DEF PeriodCovers, TypeOK
<1>a. \A x \in open : x.ch \in Nat /\ x.ch + Period <= now
  BY <1>1 DEF PeriodCovers, TypeOK
<1>3. /\ challenge_timer' \in [start : Nat, on : BOOLEAN]
      /\ challenge_timer'.start = challenge_timer.start + Period
      /\ challenge_timer'.start >= now
      /\ challenge_timer'.start + Period > now
  BY <1>1, <1>2, TimeAssumption
<1>4. AckBy' = AckBy /\ AckBy \in Nat /\ now - now = 0
  BY <1>1, <1>2, AckByBound DEF AckBy, Fault
<1>b. \A x \in open : ~(now - x.ch < Period) /\ now - x.ch >= Period /\ x.ch <= challenge_timer'.start
  BY <1>2, <1>3, <1>a, TimeAssumption
<1>c. \A x \in open : x.ch <= now /\ now - x.ch <= AckBy
  BY DEF OpenInTime
<1>5. posted' \subseteq {"challenge", "response"} /\ "challenge" \notin posted'
  BY <1>1 DEF TypeOK
<1>6. CASE UNCHANGED <<memory, challenge_response_timer, ep, lock, open, asked>>
  <2>1. TypeOK'
    BY <1>1, <1>3, <1>5, <1>6 DEF TypeOK, memory, history
  <2>2. OneChallengerEach'
    BY <1>1, <1>6, ListSame DEF memory
  <2> QED
    BY <1>1, <1>3, <1>4, <1>5, <1>6, <1>b, <1>c, <2>1, <2>2 DEF CallbackHasChallenge, PeriodCovers, OpenInTime
<1>7. CASE /\ move_to_next_challenge /\ MoveToNext = None
           /\ UNCHANGED <<block, ep, lock, open, asked, challengers>>
  <2>1. TypeOK'
    BY <1>1, <1>3, <1>5, <1>7 DEF TypeOK, move_to_next_challenge, history
  <2>2. OneChallengerEach'
    BY <1>1, <1>7, ListSame
  <2> QED
    BY <1>1, <1>3, <1>4, <1>5, <1>7, <1>b, <1>c, <2>1, <2>2 DEF CallbackHasChallenge, PeriodCovers, OpenInTime
<1>8. ASSUME move_to_next_challenge, MoveToNext # None, NEW sent \in BOOLEAN,
             SendTo(MoveToNext, sent), UNCHANGED challengers
      PROVE  IInv'
  <2> DEFINE b == MoveToNext
             e == block[b].edge
  <2>1. b \in OnList /\ b \in Blocks /\ e \in capable /\ e \in Edges
    BY <1>8, MoveOnList, ListDomain DEF OneChallengerEach, TypeOK
  <2> HIDE DEF b
  <2>2. /\ next_challenge' = b /\ challenge_response_timer' = 0
        /\ block' = [block EXCEPT ![b].ch = now, ![b].gen = now]
        /\ ep' = e
        /\ lock' \in {lock, now}
        /\ open' \subseteq open \cup {[edge |-> e, ch |-> now]}
        /\ asked' \subseteq asked \cup {[edge |-> e, ch |-> now, ack |-> 0]}
    BY <1>2, <1>8 DEF move_to_next_challenge, SendTo, b
  <2>3. block' \in [Blocks -> Challenger] /\ \A c \in Blocks : block'[c].edge = block[c].edge
    BY <2>1, <2>2, SameEdge
  <2>4. open' \subseteq [edge : Edges, ch : Nat] /\ asked' \subseteq [edge : Edges, ch : Nat, ack : Nat]
    BY <1>2, <2>1, <2>2 DEF TypeOK
  <2>5. TypeOK'
    <3>1. lock' \in Nat /\ challenge_response_timer' \in Nat /\ ep' \in Edges \cup {None}
          /\ next_challenge' \in Blocks \cup {None}
      BY <1>2, <2>1, <2>2 DEF TypeOK
    <3> QED
      BY <1>1, <1>3, <1>5, <1>8, <2>3, <2>4, <3>1 DEF TypeOK, Challenger, history
  <2>6. OneChallengerEach'
    BY <1>1, <1>8, <2>3, ListDomain, ListSame
  <2>7. \A x \in open' : x \in open \/ x = [edge |-> e, ch |-> now]
    BY <2>2
  <2>8. CallbackHasChallenge'
    <3> SUFFICES ASSUME NEW x \in open', now' - x.ch < Period
                 PROVE  /\ next_challenge' # None /\ ep' = x.edge
                        /\ \A y \in open' : y = x \/ now' - y.ch >= Period
      BY DEF CallbackHasChallenge
    <3>1. x = [edge |-> e, ch |-> now]
      BY <1>1, <1>b, <2>7
    <3> QED
      BY <1>1, <1>b, <2>1, <2>2, <2>7, <3>1, NoneIsNoBlock
  <2>9. OpenInTime' /\ PeriodCovers'
    <3>1. \A x \in open' : x.ch <= now' /\ now' - x.ch <= AckBy' /\ x.ch <= challenge_timer'.start
      BY <1>1, <1>2, <1>3, <1>4, <1>b, <1>c, <2>7
    <3> QED
      BY <1>1, <1>3, <1>5, <3>1 DEF OpenInTime, PeriodCovers
  <2> QED
    BY <2>5, <2>6, <2>8, <2>9
<1> QED
  BY <1>1, <1>6, <1>7, <1>8 DEF periodic_action, Sent

LEMMA ResponseTimerIInv == IInv /\ ResponseTimer => IInv'
<1> SUFFICES ASSUME IInv, ResponseTimer PROVE IInv'
  OBVIOUS
<1> USE DEF IInv
<1>1. /\ posted' = posted \ {"response"} /\ challenge_response_timed_out(next_challenge)
      /\ UNCHANGED <<scenario, now, capable, known, challengers, next_challenge, challenge_timer,
                   challenge_response_timer, lock, ep, open, asked, history>>
  BY DEF ResponseTimer
<1>2. block' \in [Blocks -> Challenger] /\ \A b \in Blocks : block'[b].edge = block[b].edge
  <2>1. CASE UNCHANGED block
    BY <2>1 DEF TypeOK, Challenger
  <2>2. CASE next_challenge # None /\ block' = [block EXCEPT ![next_challenge].gen = 0, ![next_challenge].rec = 0]
    <3>1. next_challenge \in Blocks
      BY <2>2 DEF TypeOK
    <3> QED
      BY <2>2, <3>1, SameEdge
  <2> QED
    BY <1>1, <2>1, <2>2 DEF challenge_response_timed_out
<1>3. bad' \in [Edges -> BOOLEAN]
  BY <1>1 DEF challenge_response_timed_out, tm_update, TypeOK
<1>4. TypeOK'
  BY <1>1, <1>2, <1>3 DEF TypeOK, Challenger, history
<1>5. OneChallengerEach'
  BY <1>1, <1>2, ListSame, ListDomain
<1> QED
  BY <1>1, <1>4, <1>5 DEF CallbackHasChallenge, PeriodCovers, OpenInTime, AckBy, Fault

LEMMA CallbackIInv == ASSUME IInv, NEW x \in open, Acknowledged(x) \/ NotAcknowledged(x) PROVE IInv'
<1> USE DEF IInv
<1>1. /\ open' = open \ {x} /\ lock' = 0
      /\ UNCHANGED <<scenario, now, capable, known, memory, challenge_timer, posted, ep>>
  BY DEF Acknowledged, NotAcknowledged, timers
<1>2. x.edge \in Edges /\ now \in Nat
  BY DEF TypeOK
<1>3. UNCHANGED <<block, challengers, next_challenge>> /\ open' \subseteq open
  BY <1>1 DEF memory
<1>4. TypeOK'
  <2>1. CASE Acknowledged(x)
    <3>1. challenge_response_timer' \in Nat
      BY <1>2, <2>1, MaxDurationType, TimeAssumption DEF Acknowledged, SetResponseTimer
    <3>2. asked' \subseteq [edge : Edges, ch : Nat, ack : Nat]
      <4> SUFFICES ASSUME NEW z \in asked' PROVE z \in [edge : Edges, ch : Nat, ack : Nat]
        OBVIOUS
      <4>1. PICK y \in asked : z = y \/ z = [y EXCEPT !.ack = now]
        BY <2>1 DEF Acknowledged
      <4>2. y \in [edge : Edges, ch : Nat, ack : Nat]
        BY DEF TypeOK
      <4> QED
        BY <1>2, <4>1, <4>2
    <3> QED
      <4>1. UNCHANGED <<bad, failed, solved>>
        BY <2>1 DEF Acknowledged, history
      <4> QED
        BY <1>1, <1>3, <3>1, <3>2, <4>1 DEF TypeOK
  <2>2. CASE NotAcknowledged(x)
    <3>1. bad' \in [Edges -> BOOLEAN]
      BY <2>2 DEF NotAcknowledged, tm_update, TypeOK
    <3>2. failed' \subseteq Edges
      BY <1>2, <2>2 DEF NotAcknowledged, Misdeed, TypeOK
    <3> QED
      <4>1. UNCHANGED <<challenge_response_timer, asked, solved>>
        BY <2>2 DEF NotAcknowledged, Misdeed, timers
      <4> QED
        BY <1>1, <1>3, <3>1, <3>2, <4>1 DEF TypeOK
  <2> QED
    BY <2>1, <2>2
<1>5. OneChallengerEach'
  BY <1>1, ListSame DEF memory
<1> QED
  BY <1>1, <1>4, <1>5 DEF CallbackHasChallenge, PeriodCovers, OpenInTime, AckBy, Fault, memory

LEMMA AnswerIInv == ASSUME IInv, NEW x \in asked, NEW answer, Answer(x, answer) PROVE IInv'
<1> USE DEF IInv
<1> DEFINE b == find_edge_challenger(x.edge)
<1>1. /\ asked' = asked \ {x} /\ Record(x, answer)
      /\ \/ res_coap_cr_post_handler(b, x, answer)
         \/ UNCHANGED <<block, challenge_response_timer, bad>>
      /\ UNCHANGED <<scenario, now, capable, known, challengers, next_challenge, challenge_timer,
                   posted, lock, ep, open>>
  BY DEF Answer
<1>2. x.edge \in Edges /\ now \in Nat /\ b \in Blocks \cup {None}
  BY FindsChallenger, ListDomain DEF TypeOK
<1> HIDE DEF b
<1>3. block' \in [Blocks -> Challenger] /\ \A c \in Blocks : block'[c].edge = block[c].edge
  <2>1. CASE UNCHANGED block
    BY <2>1 DEF TypeOK, Challenger
  <2>2. CASE b # None /\ block' = [block EXCEPT ![b].rec = now]
    BY <1>2, <2>2, SameEdge
  <2> QED
    BY <1>1, <2>1, <2>2 DEF res_coap_cr_post_handler
<1>4. bad' \in [Edges -> BOOLEAN]
  BY <1>1, <1>2 DEF res_coap_cr_post_handler, Judge, tm_update, TypeOK
<1>5. challenge_response_timer' \in Nat
  <2>1. challenge_response_timer' \in {0, challenge_response_timer}
    BY <1>1 DEF res_coap_cr_post_handler
  <2> QED
    BY <2>1 DEF TypeOK
<1>6. failed' \subseteq Edges /\ solved' \in [Edges -> Nat]
  BY <1>1, <1>2 DEF Record, TypeOK
<1>7. TypeOK'
  BY <1>1, <1>3, <1>4, <1>5, <1>6 DEF TypeOK, Challenger
<1>8. OneChallengerEach'
  BY <1>1, <1>3, ListSame, ListDomain
<1> QED
  BY <1>1, <1>7, <1>8 DEF CallbackHasChallenge, PeriodCovers, OpenInTime, AckBy, Fault

LEMMA AddIInv == ASSUME IInv, NEW e \in Edges, edge_capability_add(e) PROVE IInv'
<1> USE DEF IInv
<1>1. /\ e \notin capable /\ capable' = capable \cup {e} /\ known' = known \cup {e} /\ AddChallenger(e)
      /\ bad' = IF e \in known THEN bad ELSE [bad EXCEPT ![e] = FALSE]
      /\ challenge_timer' \in {challenge_timer, [start |-> now, on |-> TRUE]}
      /\ UNCHANGED <<scenario, now, posted, lock, ep, open, asked, history>>
  BY DEF edge_capability_add
<1>2. PICK b \in FreeBlocks :
        /\ block' = [block EXCEPT ![b].edge = e, ![b].gen = 0, ![b].rec = 0]
        /\ challengers' = <<b>> \o challengers
        /\ \/ next_challenge = None /\ next_challenge' = b /\ challenge_response_timer' = 0
           \/ UNCHANGED <<next_challenge, challenge_response_timer>>
  BY <1>1, BlockIsFree DEF AddChallenger
<1>3. b \in Blocks /\ b \notin OnList
  BY DEF FreeBlocks
<1>4. /\ challengers' \in Seq(Blocks) /\ OnList' = OnList \cup {b}
      /\ \A i, j \in DOMAIN challengers' : challengers'[i] = challengers'[j] => i = j
  BY <1>2, ListAdds DEF OneChallengerEach
<1>5. /\ block' \in [Blocks -> Challenger]
      /\ block'[b].edge = e
      /\ \A c \in OnList : block'[c].edge = block[c].edge
  <2>1. block \in [Blocks -> Challenger] /\ OnList \subseteq Blocks
    BY ListDomain DEF TypeOK, Challenger
  <2>2. block' \in [Blocks -> Challenger]
    BY <1>2, <1>3, <2>1 DEF Challenger
  <2>3. block'[b].edge = e /\ \A c \in OnList : block'[c].edge = block[c].edge
    BY <1>2, <1>3, <2>1 DEF Challenger
  <2> QED
    BY <2>2, <2>3
<1>6. now \in Nat /\ challenge_timer' \in [start : Nat, on : BOOLEAN]
  <2>1. now \in Nat /\ challenge_timer \in [start : Nat, on : BOOLEAN]
    BY DEF TypeOK
  <2>2. [start |-> now, on |-> TRUE] \in [start : Nat, on : BOOLEAN]
    BY <2>1
  <2> QED
    BY <1>1, <2>1, <2>2
<1>7. TypeOK'
  <2>1. bad' \in [Edges -> BOOLEAN]
    BY <1>1 DEF TypeOK
  <2>2. next_challenge' \in Blocks \cup {None} /\ challenge_response_timer' \in Nat
    BY <1>2, <1>3 DEF TypeOK
  <2> QED
    BY <1>1, <1>4, <1>5, <1>6, <2>1, <2>2 DEF TypeOK, Challenger, history
<1>8. OneChallengerEach'
  <2>1. \A c \in OnList : block[c].edge # e
    BY <1>1 DEF OneChallengerEach
  <2>2. \A c, d \in OnList' : block'[c].edge = block'[d].edge => c = d
    BY <1>4, <1>5, <2>1 DEF OneChallengerEach
  <2>3. {block'[c].edge : c \in OnList'} = capable'
    <3>1. {block'[c].edge : c \in OnList \cup {b}} = {block[c].edge : c \in OnList} \cup {e}
      BY <1>5
    <3> QED
      BY <1>1, <1>4, <3>1 DEF OneChallengerEach
  <2> QED
    BY <1>4, <2>2, <2>3 DEF OneChallengerEach
<1>9. CallbackHasChallenge'
  BY <1>1, <1>2 DEF CallbackHasChallenge
<1>10. PeriodCovers'
  BY <1>1, <1>6, TimeAssumption DEF PeriodCovers, OpenInTime
<1>11. OpenInTime'
  BY <1>1 DEF OpenInTime, AckBy, Fault
<1> QED
  BY <1>7, <1>8, <1>9, <1>10, <1>11

LEMMA RemoveIInv == ASSUME IInv, NEW e \in Edges, edge_capability_remove(e) PROVE IInv'
<1> USE DEF IInv
<1> DEFINE b == find_edge_challenger(e)
<1>1. /\ e \in capable /\ capable' = capable \ {e} /\ known' \subseteq known /\ RemoveChallenger(b)
      /\ challenge_timer' \in {challenge_timer, [challenge_timer EXCEPT !.on = FALSE]}
      /\ UNCHANGED <<scenario, now, block, posted, lock, ep, open, asked, bad, history>>
  BY DEF edge_capability_remove
<1>2. b \in OnList /\ block[b].edge = e
  BY <1>1, FindsChallenger
<1> HIDE DEF b
<1>3. /\ challengers' = list_remove(b)
      /\ \/ next_challenge' = MoveToNext /\ challenge_response_timer' = 0
         \/ UNCHANGED <<next_challenge, challenge_response_timer>>
  BY <1>1 DEF RemoveChallenger, move_to_next_challenge
<1>4. /\ challengers' \in Seq(Blocks) /\ OnList' = OnList \ {b}
      /\ \A i, j \in DOMAIN challengers' : challengers'[i] = challengers'[j] => i = j
  BY <1>2, <1>3, ListRemoves DEF OneChallengerEach
<1>5. MoveToNext \in Blocks
  BY <1>2, MoveOnList, ListDomain
<1>6. /\ challenge_timer' \in [start : Nat, on : BOOLEAN]
      /\ challenge_timer'.start = challenge_timer.start
      /\ challenge_timer'.on => challenge_timer.on
  BY <1>1 DEF TypeOK
<1>7. TypeOK'
  <2>1. next_challenge' \in Blocks \cup {None} /\ challenge_response_timer' \in Nat
    BY <1>3, <1>5 DEF TypeOK
  <2> QED
    BY <1>1, <1>4, <1>6, <2>1 DEF TypeOK, history
<1>8. OneChallengerEach'
  <2>1. \A c \in OnList \ {b} : block[c].edge # e
    BY <1>2 DEF OneChallengerEach
  <2>2. {block[c].edge : c \in OnList \ {b}} = capable \ {e}
    BY <1>2, <2>1 DEF OneChallengerEach
  <2> QED
    BY <1>1, <1>4, <2>2 DEF OneChallengerEach
<1>9. CallbackHasChallenge'
  BY <1>1, <1>3, <1>5, NoneIsNoBlock DEF CallbackHasChallenge
<1>10. PeriodCovers'
  BY <1>1, <1>6 DEF PeriodCovers
<1>11. OpenInTime'
  BY <1>1 DEF OpenInTime, AckBy, Fault
<1> QED
  BY <1>7, <1>8, <1>9, <1>10, <1>11

LEMMA InitIInv == Init => IInv
<1> SUFFICES ASSUME Init PROVE IInv
  OBVIOUS
<1>1. OnList = {}
  BY DEF Init, OnList
<1>2. /\ scenario \in [faults : SUBSET Faults, churn : SUBSET Edges, until : Nat]
      /\ block \in [Blocks -> [edge : Edges \cup {None}, ch : Nat, gen : Nat, rec : Nat]]
      /\ challengers \in Seq(Blocks)
  BY ScenarioAssumption DEF Init
<1>3. TypeOK
  BY <1>2 DEF Init, TypeOK
<1>4. OneChallengerEach
  BY <1>1 DEF Init, OneChallengerEach
<1> QED
  BY <1>3, <1>4 DEF Init, IInv, CallbackHasChallenge, PeriodCovers, OpenInTime

LEMMA NextIInv == IInv /\ [Next]_vars => IInv'
<1> SUFFICES ASSUME IInv, [Next]_vars PROVE IInv'
  OBVIOUS
<1>1. CASE UNCHANGED vars
  <2>1. TypeOK'
    BY <1>1 DEF vars, memory, timers, history, IInv, TypeOK
  <2>2. OneChallengerEach'
    BY <1>1, ListSame DEF vars, memory, IInv
  <2> QED
    BY <1>1, <2>1, <2>2 DEF vars, memory, timers, IInv, CallbackHasChallenge, PeriodCovers, OpenInTime,
         AckBy, Fault
<1>2. CASE Next
  BY <1>2, TickIInv, ChallengeTimerIInv, ResponseTimerIInv, CallbackIInv, AnswerIInv, AddIInv, RemoveIInv
     DEF Next
<1> QED
  BY <1>1, <1>2

LEMMA Invariance == Spec => []IInv
<1>1. Init => IInv
  BY InitIInv
<1>2. IInv /\ [Next]_vars => IInv'
  BY NextIInv
<1> QED
  BY <1>1, <1>2, PTL DEF Spec

(* Every Edge with the capability has exactly one challenger, there is always *)
(* a block for it, and a request that ends within a period of its challenge   *)
(* finds a next_challenge that is not NULL and its own endpoint in ep          *)
(* (challenge-response.c:175,200), however Edges come and go in between,       *)
(* however long CoAP takes over older requests and whenever the lock expires; *)
(* every variable keeps its type.                                             *)
THEOREM ChallengesAreConsistent == Spec => []ChallengesConsistent
<1>1. IInv => ChallengesConsistent
  BY DEF IInv, ChallengesConsistent
<1> QED
  BY <1>1, Invariance, PTL

-----------------------------------------------------------------------------
(* The books that are kept of challenges. *)

Gen(b) == block[b].gen
Rec(b) == block[b].rec

(* Of each block: gen is the time of its challenge until it timed out, a      *)
(* challenge is made once a period, and nothing is in the future.             *)
BlocksInTime ==
    \A b \in Blocks :
       /\ Gen(b) \in {0, block[b].ch}
       /\ block[b].ch <= now /\ Rec(b) <= now
       /\ challenge_timer.on => block[b].ch <= challenge_timer.start
       /\ "challenge" \in posted => block[b].ch + Period <= now

(* What is asked, and of whom. *)
AskedInTime ==
    /\ now > 0
    /\ capable \subseteq known /\ known \subseteq capable \cup scenario.churn
    /\ \A y \in asked : y.edge \in capable \cup scenario.churn /\ 0 < y.ch /\ y.ch <= now
    /\ \A e \in Edges : solved[e] < now
    /\ \A y, z \in asked : y.edge = z.edge /\ y.edge \notin scenario.churn /\ y.ch = z.ch => y = z
    /\ \A b \in OnList, y \in asked :
          y.edge = block[b].edge /\ y.edge \notin scenario.churn =>
             y.ch = block[b].ch \/ y.ch + Period <= block[b].ch

(* The lock is an open request's; next_challenge is on the list, or that of    *)
(* an Edge that has gone.                                                     *)
NextListed ==
    /\ lock # 0 => open # {}
    /\ next_challenge # None => next_challenge \in OnList \/ block[next_challenge].edge \in scenario.churn

(* Only the challenge of next_challenge can be less than a period old. *)
OthersOld ==
    /\ \A c \in OnList : c # next_challenge /\ Gen(c) # 0 => Gen(c) + Period <= now
    /\ scenario.churn = {} =>
          \A c \in Blocks : c # next_challenge => block[c].ch = 0 \/ block[c].ch + Period <= now

BookInv == BlocksInTime /\ AskedInTime /\ NextListed /\ OthersOld

Inv == IInv /\ BookInv

LEMMA Fields ==
    ASSUME TypeOK
    PROVE  /\ now \in Nat /\ challenge_response_timer \in Nat /\ lock \in Nat
           /\ challenge_timer.start \in Nat /\ challenge_timer.on \in BOOLEAN
           /\ \A b \in Blocks : block[b].ch \in Nat /\ block[b].gen \in Nat /\ block[b].rec \in Nat
           /\ \A x \in open : x.edge \in Edges /\ x.ch \in Nat
           /\ \A y \in asked : y.edge \in Edges /\ y.ch \in Nat /\ y.ack \in Nat
           /\ \A e \in Edges : solved[e] \in Nat /\ bad[e] \in BOOLEAN
<1>1. /\ now \in Nat /\ challenge_response_timer \in Nat /\ lock \in Nat
      /\ challenge_timer.start \in Nat /\ challenge_timer.on \in BOOLEAN
  BY DEF TypeOK
<1>2. \A b \in Blocks : block[b].ch \in Nat /\ block[b].gen \in Nat /\ block[b].rec \in Nat
  <2>1. \A b \in Blocks : block[b] \in [edge : Edges \cup {None}, ch : Nat, gen : Nat, rec : Nat]
    BY DEF TypeOK
  <2> QED
    BY <2>1
<1>3. /\ \A x \in open : x.edge \in Edges /\ x.ch \in Nat
      /\ \A y \in asked : y.edge \in Edges /\ y.ch \in Nat /\ y.ack \in Nat
  BY DEF TypeOK
<1>4. \A e \in Edges : solved[e] \in Nat /\ bad[e] \in BOOLEAN
  BY DEF TypeOK
<1> QED
  BY <1>1, <1>2, <1>3, <1>4

LEMMA Times ==
    /\ Duration \in Nat /\ Period \in Nat /\ 0 < Duration /\ Duration < Period
    /\ Transmit \in Nat
  BY TimeAssumption

(* What a handler does to a block, it does to no other. *)
LEMMA BlockSent ==
    ASSUME TypeOK, NEW b \in Blocks, block' = [block EXCEPT ![b].ch = now, ![b].gen = now]
    PROVE  /\ block'[b].ch = now /\ block'[b].gen = now
           /\ block'[b].rec = block[b].rec /\ block'[b].edge = block[b].edge
           /\ \A c \in Blocks : c # b => block'[c] = block[c]
<1>1. block \in [Blocks -> Challenger]
  BY DEF TypeOK, Challenger
<1> QED
  BY <1>1 DEF Challenger

LEMMA BlockTimedOut ==
    ASSUME TypeOK, NEW b \in Blocks, block' = [block EXCEPT ![b].gen = 0, ![b].rec = 0]
    PROVE  /\ block'[b].gen = 0 /\ block'[b].rec = 0
           /\ block'[b].ch = block[b].ch /\ block'[b].edge = block[b].edge
           /\ \A c \in Blocks : c # b => block'[c] = block[c]
<1>1. block \in [Blocks -> Challenger]
  BY DEF TypeOK, Challenger
<1> QED
  BY <1>1 DEF Challenger

LEMMA BlockAnswered ==
    ASSUME TypeOK, NEW b \in Blocks, block' = [block EXCEPT ![b].rec = now]
    PROVE  /\ block'[b].rec = now /\ block'[b].gen = block[b].gen
           /\ block'[b].ch = block[b].ch /\ block'[b].edge = block[b].edge
           /\ \A c \in Blocks : c # b => block'[c] = block[c]
<1>1. block \in [Blocks -> Challenger]
  BY DEF TypeOK, Challenger
<1> QED
  BY <1>1 DEF Challenger

LEMMA BlockAdded ==
    ASSUME TypeOK, NEW b \in Blocks, NEW e, block' = [block EXCEPT ![b].edge = e, ![b].gen = 0, ![b].rec = 0]
    PROVE  /\ block'[b].edge = e /\ block'[b].gen = 0 /\ block'[b].rec = 0
           /\ block'[b].ch = block[b].ch
           /\ \A c \in Blocks : c # b => block'[c] = block[c]
<1>1. block \in [Blocks -> Challenger]
  BY DEF TypeOK, Challenger
<1> QED
  BY <1>1 DEF Challenger

(* Without slow acknowledgements a request ends before the period does. *)
LEMMA NotSlow ==
    ASSUME IInv, ~Fault("slow")
    PROVE  /\ \A x \in open : next_challenge # None /\ ep = x.edge /\ open = {x}
           /\ "challenge" \in posted => open = {}
<1>1. \A x \in open : x.ch \in Nat /\ now \in Nat /\ now - x.ch <= AckBy
  BY DEF IInv, TypeOK, OpenInTime
<1>2. \A x \in open : now - x.ch < Period /\ ~(now - x.ch >= Period) /\ ~(x.ch + Period <= now)
  BY <1>1, AckByBound, TimeAssumption DEF IInv
<1> QED
  BY <1>2 DEF IInv, CallbackHasChallenge, PeriodCovers

LEMMA ChallengeStep ==
    ASSUME IInv, ChallengeTimer
    PROVE  /\ "challenge" \in posted /\ posted' = posted \ {"challenge"}
           /\ challenge_timer'.on /\ challenge_timer'.start = challenge_timer.start + Period
           /\ challenge_timer.start + Period >= now
           /\ UNCHANGED <<scenario, now, capable, known, bad, failed, solved, challengers>> /\ OnList' = OnList
           /\ \/ Locked /\ UNCHANGED <<block, next_challenge, lock, open, asked>>
              \/ /\ next_challenge' = MoveToNext /\ challenge_response_timer' = 0
                 /\ \/ MoveToNext = None /\ UNCHANGED <<block, ep, lock, open, asked>>
                    \/ /\ MoveToNext \in OnList /\ MoveToNext \in Blocks
                       /\ \E sent \in Sent : SendTo(MoveToNext, sent)
<1>1. /\ "challenge" \in posted /\ posted' = posted \ {"challenge"} /\ periodic_action
      /\ challenge_timer' = [start |-> challenge_timer.start + Period, on |-> TRUE]
      /\ UNCHANGED <<scenario, now, capable, known, bad, history>>
  BY DEF ChallengeTimer
<1>2. challenge_timer.start + Period >= now
  BY <1>1 DEF IInv, PeriodCovers
<1>3. /\ UNCHANGED challengers
      /\ \/ Locked /\ UNCHANGED <<block, next_challenge, lock, open, asked>>
         \/ /\ next_challenge' = MoveToNext /\ challenge_response_timer' = 0
            /\ \/ MoveToNext = None /\ UNCHANGED <<block, ep, lock, open, asked>>
               \/ MoveToNext # None /\ \E sent \in Sent : SendTo(MoveToNext, sent)
  BY <1>1 DEF periodic_action, move_to_next_challenge, memory
<1>4. MoveToNext # None => MoveToNext \in OnList /\ MoveToNext \in Blocks
  BY MoveOnList, ListDomain DEF IInv
<1> QED
  BY <1>1, <1>2, <1>3, <1>4 DEF OnList, history

(* Without slow acknowledgements the challenge timer's event finds the lock    *)
(* free, whatever happened to the last request.                               *)
LEMMA ChallengeSends ==
    ASSUME IInv, NextListed, ChallengeTimer, ~Fault("slow")
    PROVE  /\ "challenge" \in posted /\ posted' = posted \ {"challenge"} /\ open = {}
           /\ next_challenge' = MoveToNext /\ challenge_response_timer' = 0
           /\ UNCHANGED <<scenario, now, capable, known, bad, failed, solved, challengers>> /\ OnList' = OnList
           /\ \/ MoveToNext = None /\ UNCHANGED <<block, ep, lock, open, asked>>
              \/ /\ MoveToNext \in OnList /\ MoveToNext \in Blocks
                 /\ \E sent \in Sent : SendTo(MoveToNext, sent)
<1>1. open = {} /\ ~Locked
  BY ChallengeStep, NotSlow DEF NextListed, Locked
<1> QED
  BY <1>1, ChallengeStep

LEMMA AnswerStep ==
    ASSUME IInv, NEW x \in asked, NEW answer, Answer(x, answer)
    PROVE  /\ x.ch < now /\ (InTime(x) \/ Fault("late")) /\ asked' = asked \ {x} /\ Record(x, answer)
           /\ \/ /\ x.edge \in known
                 /\ res_coap_cr_post_handler(find_edge_challenger(x.edge), x, answer)
              \/ x.edge \notin known /\ UNCHANGED <<block, challenge_response_timer, bad>>
           /\ UNCHANGED <<scenario, now, capable, known, challengers, next_challenge, challenge_timer,
                          posted, lock, ep, open>>
           /\ OnList' = OnList
           /\ challenge_response_timer' \in {0, challenge_response_timer}
           /\ \/ /\ UNCHANGED block
                 /\ \A b \in OnList : block[b].edge # x.edge \/ x.edge \notin known
              \/ \E b \in OnList : b \in Blocks /\ block[b].edge = x.edge /\ block' = [block EXCEPT ![b].rec = now]
<1> DEFINE b == find_edge_challenger(x.edge)
<1>1. b \in OnList \cup {None} /\ (b # None => b \in Blocks /\ block[b].edge = x.edge)
      /\ (b = None => \A c \in OnList : block[c].edge # x.edge)
  <2>1. b # None => b \in Blocks /\ block[b].edge = x.edge
    BY FindsChallenger, ListDomain, NoneIsNoBlock DEF IInv
  <2>2. b = None => \A c \in OnList : block[c].edge # x.edge
    <3> SUFFICES ASSUME b = None, NEW c \in OnList, block[c].edge = x.edge PROVE FALSE
      OBVIOUS
    <3>1. x.edge \in capable
      BY DEF IInv, OneChallengerEach
    <3> QED
      BY <3>1, FindsChallenger, ListDomain, NoneIsNoBlock DEF IInv
  <2> QED
    BY <2>1, <2>2, FindsChallenger DEF IInv
<1>2. \/ x.edge \notin known /\ UNCHANGED <<block, challenge_response_timer, bad>>
      \/ x.edge \in known /\ res_coap_cr_post_handler(b, x, answer)
  BY DEF Answer
<1>3. res_coap_cr_post_handler(b, x, answer) =>
        \/ b = None /\ UNCHANGED <<block, challenge_response_timer>>
        \/ b # None /\ challenge_response_timer' = 0 /\ block' = [block EXCEPT ![b].rec = now]
  BY DEF res_coap_cr_post_handler
<1>4. /\ x.ch < now /\ (InTime(x) \/ Fault("late")) /\ asked' = asked \ {x} /\ Record(x, answer)
      /\ UNCHANGED <<scenario, now, capable, known, challengers, next_challenge, challenge_timer,
                     posted, lock, ep, open>>
  BY DEF Answer
<1>5. OnList' = OnList
  BY <1>4 DEF OnList
<1> HIDE DEF b
<1>6. challenge_response_timer' \in {0, challenge_response_timer}
  BY <1>2, <1>3
<1>7. \/ UNCHANGED block /\ \A c \in OnList : block[c].edge # x.edge \/ x.edge \notin known
      \/ \E c \in OnList : c \in Blocks /\ block[c].edge = x.edge /\ block' = [block EXCEPT ![c].rec = now]
  BY <1>1, <1>2, <1>3
<1> QED
  BY <1>2, <1>4, <1>5, <1>6, <1>7 DEF b

LEMMA AddStep ==
    ASSUME IInv, NEW e \in Edges, edge_capability_add(e)
    PROVE  /\ e \notin capable /\ capable' = capable \cup {e} /\ known' = known \cup {e}
           /\ bad' = IF e \in known THEN bad ELSE [bad EXCEPT ![e] = FALSE]
           /\ challenge_timer' = IF capable = {} THEN [start |-> now, on |-> TRUE] ELSE challenge_timer
           /\ UNCHANGED <<scenario, now, posted, lock, ep, open, asked, failed, solved>>
           /\ \E b \in Blocks \ OnList :
                 /\ block' = [block EXCEPT ![b].edge = e, ![b].gen = 0, ![b].rec = 0]
                 /\ OnList' = OnList \cup {b}
                 /\ \/ next_challenge = None /\ next_challenge' = b /\ challenge_response_timer' = 0
                    \/ UNCHANGED <<next_challenge, challenge_response_timer>>
<1>1. /\ e \notin capable /\ capable' = capable \cup {e} /\ known' = known \cup {e} /\ AddChallenger(e)
      /\ bad' = IF e \in known THEN bad ELSE [bad EXCEPT ![e] = FALSE]
      /\ challenge_timer' = IF capable = {} THEN [start |-> now, on |-> TRUE] ELSE challenge_timer
      /\ UNCHANGED <<scenario, now, posted, lock, ep, open, asked, history>>
  BY DEF edge_capability_add
<1>2. PICK b \in FreeBlocks :
        /\ block' = [block EXCEPT ![b].edge = e, ![b].gen = 0, ![b].rec = 0]
        /\ challengers' = <<b>> \o challengers
        /\ \/ next_challenge = None /\ next_challenge' = b /\ challenge_response_timer' = 0
           \/ UNCHANGED <<next_challenge, challenge_response_timer>>
  BY <1>1, BlockIsFree DEF AddChallenger, IInv
<1>3. b \in Blocks \ OnList
  BY DEF FreeBlocks
<1>4. OnList' = OnList \cup {b}
  BY <1>2, ListAdds DEF IInv, OneChallengerEach
<1> QED
  BY <1>1, <1>2, <1>3, <1>4 DEF history

LEMMA RemoveStep ==
    ASSUME IInv, NEW e \in Edges, edge_capability_remove(e)
    PROVE  /\ e \in capable /\ e \in scenario.churn /\ capable' = capable \ {e}
           /\ known' \in {known, known \ {e}}
           /\ challenge_timer'.start = challenge_timer.start
           /\ challenge_timer'.on => challenge_timer.on
           /\ UNCHANGED <<scenario, now, block, posted, lock, ep, open, asked, bad, failed, solved>>
           /\ \E b \in OnList :
                 /\ block[b].edge = e
                 /\ OnList' = OnList \ {b}
                 /\ \/ /\ next_challenge = b /\ next_challenge' = MoveToNext /\ MoveToNext \in OnList
                       /\ challenge_response_timer' = 0
                    \/ next_challenge # b /\ UNCHANGED <<next_challenge, challenge_response_timer>>
<1> DEFINE b == find_edge_challenger(e)
<1>1. /\ e \in capable /\ e \in scenario.churn /\ capable' = capable \ {e} /\ known' \in {known, known \ {e}}
      /\ RemoveChallenger(b)
      /\ challenge_timer' \in {challenge_timer, [challenge_timer EXCEPT !.on = FALSE]}
      /\ UNCHANGED <<scenario, now, block, posted, lock, ep, open, asked, bad, history>>
  BY DEF edge_capability_remove
<1>2. b \in OnList /\ block[b].edge = e
  BY <1>1, FindsChallenger DEF IInv
<1> HIDE DEF b
<1>3. /\ challengers' = list_remove(b)
      /\ \/ next_challenge = b /\ next_challenge' = MoveToNext /\ challenge_response_timer' = 0
         \/ next_challenge # b /\ UNCHANGED <<next_challenge, challenge_response_timer>>
  BY <1>1 DEF RemoveChallenger, move_to_next_challenge
<1>4. OnList' = OnList \ {b}
  BY <1>2, <1>3, ListRemoves DEF IInv, OneChallengerEach
<1>5. MoveToNext \in OnList
  BY <1>2, MoveOnList DEF IInv
<1>6. challenge_timer'.start = challenge_timer.start /\ (challenge_timer'.on => challenge_timer.on)
  <2>1. challenge_timer \in [start : Nat, on : BOOLEAN]
    BY DEF IInv, TypeOK
  <2> QED
    BY <1>1, <2>1
<1> QED
  BY <1>1, <1>2, <1>3, <1>4, <1>5, <1>6 DEF history

(* The time that passes, and the timers that run out with it. *)
LEMMA TickStep ==
    ASSUME IInv, Tick
    PROVE  /\ posted = {} /\ now' = now + 1
           /\ challenge_timer'.start = challenge_timer.start
           /\ challenge_timer'.on <=> challenge_timer.on /\ challenge_timer.start + Period > now + 1
           /\ posted' \subseteq {"challenge", "response"}
           /\ "challenge" \in posted' <=> challenge_timer.on /\ challenge_timer.start + Period <= now + 1
           /\ "response" \in posted' <=> challenge_response_timer # 0 /\ challenge_response_timer <= now + 1
           /\ challenge_response_timer' = IF "response" \in posted' THEN 0 ELSE challenge_response_timer
           /\ UNCHANGED <<scenario, capable, known, block, challengers, next_challenge, lock, ep, open, asked,
                          bad, failed, solved>>
           /\ OnList' = OnList
<1> DEFINE challenge == challenge_timer.on /\ challenge_timer.start + Period <= now + 1
           response == challenge_response_timer # 0 /\ challenge_response_timer <= now + 1
<1>1. /\ posted = {} /\ now' = now + 1
      /\ posted' = {ev \in {"challenge", "response"} : IF ev = "challenge" THEN challenge ELSE response}
      /\ challenge_timer' = [challenge_timer EXCEPT !.on = @ /\ ~challenge]
      /\ challenge_response_timer' = IF response THEN 0 ELSE challenge_response_timer
      /\ UNCHANGED <<scenario, capable, known, memory, lock, ep, open, asked, bad, history>>
  BY DEF Tick, Due
<1>2. challenge_timer \in [start : Nat, on : BOOLEAN] /\ now \in Nat
  BY DEF IInv, TypeOK
<1>3. ("challenge" \in posted' <=> challenge) /\ ("response" \in posted' <=> response)
      /\ posted' \subseteq {"challenge", "response"}
  BY <1>1
<1>4. challenge_timer'.start = challenge_timer.start
      /\ (challenge_timer'.on <=> challenge_timer.on /\ ~challenge)
  BY <1>1, <1>2
<1>5. OnList' = OnList
  BY <1>1 DEF OnList, memory
<1> QED
  BY <1>1, <1>2, <1>3, <1>4, <1>5, Times DEF memory, history

(* An acknowledgement is noted with its challenge. *)
LEMMA AckStep ==
    ASSUME IInv, NEW x \in open, Acknowledged(x)
    PROVE  /\ open' = open \ {x} /\ lock' = 0
           /\ next_challenge # None => challenge_response_timer' = now + MaxDuration(next_challenge)
           /\ UNCHANGED <<scenario, now, capable, known, block, challengers, next_challenge, challenge_timer,
                          posted, ep, bad, failed, solved>>
           /\ OnList' = OnList
           /\ asked' = {IF y.edge = x.edge /\ y.ch = x.ch THEN [y EXCEPT !.ack = now] ELSE y : y \in asked}
           /\ \A z \in asked' : \E y \in asked :
                 /\ y.edge = z.edge /\ y.ch = z.ch
                 /\ z = IF y.edge = x.edge /\ y.ch = x.ch THEN [y EXCEPT !.ack = now] ELSE y
                 /\ z.ack = IF y.edge = x.edge /\ y.ch = x.ch THEN now ELSE y.ack
           /\ \A y \in asked : \E z \in asked' : y.edge = z.edge /\ y.ch = z.ch
<1> DEFINE f(y) == IF y.edge = x.edge /\ y.ch = x.ch THEN [y EXCEPT !.ack = now] ELSE y
<1>1. /\ open' = open \ {x} /\ lock' = 0
      /\ next_challenge # None => challenge_response_timer' = now + MaxDuration(next_challenge)
      /\ UNCHANGED <<scenario, now, capable, known, memory, challenge_timer, posted, ep, bad, history>>
      /\ asked' = {f(y) : y \in asked}
  BY DEF Acknowledged, SetResponseTimer
<1>2. \A y \in asked : /\ f(y).edge = y.edge /\ f(y).ch = y.ch
                       /\ f(y).ack = IF y.edge = x.edge /\ y.ch = x.ch THEN now ELSE y.ack
  <2> SUFFICES ASSUME NEW y \in asked
               PROVE  /\ f(y).edge = y.edge /\ f(y).ch = y.ch
                      /\ f(y).ack = IF y.edge = x.edge /\ y.ch = x.ch THEN now ELSE y.ack
    OBVIOUS
  <2>1. y \in [edge : Edges, ch : Nat, ack : Nat]
    BY DEF IInv, TypeOK
  <2> QED
    BY <2>1
<1>3. \A z \in asked' : \E y \in asked : z = f(y)
  BY <1>1
<1>4. \A y \in asked : f(y) \in asked'
  BY <1>1
<1>5. OnList' = OnList
  BY <1>1 DEF OnList, memory
<1>6. \A z \in asked' : \E y \in asked :
                 /\ y.edge = z.edge /\ y.ch = z.ch
                 /\ z = f(y)
                 /\ z.ack = IF y.edge = x.edge /\ y.ch = x.ch THEN now ELSE y.ack
  <2> HIDE DEF f
  <2> QED
    BY <1>2, <1>3
<1>7. \A y \in asked : \E z \in asked' : y.edge = z.edge /\ y.ch = z.ch
  <2> HIDE DEF f
  <2> QED
    BY <1>2, <1>4
<1> QED
  BY <1>1, <1>5, <1>6, <1>7 DEF memory, history

LEMMA NotAckStep ==
    ASSUME IInv, NEW x \in open, NotAcknowledged(x)
    PROVE  /\ open' = open \ {x} /\ lock' = 0
           /\ ~Fault("slow") => open' = {} /\ bad' \in {bad, [bad EXCEPT ![x.edge] = TRUE]}
           /\ failed' = failed \cup {x.edge}
           /\ UNCHANGED <<scenario, now, capable, known, block, challengers, next_challenge, challenge_timer,
                          challenge_response_timer, posted, ep, asked, solved>>
           /\ OnList' = OnList
<1>1. ~Fault("slow") => ep = x.edge /\ open = {x}
  BY NotSlow
<1>2. ~Fault("slow") => open' = {} /\ bad' \in {bad, [bad EXCEPT ![x.edge] = TRUE]}
  BY <1>1 DEF NotAcknowledged, tm_update
<1> QED
  BY <1>1, <1>2 DEF NotAcknowledged, Misdeed, memory, timers, OnList

LEMMA ResponseStep ==
    ASSUME IInv, ResponseTimer
    PROVE  /\ "response" \in posted /\ posted' = posted \ {"response"}
           /\ UNCHANGED <<scenario, now, capable, known, challengers, next_challenge, challenge_timer,
                          challenge_response_timer, lock, ep, open, asked, failed, solved>>
           /\ OnList' = OnList
           /\ LET b == next_challenge
              IN  \/ /\ b = None \/ block[b].gen = 0 \/ ~(NeverReceived(b) \/ ReceivedLate(b))
                     /\ UNCHANGED <<bad, block>>
                  \/ /\ b \in Blocks /\ block[b].gen # 0 /\ (NeverReceived(b) \/ ReceivedLate(b))
                     /\ tm_update(block[b].edge, FALSE)
                     /\ block' = [block EXCEPT ![b].gen = 0, ![b].rec = 0]
<1>1. next_challenge \in Blocks \cup {None}
  BY DEF IInv, TypeOK
<1>2. challenge_response_timed_out(next_challenge) /\ UNCHANGED challengers
  BY DEF ResponseTimer
<1>3. OnList' = OnList
  BY <1>2 DEF OnList
<1> QED
  BY <1>1, <1>2, <1>3 DEF ResponseTimer, challenge_response_timed_out, history

-----------------------------------------------------------------------------
(* Every handler keeps the books. *)

LEMMA TickBook == Inv /\ Tick => BookInv'
<1> SUFFICES ASSUME Inv, Tick PROVE BookInv'
  OBVIOUS
<1> USE DEF Inv
<1>1. BlocksInTime'
  BY TickStep, Fields, Times DEF BookInv, BlocksInTime, Gen, Rec, IInv
<1>2. AskedInTime'
  BY TickStep, Fields DEF BookInv, AskedInTime, IInv
<1>3. NextListed'
  BY TickStep DEF BookInv, NextListed
<1>4. OthersOld'
  BY TickStep, Fields, Times, ListDomain DEF BookInv, OthersOld, Gen, IInv
<1> QED
  BY <1>1, <1>2, <1>3, <1>4 DEF BookInv

LEMMA ChallengeBook == Inv /\ ChallengeTimer => BookInv'
<1> SUFFICES ASSUME Inv, ChallengeTimer PROVE BookInv'
  OBVIOUS
<1> USE DEF Inv
<1>1. CASE next_challenge' \in {next_challenge, None} /\ UNCHANGED <<block, lock, open, asked>>
  <2>1. BlocksInTime'
    BY <1>1, ChallengeStep, Fields, Times DEF BookInv, BlocksInTime, Gen, Rec, IInv
  <2>2. AskedInTime'
    BY <1>1, ChallengeStep DEF BookInv, AskedInTime
  <2>3. NextListed'
    BY <1>1, ChallengeStep DEF BookInv, NextListed
  <2>4. OthersOld'
    BY <1>1, ChallengeStep, ListDomain DEF BookInv, OthersOld, BlocksInTime, Gen, IInv
  <2> QED
    BY <2>1, <2>2, <2>3, <2>4 DEF BookInv
<1>2. CASE /\ next_challenge' = MoveToNext /\ MoveToNext \in OnList /\ MoveToNext \in Blocks
           /\ \E sent \in Sent : SendTo(MoveToNext, sent)
  <2> DEFINE b == MoveToNext
             new == [edge |-> block[b].edge, ch |-> now, ack |-> 0]
  <2>1. PICK sent \in Sent : SendTo(b, sent)
    BY <1>2
  <2>2. /\ block' = [block EXCEPT ![b].ch = now, ![b].gen = now]
        /\ asked' \subseteq asked \cup {new}
        /\ (lock' = lock /\ open' = open) \/ open' # {}
    BY <2>1 DEF SendTo
  <2>0. next_challenge' = b
    BY <1>2
  <2> HIDE DEF b
  <2>3. b \in OnList /\ b \in Blocks
    BY <1>2 DEF b
  <2>4. /\ block'[b].ch = now /\ block'[b].gen = now
        /\ block'[b].rec = block[b].rec /\ block'[b].edge = block[b].edge
        /\ \A c \in Blocks : c # b => block'[c] = block[c]
    BY <2>2, <2>3, BlockSent DEF IInv
  <2>5. \A c \in Blocks : block[c].ch + Period <= now
    BY ChallengeStep DEF BookInv, BlocksInTime
  <2>6. BlocksInTime'
    BY <2>3, <2>4, <2>5, ChallengeStep, Fields, Times DEF BookInv, BlocksInTime, Gen, Rec, IInv
  <2>7. new.edge = block[b].edge /\ new.ch = now /\ block[b].edge \in capable
    BY <2>3 DEF IInv, OneChallengerEach
  <2> HIDE DEF new
  <2>8. \A y \in asked : y.edge = block[b].edge /\ y.edge \notin scenario.churn => y.ch + Period <= now /\ y.ch < now
    BY <2>3, <2>5, Fields, Times DEF BookInv, AskedInTime, IInv
  <2>9. AskedInTime'
    <3>1. \A y \in asked' : y.edge \in capable' \cup scenario'.churn /\ 0 < y.ch /\ y.ch <= now'
      BY <2>2, <2>7, ChallengeStep, Fields DEF BookInv, AskedInTime, IInv
    <3>2. \A y, z \in asked' : y.edge = z.edge /\ y.edge \notin scenario'.churn /\ y.ch = z.ch => y = z
      <4>1. \A y \in asked : y.edge = block[b].edge /\ y.edge \notin scenario.churn => y.ch # now
        BY <2>8, Fields DEF IInv
      <4> QED
        BY <2>2, <2>7, <4>1, ChallengeStep DEF BookInv, AskedInTime
    <3>3. ASSUME NEW c \in OnList', NEW y \in asked', y.edge = block'[c].edge, y.edge \notin scenario'.churn
          PROVE  y.ch = block'[c].ch \/ y.ch + Period <= block'[c].ch
      <4>1. c \in OnList /\ c \in Blocks
        BY ChallengeStep, ListDomain DEF BookInv, IInv
      <4>2. CASE c = b
        <5>1. UNCHANGED scenario
          BY ChallengeStep DEF BookInv
        <5> QED
          BY <3>3, <4>2, <5>1, <2>2, <2>4, <2>7, <2>8
      <4>3. CASE c # b
        <5>1. block'[c] = block[c] /\ block[c].edge # block[b].edge
          BY <4>1, <4>3, <2>3, <2>4 DEF IInv, OneChallengerEach
        <5>2. y \in asked
          BY <5>1, <2>2, <2>7, <3>3
        <5>3. UNCHANGED scenario
          BY ChallengeStep DEF BookInv
        <5> QED
          BY <5>1, <5>2, <5>3, <3>3, <4>1 DEF BookInv, AskedInTime
      <4> QED
        BY <4>2, <4>3
    <3> QED
      BY <3>1, <3>2, <3>3, ChallengeStep DEF BookInv, AskedInTime
  <2>10. NextListed'
    BY <2>0, <2>2, <2>3, ChallengeStep DEF BookInv, NextListed
  <2>11. OthersOld'
    <3>1. next_challenge' = b /\ now' = now /\ OnList' = OnList
      BY <2>0, ChallengeStep
    <3> QED
      BY <2>4, <2>5, <3>1, ListDomain DEF BookInv, OthersOld, BlocksInTime, Gen, IInv
  <2> QED
    BY <2>6, <2>9, <2>10, <2>11 DEF BookInv
<1> QED
  BY <1>1, <1>2, ChallengeStep

LEMMA ResponseBook == Inv /\ ResponseTimer => BookInv'
<1> SUFFICES ASSUME Inv, ResponseTimer PROVE BookInv'
  OBVIOUS
<1> USE DEF Inv
<1>1. CASE UNCHANGED block
  BY <1>1, ResponseStep DEF BookInv, BlocksInTime, AskedInTime, NextListed, OthersOld, Gen, Rec
<1>2. CASE next_challenge \in Blocks /\ block' = [block EXCEPT ![next_challenge].gen = 0, ![next_challenge].rec = 0]
  <2>1. \A c \in Blocks : /\ block'[c].edge = block[c].edge /\ block'[c].ch = block[c].ch
                          /\ block'[c].gen \in {0, block[c].gen} /\ block'[c].rec \in {0, block[c].rec}
    BY <1>2, BlockTimedOut DEF IInv
  <2>2. BlocksInTime'
    BY <2>1, ResponseStep, Fields DEF BookInv, BlocksInTime, Gen, Rec, IInv
  <2>3. AskedInTime'
    BY <2>1, ResponseStep, ListDomain DEF BookInv, AskedInTime, IInv
  <2>4. NextListed'
    BY <1>2, <2>1, ResponseStep DEF BookInv, NextListed
  <2>5. OthersOld'
    BY <2>1, ResponseStep, ListDomain DEF BookInv, OthersOld, Gen, IInv
  <2> QED
    BY <2>2, <2>3, <2>4, <2>5 DEF BookInv
<1> QED
  BY <1>1, <1>2, ResponseStep

LEMMA CallbackBook == ASSUME Inv, NEW x \in open, Acknowledged(x) \/ NotAcknowledged(x) PROVE BookInv'
<1> USE DEF Inv
<1>1. CASE Acknowledged(x)
  <2>1. BlocksInTime' /\ NextListed' /\ OthersOld'
    BY <1>1, AckStep DEF BookInv, BlocksInTime, NextListed, OthersOld, Gen, Rec
  <2>2. AskedInTime'
    <3>1. \A y, z \in asked' : y.edge = z.edge /\ y.edge \notin scenario'.churn /\ y.ch = z.ch => y = z
      BY <1>1, AckStep DEF BookInv, AskedInTime
    <3>2. /\ UNCHANGED <<scenario, now, capable, known, block, solved>> /\ OnList' = OnList
          /\ \A z \in asked' : \E y \in asked : y.edge = z.edge /\ y.ch = z.ch
      BY <1>1, AckStep
    <3>3. /\ \A z \in asked' : z.edge \in capable' \cup scenario'.churn /\ 0 < z.ch /\ z.ch <= now'
          /\ \A b \in OnList', z \in asked' :
                z.edge = block'[b].edge /\ z.edge \notin scenario'.churn =>
                   z.ch = block'[b].ch \/ z.ch + Period <= block'[b].ch
      BY <3>2 DEF BookInv, AskedInTime
    <3> QED
      BY <3>1, <3>2, <3>3 DEF BookInv, AskedInTime
  <2> QED
    BY <2>1, <2>2 DEF BookInv
<1>2. CASE NotAcknowledged(x)
  BY <1>2, NotAckStep DEF BookInv, BlocksInTime, AskedInTime, NextListed, OthersOld, Gen, Rec
<1> QED
  BY <1>1, <1>2

LEMMA AnswerBook == ASSUME Inv, NEW x \in asked, NEW answer, Answer(x, answer) PROVE BookInv'
<1> USE DEF Inv
<1>1. \A c \in Blocks : /\ block'[c].edge = block[c].edge /\ block'[c].ch = block[c].ch
                        /\ block'[c].gen = block[c].gen /\ block'[c].rec \in {now, block[c].rec}
  <2>1. CASE UNCHANGED block
    BY <2>1
  <2>2. ASSUME NEW b \in OnList, b \in Blocks, block' = [block EXCEPT ![b].rec = now]
        PROVE  \A c \in Blocks : /\ block'[c].edge = block[c].edge /\ block'[c].ch = block[c].ch
                                 /\ block'[c].gen = block[c].gen /\ block'[c].rec \in {now, block[c].rec}
    BY <2>2, BlockAnswered DEF IInv
  <2> QED
    BY <2>1, <2>2, AnswerStep
<1>2. BlocksInTime'
  BY <1>1, AnswerStep, Fields DEF BookInv, BlocksInTime, Gen, Rec, IInv
<1>3. \A e \in Edges : solved'[e] < now'
  <2>1. x.ch < now /\ now' = now /\ solved' \in {solved, [solved EXCEPT ![x.edge] = x.ch]}
    BY AnswerStep DEF Record
  <2>2. solved \in [Edges -> Nat] /\ \A e \in Edges : solved[e] < now
    BY DEF BookInv, AskedInTime, IInv, TypeOK
  <2> QED
    BY <2>1, <2>2
<1>4. AskedInTime'
  BY <1>1, <1>3, AnswerStep, ListDomain DEF BookInv, AskedInTime, IInv
<1>5. NextListed'
  <2>1. next_challenge \in Blocks \cup {None}
    BY DEF IInv, TypeOK
  <2> QED
    BY <1>1, <2>1, AnswerStep DEF BookInv, NextListed
<1>6. OthersOld'
  BY <1>1, AnswerStep, ListDomain DEF BookInv, OthersOld, Gen, IInv
<1> QED
  BY <1>2, <1>4, <1>5, <1>6 DEF BookInv

LEMMA AddBook == ASSUME Inv, NEW e \in Edges, edge_capability_add(e) PROVE BookInv'
<1> USE DEF Inv
<1>1. PICK b \in Blocks \ OnList :
                 /\ block' = [block EXCEPT ![b].edge = e, ![b].gen = 0, ![b].rec = 0]
                 /\ OnList' = OnList \cup {b}
                 /\ \/ next_challenge = None /\ next_challenge' = b /\ challenge_response_timer' = 0
                    \/ UNCHANGED <<next_challenge, challenge_response_timer>>
  BY AddStep
<1>2. /\ block'[b].edge = e /\ block'[b].gen = 0 /\ block'[b].rec = 0
      /\ block'[b].ch = block[b].ch
      /\ \A c \in Blocks : c # b => block'[c] = block[c]
  BY <1>1, BlockAdded DEF IInv
<1>3. /\ challenge_timer' = [start |-> now, on |-> TRUE] \/ challenge_timer' = challenge_timer
      /\ e \notin capable /\ capable' = capable \cup {e} /\ known' = known \cup {e}
      /\ UNCHANGED <<scenario, now, posted, lock, ep, open, asked, failed, solved>>
  BY DEF edge_capability_add, history
<1>4. BlocksInTime'
  BY <1>2, <1>3, Fields DEF BookInv, BlocksInTime, Gen, Rec, IInv
<1>5. AskedInTime'
  <2>1. \A c \in OnList', y \in asked' :
          y.edge = block'[c].edge /\ y.edge \notin scenario'.churn =>
             y.ch = block'[c].ch \/ y.ch + Period <= block'[c].ch
    <3> SUFFICES ASSUME NEW c \in OnList', NEW y \in asked', y.edge = block'[c].edge, y.edge \notin scenario'.churn
                 PROVE  y.ch = block'[c].ch \/ y.ch + Period <= block'[c].ch
      OBVIOUS
    <3>1. y \in asked /\ y.edge \in capable
      BY <1>3 DEF BookInv, AskedInTime
    <3>2. c # b
      BY <3>1, <1>2, <1>3
    <3>3. c \in OnList /\ block'[c] = block[c]
      BY <3>2, <1>1, <1>2, ListDomain DEF IInv
    <3> QED
      BY <3>1, <3>3, <1>3 DEF BookInv, AskedInTime
  <2> QED
    BY <1>3, <2>1 DEF BookInv, AskedInTime
<1>6. NextListed'
  <2>1. next_challenge \in Blocks \cup {None}
    BY DEF IInv, TypeOK
  <2> QED
    BY <1>1, <1>2, <1>3, <2>1 DEF BookInv, NextListed
<1>7. OthersOld'
  <2>1. \A c \in OnList' : c \in Blocks
    BY <1>1, ListDomain DEF IInv
  <2>2. \A c \in Blocks : block'[c].ch = block[c].ch
    BY <1>2
  <2>3. b \in Blocks /\ b # None
    BY NoneIsNoBlock
  <2>4. \A c \in OnList' : c = b \/ (c \in OnList /\ block'[c] = block[c])
    BY <1>1, <1>2, <2>1
  <2>5. \A c \in Blocks : c # next_challenge' => c # next_challenge
    BY <1>1, NoneIsNoBlock
  <2> QED
    BY <1>2, <1>3, <2>1, <2>2, <2>4, <2>5 DEF BookInv, OthersOld, Gen
<1> QED
  BY <1>4, <1>5, <1>6, <1>7 DEF BookInv

LEMMA RemoveBook == ASSUME Inv, NEW e \in Edges, edge_capability_remove(e) PROVE BookInv'
<1> USE DEF Inv
<1>1. BlocksInTime'
  BY RemoveStep, Fields DEF BookInv, BlocksInTime, Gen, Rec, IInv
<1>2. AskedInTime'
  BY RemoveStep DEF BookInv, AskedInTime
<1>3. NextListed'
  BY RemoveStep DEF BookInv, NextListed
<1>4. OthersOld'
  BY RemoveStep DEF BookInv, OthersOld, Gen
<1> QED
  BY <1>1, <1>2, <1>3, <1>4 DEF BookInv

LEMMA InitBook == Init => BookInv
<1> SUFFICES ASSUME Init PROVE BookInv
  OBVIOUS
<1>1. BlocksInTime
  BY DEF Init, BlocksInTime, Gen, Rec
<1>2. AskedInTime
  BY DEF Init, AskedInTime
<1>3. NextListed
  BY DEF Init, NextListed
<1>4. OthersOld
  BY DEF Init, OthersOld, OnList, Gen
<1> QED
  BY <1>1, <1>2, <1>3, <1>4 DEF BookInv

LEMMA NextBook == Inv /\ [Next]_vars => Inv'
<1> SUFFICES ASSUME Inv, [Next]_vars PROVE BookInv'
  BY NextIInv DEF Inv
<1>1. CASE UNCHANGED vars
  BY <1>1 DEF vars, memory, timers, history, Inv, BookInv, BlocksInTime, AskedInTime, NextListed,
              OthersOld, Gen, Rec, OnList
<1> QED
  BY <1>1, TickBook, ChallengeBook, ResponseBook, CallbackBook, AnswerBook, AddBook, RemoveBook DEF Next

-----------------------------------------------------------------------------
(* Why an Edge that stays is passed over for cause only. *)

Running(b) == b # None /\ Gen(b) # 0

(* When acknowledgements are not slow, the response timer runs out after the  *)
(* duration of the challenge that next_challenge shows, and before the next   *)
(* challenge.                                                                 *)
TimerFits ==
    /\ challenge_response_timer # 0 =>
          /\ \/ now < challenge_response_timer
             \/ now = challenge_response_timer /\ (challenge_timer.on => now + 1 < challenge_timer.start + Period)
          /\ challenge_response_timer <= now + Duration
          /\ challenge_timer.on => challenge_response_timer < challenge_timer.start + Period
          /\ Running(next_challenge) => Gen(next_challenge) + Duration <= challenge_response_timer
          /\ "challenge" \notin posted
    /\ "response" \in posted =>
          /\ "challenge" \notin posted
          /\ Running(next_challenge) => Gen(next_challenge) + Duration <= now

(* A challenge that was made but could not be sent: nothing waits for it. *)
Unsent(b) ==
    /\ Fault("send")
    /\ b = next_challenge => open = {} /\ challenge_response_timer = 0 /\ "response" \notin posted

(* Of an Edge that stays: a challenge whose time is not up is the one of its   *)
(* block; one that was not answered is still asked; and an answer that came   *)
(* too late was held against it.                                              *)
FreshIsShown(b) == \A y \in asked : y.edge = block[b].edge /\ now < y.ch + Duration => Gen(b) = y.ch

UnansweredIsAsked(b) ==
    Gen(b) # 0 /\ Rec(b) <= Gen(b) =>
       \/ /\ Gen(b) > solved[block[b].edge]
          /\ \E y \in asked : y.edge = block[b].edge /\ y.ch = Gen(b)
       \/ Unsent(b)

LateIsFailed(b) == Gen(b) # 0 /\ Rec(b) > Gen(b) + Duration => block[b].edge \in failed

BadForCause(b) == bad[block[b].edge] => block[b].edge \in failed \/ Overdue(block[b].edge)

Honest(b) == FreshIsShown(b) /\ UnansweredIsAsked(b) /\ LateIsFailed(b) /\ BadForCause(b)

Fair == ~Fault("slow") /\ (Fault("send") => scenario.churn = {})

Staying == {b \in OnList : block[b].edge \notin scenario.churn}

FairInv == Fair => TimerFits /\ \A b \in Staying : Honest(b)

(* The block of an Edge that stays is its own. *)
LEMMA StayingBlock ==
    ASSUME Inv, NEW b \in Staying
    PROVE  /\ b \in OnList /\ b \in Blocks /\ b # None
           /\ block[b].edge \in Edges /\ block[b].edge \in capable /\ block[b].edge \in known
           /\ block[b].edge \notin scenario.churn
           /\ \A c \in OnList \cup {next_challenge} : c # None /\ block[c].edge = block[b].edge => c = b
<1>1. b \in OnList /\ b \in Blocks /\ b # None /\ block[b].edge \notin scenario.churn
  BY ListDomain, NoneIsNoBlock DEF Staying, Inv, IInv
<1>2. block[b].edge \in capable
  BY <1>1 DEF Inv, IInv, OneChallengerEach
<1>3. block[b].edge \in Edges /\ block[b].edge \in known
  BY <1>2 DEF Inv, IInv, TypeOK, BookInv, AskedInTime
<1>4. \A c \in OnList : block[c].edge = block[b].edge => c = b
  BY <1>1 DEF Inv, IInv, OneChallengerEach
<1>5. next_challenge # None /\ block[next_challenge].edge = block[b].edge => next_challenge = b
  BY <1>1, <1>4 DEF Inv, BookInv, NextListed
<1> QED
  BY <1>1, <1>2, <1>3, <1>4, <1>5

LEMMA Numbers ==
    ASSUME Inv, NEW b \in Blocks
    PROVE  /\ Gen(b) \in Nat /\ Rec(b) \in Nat /\ block[b].ch \in Nat
           /\ Gen(b) \in {0, block[b].ch} /\ block[b].ch <= now /\ Gen(b) <= now /\ Rec(b) <= now
           /\ Gen(b) # 0 => MaxDuration(b) = Duration
<1>1. Gen(b) \in Nat /\ Rec(b) \in Nat /\ block[b].ch \in Nat /\ now \in Nat
  BY Fields DEF Inv, IInv, Gen, Rec
<1>2. Gen(b) \in {0, block[b].ch} /\ block[b].ch <= now /\ Rec(b) <= now
  BY DEF Inv, BookInv, BlocksInTime
<1>3. Gen(b) # 0 => MaxDuration(b) = Duration
  BY <1>2, NoneIsNoBlock DEF MaxDuration
<1> QED
  BY <1>1, <1>2, <1>3

LEMMA AckTime == ASSUME Inv, ~Fault("slow") PROVE AckBy + Duration + 1 = Period /\ AckBy \in Nat
  BY Times DEF AckBy

(* Time alone clears nobody. *)
LEMMA TickFair == Inv /\ FairInv /\ Tick => FairInv'
<1> SUFFICES ASSUME Inv, FairInv, Tick, Fair' PROVE TimerFits' /\ \A b \in Staying' : Honest(b)'
  BY DEF FairInv
<1>0. /\ posted = {} /\ now' = now + 1
      /\ challenge_timer'.start = challenge_timer.start
      /\ challenge_timer'.on <=> challenge_timer.on /\ challenge_timer.start + Period > now + 1
      /\ "challenge" \in posted' <=> challenge_timer.on /\ challenge_timer.start + Period <= now + 1
      /\ "response" \in posted' <=> challenge_response_timer # 0 /\ challenge_response_timer <= now + 1
      /\ challenge_response_timer' = IF "response" \in posted' THEN 0 ELSE challenge_response_timer
      /\ UNCHANGED <<scenario, block, next_challenge, open, asked, bad, failed, solved>>
      /\ OnList' = OnList
  BY TickStep DEF Inv
<1>1. Fair /\ TimerFits /\ \A b \in Staying : Honest(b)
  BY <1>0 DEF Fair, Fault, FairInv
<1>2. /\ now \in Nat /\ challenge_response_timer \in Nat /\ challenge_timer.start \in Nat
      /\ challenge_timer.on => challenge_timer.start + Period > now
  BY Fields DEF Inv, IInv, PeriodCovers
<1>3. next_challenge # None => Gen(next_challenge) \in Nat
  BY Numbers DEF Inv, IInv, TypeOK
<1>4. TimerFits'
  BY <1>0, <1>1, <1>2, <1>3, Times DEF TimerFits, Running, Gen
<1>5. ASSUME NEW b \in Staying' PROVE Honest(b)'
  <2>1. b \in Staying /\ Honest(b)
    BY <1>0, <1>1 DEF Staying
  <2>2. FreshIsShown(b)'
    BY <1>0, <1>2, <2>1, Fields, Times DEF Honest, FreshIsShown, Gen, Inv, IInv
  <2>3. Unsent(b) => Unsent(b)'
    BY <1>0 DEF Unsent, Fault
  <2>4. UnansweredIsAsked(b)'
    BY <1>0, <2>1, <2>3 DEF Honest, UnansweredIsAsked, Gen, Rec
  <2>5. LateIsFailed(b)'
    BY <1>0, <2>1 DEF Honest, LateIsFailed, Gen, Rec
  <2>6. BadForCause(b)'
    <3>1. \A y \in asked : now - y.ch >= Duration => now' - y.ch >= Duration
      BY <1>0, <1>2, Fields, Times DEF Inv, IInv
    <3> QED
      BY <1>0, <2>1, <3>1 DEF Honest, BadForCause, Overdue
  <2> QED
    BY <2>2, <2>4, <2>5, <2>6 DEF Honest
<1> QED
  BY <1>4, <1>5

(* A new challenge is the only one of its Edge that is not overdue. *)
LEMMA ChallengeFair == Inv /\ FairInv /\ ChallengeTimer => FairInv'
<1> SUFFICES ASSUME Inv, FairInv, ChallengeTimer, Fair' PROVE TimerFits' /\ \A b \in Staying' : Honest(b)'
  BY DEF FairInv
<1> DEFINE m == MoveToNext
           new == [edge |-> block[m].edge, ch |-> now, ack |-> 0]
<1>0. /\ "challenge" \in posted /\ posted' = posted \ {"challenge"} /\ open = {}
      /\ next_challenge' = m /\ challenge_response_timer' = 0
      /\ UNCHANGED <<scenario, now, capable, known, bad, failed, solved, challengers>> /\ OnList' = OnList
      /\ \/ m = None /\ UNCHANGED <<block, ep, lock, open, asked>>
         \/ m \in OnList /\ m \in Blocks /\ \E sent \in Sent : SendTo(m, sent)
  <2>1. ~Fault("slow")
    BY ChallengeStep DEF Inv, Fair, Fault
  <2> QED
    BY <2>1, ChallengeSends DEF Inv, BookInv
<1>1. Fair /\ TimerFits /\ \A b \in Staying : Honest(b)
  BY <1>0 DEF Fair, Fault, FairInv
<1>2. "response" \notin posted'
  BY <1>0, <1>1 DEF TimerFits
<1>3. TimerFits'
  BY <1>0, <1>2 DEF TimerFits
<1>4. ASSUME NEW b \in Staying' PROVE Honest(b)'
  <2>1. b \in OnList /\ m \in OnList /\ m \in Blocks /\ \E sent \in Sent : SendTo(m, sent)
    BY <1>0, MoveOnList DEF Staying, Inv, IInv
  <2>2. PICK sent \in Sent : SendTo(m, sent)
    BY <2>1
  <2>3. /\ block' = [block EXCEPT ![m].ch = now, ![m].gen = now]
        /\ \/ asked' = asked \cup {new} /\ new \in asked'
           \/ Fault("send") /\ UNCHANGED <<open, asked>>
    BY <2>2 DEF SendTo, Sent
  <2>4. new.edge = block[m].edge /\ new.ch = now
    OBVIOUS
  <2> HIDE DEF m, new
  <2>5. /\ block'[m].ch = now /\ block'[m].gen = now
        /\ block'[m].rec = block[m].rec /\ block'[m].edge = block[m].edge
        /\ \A c \in Blocks : c # m => block'[c] = block[c]
    BY <2>1, <2>3, BlockSent DEF Inv, IInv
  <2>6. b \in Staying /\ Honest(b) /\ b \in Blocks /\ block'[b].edge = block[b].edge
    BY <1>0, <1>1, <2>1, <2>5, ListDomain DEF Staying, Inv, IInv
  <2>7. Overdue(block[b].edge) => Overdue(block[b].edge)'
    BY <1>0, <2>3, <2>6 DEF Overdue
  <2>8. BadForCause(b)'
    BY <1>0, <2>6, <2>7 DEF Honest, BadForCause
  <2>9. CASE b = m
    <3>1. \A y \in asked : y.edge = block[b].edge => y.ch + Period <= now
      <4>1. block[b].ch + Period <= now /\ block[b].ch \in Nat
        BY <1>0, <2>6, Fields DEF Inv, BookInv, BlocksInTime, IInv
      <4>2. \A y \in asked : y.edge = block[b].edge => y.ch = block[b].ch \/ y.ch + Period <= block[b].ch
        BY <2>6, StayingBlock DEF Inv, BookInv, AskedInTime
      <4> QED
        BY <4>1, <4>2, Fields, Times DEF Inv, IInv
    <3>2. FreshIsShown(b)'
      BY <1>0, <2>3, <2>4, <2>5, <2>9, <3>1, Fields, Times DEF FreshIsShown, Gen, Inv, IInv
    <3>3. solved[block[b].edge] < now /\ Rec(b) <= now /\ now \in Nat /\ Rec(b) \in Nat
      BY <2>6, StayingBlock, Numbers, Fields DEF Inv, IInv, BookInv, AskedInTime
    <3>4. UnansweredIsAsked(b)'
      <4>1. CASE new \in asked'
        BY <4>1, <1>0, <2>4, <2>5, <2>9, <3>3 DEF UnansweredIsAsked, Gen, Rec
      <4>2. CASE Fault("send") /\ UNCHANGED <<open, asked>>
        BY <4>2, <1>0, <1>2 DEF UnansweredIsAsked, Unsent, Fault
      <4> QED
        BY <2>3, <4>1, <4>2
    <3>5. LateIsFailed(b)'
      BY <2>5, <2>9, <3>3, Times DEF LateIsFailed, Gen, Rec
    <3> QED
      BY <2>8, <3>2, <3>4, <3>5 DEF Honest
  <2>10. CASE b # m
    <3>1. block'[b] = block[b] /\ block[b].edge # block[m].edge
      BY <2>1, <2>5, <2>6, <2>10, StayingBlock, NoneIsNoBlock
    <3>2. FreshIsShown(b)'
      BY <1>0, <2>3, <2>4, <2>6, <3>1 DEF Honest, FreshIsShown, Gen
    <3>3. Unsent(b) => Unsent(b)'
      BY <1>0, <2>10 DEF Unsent, Fault
    <3>4. UnansweredIsAsked(b)'
      BY <1>0, <2>3, <2>6, <3>1, <3>3 DEF Honest, UnansweredIsAsked, Gen, Rec
    <3>5. LateIsFailed(b)'
      BY <1>0, <2>6, <3>1 DEF Honest, LateIsFailed, Gen, Rec
    <3> QED
      BY <2>8, <3>2, <3>4, <3>5 DEF Honest
  <2> QED
    BY <2>9, <2>10
<1> QED
  BY <1>3, <1>4

(* The event of the response timer is handled when the time of the challenge   *)
(* that next_challenge shows is up.                                           *)
LEMMA ResponseFair == Inv /\ FairInv /\ ResponseTimer => FairInv'
<1> SUFFICES ASSUME Inv, FairInv, ResponseTimer, Fair' PROVE TimerFits' /\ \A b \in Staying' : Honest(b)'
  BY DEF FairInv
<1> DEFINE n == next_challenge
<1>0. /\ "response" \in posted /\ posted' = posted \ {"response"}
      /\ UNCHANGED <<scenario, now, next_challenge, challenge_timer, challenge_response_timer,
                     open, asked, failed, solved>>
      /\ OnList' = OnList
      /\ \/ UNCHANGED <<bad, block>>
         \/ /\ n \in Blocks /\ block[n].gen # 0 /\ (NeverReceived(n) \/ ReceivedLate(n))
            /\ bad' = [bad EXCEPT ![block[n].edge] = TRUE]
            /\ block' = [block EXCEPT ![n].gen = 0, ![n].rec = 0]
  BY ResponseStep DEF Inv, tm_update
<1>1. Fair /\ TimerFits /\ \A b \in Staying : Honest(b)
  BY <1>0 DEF Fair, Fault, FairInv
<1>2. \A b : Unsent(b) => Unsent(b)'
  BY <1>0 DEF Unsent, Fault
<1>3. CASE UNCHANGED <<bad, block>>
  <2>1. TimerFits'
    BY <1>0, <1>1, <1>3 DEF TimerFits, Running, Gen
  <2>2. ASSUME NEW b \in Staying' PROVE Honest(b)'
    <3>1. b \in Staying /\ Honest(b)
      BY <1>0, <1>1, <1>3, <2>2 DEF Staying
    <3> QED
      BY <1>0, <1>2, <1>3, <3>1
      DEF Honest, FreshIsShown, UnansweredIsAsked, LateIsFailed, BadForCause, Overdue, Gen, Rec
  <2> QED
    BY <2>1, <2>2
<1>4. CASE /\ n \in Blocks /\ block[n].gen # 0 /\ (NeverReceived(n) \/ ReceivedLate(n))
           /\ bad' = [bad EXCEPT ![block[n].edge] = TRUE]
           /\ block' = [block EXCEPT ![n].gen = 0, ![n].rec = 0]
  <2>1. /\ block'[n].gen = 0 /\ block'[n].rec = 0
        /\ block'[n].ch = block[n].ch /\ block'[n].edge = block[n].edge
        /\ \A c \in Blocks : c # n => block'[c] = block[c]
    BY <1>4, BlockTimedOut DEF Inv, IInv
  <2>2. TimerFits'
    BY <1>0, <1>1, <2>1 DEF TimerFits, Running, Gen
  <2>3. Gen(n) # 0 /\ Gen(n) + Duration <= now
    BY <1>0, <1>1, <1>4, NoneIsNoBlock DEF TimerFits, Running, Gen
  <2>4. ASSUME NEW b \in Staying' PROVE Honest(b)'
    <3>1. b \in OnList /\ b \in Blocks
      BY <1>0, ListDomain DEF Staying, Inv, IInv
    <3>2. block'[b].edge = block[b].edge
      BY <2>1, <3>1
    <3>3. b \in Staying /\ Honest(b)
      BY <1>0, <1>1, <3>1, <3>2 DEF Staying
    <3>4. CASE b = n
      <4>1. FreshIsShown(b)'
        BY <1>0, <2>1, <2>3, <3>3, <3>4, Fields, Times DEF Honest, FreshIsShown, Gen, Inv, IInv
      <4>2. UnansweredIsAsked(b)' /\ LateIsFailed(b)'
        BY <2>1, <3>4 DEF UnansweredIsAsked, LateIsFailed, Gen
      <4>3. CASE NeverReceived(n)
        <5>1. PICK y \in asked : y.edge = block[b].edge /\ y.ch = Gen(b) /\ Gen(b) > solved[block[b].edge]
          BY <1>0, <2>3, <3>3, <3>4, <4>3 DEF Honest, UnansweredIsAsked, Unsent, NeverReceived, Gen, Rec
        <5>2. now - y.ch >= Duration
          BY <2>3, <3>4, <5>1, Fields, Times DEF Inv, IInv
        <5>3. Overdue(block[b].edge)'
          BY <1>0, <3>2, <5>1, <5>2 DEF Overdue
        <5> QED
          BY <3>2, <4>1, <4>2, <5>3 DEF Honest, BadForCause
      <4>4. CASE ReceivedLate(n)
        <5>1. Rec(b) > Gen(b) + Duration
          BY <2>3, <3>1, <3>4, <4>4, Numbers DEF ReceivedLate, Gen, Rec
        <5>2. block[b].edge \in failed
          BY <2>3, <3>3, <3>4, <5>1 DEF Honest, LateIsFailed
        <5> QED
          BY <1>0, <3>2, <4>1, <4>2, <5>2 DEF Honest, BadForCause
      <4> QED
        BY <1>4, <4>3, <4>4
    <3>5. CASE b # n
      <4>1. block'[b] = block[b] /\ block[b].edge # block[n].edge
        BY <1>4, <2>1, <3>1, <3>3, <3>5, StayingBlock, NoneIsNoBlock
      <4>2. bad'[block[b].edge] = bad[block[b].edge]
        BY <1>4, <3>3, <4>1, StayingBlock DEF Inv, IInv, TypeOK
      <4> QED
        BY <1>0, <1>2, <3>3, <4>1, <4>2
        DEF Honest, FreshIsShown, UnansweredIsAsked, LateIsFailed, BadForCause, Overdue, Gen, Rec
    <3> QED
      BY <3>4, <3>5
  <2> QED
    BY <2>2, <2>4
<1> QED
  BY <1>0, <1>3, <1>4

(* An acknowledgement that is not slow leaves time for the answer. *)
LEMMA AckFair == ASSUME Inv, FairInv, NEW x \in open, Acknowledged(x) PROVE FairInv'
<1> SUFFICES ASSUME Fair' PROVE TimerFits' /\ \A b \in Staying' : Honest(b)'
  BY DEF FairInv
<1>0. /\ next_challenge # None => challenge_response_timer' = now + MaxDuration(next_challenge)
      /\ UNCHANGED <<scenario, now, block, next_challenge, challenge_timer, posted, bad, failed, solved>>
      /\ OnList' = OnList
      /\ \A z \in asked' : \E y \in asked : y.edge = z.edge /\ y.ch = z.ch
      /\ \A y \in asked : \E z \in asked' : y.edge = z.edge /\ y.ch = z.ch
  BY AckStep DEF Inv
<1>1. Fair /\ TimerFits /\ \A b \in Staying : Honest(b)
  BY <1>0 DEF Fair, Fault, FairInv
<1>2. TimerFits'
  <2>1. next_challenge \in Blocks /\ next_challenge # None /\ "challenge" \notin posted
    BY <1>1, NotSlow DEF Inv, IInv, TypeOK, Fair
  <2>2. /\ now \in Nat /\ x.ch \in Nat /\ challenge_timer.start \in Nat
        /\ x.ch <= now /\ now - x.ch <= AckBy
        /\ challenge_timer.on => x.ch <= challenge_timer.start
    BY Fields DEF Inv, IInv, OpenInTime, PeriodCovers
  <2>3. AckBy + Duration + 1 = Period /\ AckBy \in Nat
    BY <1>1, AckTime DEF Fair
  <2>4. challenge_timer.on => now + Duration < challenge_timer.start + Period
    BY <2>2, <2>3, Times
  <2>5. /\ MaxDuration(next_challenge) \in {0, Duration}
        /\ Gen(next_challenge) # 0 => MaxDuration(next_challenge) = Duration
        /\ Gen(next_challenge) <= now /\ Gen(next_challenge) \in Nat
    BY <2>1, Numbers DEF MaxDuration
  <2>6. Gen(next_challenge)' = Gen(next_challenge)
    BY <1>0 DEF Gen
  <2>7. "response" \in posted' =>
          /\ "challenge" \notin posted'
          /\ Running(next_challenge)' => Gen(next_challenge)' + Duration <= now'
    BY <1>0, <1>1, <2>6 DEF TimerFits, Running
  <2>8. /\ challenge_timer'.on = challenge_timer.on /\ challenge_timer'.start = challenge_timer.start
        /\ now' = now /\ posted' = posted /\ challenge_response_timer' = now + MaxDuration(next_challenge)
    BY <1>0, <2>1
  <2>9. CASE MaxDuration(next_challenge) = 0
    <3>1. ~Running(next_challenge)'
      BY <2>5, <2>6, <2>9, Times DEF Running
    <3>2. challenge_timer.on => now + 1 < challenge_timer.start + Period
      BY <2>2, <2>4, Times
    <3> QED
      BY <2>1, <2>2, <2>4, <2>7, <2>8, <2>9, <3>1, <3>2, Times DEF TimerFits
  <2>10. CASE MaxDuration(next_challenge) = Duration
    BY <2>1, <2>2, <2>4, <2>5, <2>6, <2>7, <2>8, <2>10, Times DEF TimerFits
  <2> QED
    BY <2>5, <2>9, <2>10
<1>3. ASSUME NEW b \in Staying' PROVE Honest(b)'
  <2>1. b \in Staying /\ Honest(b)
    BY <1>0, <1>1 DEF Staying
  <2>2. Unsent(b) => Unsent(b)'
    BY <1>0 DEF Unsent, Fault
  <2>3. FreshIsShown(b)' /\ LateIsFailed(b)'
    BY <1>0, <2>1 DEF Honest, FreshIsShown, LateIsFailed, Gen, Rec
  <2>4. UnansweredIsAsked(b)'
    BY <1>0, <2>1, <2>2 DEF Honest, UnansweredIsAsked, Gen, Rec
  <2>5. Overdue(block[b].edge) => Overdue(block[b].edge)'
    <3> SUFFICES ASSUME NEW y \in asked, y.edge = block[b].edge, y.ch > solved[block[b].edge], now - y.ch >= Duration
                 PROVE  Overdue(block[b].edge)'
      BY DEF Overdue
    <3>1. PICK z \in asked' : y.edge = z.edge /\ y.ch = z.ch
      BY <1>0
    <3> QED
      BY <1>0, <3>1 DEF Overdue
  <2>6. BadForCause(b)'
    BY <1>0, <2>1, <2>5 DEF Honest, BadForCause
  <2> QED
    BY <2>3, <2>4, <2>6 DEF Honest
<1> QED
  BY <1>2, <1>3

LEMMA NotAckFair == ASSUME Inv, FairInv, NEW x \in open, NotAcknowledged(x) PROVE FairInv'
<1> SUFFICES ASSUME Fair' PROVE TimerFits' /\ \A b \in Staying' : Honest(b)'
  BY DEF FairInv
<1>0. /\ bad' \in {bad, [bad EXCEPT ![x.edge] = TRUE]}
      /\ failed' = failed \cup {x.edge}
      /\ UNCHANGED <<scenario, now, block, next_challenge, challenge_timer,
                     challenge_response_timer, posted, asked, solved>>
      /\ OnList' = OnList
  <2>1. ~Fault("slow")
    BY NotAckStep DEF Inv, Fair, Fault
  <2> QED
    BY <2>1, NotAckStep DEF Inv
<1>1. Fair /\ TimerFits /\ \A b \in Staying : Honest(b)
  BY <1>0 DEF Fair, Fault, FairInv
<1>2. TimerFits'
  BY <1>0, <1>1 DEF TimerFits, Running, Gen
<1>3. ASSUME NEW b \in Staying' PROVE Honest(b)'
  <2>1. b \in Staying /\ Honest(b)
    BY <1>0, <1>1 DEF Staying
  <2>2. Unsent(b) => Unsent(b)'
    BY <1>0 DEF Unsent, Fault
  <2>3. FreshIsShown(b)' /\ LateIsFailed(b)' /\ UnansweredIsAsked(b)'
    BY <1>0, <2>1, <2>2 DEF Honest, FreshIsShown, LateIsFailed, UnansweredIsAsked, Gen, Rec
  <2>4. block[b].edge # x.edge => bad'[block[b].edge] = bad[block[b].edge]
    BY <1>0, <2>1, StayingBlock DEF Inv, IInv, TypeOK
  <2>5. BadForCause(b)'
    BY <1>0, <2>1, <2>4 DEF Honest, BadForCause, Overdue
  <2> QED
    BY <2>3, <2>5 DEF Honest
<1> QED
  BY <1>2, <1>3

(* A right answer in time clears its Edge, and any other is held against it. *)
LEMMA AnswerFair == ASSUME Inv, FairInv, NEW x \in asked, NEW answer \in Answers, Answer(x, answer) PROVE FairInv'
<1> SUFFICES ASSUME Fair' PROVE TimerFits' /\ \A b \in Staying' : Honest(b)'
  BY DEF FairInv
<1>0. /\ x.ch < now /\ asked' = asked \ {x} /\ Record(x, answer)
      /\ UNCHANGED <<scenario, now, capable, known, next_challenge, challenge_timer, posted, open>>
      /\ OnList' = OnList
      /\ challenge_response_timer' \in {0, challenge_response_timer}
  BY AnswerStep DEF Inv
<1>1. Fair /\ TimerFits /\ \A b \in Staying : Honest(b)
  BY <1>0 DEF Fair, Fault, FairInv
<1>2. \A b : Unsent(b) => Unsent(b)'
  BY <1>0 DEF Unsent, Fault
<1>3. \A c \in Blocks : /\ block'[c].edge = block[c].edge /\ block'[c].ch = block[c].ch
                        /\ block'[c].gen = block[c].gen
                        /\ block[c].edge # x.edge => block'[c] = block[c]
  <2>1. CASE UNCHANGED block
    BY <2>1
  <2>2. ASSUME NEW b \in OnList, b \in Blocks, block[b].edge = x.edge, block' = [block EXCEPT ![b].rec = now]
        PROVE  \A c \in Blocks : /\ block'[c].edge = block[c].edge /\ block'[c].ch = block[c].ch
                                 /\ block'[c].gen = block[c].gen
                                 /\ block[c].edge # x.edge => block'[c] = block[c]
    BY <2>2, BlockAnswered DEF Inv, IInv
  <2> QED
    BY <2>1, <2>2, AnswerStep DEF Inv
<1>4. TimerFits'
  <2>1. next_challenge # None => next_challenge \in Blocks
    BY DEF Inv, IInv, TypeOK
  <2>2. (Running(next_challenge)' <=> Running(next_challenge))
        /\ (next_challenge # None => Gen(next_challenge)' = Gen(next_challenge))
    BY <1>0, <1>3, <2>1 DEF Running, Gen
  <2> QED
    BY <1>0, <1>1, <2>2 DEF TimerFits, Running
<1>5. ASSUME NEW b \in Staying' PROVE Honest(b)'
  <2>1. b \in OnList /\ b \in Blocks
    BY <1>0, ListDomain DEF Staying, Inv, IInv
  <2>2. block'[b].edge = block[b].edge /\ Gen(b)' = Gen(b)
    BY <1>3, <2>1 DEF Gen
  <2>3. b \in Staying /\ Honest(b)
    BY <1>0, <1>1, <2>1, <2>2 DEF Staying
  <2>4. FreshIsShown(b)'
    BY <1>0, <2>2, <2>3 DEF Honest, FreshIsShown
  <2>5. x.edge \in Edges /\ x.ch \in Nat /\ now \in Nat /\ 0 < x.ch /\ x.ch <= now
    BY Fields DEF Inv, IInv, BookInv, AskedInTime
  <2>6. CASE block[b].edge # x.edge
    <3>1. block'[b] = block[b]
      BY <1>3, <2>1, <2>6
    <3>2. solved'[block[b].edge] = solved[block[b].edge]
      <4>1. solved' \in {solved, [solved EXCEPT ![x.edge] = x.ch]}
        BY <1>0 DEF Record
      <4> QED
        BY <2>3, <2>6, <4>1, StayingBlock DEF Inv, IInv, TypeOK
    <3>3. bad'[block[b].edge] = bad[block[b].edge]
      <4>1. bad' \in {bad, [bad EXCEPT ![x.edge] = TRUE], [bad EXCEPT ![x.edge] = FALSE]}
        BY AnswerStep DEF res_coap_cr_post_handler, Judge, tm_update, Inv
      <4> QED
        BY <2>3, <2>6, <4>1, StayingBlock DEF Inv, IInv, TypeOK
    <3>4. failed' \in {failed \ {x.edge}, failed \cup {x.edge}}
      BY <1>0 DEF Record
    <3>5. UnansweredIsAsked(b)'
      BY <1>0, <1>2, <2>3, <2>6, <3>1, <3>2 DEF Honest, UnansweredIsAsked, Gen, Rec
    <3>6. LateIsFailed(b)'
      BY <2>3, <2>6, <3>1, <3>4 DEF Honest, LateIsFailed, Gen, Rec
    <3>7. Overdue(block[b].edge) => Overdue(block[b].edge)'
      BY <1>0, <2>2, <2>6, <3>2 DEF Overdue
    <3>8. BadForCause(b)'
      BY <2>2, <2>3, <2>6, <3>3, <3>4, <3>7 DEF Honest, BadForCause
    <3> QED
      BY <2>4, <3>5, <3>6, <3>8 DEF Honest
  <2>7. CASE block[b].edge = x.edge
    <3>1. find_edge_challenger(x.edge) = b /\ x.edge \in known /\ b # None
      <4>1. x.edge \in capable /\ x.edge \in known /\ b # None
        BY <2>3, <2>7, StayingBlock
      <4> QED
        BY <2>3, <2>7, <4>1, FindsChallenger, StayingBlock, ListDomain, NoneIsNoBlock DEF Inv, IInv
    <3>2. Judge(b, x, answer) /\ block' = [block EXCEPT ![b].rec = now]
      BY <3>1, AnswerStep DEF res_coap_cr_post_handler, Inv
    <3>3. Rec(b)' = now
      BY <2>1, <3>2, BlockAnswered DEF Inv, IInv, Rec
    <3>4. Gen(b) \in Nat /\ Gen(b) <= now /\ Rec(b) <= now /\ Gen(b) \in {0, block[b].ch} /\ Rec(b) \in Nat
          /\ (Gen(b) # 0 => MaxDuration(b) = Duration)
      BY <2>1, Numbers
    <3>5. now < x.ch + Duration => Gen(b) = x.ch
      BY <2>3, <2>7 DEF Honest, FreshIsShown
    <3>6. UnansweredIsAsked(b)'
      <4> SUFFICES ASSUME Gen(b) # 0, now <= Gen(b)
                   PROVE  UnansweredIsAsked(b)'
        BY <2>2, <3>3 DEF UnansweredIsAsked
      <4>1. Gen(b) = now /\ Rec(b) <= Gen(b)
        BY <2>5, <3>4
      <4>2. CASE Unsent(b)
        BY <1>2, <4>2 DEF UnansweredIsAsked
      <4>3. ASSUME NEW y \in asked, y.edge = block[b].edge, y.ch = Gen(b), Gen(b) > solved[block[b].edge]
            PROVE  UnansweredIsAsked(b)'
        <5>1. y \in asked'
          BY <1>0, <2>5, <4>1, <4>3
        <5>2. solved'[x.edge] < now
          <6>1. solved' \in {solved, [solved EXCEPT ![x.edge] = x.ch]}
            BY <1>0 DEF Record
          <6> QED
            BY <1>0, <2>5, <2>7, <4>1, <4>3, <6>1 DEF Inv, IInv, TypeOK
        <5>3. Gen(b)' > solved'[block'[b].edge]
          BY <2>2, <2>5, <2>7, <4>1, <5>2
        <5> QED
          BY <2>2, <4>3, <5>1, <5>3 DEF UnansweredIsAsked
      <4> QED
        BY <2>3, <4>1, <4>2, <4>3 DEF Honest, UnansweredIsAsked
    <3>7. CASE x.edge \in failed'
      BY <2>2, <2>4, <2>7, <3>6, <3>7 DEF Honest, LateIsFailed, BadForCause
    <3>8. CASE x.edge \notin failed'
      <4>1. answer = "right" /\ now - x.ch < Duration
        BY <1>0, <3>8 DEF Record
      <4>2. Gen(b) = x.ch /\ Gen(b) # 0 /\ block[b].ch = x.ch /\ MaxDuration(b) = Duration
        BY <2>5, <3>4, <3>5, <4>1, Times
      <4>3. bad' = [bad EXCEPT ![x.edge] = ~(answer = "right" /\ block[b].ch = x.ch)]
        <5>1. ~(now - block[b].gen > MaxDuration(b))
          BY <2>5, <4>1, <4>2, Times DEF Gen
        <5> QED
          BY <3>2, <4>1, <5>1 DEF Judge, tm_update
      <4>4. ~bad'[x.edge]
        BY <2>5, <4>1, <4>2, <4>3 DEF Inv, IInv, TypeOK
      <4>5. LateIsFailed(b)'
        BY <2>2, <2>5, <3>3, <4>1, <4>2, Times DEF LateIsFailed
      <4> QED
        BY <2>2, <2>4, <2>7, <3>6, <4>4, <4>5 DEF Honest, BadForCause
    <3> QED
      BY <3>7, <3>8
  <2> QED
    BY <2>6, <2>7
<1> QED
  BY <1>4, <1>5

(* An Edge that is new to the node, and stays, is good. *)
LEMMA AddFair == ASSUME Inv, FairInv, NEW e \in Edges, edge_capability_add(e) PROVE FairInv'
<1> SUFFICES ASSUME Fair' PROVE TimerFits' /\ \A b \in Staying' : Honest(b)'
  BY DEF FairInv
<1>0. /\ challenge_timer' = [start |-> now, on |-> TRUE] \/ challenge_timer' = challenge_timer
      /\ e \notin capable /\ capable' = capable \cup {e} /\ known' = known \cup {e}
      /\ bad' = IF e \in known THEN bad ELSE [bad EXCEPT ![e] = FALSE]
      /\ UNCHANGED <<scenario, now, posted, lock, ep, open, asked, failed, solved>>
  BY DEF edge_capability_add, history
<1>1. Fair /\ TimerFits /\ \A b \in Staying : Honest(b)
  BY <1>0 DEF Fair, Fault, FairInv
<1>2. PICK f \in Blocks \ OnList :
                 /\ block' = [block EXCEPT ![f].edge = e, ![f].gen = 0, ![f].rec = 0]
                 /\ OnList' = OnList \cup {f}
                 /\ \/ next_challenge = None /\ next_challenge' = f /\ challenge_response_timer' = 0
                    \/ UNCHANGED <<next_challenge, challenge_response_timer>>
  BY AddStep DEF Inv
<1>3. /\ block'[f].edge = e /\ block'[f].gen = 0 /\ block'[f].rec = 0
      /\ \A c \in Blocks : c # f => block'[c] = block[c]
  BY <1>2, BlockAdded DEF Inv, IInv
<1>4. now \in Nat /\ challenge_response_timer \in Nat /\ challenge_timer.start \in Nat
  BY Fields DEF Inv, IInv
<1>5. TimerFits'
  <2>1. next_challenge # None => next_challenge \in Blocks /\ Gen(next_challenge) \in Nat
    BY Numbers DEF Inv, IInv, TypeOK
  <2>2. CASE next_challenge' = f
    <3>1. ~Running(next_challenge)'
      BY <1>3, <2>2 DEF Running, Gen
    <3>2. challenge_response_timer' \in {0, challenge_response_timer}
      BY <1>2
    <3> QED
      BY <1>0, <1>1, <1>4, <3>1, <3>2, Times DEF TimerFits
  <2>3. CASE next_challenge' # f
    <3>1. UNCHANGED <<next_challenge, challenge_response_timer>>
      BY <1>2, <2>3
    <3>2. (Running(next_challenge)' <=> Running(next_challenge))
          /\ (next_challenge # None => Gen(next_challenge)' = Gen(next_challenge))
      BY <1>3, <2>1, <2>3, <3>1 DEF Running, Gen
    <3> QED
      BY <1>0, <1>1, <1>4, <3>1, <3>2, Times DEF TimerFits, Running
  <2> QED
    BY <2>2, <2>3
<1>6. ASSUME NEW b \in Staying' PROVE Honest(b)'
  <2>1. CASE b = f
    <3>1. e \notin known /\ \A y \in asked : y.edge # e
      BY <1>0, <1>3, <2>1 DEF Staying, Inv, BookInv, AskedInTime
    <3>2. ~bad'[e]
      BY <1>0, <3>1 DEF Inv, IInv, TypeOK
    <3> QED
      BY <1>0, <1>3, <2>1, <3>1, <3>2
      DEF Honest, FreshIsShown, UnansweredIsAsked, LateIsFailed, BadForCause, Gen
  <2>2. CASE b # f
    <3>1. b \in OnList /\ block'[b] = block[b]
      BY <1>2, <1>3, <2>2, ListDomain DEF Staying, Inv, IInv
    <3>2. b \in Staying /\ Honest(b)
      BY <1>0, <1>1, <3>1 DEF Staying
    <3>3. bad'[block[b].edge] = bad[block[b].edge]
      <4>1. block[b].edge # e /\ block[b].edge \in Edges
        BY <1>0, <3>2, StayingBlock
      <4>2. bad' \in {bad, [bad EXCEPT ![e] = FALSE]}
        BY <1>0
      <4> QED
        BY <4>1, <4>2 DEF Inv, IInv, TypeOK
    <3>4. Unsent(b) => Unsent(b)'
      BY <1>0, <1>2, <2>2 DEF Unsent, Fault
    <3> QED
      BY <1>0, <3>1, <3>2, <3>3, <3>4
      DEF Honest, FreshIsShown, UnansweredIsAsked, LateIsFailed, BadForCause, Overdue, Gen, Rec
  <2> QED
    BY <2>1, <2>2
<1> QED
  BY <1>5, <1>6

(* When the current challenger goes, next_challenge shows one whose challenge  *)
(* is over, so that the event of the response timer does it no wrong.         *)
LEMMA RemoveFair == ASSUME Inv, FairInv, NEW e \in Edges, edge_capability_remove(e) PROVE FairInv'
<1> SUFFICES ASSUME Fair' PROVE TimerFits' /\ \A b \in Staying' : Honest(b)'
  BY DEF FairInv
<1>0. /\ e \in scenario.churn
      /\ challenge_timer'.start = challenge_timer.start
      /\ challenge_timer'.on => challenge_timer.on
      /\ UNCHANGED <<scenario, now, block, posted, open, asked, bad, failed, solved>>
  BY RemoveStep DEF Inv
<1>1. PICK r \in OnList :
                 /\ block[r].edge = e
                 /\ OnList' = OnList \ {r}
                 /\ \/ /\ next_challenge = r /\ next_challenge' = MoveToNext /\ MoveToNext \in OnList
                       /\ challenge_response_timer' = 0
                    \/ next_challenge # r /\ UNCHANGED <<next_challenge, challenge_response_timer>>
  BY RemoveStep DEF Inv
<1>2. Fair /\ TimerFits /\ (\A b \in Staying : Honest(b)) /\ ~Fault("send")
  BY <1>0 DEF Fair, Fault, FairInv
<1>3. now \in Nat
  BY Fields DEF Inv, IInv
<1>4. TimerFits'
  <2>1. CASE next_challenge = r /\ next_challenge' = MoveToNext /\ MoveToNext \in OnList /\ challenge_response_timer' = 0
    <3>1. r # None /\ MoveToNext \in Blocks /\ Gen(MoveToNext) \in Nat
      BY <2>1, ListDomain, NoneIsNoBlock, Numbers DEF Inv, IInv, Gen
    <3>2. Gen(next_challenge)' = block[next_challenge'].gen
      BY <1>0 DEF Gen
    <3>3. MoveToNext # r /\ Gen(MoveToNext) # 0 => Gen(MoveToNext) + Period <= now
      BY <2>1 DEF Inv, BookInv, OthersOld
    <3>4. "response" \in posted /\ Gen(MoveToNext) # 0 => Gen(MoveToNext) + Duration <= now
      BY <1>2, <1>3, <2>1, <3>1, <3>3, Times DEF TimerFits, Running
    <3> QED
      BY <1>0, <1>2, <2>1, <3>2, <3>4 DEF TimerFits, Running, Gen
  <2>2. CASE UNCHANGED <<next_challenge, challenge_response_timer>>
    BY <1>0, <1>2, <2>2 DEF TimerFits, Running, Gen
  <2> QED
    BY <1>1, <2>1, <2>2
<1>5. ASSUME NEW b \in Staying' PROVE Honest(b)'
  <2>1. b \in Staying /\ Honest(b) /\ ~Unsent(b)
    BY <1>0, <1>1, <1>2 DEF Staying, Unsent
  <2> QED
    BY <1>0, <2>1
    DEF Honest, FreshIsShown, UnansweredIsAsked, LateIsFailed, BadForCause, Overdue, Gen, Rec
<1> QED
  BY <1>4, <1>5

LEMMA InitFair == Init => FairInv
<1> SUFFICES ASSUME Init PROVE FairInv
  OBVIOUS
<1>1. TimerFits
  BY DEF Init, TimerFits
<1>2. Staying = {}
  BY DEF Init, Staying, OnList
<1> QED
  BY <1>1, <1>2 DEF FairInv

LEMMA FairInvariance == Spec => [](Inv /\ FairInv)
<1>1. Init => Inv /\ FairInv
  BY InitIInv, InitBook, InitFair DEF Inv
<1>2. Inv /\ FairInv /\ [Next]_vars => (Inv /\ FairInv)'
  <2> SUFFICES ASSUME Inv, FairInv, [Next]_vars PROVE FairInv'
    BY NextBook
  <2>1. CASE UNCHANGED vars
    <3>1. UNCHANGED <<scenario, now, block, challengers, next_challenge, challenge_timer, challenge_response_timer,
                      posted, open, asked, bad, failed, solved>>
      BY <2>1 DEF vars, memory, timers, history
    <3>2. OnList' = OnList
      BY <3>1 DEF OnList
    <3>3. (Fair' <=> Fair) /\ Staying' = Staying
      BY <3>1, <3>2 DEF Fair, Fault, Staying
    <3>4. TimerFits => TimerFits'
      BY <3>1 DEF TimerFits, Running, Gen
    <3>5. \A b : Honest(b) => Honest(b)'
      BY <3>1 DEF Honest, FreshIsShown, UnansweredIsAsked, LateIsFailed, BadForCause, Overdue, Unsent, Fault, Gen, Rec
    <3> QED
      BY <3>3, <3>4, <3>5 DEF FairInv
  <2> QED
    BY <2>1, TickFair, ChallengeFair, ResponseFair, AckFair, NotAckFair, AnswerFair, AddFair, RemoveFair DEF Next
<1> QED
  BY <1>1, <1>2, PTL DEF Spec

(* Where acknowledgements are not slow, and either every challenge can be sent *)
(* or Edges do not go, an Edge that keeps the capability is passed over by the *)
(* choice only since it failed: it left a request unacknowledged, answered    *)
(* wrongly or late, or a challenge it has not answered is out of time.  What   *)
(* other Edges do, and the order in which the two timers' events, callbacks    *)
(* and answers are handled, never costs it its good name.                     *)
THEOREM PassedOverOnlyForCause == Spec => []PassedOverForCause
<1>1. Inv /\ FairInv => PassedOverForCause
  <2> SUFFICES ASSUME Inv, FairInv, Fair, NEW e \in capable, e \notin choose_edge, e \notin scenario.churn
               PROVE  e \in failed \/ Overdue(e)
    BY DEF PassedOverForCause, Fair
  <2>1. PICK b \in OnList : block[b].edge = e
    BY DEF Inv, IInv, OneChallengerEach
  <2>2. b \in Staying
    BY <2>1 DEF Staying
  <2>3. bad[e]
    BY DEF choose_edge, edge_is_good
  <2> QED
    BY <2>1, <2>2, <2>3 DEF FairInv, Honest, BadForCause
<1> QED
  BY <1>1, FairInvariance, PTL

-----------------------------------------------------------------------------
(* Why silence is noticed. *)

Punctual == scenario.faults \cap {"slow", "late"} = {} /\ scenario.churn = {}

(* The challenge x is the one that next_challenge shows, and is not answered. *)
Current(x) ==
    /\ next_challenge # None
    /\ block[next_challenge].edge = x.edge
    /\ Gen(next_challenge) = x.ch

(* The response timer is to run out for the challenge x, or just has. *)
Pending(x) ==
    /\ Current(x)
    /\ \/ challenge_response_timer = x.ack + Duration /\ now < challenge_response_timer
       \/ "response" \in posted /\ now <= x.ack + Duration

OpenIsCurrent == \A x \in open : Current(x) /\ challenge_response_timer = 0 /\ "response" \notin posted

AskedNotReceived == \A b \in OnList, y \in asked : y.edge = block[b].edge /\ Gen(b) = y.ch => Rec(b) <= Gen(b)

Noticed(x) == x.ack # 0 /\ x.ch > solved[x.edge] => bad[x.edge] \/ Pending(x)

SilenceInv == Punctual => OpenIsCurrent /\ AskedNotReceived /\ \A x \in asked : Noticed(x)

All == Inv /\ FairInv

LEMMA PunctualIsFair ==
    ASSUME All, SilenceInv, Punctual
    PROVE  /\ ~Fault("late") /\ scenario.churn = {} /\ TimerFits
           /\ OpenIsCurrent /\ AskedNotReceived /\ \A x \in asked : Noticed(x)
           /\ next_challenge # None => next_challenge \in OnList /\ next_challenge \in Blocks
<1>1. ~Fault("late") /\ ~Fault("slow") /\ scenario.churn = {}
  BY DEF Punctual, Fault
<1>2. TimerFits
  BY <1>1 DEF All, FairInv, Fair
<1>3. next_challenge # None => next_challenge \in OnList /\ next_challenge \in Blocks
  BY <1>1, ListDomain DEF All, Inv, BookInv, NextListed, IInv
<1> QED
  BY <1>1, <1>2, <1>3 DEF SilenceInv

LEMMA TickSilence == All /\ SilenceInv /\ Tick => SilenceInv'
<1> SUFFICES ASSUME All, SilenceInv, Tick, Punctual'
             PROVE  OpenIsCurrent' /\ AskedNotReceived' /\ \A x \in asked' : Noticed(x)'
  BY DEF SilenceInv
<1>0. /\ posted = {} /\ now' = now + 1
      /\ "response" \in posted' <=> challenge_response_timer # 0 /\ challenge_response_timer <= now + 1
      /\ challenge_response_timer' = IF "response" \in posted' THEN 0 ELSE challenge_response_timer
      /\ UNCHANGED <<scenario, block, next_challenge, open, asked, bad, solved>>
      /\ OnList' = OnList
  BY TickStep DEF All, Inv
<1>1. Punctual
  BY <1>0 DEF Punctual
<1>2. \A x : Current(x)' <=> Current(x)
  BY <1>0 DEF Current, Gen
<1>3. now \in Nat /\ challenge_response_timer \in Nat /\ \A x \in asked : x.ack \in Nat
  BY Fields DEF All, Inv, IInv
<1>4. OpenIsCurrent'
  BY <1>0, <1>1, <1>2, PunctualIsFair DEF OpenIsCurrent
<1>5. AskedNotReceived'
  BY <1>0, <1>1, PunctualIsFair DEF AskedNotReceived, Gen, Rec
<1>6. ASSUME NEW x \in asked' PROVE Noticed(x)'
  <2>1. x \in asked /\ Noticed(x)
    BY <1>0, <1>1, PunctualIsFair
  <2>2. Pending(x) => Pending(x)'
    BY <1>0, <1>2, <1>3, <2>1, Times DEF Pending
  <2> QED
    BY <1>0, <2>1, <2>2 DEF Noticed
<1> QED
  BY <1>4, <1>5, <1>6

(* The response timer does not run when a challenge is made. *)
LEMMA ChallengeSilence == All /\ SilenceInv /\ ChallengeTimer => SilenceInv'
<1> SUFFICES ASSUME All, SilenceInv, ChallengeTimer, Punctual'
             PROVE  OpenIsCurrent' /\ AskedNotReceived' /\ \A x \in asked' : Noticed(x)'
  BY DEF SilenceInv
<1> DEFINE m == MoveToNext
           new == [edge |-> block[m].edge, ch |-> now, ack |-> 0]
           req == [edge |-> block[m].edge, ch |-> now]
<1>0. /\ "challenge" \in posted /\ posted' = posted \ {"challenge"} /\ open = {}
      /\ next_challenge' = m /\ challenge_response_timer' = 0
      /\ UNCHANGED <<scenario, now, capable, known, bad, failed, solved, challengers>> /\ OnList' = OnList
      /\ \/ m = None /\ UNCHANGED <<block, ep, lock, open, asked>>
         \/ m \in OnList /\ m \in Blocks /\ \E sent \in Sent : SendTo(m, sent)
  <2>1. ~Fault("slow")
    BY ChallengeStep DEF All, Inv, Punctual, Fault
  <2> QED
    BY <2>1, ChallengeSends DEF All, Inv, BookInv
<1>1. Punctual
  BY <1>0 DEF Punctual
<1>2. "response" \notin posted /\ challenge_response_timer = 0
  BY <1>0, <1>1, PunctualIsFair DEF TimerFits
<1>3. \A x \in asked : x.ack # 0 /\ x.ch > solved[x.edge] => bad[x.edge]
  <2>1. \A x \in asked : ~Pending(x)
    BY <1>2, Fields DEF Pending, All, Inv, IInv
  <2> QED
    BY <1>1, <2>1, PunctualIsFair DEF Noticed
<1>4. CASE m = None /\ UNCHANGED <<block, ep, lock, open, asked>>
  <2>1. OpenIsCurrent'
    BY <1>0, <1>4 DEF OpenIsCurrent
  <2>2. AskedNotReceived'
    BY <1>0, <1>1, <1>4, PunctualIsFair DEF AskedNotReceived, Gen, Rec
  <2>3. \A x \in asked' : Noticed(x)'
    BY <1>0, <1>3, <1>4 DEF Noticed
  <2> QED
    BY <2>1, <2>2, <2>3
<1>5. CASE m \in OnList /\ m \in Blocks /\ \E sent \in Sent : SendTo(m, sent)
  <2>1. PICK sent \in Sent : SendTo(m, sent)
    BY <1>5
  <2>2. /\ block' = [block EXCEPT ![m].ch = now, ![m].gen = now]
        /\ asked' \subseteq asked \cup {new} /\ open' \subseteq open \cup {req}
    BY <2>1 DEF SendTo
  <2>3. new.edge = block[m].edge /\ new.ch = now /\ new.ack = 0 /\ req.edge = block[m].edge /\ req.ch = now
    OBVIOUS
  <2> HIDE DEF m, new, req
  <2>4. /\ block'[m].ch = now /\ block'[m].gen = now
        /\ block'[m].rec = block[m].rec /\ block'[m].edge = block[m].edge
        /\ \A c \in Blocks : c # m => block'[c] = block[c]
    BY <1>5, <2>2, BlockSent DEF All, Inv, IInv
  <2>5. OpenIsCurrent'
    BY <1>0, <1>2, <1>5, <2>2, <2>3, <2>4, NoneIsNoBlock DEF OpenIsCurrent, Current, Gen
  <2>6. ASSUME NEW b \in OnList', NEW y \in asked', y.edge = block'[b].edge, Gen(b)' = y.ch
        PROVE  Rec(b)' <= Gen(b)'
    <3>1. b \in OnList /\ b \in Blocks
      BY <1>0, ListDomain DEF All, Inv, IInv
    <3>2. CASE b = m
      BY <2>4, <3>1, <3>2, Numbers DEF All, Gen, Rec
    <3>3. CASE b # m
      <4>1. block'[b] = block[b] /\ block[b].edge # block[m].edge
        BY <1>5, <2>4, <3>1, <3>3 DEF All, Inv, IInv, OneChallengerEach
      <4>2. y \in asked
        BY <2>2, <2>3, <2>6, <4>1
      <4> QED
        BY <1>1, <2>6, <3>1, <4>1, <4>2, PunctualIsFair DEF AskedNotReceived, Gen, Rec
    <3> QED
      BY <3>2, <3>3
  <2>7. AskedNotReceived'
    BY <2>6 DEF AskedNotReceived
  <2>8. \A x \in asked' : Noticed(x)'
    BY <1>0, <1>3, <2>2, <2>3 DEF Noticed
  <2> QED
    BY <2>5, <2>7, <2>8
<1> QED
  BY <1>0, <1>4, <1>5

(* The event of the response timer makes the Edge it waits for bad. *)
LEMMA ResponseSilence == All /\ SilenceInv /\ ResponseTimer => SilenceInv'
<1> SUFFICES ASSUME All, SilenceInv, ResponseTimer, Punctual'
             PROVE  OpenIsCurrent' /\ AskedNotReceived' /\ \A x \in asked' : Noticed(x)'
  BY DEF SilenceInv
<1> DEFINE n == next_challenge
<1>0. /\ "response" \in posted
      /\ UNCHANGED <<scenario, now, next_challenge, open, asked, failed, solved>>
      /\ OnList' = OnList
      /\ \/ /\ n = None \/ block[n].gen = 0 \/ ~(NeverReceived(n) \/ ReceivedLate(n))
            /\ UNCHANGED <<bad, block>>
         \/ /\ n \in Blocks /\ block[n].gen # 0
            /\ bad' = [bad EXCEPT ![block[n].edge] = TRUE]
            /\ block' = [block EXCEPT ![n].gen = 0, ![n].rec = 0]
  BY ResponseStep DEF All, Inv, tm_update
<1>1. Punctual
  BY <1>0 DEF Punctual
<1>2. open = {}
  BY <1>0, <1>1, PunctualIsFair DEF OpenIsCurrent
<1>3. OpenIsCurrent'
  BY <1>0, <1>2 DEF OpenIsCurrent
<1>4. \A x \in asked : x.edge \in Edges /\ x.ch \in Nat /\ 0 < x.ch
  BY Fields DEF All, Inv, IInv, BookInv, AskedInTime
<1>5. \A x \in asked : Current(x) => n \in Blocks /\ n \in OnList /\ block[n].gen = x.ch /\ NeverReceived(n)
  BY <1>1, PunctualIsFair DEF Current, AskedNotReceived, NeverReceived, Gen, Rec
<1>6. CASE /\ n = None \/ block[n].gen = 0 \/ ~(NeverReceived(n) \/ ReceivedLate(n))
           /\ UNCHANGED <<bad, block>>
  <2>1. \A x \in asked : ~Current(x)
    BY <1>4, <1>5, <1>6 DEF Current
  <2>2. AskedNotReceived'
    BY <1>0, <1>1, <1>6, PunctualIsFair DEF AskedNotReceived, Gen, Rec
  <2>3. \A x \in asked' : Noticed(x)'
    BY <1>0, <1>1, <1>6, <2>1, PunctualIsFair DEF Noticed, Pending
  <2> QED
    BY <1>3, <2>2, <2>3
<1>7. CASE /\ n \in Blocks /\ block[n].gen # 0
           /\ bad' = [bad EXCEPT ![block[n].edge] = TRUE]
           /\ block' = [block EXCEPT ![n].gen = 0, ![n].rec = 0]
  <2>1. /\ block'[n].gen = 0 /\ block'[n].edge = block[n].edge
        /\ \A c \in Blocks : c # n => block'[c] = block[c]
    BY <1>7, BlockTimedOut DEF All, Inv, IInv
  <2>2. AskedNotReceived'
    BY <1>0, <1>1, <1>4, <2>1, PunctualIsFair, ListDomain DEF AskedNotReceived, Gen, Rec, All, Inv, IInv
  <2>3. \A e \in Edges : bad'[e] = (bad[e] \/ e = block[n].edge)
    BY <1>7 DEF All, Inv, IInv, TypeOK
  <2>4. \A x \in asked' : Noticed(x)'
    BY <1>0, <1>1, <1>4, <2>3, PunctualIsFair DEF Noticed, Pending, Current
  <2> QED
    BY <1>3, <2>2, <2>4
<1> QED
  BY <1>0, <1>6, <1>7

(* An acknowledgement sets the response timer for its challenge. *)
LEMMA AckSilence == ASSUME All, SilenceInv, NEW x \in open, Acknowledged(x) PROVE SilenceInv'
<1> SUFFICES ASSUME Punctual' PROVE OpenIsCurrent' /\ AskedNotReceived' /\ \A z \in asked' : Noticed(z)'
  BY DEF SilenceInv
<1>0. /\ open' = open \ {x}
      /\ next_challenge # None => challenge_response_timer' = now + MaxDuration(next_challenge)
      /\ UNCHANGED <<scenario, now, block, next_challenge, posted, bad, solved>>
      /\ OnList' = OnList
      /\ \A z \in asked' : \E y \in asked :
                 /\ y.edge = z.edge /\ y.ch = z.ch
                 /\ z.ack = IF y.edge = x.edge /\ y.ch = x.ch THEN now ELSE y.ack
  BY AckStep DEF All, Inv
<1>1. Punctual
  BY <1>0 DEF Punctual
<1>2. open' = {} /\ next_challenge # None
  BY <1>0, <1>1, NotSlow DEF All, Inv, Punctual, Fault
<1>3. Current(x) /\ challenge_response_timer = 0 /\ "response" \notin posted
  BY <1>1, PunctualIsFair DEF OpenIsCurrent
<1>4. AskedNotReceived'
  BY <1>0, <1>1, PunctualIsFair DEF AskedNotReceived, Gen, Rec
<1>5. ASSUME NEW z \in asked' PROVE Noticed(z)'
  <2>1. PICK y \in asked : /\ y.edge = z.edge /\ y.ch = z.ch
                           /\ z.ack = IF y.edge = x.edge /\ y.ch = x.ch THEN now ELSE y.ack
    BY <1>0
  <2>2. y.ch \in Nat /\ 0 < y.ch /\ y.ack \in Nat /\ now \in Nat
    BY Fields DEF All, Inv, IInv, BookInv, AskedInTime
  <2>3. CASE y.edge = x.edge /\ y.ch = x.ch
    <3>1. Gen(next_challenge) # 0 /\ next_challenge \in Blocks
      BY <1>1, <1>3, <2>2, <2>3, PunctualIsFair DEF Current
    <3>2. challenge_response_timer' = now + Duration /\ now < now + Duration
      BY <1>0, <1>2, <2>2, <3>1, Numbers, Times DEF All
    <3>3. Current(z)'
      BY <1>0, <1>3, <2>1, <2>3 DEF Current, Gen
    <3> QED
      BY <1>0, <2>1, <2>3, <3>2, <3>3 DEF Noticed, Pending
  <2>4. CASE ~(y.edge = x.edge /\ y.ch = x.ch)
    <3>1. ~Pending(y)
      BY <1>3, <2>2, Times DEF Pending
    <3> QED
      BY <1>0, <1>1, <2>1, <2>4, <3>1, PunctualIsFair DEF Noticed
  <2> QED
    BY <2>3, <2>4
<1> QED
  BY <1>2, <1>4, <1>5 DEF OpenIsCurrent

LEMMA NotAckSilence == ASSUME All, SilenceInv, NEW x \in open, NotAcknowledged(x) PROVE SilenceInv'
<1> SUFFICES ASSUME Punctual' PROVE OpenIsCurrent' /\ AskedNotReceived' /\ \A z \in asked' : Noticed(z)'
  BY DEF SilenceInv
<1>0. /\ open' = {} /\ bad' \in {bad, [bad EXCEPT ![x.edge] = TRUE]}
      /\ UNCHANGED <<scenario, now, block, next_challenge, challenge_response_timer, posted, asked, solved>>
      /\ OnList' = OnList
  <2>1. ~Fault("slow")
    BY NotAckStep DEF All, Inv, Punctual, Fault
  <2> QED
    BY <2>1, NotAckStep DEF All, Inv
<1>1. Punctual
  BY <1>0 DEF Punctual
<1>2. AskedNotReceived'
  BY <1>0, <1>1, PunctualIsFair DEF AskedNotReceived, Gen, Rec
<1>3. \A e \in Edges : bad[e] => bad'[e]
  BY <1>0 DEF All, Inv, IInv, TypeOK
<1>4. \A y : Pending(y) => Pending(y)'
  BY <1>0 DEF Pending, Current, Gen
<1>5. \A z \in asked' : Noticed(z)'
  BY <1>0, <1>1, <1>3, <1>4, PunctualIsFair, Fields DEF Noticed, All, Inv, IInv
<1> QED
  BY <1>0, <1>2, <1>5 DEF OpenIsCurrent

(* An answer in time is one to the challenge that next_challenge shows, so     *)
(* that the timer it stops is that of its own challenge.                      *)
LEMMA AnswerSilence ==
    ASSUME All, SilenceInv, NEW x \in asked, NEW answer \in Answers, Answer(x, answer) PROVE SilenceInv'
<1> SUFFICES ASSUME Punctual' PROVE OpenIsCurrent' /\ AskedNotReceived' /\ \A z \in asked' : Noticed(z)'
  BY DEF SilenceInv
<1> DEFINE b == find_edge_challenger(x.edge)
<1>0. /\ x.ch < now /\ (InTime(x) \/ Fault("late")) /\ asked' = asked \ {x} /\ Record(x, answer)
      /\ \/ /\ x.edge \in known
            /\ res_coap_cr_post_handler(b, x, answer)
         \/ x.edge \notin known /\ UNCHANGED <<block, challenge_response_timer, bad>>
      /\ UNCHANGED <<scenario, now, next_challenge, posted, open>>
      /\ OnList' = OnList
  BY AnswerStep DEF All, Inv
<1>1. Punctual
  BY <1>0 DEF Punctual
<1>2. /\ x.edge \in Edges /\ x.edge \in capable /\ x.edge \in known /\ now \in Nat /\ x.ch \in Nat
      /\ 0 < x.ch /\ now - x.ch <= Duration
  BY <1>0, <1>1, PunctualIsFair, Fields DEF All, Inv, IInv, BookInv, AskedInTime, InTime
<1>3. b \in OnList /\ b \in Blocks /\ b # None /\ block[b].edge = x.edge
  BY <1>2, FindsChallenger, ListDomain, NoneIsNoBlock DEF All, Inv, IInv
<1>4. challenge_response_timer' = 0 /\ block' = [block EXCEPT ![b].rec = now] /\ Judge(b, x, answer)
  BY <1>0, <1>2, <1>3 DEF res_coap_cr_post_handler
<1> HIDE DEF b
<1>5. /\ block'[b].rec = now /\ block'[b].gen = block[b].gen /\ block'[b].edge = block[b].edge
      /\ \A c \in Blocks : c # b => block'[c] = block[c]
  BY <1>3, <1>4, BlockAnswered DEF All, Inv, IInv
<1>6. \A y \in asked : y.edge \in Edges /\ y.edge \notin scenario.churn /\ y.ch \in Nat /\ 0 < y.ch /\ y.ch <= now
  BY <1>1, PunctualIsFair, Fields DEF All, Inv, IInv, BookInv, AskedInTime
<1>7. \A y \in asked : y.edge = x.edge => y.ch = block[b].ch \/ y.ch + Period <= block[b].ch
  BY <1>3, <1>6 DEF All, Inv, BookInv, AskedInTime
<1>8. x.ch = block[b].ch /\ Gen(b) \in {0, x.ch} /\ Gen(b) \in Nat
  BY <1>2, <1>3, <1>7, Numbers, Times DEF All
<1>9. b = next_challenge
  BY <1>1, <1>2, <1>3, <1>8, PunctualIsFair, Times DEF All, Inv, BookInv, OthersOld
<1>10. \A y \in asked' : y.edge = x.edge => y.ch < x.ch /\ Gen(b) # y.ch
  <2> SUFFICES ASSUME NEW y \in asked', y.edge = x.edge PROVE y.ch < x.ch /\ Gen(b) # y.ch
    OBVIOUS
  <2>1. y \in asked /\ y # x
    BY <1>0
  <2>2. y.ch # x.ch
    BY <1>6, <2>1 DEF All, Inv, BookInv, AskedInTime
  <2>3. y.ch + Period <= x.ch
    BY <1>7, <1>8, <2>1, <2>2
  <2> QED
    BY <1>2, <1>6, <1>8, <2>1, <2>3, Times
<1>11. OpenIsCurrent'
  BY <1>0, <1>1, <1>4, <1>5, <1>9, PunctualIsFair DEF OpenIsCurrent, Current, Gen
<1>12. ASSUME NEW c \in OnList', NEW y \in asked', y.edge = block'[c].edge, Gen(c)' = y.ch
       PROVE  Rec(c)' <= Gen(c)'
  <2>1. c \in OnList /\ c \in Blocks /\ y \in asked
    BY <1>0, ListDomain DEF All, Inv, IInv
  <2>2. c # b
    BY <1>3, <1>5, <1>10, <1>12 DEF Gen
  <2>3. block'[c] = block[c]
    BY <1>5, <2>1, <2>2
  <2> QED
    BY <1>1, <1>12, <2>1, <2>3, PunctualIsFair DEF AskedNotReceived, Gen, Rec
<1>13. AskedNotReceived'
  BY <1>12 DEF AskedNotReceived
<1>14. ASSUME NEW z \in asked', z.ack # 0, z.ch > solved'[z.edge] PROVE bad'[z.edge]
  <2>1. z \in asked /\ Noticed(z)
    BY <1>0, <1>1, PunctualIsFair
  <2>2. ~Pending(z)
    BY <1>3, <1>9, <1>10 DEF Pending, Current
  <2>3. bad \in [Edges -> BOOLEAN] /\ solved \in [Edges -> Nat]
    BY DEF All, Inv, IInv, TypeOK
  <2>4. CASE z.edge = x.edge
    <3>1. answer # "right"
      <4> SUFFICES ASSUME answer = "right" PROVE FALSE
        OBVIOUS
      <4>1. solved' = [solved EXCEPT ![x.edge] = x.ch]
        BY <1>0, <1>2 DEF Record, InTime
      <4>2. solved'[x.edge] = x.ch
        BY <1>2, <2>3, <4>1
      <4> QED
        BY <1>2, <1>6, <1>10, <1>14, <2>1, <2>4, <4>2
    <3>2. solved' = solved
      BY <1>0, <3>1 DEF Record
    <3>3. bad[x.edge]
      BY <1>14, <2>1, <2>2, <2>4, <3>2 DEF Noticed
    <3>4. \/ bad' = bad
          \/ bad' = [bad EXCEPT ![x.edge] = ~FALSE]
          \/ bad' = [bad EXCEPT ![x.edge] = ~(answer = "right" /\ block[b].ch = x.ch)]
      BY <1>4 DEF Judge, tm_update
    <3> QED
      BY <1>2, <2>3, <2>4, <3>1, <3>3, <3>4
  <2>5. CASE z.edge # x.edge
    <3>1. solved' \in {solved, [solved EXCEPT ![x.edge] = x.ch]}
      BY <1>0 DEF Record
    <3>2. solved'[z.edge] = solved[z.edge]
      BY <1>6, <2>1, <2>3, <2>5, <3>1
    <3>3. bad' \in {bad, [bad EXCEPT ![x.edge] = TRUE], [bad EXCEPT ![x.edge] = FALSE]}
      BY <1>4 DEF Judge, tm_update
    <3>4. bad'[z.edge] = bad[z.edge]
      BY <1>6, <2>1, <2>3, <2>5, <3>3
    <3> QED
      BY <1>14, <2>1, <2>2, <3>2, <3>4 DEF Noticed
  <2> QED
    BY <2>4, <2>5
<1> QED
  BY <1>11, <1>13, <1>14 DEF Noticed

LEMMA AddSilence == ASSUME All, SilenceInv, NEW e \in Edges, edge_capability_add(e) PROVE SilenceInv'
<1> SUFFICES ASSUME Punctual' PROVE OpenIsCurrent' /\ AskedNotReceived' /\ \A z \in asked' : Noticed(z)'
  BY DEF SilenceInv
<1>0. /\ e \notin capable
      /\ bad' = IF e \in known THEN bad ELSE [bad EXCEPT ![e] = FALSE]
      /\ UNCHANGED <<scenario, now, posted, open, asked, solved>>
  BY DEF edge_capability_add, history
<1>1. Punctual
  BY <1>0 DEF Punctual
<1>2. PICK f \in Blocks \ OnList :
                 /\ block' = [block EXCEPT ![f].edge = e, ![f].gen = 0, ![f].rec = 0]
                 /\ OnList' = OnList \cup {f}
                 /\ \/ next_challenge = None /\ next_challenge' = f /\ challenge_response_timer' = 0
                    \/ UNCHANGED <<next_challenge, challenge_response_timer>>
  BY AddStep DEF All, Inv
<1>3. block'[f].edge = e /\ \A c \in Blocks : c # f => block'[c] = block[c]
  BY <1>2, BlockAdded DEF All, Inv, IInv
<1>4. next_challenge # None =>
         /\ UNCHANGED <<next_challenge, challenge_response_timer>>
         /\ block'[next_challenge] = block[next_challenge]
  BY <1>1, <1>2, <1>3, PunctualIsFair, NoneIsNoBlock
<1>5. \A y \in asked : y.edge \in Edges /\ y.edge # e
  BY <1>0, <1>1, PunctualIsFair, Fields DEF All, Inv, IInv, BookInv, AskedInTime
<1>6. OpenIsCurrent'
  BY <1>0, <1>1, <1>4, PunctualIsFair DEF OpenIsCurrent, Current, Gen
<1>7. AskedNotReceived'
  <2> SUFFICES ASSUME NEW c \in OnList', NEW y \in asked', y.edge = block'[c].edge, Gen(c)' = y.ch
               PROVE  Rec(c)' <= Gen(c)'
    BY DEF AskedNotReceived
  <2>1. y \in asked /\ c # f
    BY <1>0, <1>3, <1>5
  <2>2. c \in OnList /\ block'[c] = block[c]
    BY <1>2, <1>3, <2>1, ListDomain DEF All, Inv, IInv
  <2> QED
    BY <1>1, <2>1, <2>2, PunctualIsFair DEF AskedNotReceived, Gen, Rec
<1>8. \A y \in asked : bad'[y.edge] = bad[y.edge]
  BY <1>0, <1>5 DEF All, Inv, IInv, TypeOK
<1>9. \A y : Pending(y) => Pending(y)'
  BY <1>0, <1>4 DEF Pending, Current, Gen
<1>10. \A z \in asked' : Noticed(z)'
  BY <1>0, <1>1, <1>8, <1>9, PunctualIsFair DEF Noticed
<1> QED
  BY <1>6, <1>7, <1>10

LEMMA SilenceInvariance == Spec => []SilenceInv
<1>1. Init => SilenceInv
  BY DEF Init, SilenceInv, OpenIsCurrent, AskedNotReceived
<1>2. All /\ SilenceInv /\ [Next]_vars => SilenceInv'
  <2> SUFFICES ASSUME All, SilenceInv, [Next]_vars PROVE SilenceInv'
    OBVIOUS
  <2>1. CASE UNCHANGED vars
    <3>1. UNCHANGED <<scenario, now, block, challengers, next_challenge, challenge_response_timer,
                      posted, open, asked, bad, solved>>
      BY <2>1 DEF vars, memory, timers, history
    <3>2. OnList' = OnList
      BY <3>1 DEF OnList
    <3>3. (Punctual' <=> Punctual) /\ \A x : (Current(x)' <=> Current(x)) /\ (Pending(x)' <=> Pending(x))
      BY <3>1 DEF Punctual, Current, Pending, Gen
    <3> QED
      BY <3>1, <3>2, <3>3 DEF SilenceInv, OpenIsCurrent, AskedNotReceived, Noticed, Gen, Rec
  <2>2. ASSUME NEW e \in Edges, edge_capability_remove(e) PROVE SilenceInv'
    BY <2>2 DEF edge_capability_remove, SilenceInv, Punctual
  <2> QED
    BY <2>1, <2>2, TickSilence, ChallengeSilence, ResponseSilence, AckSilence, NotAckSilence, AnswerSilence,
       AddSilence DEF Next
<1>3. Spec => []All
  BY FairInvariance, PTL DEF All
<1> QED
  BY <1>1, <1>2, <1>3, PTL DEF Spec

(* Where nothing is slow or late and Edges stay, an Edge that acknowledges a   *)
(* challenge and does not answer it is bad from the moment its time is up, the *)
(* challenges of other Edges, their answers and failures to send              *)
(* notwithstanding, and stays so until it solves another.                     *)
THEOREM SilenceIsNoticed == Spec => []SilenceNoticed
<1>1. All /\ SilenceInv => SilenceNoticed
  <2> SUFFICES ASSUME All, SilenceInv, Punctual,
                      NEW x \in asked, x.ack # 0, x.ch > solved[x.edge], now > x.ack + Duration, ~bad[x.edge]
               PROVE  FALSE
    BY DEF SilenceNoticed, Punctual
  <2>1. Pending(x)
    BY PunctualIsFair DEF Noticed
  <2>2. now \in Nat /\ x.ack \in Nat
    BY Fields DEF All, Inv, IInv
  <2> QED
    BY <2>1, <2>2, Times DEF Pending
<1>2. Spec => []All
  BY FairInvariance, PTL DEF All
<1> QED
  BY <1>1, <1>2, SilenceInvariance, PTL
=============================================================================
