-------------------------- MODULE IrrLookup_proofs --------------------------
(***************************************************************************)
(* Proofs about IrrLookup: type correctness, and how old an answer may be  *)
(* that a caller takes for definitive.                                     *)
(***************************************************************************)
EXTENDS IrrLookup, WellFoundedInduction, TLAPS

---------------------------------------------------------------------------
(* Shapes. *)

LEMMA FirstIsIn ==
    ASSUME NEW S \in SUBSET Nat, S # {}
    PROVE  First(S) \in S
<1> DEFINE R == OpToRel(<, Nat)
<1>1. IsWellFoundedOn(R, Nat)
  BY NatLessThanWellFounded
<1> HIDE DEF R
<1>2. PICK x \in S : \A y \in S : ~(<<y, x>> \in R)
  BY <1>1, WFMin
<1>3. \A a, b \in Nat : a < b => <<a, b>> \in R
  BY DEF R, OpToRel
<1>4. \A y \in S : ~(y < x)
  BY <1>2, <1>3
<1>5. \A y \in S : x <= y
  BY <1>4
<1> QED
  BY <1>5 DEF First

\* The phase of a call tells what it holds.
LEMMA Shapes ==
    ASSUME TypeOK, NEW c \in Callers
    PROVE  /\ call[c].phase \in {"list", "object", "rest"} <=> call[c] \in Collecting
           /\ call[c].phase = "pinned" <=> call[c] \in Pinning
           /\ call[c].phase = "told" <=> call[c] \in Told
           /\ call[c].phase = "listed" <=> call[c] \in Listed
           /\ call[c].phase = "idle" <=> call[c] = Idle
<1>1. call[c] \in Collecting \cup Pinning \cup Told \cup Listed \cup {Idle}
  BY DEF TypeOK
<1> QED
  BY <1>1 DEF Collecting, Pinning, Told, Listed, Idle

LEMMA AgesType ==
    /\ 0 \in Ages /\ 0 \in History
    /\ \A n \in History : Older(n) \in History /\ Older(n) <= n + 1
    /\ \A n \in Ages : Kept(n) => n + 1 \in Ages
BY LookupAssumption DEF Ages, History, Older, Kept

\* Whatever exists_in answers fits what sources_for has learned.
LEMMA AnsweredType ==
    ASSUME NEW r \in Collecting, NEW s \in Sources, NEW result
    PROVE  Answered(r, s, result) \in Collecting
<1>1. /\ r.unresolved \ {s} \in SUBSET Sources
      /\ r.checked \cup {s} \in SUBSET Sources /\ r.checked \in SUBSET Sources
      /\ r.found \cup {s} \in SUBSET Sources /\ r.found \in SUBSET Sources
  BY DEF Collecting
<1> QED
  BY <1>1 DEF Answered, Collecting

LEMMA MovesType ==
    ASSUME TypeOK, NEW c \in Callers,
           NEW next \in Collecting \cup Pinning \cup Told \cup Listed \cup {Idle}, Moves(c, next)
    PROVE  /\ call' \in [Callers -> Collecting \cup Pinning \cup Told \cup Listed \cup {Idle}]
           /\ call'[c] = next /\ \A d \in Callers : d # c => call'[d] = call[d]
BY DEF TypeOK, Moves

---------------------------------------------------------------------------
(* What is known, and since when. *)

\* Sources holding the object were seen with it, and the others without it.
Now ==
    \A s \in Sources : IF s \in holders THEN present[s] = 0 ELSE absent[s] = 0

\* A cached answer of exists_in is no older than it says.
ExistsAged ==
    \A s \in Sources : exists[s] # None =>
        IF exists[s].result THEN present[s] <= exists[s].age ELSE absent[s] <= exists[s].age

Recent(sources, covered, age) ==
    \A s \in Sources :
        /\ s \in sources => present[s] <= age
        /\ s \in covered \ sources => absent[s] <= age

\* What a call has collected is younger than the TTL, and so is what it was
\* told; an answer of sources_for adds the age of its own cache entry.  An
\* object is asked for at a server, a single source when no server is left.
CallInv(r) ==
    /\ r \in Collecting => /\ Recent(r.found, r.checked, TTL - 1)
                           /\ r.phase = "object" => r.todo # {}
    /\ r \in Pinning /\ r.back # Idle => /\ Recent(r.back.found, r.back.checked, TTL - 1)
                                         /\ r.back.phase = "rest"
    /\ r \in Told => /\ r.result = FALSE => absent[r.source] < TTL
                     /\ r.result = TRUE => present[r.source] < TTL
    /\ r \in Listed /\ r.ok => Recent(r.sources, r.covered, 2 * TTL - 2)

IInv ==
    /\ TypeOK
    /\ Now
    /\ ExistsAged
    /\ found # None => Recent(found.sources, found.covered, found.age + TTL - 1)
    /\ \A c \in Callers : CallInv(call[c])

LEMMA InitIInv == Init => IInv
<1> SUFFICES ASSUME Init
             PROVE  IInv
  OBVIOUS
<1>1. 2 * TTL \in History /\ 0 \in History
  BY LookupAssumption DEF History
<1>2. TypeOK
  BY <1>1 DEF Init, TypeOK
<1>3. \A c \in Callers : CallInv(call[c])
  BY DEF Init, CallInv, Collecting, Pinning, Told, Listed, Idle
<1> QED
  BY <1>2, <1>3 DEF Init, IInv, Now, ExistsAged

---------------------------------------------------------------------------
(* The steps of a caller. *)

LEMMA CollectingInv ==
    ASSUME NEW r \in Collecting, Recent(r.found, r.checked, TTL - 1),
           r.phase # "object" \/ r.todo # {}
    PROVE  CallInv(r)
BY DEF CallInv, Collecting, Pinning, Told, Listed

LEMMA AnsweredInv ==
    ASSUME NEW r \in Collecting, Recent(r.found, r.checked, TTL - 1), r.phase = "rest",
           NEW s \in Sources, NEW result \in BOOLEAN \cup {None},
           result = TRUE => present[s] <= TTL - 1,
           result = FALSE => absent[s] <= TTL - 1
    PROVE  CallInv(Answered(r, s, result))
<1> DEFINE a == Answered(r, s, result)
<1>1. a \in Collecting
  BY AnsweredType
<1>2. /\ a.checked = IF result # None THEN r.checked \cup {s} ELSE r.checked
      /\ a.found = IF result = TRUE THEN r.found \cup {s} ELSE r.found
  BY DEF Answered, Collecting
<1>3. None # TRUE
  BY LookupAssumption
<1>4. /\ r.found \subseteq a.found /\ a.found \subseteq r.found \cup {s}
      /\ a.checked \subseteq r.checked \cup {s}
      /\ s \in a.found /\ s \notin r.found => result = TRUE
      /\ s \in a.checked \ a.found /\ s \notin r.checked => result = FALSE
  BY <1>2, <1>3
<1>5. a.phase = "rest"
  BY DEF Answered, Collecting
<1> HIDE DEF a
<1>6. Recent(a.found, a.checked, TTL - 1)
  BY <1>4 DEF Recent
<1>7. CallInv(a)
  BY <1>1, <1>5, <1>6, CollectingInv
<1> QED
  BY <1>7 DEF a

\* A step that moves one call and tells the caches nothing that is not so.
LEMMA CallerStep ==
    ASSUME IInv, NEW c \in Callers,
           NEW next \in Collecting \cup Pinning \cup Told \cup Listed \cup {Idle},
           Moves(c, next), CallInv(next),
           UNCHANGED <<holders, absent, present>>,
           lists' \in [Servers -> Ages \cup {None}],
           \/ exists' = exists
           \/ \E s \in Sources :
                 exists' = [exists EXCEPT ![s] = [result |-> s \in holders, age |-> 0]],
           \/ found' = found
           \/ \E r \in Collecting :
                 /\ found' = [sources |-> r.found, covered |-> r.checked, age |-> 0]
                 /\ Recent(r.found, r.checked, TTL - 1)
    PROVE  IInv'
<1>1. call' \in [Callers -> Collecting \cup Pinning \cup Told \cup Listed \cup {Idle}]
      /\ call'[c] = next /\ \A d \in Callers : d # c => call'[d] = call[d]
  BY MovesType DEF IInv
<1>2. 0 \in Ages
  BY AgesType
<1>3. exists' \in [Sources -> [result : BOOLEAN, age : Ages] \cup {None}]
  <2>1. \A s \in Sources : [result |-> s \in holders, age |-> 0] \in [result : BOOLEAN, age : Ages]
    BY <1>2
  <2> QED
    BY <2>1 DEF IInv, TypeOK
<1>4. found' \in [sources : SUBSET Sources, covered : SUBSET Sources, age : Ages] \cup {None}
  <2>1. CASE found' = found
    BY <2>1 DEF IInv, TypeOK
  <2>2. ASSUME NEW r \in Collecting,
               found' = [sources |-> r.found, covered |-> r.checked, age |-> 0]
        PROVE  found' \in [sources : SUBSET Sources, covered : SUBSET Sources, age : Ages]
    <3>1. r.found \in SUBSET Sources /\ r.checked \in SUBSET Sources
      BY DEF Collecting
    <3> QED
      BY <1>2, <2>2, <3>1
  <2> QED
    BY <2>1, <2>2
<1>5. TypeOK'
  BY <1>1, <1>3, <1>4 DEF IInv, TypeOK
<1>6. Now'
  BY DEF IInv, Now
<1>7. ExistsAged'
  <2>1. CASE exists' = exists
    BY <2>1 DEF IInv, ExistsAged
  <2>2. ASSUME NEW s \in Sources,
               exists' = [exists EXCEPT ![s] = [result |-> s \in holders, age |-> 0]]
        PROVE  ExistsAged'
    <3>1. exists \in [Sources -> [result : BOOLEAN, age : Ages] \cup {None}]
      BY DEF IInv, TypeOK
    <3>2. exists'[s].result = (s \in holders) /\ exists'[s].age = 0
      BY <2>2, <3>1
    <3>3. \A t \in Sources : t # s => exists'[t] = exists[t]
      BY <2>2, <3>1
    <3>4. IF s \in holders THEN present[s] <= 0 ELSE absent[s] <= 0
      BY DEF IInv, Now
    <3>5. IF exists'[s].result THEN present[s] <= exists'[s].age ELSE absent[s] <= exists'[s].age
      BY <3>2, <3>4
    <3> QED
      BY <3>3, <3>5 DEF IInv, ExistsAged
  <2> QED
    BY <2>1, <2>2
<1>8. (found # None => Recent(found.sources, found.covered, found.age + TTL - 1))'
  <2>1. CASE found' = found
    BY <2>1 DEF IInv, Recent
  <2>2. ASSUME NEW r \in Collecting,
               found' = [sources |-> r.found, covered |-> r.checked, age |-> 0],
               Recent(r.found, r.checked, TTL - 1)
        PROVE  Recent(found.sources, found.covered, found.age + TTL - 1)'
    <3>1. found'.sources = r.found /\ found'.covered = r.checked /\ found'.age + TTL - 1 = TTL - 1
      BY <2>2, LookupAssumption
    <3> QED
      BY <2>2, <3>1 DEF Recent
  <2> QED
    BY <2>1, <2>2
<1>9. \A d \in Callers : CallInv(call[d])'
  <2> SUFFICES ASSUME NEW d \in Callers
               PROVE  CallInv(call[d])'
    OBVIOUS
  <2>1. CASE d = c
    BY <1>1, <2>1 DEF CallInv, Recent
  <2>2. CASE d # c
    BY <1>1, <2>2 DEF IInv, CallInv, Recent
  <2> QED
    BY <2>1, <2>2
<1> QED
  BY <1>5, <1>6, <1>7, <1>8, <1>9 DEF IInv

LEMMA LearnedType ==
    ASSUME TypeOK, NEW k \in Servers, NEW listed \in BOOLEAN
    PROVE  Learned(k, listed) \in [Servers -> Ages \cup {None}]
BY AgesType DEF TypeOK, Learned

\* The first steps of sources_for: a server is asked, or all were.
LEMMA CollectIInv ==
    ASSUME IInv, NEW c \in Callers,
           ListMirrors(c) \/ QueryObject(c) \/ AskRest(c)
    PROVE  IInv'
<1> DEFINE r == call[c]
           k == First(r.todo)
<1>1. r \in Collecting /\ Recent(r.found, r.checked, TTL - 1)
  BY Shapes DEF ListMirrors, QueryObject, AskRest, IInv, CallInv
<1>2. r.todo # {} => k \in Servers /\ Mirrors[k] \in SUBSET Sources
  <2>1. r.todo \in SUBSET Servers /\ Servers \subseteq Nat
    BY <1>1, LookupAssumption DEF Collecting
  <2>2. r.todo # {} => First(r.todo) \in Servers
    BY <2>1, FirstIsIn
  <2> QED
    BY <2>2, LookupAssumption
<1>4. lists \in [Servers -> Ages \cup {None}]
  BY DEF IInv, TypeOK
<1>5. CASE ListMirrors(c)
  <2>1. PICK listed \in BOOLEAN :
          /\ lists' = Learned(k, listed)
          /\ \/ Moves(c, [r EXCEPT !.phase = "object", !.reachable = @ \cup Mirrors[k]])
             \/ Moves(c, [r EXCEPT !.todo = @ \ {k}])
    BY <1>5 DEF ListMirrors, Listable
  <2>2. k \in Servers /\ Mirrors[k] \in SUBSET Sources
    BY <1>2, <1>5 DEF ListMirrors
  <2>3. lists' \in [Servers -> Ages \cup {None}]
    BY <2>1, <2>2, LearnedType DEF IInv
  <2>4. /\ [r EXCEPT !.phase = "object", !.reachable = @ \cup Mirrors[k]] \in Collecting
        /\ [r EXCEPT !.todo = @ \ {k}] \in Collecting
    BY <1>1, <2>2 DEF Collecting
  <2>5. /\ CallInv([r EXCEPT !.phase = "object", !.reachable = @ \cup Mirrors[k]])
        /\ CallInv([r EXCEPT !.todo = @ \ {k}])
    <3> DEFINE object == [r EXCEPT !.phase = "object", !.reachable = @ \cup Mirrors[k]]
               skipped == [r EXCEPT !.todo = @ \ {k}]
    <3>1. r.phase = "list" /\ r.todo # {}
      BY <1>5 DEF ListMirrors
    <3>2. object.todo = r.todo /\ object.found = r.found /\ object.checked = r.checked
      BY <1>1 DEF Collecting
    <3>3. skipped.phase = "list" /\ skipped.found = r.found /\ skipped.checked = r.checked
      BY <1>1, <3>1 DEF Collecting
    <3>4. object \in Collecting /\ skipped \in Collecting
      BY <2>4
    <3> HIDE DEF object, skipped
    <3>5. CallInv(object) /\ CallInv(skipped)
      BY <1>1, CollectingInv, <3>1, <3>2, <3>3, <3>4
    <3> QED
      BY <3>5 DEF object, skipped
  <2>6. UNCHANGED <<holders, exists, found, absent, present>>
    BY <1>5 DEF ListMirrors
  <2> QED
    BY <2>1, <2>3, <2>4, <2>5, <2>6, CallerStep
<1>6. CASE QueryObject(c)
  <2> DEFINE next == [r EXCEPT !.phase = "list", !.todo = @ \ {k}]
             failed == [next EXCEPT !.unresolved = @ \cup Mirrors[k]]
             answered == [next EXCEPT !.checked = @ \cup Mirrors[k],
                                      !.found = @ \cup (Mirrors[k] \cap holders)]
  <2>1. Moves(c, failed) \/ Moves(c, answered)
    BY <1>6 DEF QueryObject
  <2>2. r.todo # {}
    BY <1>1, <1>6 DEF QueryObject, IInv, CallInv
  <2> QED
    <3>1. k \in Servers /\ Mirrors[k] \in SUBSET Sources /\ holders \in SUBSET Sources
      BY <1>2, <2>2 DEF IInv, TypeOK
    <3>2. /\ next \in Collecting /\ next.checked = r.checked /\ next.found = r.found
          /\ next.phase = "list"
      BY <1>1 DEF Collecting
    <3>3. /\ failed \in Collecting /\ failed.checked = r.checked /\ failed.found = r.found
          /\ failed.phase = "list"
      BY <3>1, <3>2 DEF Collecting
    <3>4. /\ answered \in Collecting
          /\ answered.phase = "list"
          /\ answered.checked = r.checked \cup Mirrors[k]
          /\ answered.found = r.found \cup (Mirrors[k] \cap holders)
      BY <3>1, <3>2 DEF Collecting
    <3>5. Recent(answered.found, answered.checked, TTL - 1)
      <4>1. 0 <= TTL - 1
        BY LookupAssumption
      <4> HIDE DEF answered
      <4> QED
        BY <1>1, <3>4, <4>1 DEF IInv, Now, Recent
    <3>6. UNCHANGED <<holders, lists, exists, found, absent, present>>
      BY <1>6 DEF QueryObject
    <3> HIDE DEF failed, answered
    <3>7. CallInv(failed) /\ CallInv(answered)
      BY <1>1, CollectingInv, <3>3, <3>4, <3>5
    <3> QED
      BY <1>4, <2>1, <3>3, <3>4, <3>6, <3>7, CallerStep
<1>7. CASE AskRest(c)
  <2> DEFINE next == [r EXCEPT !.phase = "rest", !.unresolved = @ \ r.checked]
  <2>1. Moves(c, next)
    BY <1>7 DEF AskRest
  <2>2. /\ next \in Collecting /\ next.checked = r.checked /\ next.found = r.found
        /\ next.phase = "rest"
    BY <1>1 DEF Collecting
  <2>3. UNCHANGED <<holders, lists, exists, found, absent, present>>
    BY <1>7 DEF AskRest
  <2> HIDE DEF next
  <2>4. CallInv(next)
    BY <1>1, CollectingInv, <2>2
  <2> QED
    BY <1>4, <2>1, <2>2, <2>3, <2>4, CallerStep
<1> QED
  BY <1>5, <1>6, <1>7

\* exists_in tells its caller, or sources_for, what is so.
LEMMA ReturnInv ==
    ASSUME IInv, NEW c \in Callers, call[c] \in Pinning,
           NEW result \in BOOLEAN \cup {None}, Return(c, result),
           result = TRUE => present[call[c].source] <= TTL - 1,
           result = FALSE => absent[call[c].source] <= TTL - 1
    PROVE  \E next \in Collecting \cup Told : Moves(c, next) /\ CallInv(next)
<1> DEFINE s == call[c].source
<1>1. s \in Sources /\ call[c].back \in Collecting \cup {Idle}
  BY DEF Pinning
<1>2. CASE call[c].back = Idle
  <2> DEFINE told == [phase |-> "told", source |-> s, result |-> result]
  <2>1. Moves(c, told) /\ told \in Told
    BY <1>1, <1>2 DEF Return, Told
  <2>2. present[s] \in Nat /\ absent[s] \in Nat /\ TTL \in Nat
    BY <1>1, LookupAssumption DEF IInv, TypeOK, History
  <2>3. CallInv(told)
    BY <1>1, <2>2 DEF CallInv, Collecting, Pinning, Told, Listed
  <2> QED
    BY <2>1, <2>3
<1>3. CASE call[c].back # Idle
  <2>1. /\ call[c].back \in Collecting /\ call[c].back.phase = "rest"
        /\ Recent(call[c].back.found, call[c].back.checked, TTL - 1)
    BY <1>1, <1>3 DEF IInv, CallInv
  <2>2. Moves(c, Answered(call[c].back, s, result))
    BY <1>3 DEF Return
  <2>3. CallInv(Answered(call[c].back, s, result))
    BY <1>1, <2>1, AnsweredInv
  <2>4. Answered(call[c].back, s, result) \in Collecting
    BY <1>1, <2>1, AnsweredType
  <2> QED
    BY <2>2, <2>3, <2>4
<1> QED
  BY <1>2, <1>3

\* A cached answer of exists_in is younger than the TTL.
LEMMA CachedIsRecent ==
    ASSUME IInv, NEW s \in Sources, exists[s] # None
    PROVE  /\ exists[s].result \in BOOLEAN
           /\ exists[s].result = TRUE => present[s] <= TTL - 1
           /\ exists[s].result = FALSE => absent[s] <= TTL - 1
<1>1. exists[s] \in [result : BOOLEAN, age : Ages]
  BY DEF IInv, TypeOK
<1>2. exists[s].age <= TTL - 1 /\ exists[s].age \in Int /\ present[s] \in Int /\ absent[s] \in Int
  BY <1>1, LookupAssumption DEF Ages, IInv, TypeOK, History
<1> QED
  BY <1>1, <1>2, LookupAssumption DEF IInv, ExistsAged

LEMMA ListsType == IInv => lists \in [Servers -> Ages \cup {None}]
BY DEF IInv, TypeOK

LEMMA PinNextIInv ==
    ASSUME IInv, NEW c \in Callers, PinNext(c)
    PROVE  IInv'
<1> DEFINE r == call[c]
           s == First(r.unresolved)
<1>1. r \in Collecting /\ Recent(r.found, r.checked, TTL - 1) /\ r.phase = "rest"
  BY Shapes DEF PinNext, IInv, CallInv
<1>2. s \in Sources
  <2>1. r.unresolved \in SUBSET Nat /\ r.unresolved # {} /\ r.unresolved \in SUBSET Sources
    BY <1>1, LookupAssumption DEF Collecting, PinNext
  <2> QED
    BY <2>1, FirstIsIn
<1>3. UNCHANGED <<holders, lists, exists, found, absent, present>>
  BY DEF PinNext
<1>4. CASE exists[s] # None
  <2> DEFINE next == Answered(r, s, exists[s].result)
  <2>1. Moves(c, next)
    BY <1>4 DEF PinNext
  <2>2. next \in Collecting
    BY <1>1, <1>2, AnsweredType
  <2>3. CallInv(next)
    BY <1>1, <1>2, <1>4, CachedIsRecent, AnsweredInv
  <2> HIDE DEF next
  <2> QED
    BY <1>3, <2>1, <2>2, <2>3, ListsType, CallerStep
<1>5. CASE exists[s] = None
  <2> DEFINE next == [phase |-> "pinned", source |-> s, todo |-> Servers, back |-> r]
  <2>1. Moves(c, next)
    BY <1>5 DEF PinNext
  <2>2. next \in Pinning
    BY <1>1, <1>2 DEF Pinning
  <2>3. CallInv(next)
    BY <1>1, <2>2 DEF CallInv, Collecting, Pinning, Told, Listed
  <2> HIDE DEF next
  <2> QED
    BY <1>3, <2>1, <2>2, <2>3, ListsType, CallerStep
<1> QED
  BY <1>4, <1>5

LEMMA QueryPinnedIInv ==
    ASSUME IInv, NEW c \in Callers, QueryPinned(c)
    PROVE  IInv'
<1> DEFINE r == call[c]
           k == First(r.todo)
           s == r.source
           onward == [r EXCEPT !.todo = @ \ {k}]
<1>1. r \in Pinning /\ r.phase = "pinned" /\ CallInv(r)
  BY Shapes DEF QueryPinned, IInv
<1>2. k \in Servers /\ s \in Sources /\ r.todo \in SUBSET Servers /\ r.back \in Collecting \cup {Idle}
  <2>1. r.todo \in SUBSET Servers /\ Servers \subseteq Nat /\ r.todo # {}
    BY <1>1, LookupAssumption DEF Pinning, QueryPinned
  <2>2. First(r.todo) \in Servers
    BY <2>1, FirstIsIn
  <2> QED
    BY <1>1, <2>1, <2>2 DEF Pinning
<1>3. PICK listed \in BOOLEAN :
        /\ lists' = Learned(k, listed)
        /\ \/ /\ Moves(c, onward)
              /\ UNCHANGED exists
           \/ /\ listed => s \in Mirrors[k]
              /\ Trusted(listed, Finds(k, s))
              /\ Return(c, Finds(k, s))
              /\ exists' = [exists EXCEPT ![s] = [result |-> Finds(k, s), age |-> 0]]
  BY DEF QueryPinned, Listable
<1>4. lists' \in [Servers -> Ages \cup {None}]
  BY <1>2, <1>3, LearnedType DEF IInv
<1>5. UNCHANGED <<holders, found, absent, present>>
  BY DEF QueryPinned
<1>6. CASE Moves(c, onward) /\ UNCHANGED exists
  <2>1. onward \in Pinning /\ onward.back = r.back
    BY <1>1, <1>2 DEF Pinning
  <2> HIDE DEF onward
  <2>2. CallInv(onward)
    BY <1>1, <2>1 DEF CallInv, Collecting, Pinning, Told, Listed
  <2> QED
    BY <1>4, <1>5, <1>6, <2>1, <2>2, CallerStep
<1>7. CASE /\ listed => s \in Mirrors[k]
           /\ Trusted(listed, Finds(k, s))
           /\ Return(c, Finds(k, s))
           /\ exists' = [exists EXCEPT ![s] = [result |-> Finds(k, s), age |-> 0]]
  <2>1. Finds(k, s) = (s \in holders)
    BY <1>7 DEF Trusted, Finds
  <2>2. exists' = [exists EXCEPT ![s] = [result |-> s \in holders, age |-> 0]]
    BY <1>7, <2>1
  <2>3. Return(c, s \in holders)
    BY <1>7, <2>1
  <2>4. IF s \in holders THEN present[s] <= TTL - 1 ELSE absent[s] <= TTL - 1
    BY <1>2, LookupAssumption DEF IInv, Now
  <2>5. PICK next \in Collecting \cup Told : Moves(c, next) /\ CallInv(next)
    <3> DEFINE held == s \in holders
    <3>1. /\ held \in BOOLEAN \cup {None}
          /\ held = TRUE => present[s] <= TTL - 1
          /\ held = FALSE => absent[s] <= TTL - 1
      BY <2>4
    <3>2. Return(c, held)
      BY <2>3
    <3> HIDE DEF held
    <3> QED
      BY <1>1, <3>1, <3>2, ReturnInv
  <2> QED
    BY <1>2, <1>4, <1>5, <2>2, <2>5, CallerStep
<1> QED
  BY <1>3, <1>6, <1>7

LEMMA ReturnSourcesIInv ==
    ASSUME IInv, NEW c \in Callers, ReturnSources(c)
    PROVE  IInv'
<1> DEFINE r == call[c]
           next == [phase |-> "listed", ok |-> Complete(r),
                    sources |-> IF r.reachable = {} THEN {} ELSE r.found,
                    covered |-> r.reachable]
<1>1. r \in Collecting /\ Recent(r.found, r.checked, TTL - 1)
  BY Shapes DEF ReturnSources, IInv, CallInv
<1>2. Moves(c, next) /\ UNCHANGED <<holders, lists, exists, absent, present>>
  BY DEF ReturnSources
<1>3. next \in Listed
  BY <1>1 DEF Collecting, Listed, Complete
<1>4. /\ next.ok => Complete(r) /\ next.sources = r.found /\ next.covered = r.checked
  BY DEF Complete
<1>5. Recent(r.found, r.checked, 2 * TTL - 2)
  <2>1. \A t \in Sources : present[t] \in Int /\ absent[t] \in Int
    BY DEF IInv, TypeOK, History
  <2> QED
    BY <1>1, <2>1, LookupAssumption DEF Recent
<1>6. CallInv(next)
  <2> HIDE DEF next
  <2> QED
    BY <1>3, <1>4, <1>5 DEF CallInv, Collecting, Pinning, Told, Listed
<1>7. \/ found' = found
      \/ found' = [sources |-> r.found, covered |-> r.checked, age |-> 0]
  BY DEF ReturnSources, Complete
<1> HIDE DEF next
<1> QED
  BY <1>1, <1>2, <1>3, <1>6, <1>7, ListsType, CallerStep

\* A call begins, ends, or gives up.
LEMMA OtherStepsIInv ==
    ASSUME IInv, NEW c \in Callers,
           \/ StartSourcesFor(c) \/ ReturnUnknown(c) \/ Done(c)
           \/ \E s \in Sources : StartExistsIn(c, s)
    PROVE  IInv'
<1>1. UNCHANGED <<holders, lists, exists, found, absent, present>>
  BY DEF StartSourcesFor, ReturnUnknown, Done, StartExistsIn
<1>2. CASE StartSourcesFor(c)
  <2>1. CASE found # None
    <3> DEFINE next == [phase |-> "listed", ok |-> TRUE, sources |-> found.sources,
                        covered |-> found.covered]
    <3>1. Moves(c, next)
      BY <1>2, <2>1 DEF StartSourcesFor
    <3>2. found \in [sources : SUBSET Sources, covered : SUBSET Sources, age : Ages]
      BY <2>1 DEF IInv, TypeOK
    <3>3. next \in Listed
      BY <3>2 DEF Listed
    <3>4. Recent(found.sources, found.covered, 2 * TTL - 2)
      <4>1. Recent(found.sources, found.covered, found.age + TTL - 1)
        BY <2>1 DEF IInv
      <4>2. found.age \in Int /\ found.age <= TTL - 1 /\ TTL \in Int
        BY <3>2, LookupAssumption DEF Ages
      <4>3. \A t \in Sources : present[t] \in Int /\ absent[t] \in Int
        BY DEF IInv, TypeOK, History
      <4> QED
        BY <4>1, <4>2, <4>3 DEF Recent
    <3>5. next.sources = found.sources /\ next.covered = found.covered
      OBVIOUS
    <3> HIDE DEF next
    <3>6. CallInv(next)
      BY <3>3, <3>4, <3>5 DEF CallInv, Collecting, Pinning, Told, Listed
    <3> QED
      BY <1>1, <3>1, <3>3, <3>6, ListsType, CallerStep
  <2>2. CASE found = None
    <3> DEFINE next == [phase |-> "list", todo |-> Servers, reachable |-> {},
                        checked |-> {}, unresolved |-> {}, found |-> {}]
    <3>1. Moves(c, next)
      BY <1>2, <2>2 DEF StartSourcesFor
    <3>2. next \in Collecting /\ next.phase = "list" /\ next.found = {} /\ next.checked = {}
      BY DEF Collecting
    <3> HIDE DEF next
    <3>3. Recent(next.found, next.checked, TTL - 1)
      BY <3>2 DEF Recent
    <3>4. CallInv(next)
      BY <3>2, <3>3, CollectingInv
    <3> QED
      BY <1>1, <3>1, <3>2, <3>4, ListsType, CallerStep
  <2> QED
    BY <2>1, <2>2
<1>3. CASE ReturnUnknown(c)
  <2>1. call[c] \in Pinning /\ Return(c, None)
    BY <1>3, Shapes DEF ReturnUnknown, IInv
  <2>2. None # TRUE /\ None # FALSE
    BY LookupAssumption
  <2>3. PICK next \in Collecting \cup Told : Moves(c, next) /\ CallInv(next)
    BY <2>1, <2>2, ReturnInv
  <2> QED
    BY <1>1, <2>3, ListsType, CallerStep
<1>4. CASE Done(c)
  <2>1. Moves(c, Idle) /\ CallInv(Idle)
    BY <1>4 DEF Done, CallInv, Collecting, Pinning, Told, Listed, Idle
  <2> QED
    BY <1>1, <2>1, ListsType, CallerStep
<1>5. ASSUME NEW s \in Sources, StartExistsIn(c, s)
      PROVE  IInv'
  <2>1. CASE exists[s] # None
    <3> DEFINE next == [phase |-> "told", source |-> s, result |-> exists[s].result]
    <3>1. Moves(c, next)
      BY <1>5, <2>1 DEF StartExistsIn
    <3>2. next \in Told
      BY <2>1, CachedIsRecent DEF Told
    <3>3. TTL \in Nat /\ present[s] \in Int /\ absent[s] \in Int
      BY LookupAssumption DEF IInv, TypeOK, History
    <3>4. next.source = s /\ next.result = exists[s].result
      OBVIOUS
    <3> HIDE DEF next
    <3>5. /\ next.result = TRUE => present[next.source] < TTL
          /\ next.result = FALSE => absent[next.source] < TTL
      <4>1. /\ exists[s].result = TRUE => present[s] <= TTL - 1
            /\ exists[s].result = FALSE => absent[s] <= TTL - 1
        BY <2>1, CachedIsRecent
      <4> QED
        BY <3>3, <3>4, <4>1
    <3>6. CallInv(next)
      BY <3>2, <3>5 DEF CallInv, Collecting, Pinning, Told, Listed
    <3> QED
      BY <1>1, <3>1, <3>2, <3>6, ListsType, CallerStep
  <2>2. CASE exists[s] = None
    <3> DEFINE next == [phase |-> "pinned", source |-> s, todo |-> Servers, back |-> Idle]
    <3>1. Moves(c, next)
      BY <1>5, <2>2 DEF StartExistsIn
    <3>2. next \in Pinning /\ next.back = Idle
      BY DEF Pinning
    <3> HIDE DEF next
    <3>3. CallInv(next)
      BY <3>2 DEF CallInv, Collecting, Pinning, Told, Listed
    <3> QED
      BY <1>1, <3>1, <3>2, <3>3, ListsType, CallerStep
  <2> QED
    BY <2>1, <2>2
<1> QED
  BY <1>2, <1>3, <1>4, <1>5

---------------------------------------------------------------------------
(* The registries change and time passes. *)

LEMMA ChangeIInv ==
    ASSUME IInv, NEW s \in Sources, Change(s)
    PROVE  IInv'
<1>1. UNCHANGED <<lists, exists, found, call>>
  BY DEF Change
<1>2. /\ holders' \in SUBSET Sources
      /\ s \in holders' <=> s \notin holders
      /\ \A t \in Sources : t # s => (t \in holders' <=> t \in holders)
  BY DEF Change, IInv, TypeOK
<1>3. absent \in [Sources -> History] /\ present \in [Sources -> History] /\ 0 \in History
  BY AgesType DEF IInv, TypeOK
<1>4. absent' \in [Sources -> History] /\ present' \in [Sources -> History]
  BY <1>3 DEF Change
<1>5. IF s \in holders THEN absent'[s] = 0 /\ present' = present
                       ELSE present'[s] = 0 /\ absent' = absent
  BY <1>3 DEF Change
<1>6. \A t \in Sources : t # s => absent'[t] = absent[t] /\ present'[t] = present[t]
  BY <1>3 DEF Change
<1>7. \A t \in Sources : /\ present[t] \in Nat /\ absent[t] \in Nat
                         /\ present'[t] \in Nat /\ absent'[t] \in Nat
                         /\ present'[t] <= present[t] /\ absent'[t] <= absent[t]
  BY <1>3, <1>4, <1>5, <1>6, LookupAssumption DEF History
<1>8. TypeOK'
  BY <1>1, <1>2, <1>4 DEF IInv, TypeOK
<1>9. Now'
  BY <1>2, <1>5, <1>6 DEF IInv, Now
<1>10. ExistsAged'
  <2>1. \A t \in Sources : exists[t] # None => exists[t].age \in Int
    BY DEF IInv, TypeOK, Ages
  <2> QED
    BY <1>1, <1>7, <2>1 DEF IInv, ExistsAged
<1>11. TTL - 1 \in Int /\ 2 * TTL - 2 \in Int /\ TTL \in Int
  BY LookupAssumption
<1>12. (found # None => Recent(found.sources, found.covered, found.age + TTL - 1))'
  <2>1. CASE found # None
    <3>1. found.age + TTL - 1 \in Int
      BY <2>1, <1>11 DEF IInv, TypeOK, Ages
    <3>2. Recent(found.sources, found.covered, found.age + TTL - 1)
      BY <2>1 DEF IInv
    <3> QED
      BY <1>1, <1>7, <3>1, <3>2 DEF Recent
  <2>2. CASE found = None
    BY <1>1, <2>2
  <2> QED
    BY <2>1, <2>2
<1>13. \A c \in Callers : CallInv(call[c])'
  <2> SUFFICES ASSUME NEW c \in Callers
               PROVE  CallInv(call[c])'
    OBVIOUS
  <2>1. CallInv(call[c]) /\ call'[c] = call[c]
    BY <1>1 DEF IInv
  <2>2. call[c] \in Told => call[c].source \in Sources
    BY DEF Told
  <2>3. call[c] \in Told => /\ call[c].result = FALSE => absent'[call[c].source] < TTL
                            /\ call[c].result = TRUE => present'[call[c].source] < TTL
    BY <1>7, <1>11, <2>1, <2>2 DEF CallInv
  <2>4. /\ Recent(call[c].found, call[c].checked, TTL - 1)
             => Recent(call[c].found, call[c].checked, TTL - 1)'
        /\ Recent(call[c].back.found, call[c].back.checked, TTL - 1)
             => Recent(call[c].back.found, call[c].back.checked, TTL - 1)'
        /\ Recent(call[c].sources, call[c].covered, 2 * TTL - 2)
             => Recent(call[c].sources, call[c].covered, 2 * TTL - 2)'
    BY <1>1, <1>7, <1>11 DEF Recent
  <2> QED
    BY <2>1, <2>3, <2>4 DEF CallInv
<1> QED
  BY <1>8, <1>9, <1>10, <1>12, <1>13 DEF IInv

LEMMA TickIInv ==
    ASSUME IInv, Tick
    PROVE  IInv'
<1>1. UNCHANGED <<holders, call>> /\ \A c \in Callers : call[c] = Idle
  BY DEF Tick
<1>2. absent \in [Sources -> History] /\ present \in [Sources -> History] /\ 0 \in History
  BY AgesType DEF IInv, TypeOK
<1>3. absent' \in [Sources -> History] /\ present' \in [Sources -> History]
  BY <1>2, AgesType DEF Tick
<1>4. \A t \in Sources : /\ present[t] \in Nat /\ absent[t] \in Nat
                         /\ present'[t] \in Nat /\ absent'[t] \in Nat
                         /\ present'[t] <= present[t] + 1 /\ absent'[t] <= absent[t] + 1
                         /\ IF t \in holders THEN present'[t] = 0 ELSE absent'[t] = 0
  BY <1>2, AgesType, LookupAssumption DEF Tick, History
<1>5. lists' \in [Servers -> Ages \cup {None}]
  BY AgesType DEF Tick, IInv, TypeOK
<1>6. ASSUME NEW t \in Sources
      PROVE  /\ exists'[t] \in [result : BOOLEAN, age : Ages] \cup {None}
             /\ exists'[t] # None => /\ exists[t] # None
                                     /\ exists'[t].result = exists[t].result
                                     /\ exists'[t].age = exists[t].age + 1
                                     /\ exists[t].age \in Int
  <2>1. CASE exists[t] # None /\ Kept(exists[t].age)
    <3>1. exists[t] \in [result : BOOLEAN, age : Ages]
      BY <2>1 DEF IInv, TypeOK
    <3>2. exists'[t] = [exists[t] EXCEPT !.age = @ + 1]
      BY <2>1 DEF Tick
    <3>3. exists[t].age + 1 \in Ages
      BY <2>1, <3>1, AgesType
    <3>4. exists[t].age \in Int
      BY <3>1 DEF Ages
    <3> QED
      BY <2>1, <3>1, <3>2, <3>3, <3>4
  <2>2. CASE ~(exists[t] # None /\ Kept(exists[t].age))
    BY <2>2 DEF Tick
  <2> QED
    BY <2>1, <2>2
<1>7. /\ found' \in [sources : SUBSET Sources, covered : SUBSET Sources, age : Ages] \cup {None}
      /\ found' # None => /\ found # None
                          /\ found'.sources = found.sources /\ found'.covered = found.covered
                          /\ found'.age = found.age + 1 /\ found.age \in Int
  <2>1. CASE found # None /\ Kept(found.age)
    <3>1. found \in [sources : SUBSET Sources, covered : SUBSET Sources, age : Ages]
      BY <2>1 DEF IInv, TypeOK
    <3>2. found' = [found EXCEPT !.age = @ + 1]
      BY <2>1 DEF Tick
    <3>3. found.age + 1 \in Ages /\ found.age \in Int
      BY <2>1, <3>1, AgesType DEF Ages
    <3> QED
      BY <2>1, <3>1, <3>2, <3>3
  <2>2. CASE ~(found # None /\ Kept(found.age))
    BY <2>2 DEF Tick
  <2> QED
    BY <2>1, <2>2
<1>8. exists' \in [Sources -> [result : BOOLEAN, age : Ages] \cup {None}]
  BY <1>6 DEF Tick
<1>9. TypeOK'
  BY <1>1, <1>3, <1>5, <1>7, <1>8 DEF IInv, TypeOK
<1>10. Now'
  BY <1>1, <1>4 DEF Now
<1>11. ExistsAged'
  BY <1>4, <1>6 DEF IInv, ExistsAged
<1>12. (found # None => Recent(found.sources, found.covered, found.age + TTL - 1))'
  <2> SUFFICES ASSUME found' # None
               PROVE  Recent(found.sources, found.covered, found.age + TTL - 1)'
    OBVIOUS
  <2>1. Recent(found.sources, found.covered, found.age + TTL - 1)
    BY <1>7 DEF IInv
  <2>2. found'.age + TTL - 1 = (found.age + TTL - 1) + 1 /\ found.age + TTL - 1 \in Int
    BY <1>7, LookupAssumption
  <2> QED
    BY <1>4, <1>7, <2>1, <2>2 DEF Recent
<1>13. \A c \in Callers : CallInv(call[c])'
  BY <1>1 DEF CallInv, Collecting, Pinning, Told, Listed, Idle
<1> QED
  BY <1>9, <1>10, <1>11, <1>12, <1>13 DEF IInv

LEMMA NextIInv == IInv /\ [Next]_vars => IInv'
<1>1. IInv /\ UNCHANGED vars => IInv'
  BY DEF vars, IInv, TypeOK, Now, ExistsAged, Recent, CallInv
<1> QED
  BY <1>1, CollectIInv, PinNextIInv, QueryPinnedIInv, ReturnSourcesIInv, OtherStepsIInv,
     ChangeIInv, TickIInv DEF Next, Step

LEMMA InductiveHolds == Spec => []IInv
BY InitIInv, NextIInv, PTL DEF Spec

---------------------------------------------------------------------------
(* The theorems. *)

\* The variables keep their types, for any servers, mirrors and lifetimes.
THEOREM TypeCorrect == Spec => []TypeOK
<1>1. IInv => TypeOK
  BY DEF IInv
<1> QED
  BY <1>1, InductiveHolds, PTL

\* A False of exists_in, on which a value is rejected, means that the registry
\* lacked the object less than the TTL ago, for any servers, mirrors and
\* number of lookups at once; a True, that it held it.
THEOREM ToldIsRecentHolds == Spec => []ToldIsRecent
<1>1. IInv => ToldIsRecent
  BY Shapes DEF IInv, CallInv, ToldIsRecent
<1> QED
  BY <1>1, InductiveHolds, PTL

\* An answer of sources_for with ok is definitive for every registry of the
\* servers it reached, and less than twice the TTL old.
THEOREM ListedIsDefinitiveHolds == Spec => []ListedIsDefinitive
<1>1. IInv => ListedIsDefinitive
  <2> SUFFICES ASSUME IInv, NEW c \in Callers, call[c].phase = "listed", call[c].ok,
                      NEW s \in call[c].covered
               PROVE  IF s \in call[c].sources THEN present[s] < 2 * TTL - 1
                                              ELSE absent[s] < 2 * TTL - 1
    BY DEF ListedIsDefinitive
  <2>1. call[c] \in Listed /\ Recent(call[c].sources, call[c].covered, 2 * TTL - 2)
    BY Shapes DEF IInv, CallInv
  <2>2. s \in Sources
    BY <2>1 DEF Listed
  <2>3. present[s] \in Int /\ absent[s] \in Int /\ TTL \in Int
    BY <2>2, LookupAssumption DEF IInv, TypeOK, History
  <2> QED
    BY <2>1, <2>2, <2>3 DEF Recent
<1> QED
  BY <1>1, InductiveHolds, PTL
===========================================================================
