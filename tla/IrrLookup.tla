----------------------------- MODULE IrrLookup -----------------------------
(***************************************************************************)
(* Lookups of one IRR object in the pool of whois mirrors (irr.py): which  *)
(* registries hold it (sources_for) and whether one of them does           *)
(* (exists_in).  Any query may fail.  Mirror lists and answers are cached  *)
(* for IRR_LOOKUP_CACHE_TTL, and the registries change between any two     *)
(* queries.  The mirrors are taken to be in step with the registries.      *)
(***************************************************************************)
EXTENDS Integers, FiniteSets

CONSTANTS
    Servers,  \* IRR_LOOKUP_SERVERS, numbered in the order they are asked
    Sources,  \* IRR_SOURCE, numbered in the order of their names
    Mirrors,  \* the sources each server carries
    Callers,  \* requests and batch jobs at work at once
    TTL,      \* IRR_LOOKUP_CACHE_TTL, in ticks
    None

ASSUME LookupAssumption ==
    /\ Servers \subseteq Nat /\ Sources \subseteq Nat
    /\ Mirrors \in [Servers -> SUBSET Sources]
    /\ TTL \in Nat \ {0}
    /\ None \notin Nat \cup BOOLEAN

VARIABLES
    holders,  \* the registries that hold the object
    lists,    \* cached mirror lists: their age, None when there is none
    exists,   \* cached answers of exists_in
    found,    \* the cached answer of sources_for
    call,     \* what each caller is doing
    absent,   \* ticks since each registry last lacked the object (history)
    present   \* and since it last held it (history)

vars == <<holders, lists, exists, found, call, absent, present>>

Ages == 0..TTL - 1
History == 0..2 * TTL

Idle == [phase |-> "idle"]

\* sources_for: the servers still to ask, and what it has learned so far.
Collecting == [phase : {"list", "object", "rest"}, todo : SUBSET Servers,
               reachable : SUBSET Sources, checked : SUBSET Sources,
               unresolved : SUBSET Sources, found : SUBSET Sources]

\* exists_in: the same for one source, with the call it returns to.
Pinning == [phase : {"pinned"}, source : Sources, todo : SUBSET Servers,
            back : Collecting \cup {Idle}]

\* The result of exists_in (True, False, or None) and of sources_for.
Told == [phase : {"told"}, source : Sources, result : BOOLEAN \cup {None}]
Listed == [phase : {"listed"}, ok : BOOLEAN, sources : SUBSET Sources,
           covered : SUBSET Sources]

TypeOK ==
    /\ holders \in SUBSET Sources
    /\ lists \in [Servers -> Ages \cup {None}]
    /\ exists \in [Sources -> [result : BOOLEAN, age : Ages] \cup {None}]
    /\ found \in [sources : SUBSET Sources, covered : SUBSET Sources, age : Ages]
                    \cup {None}
    /\ call \in [Callers -> Collecting \cup Pinning \cup Told \cup Listed \cup {Idle}]
    /\ absent \in [Sources -> History]
    /\ present \in [Sources -> History]

Init ==
    /\ holders \in SUBSET Sources
    /\ lists = [k \in Servers |-> None]
    /\ exists = [s \in Sources |-> None]
    /\ found = None
    /\ call = [c \in Callers |-> Idle]
    /\ absent = [s \in Sources |-> IF s \in holders THEN 2 * TTL ELSE 0]
    /\ present = [s \in Sources |-> IF s \in holders THEN 0 ELSE 2 * TTL]

First(S) == CHOOSE x \in S : \A y \in S : x <= y

Moves(c, next) == call' = [call EXCEPT ![c] = next]

---------------------------------------------------------------------------
(* sources_for *)

StartSourcesFor(c) ==
    /\ call[c] = Idle
    /\ IF found # None
       THEN Moves(c, [phase |-> "listed", ok |-> TRUE, sources |-> found.sources,
                      covered |-> found.covered])
       ELSE Moves(c, [phase |-> "list", todo |-> Servers, reachable |-> {},
                      checked |-> {}, unresolved |-> {}, found |-> {}])
    /\ UNCHANGED <<holders, lists, exists, found, absent, present>>

\* _server_sources: cached, or the !s-lc query, which may fail or be unusable.
Listable(k) == IF lists[k] # None THEN {TRUE} ELSE BOOLEAN

Learned(k, listed) ==
    IF listed /\ lists[k] = None THEN [lists EXCEPT ![k] = 0] ELSE lists

\* A server whose list is unknown is skipped, one that carries nothing too.
ListMirrors(c) ==
    /\ call[c].phase = "list"
    /\ call[c].todo # {}
    /\ LET k == First(call[c].todo)
       IN \E listed \in Listable(k) :
             /\ lists' = Learned(k, listed)
             /\ IF listed /\ Mirrors[k] # {}
                THEN Moves(c, [call[c] EXCEPT !.phase = "object",
                                              !.reachable = @ \cup Mirrors[k]])
                ELSE Moves(c, [call[c] EXCEPT !.todo = @ \ {k}])
    /\ UNCHANGED <<holders, exists, found, absent, present>>

\* _sources_on_server: one query for all sources of the mirror; None when it
\* fails, is truncated or is not understood.
QueryObject(c) ==
    /\ call[c].phase = "object"
    /\ LET k == First(call[c].todo)
           next == [call[c] EXCEPT !.phase = "list", !.todo = @ \ {k}]
       IN \/ Moves(c, [next EXCEPT !.unresolved = @ \cup Mirrors[k]])
          \/ Moves(c, [next EXCEPT !.checked = @ \cup Mirrors[k],
                                   !.found = @ \cup (Mirrors[k] \cap holders)])
    /\ UNCHANGED <<holders, lists, exists, found, absent, present>>

\* Every server was asked: the rest is asked source by source.
AskRest(c) ==
    /\ call[c].phase = "list"
    /\ call[c].todo = {}
    /\ Moves(c, [call[c] EXCEPT !.phase = "rest", !.unresolved = @ \ call[c].checked])
    /\ UNCHANGED <<holders, lists, exists, found, absent, present>>

\* What sources_for makes of an answer of exists_in.
Answered(collecting, s, result) ==
    [collecting EXCEPT !.unresolved = @ \ {s},
                       !.checked = IF result # None THEN @ \cup {s} ELSE @,
                       !.found = IF result = TRUE THEN @ \cup {s} ELSE @]

PinNext(c) ==
    /\ call[c].phase = "rest"
    /\ call[c].unresolved # {}
    /\ LET s == First(call[c].unresolved)
       IN IF exists[s] # None
          THEN Moves(c, Answered(call[c], s, exists[s].result))
          ELSE Moves(c, [phase |-> "pinned", source |-> s, todo |-> Servers,
                         back |-> call[c]])
    /\ UNCHANGED <<holders, lists, exists, found, absent, present>>

\* Mutant of Complete: an answer counts as soon as a server was asked.
AnyAnswer(collecting) == collecting.checked # {}

Complete(collecting) ==
    /\ collecting.reachable # {}
    /\ collecting.checked = collecting.reachable

\* Only a complete answer is cached.
ReturnSources(c) ==
    /\ call[c].phase = "rest"
    /\ call[c].unresolved = {}
    /\ Moves(c, [phase |-> "listed", ok |-> Complete(call[c]),
                 sources |-> IF call[c].reachable = {} THEN {} ELSE call[c].found,
                 covered |-> call[c].reachable])
    /\ found' = IF Complete(call[c])
                THEN [sources |-> call[c].found, covered |-> call[c].reachable, age |-> 0]
                ELSE found
    /\ UNCHANGED <<holders, lists, exists, absent, present>>

---------------------------------------------------------------------------
(* exists_in *)

StartExistsIn(c, s) ==
    /\ call[c] = Idle
    /\ IF exists[s] # None
       THEN Moves(c, [phase |-> "told", source |-> s, result |-> exists[s].result])
       ELSE Moves(c, [phase |-> "pinned", source |-> s, todo |-> Servers, back |-> Idle])
    /\ UNCHANGED <<holders, lists, exists, found, absent, present>>

\* exists_in returns, to its caller or into sources_for.
Return(c, result) ==
    Moves(c, IF call[c].back = Idle
             THEN [phase |-> "told", source |-> call[c].source, result |-> result]
             ELSE Answered(call[c].back, call[c].source, result))

\* Mutant of Trusted: a "no entries" is taken from any server.
TrustedFromAny(listed, result) == TRUE

\* Without its list a server may just not carry the source.
Trusted(listed, result) == listed \/ result

\* _pinned_exists: a server that does not carry the source finds nothing.
Finds(k, s) == s \in Mirrors[k] /\ s \in holders

\* The next server: skipped, no definitive answer, or the answer.
QueryPinned(c) ==
    /\ call[c].phase = "pinned"
    /\ call[c].todo # {}
    /\ LET k == First(call[c].todo)
           s == call[c].source
           onward == [call[c] EXCEPT !.todo = @ \ {k}]
       IN \E listed \in Listable(k) :
             /\ lists' = Learned(k, listed)
             /\ \/ /\ Moves(c, onward)
                   /\ UNCHANGED exists
                \/ /\ listed => s \in Mirrors[k]
                   /\ Trusted(listed, Finds(k, s))
                   /\ Return(c, Finds(k, s))
                   /\ exists' = [exists EXCEPT ![s] = [result |-> Finds(k, s), age |-> 0]]
    /\ UNCHANGED <<holders, found, absent, present>>

ReturnUnknown(c) ==
    /\ call[c].phase = "pinned"
    /\ call[c].todo = {}
    /\ Return(c, None)
    /\ UNCHANGED <<holders, lists, exists, found, absent, present>>

---------------------------------------------------------------------------
(* Everything else. *)

Done(c) ==
    /\ call[c].phase \in {"told", "listed"}
    /\ Moves(c, Idle)
    /\ UNCHANGED <<holders, lists, exists, found, absent, present>>

\* An operator adds the object to a registry or deletes it there.
Change(s) ==
    /\ holders' = IF s \in holders THEN holders \ {s} ELSE holders \cup {s}
    /\ IF s \in holders
       THEN absent' = [absent EXCEPT ![s] = 0] /\ UNCHANGED present
       ELSE present' = [present EXCEPT ![s] = 0] /\ UNCHANGED absent
    /\ UNCHANGED <<lists, exists, found, call>>

\* Mutant of Kept: an entry is good for one tick more.
KeptOneMore(age) == age < TTL

Kept(age) == age + 1 < TTL

Older(n) == IF n = 2 * TTL THEN n ELSE n + 1

\* Time passes.  The TTL is minutes where a lookup takes seconds.
Tick ==
    /\ \A c \in Callers : call[c] = Idle
    /\ lists' = [k \in Servers |-> IF lists[k] # None /\ Kept(lists[k])
                                   THEN lists[k] + 1 ELSE None]
    /\ exists' = [s \in Sources |-> IF exists[s] # None /\ Kept(exists[s].age)
                                    THEN [exists[s] EXCEPT !.age = @ + 1] ELSE None]
    /\ found' = IF found # None /\ Kept(found.age)
                THEN [found EXCEPT !.age = @ + 1] ELSE None
    /\ absent' = [s \in Sources |-> IF s \in holders THEN Older(absent[s]) ELSE 0]
    /\ present' = [s \in Sources |-> IF s \in holders THEN 0 ELSE Older(present[s])]
    /\ UNCHANGED <<holders, call>>

Step(c) ==
    \/ StartSourcesFor(c) \/ ListMirrors(c) \/ QueryObject(c) \/ AskRest(c)
    \/ PinNext(c) \/ ReturnSources(c)
    \/ \E s \in Sources : StartExistsIn(c, s)
    \/ QueryPinned(c) \/ ReturnUnknown(c) \/ Done(c)

Next ==
    \/ \E c \in Callers : Step(c)
    \/ \E s \in Sources : Change(s)
    \/ Tick

Spec == Init /\ [][Next]_vars

---------------------------------------------------------------------------
(* Properties. *)

\* The save path rejects a value on a False of exists_in and on nothing else:
\* whatever queries fail, the registry did lack the object (for True: did
\* hold it) less than IRR_LOOKUP_CACHE_TTL ago.
ToldIsRecent ==
    \A c \in Callers :
       call[c].phase = "told" =>
          /\ call[c].result = FALSE => absent[call[c].source] < TTL
          /\ call[c].result = TRUE => present[call[c].source] < TTL

\* An answer of sources_for with ok is definitive for every registry of the
\* servers it reached, partial failures and cached answers included.  Two
\* caches are in series, so it may be twice the TTL old, less a tick.
ListedIsDefinitive ==
    \A c \in Callers :
       call[c].phase = "listed" /\ call[c].ok =>
          \A s \in call[c].covered :
             IF s \in call[c].sources THEN present[s] < 2 * TTL - 1
                                      ELSE absent[s] < 2 * TTL - 1

\* "ok is True only when every registry the pool covers answered
\* definitively": also when one of the servers cannot be reached at all.
OkCoversThePool ==
    \A c \in Callers :
       call[c].phase = "listed" /\ call[c].ok =>
          \A k \in Servers : \A s \in Mirrors[k] \ call[c].sources :
             absent[s] < 2 * TTL - 1
============================================================================
