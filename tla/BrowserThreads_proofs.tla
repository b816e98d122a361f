------------------------ MODULE BrowserThreads_proofs ------------------------
(***************************************************************************)
(* Proofs about BrowserThreads, for any names, workers, numbers of posts, *)
(* threads that fail to start, and any order in which the owner destroys   *)
(* its threads: every variable keeps its type, neither a thread object nor *)
(* a loop is used after its end under the lock or by who is destroyed      *)
(* first, and what the owner posts between Start and the destructor runs.  *)
(*                                                                         *)
(* The argument is about a caller that skips the lock: while it runs, its  *)
(* own object is alive and not beyond the join of its destructor, so that  *)
(* the owner has not begun to destroy a thread that is to go after it.     *)
(* A caller that takes the lock keeps the slot of its target from being    *)
(* cleared, and the object is deleted only after its slot is.              *)
(***************************************************************************)
EXTENDS BrowserThreads, TLAPS, WellFoundedInduction

Active(i) == phase[i] \notin {"none", "created", "exited"}

\* The loop has run the quit task.
Quitting(i) == quitWhenIdle[i] \/ phase[i] \in {"cleanup", "clear", "dying", "exited"}

Ending == owner.does \in {"join", "unregister", "delete"}
Ends(i) == Ending /\ owner.id = i

(***************************************************************************)
(* The inductive invariant.                                                *)
(***************************************************************************)

\* A slot is set as long as the object is alive, but for the end of its destructor.
Slots ==
  \A i \in Id :
    /\ registered[i] => object[i] = "alive"
    /\ object[i] = "alive" => registered[i] \/ (owner.does = "delete" /\ owner.id = i)
    /\ owner.does = "delete" /\ owner.id = i => ~registered[i]

\* The owner does one thing at a time.
OwnersCall ==
  /\ owner.does # "idle" => owner.id \in Id /\ call[Owner].pc = "idle"

\* A thread runs between its start and the join of its destructor.
Lives ==
  \A i \in Id :
    /\ phase[i] \notin {"none", "exited"} =>
         /\ object[i] = "alive"
         /\ ~(owner.does \in {"unregister", "delete"} /\ owner.id = i)
         /\ started[i] \/ (owner.does = "start" /\ owner.id = i)
    /\ loopSet[i] <=> Active(i) /\ phase[i] # "dying"
    /\ Active(i) => loop[i] = "alive"

\* Only the owner, in the destructor, makes a thread quit.
Quits ==
  \A i \in Id : Quitting(i) \/ Quit \in Rest(i) => Ends(i) \/ object[i] = "deleted"

\* Whom the owner is destroying outlives all that should die first.
DestroyedInOrder ==
  Ending => \A j \in Id : <<j, owner.id>> \in DiesFirst => object[j] # "alive"

\* A call belongs to a thread that runs; a search still has its own slot to look at.
Calls ==
  \A a \in Actor :
    /\ call[a].pc # "idle" /\ a \in Id => phase[a] \in {"identify", "run"}
    /\ call[a].pc \notin {"idle", "scan", "look"} => call[a].target \in Id
    /\ call[a].pc # "idle" /\ call[a].target \in Id => posted[a] \in 1..MaxPosts[a]
    /\ a \in Id /\ call[a].pc \in {"scan", "look"} => a \in call[a].rest
    /\ call[a].pc = "look" => call[a].rest # {}

\* A slot that a thread has read stays set while it looks at the object, if that is
\* destroyed after it.
Looks ==
  \A a \in Actor \ Worker :
    At(a, "look") /\ DestroyedAfter(NextSlot(a), a) => registered[NextSlot(a)]

\* Under the lock the slot that has been read stays set, whoever holds it.
Locked == lock # Nobody /\ call[lock].pc \in {"deref", "post"} => registered[call[lock].target]

\* Who goes without the lock has a slot, and what is destroyed after it is there.
Unlocked ==
  \A a \in Actor \ Worker :
    call[a].pc \in {"read", "deref", "post"} /\ lock # a =>
      /\ a \in Id
      /\ DestroyedAfter(call[a].target, a) =>
           /\ call[a].pc \in {"deref", "post"} => registered[call[a].target]
           /\ call[a].pc = "post" => loop[call[a].target] = "alive"

IInv ==
  /\ TypeOK
  /\ Slots /\ OwnersCall /\ Lives /\ Quits /\ DestroyedInOrder
  /\ Calls /\ Locked

\* What the order of destruction gives besides.
Ordered == Looks /\ Unlocked

(***************************************************************************)
(* Sequences, and the first slot of a search.                              *)
(***************************************************************************)

\* The set of the elements of a sequence.
Elements(q) == {q[k] : k \in 1..Len(q)}

\* Append adds one element.
LEMMA AppendElements ==
  ASSUME NEW S, NEW q \in Seq(S), NEW e \in S
  PROVE  Append(q, e) \in Seq(S) /\ Elements(Append(q, e)) = Elements(q) \cup {e}
  BY DEF Elements

\* Tail and Head take one.
LEMMA TailElements ==
  ASSUME NEW S, NEW q \in Seq(S), q # <<>>
  PROVE  Tail(q) \in Seq(S) /\ Head(q) \in S /\ Elements(Tail(q)) \subseteq Elements(q)
  BY DEF Elements

\* Every element is of the type of the sequence.
LEMMA ElementsType ==
  ASSUME NEW S, NEW q \in Seq(S)
  PROVE  Elements(q) \subseteq S
  BY DEF Elements

\* A set of numbers that is not empty has a least one.
LEMMA LeastNumber ==
  ASSUME NEW S, S \subseteq Nat, S # {}
  PROVE  \E s \in S : \A r \in S : s <= r
<1>1. PICK s \in S : \A r \in S : ~ (<<r, s>> \in OpToRel(<, Nat))
  BY NatLessThanWellFounded, WFMin
<1>2. ASSUME NEW r \in S PROVE s <= r
  <2>1. <<r, s>> \in Nat \X Nat
    OBVIOUS
  <2>2. r < s => <<r, s>> \in OpToRel(<, Nat)
    BY <2>1 DEF OpToRel
  <2>3. ~(r < s)
    BY <1>1, <2>2, Zenon
  <2>4. r \in Nat /\ s \in Nat
    BY <2>1
  <2>5. QED
    BY <2>3, <2>4
<1>3. QED
  BY <1>2

\* The search looks at the slots in the order of their numbers.
LEMMA FirstSlot ==
  ASSUME NEW a \in Actor, call[a].rest \subseteq Id, call[a].rest # {}
  PROVE  NextSlot(a) \in call[a].rest /\ \A r \in call[a].rest : NextSlot(a) <= r
<1>1. \E s \in call[a].rest : \A r \in call[a].rest : s <= r
  BY LeastNumber, NamesAssumption
<1>2. QED
  BY <1>1 DEF NextSlot

(***************************************************************************)
(* Lemmas that several actions share.                                      *)
(***************************************************************************)

\* A step of a call that moves its pc leaves its other fields and the other calls.
LEMMA PcMoves ==
  ASSUME call \in [Actor -> Call], NEW a \in Actor, NEW p \in Places, Now(a, p)
  PROVE  /\ call' \in [Actor -> Call]
         /\ \A b \in Actor : b # a => call'[b] = call[b] /\ NextSlot(b)' = NextSlot(b)
         /\ call'[a].pc = p
         /\ call'[a].target = call[a].target
         /\ call'[a].self = call[a].self
         /\ call'[a].rest = call[a].rest
         /\ NextSlot(a)' = NextSlot(a)
  BY DEF Now, Call, NextSlot

\* A call that begins or ends takes its new value and leaves the other calls.
LEMMA CallChanges ==
  ASSUME call \in [Actor -> Call], NEW a \in Actor, NEW r \in Call,
         call' = [call EXCEPT ![a] = r]
  PROVE  /\ call' \in [Actor -> Call]
         /\ call'[a] = r
         /\ \A b \in Actor : b # a => call'[b] = call[b] /\ NextSlot(b)' = NextSlot(b)
  BY DEF NextSlot

\* A search goes on without the slot it has looked at.
LEMMA SearchGoesOn ==
  ASSUME call \in [Actor -> Call], NEW a \in Actor, NEW s \in Id, NEW p \in Places,
         call' = [call EXCEPT ![a].pc = p, ![a].rest = @ \ {s}]
  PROVE  /\ call' \in [Actor -> Call]
         /\ \A b \in Actor : b # a => call'[b] = call[b] /\ NextSlot(b)' = NextSlot(b)
         /\ call'[a].pc = p
         /\ call'[a].target = call[a].target
         /\ call'[a].self = call[a].self
         /\ call'[a].rest = call[a].rest \ {s}
  BY DEF Call, NextSlot

\* What a search ends with: Run goes on to the loop, or a post to the lock.
LEMMA SearchEnds ==
  ASSUME call \in [Actor -> Call], phase \in [Id -> Phases], NEW a \in Actor,
         NEW self \in Id \cup {Nobody}, Identified(a, self)
  PROVE  /\ call' \in [Actor -> Call]
         /\ phase' \in [Id -> Phases]
         /\ \A b \in Actor : b # a => call'[b] = call[b] /\ NextSlot(b)' = NextSlot(b)
         /\ \A j \in Id : phase'[j] = phase[j] \/ (j = a /\ phase'[j] = "run")
         /\ \/ call'[a] = NoCall
            \/ /\ phase' = phase
               /\ call[a].target # Nobody
               /\ call'[a].target = call[a].target
               /\ call'[a].pc \in {"lock", "read"}
               /\ call'[a].pc = "read" => Outlives(call[a].target, self)
<1>1. CASE call[a].target = Nobody
  <2>1. call' = [call EXCEPT ![a] = NoCall] /\ phase' = [phase EXCEPT ![a] = "run"]
    BY <1>1 DEF Identified
  <2>2. NoCall \in Call
    BY DEF NoCall, Call, Places
  <2>3. /\ phase' \in [Id -> Phases]
        /\ \A j \in Id : phase'[j] = phase[j] \/ (j = a /\ phase'[j] = "run")
    BY <2>1 DEF Phases
  <2>4. QED
    BY <2>1, <2>2, <2>3, CallChanges
<1>2. CASE call[a].target # Nobody
  <2>1. PICK p \in {"read", "lock"} :
          /\ call' = [call EXCEPT ![a].self = self, ![a].rest = {}, ![a].pc = p]
          /\ p = "read" => Outlives(call[a].target, self)
    BY <1>2 DEF Identified
  <2>2. phase' = phase
    BY <1>2 DEF Identified
  <2>3. p \in Places
    BY DEF Places
  <2>4. call' \in [Actor -> Call]
    <3>1. call[a] \in Call
      BY DEF Call
    <3>2. [call[a] EXCEPT !.self = self, !.rest = {}, !.pc = p] \in Call
      BY <2>3, <3>1 DEF Call
    <3>3. QED
      BY <2>1, <3>2
  <2>5. call'[a].pc = p /\ call'[a].target = call[a].target
    BY <2>1, <2>3 DEF Call
  <2>6. \A b \in Actor : b # a => call'[b] = call[b] /\ NextSlot(b)' = NextSlot(b)
    BY <2>1 DEF NextSlot
  <2>7. QED
    BY <1>2, <2>1, <2>2, <2>4, <2>5, <2>6
<1>3. QED
  BY <1>1, <1>2

\* The task of a call that posts is a task, and not the one that quits the loop.
LEMMA FateIsTask ==
  ASSUME IInv, NEW a \in Actor, call[a].pc # "idle", call[a].target \in Id
  PROVE  Fate(a) \in Task /\ Fate(a) # Quit
<1>1. posted[a] \in 1..MaxPosts[a]
  BY DEF IInv, Calls
<1>2. <<a, posted[a]>> \in {a} \X (1..MaxPosts[a])
  BY <1>1
<1>3. <<a, posted[a]>> \in UNION {{b} \X (1..MaxPosts[b]) : b \in Actor}
  BY <1>2
<1>4. QED
  BY <1>3, QuitAssumption DEF Fate, Task

\* While a thread runs tasks, a thread that is destroyed after it and that it has
\* found registered is not being destroyed, and its loop is not quitting.
LEMMA TargetOutlives ==
  ASSUME IInv, NEW a \in Id, NEW t \in Id, DestroyedAfter(t, a),
         phase[a] \in {"identify", "run"}, registered[t]
  PROVE  /\ t # a => ~Quitting(t)
         /\ phase[t] # "dying"
         /\ ~(owner.does = "unregister" /\ owner.id = t)
         /\ loopSet[t] => loop[t] = "alive"
<1>1. object[a] = "alive" /\ object[t] = "alive"
  BY DEF IInv, Lives, Slots
<1>2. t # a => ~Ends(t)
  <2>1. t # a => <<a, t>> \in DiesFirst
    BY NamesAssumption DEF DestroyedAfter
  <2>2. QED
    BY <1>1, <2>1 DEF IInv, DestroyedInOrder, Ends
<1>3. t # a => ~Quitting(t)
  BY <1>1, <1>2 DEF IInv, Quits
<1>4. phase[t] # "dying"
  BY <1>3 DEF Quitting
<1>5. ~(owner.does = "unregister" /\ owner.id = t)
  BY <1>2 DEF IInv, Lives, Ends, Ending
<1>6. loopSet[t] => loop[t] = "alive"
  BY DEF IInv, Lives
<1>7. QED
  BY <1>3, <1>4, <1>5, <1>6

\* The order of destruction is about the owner and its threads.
LEMMA OwnSlotOrOwner ==
  \A a \in Actor, i \in Id : DestroyedAfter(i, a) => a \in Actor \ Worker
  BY NamesAssumption, OrderAssumption DEF DestroyedAfter

\* A caller with a loop finds itself in its own slot, if at all.
LEMMA FindsItself ==
  ASSUME IInv, NEW a \in Actor \ Worker, call[a].pc = "look"
  PROVE  /\ NextSlot(a) \in call[a].rest /\ NextSlot(a) \in Id
         /\ IsCurrent(a, NextSlot(a)) => a \in Id /\ NextSlot(a) = a
         /\ a \in Id => (IsCurrent(a, NextSlot(a)) <=> NextSlot(a) = a)
<1>1. call[a].rest \subseteq Id /\ call[a].rest # {}
  BY DEF IInv, TypeOK, Call, Calls
<1>2. NextSlot(a) \in call[a].rest /\ \A r \in call[a].rest : NextSlot(a) <= r
  BY <1>1, FirstSlot
<1>3. a \in Id => a \in call[a].rest /\ loopSet[a]
  BY DEF IInv, Calls, Lives, Active
<1>4. QED
  BY <1>1, <1>2, <1>3 DEF IsCurrent


(***************************************************************************)
(* Every action keeps the invariant.                                       *)
(***************************************************************************)

\* The constructor registers an object that is alive.
LEMMA InitializeSafe ==
  ASSUME IInv, NEW i \in Id, Initialize(i)
  PROVE  IInv' /\ (Ordered => Ordered')
<1> USE NamesAssumption DEF IInv, Initialize, OwnerFree
<1>1. TypeOK'
  BY DEF TypeOK, Call, Places, Phases, Fates, Fate, Task, Actor
<1>2. Slots'
  BY DEF TypeOK, Slots, Call
<1>3. OwnersCall'
  BY DEF TypeOK, OwnersCall, Actor, Call
<1>4. Lives'
  BY DEF TypeOK, Lives, Active, Call
<1>5. Quits'
  <2>1. \A j \in Id : Rest(j)' = Rest(j)
    BY DEF Rest
  <2>2. \A j \in Id : ~(Quitting(j) \/ Quit \in Rest(j))
    BY DEF Quits, Ends, Ending
  <2>3. QED
    BY <2>1, <2>2 DEF Quits, Quitting
<1>6. DestroyedInOrder'
  BY DEF TypeOK, DestroyedInOrder, Ending, Call
<1>7. Calls'
  BY DEF TypeOK, Calls, Actor, Call
<1>8. Ordered => Looks'
  <2>1. \A b \in Actor : NextSlot(b)' = NextSlot(b)
    BY DEF NextSlot
  <2>2. QED
    BY <2>1 DEF TypeOK, Ordered, Looks, At, Actor, Call, DestroyedAfter
<1>9. Locked'
  BY DEF TypeOK, Locked, Actor, Call
<1>10. Ordered => Unlocked'
  BY DEF TypeOK, Ordered, Unlocked, Actor, Call, DestroyedAfter
<1>11. QED
  BY <1>1, <1>2, <1>3, <1>4, <1>5, <1>6, <1>7, <1>8, <1>9, <1>10 DEF IInv, Ordered

\* The thread is created, and its starter waits for it.
LEMMA StartWithOptionsSafe ==
  ASSUME IInv, NEW i \in Id, StartWithOptions(i)
  PROVE  IInv' /\ (Ordered => Ordered')
<1> USE NamesAssumption DEF IInv, StartWithOptions, OwnerFree
<1>1. TypeOK'
  <2>1. phase' \in [Id -> Phases]
    BY DEF TypeOK, Phases
  <2>2. owner' \in [does : {"idle", "start", "join", "unregister", "delete"}, id : Id \cup {Nobody}]
    BY DEF TypeOK
  <2>3. QED
    BY <2>1, <2>2 DEF TypeOK
<1>2. Slots'
  BY DEF TypeOK, Slots, Call
<1>3. OwnersCall'
  BY DEF TypeOK, OwnersCall, Actor, Call
<1>4. Lives'
  BY DEF TypeOK, Lives, Active, Call
<1>5. Quits'
  <2>1. \A j \in Id : Rest(j)' = Rest(j)
    BY DEF Rest
  <2>2. QED
    BY <2>1 DEF TypeOK, Quits, Quitting, Ends, Ending
<1>6. DestroyedInOrder'
  BY DEF TypeOK, DestroyedInOrder, Ending, Call
<1>7. Calls'
  BY DEF TypeOK, Calls, Actor, Call
<1>8. Ordered => Looks'
  <2>1. \A b \in Actor : NextSlot(b)' = NextSlot(b)
    BY DEF NextSlot
  <2>2. QED
    BY <2>1 DEF TypeOK, Ordered, Looks, At, Actor, Call, DestroyedAfter
<1>9. Locked'
  BY DEF TypeOK, Locked, Actor, Call
<1>10. Ordered => Unlocked'
  BY DEF TypeOK, Ordered, Unlocked, Actor, Call, DestroyedAfter
<1>11. QED
  BY <1>1, <1>2, <1>3, <1>4, <1>5, <1>6, <1>7, <1>8, <1>9, <1>10 DEF IInv, Ordered

\* The thread that has signalled has set its loop.
LEMMA StartReturnsSafe ==
  ASSUME IInv, StartReturns
  PROVE  IInv' /\ (Ordered => Ordered')
<1> USE NamesAssumption DEF IInv, StartReturns, Idle
<1>1. TypeOK'
  BY DEF TypeOK, Call, Places, Phases, Fates, Fate, Task, Actor
<1>2. Slots'
  BY DEF TypeOK, Slots, Call
<1>3. OwnersCall'
  BY DEF TypeOK, OwnersCall, Actor, Call
<1>4. Lives'
  BY DEF TypeOK, Lives, Active, Call
<1>5. Quits'
  <2>1. \A j \in Id : Rest(j)' = Rest(j)
    BY DEF Rest
  <2>2. QED
    BY <2>1 DEF TypeOK, Quits, Quitting, Ends, Ending
<1>6. DestroyedInOrder'
  BY DEF TypeOK, DestroyedInOrder, Ending, Call
<1>7. Calls'
  BY DEF TypeOK, Calls, Actor, Call
<1>8. Ordered => Looks'
  <2>1. \A b \in Actor : NextSlot(b)' = NextSlot(b)
    BY DEF NextSlot
  <2>2. QED
    BY <2>1 DEF TypeOK, Ordered, Looks, At, Actor, Call, DestroyedAfter
<1>9. Locked'
  BY DEF TypeOK, Locked, Actor, Call
<1>10. Ordered => Unlocked'
  BY DEF TypeOK, Ordered, Unlocked, Actor, Call, DestroyedAfter
<1>11. QED
  BY <1>1, <1>2, <1>3, <1>4, <1>5, <1>6, <1>7, <1>8, <1>9, <1>10 DEF IInv, Ordered

\* What should die before it has been destroyed.
LEMMA StopSafe ==
  ASSUME IInv, NEW i \in Id, Stop(i)
  PROVE  IInv' /\ (Ordered => Ordered')
<1> USE NamesAssumption DEF IInv, Stop, MayDestroy, OwnerFree, threadVars
<1>1. TypeOK'
  <2>1. queue' \in [Id -> Seq(Task \cup {Quit})]
    BY DEF TypeOK
  <2>2. owner' \in [does : {"idle", "start", "join", "unregister", "delete"}, id : Id \cup {Nobody}]
    OBVIOUS
  <2>3. QED
    BY <2>1, <2>2 DEF TypeOK
<1>2. Slots'
  BY DEF TypeOK, Slots, Call
<1>3. OwnersCall'
  BY DEF TypeOK, OwnersCall, Actor, Call
<1>4. Lives'
  BY DEF TypeOK, Lives, Active, Call
<1>5. Quits'
  <2>1. \A j \in Id : j # i => Rest(j)' = Rest(j)
    BY DEF TypeOK, Rest
  <2>2. Ends(i)'
    BY DEF Ends, Ending
  <2>3. \A j \in Id : Quitting(j)' = Quitting(j) /\ ~Ends(j)
    BY DEF Quitting, Ends, Ending
  <2>4. QED
    BY <2>1, <2>2, <2>3 DEF Quits
<1>6. DestroyedInOrder'
  BY DEF TypeOK, DestroyedInOrder, Ending, Call
<1>7. Calls'
  BY DEF TypeOK, Calls, Actor, Call
<1>8. Ordered => Looks'
  <2>1. \A b \in Actor : NextSlot(b)' = NextSlot(b)
    BY DEF NextSlot
  <2>2. QED
    BY <2>1 DEF TypeOK, Ordered, Looks, At, Actor, Call, DestroyedAfter
<1>9. Locked'
  BY DEF TypeOK, Locked, Actor, Call
<1>10. Ordered => Unlocked'
  BY DEF TypeOK, Ordered, Unlocked, Actor, Call, DestroyedAfter
<1>11. QED
  BY <1>1, <1>2, <1>3, <1>4, <1>5, <1>6, <1>7, <1>8, <1>9, <1>10 DEF IInv, Ordered

\* A thread that has exited has no loop left.
LEMMA JoinSafe ==
  ASSUME IInv, Join
  PROVE  IInv' /\ (Ordered => Ordered')
<1> USE NamesAssumption DEF IInv, Join
<1>1. TypeOK'
  BY DEF TypeOK, Call, Places, Phases, Fates, Fate, Task, Actor
<1>2. Slots'
  BY DEF TypeOK, Slots, Call
<1>3. OwnersCall'
  BY DEF TypeOK, OwnersCall, Actor, Call
<1>4. Lives'
  BY DEF TypeOK, Lives, Active, Call
<1>5. Quits'
  <2>1. \A j \in Id : Rest(j)' = Rest(j)
    BY DEF Rest
  <2>2. QED
    BY <2>1 DEF TypeOK, Quits, Quitting, Ends, Ending
<1>6. DestroyedInOrder'
  BY DEF TypeOK, DestroyedInOrder, Ending, Call
<1>7. Calls'
  BY DEF TypeOK, Calls, Actor, Call
<1>8. Ordered => Looks'
  <2>1. \A b \in Actor : NextSlot(b)' = NextSlot(b)
    BY DEF NextSlot
  <2>2. QED
    BY <2>1 DEF TypeOK, Ordered, Looks, At, Actor, Call, DestroyedAfter
<1>9. Locked'
  BY DEF TypeOK, Locked, Actor, Call
<1>10. Ordered => Unlocked'
  BY DEF TypeOK, Ordered, Unlocked, Actor, Call, DestroyedAfter
<1>11. QED
  BY <1>1, <1>2, <1>3, <1>4, <1>5, <1>6, <1>7, <1>8, <1>9, <1>10 DEF IInv, Ordered

\* No slot is cleared under the lock, nor before those of the threads that go first.
LEMMA UnregisterSafe ==
  ASSUME IInv, Unregister
  PROVE  IInv' /\ (Ordered => Ordered')
<1> USE NamesAssumption DEF IInv, Unregister
<1>1. TypeOK'
  BY DEF TypeOK, Call, Places, Phases, Fates, Fate, Task, Actor
<1>2. Slots'
  BY DEF TypeOK, Slots, Call
<1>3. OwnersCall'
  BY DEF TypeOK, OwnersCall, Actor, Call
<1>4. Lives'
  BY DEF TypeOK, Lives, Active, Call
<1>5. Quits'
  <2>1. \A j \in Id : Rest(j)' = Rest(j)
    BY DEF Rest
  <2>2. QED
    BY <2>1 DEF TypeOK, Quits, Quitting, Ends, Ending
<1>6. DestroyedInOrder'
  BY DEF TypeOK, DestroyedInOrder, Ending, Call
<1>7. Calls'
  BY DEF TypeOK, Calls, Actor, Call
<1>8. Ordered => Looks'
  <2> SUFFICES ASSUME Ordered, NEW a \in Actor \ Worker, call[a].pc = "look",
                      DestroyedAfter(NextSlot(a), a)
               PROVE  registered'[NextSlot(a)]
    BY DEF Looks, At, NextSlot, DestroyedAfter
  <2>1. registered[NextSlot(a)]
    BY DEF Ordered, Looks, At
  <2>2. a \in Id
    BY DEF OwnersCall, Actor
  <2>3. NextSlot(a) \in Id
    BY <2>2, FindsItself
  <2>4. phase[a] \in {"identify", "run"}
    BY <2>2 DEF Calls
  <2>5. NextSlot(a) # owner.id
    BY <2>1, <2>2, <2>3, <2>4, TargetOutlives
  <2>6. QED
    BY <2>1, <2>3, <2>5 DEF TypeOK
<1>9. Locked'
  BY DEF TypeOK, Locked, Actor, Call
<1>10. Ordered => Unlocked'
  <2> SUFFICES ASSUME Ordered, NEW a \in Actor \ Worker, call[a].pc \in {"deref", "post"},
                      lock # a, DestroyedAfter(call[a].target, a)
               PROVE  registered'[call[a].target]
    BY DEF Ordered, Unlocked, DestroyedAfter
  <2>1. a \in Id /\ registered[call[a].target]
    BY DEF Ordered, Unlocked
  <2>2. call[a].target \in Id /\ phase[a] \in {"identify", "run"}
    BY <2>1 DEF Calls
  <2>3. call[a].target # owner.id
    BY <2>1, <2>2, TargetOutlives
  <2>4. QED
    BY <2>1, <2>2, <2>3 DEF TypeOK
<1>11. QED
  BY <1>1, <1>2, <1>3, <1>4, <1>5, <1>6, <1>7, <1>8, <1>9, <1>10 DEF IInv, Ordered

\* The object goes after its slot.
LEMMA DeleteSafe ==
  ASSUME IInv, Delete
  PROVE  IInv' /\ (Ordered => Ordered')
<1> USE NamesAssumption DEF IInv, Delete, Idle
<1>1. TypeOK'
  BY DEF TypeOK, Call, Places, Phases, Fates, Fate, Task, Actor
<1>2. Slots'
  BY DEF TypeOK, Slots, Call
<1>3. OwnersCall'
  BY DEF TypeOK, OwnersCall, Actor, Call
<1>4. Lives'
  BY DEF TypeOK, Lives, Active, Call
<1>5. Quits'
  <2>1. \A j \in Id : Rest(j)' = Rest(j)
    BY DEF Rest
  <2>2. QED
    BY <2>1 DEF TypeOK, Quits, Quitting, Ends, Ending
<1>6. DestroyedInOrder'
  BY DEF TypeOK, DestroyedInOrder, Ending, Call
<1>7. Calls'
  BY DEF TypeOK, Calls, Actor, Call
<1>8. Ordered => Looks'
  <2>1. \A b \in Actor : NextSlot(b)' = NextSlot(b)
    BY DEF NextSlot
  <2>2. QED
    BY <2>1 DEF TypeOK, Ordered, Looks, At, Actor, Call, DestroyedAfter
<1>9. Locked'
  BY DEF TypeOK, Locked, Actor, Call
<1>10. Ordered => Unlocked'
  BY DEF TypeOK, Ordered, Unlocked, Actor, Call, DestroyedAfter
<1>11. QED
  BY <1>1, <1>2, <1>3, <1>4, <1>5, <1>6, <1>7, <1>8, <1>9, <1>10 DEF IInv, Ordered

\* A call begins at the first slot, with its own slot still before it.
LEMMA BeginsSafe ==
  ASSUME IInv, NEW a \in Actor, NEW t \in Id, BeginPost(a, t),
         call[a].pc = "idle", posted[a] < MaxPosts[a],
         a = Owner => owner.does = "idle", a \in Id => phase[a] = "run",
         UNCHANGED <<threadVars, lock, owner>>,
         queue' \in [Id -> Seq(Task \cup {Quit})], status' \in [Task -> Fates],
         \A j \in Id : Rest(j)' \subseteq Rest(j)
  PROVE  IInv' /\ (Ordered => Ordered')
<1> USE NamesAssumption DEF IInv, BeginPost, Asks, threadVars
<1>1. TypeOK'
  <2>1. Asks(t) \in Call
    BY DEF Asks, Call, Places
  <2>2. call' \in [Actor -> Call] /\ \A b \in Actor : b # a => call'[b] = call[b]
    BY <2>1 DEF TypeOK
  <2>3. posted' \in [Actor -> Nat] /\ \A b \in Actor : posted'[b] <= MaxPosts[b]
    <3>1. posted \in [Actor -> Nat] /\ MaxPosts \in [Actor -> Nat]
          /\ posted' = [posted EXCEPT ![a] = posted[a] + 1]
      BY BoundsAssumption DEF TypeOK
    <3>2. posted[a] + 1 \in Nat /\ posted[a] + 1 <= MaxPosts[a]
      BY <3>1
    <3>3. \A b \in Actor : b # a => posted'[b] = posted[b] /\ posted[b] <= MaxPosts[b]
      BY <3>1 DEF TypeOK
    <3>4. QED
      BY <3>1, <3>2, <3>3
  <2>4. lock # a
    BY DEF TypeOK
  <2>5. QED
    BY <2>2, <2>3, <2>4 DEF TypeOK
<1>2. Slots'
  BY DEF TypeOK, Slots, Call
<1>3. OwnersCall'
  BY DEF TypeOK, OwnersCall, Actor, Call
<1>4. Lives'
  BY DEF TypeOK, Lives, Active, Call
<1>5. Quits'
  BY DEF Quits, Quitting, Ends, Ending
<1>6. DestroyedInOrder'
  BY DEF TypeOK, DestroyedInOrder, Ending, Call
<1>7. Calls'
  <2>1. posted[a] \in Nat /\ MaxPosts[a] \in Nat
    BY BoundsAssumption DEF TypeOK
  <2>2. posted'[a] \in 1..MaxPosts[a]
    BY <2>1 DEF TypeOK
  <2>3. call'[a] = Asks(t)
    BY DEF TypeOK
  <2>4. \A b \in Actor : b # a => call'[b] = call[b] /\ posted'[b] = posted[b]
    BY DEF TypeOK
  <2>5. QED
    BY <2>2, <2>3, <2>4 DEF Calls, Asks
<1>8. Ordered => Looks'
  <2>1. \A b \in Actor : b # a => NextSlot(b)' = NextSlot(b)
    BY DEF TypeOK, NextSlot
  <2>2. QED
    BY <2>1 DEF TypeOK, Ordered, Looks, At, Actor, Call, DestroyedAfter
<1>9. Locked'
  BY DEF TypeOK, Locked, Actor, Call
<1>10. Ordered => Unlocked'
  BY DEF TypeOK, Ordered, Unlocked, Actor, Call, DestroyedAfter
<1>11. QED
  BY <1>1, <1>2, <1>3, <1>4, <1>5, <1>6, <1>7, <1>8, <1>9, <1>10 DEF IInv, Ordered

\* A task runs, or nothing happens.
LEMMA KeepsSafe ==
  ASSUME IInv, UNCHANGED <<threadVars, lock, owner, call, posted>>,
         queue' \in [Id -> Seq(Task \cup {Quit})], status' \in [Task -> Fates],
         \A j \in Id : Rest(j)' \subseteq Rest(j)
  PROVE  IInv' /\ (Ordered => Ordered')
<1> USE NamesAssumption DEF IInv, threadVars
<1>1. TypeOK'
  BY DEF TypeOK, Call, Places, Phases, Fates, Fate, Task, Actor
<1>2. Slots'
  BY DEF TypeOK, Slots, Call
<1>3. OwnersCall'
  BY DEF TypeOK, OwnersCall, Actor, Call
<1>4. Lives'
  BY DEF TypeOK, Lives, Active, Call
<1>5. Quits'
  BY DEF Quits, Quitting, Ends, Ending
<1>6. DestroyedInOrder'
  BY DEF TypeOK, DestroyedInOrder, Ending, Call
<1>7. Calls'
  BY DEF TypeOK, Calls, Actor, Call
<1>8. Ordered => Looks'
  <2>1. \A b \in Actor : NextSlot(b)' = NextSlot(b)
    BY DEF NextSlot
  <2>2. QED
    BY <2>1 DEF TypeOK, Ordered, Looks, At, Actor, Call, DestroyedAfter
<1>9. Locked'
  BY DEF TypeOK, Locked, Actor, Call
<1>10. Ordered => Unlocked'
  BY DEF TypeOK, Ordered, Unlocked, Actor, Call, DestroyedAfter
<1>11. QED
  BY <1>1, <1>2, <1>3, <1>4, <1>5, <1>6, <1>7, <1>8, <1>9, <1>10 DEF IInv, Ordered

\* A search does not miss its own slot, which is registered.
LEMMA ScanSafe ==
  ASSUME IInv, NEW a \in Actor, Scan(a)
  PROVE  IInv' /\ (Ordered => Ordered')
<1> USE NamesAssumption
<1>1. /\ call \in [Actor -> Call] /\ call[a].pc = "scan"
      /\ phase \in [Id -> Phases] /\ call[a].rest \subseteq Id
      /\ a \in Id => a \in call[a].rest /\ phase[a] \in {"identify", "run"}
      /\ lock # a
  BY DEF Scan, At, IInv, TypeOK, Calls, Call
<1>2. a \in Id => registered[a]
  BY <1>1 DEF IInv, Lives, Slots
<1>3. call[a].rest # {} => NextSlot(a) \in call[a].rest /\ NextSlot(a) \in Id
  BY <1>1, FirstSlot
<1>4. UNCHANGED <<registered, object, started, loopSet, loop, queue, quitWhenIdle, event, lock,
                  owner, posted, status>>
  BY DEF Scan
<1>5. /\ call' \in [Actor -> Call] /\ phase' \in [Id -> Phases]
      /\ \A b \in Actor : b # a => call'[b] = call[b] /\ NextSlot(b)' = NextSlot(b)
      /\ \A j \in Id : phase'[j] = phase[j] \/ (j = a /\ phase'[j] = "run")
      /\ \/ call'[a] = NoCall
         \/ /\ call'[a].pc = "lock" /\ call'[a].target = call[a].target
            /\ call[a].target # Nobody
         \/ /\ call'[a].pc = "look" /\ call'[a].target = call[a].target
            /\ call'[a].rest = call[a].rest /\ call[a].rest # {}
            /\ NextSlot(a)' = NextSlot(a) /\ registered[NextSlot(a)]
         \/ /\ call'[a].pc = "scan" /\ call'[a].target = call[a].target
            /\ a \in Id => a \in call'[a].rest
  <2>1. CASE call[a].rest = {}
    <3>1. Identified(a, Nobody) /\ ~Outlives(call[a].target, Nobody)
      BY <2>1 DEF Scan, Outlives
    <3>2. QED
      BY <1>1, <3>1, SearchEnds
  <2>2. CASE call[a].rest # {} /\ registered[NextSlot(a)]
    <3>1. Now(a, "look") /\ phase' = phase
      BY <2>2 DEF Scan, Now
    <3>2. QED
      BY <1>1, <2>2, <3>1, PcMoves DEF Places
  <2>3. CASE call[a].rest # {} /\ ~registered[NextSlot(a)]
    <3>1. /\ call' = [call EXCEPT ![a].pc = "scan", ![a].rest = @ \ {NextSlot(a)}]
          /\ phase' = phase
      <4>1. call' = [call EXCEPT ![a].rest = @ \ {NextSlot(a)}] /\ phase' = phase
        BY <2>3 DEF Scan
      <4>2. QED
        BY <1>1, <4>1 DEF Call
    <3>2. /\ call' \in [Actor -> Call]
          /\ \A b \in Actor : b # a => call'[b] = call[b] /\ NextSlot(b)' = NextSlot(b)
          /\ call'[a].pc = "scan" /\ call'[a].target = call[a].target
          /\ call'[a].rest = call[a].rest \ {NextSlot(a)}
      BY <1>1, <1>3, <2>3, <3>1, SearchGoesOn DEF Places
    <3>3. QED
      BY <1>1, <1>2, <2>3, <3>1, <3>2
  <2>4. QED
    BY <2>1, <2>2, <2>3
<1>6. TypeOK'
  BY <1>1, <1>4, <1>5 DEF IInv, TypeOK
<1>7. Slots'
  BY <1>4 DEF IInv, Slots
<1>8. OwnersCall'
  BY <1>1, <1>4, <1>5 DEF IInv, OwnersCall, Actor
<1>9. Lives'
  BY <1>1, <1>4, <1>5 DEF IInv, Lives, Active
<1>10. Quits'
  <2>1. \A j \in Id : Rest(j)' = Rest(j)
    BY <1>4 DEF Rest
  <2>2. QED
    BY <1>1, <1>4, <1>5, <2>1 DEF IInv, Quits, Quitting, Ends, Ending
<1>11. DestroyedInOrder'
  BY <1>4 DEF IInv, DestroyedInOrder, Ending
<1>12. Calls'
  <2> SUFFICES ASSUME NEW b \in Actor
               PROVE  /\ call'[b].pc # "idle" /\ b \in Id => phase'[b] \in {"identify", "run"}
                      /\ call'[b].pc \notin {"idle", "scan", "look"} => call'[b].target \in Id
                      /\ call'[b].pc # "idle" /\ call'[b].target \in Id
                           => posted'[b] \in 1..MaxPosts[b]
                      /\ b \in Id /\ call'[b].pc \in {"scan", "look"} => b \in call'[b].rest
                      /\ call'[b].pc = "look" => call'[b].rest # {}
    BY DEF Calls
  <2>1. CASE b # a
    BY <1>4, <1>5, <2>1 DEF IInv, Calls
  <2>2. CASE b = a
    <3>1. call[a].target \in Id \cup {Nobody}
      BY <1>1 DEF Call
    <3>2. call[a].target \in Id => posted'[a] \in 1..MaxPosts[a]
      BY <1>1, <1>4 DEF IInv, Calls
    <3>3. a \in Id => phase'[a] \in {"identify", "run"}
      BY <1>1, <1>5
    <3>4. QED
      BY <1>1, <1>5, <2>2, <3>1, <3>2, <3>3 DEF NoCall
  <2>3. QED
    BY <2>1, <2>2
<1>13. Ordered => Looks'
  BY <1>1, <1>4, <1>5 DEF Ordered, Looks, At, NoCall, DestroyedAfter
<1>14. Locked'
  BY <1>1, <1>4, <1>5 DEF IInv, Locked, TypeOK
<1>15. Ordered => Unlocked'
  BY <1>1, <1>4, <1>5 DEF Ordered, Unlocked, NoCall, DestroyedAfter
<1>16. QED
  BY <1>6, <1>7, <1>8, <1>9, <1>10, <1>11, <1>12, <1>13, <1>14, <1>15 DEF IInv, Ordered

\* A search that ends skips the lock only for what outlives the caller.
LEMMA LookSafe ==
  ASSUME IInv, NEW a \in Actor, Look(a)
  PROVE  IInv' /\ (Ordered => Ordered')
<1> USE NamesAssumption
<1>1. /\ call \in [Actor -> Call] /\ call[a].pc = "look"
      /\ phase \in [Id -> Phases] /\ call[a].rest \subseteq Id /\ call[a].rest # {}
      /\ a \in Id => phase[a] \in {"identify", "run"}
      /\ lock # a
  BY DEF Look, At, IInv, TypeOK, Calls, Call
<1>2. a \in Id => a \in call[a].rest /\ loopSet[a]
  BY <1>1 DEF IInv, Calls, Lives, Active
<1>3. NextSlot(a) \in call[a].rest /\ NextSlot(a) \in Id
  BY <1>1, FirstSlot
<1>4. UNCHANGED <<registered, object, started, loopSet, loop, queue, quitWhenIdle, event, lock,
                  owner, posted, status>>
  BY DEF Look
<1>5. /\ call' \in [Actor -> Call] /\ phase' \in [Id -> Phases]
      /\ \A b \in Actor : b # a => call'[b] = call[b] /\ NextSlot(b)' = NextSlot(b)
      /\ \A j \in Id : phase'[j] = phase[j] \/ (j = a /\ phase'[j] = "run")
      /\ \/ call'[a] = NoCall
         \/ /\ call'[a].pc \in {"lock", "read"} /\ call'[a].target = call[a].target
            /\ call[a].target # Nobody
            /\ call'[a].pc = "read" =>
                 IsCurrent(a, NextSlot(a)) /\ Outlives(call[a].target, NextSlot(a))
         \/ /\ call'[a].pc = "scan" /\ call'[a].target = call[a].target
            /\ a \in Id => a \in call'[a].rest
  <2>1. CASE IsCurrent(a, NextSlot(a))
    <3>1. Identified(a, NextSlot(a))
      BY <2>1 DEF Look
    <3>2. QED
      BY <1>1, <1>3, <2>1, <3>1, SearchEnds
  <2>2. CASE ~IsCurrent(a, NextSlot(a))
    <3>1. /\ call' = [call EXCEPT ![a].pc = "scan", ![a].rest = @ \ {NextSlot(a)}]
          /\ phase' = phase
      BY <2>2 DEF Look
    <3>2. /\ call' \in [Actor -> Call]
          /\ \A b \in Actor : b # a => call'[b] = call[b] /\ NextSlot(b)' = NextSlot(b)
          /\ call'[a].pc = "scan" /\ call'[a].target = call[a].target
          /\ call'[a].rest = call[a].rest \ {NextSlot(a)}
      BY <1>1, <1>3, <3>1, SearchGoesOn DEF Places
    <3>3. a \in Id => NextSlot(a) # a
      BY <1>2, <2>2 DEF IsCurrent
    <3>4. QED
      BY <1>1, <1>2, <3>1, <3>2, <3>3
  <2>3. QED
    BY <2>1, <2>2
<1>6. a \notin Worker /\ call'[a].pc = "read" => a \in Id
  <2>1. SUFFICES ASSUME a \notin Worker, call'[a].pc = "read" PROVE a \in Id
    OBVIOUS
  <2>2. IsCurrent(a, NextSlot(a))
    BY <1>5, <2>1 DEF NoCall
  <2>3. QED
    BY <1>1, <2>1, <2>2, FindsItself
<1>7. TypeOK'
  BY <1>1, <1>4, <1>5 DEF IInv, TypeOK
<1>8. Slots'
  BY <1>4 DEF IInv, Slots
<1>9. OwnersCall'
  BY <1>1, <1>4, <1>5 DEF IInv, OwnersCall, Actor
<1>10. Lives'
  BY <1>1, <1>4, <1>5 DEF IInv, Lives, Active
<1>11. Quits'
  <2>1. \A j \in Id : Rest(j)' = Rest(j)
    BY <1>4 DEF Rest
  <2>2. QED
    BY <1>1, <1>4, <1>5, <2>1 DEF IInv, Quits, Quitting, Ends, Ending
<1>12. DestroyedInOrder'
  BY <1>4 DEF IInv, DestroyedInOrder, Ending
<1>13. Calls'
  <2> SUFFICES ASSUME NEW b \in Actor
               PROVE  /\ call'[b].pc # "idle" /\ b \in Id => phase'[b] \in {"identify", "run"}
                      /\ call'[b].pc \notin {"idle", "scan", "look"} => call'[b].target \in Id
                      /\ call'[b].pc # "idle" /\ call'[b].target \in Id
                           => posted'[b] \in 1..MaxPosts[b]
                      /\ b \in Id /\ call'[b].pc \in {"scan", "look"} => b \in call'[b].rest
                      /\ call'[b].pc = "look" => call'[b].rest # {}
    BY DEF Calls
  <2>1. CASE b # a
    BY <1>4, <1>5, <2>1 DEF IInv, Calls
  <2>2. CASE b = a
    <3>1. call[a].target \in Id \cup {Nobody}
      BY <1>1 DEF Call
    <3>2. call[a].target \in Id => posted'[a] \in 1..MaxPosts[a]
      BY <1>1, <1>4 DEF IInv, Calls
    <3>3. a \in Id => phase'[a] \in {"identify", "run"}
      BY <1>1, <1>5
    <3>4. QED
      BY <1>1, <1>5, <2>2, <3>1, <3>2, <3>3 DEF NoCall
  <2>3. QED
    BY <2>1, <2>2
<1>14. Ordered => Looks'
  BY <1>1, <1>4, <1>5 DEF Ordered, Looks, At, NoCall, DestroyedAfter
<1>15. Locked'
  BY <1>1, <1>4, <1>5 DEF IInv, Locked, TypeOK
<1>16. Ordered => Unlocked'
  BY <1>1, <1>4, <1>5, <1>6 DEF Ordered, Unlocked, NoCall, DestroyedAfter
<1>17. QED
  BY <1>7, <1>8, <1>9, <1>10, <1>11, <1>12, <1>13, <1>14, <1>15, <1>16 DEF IInv, Ordered

\* The lock is taken before anything is read.
LEMMA AcquireSafe ==
  ASSUME IInv, NEW a \in Actor, Acquire(a)
  PROVE  IInv' /\ (Ordered => Ordered')
<1> USE NamesAssumption DEF IInv, Acquire, At, Now, threadVars
<1>1. TypeOK'
  <2>1. /\ call' \in [Actor -> Call] /\ call'[a].pc = "read"
  BY PcMoves DEF TypeOK, Places
  <2>2. QED
    BY <2>1 DEF TypeOK
<1>2. Slots'
  BY DEF TypeOK, Slots, Call
<1>3. OwnersCall'
  BY DEF TypeOK, OwnersCall, Actor, Call
<1>4. Lives'
  BY DEF TypeOK, Lives, Active, Call
<1>5. Quits'
  <2>1. \A j \in Id : Rest(j)' = Rest(j)
    BY DEF Rest
  <2>2. QED
    BY <2>1 DEF TypeOK, Quits, Quitting, Ends, Ending
<1>6. DestroyedInOrder'
  BY DEF TypeOK, DestroyedInOrder, Ending, Call
<1>7. Calls'
  <2>1. /\ call'[a].pc = "read" /\ call'[a].target = call[a].target
        /\ \A b \in Actor : b # a => call'[b] = call[b] /\ NextSlot(b)' = NextSlot(b)
    BY PcMoves DEF TypeOK, Places
  <2>2. QED
    BY <2>1 DEF Calls
<1>8. Ordered => Looks'
  <2>1. \A b \in Actor : NextSlot(b)' = NextSlot(b)
    BY PcMoves DEF TypeOK, Places
  <2>2. QED
    BY <2>1 DEF TypeOK, Ordered, Looks, At, Actor, Call, DestroyedAfter
<1>9. Locked'
  BY DEF TypeOK, Locked, Actor, Call
<1>10. Ordered => Unlocked'
  BY DEF TypeOK, Ordered, Unlocked, Actor, Call, DestroyedAfter
<1>11. QED
  BY <1>1, <1>2, <1>3, <1>4, <1>5, <1>6, <1>7, <1>8, <1>9, <1>10 DEF IInv, Ordered

\* A slot that is set is set until the call ends.
LEMMA ReadThreadSafe ==
  ASSUME IInv, NEW a \in Actor, ReadThread(a)
  PROVE  IInv' /\ (Ordered => Ordered')
<1> USE NamesAssumption
<1>1. /\ call \in [Actor -> Call] /\ call[a].pc = "read"
      /\ call[a].target \in Id
      /\ a \in Id => phase[a] \in {"identify", "run"}
  BY DEF ReadThread, At, IInv, TypeOK, Calls
<1>2. UNCHANGED <<registered, object, started, loopSet, phase, loop, quitWhenIdle, event, queue,
                  owner, posted>>
  BY DEF ReadThread, threadVars
<1>3. /\ call' \in [Actor -> Call] /\ status' \in [Task -> Fates]
      /\ \A b \in Actor : b # a => call'[b] = call[b] /\ NextSlot(b)' = NextSlot(b)
      /\ \/ /\ call'[a] = NoCall
            /\ lock' = IF lock = a THEN Nobody ELSE lock
         \/ /\ call'[a].pc = "deref" /\ call'[a].target = call[a].target
            /\ registered[call[a].target] /\ lock' = lock
  <2>1. CASE registered[call[a].target]
    <3>1. Now(a, "deref") /\ UNCHANGED <<lock, status>>
      BY <2>1 DEF ReadThread
    <3>2. status' \in [Task -> Fates]
      BY <3>1 DEF IInv, TypeOK
    <3>3. QED
      BY <1>1, <2>1, <3>1, <3>2, PcMoves DEF Places
  <2>2. CASE ~registered[call[a].target]
    <3>1. Refuse(a)
      BY <2>2 DEF ReadThread
    <3>2. status' \in [Task -> Fates]
      BY <3>1 DEF IInv, TypeOK, Refuse, Fates
    <3>3. NoCall \in Call
      BY DEF NoCall, Call, Places
    <3>4. QED
      BY <1>1, <3>1, <3>2, <3>3, CallChanges DEF Refuse, Release
  <2>3. QED
    BY <2>1, <2>2
<1>4. TypeOK'
  <2>1. lock' \in Actor \cup {Nobody}
    BY <1>3 DEF IInv, TypeOK
  <2>2. lock' # Nobody => call'[lock'].pc \in {"read", "deref", "post"}
    BY <1>1, <1>3 DEF IInv, TypeOK
  <2>3. QED
    BY <1>2, <1>3, <2>1, <2>2 DEF IInv, TypeOK
<1>5. Slots'
  BY <1>2 DEF IInv, Slots
<1>6. OwnersCall'
  BY <1>1, <1>2, <1>3 DEF IInv, OwnersCall, Actor
<1>7. Lives'
  BY <1>1, <1>2, <1>3 DEF IInv, Lives, Active
<1>8. Quits'
  <2>1. \A j \in Id : Rest(j)' = Rest(j)
    BY <1>2 DEF Rest
  <2>2. QED
    BY <1>1, <1>2, <1>3, <2>1 DEF IInv, Quits, Quitting, Ends, Ending
<1>9. DestroyedInOrder'
  BY <1>2 DEF IInv, DestroyedInOrder, Ending
<1>10. Calls'
  BY <1>1, <1>2, <1>3 DEF IInv, Calls, NoCall, Call
<1>11. Ordered => Looks'
  BY <1>1, <1>2, <1>3 DEF Ordered, Looks, At, NoCall, DestroyedAfter
<1>12. Locked'
  BY <1>1, <1>2, <1>3 DEF IInv, Locked, TypeOK
<1>13. Ordered => Unlocked'
  BY <1>1, <1>2, <1>3 DEF Ordered, Unlocked, NoCall, DestroyedAfter
<1>14. QED
  BY <1>4, <1>5, <1>6, <1>7, <1>8, <1>9, <1>10, <1>11, <1>12, <1>13 DEF IInv, Ordered

\* A loop that is set, of a thread that is destroyed after the caller, is alive.
LEMMA ReadLoopSafe ==
  ASSUME IInv, NEW a \in Actor, ReadLoop(a)
  PROVE  IInv' /\ (Ordered => Ordered')
<1> USE NamesAssumption
<1>1. /\ call \in [Actor -> Call] /\ call[a].pc = "deref"
      /\ call[a].target \in Id
      /\ a \in Id => phase[a] \in {"identify", "run"}
  BY DEF ReadLoop, At, IInv, TypeOK, Calls
<1>2. UNCHANGED <<registered, object, started, loopSet, phase, loop, quitWhenIdle, event, queue,
                  owner, posted>>
  BY DEF ReadLoop, threadVars
<1>3. /\ call' \in [Actor -> Call] /\ status' \in [Task -> Fates]
      /\ \A b \in Actor : b # a => call'[b] = call[b] /\ NextSlot(b)' = NextSlot(b)
      /\ \/ /\ call'[a] = NoCall
            /\ lock' = IF lock = a THEN Nobody ELSE lock
         \/ /\ call'[a].pc = "post" /\ call'[a].target = call[a].target
            /\ loopSet[call[a].target] /\ lock' = lock
  <2>1. CASE loopSet[call[a].target]
    <3>1. Now(a, "post") /\ UNCHANGED <<lock, status>>
      BY <2>1 DEF ReadLoop
    <3>2. status' \in [Task -> Fates]
      BY <3>1 DEF IInv, TypeOK
    <3>3. QED
      BY <1>1, <2>1, <3>1, <3>2, PcMoves DEF Places
  <2>2. CASE ~loopSet[call[a].target]
    <3>1. Refuse(a)
      BY <2>2 DEF ReadLoop
    <3>2. status' \in [Task -> Fates]
      BY <3>1 DEF IInv, TypeOK, Refuse, Fates
    <3>3. NoCall \in Call
      BY DEF NoCall, Call, Places
    <3>4. QED
      BY <1>1, <3>1, <3>2, <3>3, CallChanges DEF Refuse, Release
  <2>3. QED
    BY <2>1, <2>2
<1>4. Ordered /\ lock # a /\ a \notin Worker =>
        /\ a \in Id
        /\ DestroyedAfter(call[a].target, a) =>
             /\ registered[call[a].target]
             /\ loopSet[call[a].target] => loop[call[a].target] = "alive"
  <2>1. SUFFICES ASSUME Ordered, lock # a, a \notin Worker
                 PROVE  /\ a \in Id
                        /\ DestroyedAfter(call[a].target, a) =>
                             /\ registered[call[a].target]
                             /\ loopSet[call[a].target] => loop[call[a].target] = "alive"
    OBVIOUS
  <2>2. a \in Id /\ (DestroyedAfter(call[a].target, a) => registered[call[a].target])
    BY <1>1, <2>1 DEF Ordered, Unlocked
  <2>3. QED
    BY <1>1, <2>2, TargetOutlives
<1>5. TypeOK'
  <2>1. lock' \in Actor \cup {Nobody}
    BY <1>3 DEF IInv, TypeOK
  <2>2. lock' # Nobody => call'[lock'].pc \in {"read", "deref", "post"}
    BY <1>1, <1>3 DEF IInv, TypeOK
  <2>3. QED
    BY <1>2, <1>3, <2>1, <2>2 DEF IInv, TypeOK
<1>6. Slots'
  BY <1>2 DEF IInv, Slots
<1>7. OwnersCall'
  BY <1>1, <1>2, <1>3 DEF IInv, OwnersCall, Actor
<1>8. Lives'
  BY <1>1, <1>2, <1>3 DEF IInv, Lives, Active
<1>9. Quits'
  <2>1. \A j \in Id : Rest(j)' = Rest(j)
    BY <1>2 DEF Rest
  <2>2. QED
    BY <1>1, <1>2, <1>3, <2>1 DEF IInv, Quits, Quitting, Ends, Ending
<1>10. DestroyedInOrder'
  BY <1>2 DEF IInv, DestroyedInOrder, Ending
<1>11. Calls'
  BY <1>1, <1>2, <1>3 DEF IInv, Calls, NoCall, Call
<1>12. Ordered => Looks'
  BY <1>1, <1>2, <1>3 DEF Ordered, Looks, At, NoCall, DestroyedAfter
<1>13. Locked'
  BY <1>1, <1>2, <1>3 DEF IInv, Locked, TypeOK
<1>14. Ordered => Unlocked'
  BY <1>1, <1>2, <1>3, <1>4 DEF Ordered, Unlocked, NoCall, DestroyedAfter
<1>15. QED
  BY <1>5, <1>6, <1>7, <1>8, <1>9, <1>10, <1>11, <1>12, <1>13, <1>14 DEF IInv, Ordered

\* What is posted is never the quit task.
LEMMA PostSafe ==
  ASSUME IInv, NEW a \in Actor, Post(a)
  PROVE  IInv' /\ (Ordered => Ordered')
<1> USE NamesAssumption
<1>1. /\ call \in [Actor -> Call] /\ call[a].pc = "post" /\ call[a].target \in Id
      /\ a \in Id => phase[a] \in {"identify", "run"}
  BY DEF Post, At, IInv, TypeOK, Calls
<1>2. Fate(a) \in Task /\ Fate(a) # Quit
  BY <1>1, FateIsTask
<1>3. NoCall \in Call
  BY DEF NoCall, Call, Places
<1>4. UNCHANGED <<registered, object, started, loopSet, phase, loop, quitWhenIdle, event, owner,
                  posted>>
  BY DEF Post, threadVars
<1>5. /\ call' \in [Actor -> Call]
      /\ \A b \in Actor : b # a => call'[b] = call[b] /\ NextSlot(b)' = NextSlot(b)
      /\ call'[a] = NoCall
      /\ lock' = IF lock = a THEN Nobody ELSE lock
      /\ status' \in [Task -> Fates]
      /\ queue' \in [Id -> Seq(Task \cup {Quit})]
  <2>1. /\ call' \in [Actor -> Call] /\ call'[a] = NoCall
        /\ \A b \in Actor : b # a => call'[b] = call[b] /\ NextSlot(b)' = NextSlot(b)
    BY <1>1, <1>3, CallChanges DEF Post
  <2>2. status' \in [Task -> Fates]
    BY <1>2 DEF Post, IInv, TypeOK, Fates
  <2>3. queue' \in [Id -> Seq(Task \cup {Quit})]
    <3>1. queue \in [Id -> Seq(Task \cup {Quit})]
      BY DEF IInv, TypeOK
    <3>2. Append(queue[call[a].target], Fate(a)) \in Seq(Task \cup {Quit})
      BY <1>1, <1>2, <3>1, AppendElements
    <3>3. \/ queue' = queue
          \/ queue' = [queue EXCEPT ![call[a].target] = Append(queue[call[a].target], Fate(a))]
      BY DEF Post
    <3>4. QED
      BY <3>1, <3>2, <3>3
  <2>4. QED
    BY <2>1, <2>2, <2>3 DEF Post, Release
<1>6. \A j \in Id : Rest(j)' \subseteq Rest(j) \cup {Fate(a)}
  <2> TAKE j \in Id
  <2>1. queue[j] \in Seq(Task \cup {Quit})
    BY DEF IInv, TypeOK
  <2>2. queue'[j] = queue[j] \/ queue'[j] = Append(queue[j], Fate(a))
    BY <1>1 DEF Post, IInv, TypeOK
  <2>3. Elements(Append(queue[j], Fate(a))) \subseteq Elements(queue[j]) \cup {Fate(a)}
    BY <1>2, <2>1, AppendElements
  <2>4. QED
    BY <2>2, <2>3 DEF Rest, Elements
<1>7. TypeOK'
  <2>1. lock' \in Actor \cup {Nobody}
    BY <1>5 DEF IInv, TypeOK
  <2>2. lock' # Nobody => call'[lock'].pc \in {"read", "deref", "post"}
    BY <1>1, <1>5 DEF IInv, TypeOK
  <2>3. QED
    BY <1>4, <1>5, <2>1, <2>2 DEF IInv, TypeOK
<1>8. Slots'
  BY <1>4 DEF IInv, Slots
<1>9. OwnersCall'
  BY <1>1, <1>4, <1>5 DEF IInv, OwnersCall, Actor
<1>10. Lives'
  BY <1>1, <1>4, <1>5 DEF IInv, Lives, Active
<1>11. Quits'
  BY <1>2, <1>4, <1>6 DEF IInv, Quits, Quitting, Ends, Ending
<1>12. DestroyedInOrder'
  BY <1>4 DEF IInv, DestroyedInOrder, Ending
<1>13. Calls'
  BY <1>1, <1>4, <1>5 DEF IInv, Calls, NoCall, Call
<1>14. Ordered => Looks'
  BY <1>1, <1>4, <1>5 DEF Ordered, Looks, At, NoCall, DestroyedAfter
<1>15. Locked'
  BY <1>1, <1>4, <1>5 DEF IInv, Locked, TypeOK
<1>16. Ordered => Unlocked'
  BY <1>1, <1>4, <1>5 DEF Ordered, Unlocked, NoCall, DestroyedAfter
<1>17. QED
  BY <1>7, <1>8, <1>9, <1>10, <1>11, <1>12, <1>13, <1>14, <1>15, <1>16 DEF IInv, Ordered

\* The thread has a loop from here.
LEMMA CreateLoopSafe ==
  ASSUME IInv, NEW i \in Id, CreateLoop(i)
  PROVE  IInv' /\ (Ordered => Ordered')
<1> USE NamesAssumption DEF IInv, CreateLoop, Step
<1>1. TypeOK'
  BY DEF TypeOK, Call, Places, Phases, Fates, Fate, Task, Actor
<1>2. Slots'
  BY DEF TypeOK, Slots, Call
<1>3. OwnersCall'
  BY DEF TypeOK, OwnersCall, Actor, Call
<1>4. Lives'
  BY DEF TypeOK, Lives, Active, Call
<1>5. Quits'
  <2>1. \A j \in Id : Rest(j)' = Rest(j)
    BY DEF Rest
  <2>2. QED
    BY <2>1 DEF TypeOK, Quits, Quitting, Ends, Ending
<1>6. DestroyedInOrder'
  BY DEF TypeOK, DestroyedInOrder, Ending, Call
<1>7. Calls'
  BY DEF TypeOK, Calls, Actor, Call
<1>8. Ordered => Looks'
  <2>1. \A b \in Actor : NextSlot(b)' = NextSlot(b)
    BY DEF NextSlot
  <2>2. QED
    BY <2>1 DEF TypeOK, Ordered, Looks, At, Actor, Call, DestroyedAfter
<1>9. Locked'
  BY DEF TypeOK, Locked, Actor, Call
<1>10. Ordered => Unlocked'
  BY DEF TypeOK, Ordered, Unlocked, Actor, Call, DestroyedAfter
<1>11. QED
  BY <1>1, <1>2, <1>3, <1>4, <1>5, <1>6, <1>7, <1>8, <1>9, <1>10 DEF IInv, Ordered

\* Init changes nothing of the registry.
LEMMA InitThreadSafe ==
  ASSUME IInv, NEW i \in Id, InitThread(i)
  PROVE  IInv' /\ (Ordered => Ordered')
<1> USE NamesAssumption DEF IInv, InitThread, Step
<1>1. TypeOK'
  BY DEF TypeOK, Call, Places, Phases, Fates, Fate, Task, Actor
<1>2. Slots'
  BY DEF TypeOK, Slots, Call
<1>3. OwnersCall'
  BY DEF TypeOK, OwnersCall, Actor, Call
<1>4. Lives'
  BY DEF TypeOK, Lives, Active, Call
<1>5. Quits'
  <2>1. \A j \in Id : Rest(j)' = Rest(j)
    BY DEF Rest
  <2>2. QED
    BY <2>1 DEF TypeOK, Quits, Quitting, Ends, Ending
<1>6. DestroyedInOrder'
  BY DEF TypeOK, DestroyedInOrder, Ending, Call
<1>7. Calls'
  BY DEF TypeOK, Calls, Actor, Call
<1>8. Ordered => Looks'
  <2>1. \A b \in Actor : NextSlot(b)' = NextSlot(b)
    BY DEF NextSlot
  <2>2. QED
    BY <2>1 DEF TypeOK, Ordered, Looks, At, Actor, Call, DestroyedAfter
<1>9. Locked'
  BY DEF TypeOK, Locked, Actor, Call
<1>10. Ordered => Unlocked'
  BY DEF TypeOK, Ordered, Unlocked, Actor, Call, DestroyedAfter
<1>11. QED
  BY <1>1, <1>2, <1>3, <1>4, <1>5, <1>6, <1>7, <1>8, <1>9, <1>10 DEF IInv, Ordered

\* Run asks who it is: its own slot is among those to look at.
LEMMA SignalStartedSafe ==
  ASSUME IInv, NEW i \in Id, SignalStarted(i)
  PROVE  IInv' /\ (Ordered => Ordered')
<1> USE NamesAssumption DEF IInv, SignalStarted, Step, Asks
<1>1. TypeOK'
  <2>1. Asks(Nobody) \in Call
    BY DEF Asks, Call, Places
  <2>2. call' \in [Actor -> Call] /\ \A b \in Actor : b # i => call'[b] = call[b]
    BY <2>1 DEF TypeOK
  <2>3. phase' \in [Id -> Phases] /\ event' \in [Id -> BOOLEAN]
    BY DEF TypeOK, Phases
  <2>4. lock # i
    <3>1. i \in Actor /\ i # Nobody
      BY DEF Actor
    <3>2. call[i].pc = "idle"
      BY <3>1 DEF Calls
    <3>3. lock = i => call[i].pc \in {"read", "deref", "post"}
      BY <3>1 DEF TypeOK
    <3>4. QED
      BY <3>2, <3>3
  <2>5. QED
    BY <2>2, <2>3, <2>4 DEF TypeOK
<1>2. Slots'
  BY DEF TypeOK, Slots, Call
<1>3. OwnersCall'
  BY DEF TypeOK, OwnersCall, Actor, Call
<1>4. Lives'
  BY DEF TypeOK, Lives, Active, Call
<1>5. Quits'
  <2>1. \A j \in Id : Rest(j)' = Rest(j)
    BY DEF Rest
  <2>2. QED
    BY <2>1 DEF TypeOK, Quits, Quitting, Ends, Ending
<1>6. DestroyedInOrder'
  BY DEF TypeOK, DestroyedInOrder, Ending, Call
<1>7. Calls'
  BY DEF TypeOK, Calls, Actor, Call
<1>8. Ordered => Looks'
  <2>1. \A b \in Actor : b # i => NextSlot(b)' = NextSlot(b)
    BY DEF TypeOK, NextSlot
  <2>2. QED
    BY <2>1 DEF TypeOK, Ordered, Looks, At, Actor, Call, DestroyedAfter
<1>9. Locked'
  BY DEF TypeOK, Locked, Actor, Call
<1>10. Ordered => Unlocked'
  BY DEF TypeOK, Ordered, Unlocked, Actor, Call, DestroyedAfter
<1>11. QED
  BY <1>1, <1>2, <1>3, <1>4, <1>5, <1>6, <1>7, <1>8, <1>9, <1>10 DEF IInv, Ordered

\* The quit task came from the destructor.
LEMMA QuitWhenIdleSafe ==
  ASSUME IInv, NEW i \in Id, QuitWhenIdle(i)
  PROVE  IInv' /\ (Ordered => Ordered')
<1> USE NamesAssumption DEF IInv, QuitWhenIdle, At
<1>1. TypeOK'
  <2>1. queue' \in [Id -> Seq(Task \cup {Quit})] /\ quitWhenIdle' \in [Id -> BOOLEAN]
    BY DEF TypeOK
  <2>2. QED
    BY <2>1 DEF TypeOK
<1>2. Slots'
  BY DEF TypeOK, Slots, Call
<1>3. OwnersCall'
  BY DEF TypeOK, OwnersCall, Actor, Call
<1>4. Lives'
  BY DEF TypeOK, Lives, Active, Call
<1>5. Quits'
  BY DEF TypeOK, Quits, Quitting, Ends, Ending, Rest, Call
<1>6. DestroyedInOrder'
  BY DEF TypeOK, DestroyedInOrder, Ending, Call
<1>7. Calls'
  BY DEF TypeOK, Calls, Actor, Call
<1>8. Ordered => Looks'
  <2>1. \A b \in Actor : NextSlot(b)' = NextSlot(b)
    BY DEF NextSlot
  <2>2. QED
    BY <2>1 DEF TypeOK, Ordered, Looks, At, Actor, Call, DestroyedAfter
<1>9. Locked'
  BY DEF TypeOK, Locked, Actor, Call
<1>10. Ordered => Unlocked'
  BY DEF TypeOK, Ordered, Unlocked, Actor, Call, DestroyedAfter
<1>11. QED
  BY <1>1, <1>2, <1>3, <1>4, <1>5, <1>6, <1>7, <1>8, <1>9, <1>10 DEF IInv, Ordered

\* The loop has run the quit task before it ends.
LEMMA QuitLoopSafe ==
  ASSUME IInv, NEW i \in Id, QuitLoop(i)
  PROVE  IInv' /\ (Ordered => Ordered')
<1> USE NamesAssumption DEF IInv, QuitLoop, At
<1>1. TypeOK'
  BY DEF TypeOK, Call, Places, Phases, Fates, Fate, Task, Actor
<1>2. Slots'
  BY DEF TypeOK, Slots, Call
<1>3. OwnersCall'
  BY DEF TypeOK, OwnersCall, Actor, Call
<1>4. Lives'
  BY DEF TypeOK, Lives, Active, Call
<1>5. Quits'
  <2>1. \A j \in Id : Rest(j)' = Rest(j)
    BY DEF Rest
  <2>2. QED
    BY <2>1 DEF TypeOK, Quits, Quitting, Ends, Ending
<1>6. DestroyedInOrder'
  BY DEF TypeOK, DestroyedInOrder, Ending, Call
<1>7. Calls'
  BY DEF TypeOK, Calls, Actor, Call
<1>8. Ordered => Looks'
  <2>1. \A b \in Actor : NextSlot(b)' = NextSlot(b)
    BY DEF NextSlot
  <2>2. QED
    BY <2>1 DEF TypeOK, Ordered, Looks, At, Actor, Call, DestroyedAfter
<1>9. Locked'
  BY DEF TypeOK, Locked, Actor, Call
<1>10. Ordered => Unlocked'
  BY DEF TypeOK, Ordered, Unlocked, Actor, Call, DestroyedAfter
<1>11. QED
  BY <1>1, <1>2, <1>3, <1>4, <1>5, <1>6, <1>7, <1>8, <1>9, <1>10 DEF IInv, Ordered

\* CleanUp changes nothing of the registry.
LEMMA CleanUpSafe ==
  ASSUME IInv, NEW i \in Id, CleanUp(i)
  PROVE  IInv' /\ (Ordered => Ordered')
<1> USE NamesAssumption DEF IInv, CleanUp, Step
<1>1. TypeOK'
  BY DEF TypeOK, Call, Places, Phases, Fates, Fate, Task, Actor
<1>2. Slots'
  BY DEF TypeOK, Slots, Call
<1>3. OwnersCall'
  BY DEF TypeOK, OwnersCall, Actor, Call
<1>4. Lives'
  BY DEF TypeOK, Lives, Active, Call
<1>5. Quits'
  <2>1. \A j \in Id : Rest(j)' = Rest(j)
    BY DEF Rest
  <2>2. QED
    BY <2>1 DEF TypeOK, Quits, Quitting, Ends, Ending
<1>6. DestroyedInOrder'
  BY DEF TypeOK, DestroyedInOrder, Ending, Call
<1>7. Calls'
  BY DEF TypeOK, Calls, Actor, Call
<1>8. Ordered => Looks'
  <2>1. \A b \in Actor : NextSlot(b)' = NextSlot(b)
    BY DEF NextSlot
  <2>2. QED
    BY <2>1 DEF TypeOK, Ordered, Looks, At, Actor, Call, DestroyedAfter
<1>9. Locked'
  BY DEF TypeOK, Locked, Actor, Call
<1>10. Ordered => Unlocked'
  BY DEF TypeOK, Ordered, Unlocked, Actor, Call, DestroyedAfter
<1>11. QED
  BY <1>1, <1>2, <1>3, <1>4, <1>5, <1>6, <1>7, <1>8, <1>9, <1>10 DEF IInv, Ordered

\* No call of the thread's is going on.
LEMMA ClearLoopSafe ==
  ASSUME IInv, NEW i \in Id, ClearLoop(i)
  PROVE  IInv' /\ (Ordered => Ordered')
<1> USE NamesAssumption DEF IInv, ClearLoop, Step
<1>1. TypeOK'
  BY DEF TypeOK, Call, Places, Phases, Fates, Fate, Task, Actor
<1>2. Slots'
  BY DEF TypeOK, Slots, Call
<1>3. OwnersCall'
  BY DEF TypeOK, OwnersCall, Actor, Call
<1>4. Lives'
  BY DEF TypeOK, Lives, Active, Call
<1>5. Quits'
  <2>1. \A j \in Id : Rest(j)' = Rest(j)
    BY DEF Rest
  <2>2. QED
    BY <2>1 DEF TypeOK, Quits, Quitting, Ends, Ending
<1>6. DestroyedInOrder'
  BY DEF TypeOK, DestroyedInOrder, Ending, Call
<1>7. Calls'
  BY DEF TypeOK, Calls, Actor, Call
<1>8. Ordered => Looks'
  <2>1. \A b \in Actor : NextSlot(b)' = NextSlot(b)
    BY DEF NextSlot
  <2>2. QED
    BY <2>1 DEF TypeOK, Ordered, Looks, At, Actor, Call, DestroyedAfter
<1>9. Locked'
  BY DEF TypeOK, Locked, Actor, Call
<1>10. Ordered => Unlocked'
  BY DEF TypeOK, Ordered, Unlocked, Actor, Call, DestroyedAfter
<1>11. QED
  BY <1>1, <1>2, <1>3, <1>4, <1>5, <1>6, <1>7, <1>8, <1>9, <1>10 DEF IInv, Ordered

\* Nobody who goes without the lock posts to a loop that ends.
LEMMA DestroyLoopSafe ==
  ASSUME IInv, NEW i \in Id, DestroyLoop(i)
  PROVE  IInv' /\ (Ordered => Ordered')
<1> USE NamesAssumption DEF IInv, DestroyLoop, Step
<1>1. TypeOK'
  <2>1. loop' \in [Id -> {"none", "alive", "dead"}] /\ phase' \in [Id -> Phases]
    BY DEF TypeOK, Phases
  <2>2. status' \in [Task -> Fates]
    BY DEF TypeOK, Fates
  <2>3. queue' \in [Id -> Seq(Task \cup {Quit})]
    BY DEF TypeOK
  <2>4. QED
    BY <2>1, <2>2, <2>3 DEF TypeOK
<1>2. Slots'
  BY DEF TypeOK, Slots, Call
<1>3. OwnersCall'
  BY DEF TypeOK, OwnersCall, Actor, Call
<1>4. Lives'
  BY DEF TypeOK, Lives, Active, Call
<1>5. Quits'
  BY DEF TypeOK, Quits, Quitting, Ends, Ending, Rest, Call
<1>6. DestroyedInOrder'
  BY DEF TypeOK, DestroyedInOrder, Ending, Call
<1>7. Calls'
  BY DEF TypeOK, Calls, Actor, Call
<1>8. Ordered => Looks'
  <2>1. \A b \in Actor : NextSlot(b)' = NextSlot(b)
    BY DEF NextSlot
  <2>2. QED
    BY <2>1 DEF TypeOK, Ordered, Looks, At, Actor, Call, DestroyedAfter
<1>9. Locked'
  BY DEF TypeOK, Locked, Actor, Call
<1>10. Ordered => Unlocked'
  <2> SUFFICES ASSUME Ordered, NEW a \in Actor \ Worker, call[a].pc = "post", lock # a,
                      DestroyedAfter(call[a].target, a)
               PROVE  loop'[call[a].target] = "alive"
    BY DEF Ordered, Unlocked, DestroyedAfter
  <2>1. a \in Id /\ registered[call[a].target] /\ loop[call[a].target] = "alive"
    BY DEF Ordered, Unlocked
  <2>2. call[a].target \in Id /\ phase[a] \in {"identify", "run"}
    BY <2>1 DEF Calls
  <2>3. call[a].target # i
    BY <2>1, <2>2, TargetOutlives
  <2>4. QED
    BY <2>1, <2>2, <2>3 DEF TypeOK
<1>11. QED
  BY <1>1, <1>2, <1>3, <1>4, <1>5, <1>6, <1>7, <1>8, <1>9, <1>10 DEF IInv, Ordered

\* RunTask takes a task from the queue, and the task may post.
LEMMA RunTaskSafe ==
  ASSUME IInv, NEW i \in Id, RunTask(i)
  PROVE  IInv' /\ (Ordered => Ordered')
<1>1. queue[i] \in Seq(Task \cup {Quit}) /\ queue[i] # <<>> /\ Head(queue[i]) # Quit
  BY DEF RunTask, IInv, TypeOK
<1>2. Tail(queue[i]) \in Seq(Task \cup {Quit}) /\ Head(queue[i]) \in Task
      /\ Elements(Tail(queue[i])) \subseteq Elements(queue[i])
  BY <1>1, TailElements
<1>3. /\ queue' \in [Id -> Seq(Task \cup {Quit})]
      /\ \A j \in Id : j # i => queue'[j] = queue[j]
      /\ queue'[i] = Tail(queue[i])
  BY <1>2 DEF RunTask, IInv, TypeOK
<1>4. \A j \in Id : Rest(j)' \subseteq Rest(j)
  <2>1. \A j \in Id : j # i => Rest(j)' = Rest(j)
    BY <1>3 DEF Rest
  <2>2. Rest(i)' = Elements(Tail(queue[i])) /\ Rest(i) = Elements(queue[i])
    BY <1>3 DEF Rest, Elements
  <2>3. QED
    BY <1>2, <2>1, <2>2
<1>5. status' \in [Task -> Fates]
  BY <1>2 DEF RunTask, IInv, TypeOK, Fates
<1>6. UNCHANGED <<threadVars, lock, owner>> /\ phase[i] = "run" /\ call[i].pc = "idle"
  BY DEF RunTask, At
<1>7. CASE UNCHANGED <<call, posted>>
  BY <1>3, <1>4, <1>5, <1>6, <1>7, KeepsSafe
<1>8. CASE CanPost(i) /\ \E t \in Id : BeginPost(i, t)
  <2>1. PICK t \in Id : BeginPost(i, t)
    BY <1>8
  <2>2. posted[i] < MaxPosts[i] /\ i \in Actor /\ i # Owner
    BY <1>8, NamesAssumption DEF CanPost, Actor
  <2>3. QED
    BY <1>3, <1>4, <1>5, <1>6, <2>1, <2>2, BeginsSafe
<1>9. QED
  BY <1>7, <1>8 DEF RunTask

\* The owner posts while it is idle.
LEMMA OwnerPostsSafe ==
  ASSUME IInv, NEW t \in Id, OwnerPosts(t)
  PROVE  IInv' /\ (Ordered => Ordered')
<1>1. Owner \in Actor /\ Owner \notin Id
  BY NamesAssumption DEF Actor
<1>2. /\ BeginPost(Owner, t) /\ call[Owner].pc = "idle" /\ posted[Owner] < MaxPosts[Owner]
      /\ owner.does = "idle" /\ UNCHANGED <<threadVars, lock, owner>>
      /\ queue' = queue /\ status' = status
  BY DEF OwnerPosts, OwnerFree, CanPost
<1>3. queue' \in [Id -> Seq(Task \cup {Quit})] /\ status' \in [Task -> Fates]
  BY <1>2 DEF IInv, TypeOK
<1>4. \A j \in Id : Rest(j)' \subseteq Rest(j)
  BY <1>2 DEF Rest
<1>5. QED
  BY <1>1, <1>2, <1>3, <1>4, BeginsSafe

\* A worker posts at any time.
LEMMA WorkerPostsSafe ==
  ASSUME IInv, NEW w \in Worker, NEW t \in Id, WorkerPosts(w, t)
  PROVE  IInv' /\ (Ordered => Ordered')
<1>1. w \in Actor /\ w \notin Id /\ w # Owner
  BY NamesAssumption DEF Actor
<1>2. /\ BeginPost(w, t) /\ call[w].pc = "idle" /\ posted[w] < MaxPosts[w]
      /\ UNCHANGED <<threadVars, lock, owner>> /\ queue' = queue /\ status' = status
  BY DEF WorkerPosts, CanPost
<1>3. queue' \in [Id -> Seq(Task \cup {Quit})] /\ status' \in [Task -> Fates]
  BY <1>2 DEF IInv, TypeOK
<1>4. \A j \in Id : Rest(j)' \subseteq Rest(j)
  BY <1>2 DEF Rest
<1>5. QED
  BY <1>1, <1>2, <1>3, <1>4, BeginsSafe

(***************************************************************************)
(* The theorems.                                                           *)
(***************************************************************************)

\* Nothing is registered at first, and nobody calls.
LEMMA InitSafe == Init => IInv /\ Looks /\ Unlocked
<1> SUFFICES ASSUME Init PROVE IInv /\ Looks /\ Unlocked
  OBVIOUS
<1> USE NamesAssumption
<1>1. NoCall \in Call
  BY DEF NoCall, Call, Places
<1>2. \A a \in Actor : call[a] = NoCall
  BY DEF Init
<1>3. TypeOK
  BY <1>1, BoundsAssumption DEF Init, TypeOK, Phases, Fates, Idle
<1>4. Slots /\ Lives /\ DestroyedInOrder /\ Locked
  BY DEF Init, Slots, Lives, Active, DestroyedInOrder, Ending, Locked, Idle
<1>5. OwnersCall /\ Calls /\ Looks /\ Unlocked
  BY <1>2 DEF Init, OwnersCall, Calls, Looks, Unlocked, NoCall, At, Idle
<1>6. Quits
  BY DEF Init, Quits, Quitting, Rest
<1>7. QED
  BY <1>3, <1>4, <1>5, <1>6 DEF IInv

\* Every step keeps the invariant, and what the order gives.
LEMMA StepSafe == IInv /\ [Next]_vars => IInv' /\ (Ordered => Ordered')
<1> SUFFICES ASSUME IInv, [Next]_vars PROVE IInv' /\ (Ordered => Ordered')
  OBVIOUS
<1>1. CASE OwnerBegins
  BY <1>1, InitializeSafe, StartWithOptionsSafe, StopSafe, OwnerPostsSafe DEF OwnerBegins
<1>2. CASE OwnerGoesOn
  BY <1>2, StartReturnsSafe, JoinSafe, UnregisterSafe, DeleteSafe DEF OwnerGoesOn
<1>3. CASE \E w \in Worker, t \in Id : WorkerPosts(w, t)
  BY <1>3, WorkerPostsSafe
<1>4. CASE \E a \in Actor : CallStep(a)
  BY <1>4, ScanSafe, LookSafe, AcquireSafe, ReadThreadSafe, ReadLoopSafe, PostSafe DEF CallStep
<1>5. CASE \E i \in Id : ThreadStep(i)
  BY <1>5, CreateLoopSafe, InitThreadSafe, SignalStartedSafe, RunTaskSafe,
     QuitWhenIdleSafe, QuitLoopSafe, CleanUpSafe, ClearLoopSafe, DestroyLoopSafe DEF ThreadStep
<1>6. CASE UNCHANGED vars
  <2>1. UNCHANGED <<threadVars, lock, owner, call, posted>> /\ queue' = queue /\ status' = status
    BY <1>6 DEF vars, threadVars
  <2>2. queue' \in [Id -> Seq(Task \cup {Quit})] /\ status' \in [Task -> Fates]
    BY <2>1 DEF IInv, TypeOK
  <2>3. \A j \in Id : Rest(j)' \subseteq Rest(j)
    BY <2>1 DEF Rest
  <2>4. QED
    BY <2>1, <2>2, <2>3, KeepsSafe
<1>7. QED
  BY <1>1, <1>2, <1>3, <1>4, <1>5, <1>6 DEF Next

\* Every variable of the registry and its threads keeps its type, in whatever
\* order the owner destroys the threads; a held lock is held by a call between
\* taking it and releasing it.
THEOREM TypeCorrect == Spec => []TypeOK
<1>1. Init => IInv
  BY InitSafe
<1>2. IInv /\ [Next]_vars => IInv'
  BY StepSafe
<1>3. IInv => TypeOK
  BY DEF IInv
<1>4. QED
  BY <1>1, <1>2, <1>3, PTL DEF Spec

\* A thread that is deleted is not in its slot, and the slot that a caller has
\* read stays set until the caller is done with the thread.
LEMMA SafeNow == IInv /\ Ordered => RegistryIsSafe
<1> SUFFICES ASSUME IInv, Ordered PROVE RegistryIsSafe
  OBVIOUS
<1>1. NoUseAfterDelete
  <2> SUFFICES ASSUME NEW a \in Actor, NEW i \in AboutToRead(a),
                      lock = a \/ DestroyedAfter(i, a)
               PROVE  object[i] # "deleted"
    BY DEF NoUseAfterDelete
  <2>1. i \in Id /\ lock # a => a \in Actor \ Worker
    BY OwnSlotOrOwner
  <2>2. lock = a => lock # Nobody /\ call[a].pc \in {"read", "deref", "post"}
    BY NamesAssumption DEF IInv, TypeOK
  <2>3. CASE call[a].pc = "look"
    <3>1. call[a].rest \subseteq Id /\ call[a].rest # {}
      BY <2>3 DEF IInv, TypeOK, Call, Calls
    <3>2. i = NextSlot(a) /\ i \in Id
      BY <2>3, <3>1, FirstSlot DEF AboutToRead, At
    <3>3. registered[i]
      BY <2>1, <2>2, <2>3, <3>2 DEF Ordered, Looks, At
    <3>4. QED
      BY <3>2, <3>3 DEF IInv, Slots
  <2>4. CASE call[a].pc = "deref"
    <3>1. i = call[a].target /\ i \in Id
      BY <2>4 DEF AboutToRead, At, IInv, Calls
    <3>2. registered[i]
      BY <2>1, <2>2, <2>4, <3>1 DEF IInv, Locked, Ordered, Unlocked
    <3>3. QED
      BY <3>1, <3>2 DEF IInv, Slots
  <2>5. QED
    BY <2>3, <2>4 DEF AboutToRead, At
<1>2. UnlockedPostIsSafe
  <2> SUFFICES ASSUME NEW a \in Actor, call[a].pc = "post", lock # a,
                      DestroyedAfter(call[a].target, a)
               PROVE  loop[call[a].target] = "alive"
    BY DEF UnlockedPostIsSafe, At
  <2>1. a \in Actor \ Worker
    BY OwnSlotOrOwner DEF IInv, Calls
  <2>2. QED
    BY <2>1 DEF Ordered, Unlocked
<1>3. QED
  BY <1>1, <1>2 DEF RegistryIsSafe

\* In whatever order the owner destroys its threads, no thread object that is
\* deleted is read under the lock or by a thread that is destroyed before it, and
\* such a thread, when it skips the lock, finds the loop it posts to alive.
THEOREM RegistrySafe == Spec => []RegistryIsSafe
<1>1. Init => IInv /\ Ordered
  BY InitSafe DEF Ordered
<1>2. (IInv /\ Ordered) /\ [Next]_vars => (IInv /\ Ordered)'
  BY StepSafe
<1>3. IInv /\ Ordered => RegistryIsSafe
  BY SafeNow
<1>4. QED
  BY <1>1, <1>2, <1>3, PTL DEF Spec

(***************************************************************************)
(* What the owner posts counts.                                            *)
(***************************************************************************)

OwnersTask == {Owner} \X (1..MaxPosts[Owner])

\* Start has waited for the loop, and the destructor for the end of the thread.
Begun ==
  \A i \in Id :
    /\ event[i] \/ started[i] => phase[i] \notin {"none", "created", "init", "signal"}
    /\ object[i] = "none" => phase[i] = "none"
    /\ object[i] = "deleted" => ~started[i]
    /\ owner.does = "start" /\ owner.id = i => object[i] = "alive"
    /\ owner.does \in {"unregister", "delete"} /\ owner.id = i => ~started[i]

\* The owner is in no slot, so that it takes the lock for each of its posts, and while
\* it posts it destroys nobody.
OwnerLocks ==
  /\ call[Owner].pc # "idle" => call[Owner].target \in Id
  /\ call[Owner].pc \in {"read", "deref", "post"} => lock = Owner
  /\ call[Owner].pc = "post" => loopSet[call[Owner].target]

\* The owner's tasks come before the task that quits the loop.
Before(q) == \A j, k \in 1..Len(q) : q[j] = Quit /\ q[k] \in OwnersTask => k < j
QuitIsLast ==
  \A i \in Id :
    /\ Quitting(i) => Rest(i) \cap OwnersTask = {}
    /\ Before(queue[i])

Posting == Begun /\ OwnerLocks /\ QuitIsLast /\ OwnersTasksRun

\* The owner's tasks are tasks, and none of them quits a loop.
LEMMA OwnersTaskType == OwnersTask \subseteq Task /\ Quit \notin OwnersTask
<1>1. Owner \in Actor
  BY DEF Actor
<1>2. OwnersTask \subseteq Task
  BY <1>1 DEF OwnersTask, Task
<1>3. QED
  BY <1>2, QuitAssumption DEF Task

\* A post begins with a search.
LEMMA AsksType == \A t \in Id : Asks(t) \in Call
  BY DEF Asks, Call, Places

\* The thread the owner is about to post to is not being destroyed.
LEMMA OwnersTarget ==
  ASSUME IInv, OwnerLocks, call[Owner].pc \in {"deref", "post"},
         NEW i \in Id, i = call[Owner].target
  PROVE  ~Quitting(i) /\ Quit \notin Rest(i)
<1>1. lock = Owner /\ Owner # Nobody
  BY NamesAssumption DEF OwnerLocks, Actor
<1>2. registered[i]
  BY <1>1 DEF IInv, Locked
<1>3. object[i] = "alive"
  BY <1>2 DEF IInv, Slots
<1>4. ~Ends(i)
  BY DEF IInv, OwnersCall, Ends, Ending
<1>5. QED
  BY <1>3, <1>4 DEF IInv, Quits

\* A step of another's call leaves the owner's, and its lock.
LEMMA OthersCall ==
  ASSUME IInv, NEW a \in Actor, a # Owner, CallStep(a)
  PROVE  call'[Owner] = call[Owner] /\ loopSet' = loopSet /\ (lock = Owner => lock' = Owner)
<1>1. Owner \in Actor /\ Owner # Nobody /\ call \in [Actor -> Call]
  BY NamesAssumption DEF Actor, IInv, TypeOK
<1>2. CASE Scan(a)
  BY <1>1, <1>2 DEF Scan, Identified
<1>3. CASE Look(a)
  BY <1>1, <1>3 DEF Look, Identified
<1>4. CASE Acquire(a)
  BY <1>1, <1>4 DEF Acquire, Now, threadVars
<1>5. CASE ReadThread(a)
  BY <1>1, <1>5 DEF ReadThread, Now, Refuse, Release, threadVars
<1>6. CASE ReadLoop(a)
  BY <1>1, <1>6 DEF ReadLoop, Now, Refuse, Release, threadVars
<1>7. CASE Post(a)
  BY <1>1, <1>7 DEF Post, Release, threadVars
<1>8. QED
  BY <1>2, <1>3, <1>4, <1>5, <1>6, <1>7 DEF CallStep

\* The owner's own call goes on to the lock, whatever it finds in the slots.
LEMMA OwnersCallStep ==
  ASSUME IInv, OwnerLocks, CallStep(Owner)
  PROVE  OwnerLocks' /\ loopSet' = loopSet
<1>1. /\ Owner \in Actor /\ Owner # Nobody /\ Owner \notin Worker /\ Owner \notin Id
      /\ Nobody \notin Id
      /\ call \in [Actor -> Call] /\ call[Owner] \in Call
  BY NamesAssumption DEF Actor, IInv, TypeOK
<1>2. CASE Scan(Owner)
  <2>1. ~Outlives(call[Owner].target, Nobody) /\ call[Owner].target # Nobody
    BY <1>1, <1>2 DEF Outlives, Scan, At, OwnerLocks
  <2>2. CASE call[Owner].rest = {}
    <3>1. Identified(Owner, Nobody) /\ phase \in [Id -> Phases]
      BY <1>2, <2>2 DEF Scan, IInv, TypeOK
    <3>2. \/ call'[Owner] = NoCall
          \/ /\ call'[Owner].target = call[Owner].target
             /\ call'[Owner].pc \in {"lock", "read"}
             /\ call'[Owner].pc = "read" => Outlives(call[Owner].target, Nobody)
      BY <1>1, <3>1, SearchEnds
    <3>3. QED
      BY <1>2, <2>1, <3>2 DEF OwnerLocks, Scan, At, NoCall
  <2>3. CASE call[Owner].rest # {}
    <3>1. /\ call'[Owner].pc \in {"look", "scan"}
          /\ call'[Owner].target = call[Owner].target
      BY <1>1, <1>2, <2>3 DEF Scan, At, Call
    <3>2. QED
      BY <1>2, <3>1 DEF OwnerLocks, Scan, At
  <2>4. QED
    BY <2>2, <2>3
<1>3. CASE Look(Owner)
  <2>1. call[Owner].rest \subseteq Id /\ call[Owner].rest # {}
    BY <1>1, <1>3 DEF Look, At, IInv, Calls, Call
  <2>2. NextSlot(Owner) # Owner
    BY <1>1, <2>1, FirstSlot
  <2>3. call'[Owner].pc = "scan" /\ call'[Owner].target = call[Owner].target
    BY <1>1, <1>3, <2>2 DEF Look, IsCurrent, Call
  <2>4. QED
    BY <1>3, <2>3 DEF OwnerLocks, Look, At
<1>4. CASE Acquire(Owner)
  BY <1>1, <1>4 DEF Acquire, Now, At, OwnerLocks, threadVars, Call
<1>5. CASE ReadThread(Owner)
  BY <1>1, <1>5 DEF ReadThread, Now, At, Refuse, NoCall, OwnerLocks, threadVars, Call
<1>6. CASE ReadLoop(Owner)
  BY <1>1, <1>6 DEF ReadLoop, Now, At, Refuse, NoCall, OwnerLocks, threadVars, Call
<1>7. CASE Post(Owner)
  BY <1>1, <1>7 DEF Post, NoCall, OwnerLocks, threadVars, Call
<1>8. QED
  BY <1>2, <1>3, <1>4, <1>5, <1>6, <1>7 DEF CallStep

\* No step lets the owner post without the lock, or to a loop that is going.
LEMMA OwnerLocksStep ==
  ASSUME IInv, OwnerLocks, [Next]_vars
  PROVE  OwnerLocks'
<1>1. /\ Owner \in Actor /\ Owner \notin Worker /\ Owner \notin Id
      /\ call \in [Actor -> Call] /\ loopSet \in [Id -> BOOLEAN]
  BY NamesAssumption DEF Actor, IInv, TypeOK
<1>2. ASSUME UNCHANGED <<call, lock, loopSet>> PROVE OwnerLocks'
  BY <1>2 DEF OwnerLocks
<1>3. ASSUME UNCHANGED <<lock, loopSet>>, call'[Owner] = call[Owner] PROVE OwnerLocks'
  BY <1>3 DEF OwnerLocks
<1>4. CASE OwnerBegins
  <2>1. CASE \E i \in Id : Initialize(i) \/ StartWithOptions(i) \/ Stop(i)
    BY <1>2, <2>1 DEF Initialize, StartWithOptions, Stop, threadVars
  <2>2. ASSUME NEW i \in Id, OwnerPosts(i) PROVE OwnerLocks'
    <3>1. call'[Owner] = Asks(i)
      <4>1. call' = [call EXCEPT ![Owner] = Asks(i)]
        BY <2>2 DEF OwnerPosts, BeginPost
      <4>2. Asks(i) \in Call
        BY <2>2, AsksType
      <4>3. QED
        BY <1>1, <4>1, <4>2, CallChanges
    <3>2. call'[Owner].pc = "scan" /\ call'[Owner].target = i
      BY <3>1 DEF Asks
    <3>3. QED
      BY <3>2 DEF OwnerLocks
  <2>3. QED
    BY <1>4, <2>1, <2>2 DEF OwnerBegins
<1>5. CASE OwnerGoesOn
  BY <1>2, <1>5 DEF OwnerGoesOn, StartReturns, Join, Unregister, Delete
<1>6. CASE \E w \in Worker, t \in Id : WorkerPosts(w, t)
  BY <1>1, <1>3, <1>6 DEF WorkerPosts, BeginPost, threadVars
<1>7. CASE \E a \in Actor : CallStep(a)
  <2>1. PICK a \in Actor : CallStep(a)
    BY <1>7
  <2>2. CASE a = Owner
    BY <2>1, <2>2, OwnersCallStep
  <2>3. CASE a # Owner
    BY <2>1, <2>3, OthersCall DEF OwnerLocks
  <2>4. QED
    BY <2>2, <2>3
<1>8. ASSUME NEW i \in Id, ThreadStep(i) PROVE OwnerLocks'
  <2>1. CASE CreateLoop(i)
    BY <1>1, <2>1 DEF CreateLoop, OwnerLocks
  <2>2. CASE InitThread(i) \/ QuitWhenIdle(i) \/ QuitLoop(i) \/ CleanUp(i) \/ DestroyLoop(i)
    BY <1>2, <2>2 DEF InitThread, QuitWhenIdle, QuitLoop, CleanUp, DestroyLoop
  <2>3. CASE SignalStarted(i)
    BY <1>1, <1>3, <2>3 DEF SignalStarted
  <2>4. CASE RunTask(i)
    <3>1. UNCHANGED <<lock, loopSet>> /\ i # Owner
      BY <1>1, <2>4 DEF RunTask, threadVars
    <3>2. UNCHANGED call \/ \E t \in Id : call' = [call EXCEPT ![i] = Asks(t)]
      BY <2>4 DEF RunTask, BeginPost
    <3>3. call'[Owner] = call[Owner]
      <4>1. ASSUME NEW t \in Id, call' = [call EXCEPT ![i] = Asks(t)]
            PROVE  call'[Owner] = call[Owner]
        BY <1>1, <3>1, <4>1, AsksType, CallChanges DEF Actor
      <4>2. QED
        BY <3>2, <4>1
    <3>4. QED
      BY <1>3, <3>1, <3>3
  <2>5. CASE ClearLoop(i)
    <3>1. ASSUME call[Owner].pc = "post" PROVE call[Owner].target # i
      BY <2>5, <3>1, OwnersTarget DEF ClearLoop, Step, Quitting
    <3>2. QED
      BY <1>1, <2>5, <3>1 DEF ClearLoop, OwnerLocks
  <2>6. QED
    BY <1>8, <2>1, <2>2, <2>3, <2>4, <2>5 DEF ThreadStep
<1>9. CASE UNCHANGED vars
  BY <1>2, <1>9 DEF vars
<1>10. QED
  BY <1>4, <1>5, <1>6, <1>7, <1>8, <1>9 DEF Next

\* Nobody starts before its loop is there, and nobody is deleted before its join.
LEMMA BegunStep ==
  ASSUME IInv, Begun, [Next]_vars
  PROVE  Begun'
<1>1. /\ event \in [Id -> BOOLEAN] /\ started \in [Id -> BOOLEAN] /\ phase \in [Id -> Phases]
      /\ object \in [Id -> {"none", "alive", "deleted"}]
      /\ owner \in [does : {"idle", "start", "join", "unregister", "delete"}, id : Id \cup {Nobody}]
      /\ owner.does # "idle" => owner.id \in Id
  BY DEF IInv, TypeOK, OwnersCall
<1>2. ASSUME UNCHANGED <<event, started, phase, object, owner>> PROVE Begun'
  BY <1>2 DEF Begun
<1>3. CASE OwnerBegins
  <2>1. ASSUME NEW i \in Id, Initialize(i) PROVE Begun'
    BY <1>1, <2>1 DEF Initialize, OwnerFree, Begun
  <2>2. ASSUME NEW i \in Id, StartWithOptions(i) PROVE Begun'
    BY <1>1, <2>2 DEF StartWithOptions, OwnerFree, Begun
  <2>3. ASSUME NEW i \in Id, Stop(i) PROVE Begun'
    BY <1>1, <2>3 DEF Stop, MayDestroy, OwnerFree, Begun, threadVars
  <2>4. CASE \E i \in Id : OwnerPosts(i)
    BY <1>2, <2>4 DEF OwnerPosts, threadVars
  <2>5. QED
    BY <1>3, <2>1, <2>2, <2>3, <2>4 DEF OwnerBegins
<1>4. CASE StartReturns
  BY <1>1, <1>4 DEF StartReturns, Idle, Begun
<1>5. CASE Join
  BY <1>1, <1>5 DEF Join, Begun
<1>6. CASE Unregister
  BY <1>1, <1>6 DEF Unregister, Begun
<1>7. CASE Delete
  BY <1>1, <1>7 DEF Delete, Idle, Begun
<1>8. CASE \E w \in Worker, t \in Id : WorkerPosts(w, t)
  BY <1>2, <1>8 DEF WorkerPosts, threadVars
<1>9. ASSUME NEW a \in Actor, CallStep(a) PROVE Begun'
  <2>1. CASE Scan(a) \/ Look(a)
    <3>1. /\ UNCHANGED <<event, started, object, owner>>
          /\ \/ UNCHANGED phase
             \/ call[a].pc # "idle" /\ phase' = [phase EXCEPT ![a] = "run"]
      BY <2>1 DEF Scan, Look, Identified, At
    <3>2. a \in Id /\ call[a].pc # "idle" => phase[a] \in {"identify", "run"} /\ object[a] # "none"
      BY DEF IInv, Calls, Lives
    <3>3. QED
      BY <1>1, <3>1, <3>2 DEF Begun
  <2>2. CASE Acquire(a) \/ ReadThread(a) \/ ReadLoop(a) \/ Post(a)
    BY <1>2, <2>2 DEF Acquire, ReadThread, ReadLoop, Post, threadVars
  <2>3. QED
    BY <1>9, <2>1, <2>2 DEF CallStep
<1>10. ASSUME NEW i \in Id, ThreadStep(i) PROVE Begun'
  <2>1. CASE CreateLoop(i)
    BY <1>1, <2>1 DEF CreateLoop, Step, Begun
  <2>2. CASE InitThread(i)
    BY <1>1, <2>2 DEF InitThread, Step, Begun
  <2>3. CASE SignalStarted(i)
    BY <1>1, <2>3 DEF SignalStarted, Step, Begun
  <2>4. CASE RunTask(i) \/ QuitWhenIdle(i)
    BY <1>2, <2>4 DEF RunTask, QuitWhenIdle, threadVars
  <2>5. CASE QuitLoop(i)
    BY <1>1, <2>5 DEF QuitLoop, Begun
  <2>6. CASE CleanUp(i)
    BY <1>1, <2>6 DEF CleanUp, Step, Begun
  <2>7. CASE ClearLoop(i)
    BY <1>1, <2>7 DEF ClearLoop, Step, Begun
  <2>8. CASE DestroyLoop(i)
    BY <1>1, <2>8 DEF DestroyLoop, Step, Begun
  <2>9. QED
    BY <1>10, <2>1, <2>2, <2>3, <2>4, <2>5, <2>6, <2>7, <2>8 DEF ThreadStep
<1>11. CASE UNCHANGED vars
  BY <1>2, <1>11 DEF vars
<1>12. QED
  BY <1>3, <1>4, <1>5, <1>6, <1>7, <1>8, <1>9, <1>10, <1>11 DEF Next, OwnerGoesOn

\* A task goes to the end of the queue; one of the owner's only when Quit is not there.
LEMMA BeforeAppend ==
  ASSUME NEW q \in Seq(Task \cup {Quit}), NEW e \in Task \cup {Quit}, Before(q),
         e \in OwnersTask => Quit \notin Elements(q)
  PROVE  Before(Append(q, e))
<1>1. SUFFICES ASSUME NEW j \in 1..(Len(q) + 1), NEW k \in 1..(Len(q) + 1),
                      Append(q, e)[j] = Quit, Append(q, e)[k] \in OwnersTask
               PROVE  k < j
  BY DEF Before
<1>2. Len(q) \in Nat /\ j \in Nat /\ k \in Nat
  OBVIOUS
<1>3. CASE j = Len(q) + 1 /\ k = Len(q) + 1
  BY <1>1, <1>3, OwnersTaskType
<1>4. CASE j = Len(q) + 1 /\ k # Len(q) + 1
  BY <1>2, <1>4
<1>5. CASE j # Len(q) + 1 /\ k = Len(q) + 1
  <2>1. j \in 1..Len(q) /\ q[j] = Quit /\ e \in OwnersTask
    BY <1>1, <1>2, <1>5
  <2>2. QED
    BY <2>1 DEF Elements
<1>6. CASE j # Len(q) + 1 /\ k # Len(q) + 1
  <2>1. j \in 1..Len(q) /\ k \in 1..Len(q) /\ q[j] = Quit /\ q[k] \in OwnersTask
    BY <1>1, <1>2, <1>6
  <2>2. QED
    BY <2>1 DEF Before
<1>7. QED
  BY <1>3, <1>4, <1>5, <1>6

\* Behind Quit there is no task of the owner's.
LEMMA BeforeTail ==
  ASSUME NEW q \in Seq(Task \cup {Quit}), q # <<>>, Before(q)
  PROVE  /\ Before(Tail(q))
         /\ Head(q) = Quit => Elements(Tail(q)) \cap OwnersTask = {}
<1>1. /\ Len(q) \in Nat /\ 1 \in 1..Len(q) /\ Len(Tail(q)) = Len(q) - 1 /\ Head(q) = q[1]
      /\ \A k \in 1..Len(Tail(q)) : k + 1 \in 1..Len(q) /\ Tail(q)[k] = q[k + 1]
  OBVIOUS
<1>2. Before(Tail(q))
  <2>1. SUFFICES ASSUME NEW j \in 1..Len(Tail(q)), NEW k \in 1..Len(Tail(q)),
                        Tail(q)[j] = Quit, Tail(q)[k] \in OwnersTask
                 PROVE  k < j
    BY DEF Before
  <2>2. j + 1 \in 1..Len(q) /\ k + 1 \in 1..Len(q) /\ q[j + 1] = Quit /\ q[k + 1] \in OwnersTask
    BY <1>1, <2>1
  <2>3. k + 1 < j + 1
    BY <2>2 DEF Before
  <2>4. QED
    BY <2>3
<1>3. ASSUME Head(q) = Quit, NEW k \in 1..Len(Tail(q)), Tail(q)[k] \in OwnersTask PROVE FALSE
  <2>1. k + 1 \in 1..Len(q) /\ q[k + 1] \in OwnersTask /\ q[1] = Quit
    BY <1>1, <1>3
  <2>2. k + 1 < 1
    BY <1>1, <2>1 DEF Before
  <2>3. QED
    BY <2>2
<1>4. QED
  BY <1>2, <1>3 DEF Elements

\* The queue of a thread that has been told to quit.
LEMMA QuitIsLastStep ==
  ASSUME IInv, OwnerLocks, QuitIsLast, [Next]_vars
  PROVE  QuitIsLast'
<1>1. /\ queue \in [Id -> Seq(Task \cup {Quit})] /\ phase \in [Id -> Phases]
      /\ quitWhenIdle \in [Id -> BOOLEAN]
      /\ call \in [Actor -> Call] /\ Owner \in Actor /\ Id \subseteq Actor
  BY DEF IInv, TypeOK, Actor
<1>2. \A i \in Id : Rest(i) = Elements(queue[i]) /\ Rest(i)' = Elements(queue'[i])
  BY DEF Rest, Elements
<1>3. ASSUME UNCHANGED queue, \A j \in Id : Quitting(j)' => Quitting(j)
      PROVE  QuitIsLast'
  BY <1>2, <1>3 DEF QuitIsLast
<1>4. ASSUME UNCHANGED <<queue, phase, quitWhenIdle>> PROVE QuitIsLast'
  BY <1>3, <1>4 DEF Quitting
<1>5. ASSUME NEW i \in Id, NEW e \in Task \cup {Quit}, UNCHANGED <<phase, quitWhenIdle>>,
             queue' = [queue EXCEPT ![i] = Append(@, e)],
             e \in OwnersTask => ~Quitting(i) /\ Quit \notin Rest(i)
      PROVE  QuitIsLast'
  <2>1. \A j \in Id : Quitting(j)' <=> Quitting(j)
    BY <1>5 DEF Quitting
  <2>2. \A j \in Id : j # i => queue'[j] = queue[j]
    BY <1>1, <1>5
  <2>3. queue'[i] = Append(queue[i], e) /\ queue[i] \in Seq(Task \cup {Quit})
    BY <1>1, <1>5
  <2>4. Elements(queue'[i]) = Elements(queue[i]) \cup {e}
    BY <2>3, AppendElements
  <2>5. Before(queue'[i])
    BY <1>2, <1>5, <2>3, BeforeAppend DEF QuitIsLast
  <2>6. Quitting(i) => Rest(i)' \cap OwnersTask = {}
    BY <1>2, <1>5, <2>4 DEF QuitIsLast
  <2>7. QED
    BY <1>2, <2>1, <2>2, <2>5, <2>6 DEF QuitIsLast
<1>6. ASSUME NEW i \in Id, queue[i] # <<>>, queue' = [queue EXCEPT ![i] = Tail(@)],
             \A j \in Id : Quitting(j)' => Quitting(j) \/ (j = i /\ Head(queue[i]) = Quit)
      PROVE  QuitIsLast'
  <2>1. \A j \in Id : j # i => queue'[j] = queue[j]
    BY <1>1, <1>6
  <2>2. queue'[i] = Tail(queue[i]) /\ queue[i] \in Seq(Task \cup {Quit})
    BY <1>1, <1>6
  <2>3. Elements(queue'[i]) \subseteq Elements(queue[i])
    BY <1>6, <2>2, TailElements
  <2>4. Before(queue'[i]) /\ (Head(queue[i]) = Quit => Rest(i)' \cap OwnersTask = {})
    BY <1>2, <1>6, <2>2, BeforeTail DEF QuitIsLast
  <2>5. Quitting(i)' => Rest(i)' \cap OwnersTask = {}
    BY <1>2, <1>6, <2>3, <2>4 DEF QuitIsLast
  <2>6. QED
    BY <1>2, <1>6, <2>1, <2>4, <2>5 DEF QuitIsLast
<1>7. CASE OwnerBegins
  <2>1. CASE \E i \in Id : Initialize(i) \/ OwnerPosts(i)
    BY <1>4, <2>1 DEF Initialize, OwnerPosts, threadVars
  <2>2. ASSUME NEW i \in Id, StartWithOptions(i) PROVE QuitIsLast'
    BY <1>1, <1>3, <2>2 DEF StartWithOptions, Quitting
  <2>3. ASSUME NEW i \in Id, Stop(i) PROVE QuitIsLast'
    <3>1. UNCHANGED <<phase, quitWhenIdle>>
      BY <2>3 DEF Stop, threadVars
    <3>2. UNCHANGED queue \/ queue' = [queue EXCEPT ![i] = Append(@, Quit)]
      BY <2>3 DEF Stop
    <3>3. QED
      BY <1>4, <1>5, <3>1, <3>2, OwnersTaskType
  <2>4. QED
    BY <1>7, <2>1, <2>2, <2>3 DEF OwnerBegins
<1>8. CASE OwnerGoesOn
  BY <1>4, <1>8 DEF OwnerGoesOn, StartReturns, Join, Unregister, Delete
<1>9. CASE \E w \in Worker, t \in Id : WorkerPosts(w, t)
  BY <1>4, <1>9 DEF WorkerPosts, threadVars
<1>10. ASSUME NEW a \in Actor, CallStep(a) PROVE QuitIsLast'
  <2>1. CASE Scan(a) \/ Look(a)
    <3>1. /\ UNCHANGED <<queue, quitWhenIdle>>
          /\ UNCHANGED phase \/ phase' = [phase EXCEPT ![a] = "run"]
      BY <2>1 DEF Scan, Look, Identified
    <3>2. \A j \in Id : Quitting(j)' => Quitting(j)
      BY <1>1, <3>1 DEF Quitting
    <3>3. QED
      BY <1>3, <3>1, <3>2
  <2>2. CASE Acquire(a) \/ ReadThread(a) \/ ReadLoop(a)
    BY <1>4, <2>2 DEF Acquire, ReadThread, ReadLoop, threadVars
  <2>3. CASE Post(a)
    <3> DEFINE t == call[a].target
    <3>1. t \in Id /\ call[a].pc = "post"
      BY <2>3 DEF Post, At, IInv, Calls
    <3>2. Fate(a) \in Task
      BY <3>1, FateIsTask
    <3>3. Fate(a) \in OwnersTask => a = Owner
      BY DEF Fate, OwnersTask
    <3>4. a = Owner => ~Quitting(t) /\ Quit \notin Rest(t)
      BY <3>1, OwnersTarget
    <3>5. UNCHANGED <<phase, quitWhenIdle>>
      BY <2>3 DEF Post, threadVars
    <3>6. UNCHANGED queue \/ queue' = [queue EXCEPT ![t] = Append(@, Fate(a))]
      BY <2>3 DEF Post
    <3> HIDE DEF t
    <3>7. QED
      BY <1>4, <1>5, <3>1, <3>2, <3>3, <3>4, <3>5, <3>6
  <2>4. QED
    BY <1>10, <2>1, <2>2, <2>3 DEF CallStep
<1>11. ASSUME NEW i \in Id, ThreadStep(i) PROVE QuitIsLast'
  <2>1. CASE CreateLoop(i) \/ InitThread(i) \/ SignalStarted(i) \/ CleanUp(i) \/ ClearLoop(i)
    <3>1. /\ UNCHANGED <<queue, quitWhenIdle>>
          /\ \/ phase[i] \in {"cleanup", "clear"}
             \/ \E p \in {"init", "signal", "identify"} : phase' = [phase EXCEPT ![i] = p]
          /\ \A j \in Id : j # i => phase'[j] = phase[j]
      BY <1>1, <2>1 DEF CreateLoop, InitThread, SignalStarted, CleanUp, ClearLoop, Step
    <3>2. \A j \in Id : Quitting(j)' => Quitting(j)
      BY <1>1, <3>1 DEF Quitting
    <3>3. QED
      BY <1>3, <3>1, <3>2
  <2>2. CASE RunTask(i)
    <3>1. /\ queue[i] # <<>> /\ queue' = [queue EXCEPT ![i] = Tail(@)]
          /\ UNCHANGED <<phase, quitWhenIdle>>
      BY <2>2 DEF RunTask, threadVars
    <3>2. QED
      BY <1>6, <3>1 DEF Quitting
  <2>3. CASE QuitWhenIdle(i)
    <3>1. /\ queue[i] # <<>> /\ Head(queue[i]) = Quit /\ queue' = [queue EXCEPT ![i] = Tail(@)]
          /\ quitWhenIdle' = [quitWhenIdle EXCEPT ![i] = TRUE] /\ UNCHANGED phase
      BY <2>3 DEF QuitWhenIdle
    <3>2. \A j \in Id : j # i => (Quitting(j)' <=> Quitting(j))
      BY <1>1, <3>1 DEF Quitting
    <3>3. QED
      BY <1>6, <3>1, <3>2
  <2>4. CASE QuitLoop(i)
    <3>1. /\ UNCHANGED <<queue, quitWhenIdle>> /\ quitWhenIdle[i]
          /\ phase' = [phase EXCEPT ![i] = "cleanup"]
      BY <2>4 DEF QuitLoop
    <3>2. \A j \in Id : Quitting(j)' => Quitting(j)
      BY <1>1, <3>1 DEF Quitting
    <3>3. QED
      BY <1>3, <3>1, <3>2
  <2>5. CASE DestroyLoop(i)
    <3>1. /\ queue' = [queue EXCEPT ![i] = <<>>] /\ phase' = [phase EXCEPT ![i] = "exited"]
          /\ UNCHANGED quitWhenIdle
      BY <2>5 DEF DestroyLoop, Step
    <3>2. \A j \in Id : j # i => queue'[j] = queue[j] /\ (Quitting(j)' <=> Quitting(j))
      BY <1>1, <3>1 DEF Quitting
    <3>3. queue'[i] = <<>> /\ Elements(<<>>) = {} /\ Before(<<>>)
      BY <1>1, <3>1 DEF Elements, Before
    <3>4. QED
      BY <1>2, <3>2, <3>3 DEF QuitIsLast
  <2>6. QED
    BY <1>11, <2>1, <2>2, <2>3, <2>4, <2>5 DEF ThreadStep
<1>12. CASE UNCHANGED vars
  BY <1>4, <1>12 DEF vars
<1>13. QED
  BY <1>7, <1>8, <1>9, <1>10, <1>11, <1>12 DEF Next

\* What a step makes of the owner's tasks.
LEMMA FatesStep ==
  ASSUME IInv, Posting, [Next]_vars, NEW n \in 1..MaxPosts[Owner]
  PROVE  /\ status'[<<Owner, n>>] \notin {"deleted", "lost"}
         /\ status[<<Owner, n>>] # "refused" /\ status'[<<Owner, n>>] = "refused"
              => ~started[call[Owner].target]
<1> DEFINE f == <<Owner, n>>
<1>1. f \in Task /\ f \in OwnersTask
  BY OwnersTaskType DEF OwnersTask
<1>2. status \in [Task -> Fates] /\ status[f] \notin {"deleted", "lost"}
  BY DEF IInv, TypeOK, Posting, OwnersTasksRun
<1> HIDE DEF f
<1>3. ASSUME status'[f] = status[f] \/ status'[f] \in {"queued", "done"}
      PROVE  /\ status'[f] \notin {"deleted", "lost"}
             /\ status[f] # "refused" => status'[f] # "refused"
  BY <1>2, <1>3
<1>4. CASE OwnerBegins \/ OwnerGoesOn \/ \E w \in Worker, t \in Id : WorkerPosts(w, t)
  <2>1. UNCHANGED status
    BY <1>4 DEF OwnerBegins, Initialize, StartWithOptions, Stop, OwnerPosts, OwnerGoesOn,
       StartReturns, Join, Unregister, Delete, WorkerPosts
  <2>2. QED
    BY <1>3, <2>1 DEF f
<1>5. ASSUME NEW a \in Actor, CallStep(a)
      PROVE  /\ status'[f] \notin {"deleted", "lost"}
             /\ status[f] # "refused" /\ status'[f] = "refused" => ~started[call[Owner].target]
  <2>1. ASSUME a # Owner, NEW s \in Fates, status' = [status EXCEPT ![Fate(a)] = s]
        PROVE  status'[f] = status[f]
    BY <1>1, <1>2, <2>1 DEF f, Fate
  <2>2. ASSUME NEW s \in Fates, status' = [status EXCEPT ![Fate(a)] = s]
        PROVE  status'[f] = status[f] \/ status'[f] = s
    BY <1>1, <1>2, <2>2
  <2> DEFINE t == call[a].target
  <2>3. CASE Scan(a) \/ Look(a) \/ Acquire(a)
    <3>1. UNCHANGED status
      BY <2>3 DEF Scan, Look, Acquire
    <3>2. QED
      BY <1>3, <3>1
  <2>4. CASE ReadThread(a)
    <3>1. UNCHANGED status \/ (~registered[t] /\ status' = [status EXCEPT ![Fate(a)] = "refused"])
      BY <2>4 DEF ReadThread, Refuse
    <3>2. t \in Id /\ (a = Owner => owner.does = "idle")
      BY <2>4 DEF ReadThread, At, IInv, Calls, OwnersCall
    <3>3. a = Owner /\ ~registered[t] => ~started[t]
      <4>1. object[t] \in {"none", "alive", "deleted"}
        BY <3>2 DEF IInv, TypeOK
      <4>2. QED
        BY <3>2, <4>1 DEF IInv, Slots, Posting, Begun
    <3>4. QED
      BY <1>2, <1>3, <2>1, <2>2, <3>1, <3>3 DEF Fates
  <2>5. CASE ReadLoop(a)
    <3>1. UNCHANGED status \/ (~loopSet[t] /\ status' = [status EXCEPT ![Fate(a)] = "refused"])
      BY <2>5 DEF ReadLoop, Refuse
    <3>2. t \in Id /\ call[a].pc = "deref"
      BY <2>5 DEF ReadLoop, At, IInv, Calls
    <3>3. a = Owner /\ ~loopSet[t] => ~started[t]
      <4>1. a = Owner => ~Quitting(t)
        BY <3>2, OwnersTarget DEF Posting
      <4>2. QED
        BY <3>2, <4>1 DEF IInv, Lives, Active, Quitting, Posting, Begun
    <3>4. QED
      BY <1>2, <1>3, <2>1, <2>2, <3>1, <3>3 DEF Fates
  <2>6. CASE Post(a)
    <3>1. \/ status' = [status EXCEPT ![Fate(a)] = "queued"]
          \/ loop[t] # "alive" /\ status' = [status EXCEPT ![Fate(a)] = "lost"]
      BY <2>6 DEF Post
    <3>2. t \in Id /\ call[a].pc = "post"
      BY <2>6 DEF Post, At, IInv, Calls
    <3>3. a = Owner => loop[t] = "alive"
      BY <3>2 DEF Posting, OwnerLocks, IInv, Lives
    <3>4. QED
      BY <1>2, <1>3, <2>1, <2>2, <3>1, <3>3 DEF Fates
  <2>7. QED
    BY <1>5, <2>3, <2>4, <2>5, <2>6 DEF CallStep
<1>6. ASSUME NEW i \in Id, ThreadStep(i)
      PROVE  status'[f] = status[f] \/ status'[f] \in {"queued", "done"}
  <2>1. CASE \/ CreateLoop(i) \/ InitThread(i) \/ SignalStarted(i) \/ QuitWhenIdle(i)
             \/ QuitLoop(i) \/ CleanUp(i) \/ ClearLoop(i)
    BY <2>1 DEF CreateLoop, InitThread, SignalStarted, QuitWhenIdle, QuitLoop, CleanUp, ClearLoop
  <2>2. CASE RunTask(i)
    BY <1>1, <1>2, <2>2 DEF RunTask
  <2>3. CASE DestroyLoop(i)
    <3>1. Quitting(i)
      BY <2>3 DEF DestroyLoop, Step, Quitting
    <3>2. f \notin Rest(i)
      BY <1>1, <3>1 DEF Posting, QuitIsLast
    <3>3. QED
      BY <1>1, <2>3, <3>2 DEF DestroyLoop
  <2>4. QED
    BY <1>6, <2>1, <2>2, <2>3 DEF ThreadStep
<1>7. CASE UNCHANGED vars
  <2>1. UNCHANGED status
    BY <1>7 DEF vars
  <2>2. QED
    BY <1>3, <2>1 DEF f
<1>8. QED
  BY <1>3, <1>4, <1>5, <1>6, <1>7 DEF Next, f

\* Every step keeps what the owner's posts need.
LEMMA PostingStep == IInv /\ Posting /\ [Next]_vars => Posting'
<1>1. SUFFICES ASSUME IInv, Posting, [Next]_vars PROVE Posting'
  OBVIOUS
<1>2. OwnersTasksRun'
  BY <1>1, FatesStep DEF OwnersTasksRun
<1>3. QED
  BY <1>1, <1>2, BegunStep, OwnerLocksStep, QuitIsLastStep DEF Posting

\* At first the owner has posted nothing.
LEMMA InitPosting == Init => Posting
<1>1. SUFFICES ASSUME Init PROVE Posting
  OBVIOUS
<1>2. Begun
  BY <1>1 DEF Init, Begun, Idle
<1>3. OwnerLocks
  BY <1>1 DEF Init, OwnerLocks, NoCall, Actor
<1>4. QuitIsLast
  BY <1>1 DEF Init, QuitIsLast, Quitting, Before, Rest
<1>5. OwnersTasksRun
  BY <1>1, OwnersTaskType DEF Init, OwnersTasksRun, OwnersTask
<1>6. QED
  BY <1>2, <1>3, <1>4, <1>5 DEF Posting

\* Whatever the owner posts between the return of Start and the destructor runs: it is
\* not refused, nor lost, nor deleted with the loop.
THEOREM OwnersPostsCorrect == Spec => OwnersPostsRun
<1> DEFINE Accepts == \A n \in 1..MaxPosts[Owner] :
                        status[<<Owner, n>>] = "none" /\ status'[<<Owner, n>>] = "refused"
                          => ~started[call[Owner].target]
<1>1. Init => IInv /\ Posting
  BY InitSafe, InitPosting
<1>2. (IInv /\ Posting) /\ [Next]_vars => (IInv /\ Posting)'
  BY StepSafe, PostingStep
<1>3. (IInv /\ Posting) /\ [Next]_vars => [Accepts]_vars
  <2>1. SUFFICES ASSUME IInv, Posting, [Next]_vars, NEW n \in 1..MaxPosts[Owner],
                        status[<<Owner, n>>] = "none", status'[<<Owner, n>>] = "refused"
                 PROVE  ~started[call[Owner].target]
    OBVIOUS
  <2>2. QED
    BY <2>1, FatesStep
<1>4. IInv /\ Posting => OwnersTasksRun
  BY DEF Posting
<1>5. StartedThreadAccepts <=> [][Accepts]_vars
  BY DEF StartedThreadAccepts
<1> HIDE DEF Accepts
<1>6. QED
  BY <1>1, <1>2, <1>3, <1>4, <1>5, PTL DEF Spec, OwnersPostsRun
=============================================================================
