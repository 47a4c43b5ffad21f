-------------------------- MODULE Knowledge_proofs --------------------------
(***************************************************************************)
(* Proofs about the life of the institutional memory's entries, for any     *)
(* entries, any finite set of colonies and any traces of what they read.    *)
(***************************************************************************)
EXTENDS Knowledge, FiniteSetTheorems, TLAPS

-----------------------------------------------------------------------------
(* The invariants.                                                          *)

Event ==
    [kind : {"created"}, entry : Entry, status : {"candidate", "verified", "rejected"}]
    \cup [kind : {"status"}, entry : Entry, status : Status]
    \cup [kind : {"confidence"}, entry : Entry, credit : Nat]
    \cup [kind : {"refined"}, entry : Entry]
    \cup [kind : {"merged"}, entry : Entry, source : Entry]

Row == [who : Task, event : Event]

(* Where a coroutine goes on when what it emitted has been mirrored.        *)
Place == {"idle", "hook", "promote", "verify", "compare", "judge", "dismiss", "deprecate"}
Await == {"lock", "sync", "write"}

Stands(t) == IF task[t].at \in Await THEN task[t].then ELSE task[t].at

Local == [at : Place \cup Await, then : Place, todo : Seq(Entry), seen : SUBSET Entry,
          sync : Seq(Entry), read : Status \cup {"absent", "none"}, new : Nat, ok : BOOLEAN]

TypeInv ==
    /\ entries \in [Entry -> Item] /\ journal \in [Entry -> Item]
    /\ index \in [Entry -> Live \cup {"none", "deprecated"}]
    /\ queue \in Seq(Row) /\ task \in [Task -> Local]
    /\ credited \subseteq Colony \X Entry /\ clicks \in [Entry -> Nat]
    /\ extracted \subseteq Entry /\ refused \subseteq Entry /\ admitted \subseteq Entry
    /\ deleted \subseteq Entry /\ settled \subseteq Colony

(* A coroutine at the lock has one row in the queue.                        *)
LockInv ==
    /\ \A i, j \in 1..Len(queue) : queue[i].who = queue[j].who => i = j
    /\ \A t \in Task : task[t].at = "lock" <=> \E i \in 1..Len(queue) : queue[i].who = t
    /\ \A t \in Task : task[t].at \in {"sync", "write"} <=> task[t].sync # <<>>

(* The most credit an entry can have earned.                                *)
Earned(e) == clicks[e] + Cardinality({c \in Colony : <<c, e>> \in credited})

(* Refused by every creation, and by no person's deletion.                  *)
Barred == refused \ (admitted \cup deleted)

EntryInv ==
    \A e \in Entry :
        /\ Exists(e) <=> journal[e].status # "absent"
        /\ ~Exists(e) => /\ index[e] = "none" /\ e \notin refused
                         /\ entries[e].credit = 0 /\ journal[e].credit = 0
        /\ Exists(e) => e \in refused \cup admitted
        /\ entries[e].credit <= Earned(e) /\ journal[e].credit <= Earned(e)
        /\ e \in Barred =>
              entries[e].status = "rejected" /\ journal[e].status = "rejected" /\ index[e] = "none"

(* What a row that waits for the lock says is true when it was built, and    *)
(* stays harmless.                                                          *)
Harmless(ev) ==
    /\ ev.kind # "created" => Exists(ev.entry)
    /\ ev.kind = "merged" => Exists(ev.source)
    /\ ev.kind = "confidence" => ev.credit <= Earned(ev.entry)
    /\ ev.kind = "status" /\ ev.entry \in Barred => ev.status = "rejected"

QueueInv == \A i \in 1..Len(queue) : Harmless(queue[i].event)

(* An extraction verifies the entry it created, and remembers that it was   *)
(* refused.                                                                 *)
VerifyInv ==
    /\ \A i \in 1..Len(queue) :
          LET t == queue[i].who IN
          /\ queue[i].event.kind = "created" /\ queue[i].event.status = "rejected" =>
                task[t].then = "verify" /\ queue[i].event.entry \in task[t].seen
          /\ task[t].then = "verify" =>
                queue[i].event.kind = "created" /\ queue[i].event.entry = Head(task[t].todo)
    /\ \A t \in Task : Stands(t) = "verify" /\ task[t].at # "lock" =>
          /\ Exists(Head(task[t].todo))
          /\ Head(task[t].todo) \in Barred => Head(task[t].todo) \in task[t].seen

(* What a coroutine at place p with local state k can rely on.              *)
Fits(t, k, p) ==
    /\ p \in {"hook", "promote"} =>
          /\ t \in Colony /\ t \in settled
          /\ \A e \in Entry : <<t, e>> \in credited => e \in k.seen
    /\ p = "promote" => k.todo # <<>> /\ Exists(Head(k.todo))
    /\ p = "verify" => t = "extract" /\ k.todo # <<>>
    /\ p \in {"compare", "judge", "dismiss"} =>
          t = "dedup" /\ Len(k.todo) = 2 /\ Exists(k.todo[1]) /\ Exists(k.todo[2])
    /\ p = "deprecate" =>
          t = "person" /\ k.todo # <<>> /\ Exists(Head(k.todo)) /\ Head(k.todo) \in deleted

TaskInv ==
    /\ \A t \in Task : Fits(t, task[t], Stands(t))
    /\ \A p \in credited : p[1] \in settled
    /\ \A t \in Task :
          /\ \A i \in 1..Len(task[t].sync) : Exists(task[t].sync[i])
          /\ task[t].at = "write" =>
                /\ task[t].read \in Status
                /\ Head(task[t].sync) \in Barred => task[t].read = "rejected"

IInv == TypeInv /\ LockInv /\ EntryInv /\ QueueInv /\ VerifyInv /\ TaskInv

-----------------------------------------------------------------------------
(* Local states, events and rows.                                           *)

LEMMA IdleLocal ==
    /\ Idle \in Local /\ Idle.at = "idle" /\ Idle.then = "idle" /\ Idle.todo = <<>>
    /\ Idle.sync = <<>> /\ Idle.seen = {}
<1>1. <<>> \in Seq(Entry)
  OBVIOUS
<1> QED
  BY <1>1 DEF Idle, Local, Place, Await

LEMMA Locked ==
    ASSUME NEW k \in Local, NEW p \in Place
    PROVE  /\ [k EXCEPT !.at = "lock", !.then = p] \in Local
           /\ [k EXCEPT !.at = "lock", !.then = p].at = "lock"
           /\ [k EXCEPT !.at = "lock", !.then = p].then = p
           /\ [k EXCEPT !.at = "lock", !.then = p].todo = k.todo
           /\ [k EXCEPT !.at = "lock", !.then = p].seen = k.seen
           /\ [k EXCEPT !.at = "lock", !.then = p].sync = k.sync
BY DEF Local, Place, Await

LEMMA Events ==
    ASSUME NEW e \in Entry
    PROVE  /\ \A s \in {"candidate", "verified", "rejected"} :
                 /\ Created(e, s) \in Event /\ Created(e, s).kind = "created"
                 /\ Created(e, s).entry = e /\ Created(e, s).status = s
           /\ \A s \in Status :
                 /\ Changed(e, s) \in Event /\ Changed(e, s).kind = "status"
                 /\ Changed(e, s).entry = e /\ Changed(e, s).status = s
           /\ \A n \in Nat :
                 /\ Updated(e, n) \in Event /\ Updated(e, n).kind = "confidence"
                 /\ Updated(e, n).entry = e /\ Updated(e, n).credit = n
           /\ Refined(e) \in Event /\ Refined(e).kind = "refined" /\ Refined(e).entry = e
           /\ \A f \in Entry :
                 /\ Merged(e, f) \in Event /\ Merged(e, f).kind = "merged"
                 /\ Merged(e, f).entry = e /\ Merged(e, f).source = f
<1>1. \A s \in {"candidate", "verified", "rejected"} :
         /\ Created(e, s) \in Event /\ Created(e, s).kind = "created"
         /\ Created(e, s).entry = e /\ Created(e, s).status = s
  BY DEF Created, Event
<1>2. \A s \in Status :
         /\ Changed(e, s) \in Event /\ Changed(e, s).kind = "status"
         /\ Changed(e, s).entry = e /\ Changed(e, s).status = s
  BY DEF Changed, Event
<1>3. \A n \in Nat :
         /\ Updated(e, n) \in Event /\ Updated(e, n).kind = "confidence"
         /\ Updated(e, n).entry = e /\ Updated(e, n).credit = n
  BY DEF Updated, Event
<1>4. Refined(e) \in Event /\ Refined(e).kind = "refined" /\ Refined(e).entry = e
  BY DEF Refined, Event
<1>5. \A f \in Entry :
         /\ Merged(e, f) \in Event /\ Merged(e, f).kind = "merged"
         /\ Merged(e, f).entry = e /\ Merged(e, f).source = f
  BY DEF Merged, Event
<1> QED
  BY <1>1, <1>2, <1>3, <1>4, <1>5

LEMMA EventEntry ==
    ASSUME NEW ev \in Event
    PROVE  ev.entry \in Entry
BY DEF Event

(* What an entry has earned only grows.                                     *)
LEMMA EarnedGrows ==
    ASSUME NEW e \in Entry, clicks \in [Entry -> Nat], clicks' \in [Entry -> Nat],
           clicks[e] <= clicks'[e], credited \subseteq credited'
    PROVE  /\ Earned(e) \in Nat /\ Earned(e)' \in Nat /\ Earned(e) <= Earned(e)'
           /\ clicks[e] + 1 <= clicks'[e] => Earned(e) + 1 <= Earned(e)'
           /\ \A c \in Colony : <<c, e>> \in credited' \ credited => Earned(e) + 1 <= Earned(e)'
<1> DEFINE S == {c \in Colony : <<c, e>> \in credited}
           T == {c \in Colony : <<c, e>> \in credited'}
<1>1. S \subseteq T /\ T \subseteq Colony
  OBVIOUS
<1>2. IsFiniteSet(Colony)
  BY KnowledgeAssumption
<1>3. IsFiniteSet(T) /\ IsFiniteSet(S)
  BY <1>1, <1>2, FS_Subset
<1>4. Cardinality(S) \in Nat /\ Cardinality(T) \in Nat /\ Cardinality(S) <= Cardinality(T)
  BY <1>1, <1>3, FS_Subset, FS_CardinalityType
<1>5. Earned(e) = clicks[e] + Cardinality(S) /\ Earned(e)' = clicks'[e] + Cardinality(T)
  BY DEF Earned
<1>6. ASSUME NEW c \in Colony, <<c, e>> \in credited' \ credited
      PROVE  Cardinality(S) + 1 <= Cardinality(T)
  <2>1. c \notin S /\ S \cup {c} \subseteq T
    BY <1>1, <1>6
  <2>2. Cardinality(S \cup {c}) = Cardinality(S) + 1
    BY <1>3, <2>1, FS_AddElement
  <2>3. Cardinality(S \cup {c}) <= Cardinality(T)
    BY <1>3, <2>1, FS_Subset
  <2> QED
    BY <2>2, <2>3
<1>7. clicks[e] \in Nat /\ clicks'[e] \in Nat
  OBVIOUS
<1> HIDE DEF S, T
<1>8. /\ Earned(e) \in Nat /\ Earned(e)' \in Nat /\ Earned(e) <= Earned(e)'
      /\ clicks[e] + 1 <= clicks'[e] => Earned(e) + 1 <= Earned(e)'
  BY <1>4, <1>5, <1>7
<1>9. ASSUME NEW c \in Colony, <<c, e>> \in credited' \ credited
      PROVE  Earned(e) + 1 <= Earned(e)'
  <2>1. Cardinality(S) + 1 <= Cardinality(T)
    BY <1>6, <1>9
  <2> QED
    BY <1>4, <1>5, <1>7, <2>1
<1> QED
  BY <1>8, <1>9

-----------------------------------------------------------------------------
(* A coroutine emits an event.                                              *)

(* What surrounds an emission or a move: no entry appears or is lost, none   *)
(* that is barred changes its status, and only t's own credit is new.       *)
Around(t) ==
    /\ entries' \in [Entry -> Item]
    /\ \A e \in Entry : Exists(e)' = Exists(e) /\ entries'[e].credit = entries[e].credit
    /\ \A e \in refused \ (admitted \cup deleted') : entries'[e].status = entries[e].status
    /\ UNCHANGED <<journal, index, refused, admitted>> /\ extracted' \subseteq Entry
    /\ credited \subseteq credited' /\ credited' \subseteq Colony \X Entry
    /\ \A q \in credited' \ credited : q[1] = t
    /\ clicks' \in [Entry -> Nat] /\ \A e \in Entry : clicks[e] <= clicks'[e]
    /\ deleted \subseteq deleted' /\ deleted' \subseteq Entry
    /\ settled \subseteq settled' /\ settled' \subseteq Colony
    /\ \A q \in credited' : q[1] \in settled'

Emission(t, k, ev, p) ==
    /\ Around(t)
    /\ task[t].at \notin Await /\ k \in Local /\ k.sync = <<>> /\ p \in Place /\ ev \in Event
    /\ queue' = Append(queue, [who |-> t, event |-> ev])
    /\ task' = [task EXCEPT ![t] = [k EXCEPT !.at = "lock", !.then = p]]
    /\ Harmless(ev)'
    /\ Fits(t, k, p)'
    /\ ev.kind = "created" /\ ev.status = "rejected" => p = "verify" /\ ev.entry \in k.seen
    /\ p = "verify" => ev.kind = "created" /\ ev.entry = Head(k.todo)

(* A coroutine goes on by itself.                                           *)
Moving(t, k) ==
    /\ Around(t)
    /\ task[t].at \notin Await /\ k \in Local /\ k.sync = <<>>
    /\ k.at \notin Await \cup {"verify"}
    /\ queue' = queue /\ task' = [task EXCEPT ![t] = k]
    /\ Fits(t, k, k.at)'

LEMMA AroundFacts ==
    ASSUME IInv, NEW t \in Task, Around(t)
    PROVE  /\ \A e \in Entry : Exists(e)' = Exists(e)
           /\ Barred' \subseteq Barred
           /\ \A e \in Entry : Earned(e) \in Nat /\ Earned(e)' \in Nat /\ Earned(e) <= Earned(e)'
<1>1. \A e \in Entry : Exists(e)' = Exists(e)
  BY DEF Around
<1>2. Barred' \subseteq Barred
  BY DEF Around, Barred
<1>3. \A e \in Entry : Earned(e) \in Nat /\ Earned(e)' \in Nat /\ Earned(e) <= Earned(e)'
  BY EarnedGrows DEF Around, IInv, TypeInv
<1> QED
  BY <1>1, <1>2, <1>3

LEMMA EntryKeeps ==
    ASSUME IInv, NEW t \in Task, Around(t)
    PROVE  EntryInv'
<1> SUFFICES ASSUME NEW e \in Entry
             PROVE  /\ Exists(e)' <=> journal'[e].status # "absent"
                    /\ ~Exists(e)' => /\ index'[e] = "none" /\ e \notin refused'
                                      /\ entries'[e].credit = 0 /\ journal'[e].credit = 0
                    /\ Exists(e)' => e \in refused' \cup admitted'
                    /\ entries'[e].credit <= Earned(e)' /\ journal'[e].credit <= Earned(e)'
                    /\ e \in Barred' =>
                          /\ entries'[e].status = "rejected" /\ journal'[e].status = "rejected"
                          /\ index'[e] = "none"
  BY DEF EntryInv
<1>1. /\ Exists(e) <=> journal[e].status # "absent"
      /\ ~Exists(e) => /\ index[e] = "none" /\ e \notin refused
                       /\ entries[e].credit = 0 /\ journal[e].credit = 0
      /\ Exists(e) => e \in refused \cup admitted
      /\ entries[e].credit <= Earned(e) /\ journal[e].credit <= Earned(e)
      /\ e \in Barred =>
            entries[e].status = "rejected" /\ journal[e].status = "rejected" /\ index[e] = "none"
  BY DEF IInv, EntryInv
<1>2. /\ Exists(e)' = Exists(e) /\ Barred' \subseteq Barred
      /\ Earned(e) \in Nat /\ Earned(e)' \in Nat /\ Earned(e) <= Earned(e)'
  BY AroundFacts
<1>3. /\ e \in Barred' => entries'[e].status = entries[e].status
      /\ entries'[e].credit = entries[e].credit
      /\ UNCHANGED <<journal, index, refused, admitted>>
  BY DEF Around, Barred
<1>4. entries[e].credit \in Nat /\ journal[e].credit \in Nat
  BY DEF IInv, TypeInv, Item
<1>5. entries'[e].credit <= Earned(e)' /\ journal'[e].credit <= Earned(e)'
  BY <1>1, <1>2, <1>3, <1>4
<1> QED
  BY <1>1, <1>2, <1>3, <1>5

LEMMA HarmlessStays ==
    ASSUME IInv, NEW t \in Task, Around(t), NEW ev \in Event, Harmless(ev)
    PROVE  Harmless(ev)'
<1>1. ev.entry \in Entry
  BY EventEntry
<1>2. ev.kind = "merged" => ev.source \in Entry
  BY DEF Event
<1>3. ev.kind = "confidence" => ev.credit \in Nat
  BY DEF Event
<1>4. Exists(ev.entry)' = Exists(ev.entry) /\ Barred' \subseteq Barred
  BY <1>1, AroundFacts
<1>5. ev.kind = "merged" => Exists(ev.source)' = Exists(ev.source)
  BY <1>2, AroundFacts
<1>6. ev.kind = "confidence" /\ ev.credit <= Earned(ev.entry) => ev.credit <= Earned(ev.entry)'
  BY <1>1, <1>3, AroundFacts
<1> QED
  BY <1>4, <1>5, <1>6 DEF Harmless

(* Another coroutine can rely on what it could.                             *)
LEMMA FitsStays ==
    ASSUME IInv, NEW t \in Task, Around(t), NEW u \in Task, u # t, NEW p, NEW k \in Local,
           Fits(u, k, p)
    PROVE  Fits(u, k, p)'
<1>1. \A e \in Entry : Exists(e)' = Exists(e)
  BY AroundFacts
<1>2. k.todo \in Seq(Entry)
  BY DEF Local
<1>3. k.todo # <<>> => Head(k.todo) \in Entry
  BY <1>2
<1>4. Len(k.todo) = 2 => k.todo[1] \in Entry /\ k.todo[2] \in Entry
  BY <1>2
<1>5. p \in {"hook", "promote"} =>
          /\ u \in Colony /\ u \in settled'
          /\ \A e \in Entry : <<u, e>> \in credited' => e \in k.seen
  <2>1. \A e \in Entry : <<u, e>> \in credited' => <<u, e>> \in credited
    <3> SUFFICES ASSUME NEW e \in Entry, <<u, e>> \in credited', <<u, e>> \notin credited
                 PROVE  FALSE
      OBVIOUS
    <3>1. <<u, e>>[1] = t
      BY DEF Around
    <3> QED
      BY <3>1
  <2> QED
    BY <2>1 DEF Fits, Around
<1>6. p = "promote" => k.todo # <<>> /\ Exists(Head(k.todo))'
  BY <1>1, <1>3 DEF Fits
<1>7. p \in {"compare", "judge", "dismiss"} =>
          u = "dedup" /\ Len(k.todo) = 2 /\ Exists(k.todo[1])' /\ Exists(k.todo[2])'
  BY <1>1, <1>4 DEF Fits
<1>8. p = "deprecate" =>
          /\ u = "person" /\ k.todo # <<>> /\ Exists(Head(k.todo))' /\ Head(k.todo) \in deleted'
  BY <1>1, <1>3 DEF Fits, Around
<1>9. p = "verify" => u = "extract" /\ k.todo # <<>>
  BY DEF Fits
<1> QED
  BY <1>5, <1>6, <1>7, <1>8, <1>9 DEF Fits

(* The local state of t, and of the others, after an emission or a move.    *)
LEMMA TaskFacts ==
    ASSUME TypeInv, NEW t \in Task, NEW k \in Local, task' = [task EXCEPT ![t] = k]
    PROVE  /\ task' \in [Task -> Local] /\ task'[t] = k
           /\ \A u \in Task : u # t => task'[u] = task[u] /\ Stands(u)' = Stands(u)
           /\ Stands(t)' = IF k.at \in Await THEN k.then ELSE k.at
<1>1. task' \in [Task -> Local] /\ task'[t] = k /\ \A u \in Task : u # t => task'[u] = task[u]
  BY DEF TypeInv
<1>2. Await' = Await
  BY DEF Await
<1> QED
  BY <1>1, <1>2 DEF Stands

SyncSafe(u) ==
    /\ \A i \in 1..Len(task[u].sync) : Exists(task[u].sync[i])
    /\ task[u].at = "write" =>
          /\ task[u].read \in Status
          /\ Head(task[u].sync) \in Barred => task[u].read = "rejected"

VerifySafe(u) ==
    Stands(u) = "verify" /\ task[u].at # "lock" =>
        /\ Exists(Head(task[u].todo))
        /\ Head(task[u].todo) \in Barred => Head(task[u].todo) \in task[u].seen

LEMMA SyncStays ==
    ASSUME IInv, NEW t \in Task, Around(t), NEW u \in Task, task'[u] = task[u]
    PROVE  SyncSafe(u)'
<1>1. /\ \A i \in 1..Len(task[u].sync) : Exists(task[u].sync[i])
      /\ task[u].at = "write" =>
            /\ task[u].read \in Status
            /\ Head(task[u].sync) \in Barred => task[u].read = "rejected"
  BY DEF IInv, TaskInv
<1>2. task[u].sync \in Seq(Entry)
  BY DEF IInv, TypeInv, Local
<1>3. \A i \in 1..Len(task[u].sync) : task[u].sync[i] \in Entry
  BY <1>2
<1>4. (\A e \in Entry : Exists(e)' = Exists(e)) /\ Barred' \subseteq Barred
  BY AroundFacts
<1>5. \A i \in 1..Len(task'[u].sync) : Exists(task[u].sync[i])'
  BY <1>1, <1>3, <1>4
<1>6. task'[u].at = "write" =>
            /\ task'[u].read \in Status
            /\ Head(task'[u].sync) \in Barred' => task'[u].read = "rejected"
  BY <1>1, <1>4
<1> QED
  BY <1>5, <1>6 DEF SyncSafe

LEMMA VerifyStays ==
    ASSUME IInv, NEW t \in Task, Around(t), NEW u \in Task, task'[u] = task[u],
           Stands(u)' = Stands(u)
    PROVE  VerifySafe(u)'
<1> SUFFICES ASSUME Stands(u) = "verify", task[u].at # "lock"
             PROVE  /\ Exists(Head(task[u].todo))'
                    /\ Head(task'[u].todo) \in Barred' => Head(task'[u].todo) \in task'[u].seen
  BY DEF VerifySafe
<1>1. Exists(Head(task[u].todo))
      /\ (Head(task[u].todo) \in Barred => Head(task[u].todo) \in task[u].seen)
  BY DEF IInv, VerifyInv
<1>2. task[u].todo # <<>>
  BY DEF IInv, TaskInv, Fits
<1>3. task[u].todo \in Seq(Entry)
  BY DEF IInv, TypeInv, Local
<1>4. Head(task[u].todo) \in Entry
  BY <1>2, <1>3
<1>5. Exists(Head(task[u].todo))'
  BY <1>1, <1>4, AroundFacts
<1> QED
  BY <1>1, <1>5, AroundFacts

LEMMA EmissionTypes ==
    ASSUME IInv, NEW t \in Task, NEW k, NEW ev, NEW p, Emission(t, k, ev, p)
    PROVE  /\ TypeInv' /\ ev \in Event /\ k \in Local /\ p \in Place
           /\ Len(queue') = Len(queue) + 1 /\ Len(queue) \in Nat
           /\ \A i \in 1..Len(queue) : queue'[i] = queue[i] /\ queue[i] \in Row
           /\ queue'[Len(queue) + 1].who = t /\ queue'[Len(queue) + 1].event = ev
           /\ task'[t].at = "lock" /\ task'[t].then = p /\ task'[t].todo = k.todo
           /\ task'[t].seen = k.seen /\ task'[t].sync = <<>>
           /\ Stands(t)' = p
           /\ \A u \in Task : u # t => task'[u] = task[u] /\ Stands(u)' = Stands(u)
<1> DEFINE l == [k EXCEPT !.at = "lock", !.then = p]
           r == [who |-> t, event |-> ev]
<1>1. TypeInv /\ k \in Local /\ p \in Place /\ ev \in Event /\ k.sync = <<>>
  BY DEF Emission, IInv
<1>2. /\ l \in Local /\ l.at = "lock" /\ l.then = p /\ l.todo = k.todo /\ l.seen = k.seen
      /\ l.sync = <<>>
  BY <1>1, Locked
<1>3. r \in Row /\ r.who = t /\ r.event = ev
  BY <1>1 DEF Row
<1>4. task' = [task EXCEPT ![t] = l] /\ queue' = Append(queue, r)
  BY DEF Emission
<1> HIDE DEF l, r
<1>5. /\ task' \in [Task -> Local] /\ task'[t] = l
      /\ \A u \in Task : u # t => task'[u] = task[u] /\ Stands(u)' = Stands(u)
      /\ Stands(t)' = p
  BY <1>1, <1>2, <1>4, TaskFacts DEF Await
<1>6. queue \in Seq(Row)
  BY <1>1 DEF TypeInv
<1>7. /\ queue' \in Seq(Row) /\ Len(queue') = Len(queue) + 1 /\ Len(queue) \in Nat
      /\ \A i \in 1..Len(queue) : queue'[i] = queue[i] /\ queue[i] \in Row
      /\ queue'[Len(queue) + 1] = r
  BY <1>3, <1>4, <1>6
<1>8. TypeInv'
  BY <1>1, <1>5, <1>7 DEF TypeInv, Emission, Around
<1> QED
  BY <1>1, <1>2, <1>3, <1>5, <1>7, <1>8

LEMMA EmissionKeeps ==
    ASSUME IInv, NEW t \in Task, NEW k, NEW ev, NEW p, Emission(t, k, ev, p)
    PROVE  IInv'
<1> DEFINE n == Len(queue)
<1>1. /\ TypeInv' /\ ev \in Event /\ k \in Local /\ p \in Place
      /\ Len(queue') = n + 1 /\ n \in Nat
      /\ \A i \in 1..n : queue'[i] = queue[i] /\ queue[i] \in Row
      /\ queue'[n + 1].who = t /\ queue'[n + 1].event = ev
      /\ task'[t].at = "lock" /\ task'[t].then = p /\ task'[t].todo = k.todo
      /\ task'[t].seen = k.seen /\ task'[t].sync = <<>>
      /\ Stands(t)' = p
      /\ \A u \in Task : u # t => task'[u] = task[u] /\ Stands(u)' = Stands(u)
  BY EmissionTypes
<1>2. Around(t)
  BY DEF Emission
<1>3. \A i \in 1..n : queue[i].who # t /\ queue[i].who \in Task /\ queue[i].event \in Event
  <2>1. task[t].at # "lock"
    BY DEF Emission, Await
  <2>2. \A i \in 1..n : queue[i].who # t
    BY <2>1 DEF IInv, LockInv
  <2> QED
    BY <1>1, <2>2 DEF Row
<1>4. 1..Len(queue') = (1..n) \cup {n + 1} /\ n + 1 \notin 1..n
  BY <1>1
<1>5. LockInv'
  <2>1. \A i, j \in 1..Len(queue') : queue'[i].who = queue'[j].who => i = j
    <3> SUFFICES ASSUME NEW i \in 1..Len(queue'), NEW j \in 1..Len(queue'),
                        queue'[i].who = queue'[j].who
                 PROVE  i = j
      OBVIOUS
    <3>1. CASE i \in 1..n /\ j \in 1..n
      BY <1>1, <3>1 DEF IInv, LockInv
    <3>2. CASE i = n + 1 \/ j = n + 1
      BY <1>1, <1>3, <1>4, <3>2
    <3> QED
      BY <1>4, <3>1, <3>2
  <2>2. ASSUME NEW u \in Task
        PROVE  task'[u].at = "lock" <=> \E i \in 1..Len(queue') : queue'[i].who = u
    <3>1. CASE u = t
      BY <1>1, <1>4, <3>1
    <3>2. CASE u # t
      <4>1. task[u].at = "lock" <=> \E i \in 1..n : queue[i].who = u
        BY DEF IInv, LockInv
      <4>2. task'[u] = task[u]
        BY <1>1, <3>2
      <4> QED
        BY <1>1, <1>4, <3>2, <4>1, <4>2
    <3> QED
      BY <3>1, <3>2
  <2>3. ASSUME NEW u \in Task
        PROVE  task'[u].at \in {"sync", "write"} <=> task'[u].sync # <<>>
    BY <1>1 DEF IInv, LockInv
  <2> QED
    BY <2>1, <2>2, <2>3 DEF LockInv
<1>6. EntryInv'
  BY <1>2, EntryKeeps
<1>7. QueueInv'
  <2>1. ASSUME NEW i \in 1..Len(queue')
        PROVE  Harmless(queue[i].event)'
    <3>1. CASE i \in 1..n
      <4>1. Harmless(queue[i].event)
        BY <3>1 DEF IInv, QueueInv
      <4>2. \A f \in Event : Harmless(f) => Harmless(f)'
        BY <1>2, HarmlessStays
      <4>3. queue'[i].event = queue[i].event /\ queue[i].event \in Event
        BY <1>1, <1>3, <3>1
      <4> QED
        BY <4>1, <4>2, <4>3 DEF Harmless
    <3>2. CASE i = n + 1
      <4>1. queue'[i].event = ev /\ Harmless(ev)'
        BY <1>1, <3>2 DEF Emission
      <4> QED
        BY <4>1 DEF Harmless
    <3> QED
      BY <1>4, <3>1, <3>2
  <2> QED
    BY <2>1 DEF QueueInv
<1>8. VerifyInv'
  <2>1. ASSUME NEW i \in 1..Len(queue')
        PROVE  /\ queue'[i].event.kind = "created" /\ queue'[i].event.status = "rejected" =>
                     /\ task'[queue'[i].who].then = "verify"
                     /\ queue'[i].event.entry \in task'[queue'[i].who].seen
               /\ task'[queue'[i].who].then = "verify" =>
                     /\ queue'[i].event.kind = "created"
                     /\ queue'[i].event.entry = Head(task'[queue'[i].who].todo)
    <3>1. CASE i \in 1..n
      <4>1. queue'[i] = queue[i] /\ task'[queue[i].who] = task[queue[i].who]
        BY <1>1, <1>3, <3>1
      <4> QED
        BY <3>1, <4>1 DEF IInv, VerifyInv
    <3>2. CASE i = n + 1
      <4>1. queue'[i].who = t /\ queue'[i].event = ev
        BY <1>1, <3>2
      <4> QED
        BY <1>1, <4>1 DEF Emission
    <3> QED
      BY <1>4, <3>1, <3>2
  <2>2. ASSUME NEW u \in Task
        PROVE  VerifySafe(u)'
    <3>1. CASE u = t
      BY <1>1, <3>1 DEF VerifySafe
    <3>2. CASE u # t
      BY <1>1, <1>2, <3>2, VerifyStays
    <3> QED
      BY <3>1, <3>2
  <2> QED
    BY <2>1, <2>2 DEF VerifyInv, VerifySafe
<1>9. TaskInv'
  <2>1. ASSUME NEW u \in Task
        PROVE  Fits(u, task[u], Stands(u))'
    <3>1. CASE u = t
      <4>1. Fits(t, k, p)'
        BY DEF Emission
      <4>2. Stands(t)' = p /\ task'[t].todo = k.todo /\ task'[t].seen = k.seen
        BY <1>1
      <4> QED
        BY <3>1, <4>1, <4>2 DEF Fits
    <3>2. CASE u # t
      <4>1. Fits(u, task[u], Stands(u)) /\ task[u] \in Local
        BY DEF IInv, TaskInv, TypeInv
      <4>2. \A l \in Local : \A q : Fits(u, l, q) => Fits(u, l, q)'
        BY <1>2, <3>2, FitsStays
      <4>3. task'[u] = task[u] /\ Stands(u)' = Stands(u)
        BY <1>1, <3>2
      <4> QED
        BY <4>1, <4>2, <4>3 DEF Fits
    <3> QED
      BY <3>1, <3>2
  <2>2. \A q \in credited' : q[1] \in settled'
    BY <1>2 DEF Around
  <2>3. ASSUME NEW u \in Task
        PROVE  SyncSafe(u)'
    <3>1. CASE u = t
      BY <1>1, <3>1 DEF SyncSafe
    <3>2. CASE u # t
      BY <1>1, <1>2, <3>2, SyncStays
    <3> QED
      BY <3>1, <3>2
  <2> QED
    BY <2>1, <2>2, <2>3 DEF TaskInv, SyncSafe
<1> QED
  BY <1>1, <1>5, <1>6, <1>7, <1>8, <1>9 DEF IInv

LEMMA MovingKeeps ==
    ASSUME IInv, NEW t \in Task, NEW k, Moving(t, k)
    PROVE  IInv'
<1>1. /\ task' \in [Task -> Local] /\ task'[t] = k /\ k \in Local
      /\ \A u \in Task : u # t => task'[u] = task[u] /\ Stands(u)' = Stands(u)
      /\ Stands(t)' = k.at
  BY TaskFacts DEF Moving, IInv
<1>2. Around(t) /\ queue' = queue /\ task[t].at \notin Await
      /\ k.at \notin {"lock", "sync", "write", "verify"} /\ k.sync = <<>>
  BY DEF Moving, Await
<1>3. \A i \in 1..Len(queue) :
          queue[i].who # t /\ queue[i].who \in Task /\ queue[i].event \in Event
  <2>1. task[t].at # "lock"
    BY <1>2 DEF Await
  <2>2. \A i \in 1..Len(queue) : queue[i].who # t
    BY <2>1 DEF IInv, LockInv
  <2>3. \A i \in 1..Len(queue) : queue[i] \in Row
    BY DEF IInv, TypeInv
  <2> QED
    BY <2>2, <2>3 DEF Row
<1>4. TypeInv'
  BY <1>1, <1>2 DEF IInv, TypeInv, Around
<1>5. LockInv'
  <2>1. ASSUME NEW u \in Task
        PROVE  /\ task'[u].at = "lock" <=> \E i \in 1..Len(queue') : queue'[i].who = u
               /\ task'[u].at \in {"sync", "write"} <=> task'[u].sync # <<>>
    <3>1. CASE u = t
      BY <1>1, <1>2, <1>3, <3>1
    <3>2. CASE u # t
      BY <1>1, <1>2, <3>2 DEF IInv, LockInv
    <3> QED
      BY <3>1, <3>2
  <2>2. \A i, j \in 1..Len(queue') : queue'[i].who = queue'[j].who => i = j
    BY <1>2 DEF IInv, LockInv
  <2> QED
    BY <2>1, <2>2 DEF LockInv
<1>6. EntryInv'
  BY <1>2, EntryKeeps
<1>7. QueueInv'
  <2>1. ASSUME NEW i \in 1..Len(queue')
        PROVE  Harmless(queue[i].event)'
    <3>1. Harmless(queue[i].event) /\ queue[i].event \in Event /\ queue' = queue
      BY <1>2, <1>3 DEF IInv, QueueInv
    <3>2. \A f \in Event : Harmless(f) => Harmless(f)'
      BY <1>2, HarmlessStays
    <3> QED
      BY <3>1, <3>2 DEF Harmless
  <2> QED
    BY <1>2, <2>1 DEF QueueInv
<1>8. VerifyInv'
  <2>1. ASSUME NEW i \in 1..Len(queue')
        PROVE  /\ queue'[i].event.kind = "created" /\ queue'[i].event.status = "rejected" =>
                     /\ task'[queue'[i].who].then = "verify"
                     /\ queue'[i].event.entry \in task'[queue'[i].who].seen
               /\ task'[queue'[i].who].then = "verify" =>
                     /\ queue'[i].event.kind = "created"
                     /\ queue'[i].event.entry = Head(task'[queue'[i].who].todo)
    <3>1. queue'[i] = queue[i] /\ task'[queue[i].who] = task[queue[i].who]
      BY <1>1, <1>2, <1>3
    <3> QED
      BY <1>2, <3>1 DEF IInv, VerifyInv
  <2>2. ASSUME NEW u \in Task
        PROVE  VerifySafe(u)'
    <3>1. CASE u = t
      BY <1>1, <1>2, <3>1 DEF VerifySafe
    <3>2. CASE u # t
      BY <1>1, <1>2, <3>2, VerifyStays
    <3> QED
      BY <3>1, <3>2
  <2> QED
    BY <2>1, <2>2 DEF VerifyInv, VerifySafe
<1>9. TaskInv'
  <2>1. ASSUME NEW u \in Task
        PROVE  Fits(u, task[u], Stands(u))'
    <3>1. CASE u = t
      <4>1. Fits(t, k, k.at)'
        BY DEF Moving
      <4> QED
        BY <1>1, <3>1, <4>1 DEF Fits
    <3>2. CASE u # t
      <4>1. Fits(u, task[u], Stands(u)) /\ task[u] \in Local
        BY DEF IInv, TaskInv, TypeInv
      <4>2. \A l \in Local : \A q : Fits(u, l, q) => Fits(u, l, q)'
        BY <1>2, <3>2, FitsStays
      <4>3. task'[u] = task[u] /\ Stands(u)' = Stands(u)
        BY <1>1, <3>2
      <4> QED
        BY <4>1, <4>2, <4>3 DEF Fits
    <3> QED
      BY <3>1, <3>2
  <2>2. \A q \in credited' : q[1] \in settled'
    BY <1>2 DEF Around
  <2>3. ASSUME NEW u \in Task
        PROVE  SyncSafe(u)'
    <3>1. CASE u = t
      BY <1>1, <1>2, <3>1 DEF SyncSafe
    <3>2. CASE u # t
      BY <1>1, <1>2, <3>2, SyncStays
    <3> QED
      BY <3>1, <3>2
  <2> QED
    BY <2>1, <2>2, <2>3 DEF TaskInv, SyncSafe
<1> QED
  BY <1>4, <1>5, <1>6, <1>7, <1>8, <1>9 DEF IInv

-----------------------------------------------------------------------------
(* The emissions of one event, after which the coroutine is over.           *)

\* Nothing moves but the queue and the coroutine.
Plain ==
    /\ UNCHANGED <<entries, journal, index, refused, admitted, credited, clicks, deleted, settled>>
    /\ extracted' \subseteq Entry

LEMMA PlainAround ==
    ASSUME IInv, Plain, NEW t \in Task
    PROVE  Around(t)
BY DEF Plain, Around, IInv, TypeInv, TaskInv, Exists

LEMMA PlainHarmless ==
    ASSUME IInv, Plain, NEW ev \in Event, Harmless(ev)
    PROVE  Harmless(ev)'
BY DEF Plain, Harmless, Exists, Earned, Barred

LEMMA LastEmission ==
    ASSUME IInv, Plain, NEW t \in Task, NEW ev \in Event, task[t].at \notin Await,
           Emit(t, Idle, ev, "idle"), Harmless(ev),
           ev.kind = "created" => ev.status # "rejected"
    PROVE  IInv'
<1>1. Around(t) /\ Harmless(ev)'
  BY PlainAround, PlainHarmless
<1>2. Fits(t, Idle, "idle")'
  BY DEF Fits
<1>3. Emission(t, Idle, ev, "idle")
  BY <1>1, <1>2, IdleLocal DEF Emission, Emit, Place
<1> QED
  BY <1>3, EmissionKeeps

(* What the actions may emit.                                               *)
LEMMA NewHarmless ==
    ASSUME NEW e \in Entry, NEW s \in {"candidate", "verified", "rejected"}
    PROVE  Created(e, s) \in Event /\ Harmless(Created(e, s))
BY Events DEF Harmless

LEMMA OldHarmless ==
    ASSUME IInv, NEW e \in Entry, Exists(e)
    PROVE  /\ entries[e].status \in Status
           /\ Harmless(Refined(e))
           /\ \A n \in Nat : n <= Earned(e) => Harmless(Updated(e, n))
           /\ \A f \in Entry : Exists(f) => Harmless(Merged(e, f))
           /\ \A s \in Status : (entries[e].status = "rejected" => s = "rejected") =>
                  Harmless(Changed(e, s))
<1>1. entries[e] \in Item
  BY DEF IInv, TypeInv
<1>2. entries[e].status \in Status
  BY <1>1 DEF Item, Exists
<1>3. e \in Barred => entries[e].status = "rejected"
  BY DEF IInv, EntryInv
<1>4. Harmless(Refined(e))
  BY Events DEF Harmless
<1>5. \A n \in Nat : n <= Earned(e) => Harmless(Updated(e, n))
  BY Events DEF Harmless
<1>6. \A f \in Entry : Exists(f) => Harmless(Merged(e, f))
  BY Events DEF Harmless
<1>7. \A s \in Status : (entries[e].status = "rejected" => s = "rejected") =>
          Harmless(Changed(e, s))
  BY <1>3, Events DEF Harmless
<1> QED
  BY <1>2, <1>4, <1>5, <1>6, <1>7

LEMMA Workers ==
    {"extract", "dedup", "sweep", "stale", "person"} \subseteq Task /\ Colony \subseteq Task
BY DEF Task, Service

LEMMA IsPlain ==
    ASSUME IInv, UNCHANGED <<state, gate, ghosts, restarts>>
    PROVE  Plain
BY DEF Plain, state, gate, ghosts, IInv, TypeInv

LEMMA NotAwaiting == \A p \in Place : p \notin Await
BY DEF Place, Await

LEMMA StartsFree == \A t \in Task : Starts(t) => task[t].at \notin Await
BY DEF Starts, Await

LEMMA CreditBounded ==
    ASSUME IInv, NEW e \in Entry
    PROVE  entries[e].credit \in Nat /\ Earned(e) \in Nat /\ entries[e].credit <= Earned(e)
<1>1. entries[e].credit \in Nat /\ entries[e].credit <= Earned(e)
  BY DEF IInv, TypeInv, EntryInv, Item
<1>2. IsFiniteSet({c \in Colony : <<c, e>> \in credited})
  BY KnowledgeAssumption, FS_Subset
<1>3. Cardinality({c \in Colony : <<c, e>> \in credited}) \in Nat /\ clicks[e] \in Nat
  BY <1>2, FS_CardinalityType DEF IInv, TypeInv
<1> QED
  BY <1>1, <1>3 DEF Earned

LEMMA AbsentHasNone ==
    ASSUME IInv, NEW e \in Entry, entries[e].credit > 0
    PROVE  Exists(e)
BY DEF IInv, EntryInv

(* Entries are created, refined, merged and swept.                          *)
LEMMA CreationsKeep ==
    ASSUME IInv, Harvest \/ CreateEntry \/ LogFinding
    PROVE  IInv'
<1>1. PICK t \in Task, e \in Entry, s \in {"candidate", "verified"} :
          NewEntry(e) /\ Starts(t) /\ Emit(t, Idle, Created(e, s), "idle")
  <2>1. CASE Harvest
    BY <2>1, Workers DEF Harvest
  <2>2. CASE CreateEntry
    BY <2>2, Workers DEF CreateEntry
  <2>3. CASE LogFinding
    BY <2>3, Workers DEF LogFinding
  <2> QED
    BY <2>1, <2>2, <2>3
<1>2. Plain
  BY IsPlain DEF Harvest, CreateEntry, LogFinding
<1> DEFINE ev == Created(e, s)
<1>3. ev \in Event /\ Harmless(ev) /\ ev.status # "rejected"
  BY <1>1, NewHarmless, Events
<1>4. task[t].at \notin Await
  BY <1>1, StartsFree
<1> HIDE DEF ev
<1>5. Emit(t, Idle, ev, "idle")
  BY <1>1 DEF ev
<1> QED
  BY <1>2, <1>3, <1>4, <1>5, LastEmission

LEMMA RewritesKeep ==
    ASSUME IInv, ExtractRefine \/ ExtractMerge \/ Curate \/ EditEntry
    PROVE  IInv'
<1>1. PICK t \in Task, e \in Entry :
          /\ Exists(e) /\ Starts(t)
          /\ \/ Emit(t, Idle, Refined(e), "idle")
             \/ \E f \in Entry : Exists(f) /\ Emit(t, Idle, Merged(e, f), "idle")
  <2>1. CASE ExtractRefine
    BY <2>1, Workers DEF ExtractRefine
  <2>2. CASE ExtractMerge
    BY <2>2, Workers DEF ExtractMerge
  <2>3. CASE Curate
    BY <2>3, Workers DEF Curate
  <2>4. CASE EditEntry
    BY <2>4, Workers DEF EditEntry
  <2> QED
    BY <2>1, <2>2, <2>3, <2>4
<1>2. Plain
  BY IsPlain DEF ExtractRefine, ExtractMerge, Curate, EditEntry
<1>3. PICK ev \in Event : /\ Emit(t, Idle, ev, "idle") /\ Harmless(ev) /\ ev.kind # "created"
  BY <1>1, OldHarmless, Events
<1>4. task[t].at \notin Await
  BY <1>1, StartsFree
<1> QED
  BY <1>2, <1>3, <1>4, LastEmission

LEMMA SweepsKeep ==
    ASSUME IInv, StaleSweep \/ ConfidenceReset \/ ArchiveThread
    PROVE  IInv'
<1>2. Plain
  BY IsPlain DEF StaleSweep, ConfidenceReset, ArchiveThread
<1>3. \E t \in Task, ev \in Event :
          /\ Starts(t) /\ Emit(t, Idle, ev, "idle") /\ Harmless(ev) /\ ev.kind # "created"
  <2>1. CASE StaleSweep
    <3>1. PICK e \in Entry : /\ Exists(e) /\ entries[e].status \notin {"rejected", "stale"}
                             /\ Emit("stale", Idle, Changed(e, "stale"), "idle")
      BY <2>1 DEF StaleSweep
    <3>2. "stale" \in Status
      BY DEF Status, Live
    <3>3. Harmless(Changed(e, "stale"))
      BY <3>1, <3>2, OldHarmless
    <3> QED
      BY <2>1, <3>1, <3>2, <3>3, Workers, Events DEF StaleSweep
  <2>2. CASE ConfidenceReset
    <3>1. PICK e \in Entry : entries[e].credit > 0 /\ Emit("stale", Idle, Updated(e, 0), "idle")
      BY <2>2 DEF ConfidenceReset
    <3>2. Exists(e)
      BY <3>1, AbsentHasNone
    <3>3. 0 \in Nat /\ 0 <= Earned(e)
      BY CreditBounded
    <3>4. Harmless(Updated(e, 0))
      BY <3>2, <3>3, OldHarmless
    <3> QED
      BY <2>2, <3>1, <3>3, <3>4, Workers, Events DEF ConfidenceReset
  <2>3. CASE ArchiveThread
    <3>0. PICK e \in Entry : \E n \in 0..(entries[e].credit - 1) :
              Emit("person", Idle, Updated(e, n), "idle")
      BY <2>3 DEF ArchiveThread
    <3>1. PICK n \in 0..(entries[e].credit - 1) : Emit("person", Idle, Updated(e, n), "idle")
      BY <3>0
    <3>2. n \in Nat /\ n <= Earned(e) /\ entries[e].credit > 0
      BY CreditBounded
    <3>3. Exists(e)
      BY <3>2, AbsentHasNone
    <3>4. Harmless(Updated(e, n))
      BY <3>2, <3>3, OldHarmless
    <3> QED
      BY <2>3, <3>1, <3>2, <3>4, Workers, Events DEF ArchiveThread
  <2> QED
    BY <2>1, <2>2, <2>3
<1>4. PICK t \in Task, ev \in Event :
          /\ Starts(t) /\ Emit(t, Idle, ev, "idle") /\ Harmless(ev) /\ ev.kind # "created"
  BY <1>3
<1>5. task[t].at \notin Await
  BY <1>4, StartsFree
<1> QED
  BY <1>2, <1>4, <1>5, LastEmission

(* A move, and what is known of a coroutine that is not at an await.        *)
LEMMA FitsPlain ==
    ASSUME Plain, NEW t, NEW k, NEW p, Fits(t, k, p)
    PROVE  Fits(t, k, p)'
BY DEF Plain, Fits, Exists

LEMMA PlainEmission ==
    ASSUME IInv, Plain, NEW t \in Task, NEW k \in Local, NEW ev \in Event, NEW p \in Place,
           task[t].at \notin Await, k.sync = <<>>, Emit(t, k, ev, p), Harmless(ev), Fits(t, k, p),
           ev.kind = "created" /\ ev.status = "rejected" => p = "verify" /\ ev.entry \in k.seen,
           p = "verify" => ev.kind = "created" /\ ev.entry = Head(k.todo)
    PROVE  IInv'
<1>1. Around(t) /\ Harmless(ev)' /\ Fits(t, k, p)'
  BY PlainAround, PlainHarmless, FitsPlain
<1>2. /\ queue' = Append(queue, [who |-> t, event |-> ev])
      /\ task' = [task EXCEPT ![t] = [k EXCEPT !.at = "lock", !.then = p]]
  BY DEF Emit
<1>3. Emission(t, k, ev, p)
  BY <1>1, <1>2 DEF Emission
<1> QED
  BY <1>3, EmissionKeeps

LEMMA PlainMove ==
    ASSUME IInv, Plain, NEW t \in Task, NEW k \in Local, task[t].at \notin Await, k.sync = <<>>,
           k.at \notin Await \cup {"verify"}, queue' = queue, task' = [task EXCEPT ![t] = k],
           Fits(t, k, k.at)
    PROVE  IInv'
<1>1. Fits(t, k, k.at)'
  BY FitsPlain
<1>2. Moving(t, k)
  BY <1>1, PlainAround DEF Moving
<1> QED
  BY <1>2, MovingKeeps

LEMMA AtPlace ==
    ASSUME IInv, NEW t \in Task, task[t].at \notin Await
    PROVE  /\ task[t] \in Local /\ task[t].sync = <<>> /\ Fits(t, task[t], task[t].at)
           /\ task[t].todo \in Seq(Entry) /\ task[t].seen \subseteq Entry
<1>1. task[t] \in Local
  BY DEF IInv, TypeInv
<1>2. task[t].sync = <<>>
  BY DEF IInv, LockInv, Await
<1>3. Fits(t, task[t], task[t].at)
  BY DEF IInv, TaskInv, Stands
<1> QED
  BY <1>1, <1>2, <1>3 DEF Local

LEMMA IdleFits == \A t : Fits(t, Idle, "idle")
BY DEF Fits

LEMMA DedupKeeps ==
    ASSUME IInv, DedupStart \/ DedupCompare \/ DedupJudge \/ DedupDismiss
    PROVE  IInv'
<1>1. Plain
  BY IsPlain DEF DedupStart, DedupCompare, DedupJudge, DedupDismiss
<1>2. "dedup" \in Task
  BY Workers
<1> DEFINE d == task["dedup"]
<1>3. CASE DedupStart
  <2>1. d.at \notin Await
    BY <1>2, <1>3, StartsFree DEF DedupStart
  <2>2. PICK e \in Entry, f \in Entry :
          /\ entries[e].status = "verified" /\ entries[f].status = "verified"
          /\ task' = [task EXCEPT !["dedup"].at = "compare", !["dedup"].todo = <<e, f>>]
    BY <1>3 DEF DedupStart
  <2> DEFINE k == [d EXCEPT !.at = "compare", !.todo = <<e, f>>]
  <2>3. d \in Local /\ d.sync = <<>>
    BY <1>2, <2>1, AtPlace
  <2>4. <<e, f>> \in Seq(Entry) /\ Len(<<e, f>>) = 2 /\ <<e, f>>[1] = e /\ <<e, f>>[2] = f
    OBVIOUS
  <2>5. k \in Local /\ k.sync = <<>> /\ k.at = "compare" /\ k.todo = <<e, f>>
    BY <2>3, <2>4 DEF Local, Place
  <2>6. task' = [task EXCEPT !["dedup"] = k]
    BY <2>2
  <2> HIDE DEF k
  <2>7. Fits("dedup", k, k.at)
    BY <2>2, <2>4, <2>5 DEF Fits, Exists
  <2>8. queue' = queue
    BY <1>3 DEF DedupStart
  <2> QED
    BY <1>1, <1>2, <2>1, <2>5, <2>6, <2>7, <2>8, PlainMove DEF Await
<1>4. CASE DedupCompare \/ DedupJudge \/ DedupDismiss
  <2>1. d.at \in {"compare", "judge", "dismiss"}
    BY <1>4 DEF DedupCompare, DedupJudge, DedupDismiss
  <2>2. d.at \notin Await
    BY <2>1 DEF Await
  <2>3. /\ d \in Local /\ d.sync = <<>> /\ Fits("dedup", d, d.at)
        /\ d.todo \in Seq(Entry) /\ Len(d.todo) = 2
        /\ Exists(d.todo[1]) /\ Exists(d.todo[2])
    BY <1>2, <2>1, <2>2, AtPlace DEF Fits
  <2>4. d.todo[1] \in Entry /\ d.todo[2] \in Entry
    BY <2>3
  <2> DEFINE e == d.todo[1]
             f == d.todo[2]
  <2>5. /\ Merged(e, f) \in Event /\ Harmless(Merged(e, f)) /\ Merged(e, f).kind # "created"
        /\ Merged(f, e) \in Event /\ Harmless(Merged(f, e)) /\ Merged(f, e).kind # "created"
    BY <2>3, <2>4, OldHarmless, Events
  <2>6. \A x \in {e, f} :
           /\ Changed(x, entries[x].status) \in Event /\ Harmless(Changed(x, entries[x].status))
           /\ Changed(x, entries[x].status).kind = "status"
    BY <2>3, <2>4, OldHarmless, Events
  <2>7. CASE Absorb(e, f) \/ Absorb(f, e)
    <3>1. PICK ev \in Event : Emit("dedup", Idle, ev, "idle") /\ Harmless(ev) /\ ev.kind # "created"
      BY <2>5, <2>7 DEF Absorb
    <3> QED
      BY <1>1, <1>2, <2>2, <3>1, LastEmission
  <2>8. CASE task' = [task EXCEPT !["dedup"] = Idle] /\ queue' = queue
    BY <1>1, <1>2, <2>2, <2>8, IdleLocal, IdleFits, PlainMove DEF Await
  <2>9. CASE /\ queue' = queue
             /\ task' = [task EXCEPT !["dedup"].at = IF Found(f) THEN "judge" ELSE "idle"]
    <3>1. PICK p \in {"judge", "idle"} : task' = [task EXCEPT !["dedup"].at = p]
      BY <2>9
    <3> DEFINE k == [d EXCEPT !.at = p]
    <3>2. k \in Local /\ k.sync = <<>> /\ k.at = p /\ k.todo = d.todo
      BY <2>3 DEF Local, Place
    <3>3. task' = [task EXCEPT !["dedup"] = k]
      BY <3>1
    <3> HIDE DEF k
    <3>4. Fits("dedup", k, k.at)
      BY <2>3, <3>2 DEF Fits
    <3> QED
      BY <1>1, <1>2, <2>2, <2>9, <3>2, <3>3, <3>4, PlainMove DEF Await
  <2>10. CASE Emit("dedup", d, Changed(e, entries[e].status), "dismiss")
    <3> DEFINE ev == Changed(e, entries[e].status)
    <3>1. ev \in Event /\ Harmless(ev) /\ ev.kind = "status"
      BY <2>6
    <3>2. Fits("dedup", d, "dismiss")
      BY <2>1, <2>3 DEF Fits
    <3>3. Emit("dedup", d, ev, "dismiss") /\ "dismiss" \in Place
      BY <2>10 DEF Place
    <3> HIDE DEF ev
    <3> QED
      BY <1>1, <1>2, <2>2, <2>3, <3>1, <3>2, <3>3, PlainEmission
  <2>11. CASE Emit("dedup", Idle, Changed(f, entries[f].status), "idle")
    <3>1. PICK ev \in Event : Emit("dedup", Idle, ev, "idle") /\ Harmless(ev) /\ ev.kind # "created"
      BY <2>6, <2>11
    <3> QED
      BY <1>1, <1>2, <2>2, <3>1, LastEmission
  <2> QED
    BY <1>4, <2>7, <2>8, <2>9, <2>10, <2>11 DEF DedupCompare, DedupJudge, DedupDismiss
<1> QED
  BY <1>3, <1>4

(* Extraction verifies only what was not refused.                           *)
LEMMA VerifyKeeps ==
    ASSUME IInv, Verify
    PROVE  IInv'
<1> DEFINE x == task["extract"]
           e == Head(x.todo)
<1>1. Plain /\ "extract" \in Task /\ x.at = "verify" /\ x.at \notin Await
  BY IsPlain, Workers DEF Verify, Await
<1>2. x \in Local /\ Fits("extract", x, x.at) /\ x.todo \in Seq(Entry)
  BY <1>1, AtPlace
<1>3. e \in Entry
  BY <1>1, <1>2 DEF Fits
<1>4. Exists(e) /\ (e \in Barred => e \in x.seen)
  BY <1>1 DEF IInv, VerifyInv, Stands
<1>5. CASE Verifies("extract", e) /\ Emit("extract", Idle, Changed(e, "verified"), "idle")
  <2>1. "verified" \in Status
    BY DEF Status, Live
  <2>2. e \notin Barred
    BY <1>4, <1>5 DEF Verifies
  <2>3. /\ Changed(e, "verified") \in Event /\ Changed(e, "verified").kind = "status"
        /\ Changed(e, "verified").entry = e
    BY <1>3, <2>1, Events
  <2>4. Harmless(Changed(e, "verified"))
    BY <1>4, <2>2, <2>3 DEF Harmless
  <2>5. PICK ev \in Event : Emit("extract", Idle, ev, "idle") /\ Harmless(ev) /\ ev.kind = "status"
    BY <1>5, <2>3, <2>4
  <2> QED
    BY <1>1, <2>5, LastEmission
<1>6. CASE task' = [task EXCEPT !["extract"] = Idle] /\ queue' = queue
  BY <1>1, <1>6, IdleLocal, IdleFits, PlainMove DEF Await
<1> QED
  BY <1>5, <1>6 DEF Verify

LEMMA ExtractKeeps ==
    ASSUME IInv, Extract
    PROVE  IInv'
<1>1. "extract" \in Task /\ task["extract"].at \notin Await
  BY Workers, StartsFree DEF Extract
<1>2. PICK e \in Entry, s \in Admission, completed \in BOOLEAN :
          /\ extracted' = extracted \cup {e}
          /\ Emit("extract",
                  [Idle EXCEPT !.todo = <<e>>, !.ok = completed,
                               !.seen = IF s = "rejected" THEN {e} ELSE {}],
                  Created(e, s), "verify")
  BY DEF Extract
<1> DEFINE k  == [Idle EXCEPT !.todo = <<e>>, !.ok = completed,
                              !.seen = IF s = "rejected" THEN {e} ELSE {}]
           ev == Created(e, s)
<1>3. /\ ev \in Event /\ Harmless(ev) /\ ev.kind = "created" /\ ev.entry = e /\ ev.status = s
  BY <1>2, NewHarmless, Events DEF Admission
<1>P. Plain
  BY <1>2 DEF Extract, Plain, state, ghosts, IInv, TypeInv
<1>4. <<e>> \in Seq(Entry) /\ <<>> \in Seq(Entry) /\ Head(<<e>>) = e /\ <<e>> # <<>>
  OBVIOUS
<1>5. k \in Local /\ k.sync = <<>> /\ k.todo = <<e>> /\ (s = "rejected" => e \in k.seen)
  <2> DEFINE refusal == IF s = "rejected" THEN {e} ELSE {}
             l == [Idle EXCEPT !.todo = <<e>>, !.ok = completed]
  <2>1. Idle \in Local /\ Idle.sync = <<>>
    BY IdleLocal
  <2>2. l \in Local /\ l.sync = <<>> /\ l.todo = <<e>>
    BY <1>4, <2>1 DEF Local
  <2>3. refusal \subseteq Entry /\ (s = "rejected" => e \in refusal)
    OBVIOUS
  <2>4. k = [l EXCEPT !.seen = refusal]
    OBVIOUS
  <2> HIDE DEF k, l, refusal
  <2> QED
    BY <2>2, <2>3, <2>4 DEF Local
<1> HIDE DEF k, ev
<1>6. Fits("extract", k, "verify") /\ "verify" \in Place
  BY <1>4, <1>5 DEF Fits, Place
<1>7. Emit("extract", k, ev, "verify")
  BY <1>2 DEF k, ev
<1> QED
  BY <1>1, <1>P, <1>3, <1>4, <1>5, <1>6, <1>7, PlainEmission

(* The hook that credits a colony's entries.                                *)
LEMMA SettleKeeps ==
    ASSUME IInv, NEW c \in Colony, Settle(c)
    PROVE  IInv'
<1>1. c \in Task /\ task[c].at \notin Await
  BY Workers, StartsFree DEF Settle
<1>2. PICK succeeded \in BOOLEAN :
          task' = [task EXCEPT ![c].at = "hook", ![c].todo = Accesses(c), ![c].ok = succeeded]
  BY DEF Settle
<1> DEFINE m == [task[c] EXCEPT !.at = "hook", !.todo = Accesses(c)]
           k == [m EXCEPT !.ok = succeeded]
<1>3. task[c] \in Local /\ task[c].sync = <<>>
  BY <1>1, AtPlace
<1>4. Accesses(c) \in Seq(Entry)
  BY KnowledgeAssumption
<1>5. m \in Local /\ m.sync = <<>> /\ m.at = "hook"
  BY <1>3, <1>4 DEF Local, Place
<1>6. task' = [task EXCEPT ![c] = k]
  BY <1>2
<1> HIDE DEF m
<1>7. k \in Local /\ k.sync = <<>> /\ k.at = "hook"
  BY <1>5 DEF Local
<1> HIDE DEF k
<1>8. Around(c)
  BY DEF Settle, Around, state, gate, IInv, TypeInv, TaskInv, Exists
<1>9. ASSUME NEW l \in Local
      PROVE  Fits(c, l, "hook")'
  <2>1. \A e \in Entry : <<c, e>> \notin credited
    <3> SUFFICES ASSUME NEW e \in Entry, <<c, e>> \in credited
                 PROVE  FALSE
      OBVIOUS
    <3>1. <<c, e>>[1] \in settled
      BY DEF IInv, TaskInv
    <3> QED
      BY <3>1 DEF Settle
  <2> QED
    BY <2>1 DEF Fits, Settle
<1>10. PICK l \in Local : l = k
  BY <1>7
<1>11. Moving(c, l)
  <2>1. queue' = queue
    BY DEF Settle
  <2>2. l.at \notin Await \cup {"verify"} /\ l.at = "hook"
    BY <1>7, <1>10 DEF Await
  <2>3. Fits(c, l, l.at)'
    BY <1>9, <2>2
  <2> QED
    BY <1>1, <1>6, <1>7, <1>8, <1>10, <2>1, <2>2, <2>3 DEF Moving
<1> QED
  BY <1>1, <1>11, MovingKeeps

LEMMA HookSkipKeeps ==
    ASSUME IInv, NEW c \in Colony, HookSkip(c)
    PROVE  IInv'
<1>1. Plain /\ c \in Task /\ task[c].at = "hook" /\ task[c].at \notin Await
  BY IsPlain, Workers DEF HookSkip, Await
<1>2. /\ task[c] \in Local /\ task[c].sync = <<>> /\ Fits(c, task[c], "hook")
      /\ task[c].todo \in Seq(Entry) /\ task[c].todo # <<>>
  BY <1>1, AtPlace DEF HookSkip
<1> DEFINE k == [task[c] EXCEPT !.todo = Tail(@), !.seen = @ \cup {Head(task[c].todo)}]
<1>3. Head(task[c].todo) \in Entry /\ Tail(task[c].todo) \in Seq(Entry)
  BY <1>2
<1>4. k \in Local /\ k.sync = <<>> /\ k.at = "hook" /\ task[c].seen \subseteq k.seen
  BY <1>1, <1>2, <1>3 DEF Local
<1>5. task' = [task EXCEPT ![c] = k] /\ queue' = queue
  BY DEF HookSkip
<1> HIDE DEF k
<1>6. Fits(c, k, k.at)
  BY <1>2, <1>4 DEF Fits
<1> QED
  BY <1>1, <1>4, <1>5, <1>6, PlainMove DEF Await

LEMMA HookPromoteKeeps ==
    ASSUME IInv, NEW c \in Colony, HookPromote(c)
    PROVE  IInv'
<1>1. Plain /\ c \in Task /\ task[c].at = "promote" /\ task[c].at \notin Await
  BY IsPlain, Workers DEF HookPromote, Await
<1>2. /\ task[c] \in Local /\ task[c].sync = <<>> /\ Fits(c, task[c], "promote")
      /\ task[c].todo \in Seq(Entry) /\ task[c].todo # <<>>
  BY <1>1, AtPlace DEF Fits
<1> DEFINE e == Head(task[c].todo)
           k == [task[c] EXCEPT !.todo = Tail(@), !.new = 0]
           h == [k EXCEPT !.at = "hook"]
<1>3. e \in Entry /\ Tail(task[c].todo) \in Seq(Entry) /\ Exists(e)
  BY <1>2 DEF Fits
<1>4. k \in Local /\ k.sync = <<>> /\ k.seen = task[c].seen
  BY <1>2, <1>3 DEF Local
<1>5. \/ Promotes(c, e) /\ Emit(c, k, Changed(e, "verified"), "hook")
      \/ task' = [task EXCEPT ![c] = h] /\ queue' = queue
  BY DEF HookPromote
<1> HIDE DEF k
<1>6. h \in Local /\ h.sync = <<>> /\ h.seen = task[c].seen /\ h.at = "hook"
  BY <1>4 DEF Local, Place
<1> HIDE DEF h
<1>7. Fits(c, k, "hook") /\ Fits(c, h, h.at)
  BY <1>2, <1>4, <1>6 DEF Fits
<1>8. CASE Promotes(c, e) /\ Emit(c, k, Changed(e, "verified"), "hook")
  <2>1. "verified" \in Status /\ "hook" \in Place
    BY DEF Status, Live, Place
  <2>2. Changed(e, "verified") \in Event /\ Changed(e, "verified").kind = "status"
    BY <1>3, <2>1, Events
  <2>3. Harmless(Changed(e, "verified"))
    BY <1>3, <1>8, <2>1, OldHarmless DEF Promotes
  <2>4. PICK ev \in Event : Emit(c, k, ev, "hook") /\ Harmless(ev) /\ ev.kind = "status"
    BY <1>8, <2>2, <2>3
  <2> QED
    BY <1>1, <1>4, <1>7, <2>1, <2>4, PlainEmission
<1>9. CASE task' = [task EXCEPT ![c] = h] /\ queue' = queue
  BY <1>1, <1>6, <1>7, <1>9, PlainMove DEF Await
<1> QED
  BY <1>5, <1>8, <1>9

LEMMA TrajectoryKeeps ==
    ASSUME IInv, NEW c \in Colony, Trajectory(c)
    PROVE  IInv'
<1>1. Plain /\ c \in Task /\ task[c].at \notin Await
  BY IsPlain, Workers DEF Trajectory, Await
<1>2. CASE task' = [task EXCEPT ![c] = Idle] /\ queue' = queue
  BY <1>1, <1>2, IdleLocal, IdleFits, PlainMove DEF Await
<1>3. CASE \E e \in Entry : NewEntry(e) /\ Emit(c, Idle, Created(e, "verified"), "idle")
  <2>1. PICK e \in Entry : NewEntry(e) /\ Emit(c, Idle, Created(e, "verified"), "idle")
    BY <1>3
  <2> DEFINE ev == Created(e, "verified")
  <2>2. ev \in Event /\ Harmless(ev) /\ ev.status = "verified"
    BY <2>1, NewHarmless, Events
  <2>3. Emit(c, Idle, ev, "idle")
    BY <2>1
  <2> HIDE DEF ev
  <2> QED
    BY <1>1, <2>2, <2>3, LastEmission
<1> QED
  BY <1>2, <1>3 DEF Trajectory

LEMMA HookUpdateKeeps ==
    ASSUME IInv, NEW c \in Colony, HookUpdate(c)
    PROVE  IInv'
<1>1. c \in Task /\ task[c].at = "hook" /\ task[c].at \notin Await
  BY Workers DEF HookUpdate, Await
<1>2. /\ task[c] \in Local /\ task[c].sync = <<>> /\ Fits(c, task[c], "hook")
      /\ task[c].todo \in Seq(Entry) /\ task[c].todo # <<>>
  BY <1>1, AtPlace DEF HookUpdate
<1>3. PICK e \in Entry : e = Head(task[c].todo)
  BY <1>2
<1>4. entries[e].credit \in Nat /\ Earned(e) \in Nat /\ entries[e].credit <= Earned(e)
  BY CreditBounded
<1>5. PICK n \in Nat : n = entries[e].credit + IF task[c].ok THEN 1 ELSE 0
  BY <1>4
<1> DEFINE k == [task[c] EXCEPT !.seen = @ \cup {e}, !.new = n]
<1>6. /\ e \notin task[c].seen /\ Exists(e)
      /\ Emit(c, k, Updated(e, n), "promote")
      /\ credited' = IF task[c].ok THEN credited \cup {<<c, e>>} ELSE credited
      /\ UNCHANGED <<entries, journal, index, gate, clicks, deleted, settled>>
  BY <1>3, <1>5 DEF HookUpdate, Skips, state
<1>7. Around(c)
  <2>1. /\ credited \subseteq credited' /\ credited' \subseteq Colony \X Entry
        /\ \A q \in credited' \ credited : q[1] = c
        /\ \A q \in credited' : q[1] \in settled'
    BY <1>2, <1>6 DEF IInv, TypeInv, TaskInv, Fits
  <2> QED
    BY <1>6, <2>1 DEF Around, IInv, TypeInv, Exists, gate
<1>8. <<c, e>> \notin credited
  BY <1>2, <1>6 DEF Fits
<1>9. n <= Earned(e)'
  <2>1. /\ Earned(e)' \in Nat /\ Earned(e) <= Earned(e)'
        /\ <<c, e>> \in credited' \ credited => Earned(e) + 1 <= Earned(e)'
    BY <1>7, EarnedGrows DEF IInv, TypeInv, Around
  <2>2. task[c].ok => <<c, e>> \in credited' \ credited
    BY <1>6, <1>8
  <2>3. CASE task[c].ok
    BY <1>4, <1>5, <2>1, <2>2, <2>3
  <2>4. CASE ~task[c].ok
    BY <1>4, <1>5, <2>1, <2>4
  <2> QED
    BY <2>3, <2>4
<1>10. PICK l \in Local : /\ l = k /\ l.sync = <<>> /\ l.todo = task[c].todo
                          /\ l.seen = task[c].seen \cup {e}
  <2>1. k \in Local /\ k.sync = <<>> /\ k.todo = task[c].todo /\ k.seen = task[c].seen \cup {e}
    BY <1>2 DEF Local
  <2> HIDE DEF k
  <2> QED
    BY <2>1
<1>11. PICK ev \in Event : /\ ev = Updated(e, n) /\ ev.kind = "confidence"
                           /\ ev.entry = e /\ ev.credit = n
  BY Events
<1> HIDE DEF k
<1>12. Exists(e)'
  BY <1>6, <1>7 DEF Around
<1>13. Harmless(ev)'
  BY <1>9, <1>11, <1>12 DEF Harmless
<1>14. Fits(c, l, "promote")'
  <2>1. c \in settled' /\ l.todo # <<>> /\ Head(l.todo) = e
    BY <1>2, <1>3, <1>6, <1>10 DEF Fits
  <2>2. \A y \in Entry : <<c, y>> \in credited' => y \in l.seen
    BY <1>2, <1>6, <1>10 DEF Fits
  <2> QED
    BY <1>12, <2>1, <2>2 DEF Fits
<1>15. "promote" \in Place
  BY DEF Place
<1>16. Emission(c, l, ev, "promote")
  BY <1>1, <1>6, <1>7, <1>10, <1>11, <1>13, <1>14, <1>15 DEF Emission, Emit
<1> QED
  BY <1>1, <1>16, EmissionKeeps

(* People and agents rate, delete, and the sweep marks what it has scanned.  *)
LEMMA RatesKeep ==
    ASSUME IInv, NEW t \in Task, Starts(t), NEW e \in Entry, NEW positive \in BOOLEAN,
           Rates(t, e, positive)
    PROVE  IInv'
<1>1. entries[e].credit \in Nat /\ Earned(e) \in Nat /\ entries[e].credit <= Earned(e)
  BY CreditBounded
<1>2. PICK d \in {0, 1} : d = IF positive THEN 1 ELSE 0
  OBVIOUS
<1>3. PICK n \in Nat : n = entries[e].credit + d
  BY <1>1
<1>4. /\ Exists(e) /\ Emit(t, Idle, Updated(e, n), "idle")
      /\ clicks' = [clicks EXCEPT ![e] = @ + d]
      /\ UNCHANGED <<entries, journal, index, gate, credited, deleted, settled>>
  BY <1>2, <1>3 DEF Rates, state
<1>5. clicks' \in [Entry -> Nat] /\ (\A x \in Entry : clicks[x] <= clicks'[x])
      /\ clicks'[e] = clicks[e] + d
  BY <1>2, <1>4 DEF IInv, TypeInv
<1>6. Around(t)
  BY <1>4, <1>5 DEF Around, IInv, TypeInv, TaskInv, Exists, gate
<1>7. n <= Earned(e)'
  <2>1. /\ Earned(e)' \in Nat /\ Earned(e) <= Earned(e)'
        /\ clicks[e] + 1 <= clicks'[e] => Earned(e) + 1 <= Earned(e)'
    BY <1>5, <1>6, EarnedGrows DEF IInv, TypeInv, Around
  <2>2. clicks[e] \in Nat
    BY DEF IInv, TypeInv
  <2> QED
    BY <1>1, <1>3, <1>5, <2>1, <2>2
<1>8. PICK ev \in Event : /\ ev = Updated(e, n) /\ ev.kind = "confidence"
                          /\ ev.entry = e /\ ev.credit = n
  BY Events
<1>9. Harmless(ev)'
  BY <1>4, <1>6, <1>7, <1>8 DEF Harmless, Around
<1>10. Fits(t, Idle, "idle")'
  BY DEF Fits
<1>11. "idle" \in Place /\ task[t].at \notin Await
  BY StartsFree DEF Place
<1>12. Emission(t, Idle, ev, "idle")
  BY <1>4, <1>6, <1>8, <1>9, <1>10, <1>11, IdleLocal DEF Emission, Emit
<1> QED
  BY <1>12, EmissionKeeps

LEMMA FeedbackKeeps ==
    ASSUME IInv,
           SubmitFeedback \/ ConfirmReview \/ \E c \in Colony : AgentFeedback(c)
    PROVE  IInv'
<1>1. "person" \in Task /\ Colony \subseteq Task
  BY Workers
<1>2. CASE SubmitFeedback
  BY <1>1, <1>2, RatesKeep DEF SubmitFeedback
<1>3. CASE ConfirmReview
  BY <1>1, <1>3, RatesKeep DEF ConfirmReview
<1>4. CASE \E c \in Colony : AgentFeedback(c)
  BY <1>1, <1>4, RatesKeep DEF AgentFeedback
<1> QED
  BY <1>2, <1>3, <1>4

LEMMA DeleteEntryKeeps ==
    ASSUME IInv, DeleteEntry
    PROVE  IInv'
<1>1. "person" \in Task /\ task["person"].at \notin Await
  BY Workers, StartsFree DEF DeleteEntry
<1>2. PICK e \in Entry : /\ Exists(e)
                         /\ Emit("person", [Idle EXCEPT !.todo = <<e>>], Updated(e, 0), "deprecate")
                         /\ deleted' = deleted \cup {e}
  BY DEF DeleteEntry
<1>3. UNCHANGED <<entries, journal, index, gate, credited, clicks, settled>>
  BY DEF DeleteEntry, state
<1>4. Around("person")
  BY <1>2, <1>3 DEF Around, IInv, TypeInv, TaskInv, Exists, gate
<1> DEFINE k == [Idle EXCEPT !.todo = <<e>>]
<1>5. <<e>> \in Seq(Entry) /\ Head(<<e>>) = e /\ <<e>> # <<>>
  OBVIOUS
<1>6. k \in Local /\ k.sync = <<>> /\ k.todo = <<e>>
  BY <1>5, IdleLocal DEF Local
<1>7. PICK ev \in Event : /\ ev = Updated(e, 0) /\ ev.kind = "confidence"
                          /\ ev.entry = e /\ ev.credit = 0
  BY Events
<1> HIDE DEF k
<1>8. PICK l \in Local : l = k
  BY <1>6
<1>9. Exists(e)' /\ 0 <= Earned(e)'
  BY <1>2, <1>4, AroundFacts, <1>1
<1>10. Harmless(ev)'
  BY <1>7, <1>9 DEF Harmless
<1>11. Fits("person", l, "deprecate")'
  BY <1>2, <1>5, <1>6, <1>8, <1>9 DEF Fits
<1>12. Emit("person", l, ev, "deprecate") /\ "deprecate" \in Place /\ l.sync = <<>>
  BY <1>2, <1>6, <1>7, <1>8 DEF Place, k
<1>13. Emission("person", l, ev, "deprecate")
  BY <1>1, <1>4, <1>7, <1>10, <1>11, <1>12 DEF Emission, Emit
<1> QED
  BY <1>1, <1>13, EmissionKeeps

LEMMA CredentialSweepKeeps ==
    ASSUME IInv, CredentialSweep
    PROVE  IInv'
<1>1. "sweep" \in Task /\ task["sweep"].at = "idle" /\ task["sweep"].at \notin Await
  BY Workers, StartsFree DEF CredentialSweep, Starts
<1>2. PICK e \in Entry :
          /\ Exists(e) /\ entries' = [entries EXCEPT ![e].scanned = TRUE]
          /\ \/ Emit("sweep", Idle, Changed(e, "rejected"), "idle")
             \/ UNCHANGED <<queue, task, events>>
  BY DEF CredentialSweep
<1>3. UNCHANGED <<journal, index, extracted, refused, admitted, credited, clicks, deleted, settled>>
  BY DEF CredentialSweep, gate, ghosts
<1>4. /\ entries' \in [Entry -> Item]
      /\ \A x \in Entry : entries'[x].status = entries[x].status /\ entries'[x].credit = entries[x].credit
  <2> DEFINE m == [entries[e] EXCEPT !.scanned = TRUE]
  <2>0. entries[e] \in Item
    BY DEF IInv, TypeInv
  <2>1. m \in Item /\ m.status = entries[e].status /\ m.credit = entries[e].credit
    BY <2>0 DEF Item
  <2>2. entries' = [entries EXCEPT ![e] = m]
    BY <1>2
  <2> HIDE DEF m
  <2> QED
    BY <2>1, <2>2 DEF IInv, TypeInv
<1>5. Around("sweep")
  BY <1>3, <1>4 DEF Around, IInv, TypeInv, TaskInv, Exists
<1>6. CASE Emit("sweep", Idle, Changed(e, "rejected"), "idle")
  <2>1. PICK ev \in Event : /\ ev = Changed(e, "rejected") /\ ev.kind = "status"
                            /\ ev.entry = e /\ ev.status = "rejected"
    BY Events DEF Status
  <2>2. Harmless(ev)'
    BY <1>2, <1>5, <2>1 DEF Harmless, Around
  <2>3. Fits("sweep", Idle, "idle")' /\ "idle" \in Place
    BY DEF Fits, Place
  <2>4. Emission("sweep", Idle, ev, "idle")
    BY <1>1, <1>5, <1>6, <2>1, <2>2, <2>3, IdleLocal DEF Emission, Emit
  <2> QED
    BY <1>1, <2>4, EmissionKeeps
<1>7. CASE UNCHANGED <<queue, task, events>>
  <2>1. task["sweep"] \in Local /\ task["sweep"].sync = <<>>
    BY <1>1, AtPlace
  <2>2. PICK k \in Local : k = task["sweep"]
    BY <2>1
  <2>3. task' = [task EXCEPT !["sweep"] = k]
    BY <1>1, <1>7, <2>2 DEF IInv, TypeInv
  <2>4. Fits("sweep", k, k.at)'
    BY <1>1, <2>2 DEF Fits
  <2>5. Moving("sweep", k)
    BY <1>1, <1>5, <1>7, <2>1, <2>2, <2>3, <2>4 DEF Moving, Await
  <2> QED
    BY <1>1, <2>5, MovingKeeps
<1> QED
  BY <1>2, <1>6, <1>7

LEMMA DeprecateKeeps ==
    ASSUME IInv, Deprecate
    PROVE  IInv'
<1>1. "person" \in Task /\ task["person"].at = "deprecate" /\ task["person"].at \notin Await
  BY Workers DEF Deprecate, Await
<1>2. PICK e : e = Head(task["person"].todo)
  OBVIOUS
<1>3. e \in Entry /\ Exists(e) /\ e \in deleted
  BY <1>1, <1>2, AtPlace DEF Fits
<1>4. /\ entries' = [entries EXCEPT ![e].status = "deprecated"]
      /\ task' = [task EXCEPT !["person"] = Idle]
      /\ UNCHANGED <<journal, index, queue, extracted, refused, admitted, credited, clicks, deleted,
                  settled>>
  BY <1>2 DEF Deprecate, gate, ghosts
<1>5. /\ entries' \in [Entry -> Item] /\ entries'[e].status = "deprecated"
      /\ \A x \in Entry : entries'[x].credit = entries[x].credit
      /\ \A x \in Entry : x # e => entries'[x].status = entries[x].status
  <2> DEFINE m == [entries[e] EXCEPT !.status = "deprecated"]
  <2>0. entries[e] \in Item /\ "deprecated" \in Status
    BY <1>3 DEF IInv, TypeInv, Status
  <2>1. m \in Item /\ m.status = "deprecated" /\ m.credit = entries[e].credit
    BY <2>0 DEF Item
  <2>2. entries' = [entries EXCEPT ![e] = m]
    BY <1>4
  <2> HIDE DEF m
  <2> QED
    BY <1>3, <2>1, <2>2 DEF IInv, TypeInv
<1>6. \A x \in Entry : Exists(x)' = Exists(x)
  BY <1>3, <1>5 DEF Exists
<1>7. Around("person")
  BY <1>3, <1>4, <1>5, <1>6 DEF Around, IInv, TypeInv, TaskInv
<1>8. Fits("person", Idle, Idle.at)'
  BY IdleLocal DEF Fits
<1>9. Moving("person", Idle)
  BY <1>1, <1>4, <1>7, <1>8, IdleLocal DEF Moving, Await
<1> QED
  BY <1>1, <1>9, MovingKeeps

-----------------------------------------------------------------------------
(* A coroutine is let on: its row is applied, then mirrored.                 *)

\* No entry is lost, and none that exists is barred anew.
Growing ==
    /\ \A e \in Entry : Exists(e) => Exists(e)' /\ (e \in Barred' => e \in Barred)
    /\ UNCHANGED <<credited, clicks, deleted, settled>>

\* Every coroutine stands where it stood.
Staying ==
    /\ task' \in [Task -> Local]
    /\ \A u \in Task : /\ task'[u].todo = task[u].todo /\ task'[u].seen = task[u].seen
                       /\ task'[u].then = task[u].then /\ Stands(u)' = Stands(u)

LEMMA FitsGrow ==
    ASSUME IInv, Growing, Staying, NEW u \in Task
    PROVE  Fits(u, task[u], Stands(u))'
<1>1. Fits(u, task[u], Stands(u)) /\ task[u].todo \in Seq(Entry)
  BY DEF IInv, TaskInv, TypeInv, Local
<1>2. task'[u].todo = task[u].todo /\ task'[u].seen = task[u].seen /\ Stands(u)' = Stands(u)
  BY DEF Staying
<1>3. PICK todo \in Seq(Entry), p \in Place : todo = task[u].todo /\ p = Stands(u)
  <2>1. Stands(u) \in Place
    BY DEF IInv, TypeInv, Local, Stands
  <2> QED
    BY <1>1, <2>1
<1>4. todo # <<>> => Head(todo) \in Entry
  OBVIOUS
<1>5. Len(todo) = 2 => todo[1] \in Entry /\ todo[2] \in Entry
  OBVIOUS
<1>6. p \in {"hook", "promote"} =>
          /\ u \in Colony /\ u \in settled'
          /\ \A e \in Entry : <<u, e>> \in credited' => e \in task[u].seen
  BY <1>1, <1>3 DEF Growing, Fits
<1>7. p = "promote" => todo # <<>> /\ Exists(Head(todo))'
  BY <1>1, <1>3, <1>4 DEF Growing, Fits
<1>8. p = "verify" => u = "extract" /\ todo # <<>>
  BY <1>1, <1>3 DEF Fits
<1>9. p \in {"compare", "judge", "dismiss"} =>
          u = "dedup" /\ Len(todo) = 2 /\ Exists(todo[1])' /\ Exists(todo[2])'
  BY <1>1, <1>3, <1>5 DEF Growing, Fits
<1>10. p = "deprecate" =>
          u = "person" /\ todo # <<>> /\ Exists(Head(todo))' /\ Head(todo) \in deleted'
  BY <1>1, <1>3, <1>4 DEF Growing, Fits
<1>11. task'[u].todo = todo /\ Stands(u)' = p
  BY <1>2, <1>3
<1> QED
  BY <1>2, <1>6, <1>7, <1>8, <1>9, <1>10, <1>11 DEF Fits

LEMMA SyncGrows ==
    ASSUME IInv, Growing, NEW u \in Task, task'[u] = task[u]
    PROVE  SyncSafe(u)'
<1>1. SyncSafe(u) /\ task[u].sync \in Seq(Entry)
      /\ (task[u].at = "write" => task[u].sync # <<>>)
  BY DEF IInv, TaskInv, SyncSafe, TypeInv, Local, LockInv
<1>2. PICK sync \in Seq(Entry) : sync = task[u].sync
  BY <1>1
<1>3. \A i \in 1..Len(sync) : sync[i] \in Entry /\ Exists(sync[i])'
  BY <1>1, <1>2 DEF Growing, SyncSafe
<1>4. sync # <<>> => Head(sync) = sync[1] /\ 1 \in 1..Len(sync)
  OBVIOUS
<1>5. sync # <<>> /\ Head(sync) \in Barred' => Head(sync) \in Barred
  BY <1>1, <1>2, <1>3, <1>4 DEF Growing, Barred, SyncSafe
<1> QED
  BY <1>1, <1>2, <1>3, <1>5 DEF SyncSafe

LEMMA VerifyGrows ==
    ASSUME IInv, Growing, Staying, NEW u \in Task, task[u].at # "lock"
    PROVE  VerifySafe(u)'
<1>1. VerifySafe(u) /\ Fits(u, task[u], Stands(u)) /\ task[u].todo \in Seq(Entry)
  BY DEF IInv, VerifyInv, VerifySafe, TaskInv, TypeInv, Local
<1> SUFFICES ASSUME Stands(u) = "verify"
             PROVE  /\ Exists(Head(task[u].todo))'
                    /\ Head(task'[u].todo) \in Barred' => Head(task'[u].todo) \in task'[u].seen
  BY DEF VerifySafe, Staying
<1>2. PICK e : e = Head(task[u].todo)
  OBVIOUS
<1>3. e \in Entry /\ Exists(e) /\ (e \in Barred => e \in task[u].seen)
  BY <1>1, <1>2 DEF Fits, VerifySafe
<1>4. Exists(e)' /\ (e \in Barred' => e \in task[u].seen)
  BY <1>3 DEF Growing
<1> QED
  BY <1>2, <1>4 DEF Staying

(* Nothing happens to entries, credit or rows.                               *)
LEMMA FrameKeeps ==
    ASSUME IInv, UNCHANGED <<entries, queue, credited, clicks, refused, admitted, deleted>>
    PROVE  /\ QueueInv'
           /\ UNCHANGED <<journal, index>> => EntryInv'
<1>1. \A e : Exists(e)' = Exists(e)
  BY DEF Exists
<1>2. \A e : Earned(e)' = Earned(e)
  BY DEF Earned
<1>3. Barred' = Barred
  BY DEF Barred
<1>4. QueueInv'
  <2>1. \A i \in 1..Len(queue) : Harmless(queue[i].event)'
    <3>1. \A ev : Harmless(ev) => Harmless(ev)'
      BY <1>1, <1>2, <1>3 DEF Harmless
    <3>2. \A i \in 1..Len(queue) : Harmless(queue[i].event)
      BY DEF IInv, QueueInv
    <3> QED
      BY <3>1, <3>2 DEF Harmless
  <2> QED
    BY <2>1 DEF IInv, QueueInv
<1>5. UNCHANGED <<journal, index>> => EntryInv'
  BY <1>1, <1>2, <1>3 DEF IInv, EntryInv
<1> QED
  BY <1>4, <1>5

LEMMA SyncReadKeeps ==
    ASSUME IInv, NEW t \in Task, SyncRead(t)
    PROVE  IInv'
<1>1. /\ task[t] \in Local /\ task[t].at = "sync" /\ task[t].sync \in Seq(Entry)
      /\ task[t].sync # <<>> /\ \A i \in 1..Len(task[t].sync) : Exists(task[t].sync[i])
  BY DEF SyncRead, IInv, TypeInv, LockInv, TaskInv, Local
<1>2. PICK e \in Entry : e = Head(task[t].sync) /\ e = task[t].sync[1]
  BY <1>1
<1>3. Exists(e) /\ entries[e].status \in Status /\ (e \in Barred => entries[e].status = "rejected")
  <2>1. 1 \in 1..Len(task[t].sync)
    BY <1>1
  <2>2. Exists(e)
    BY <1>1, <1>2, <2>1
  <2> QED
    BY <2>2, OldHarmless DEF IInv, EntryInv
<1> DEFINE l == [task[t] EXCEPT !.at = "write", !.read = entries[e].status]
<1>4. /\ l \in Local /\ l.at = "write" /\ l.read = entries[e].status /\ l.todo = task[t].todo
      /\ l.seen = task[t].seen /\ l.then = task[t].then /\ l.sync = task[t].sync
  BY <1>1, <1>3 DEF Local, Await
<1>5. task' = [task EXCEPT ![t] = l]
  BY <1>2 DEF SyncRead
<1> HIDE DEF l
<1>6. UNCHANGED <<entries, journal, index, queue, extracted, refused, admitted, credited, clicks,
                deleted, settled>>
  BY DEF SyncRead, state, gate, ghosts
<1>7. /\ task' \in [Task -> Local] /\ task'[t] = l
      /\ \A u \in Task : u # t => task'[u] = task[u] /\ Stands(u)' = Stands(u)
      /\ Stands(t)' = task[t].then /\ Stands(t) = task[t].then
  BY <1>1, <1>4, <1>5, TaskFacts DEF IInv, Await, Stands
<1>8. Growing
  BY <1>6 DEF Growing, Exists, Barred
<1>9. Staying
  BY <1>4, <1>7 DEF Staying
<1>10. TypeInv'
  BY <1>6, <1>7 DEF IInv, TypeInv
<1>11. LockInv'
  <2>1. ASSUME NEW u \in Task
        PROVE  /\ task'[u].at = "lock" <=> \E i \in 1..Len(queue') : queue'[i].who = u
               /\ task'[u].at \in {"sync", "write"} <=> task'[u].sync # <<>>
    <3>1. /\ task[u].at = "lock" <=> \E i \in 1..Len(queue') : queue'[i].who = u
          /\ task[u].at \in {"sync", "write"} <=> task[u].sync # <<>>
      BY <1>6 DEF IInv, LockInv
    <3> QED
      BY <1>1, <1>4, <1>7, <3>1
  <2>2. \A i, j \in 1..Len(queue') : queue'[i].who = queue'[j].who => i = j
    BY <1>6 DEF IInv, LockInv
  <2> QED
    BY <2>1, <2>2 DEF LockInv
<1>12. EntryInv' /\ QueueInv'
  BY <1>6, FrameKeeps DEF IInv
<1>13. VerifyInv'
  <2>1. ASSUME NEW i \in 1..Len(queue')
        PROVE  /\ queue'[i].event.kind = "created" /\ queue'[i].event.status = "rejected" =>
                     /\ task'[queue'[i].who].then = "verify"
                     /\ queue'[i].event.entry \in task'[queue'[i].who].seen
               /\ task'[queue'[i].who].then = "verify" =>
                     /\ queue'[i].event.kind = "created"
                     /\ queue'[i].event.entry = Head(task'[queue'[i].who].todo)
    <3>1. queue' = queue /\ queue[i] \in Row
      BY <1>6 DEF IInv, TypeInv
    <3>2. queue[i].who \in Task
      BY <3>1 DEF Row
    <3> QED
      BY <1>9, <3>1, <3>2 DEF IInv, VerifyInv, Staying
  <2>2. ASSUME NEW u \in Task, task'[u].at # "lock"
        PROVE  VerifySafe(u)'
    <3>1. task[u].at # "lock"
      BY <1>1, <1>7, <2>2
    <3> QED
      BY <1>8, <1>9, <3>1, VerifyGrows
  <2> QED
    BY <2>1, <2>2 DEF VerifyInv, VerifySafe
<1>14. TaskInv'
  <2>1. \A u \in Task : Fits(u, task[u], Stands(u))'
    BY <1>8, <1>9, FitsGrow
  <2>2. ASSUME NEW u \in Task
        PROVE  SyncSafe(u)'
    <3>1. CASE u = t
      BY <1>1, <1>2, <1>3, <1>4, <1>6, <1>7, <3>1 DEF SyncSafe, Exists, Barred
    <3>2. CASE u # t
      BY <1>7, <1>8, <3>2, SyncGrows
    <3> QED
      BY <3>1, <3>2
  <2>3. \A q \in credited' : q[1] \in settled'
    BY <1>6 DEF IInv, TaskInv
  <2> QED
    BY <2>1, <2>2, <2>3 DEF TaskInv, SyncSafe
<1> QED
  BY <1>10, <1>11, <1>12, <1>13, <1>14 DEF IInv

LEMMA SyncWriteKeeps ==
    ASSUME IInv, NEW t \in Task, SyncWrite(t)
    PROVE  IInv'
<1>1. /\ task[t] \in Local /\ task[t].at = "write" /\ task[t].sync \in Seq(Entry)
      /\ task[t].sync # <<>> /\ \A i \in 1..Len(task[t].sync) : Exists(task[t].sync[i])
      /\ task[t].read \in Status
      /\ Head(task[t].sync) \in Barred => task[t].read = "rejected"
  BY DEF SyncWrite, IInv, TypeInv, LockInv, TaskInv, Local
<1>2. PICK e \in Entry : e = Head(task[t].sync) /\ e = task[t].sync[1]
  BY <1>1
<1>3. Exists(e)
  BY <1>1, <1>2
<1>4. PICK p \in Place \cup {"sync"} :
          p = IF Len(task[t].sync) > 1 THEN "sync" ELSE task[t].then
  BY <1>1 DEF Local
<1> DEFINE m == [task[t] EXCEPT !.sync = Tail(@), !.read = "none"]
           l == [m EXCEPT !.at = p]
<1>5. /\ m \in Local /\ m.todo = task[t].todo /\ m.seen = task[t].seen
      /\ m.then = task[t].then /\ m.sync = Tail(task[t].sync)
  <2>1. Tail(task[t].sync) \in Seq(Entry)
    BY <1>1
  <2> QED
    BY <1>1, <2>1 DEF Local
<1>6. task' = [task EXCEPT ![t] = l]
  BY <1>4 DEF SyncWrite
<1> HIDE DEF m
<1>7. /\ l \in Local /\ l.at = p /\ l.todo = task[t].todo /\ l.seen = task[t].seen
      /\ l.then = task[t].then /\ l.sync = Tail(task[t].sync)
  BY <1>5 DEF Local, Await
<1> HIDE DEF l
<1>8. UNCHANGED <<entries, journal, queue, extracted, refused, admitted, credited, clicks, deleted,
                settled>>
      /\ index' = [index EXCEPT ![e] = Mirror(task[t].read)]
  BY <1>2 DEF SyncWrite, gate, ghosts
<1>9. p = "sync" <=> l.sync # <<>>
  <2>1. Len(task[t].sync) > 1 <=> Tail(task[t].sync) # <<>>
    BY <1>1
  <2>2. "sync" \notin Place /\ task[t].then \in Place
    BY <1>1 DEF Place, Local
  <2> QED
    BY <1>4, <1>7, <2>1, <2>2
<1>10. /\ task' \in [Task -> Local] /\ task'[t] = l
       /\ \A u \in Task : u # t => task'[u] = task[u] /\ Stands(u)' = Stands(u)
       /\ Stands(t)' = task[t].then /\ Stands(t) = task[t].then
  <2>1. /\ task' \in [Task -> Local] /\ task'[t] = l
        /\ \A u \in Task : u # t => task'[u] = task[u] /\ Stands(u)' = Stands(u)
        /\ Stands(t)' = IF l.at \in Await THEN l.then ELSE l.at
    BY <1>6, <1>7, TaskFacts DEF IInv
  <2>2. p \in Await \/ p = task[t].then
    BY <1>4 DEF Await
  <2>3. Stands(t) = task[t].then
    BY <1>1 DEF Stands, Await
  <2> QED
    BY <1>7, <2>1, <2>2, <2>3
<1>11. Growing
  BY <1>8 DEF Growing, Exists, Barred
<1>12. Staying
  <2>1. /\ task'[t].todo = task[t].todo /\ task'[t].seen = task[t].seen
        /\ task'[t].then = task[t].then
    BY <1>7, <1>10
  <2>2. Stands(t)' = Stands(t)
    BY <1>10
  <2> QED
    BY <1>10, <2>1, <2>2 DEF Staying
<1>13. Mirror(task[t].read) \in Live \cup {"none", "deprecated"}
       /\ (e \in Barred => Mirror(task[t].read) = "none")
  BY <1>1, <1>2 DEF Mirror, Status
<1>14. TypeInv'
  BY <1>8, <1>10, <1>13 DEF IInv, TypeInv
<1>15. LockInv'
  <2>1. ASSUME NEW u \in Task
        PROVE  /\ task'[u].at = "lock" <=> \E i \in 1..Len(queue') : queue'[i].who = u
               /\ task'[u].at \in {"sync", "write"} <=> task'[u].sync # <<>>
    <3>1. /\ task[u].at = "lock" <=> \E i \in 1..Len(queue') : queue'[i].who = u
          /\ task[u].at \in {"sync", "write"} <=> task[u].sync # <<>>
      BY <1>8 DEF IInv, LockInv
    <3>2. p # "lock" /\ p # "write"
      BY <1>4 DEF Place
    <3> QED
      BY <1>1, <1>7, <1>9, <1>10, <3>1, <3>2
  <2>2. \A i, j \in 1..Len(queue') : queue'[i].who = queue'[j].who => i = j
    BY <1>8 DEF IInv, LockInv
  <2> QED
    BY <2>1, <2>2 DEF LockInv
<1>16. QueueInv'
  BY <1>8, FrameKeeps DEF IInv
<1>17. EntryInv'
  <2> SUFFICES ASSUME NEW x \in Entry
               PROVE  /\ ~Exists(x) => index'[x] = "none"
                      /\ x \in Barred => index'[x] = "none"
    BY <1>8 DEF IInv, EntryInv, Exists, Earned, Barred
  <2>1. /\ ~Exists(x) => index[x] = "none"
        /\ x \in Barred => index[x] = "none"
    BY DEF IInv, EntryInv
  <2> QED
    BY <1>3, <1>8, <1>13, <2>1 DEF IInv, TypeInv
<1>18. VerifyInv'
  <2>1. ASSUME NEW i \in 1..Len(queue')
        PROVE  /\ queue'[i].event.kind = "created" /\ queue'[i].event.status = "rejected" =>
                     /\ task'[queue'[i].who].then = "verify"
                     /\ queue'[i].event.entry \in task'[queue'[i].who].seen
               /\ task'[queue'[i].who].then = "verify" =>
                     /\ queue'[i].event.kind = "created"
                     /\ queue'[i].event.entry = Head(task'[queue'[i].who].todo)
    <3>1. queue' = queue /\ queue[i] \in Row
      BY <1>8 DEF IInv, TypeInv
    <3>2. queue[i].who \in Task
      BY <3>1 DEF Row
    <3> QED
      BY <1>12, <3>1, <3>2 DEF IInv, VerifyInv, Staying
  <2>2. ASSUME NEW u \in Task, task'[u].at # "lock"
        PROVE  VerifySafe(u)'
    <3>1. task[u].at # "lock"
      BY <1>1, <1>10, <2>2
    <3> QED
      BY <1>11, <1>12, <3>1, VerifyGrows
  <2> QED
    BY <2>1, <2>2 DEF VerifyInv, VerifySafe
<1>19. TaskInv'
  <2>1. \A u \in Task : Fits(u, task[u], Stands(u))'
    BY <1>11, <1>12, FitsGrow
  <2>2. ASSUME NEW u \in Task
        PROVE  SyncSafe(u)'
    <3>1. CASE u = t
      <4>1. p # "write"
        BY <1>4 DEF Place
      <4>2. \A i \in 1..Len(l.sync) : Exists(l.sync[i])
        <5>1. \A i \in 1..Len(l.sync) : i + 1 \in 1..Len(task[t].sync) /\ l.sync[i] = task[t].sync[i + 1]
          BY <1>1, <1>7
        <5> QED
          BY <1>1, <5>1
      <4> QED
        BY <1>7, <1>8, <1>10, <3>1, <4>1, <4>2 DEF SyncSafe, Exists
    <3>2. CASE u # t
      BY <1>10, <1>11, <3>2, SyncGrows
    <3> QED
      BY <3>1, <3>2
  <2>3. \A q \in credited' : q[1] \in settled'
    BY <1>8 DEF IInv, TaskInv
  <2> QED
    BY <2>1, <2>2, <2>3 DEF TaskInv, SyncSafe
<1> QED
  BY <1>14, <1>15, <1>16, <1>17, <1>18, <1>19 DEF IInv

(* What the projection of an event does to a table of entries: item i of     *)
(* entry e becomes j.                                                       *)
Becomes(i, j, e, ev) ==
    LET made == ev.kind = "created" /\ e = ev.entry IN
    /\ j.status # "absent" <=> i.status # "absent" \/ made
    /\ \/ j.credit = i.credit
       \/ ev.kind = "confidence" /\ e = ev.entry /\ j.credit = ev.credit
       \/ made /\ j.credit = 0
    /\ i.status = "absent" /\ ~made => j.credit = i.credit
    /\ i.status = "rejected" =>
          \/ j.status = "rejected"
          \/ ev.kind = "status" /\ e = ev.entry /\ ev.status # "rejected"
          \/ made
    /\ made => j.status = ev.status

LEMMA ProjectFacts ==
    ASSUME NEW m \in [Entry -> Item], NEW ev \in Event
    PROVE  /\ Project(m, ev) \in [Entry -> Item]
           /\ \A e \in Entry : Becomes(m[e], Project(m, ev)[e], e, ev)
<1> DEFINE x == ev.entry
           f == Project(m, ev)
<1>1. x \in Entry
  BY EventEntry
<1>2. m[x] \in Item
  BY <1>1
<1>3. CASE ev.kind = "created"
  <2> DEFINE v == [Absent EXCEPT !.status = ev.status]
  <2>1. ev.status \in {"candidate", "verified", "rejected"}
    BY <1>3 DEF Event
  <2>2. Absent \in Item /\ Absent.credit = 0
    BY DEF Absent, Item
  <2>3. v \in Item /\ v.status = ev.status /\ v.credit = 0 /\ v.status # "absent"
    BY <2>1, <2>2 DEF Item, Status, Live
  <2>4. f = [m EXCEPT ![x] = v]
    BY <1>3 DEF Project, OnCreated
  <2> HIDE DEF v, f, x
  <2>5. f \in [Entry -> Item] /\ f[x] = v /\ \A e \in Entry : e # x => f[e] = m[e]
    BY <1>1, <2>3, <2>4
  <2> QED
    BY <1>1, <1>3, <2>3, <2>5 DEF x, f, Becomes
<1>4. CASE ev.kind = "status"
  <2>1. ev.status \in Status /\ "absent" \notin Status
    BY <1>4 DEF Event, Status, Live
  <2>2. CASE m[x].status = "absent"
    <3>1. f = m
      BY <1>4, <2>2 DEF Project, OnStatusChanged
    <3> QED
      BY <1>4, <2>2, <3>1 DEF Becomes
  <2>3. CASE m[x].status # "absent"
    <3> DEFINE v == [m[x] EXCEPT !.status = ev.status]
    <3>1. f = [m EXCEPT ![x] = v]
      BY <1>4, <2>3 DEF Project, OnStatusChanged
    <3>2. v \in Item /\ v.status = ev.status /\ v.credit = m[x].credit
      BY <1>2, <2>1 DEF Item
    <3> HIDE DEF v, f, x
    <3>3. f \in [Entry -> Item] /\ f[x] = v /\ \A e \in Entry : e # x => f[e] = m[e]
      BY <1>1, <3>1, <3>2
    <3> QED
      BY <1>1, <1>4, <2>1, <2>3, <3>2, <3>3 DEF x, f, Becomes
  <2> QED
    BY <2>2, <2>3
<1>5. CASE ev.kind = "confidence"
  <2>1. ev.credit \in Nat
    BY <1>5 DEF Event
  <2>2. CASE m[x].status = "absent"
    <3>1. f = m
      BY <1>5, <2>2 DEF Project, OnConfidenceUpdated
    <3> QED
      BY <1>5, <2>2, <3>1 DEF Becomes
  <2>3. CASE m[x].status # "absent"
    <3> DEFINE v == [m[x] EXCEPT !.credit = ev.credit]
    <3>1. f = [m EXCEPT ![x] = v]
      BY <1>5, <2>3 DEF Project, OnConfidenceUpdated
    <3>2. v \in Item /\ v.status = m[x].status /\ v.credit = ev.credit
      BY <1>2, <2>1 DEF Item
    <3> HIDE DEF v, f, x
    <3>3. f \in [Entry -> Item] /\ f[x] = v /\ \A e \in Entry : e # x => f[e] = m[e]
      BY <1>1, <3>1, <3>2
    <3> QED
      BY <1>1, <1>5, <2>3, <3>2, <3>3 DEF x, f, Becomes
  <2> QED
    BY <2>2, <2>3
<1>6. CASE ev.kind = "merged"
  <2> DEFINE s == ev.source
  <2>1. s \in Entry
    BY <1>6 DEF Event
  <2>2. CASE m[s].status = "absent"
    <3>1. f = m
      BY <1>6, <2>2 DEF Project, OnMerged
    <3> QED
      BY <1>6, <2>2, <3>1 DEF Becomes
  <2>3. CASE m[s].status # "absent"
    <3> DEFINE v == [m[s] EXCEPT !.status = "rejected"]
    <3>1. f = [m EXCEPT ![s] = v]
      BY <1>6, <2>3 DEF Project, OnMerged
    <3>2. v \in Item /\ v.status = "rejected" /\ v.credit = m[s].credit
      BY <2>1 DEF Item, Status
    <3> HIDE DEF v, f, s
    <3>3. f \in [Entry -> Item] /\ f[s] = v /\ \A e \in Entry : e # s => f[e] = m[e]
      BY <2>1, <3>1, <3>2
    <3> QED
      BY <1>6, <2>1, <2>3, <3>2, <3>3 DEF s, f, Becomes
  <2> QED
    BY <2>2, <2>3
<1>7. CASE ev.kind = "refined"
  <2>1. f = m
    BY <1>7 DEF Project
  <2> QED
    BY <1>7, <2>1 DEF Becomes
<1>8. ev.kind \in {"created", "status", "confidence", "refined", "merged"}
  BY DEF Event
<1> QED
  BY <1>3, <1>4, <1>5, <1>6, <1>7, <1>8

LEMMA SyncedEntries ==
    ASSUME NEW ev \in Event
    PROVE  /\ Synced(ev) \in Seq(Entry) /\ Synced(ev) # <<>>
           /\ \A i \in 1..Len(Synced(ev)) :
                 \/ Synced(ev)[i] = ev.entry
                 \/ ev.kind = "merged" /\ Synced(ev)[i] = ev.source
<1>1. ev.entry \in Entry /\ (ev.kind = "merged" => ev.source \in Entry)
  BY DEF Event
<1>2. CASE ev.kind = "merged"
  <2>1. Synced(ev) = <<ev.entry, ev.source>>
    BY <1>2 DEF Synced
  <2> QED
    BY <1>1, <1>2, <2>1
<1>3. CASE ev.kind # "merged"
  <2>1. Synced(ev) = <<ev.entry>>
    BY <1>3 DEF Synced
  <2> QED
    BY <1>1, <2>1
<1> QED
  BY <1>2, <1>3

LEMMA RestartKeeps ==
    ASSUME IInv, Restart
    PROVE  IInv'
<1>1. /\ entries' = journal /\ queue' = <<>> /\ task' = [t \in Task |-> Idle]
      /\ index' = [e \in Entry |-> IF journal[e].status \in {"absent", "rejected"}
                                   THEN index[e] ELSE journal[e].status]
      /\ UNCHANGED <<journal, extracted, refused, admitted, credited, clicks, deleted, settled>>
  BY DEF Restart, gate, ghosts
<1>2. TypeInv'
  <2>1. <<>> \in Seq(Row)
    OBVIOUS
  <2>2. task' \in [Task -> Local]
    BY <1>1, IdleLocal
  <2>3. index' \in [Entry -> Live \cup {"none", "deprecated"}]
    BY <1>1 DEF IInv, TypeInv, Item, Status
  <2> QED
    BY <1>1, <2>1, <2>2, <2>3 DEF IInv, TypeInv
<1>3. Len(queue') = 0 /\ \A t \in Task : task'[t] = Idle
  BY <1>1
<1>4. LockInv'
  BY <1>3, IdleLocal DEF LockInv
<1>5. EntryInv'
  <2> SUFFICES ASSUME NEW e \in Entry
               PROVE  /\ journal[e].status = "absent" =>
                             index'[e] = "none" /\ e \notin refused /\ journal[e].credit = 0
                      /\ journal[e].status # "absent" => e \in refused \cup admitted
                      /\ journal[e].credit <= Earned(e)
                      /\ e \in Barred => journal[e].status = "rejected" /\ index'[e] = "none"
    BY <1>1 DEF EntryInv, Exists, Earned, Barred
  <2> QED
    BY <1>1 DEF IInv, EntryInv
<1>6. QueueInv' /\ VerifyInv'
  <2>1. \A t \in Task : Stands(t)' = "idle"
    BY <1>3, IdleLocal DEF Stands, Await
  <2> QED
    BY <1>3, <2>1 DEF QueueInv, VerifyInv
<1>7. TaskInv'
  <2>1. \A t \in Task : Stands(t)' = "idle"
    BY <1>3, IdleLocal DEF Stands, Await
  <2>2. \A t \in Task : Len(task'[t].sync) = 0 /\ task'[t].at # "write"
    BY <1>3, IdleLocal
  <2>3. \A t \in Task : Fits(t, task[t], Stands(t))'
    BY <2>1 DEF Fits
  <2>4. \A q \in credited' : q[1] \in settled'
    BY <1>1 DEF IInv, TaskInv
  <2> QED
    BY <2>2, <2>3, <2>4 DEF TaskInv
<1> QED
  BY <1>2, <1>4, <1>5, <1>6, <1>7 DEF IInv

LEMMA StutterKeeps ==
    ASSUME IInv, UNCHANGED vars
    PROVE  IInv'
<1>1. UNCHANGED <<entries, journal, index, queue, task, extracted, refused, admitted, credited,
                  clicks, deleted, settled>>
  BY DEF vars, state, gate, ghosts
<1>2. \A t \in Task : Stands(t)' = Stands(t)
  BY <1>1 DEF Stands, Await
<1>3. TypeInv' /\ LockInv'
  BY <1>1 DEF IInv, TypeInv, LockInv
<1>4. EntryInv' /\ QueueInv'
  BY <1>1, FrameKeeps DEF IInv
<1>5. VerifyInv'
  BY <1>1, <1>2 DEF IInv, VerifyInv, Exists, Barred
<1>6. TaskInv'
  BY <1>1, <1>2 DEF IInv, TaskInv, Fits, Exists, Barred
<1> QED
  BY <1>3, <1>4, <1>5, <1>6 DEF IInv

LEMMA Starting ==
    ASSUME Init
    PROVE  IInv
<1>1. /\ queue = <<>> /\ Len(queue) = 0 /\ \A t \in Task : task[t] = Idle
      /\ credited = {} /\ refused = {} /\ settled = {} /\ deleted = {}
      /\ admitted = Old /\ extracted \in SUBSET Old /\ Old \subseteq Entry
      /\ clicks = [e \in Entry |-> 0] /\ journal = entries
  BY KnowledgeAssumption DEF Init
<1>2. \A e \in Entry :
          /\ entries[e].status = (IF e \in Old THEN "verified" ELSE "absent")
          /\ entries[e].credit = 0 /\ entries[e] \in Item
          /\ index[e] = IF e \in Old THEN "verified" ELSE "none"
  <2>1. Absent \in Item /\ Absent.status = "absent" /\ Absent.credit = 0
    BY DEF Absent, Item
  <2> DEFINE v == [Absent EXCEPT !.status = "verified"]
  <2>2. v \in Item /\ v.status = "verified" /\ v.credit = 0
    BY <2>1 DEF Item, Status, Live
  <2>3. \A e \in Entry : entries[e] = (IF e \in Old THEN v ELSE Absent)
                         /\ index[e] = IF e \in Old THEN "verified" ELSE "none"
    BY DEF Init
  <2> HIDE DEF v
  <2> QED
    BY <2>1, <2>2, <2>3
<1>3. TypeInv
  <2>1. <<>> \in Seq(Row) /\ Idle \in Local
    BY IdleLocal
  <2>2. /\ entries = [e \in Entry |-> entries[e]] /\ index = [e \in Entry |-> index[e]]
        /\ task = [t \in Task |-> Idle]
    BY DEF Init
  <2>3. entries \in [Entry -> Item]
    BY <1>2, <2>2
  <2>4. index \in [Entry -> Live \cup {"none", "deprecated"}]
    BY <1>2, <2>2 DEF Live
  <2>5. task \in [Task -> Local] /\ clicks \in [Entry -> Nat]
    BY <1>1, <2>1, <2>2
  <2> QED
    BY <1>1, <2>1, <2>3, <2>4, <2>5 DEF TypeInv
<1>4. LockInv
  BY <1>1, IdleLocal DEF LockInv
<1>5. EntryInv
  <2>1. \A e \in Entry : Earned(e) = 0
    <3> SUFFICES ASSUME NEW e \in Entry
                 PROVE  Earned(e) = 0
      OBVIOUS
    <3>1. {c \in Colony : <<c, e>> \in credited} = {}
      BY <1>1
    <3>2. Cardinality({}) = 0
      BY FS_EmptySet
    <3>3. Cardinality({c \in Colony : <<c, e>> \in credited}) = 0 /\ clicks[e] = 0
      BY <1>1, <3>1, <3>2
    <3> QED
      BY <3>3 DEF Earned
  <2> QED
    BY <1>1, <1>2, <2>1 DEF EntryInv, Exists, Barred
<1>6. \A t \in Task : Stands(t) = "idle"
  BY <1>1, IdleLocal DEF Stands, Await
<1>7. QueueInv /\ VerifyInv
  BY <1>1, <1>6 DEF QueueInv, VerifyInv
<1>8. TaskInv
  <2>1. \A t \in Task : Len(task[t].sync) = 0 /\ task[t].at # "write"
    BY <1>1, IdleLocal
  <2> QED
    BY <1>1, <1>6, <2>1 DEF TaskInv, Fits
<1> QED
  BY <1>3, <1>4, <1>5, <1>7, <1>8 DEF IInv

(* The holder of the lock appends its row.                                   *)
LEMMA ApplyTypes ==
    ASSUME IInv, Apply
    PROVE  \E t \in Task, ev \in Event :
              /\ queue # <<>> /\ Len(queue) >= 1 /\ queue[1].who = t /\ queue[1].event = ev
              /\ Len(queue') = Len(queue) - 1
              /\ \A i \in 1..Len(queue') : queue'[i] = queue[i + 1] /\ i + 1 \in 1..Len(queue)
                                           /\ i + 1 # 1 /\ queue[i + 1] \in Row
              /\ queue' \in Seq(Row)
              /\ entries' = Project(entries, ev) /\ journal' = Project(journal, ev)
              /\ task' = [task EXCEPT ![t].at = "sync", ![t].sync = Synced(ev)]
              /\ refused' = IF ev.kind = "created" /\ ev.status = "rejected"
                            THEN refused \cup {ev.entry} ELSE refused
              /\ admitted' = IF ev.kind = "created" /\ ev.status # "rejected"
                             THEN admitted \cup {ev.entry} ELSE admitted
              /\ UNCHANGED <<index, extracted, credited, clicks, deleted, settled>>
<1>1. queue \in Seq(Row) /\ queue # <<>> /\ queue' = Tail(queue)
  BY DEF Apply, IInv, TypeInv
<1>2. Len(queue) \in Nat /\ Len(queue) >= 1 /\ Head(queue) = queue[1] /\ queue[1] \in Row
  BY <1>1
<1>3. /\ Len(queue') = Len(queue) - 1 /\ queue' \in Seq(Row)
      /\ \A i \in 1..Len(queue') : queue'[i] = queue[i + 1]
  BY <1>1, <1>2
<1>4. \A i \in 1..Len(queue') : i + 1 \in 1..Len(queue) /\ i + 1 # 1
  BY <1>2, <1>3
<1>5. \A i \in 1..Len(queue') : queue[i + 1] \in Row
  BY <1>1, <1>4
<1>6. PICK t \in Task, ev \in Event : t = queue[1].who /\ ev = queue[1].event
  BY <1>2 DEF Row
<1>7. /\ entries' = Project(entries, ev) /\ journal' = Project(journal, ev)
      /\ task' = [task EXCEPT ![t].at = "sync", ![t].sync = Synced(ev)]
      /\ refused' = IF ev.kind = "created" /\ ev.status = "rejected"
                    THEN refused \cup {ev.entry} ELSE refused
      /\ admitted' = IF ev.kind = "created" /\ ev.status # "rejected"
                     THEN admitted \cup {ev.entry} ELSE admitted
      /\ UNCHANGED <<index, extracted, credited, clicks, deleted, settled>>
  BY <1>2, <1>6 DEF Apply, ghosts
<1> QED
  BY <1>1, <1>2, <1>3, <1>4, <1>5, <1>6, <1>7

LEMMA ApplyKeeps ==
    ASSUME IInv, Apply
    PROVE  IInv'
<1>1. PICK t \in Task, ev \in Event :
          /\ queue # <<>> /\ Len(queue) >= 1 /\ queue[1].who = t /\ queue[1].event = ev
          /\ Len(queue') = Len(queue) - 1
          /\ \A i \in 1..Len(queue') : queue'[i] = queue[i + 1] /\ i + 1 \in 1..Len(queue)
                                       /\ i + 1 # 1 /\ queue[i + 1] \in Row
          /\ queue' \in Seq(Row)
          /\ entries' = Project(entries, ev) /\ journal' = Project(journal, ev)
          /\ task' = [task EXCEPT ![t].at = "sync", ![t].sync = Synced(ev)]
          /\ refused' = IF ev.kind = "created" /\ ev.status = "rejected"
                        THEN refused \cup {ev.entry} ELSE refused
          /\ admitted' = IF ev.kind = "created" /\ ev.status # "rejected"
                         THEN admitted \cup {ev.entry} ELSE admitted
          /\ UNCHANGED <<index, extracted, credited, clicks, deleted, settled>>
  BY ApplyTypes
<1>2. Len(queue) \in Nat /\ 1 \in 1..Len(queue)
  <2>1. Len(queue) \in Nat
    BY DEF IInv, TypeInv
  <2> QED
    BY <1>1, <2>1
<1>3. Harmless(ev) /\ ev.entry \in Entry
  BY <1>1, <1>2, EventEntry DEF IInv, QueueInv
<1>4. \A i \in 1..Len(queue') :
          /\ queue'[i].who # t /\ queue'[i].who \in Task /\ queue'[i].event \in Event
          /\ Harmless(queue[i + 1].event)
  <2> SUFFICES ASSUME NEW i \in 1..Len(queue')
               PROVE  /\ queue'[i].who # t /\ queue'[i].who \in Task /\ queue'[i].event \in Event
                      /\ Harmless(queue[i + 1].event)
    OBVIOUS
  <2>1. /\ queue'[i] = queue[i + 1] /\ i + 1 \in 1..Len(queue) /\ i + 1 # 1
        /\ queue[i + 1] \in Row
    BY <1>1
  <2>2. queue[i + 1].who # t
    BY <1>1, <1>2, <2>1 DEF IInv, LockInv
  <2>3. queue[i + 1].who \in Task /\ queue[i + 1].event \in Event
    BY <2>1 DEF Row
  <2>4. Harmless(queue[i + 1].event)
    BY <2>1 DEF IInv, QueueInv
  <2> QED
    BY <2>1, <2>2, <2>3, <2>4
<1> DEFINE made == ev.kind = "created"
<1>5. \A e \in Entry : Becomes(entries[e], entries'[e], e, ev)
  BY <1>1, ProjectFacts DEF IInv, TypeInv
<1>6. \A e \in Entry : Becomes(journal[e], journal'[e], e, ev)
  BY <1>1, ProjectFacts DEF IInv, TypeInv
<1>7. \A e \in Entry : Exists(e)' <=> Exists(e) \/ (made /\ e = ev.entry)
  BY <1>5 DEF Exists, Becomes
\* Only a refused creation of an entry that nobody has created bars it.
<1>8. \A e \in Entry : e \in Barred' \ Barred =>
          ~Exists(e) /\ made /\ e = ev.entry /\ ev.status = "rejected"
  BY <1>1 DEF IInv, EntryInv, Barred
<1>9. Growing
  <2>1. \A e \in Entry : Exists(e) /\ e \in Barred' => e \in Barred
    BY <1>8
  <2> QED
    BY <1>1, <1>7, <2>1 DEF Growing
<1>10. task[t].at = "lock" /\ task[t] \in Local
  BY <1>1, <1>2 DEF IInv, LockInv, TypeInv
<1> DEFINE l == [task[t] EXCEPT !.at = "sync", !.sync = Synced(ev)]
<1>11. /\ l \in Local /\ l.at = "sync" /\ l.sync = Synced(ev) /\ l.todo = task[t].todo
       /\ l.seen = task[t].seen /\ l.then = task[t].then
  <2>1. Synced(ev) \in Seq(Entry)
    BY SyncedEntries
  <2> QED
    BY <1>10, <2>1 DEF Local, Await
<1>12. task' = [task EXCEPT ![t] = l]
  BY <1>1
<1> HIDE DEF l
<1>13. /\ task' \in [Task -> Local] /\ task'[t] = l
       /\ \A u \in Task : u # t => task'[u] = task[u] /\ Stands(u)' = Stands(u)
       /\ Stands(t)' = task[t].then /\ Stands(t) = task[t].then
  BY <1>10, <1>11, <1>12, TaskFacts DEF IInv, Await, Stands
<1>14. Staying
  BY <1>11, <1>13 DEF Staying
<1>15. TypeInv'
  <2>1. entries' \in [Entry -> Item] /\ journal' \in [Entry -> Item]
    BY <1>1, ProjectFacts DEF IInv, TypeInv
  <2>2. refused' \subseteq Entry /\ admitted' \subseteq Entry
    BY <1>1, <1>3 DEF IInv, TypeInv
  <2> QED
    BY <1>1, <1>13, <2>1, <2>2 DEF IInv, TypeInv
<1>16. LockInv'
  <2>1. \A i, j \in 1..Len(queue') : queue'[i].who = queue'[j].who => i = j
    <3> SUFFICES ASSUME NEW i \in 1..Len(queue'), NEW j \in 1..Len(queue'),
                        queue'[i].who = queue'[j].who
                 PROVE  i = j
      OBVIOUS
    <3>1. /\ queue'[i] = queue[i + 1] /\ i + 1 \in 1..Len(queue)
          /\ queue'[j] = queue[j + 1] /\ j + 1 \in 1..Len(queue)
      BY <1>1
    <3>2. i + 1 = j + 1
      BY <3>1 DEF IInv, LockInv
    <3> QED
      BY <1>1, <1>2, <3>2
  <2>2. ASSUME NEW u \in Task
        PROVE  task'[u].at = "lock" <=> \E i \in 1..Len(queue') : queue'[i].who = u
    <3>1. CASE u = t
      BY <1>4, <1>11, <1>13, <3>1
    <3>2. CASE u # t
      <4>1. task[u].at = "lock" <=> \E i \in 1..Len(queue) : queue[i].who = u
        BY DEF IInv, LockInv
      <4>2. ASSUME NEW i \in 1..Len(queue), queue[i].who = u
            PROVE  \E j \in 1..Len(queue') : queue'[j].who = u
        <5>1. i # 1
          BY <1>1, <3>2, <4>2
        <5>2. i - 1 \in 1..Len(queue') /\ (i - 1) + 1 = i
          BY <1>1, <1>2, <5>1
        <5>3. queue'[i - 1] = queue[i]
          BY <1>1, <5>2
        <5> QED
          BY <4>2, <5>2, <5>3
      <4>3. ASSUME NEW j \in 1..Len(queue'), queue'[j].who = u
            PROVE  \E i \in 1..Len(queue) : queue[i].who = u
        BY <1>1, <4>3
      <4> QED
        BY <1>13, <3>2, <4>1, <4>2, <4>3
    <3> QED
      BY <3>1, <3>2
  <2>3. ASSUME NEW u \in Task
        PROVE  task'[u].at \in {"sync", "write"} <=> task'[u].sync # <<>>
    <3>1. Synced(ev) # <<>>
      BY SyncedEntries
    <3> QED
      BY <1>11, <1>13, <3>1 DEF IInv, LockInv
  <2> QED
    BY <2>1, <2>2, <2>3 DEF LockInv
<1>17. \A e \in Entry : Earned(e)' = Earned(e) /\ Earned(e) \in Nat
  BY <1>1, CreditBounded DEF Earned
<1>18. EntryInv'
  <2> SUFFICES ASSUME NEW e \in Entry
               PROVE  /\ Exists(e)' <=> journal'[e].status # "absent"
                      /\ ~Exists(e)' => /\ index'[e] = "none" /\ e \notin refused'
                                        /\ entries'[e].credit = 0 /\ journal'[e].credit = 0
                      /\ Exists(e)' => e \in refused' \cup admitted'
                      /\ entries'[e].credit <= Earned(e)' /\ journal'[e].credit <= Earned(e)'
                      /\ e \in Barred' =>
                            /\ entries'[e].status = "rejected" /\ journal'[e].status = "rejected"
                            /\ index'[e] = "none"
    BY DEF EntryInv
  <2>1. /\ Exists(e) <=> journal[e].status # "absent"
        /\ ~Exists(e) => /\ index[e] = "none" /\ e \notin refused
                         /\ entries[e].credit = 0 /\ journal[e].credit = 0
        /\ Exists(e) => e \in refused \cup admitted
        /\ entries[e].credit <= Earned(e) /\ journal[e].credit <= Earned(e)
        /\ e \in Barred =>
              /\ entries[e].status = "rejected" /\ journal[e].status = "rejected"
              /\ index[e] = "none"
    BY DEF IInv, EntryInv
  <2>2. Exists(e)' <=> journal'[e].status # "absent"
    BY <1>6, <1>7, <2>1 DEF Becomes
  <2>3. ~Exists(e)' => /\ index'[e] = "none" /\ e \notin refused'
                       /\ entries'[e].credit = 0 /\ journal'[e].credit = 0
    <3> SUFFICES ASSUME ~Exists(e)'
                 PROVE  /\ index'[e] = "none" /\ e \notin refused'
                        /\ entries'[e].credit = 0 /\ journal'[e].credit = 0
      OBVIOUS
    <3>1. ~Exists(e) /\ ~(made /\ e = ev.entry)
      BY <1>7
    <3>2. entries[e].status = "absent" /\ journal[e].status = "absent"
      BY <2>1, <3>1 DEF Exists
    <3> QED
      BY <1>1, <1>5, <1>6, <2>1, <3>1, <3>2 DEF Becomes
  <2>4. entries'[e].credit <= Earned(e)' /\ journal'[e].credit <= Earned(e)'
    <3>1. Earned(e)' = Earned(e) /\ Earned(e) \in Nat
      BY <1>17
    <3>2. ev.kind = "confidence" /\ e = ev.entry => ev.credit <= Earned(e)
      BY <1>3 DEF Harmless
    <3>3. entries'[e].credit <= Earned(e)
      BY <1>5, <2>1, <3>1, <3>2 DEF Becomes
    <3>4. journal'[e].credit <= Earned(e)
      BY <1>6, <2>1, <3>1, <3>2 DEF Becomes
    <3> QED
      BY <3>1, <3>3, <3>4
  <2>5. ASSUME e \in Barred'
        PROVE  /\ entries'[e].status = "rejected" /\ journal'[e].status = "rejected"
               /\ index'[e] = "none"
    <3>1. CASE e \in Barred
      <4>2. made /\ e = ev.entry => ev.status = "rejected"
        BY <1>1, <2>5 DEF Barred
      <4>3. ~(ev.kind = "status" /\ e = ev.entry /\ ev.status # "rejected")
        BY <1>3, <3>1 DEF Harmless
      <4> QED
        BY <1>1, <1>5, <1>6, <2>1, <3>1, <4>2, <4>3 DEF Becomes
    <3>2. CASE e \notin Barred
      <4>1. made /\ ev.status = "rejected" /\ e = ev.entry /\ ~Exists(e)
        BY <1>8, <2>5, <3>2
      <4>2. index[e] = "none"
        BY <2>1, <4>1
      <4> QED
        BY <1>1, <1>5, <1>6, <4>1, <4>2 DEF Becomes
    <3> QED
      BY <3>1, <3>2
  <2>6. Exists(e)' => e \in refused' \cup admitted'
    BY <1>1, <1>7, <2>1
  <2> QED
    BY <2>2, <2>3, <2>4, <2>5, <2>6
<1>19. QueueInv'
  <2>1. ASSUME NEW i \in 1..Len(queue')
        PROVE  Harmless(queue[i].event)'
    <3>1. PICK o \in Event : o = queue'[i].event /\ o = queue[i + 1].event
      BY <1>1, <1>4
    <3>2. /\ Harmless(o) /\ o.entry \in Entry
      BY <1>4, <3>1, EventEntry
    <3>3. o.kind # "created" => Exists(o.entry)'
      BY <1>7, <3>2 DEF Harmless
    <3>4. o.kind = "merged" => Exists(o.source)'
      <4>1. o.kind = "merged" => o.source \in Entry
        BY DEF Event
      <4> QED
        BY <1>7, <3>2, <4>1 DEF Harmless
    <3>5. o.kind = "confidence" => o.credit <= Earned(o.entry)'
      BY <1>17, <3>2 DEF Harmless
    <3>6. o.kind # "created" /\ o.entry \in Barred' => o.entry \in Barred
      BY <1>8, <3>2 DEF Harmless
    <3>7. Harmless(o)'
      BY <3>2, <3>3, <3>4, <3>5, <3>6 DEF Harmless
    <3> QED
      BY <3>1, <3>7 DEF Harmless
  <2> QED
    BY <2>1 DEF QueueInv
<1>20. VerifyInv'
  <2>1. ASSUME NEW i \in 1..Len(queue')
        PROVE  /\ queue'[i].event.kind = "created" /\ queue'[i].event.status = "rejected" =>
                     /\ task'[queue'[i].who].then = "verify"
                     /\ queue'[i].event.entry \in task'[queue'[i].who].seen
               /\ task'[queue'[i].who].then = "verify" =>
                     /\ queue'[i].event.kind = "created"
                     /\ queue'[i].event.entry = Head(task'[queue'[i].who].todo)
    <3>1. /\ queue'[i] = queue[i + 1] /\ i + 1 \in 1..Len(queue) /\ queue'[i].who \in Task
          /\ queue'[i].who # t
      BY <1>1, <1>4
    <3>2. task'[queue[i + 1].who] = task[queue[i + 1].who]
      BY <1>13, <3>1
    <3> QED
      BY <3>1, <3>2 DEF IInv, VerifyInv
  <2>2. ASSUME NEW u \in Task, task'[u].at # "lock"
        PROVE  VerifySafe(u)'
    <3>1. CASE u = t
      <4> SUFFICES ASSUME task[t].then = "verify"
                   PROVE  /\ Exists(Head(task[t].todo))'
                          /\ Head(task'[t].todo) \in Barred' => Head(task'[t].todo) \in task'[t].seen
        BY <1>13, <3>1 DEF VerifySafe
      <4>1. made /\ ev.entry = Head(task[t].todo)
        BY <1>1, <1>2 DEF IInv, VerifyInv
      <4>2. ev.status = "rejected" => ev.entry \in task[t].seen
        BY <1>1, <1>2, <4>1 DEF IInv, VerifyInv
      <4>4. entries'[ev.entry].status # "absent"
        BY <1>3, <1>5, <4>1 DEF Becomes
      <4>5. task'[t].todo = task[t].todo /\ task'[t].seen = task[t].seen
        BY <1>14 DEF Staying
      <4>6. Head(task'[t].todo) = ev.entry
        BY <4>1, <4>5
      <4>7. ev.entry \in Barred' => ev.entry \in task'[t].seen
        BY <1>1, <4>1, <4>2, <4>5 DEF Barred
      <4> QED
        BY <4>4, <4>6, <4>7 DEF Exists
    <3>2. CASE u # t
      <4>1. task[u].at # "lock"
        BY <1>13, <2>2, <3>2
      <4> QED
        BY <1>9, <1>14, <4>1, VerifyGrows
    <3> QED
      BY <3>1, <3>2
  <2> QED
    BY <2>1, <2>2 DEF VerifyInv, VerifySafe
<1>21. TaskInv'
  <2>1. \A u \in Task : Fits(u, task[u], Stands(u))'
    BY <1>9, <1>14, FitsGrow
  <2>2. ASSUME NEW u \in Task
        PROVE  SyncSafe(u)'
    <3>1. CASE u = t
      <4>1. PICK sync \in Seq(Entry) : sync = Synced(ev)
        BY SyncedEntries
      <4>2. Exists(ev.entry)' /\ (ev.kind = "merged" => Exists(ev.source)')
        <5>1. Exists(ev.entry)'
          BY <1>3, <1>7 DEF Harmless
        <5>2. ev.kind = "merged" => ev.source \in Entry /\ Exists(ev.source)
          BY <1>3 DEF Harmless, Event
        <5> QED
          BY <1>7, <5>1, <5>2
      <4>3. \A i \in 1..Len(sync) : sync[i] = ev.entry \/ (ev.kind = "merged" /\ sync[i] = ev.source)
        BY <4>1, SyncedEntries
      <4>4. \A i \in 1..Len(sync) : Exists(sync[i])'
        BY <4>2, <4>3 DEF Exists
      <4>5. task'[u].at = "sync" /\ task'[u].sync = sync
        BY <1>11, <1>13, <3>1, <4>1
      <4> QED
        BY <4>4, <4>5 DEF SyncSafe, Exists
    <3>2. CASE u # t
      BY <1>9, <1>13, <3>2, SyncGrows
    <3> QED
      BY <3>1, <3>2
  <2>3. \A q \in credited' : q[1] \in settled'
    BY <1>1 DEF IInv, TaskInv
  <2> QED
    BY <2>1, <2>2, <2>3 DEF TaskInv, SyncSafe
<1> QED
  BY <1>15, <1>16, <1>18, <1>19, <1>20, <1>21 DEF IInv

-----------------------------------------------------------------------------
LEMMA NextKeeps ==
    ASSUME IInv, [Next]_vars
    PROVE  IInv'
<1>1. CASE Apply
  BY <1>1, ApplyKeeps
<1>2. CASE \E t \in Task : SyncRead(t) \/ SyncWrite(t)
  BY <1>2, SyncReadKeeps, SyncWriteKeeps
<1>3. CASE \E c \in Colony : \/ Settle(c) \/ HookSkip(c) \/ HookUpdate(c)
                             \/ HookPromote(c) \/ Trajectory(c)
  BY <1>3, SettleKeeps, HookSkipKeeps, HookUpdateKeeps, HookPromoteKeeps, TrajectoryKeeps
<1>4. CASE Extract \/ Verify
  BY <1>4, ExtractKeeps, VerifyKeeps
<1>5. CASE Harvest \/ CreateEntry \/ LogFinding
  BY <1>5, CreationsKeep
<1>6. CASE ExtractRefine \/ ExtractMerge \/ Curate \/ EditEntry
  BY <1>6, RewritesKeep
<1>7. CASE DedupStart \/ DedupCompare \/ DedupJudge \/ DedupDismiss
  BY <1>7, DedupKeeps
<1>8. CASE StaleSweep \/ ConfidenceReset \/ ArchiveThread
  BY <1>8, SweepsKeep
<1>9. CASE SubmitFeedback \/ ConfirmReview \/ \E c \in Colony : AgentFeedback(c)
  BY <1>9, FeedbackKeeps
<1>10. CASE CredentialSweep
  BY <1>10, CredentialSweepKeeps
<1>11. CASE DeleteEntry \/ Deprecate
  BY <1>11, DeleteEntryKeeps, DeprecateKeeps
<1>12. CASE Restart
  BY <1>12, RestartKeeps
<1>13. CASE UNCHANGED vars
  BY <1>13, StutterKeeps
<1> QED
  BY <1>1, <1>2, <1>3, <1>4, <1>5, <1>6, <1>7, <1>8, <1>9, <1>10, <1>11, <1>12, <1>13 DEF Next

LEMMA Invariant == Spec => []IInv
<1>1. Init => IInv
  BY Starting
<1>2. IInv /\ [Next]_vars => IInv'
  BY NextKeeps
<1> QED
  BY <1>1, <1>2, PTL DEF Spec

(* In every state entries, rows and coroutines are well formed, and each     *)
(* coroutine at the event store's lock waits with one row.                   *)
THEOREM TypeCorrect == Spec => []TypeOK
<1>1. IInv => TypeOK
  BY DEF IInv, TypeInv, LockInv, TypeOK
<1> QED
  BY <1>1, Invariant, PTL

(* Whatever the hook, the feedback handlers, the sweeps and restarts do in   *)
(* between, an entry holds no more credit than colonies succeeded with it    *)
(* and people approved of it.                                                *)
THEOREM CreditIsCountedOnce == Spec => []CountedOnce
<1>1. IInv => CountedOnce
  BY DEF IInv, EntryInv, Earned, CountedOnce
<1> QED
  BY <1>1, Invariant, PTL

(* An entry whose every creation the admission gate refused stays rejected  *)
(* and out of the vector store, unless a person has deleted it, however often *)
(* extractions hand its identifier out again.                                *)
THEOREM AdmissionIsFinal == Spec => []AdmissionHolds
<1>1. IInv => AdmissionHolds
  BY DEF IInv, TypeInv, EntryInv, Barred, AdmissionHolds
<1> QED
  BY <1>1, Invariant, PTL
-----------------------------------------------------------------------------
(* A replay and the live projections.                                        *)

\* The same item, but for its status and its mark of the sweep.
Alike(i, j) == /\ i.status = "absent" <=> j.status = "absent"
               /\ i.credit = j.credit

LEMMA ChangedAlike ==
    ASSUME NEW m \in [Entry -> Item], NEW n \in [Entry -> Item], NEW x \in Entry,
           NEW v, NEW w, Alike(v, w), m[x].status = n[x].status => v.status = w.status,
           \A e \in Entry : Alike(m[e], n[e]),
           NEW f, f = [m EXCEPT ![x] = v], NEW g, g = [n EXCEPT ![x] = w]
    PROVE  \A e \in Entry : /\ Alike(f[e], g[e])
                            /\ m[e].status = n[e].status => f[e].status = g[e].status
<1>1. f[x] = v /\ g[x] = w
  OBVIOUS
<1>2. \A e \in Entry : e # x => f[e] = m[e] /\ g[e] = n[e]
  OBVIOUS
<1> QED
  BY <1>1, <1>2

\* An event does the same to two tables that are alike.
LEMMA ProjectAlike ==
    ASSUME NEW m \in [Entry -> Item], NEW n \in [Entry -> Item], NEW ev \in Event,
           \A e \in Entry : Alike(m[e], n[e])
    PROVE  \A e \in Entry :
              /\ Alike(Project(m, ev)[e], Project(n, ev)[e])
              /\ m[e].status = n[e].status =>
                    Project(m, ev)[e].status = Project(n, ev)[e].status
<1> DEFINE x == ev.entry
<1>1. x \in Entry /\ m[x] \in Item /\ n[x] \in Item /\ Alike(m[x], n[x])
  BY EventEntry
<1>2. CASE ev.kind = "created"
  <2> DEFINE v == [Absent EXCEPT !.status = ev.status]
  <2>1. Project(m, ev) = [m EXCEPT ![x] = v] /\ Project(n, ev) = [n EXCEPT ![x] = v]
    BY <1>2 DEF Project, OnCreated
  <2>2. Alike(v, v)
    BY DEF Alike
  <2> HIDE DEF v, x
  <2> QED
    BY <1>1, <2>1, <2>2, ChangedAlike
<1>3. CASE ev.kind = "status"
  <2>1. CASE m[x].status = "absent"
    BY <1>1, <1>3, <2>1 DEF Project, OnStatusChanged, Alike
  <2>2. CASE m[x].status # "absent"
    <3> DEFINE v == [m[x] EXCEPT !.status = ev.status]
               w == [n[x] EXCEPT !.status = ev.status]
    <3>1. Project(m, ev) = [m EXCEPT ![x] = v] /\ Project(n, ev) = [n EXCEPT ![x] = w]
      BY <1>1, <1>3, <2>2 DEF Project, OnStatusChanged, Alike
    <3>2. v.status = ev.status /\ w.status = ev.status /\ Alike(v, w)
      BY <1>1 DEF Alike, Item
    <3> HIDE DEF v, w, x
    <3> QED
      BY <1>1, <3>1, <3>2, ChangedAlike
  <2> QED
    BY <2>1, <2>2
<1>4. CASE ev.kind = "confidence"
  <2>1. CASE m[x].status = "absent"
    BY <1>1, <1>4, <2>1 DEF Project, OnConfidenceUpdated, Alike
  <2>2. CASE m[x].status # "absent"
    <3> DEFINE v == [m[x] EXCEPT !.credit = ev.credit]
               w == [n[x] EXCEPT !.credit = ev.credit]
    <3>1. Project(m, ev) = [m EXCEPT ![x] = v] /\ Project(n, ev) = [n EXCEPT ![x] = w]
      BY <1>1, <1>4, <2>2 DEF Project, OnConfidenceUpdated, Alike
    <3>2. v.status = m[x].status /\ w.status = n[x].status /\ Alike(v, w)
      BY <1>1 DEF Alike, Item
    <3> HIDE DEF v, w, x
    <3> QED
      BY <1>1, <3>1, <3>2, ChangedAlike
  <2> QED
    BY <2>1, <2>2
<1>5. CASE ev.kind = "merged"
  <2> DEFINE s == ev.source
  <2>0. s \in Entry /\ m[s] \in Item /\ n[s] \in Item /\ Alike(m[s], n[s])
    BY <1>5 DEF Event
  <2>1. CASE m[s].status = "absent"
    BY <1>5, <2>0, <2>1 DEF Project, OnMerged, Alike
  <2>2. CASE m[s].status # "absent"
    <3> DEFINE v == [m[s] EXCEPT !.status = "rejected"]
               w == [n[s] EXCEPT !.status = "rejected"]
    <3>1. Project(m, ev) = [m EXCEPT ![s] = v] /\ Project(n, ev) = [n EXCEPT ![s] = w]
      BY <1>5, <2>0, <2>2 DEF Project, OnMerged, Alike
    <3>2. v.status = "rejected" /\ w.status = "rejected" /\ Alike(v, w)
      BY <2>0 DEF Alike, Item
    <3> HIDE DEF v, w, s
    <3> QED
      BY <2>0, <3>1, <3>2, ChangedAlike
  <2> QED
    BY <2>1, <2>2
<1>6. CASE ev.kind = "refined"
  BY <1>6 DEF Project
<1>7. ev.kind \in {"created", "status", "confidence", "refined", "merged"}
  BY DEF Event
<1> QED
  BY <1>2, <1>3, <1>4, <1>5, <1>6, <1>7

LEMMA ReplayStep ==
    ASSUME IInv, ReplayKeepsEntries, [Next]_vars
    PROVE  ReplayKeepsEntries'
<1>0. /\ entries \in [Entry -> Item] /\ journal \in [Entry -> Item]
      /\ \A e \in Entry : Alike(entries[e], journal[e])
      /\ \A e \in Entry : entries[e].status # journal[e].status => e \in deleted
  BY DEF IInv, TypeInv, ReplayKeepsEntries, Exists, Alike
<1>Q. ASSUME UNCHANGED <<entries, journal>>, deleted \subseteq deleted'
      PROVE  ReplayKeepsEntries'
  BY <1>Q DEF ReplayKeepsEntries, Exists
<1>1. CASE Apply
  <2>1. PICK ev \in Event : /\ entries' = Project(entries, ev)
                            /\ journal' = Project(journal, ev)
    <3>1. queue # <<>> /\ queue \in Seq(Row)
      BY <1>1 DEF Apply, IInv, TypeInv
    <3>2. Head(queue) \in Row
      BY <3>1
    <3>3. Head(queue).event \in Event
      BY <3>2 DEF Row
    <3> QED
      BY <1>1, <3>3 DEF Apply
  <2>2. deleted' = deleted
    BY <1>1 DEF Apply, ghosts
  <2>3. \A e \in Entry :
           /\ Alike(entries'[e], journal'[e])
           /\ entries[e].status = journal[e].status => entries'[e].status = journal'[e].status
    BY <1>0, <2>1, ProjectAlike
  <2> QED
    BY <1>0, <2>2, <2>3 DEF ReplayKeepsEntries, Exists, Alike
<1>2. CASE CredentialSweep
  <2>1. PICK x \in Entry : entries' = [entries EXCEPT ![x].scanned = TRUE]
    BY <1>2 DEF CredentialSweep
  <2>2. UNCHANGED <<journal, deleted>>
    BY <1>2 DEF CredentialSweep, ghosts
  <2> DEFINE m == [entries[x] EXCEPT !.scanned = TRUE]
  <2>3. entries[x] \in Item
    BY <1>0
  <2>4. m.status = entries[x].status /\ m.credit = entries[x].credit
    BY <2>3 DEF Item
  <2>5. entries' = [entries EXCEPT ![x] = m]
    BY <2>1
  <2> HIDE DEF m
  <2>6. \A e \in Entry : entries'[e].status = entries[e].status
                         /\ entries'[e].credit = entries[e].credit
    BY <1>0, <2>4, <2>5
  <2> QED
    BY <2>2, <2>6 DEF ReplayKeepsEntries, Exists
<1>3. CASE Deprecate
  <2>1. "person" \in Task /\ task["person"].at = "deprecate" /\ task["person"].at \notin Await
    BY <1>3, Workers DEF Deprecate, Await
  <2>2. PICK x : x = Head(task["person"].todo)
    OBVIOUS
  <2>3. x \in Entry /\ Exists(x) /\ x \in deleted
    BY <2>1, <2>2, AtPlace DEF Fits
  <2>4. entries' = [entries EXCEPT ![x].status = "deprecated"] /\ UNCHANGED <<journal, deleted>>
    BY <1>3, <2>2 DEF Deprecate, ghosts
  <2> DEFINE m == [entries[x] EXCEPT !.status = "deprecated"]
  <2>5. entries[x] \in Item
    BY <1>0, <2>3
  <2>6. m.status = "deprecated" /\ m.credit = entries[x].credit
    BY <2>5 DEF Item
  <2>7. entries' = [entries EXCEPT ![x] = m]
    BY <2>4
  <2> HIDE DEF m
  <2>8. /\ entries'[x].status = "deprecated" /\ entries'[x].credit = entries[x].credit
        /\ \A e \in Entry : e # x => entries'[e] = entries[e]
    BY <1>0, <2>3, <2>6, <2>7
  <2> QED
    BY <2>3, <2>4, <2>8 DEF ReplayKeepsEntries, Exists
<1>4. CASE Restart
  BY <1>4 DEF Restart, ReplayKeepsEntries, Exists
<1>5. CASE \E t \in Task : SyncRead(t) \/ SyncWrite(t)
  BY <1>5, <1>Q DEF SyncRead, SyncWrite, state, ghosts
<1>6. CASE \E c \in Colony : \/ Settle(c) \/ HookSkip(c) \/ HookUpdate(c)
                             \/ HookPromote(c) \/ Trajectory(c) \/ AgentFeedback(c)
  BY <1>6, <1>Q DEF Settle, HookSkip, HookUpdate, HookPromote, Trajectory, AgentFeedback,
     Rates, state, ghosts
<1>7. CASE Extract \/ Verify \/ Harvest \/ ExtractRefine \/ ExtractMerge
  BY <1>7, <1>Q DEF Extract, Verify, Harvest, ExtractRefine, ExtractMerge, state, ghosts
<1>8. CASE DedupStart \/ DedupCompare \/ DedupJudge \/ DedupDismiss
  BY <1>8, <1>Q DEF DedupStart, DedupCompare, DedupJudge, DedupDismiss, state, ghosts
<1>9. CASE StaleSweep \/ ConfidenceReset \/ Curate \/ CreateEntry \/ LogFinding \/ EditEntry
           \/ ArchiveThread
  BY <1>9, <1>Q DEF StaleSweep, ConfidenceReset, Curate, CreateEntry, LogFinding, EditEntry,
     ArchiveThread, state, ghosts
<1>10. CASE SubmitFeedback \/ ConfirmReview \/ DeleteEntry
  BY <1>10, <1>Q DEF SubmitFeedback, ConfirmReview, DeleteEntry, Rates, state
<1>11. CASE UNCHANGED vars
  BY <1>11, <1>Q DEF vars, state, ghosts
<1> QED
  BY <1>1, <1>2, <1>3, <1>4, <1>5, <1>6, <1>7, <1>8, <1>9, <1>10, <1>11 DEF Next

(* Crash and replay lose nothing of an entry but a deletion's status, which  *)
(* no event carries, however emissions, mirrors and restarts interleave.     *)
THEOREM ReplayKeeps == Spec => []ReplayKeepsEntries
<1>1. Init => ReplayKeepsEntries
  BY DEF Init, ReplayKeepsEntries, Exists
<1>2. IInv /\ ReplayKeepsEntries /\ [Next]_vars => ReplayKeepsEntries'
  BY ReplayStep
<1> QED
  BY <1>1, <1>2, Invariant, PTL DEF Spec
=============================================================================
