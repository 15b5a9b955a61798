---------------------------- MODULE SharedDataPtr ----------------------------
(***************************************************************************)
(* csdb::internal::shared_data_ptr, the copy-on-write pointer behind Pool, *)
(* PoolHash, Transaction, Address, ... (src/include/csdb/internal/).  The  *)
(* reference count is atomic, the rest is not.  A handle is used by one    *)
(* thread at a time and may be handed to another; the threads meet only in *)
(* the objects their handles share.  Every step below touches the shared   *)
(* memory at most once.                                                    *)
(***************************************************************************)
EXTENDS Integers, FiniteSets

CONSTANTS
  Thread, Handle,
  Object,   \* addresses of the heap
  Null,     \* nullptr
  Value,    \* contents of an object
  None      \* no content: what a null handle holds

ASSUME PtrAssumption ==
  /\ Thread \cap Handle = {} /\ IsFiniteSet(Thread) /\ IsFiniteSet(Handle)
  /\ Null \notin Object /\ Null \notin Handle
  /\ None \notin Value

(* Places that hold a counted pointer: the handles, and per thread the local *)
(* pointer of the member function it is in.                                  *)
Slot == Handle \cup Thread

VARIABLES
  at,       \* the object a slot points to, or Null
  ref,      \* T::ref of every object
  alive,    \* objects allocated and not deleted
  content,  \* the value of every object
  owner,    \* the thread that may use a handle
  pc,       \* where each thread stands
  busy,     \* the handle whose member function the thread is in, or Null
  victim    \* the object the thread is about to delete, or Null

vars == <<at, ref, alive, content, owner, pc, busy, victim>>

Init ==
  /\ at = [s \in Slot |-> Null]
  /\ ref = [o \in Object |-> 0]
  /\ alive = {}
  /\ content \in [Object -> Value]
  /\ owner \in [Handle -> Thread]
  /\ pc = [t \in Thread |-> "idle"]
  /\ busy = [t \in Thread |-> Null]
  /\ victim = [t \in Thread |-> Null]

Uses(t, h) == owner[h] = t
Idle(t) == pc[t] = "idle"
Goto(t, l) == pc' = [pc EXCEPT ![t] = l]

-----------------------------------------------------------------------------
(* Whole operations that touch shared memory once. *)

\* shared_data_ptr(T*): a new object, referenced once.
Create(t, h, o, v) ==
  /\ Idle(t) /\ Uses(t, h) /\ at[h] = Null
  /\ o \notin alive
  /\ alive' = alive \cup {o}
  /\ content' = [content EXCEPT ![o] = v]
  /\ at' = [at EXCEPT ![h] = o]
  /\ ref' = [ref EXCEPT ![o] = 1]
  /\ UNCHANGED <<owner, pc, busy, victim>>

\* Mutant: the copy is not counted.
Copy_Uncounted(t, h, g) ==
  /\ Idle(t) /\ Uses(t, h) /\ Uses(t, g)
  /\ at[h] = Null /\ at[g] # Null
  /\ at' = [at EXCEPT ![h] = at[g]]
  /\ UNCHANGED <<ref, alive, content, owner, pc, busy, victim>>

\* The copy constructor.
Copy(t, h, g) ==
  /\ Idle(t) /\ Uses(t, h) /\ Uses(t, g)
  /\ at[h] = Null /\ at[g] # Null
  /\ at' = [at EXCEPT ![h] = at[g]]
  /\ ref' = [ref EXCEPT ![at[g]] = @ + 1]
  /\ UNCHANGED <<alive, content, owner, pc, busy, victim>>

\* The move constructor (into a null handle) and move assignment: both leave
\* the source with what the destination had.
Move(t, h, g) ==
  /\ Idle(t) /\ Uses(t, h) /\ Uses(t, g)
  /\ at' = [at EXCEPT ![h] = at[g], ![g] = at[h]]
  /\ UNCHANGED <<ref, alive, content, owner, pc, busy, victim>>

\* A handle is handed to another thread.
HandOver(t, h, u) ==
  /\ Idle(t) /\ Uses(t, h)
  /\ owner' = [owner EXCEPT ![h] = u]
  /\ UNCHANGED <<at, ref, alive, content, pc, busy, victim>>

-----------------------------------------------------------------------------
(* Copy assignment and the destructor: give up a reference, perhaps the last.*)

\* Mutant: assignment copies the pointer and does not count it.
Assign_Overwrites(t, h, g) ==
  /\ Idle(t) /\ Uses(t, h) /\ Uses(t, g)
  /\ at' = [at EXCEPT ![h] = at[g], ![t] = at[h]]
  /\ Goto(t, "drop")
  /\ UNCHANGED <<ref, alive, content, owner, busy, victim>>

\* if (o.d != d) { ++o.d->ref; old = d; d = o.d; ...
Assign(t, h, g) ==
  /\ Idle(t) /\ Uses(t, h) /\ Uses(t, g)
  /\ at[h] # at[g]
  /\ at' = [at EXCEPT ![h] = at[g], ![t] = at[h]]
  /\ ref' = IF at[g] = Null THEN ref ELSE [ref EXCEPT ![at[g]] = @ + 1]
  /\ Goto(t, "drop")
  /\ UNCHANGED <<alive, content, owner, busy, victim>>

Destroy(t, h) ==
  /\ Idle(t) /\ Uses(t, h) /\ at[h] # Null
  /\ at' = [at EXCEPT ![h] = Null, ![t] = at[h]]
  /\ Goto(t, "drop")
  /\ UNCHANGED <<ref, alive, content, owner, busy, victim>>

\* ... if (old && (0 == (--old->ref))) delete old;
Drop(t) ==
  /\ pc[t] = "drop"
  /\ \/ /\ at[t] = Null
        /\ Goto(t, "idle")
        /\ UNCHANGED <<at, ref, victim>>
     \/ /\ at[t] # Null
        /\ ref' = [ref EXCEPT ![at[t]] = @ - 1]
        /\ at' = [at EXCEPT ![t] = Null]
        /\ IF ref[at[t]] = 1
             THEN victim' = [victim EXCEPT ![t] = at[t]] /\ Goto(t, "delete")
             ELSE UNCHANGED victim /\ Goto(t, "idle")
  /\ UNCHANGED <<alive, content, owner, busy>>

\* delete; detach goes on to its write.
Delete(t) ==
  /\ pc[t] = "delete"
  /\ alive' = alive \ {victim[t]}
  /\ victim' = [victim EXCEPT ![t] = Null]
  /\ Goto(t, IF busy[t] = Null THEN "idle" ELSE "write")
  /\ UNCHANGED <<at, ref, content, owner, busy>>

-----------------------------------------------------------------------------
(* Non-const access: detach, then a write through the pointer it returns.    *)

\* Mutant: detach takes a count of two for unshared.
Detach_AtTwo(t, h) ==
  /\ Idle(t) /\ Uses(t, h) /\ at[h] # Null
  /\ busy' = [busy EXCEPT ![t] = h]
  /\ Goto(t, IF ref[at[h]] <= 2 THEN "write" ELSE "clone")
  /\ UNCHANGED <<at, ref, alive, content, owner, victim>>

\* if (d && (d->ref != 1)) ...
Detach(t, h) ==
  /\ Idle(t) /\ Uses(t, h) /\ at[h] # Null
  /\ busy' = [busy EXCEPT ![t] = h]
  /\ Goto(t, IF ref[at[h]] = 1 THEN "write" ELSE "clone")
  /\ UNCHANGED <<at, ref, alive, content, owner, victim>>

\* T *x = new T( *d); ++x->ref;
Clone(t, o) ==
  /\ pc[t] = "clone"
  /\ o \notin alive
  /\ alive' = alive \cup {o}
  /\ content' = [content EXCEPT ![o] = content[at[busy[t]]]]
  /\ ref' = [ref EXCEPT ![o] = 1]
  /\ at' = [at EXCEPT ![t] = o]
  /\ Goto(t, "switch")
  /\ UNCHANGED <<owner, busy, victim>>

\* Mutant: detach forgets that the other owners may have gone since its check.
Switch_NeverDeletes(t) ==
  LET h == busy[t]
  IN  /\ pc[t] = "switch"
      /\ ref' = [ref EXCEPT ![at[h]] = @ - 1]
      /\ at' = [at EXCEPT ![h] = at[t], ![t] = Null]
      /\ Goto(t, "write")
      /\ UNCHANGED <<alive, content, owner, busy, victim>>

\* if (0 == (--d->ref)) delete d; d = x;
Switch(t) ==
  LET h == busy[t]
      old == at[h]
  IN  /\ pc[t] = "switch"
      /\ ref' = [ref EXCEPT ![old] = @ - 1]
      /\ at' = [at EXCEPT ![h] = at[t], ![t] = Null]
      /\ IF ref[old] = 1
           THEN victim' = [victim EXCEPT ![t] = old] /\ Goto(t, "delete")
           ELSE UNCHANGED victim /\ Goto(t, "write")
      /\ UNCHANGED <<alive, content, owner, busy>>

\* The caller writes through the pointer.
Write(t, v) ==
  /\ pc[t] = "write"
  /\ content' = [content EXCEPT ![at[busy[t]]] = v]
  /\ busy' = [busy EXCEPT ![t] = Null]
  /\ Goto(t, "idle")
  /\ UNCHANGED <<at, ref, alive, owner, victim>>

-----------------------------------------------------------------------------
Step(t) ==
  \/ \E h \in Handle, o \in Object, v \in Value : Create(t, h, o, v)
  \/ \E h, g \in Handle : Copy(t, h, g) \/ Move(t, h, g) \/ Assign(t, h, g)
  \/ \E h \in Handle, u \in Thread : HandOver(t, h, u)
  \/ \E h \in Handle : Destroy(t, h) \/ Detach(t, h)
  \/ Drop(t) \/ Delete(t) \/ Switch(t)
  \/ \E o \in Object : Clone(t, o)
  \/ \E v \in Value : Write(t, v)

Next == \E t \in Thread : Step(t)

Spec == Init /\ [][Next]_vars

-----------------------------------------------------------------------------
(* What the pointer promises. *)

Pointing(o) == {s \in Slot : at[s] = o}

TypeOK ==
  /\ at \in [Slot -> Object \cup {Null}]
  /\ ref \in [Object -> Nat]
  /\ alive \subseteq Object
  /\ content \in [Object -> Value]
  /\ owner \in [Handle -> Thread]
  /\ pc \in [Thread -> {"idle", "drop", "delete", "clone", "switch", "write"}]
  /\ busy \in [Thread -> Handle \cup {Null}]
  /\ victim \in [Thread -> Object \cup {Null}]

(* The count of a living object is the number of pointers to it, at every    *)
(* point of every interleaving of copies, assignments, detaches and          *)
(* destructions (shared_data_ptr_implementation.h:36-118).                   *)
RefCounts == \A o \in alive : ref[o] = Cardinality(Pointing(o))

(* No pointer, of a handle or of a running member function, ever refers to a *)
(* deleted object.                                                           *)
NoDangling == \A s \in Slot : at[s] # Null => at[s] \in alive

(* Two detaches of one object that race: exactly one thread deletes it, and  *)
(* only when no pointer is left.                                             *)
OneDeleter ==
  \A t \in Thread : victim[t] # Null =>
    /\ victim[t] \in alive /\ Pointing(victim[t]) = {}
    /\ \A u \in Thread \ {t} : victim[u] # victim[t]

(* Nothing leaks: a living object has a pointer to it or a thread that is    *)
(* deleting it.                                                              *)
NoLeak ==
  \A o \in alive : Pointing(o) # {} \/ \E t \in Thread : victim[t] = o

(* No data race: between the check of detach and the write, the object is    *)
(* pointed to by the writing handle alone, so nobody reads, copies or writes *)
(* it (shared_data_ptr_implementation.h:107-118).                            *)
WritesAlone == \A t \in Thread : pc[t] = "write" => Pointing(at[busy[t]]) = {busy[t]}

(* Copy on write is invisible: the handles behave as values.                 *)
ValueOf(h) == IF at[h] = Null THEN None ELSE content[at[h]]
AsValues == INSTANCE Values WITH val <- [h \in Handle |-> ValueOf(h)]
ImplementsValues == AsValues!Spec
=============================================================================
