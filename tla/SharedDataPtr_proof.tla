------------------------- MODULE SharedDataPtr_proof -------------------------
(* Proofs about the copy-on-write pointer for any number of threads, handles *)
(* and objects.  The inductive invariant says, besides the safety properties *)
(* themselves, what each thread knows at the point where it stands: whose    *)
(* pointer it uses, and which objects nobody else points to.                 *)
EXTENDS SharedDataPtr, FiniteSetTheorems, TLAPS

(* Nobody but the handle that thread t is about to write through points to   *)
(* its object.                                                               *)
Alone(t) == \A s \in Slot : at[s] = at[busy[t]] => s = busy[t]

(* What thread t may rely on where it stands.                                *)
Stands(t) ==
  /\ pc[t] = "idle" => busy[t] = Null
  /\ pc[t] \in {"idle", "clone", "write", "delete"} => at[t] = Null
  /\ pc[t] = "delete" <=> victim[t] # Null
  /\ pc[t] = "drop" => busy[t] = Null
  /\ pc[t] \in {"clone", "switch", "write"} => busy[t] # Null
  /\ busy[t] # Null => owner[busy[t]] = t /\ at[busy[t]] # Null
  /\ pc[t] = "write" \/ (pc[t] = "delete" /\ busy[t] # Null) => Alone(t)

(* The copy that detach made: its own object, equal to the original.         *)
Copied(t) ==
  pc[t] = "switch" =>
    /\ at[t] # Null
    /\ \A s \in Slot : at[s] = at[t] => s = t
    /\ content[at[t]] = content[at[busy[t]]]

Doomed ==
  \A t \in Thread : victim[t] # Null =>
    /\ victim[t] \in alive
    /\ \A s \in Slot : at[s] # victim[t]
    /\ \A u \in Thread \ {t} : victim[u] # victim[t]

Kept == \A o \in alive : (\E s \in Slot : at[s] = o) \/ \E t \in Thread : victim[t] = o

IInv ==
  /\ TypeOK
  /\ RefCounts
  /\ NoDangling
  /\ Doomed
  /\ Kept
  /\ \A t \in Thread : Stands(t)
  /\ \A t \in Thread : Copied(t)

-----------------------------------------------------------------------------
(* Counting pointers. *)

Places == [Slot -> Object \cup {Null}]
PointingIn(f, o) == {s \in Slot : f[s] = o}

LEMMA PlacesFinite ==
  ASSUME NEW f, NEW o
  PROVE  IsFiniteSet(PointingIn(f, o)) /\ Cardinality(PointingIn(f, o)) \in Nat
<1>1. IsFiniteSet(Slot)
  BY PtrAssumption, FS_Union DEF Slot
<1>2. PointingIn(f, o) \in SUBSET Slot
  BY DEF PointingIn
<1> QED  BY <1>1, <1>2, FS_Subset, FS_CardinalityType

(* g is f with one slot redirected: this moves one unit of count.            *)
Redirected(f, g, s, q) ==
  /\ f \in Places /\ s \in Slot /\ q \in Object \cup {Null}
  /\ g = [f EXCEPT ![s] = q]

LEMMA Redirect ==
  ASSUME NEW f, NEW g, NEW s, NEW q, Redirected(f, g, s, q), NEW o \in Object
  PROVE  Cardinality(PointingIn(g, o)) =
           Cardinality(PointingIn(f, o))
             + (IF o = q THEN 1 ELSE 0) - (IF o = f[s] THEN 1 ELSE 0)
<1> USE DEF Redirected
<1> DEFINE P == PointingIn(f, o)
<1>0. IsFiniteSet(P) /\ Cardinality(P) \in Nat
  BY PlacesFinite
<1>1. CASE o = q /\ o = f[s]
  <2>1. PointingIn(g, o) = P
    BY <1>1 DEF PointingIn, Places
  <2> QED  BY <1>0, <1>1, <2>1
<1>2. CASE o = q /\ o # f[s]
  <2>1. PointingIn(g, o) = P \cup {s} /\ s \notin P
    BY <1>2 DEF PointingIn, Places
  <2>2. Cardinality(P \cup {s}) = Cardinality(P) + 1
    BY <1>0, <2>1, FS_AddElement
  <2>3. Cardinality(PointingIn(g, o)) = Cardinality(P) + 1
    BY <2>1, <2>2
  <2> HIDE DEF P
  <2>4. Cardinality(PointingIn(g, o)) =
          Cardinality(P) + (IF o = q THEN 1 ELSE 0) - (IF o = f[s] THEN 1 ELSE 0)
    BY <1>0, <1>2, <2>3
  <2> QED  BY <2>4 DEF P
<1>3. CASE o # q /\ o = f[s]
  <2>1. PointingIn(g, o) = P \ {s} /\ s \in P
    BY <1>3 DEF PointingIn, Places
  <2>2. Cardinality(P \ {s}) = Cardinality(P) - 1
    BY <1>0, <2>1, FS_RemoveElement
  <2>3. Cardinality(PointingIn(g, o)) = Cardinality(P) - 1
    BY <2>1, <2>2
  <2> HIDE DEF P
  <2>4. Cardinality(PointingIn(g, o)) =
          Cardinality(P) + (IF o = q THEN 1 ELSE 0) - (IF o = f[s] THEN 1 ELSE 0)
    BY <1>0, <1>3, <2>3
  <2> QED  BY <2>4 DEF P
<1>4. CASE o # q /\ o # f[s]
  <2>1. PointingIn(g, o) = P
    BY <1>4 DEF PointingIn, Places
  <2> QED  BY <1>0, <1>4, <2>1
<1> QED  BY <1>1, <1>2, <1>3, <1>4

LEMMA CountOne ==
  ASSUME NEW f, NEW o, NEW s \in PointingIn(f, o), Cardinality(PointingIn(f, o)) = 1
  PROVE  \A r \in Slot : f[r] = o => r = s
<1>1. PICK x : PointingIn(f, o) = {x}
  BY PlacesFinite, FS_Singleton
<1> QED  BY <1>1 DEF PointingIn

LEMMA CountNotOne ==
  ASSUME NEW f, NEW o, NEW s \in PointingIn(f, o), Cardinality(PointingIn(f, o)) # 1
  PROVE  \E r \in Slot : f[r] = o /\ r # s
<1>1. PointingIn(f, o) # {s}
  BY FS_Singleton
<1> QED  BY <1>1 DEF PointingIn

LEMMA CountPositive ==
  ASSUME NEW f, NEW o, NEW s \in PointingIn(f, o)
  PROVE  Cardinality(PointingIn(f, o)) \in Nat \ {0}
BY PlacesFinite, FS_EmptySet

LEMMA Counts == RefCounts <=> \A o \in alive : ref[o] = Cardinality(PointingIn(at, o))
BY DEF RefCounts, Pointing, PointingIn

LEMMA CountsNext == RefCounts' <=> \A o \in alive' : ref'[o] = Cardinality(PointingIn(at', o))
BY DEF RefCounts, Pointing, PointingIn

(* A thread is not a handle.                                                 *)
LEMMA SlotKinds ==
  /\ Handle \subseteq Slot /\ Thread \subseteq Slot
  /\ \A t \in Thread, h \in Handle : t # h
  /\ Null \notin Handle /\ Null \notin Object
BY PtrAssumption DEF Slot

-----------------------------------------------------------------------------
(* Each action preserves the invariant. *)

LEMMA CreatePreserves ==
  ASSUME IInv, NEW t \in Thread, NEW h \in Handle, NEW o \in Object, NEW v \in Value, Create(t, h, o, v)
  PROVE  IInv'
<1> USE SlotKinds DEF IInv
<1>1. TypeOK'
  BY DEF TypeOK, Create, Goto, Uses, Idle, Slot
<1>2. RefCounts'
  <2> SUFFICES ASSUME NEW x \in alive' PROVE ref'[x] = Cardinality(PointingIn(at', x))
    BY CountsNext
  <2>1. at \in Places /\ x \in Object /\ Cardinality(PointingIn(at, x)) \in Nat
    BY <1>1, PlacesFinite DEF TypeOK, Places
  <2>2. Cardinality(PointingIn(at', x)) =
          Cardinality(PointingIn(at, x)) + (IF x = o THEN 1 ELSE 0)
    <3>1. Redirected(at, at', h, o) /\ at[h] = Null
      BY <2>1 DEF Create, Stands, Redirected
    <3> QED  BY <2>1, <3>1, Redirect
  <2>3. CASE x = o
    <3>1. PointingIn(at, x) = {}
      BY <2>3 DEF NoDangling, PointingIn, Create
    <3>2. Cardinality(PointingIn(at', x)) = 1
      BY <2>2, <2>3, <3>1, FS_EmptySet
    <3> QED  BY <2>3, <3>2 DEF Create, TypeOK
  <2>4. CASE x # o
    <3>1. x \in alive /\ ref'[x] = ref[x]
      BY <2>1, <2>4 DEF Create, TypeOK
    <3> QED  BY <2>1, <2>2, <2>4, <3>1, Counts
  <2> QED  BY <2>3, <2>4
<1>3. NoDangling'
  BY DEF TypeOK, NoDangling, Doomed, Create, Goto, Uses, Idle, Stands
<1>4. Doomed'
  BY DEF TypeOK, NoDangling, Doomed, Create, Goto, Uses, Idle, Stands
<1>5. Kept'
  BY DEF TypeOK, Kept, Doomed, Create, Goto, Uses, Idle, Stands
<1>6. ASSUME NEW u \in Thread PROVE Stands(u)'
  BY DEF TypeOK, NoDangling, Doomed, Stands, Alone, Create, Goto, Uses, Idle
<1>7. ASSUME NEW u \in Thread PROVE Copied(u)'
  BY DEF TypeOK, NoDangling, Doomed, Stands, Alone, Copied, Create, Goto, Uses, Idle
<1> QED  BY <1>1, <1>2, <1>3, <1>4, <1>5, <1>6, <1>7

LEMMA CopyPreserves ==
  ASSUME IInv, NEW t \in Thread, NEW h \in Handle, NEW g \in Handle, Copy(t, h, g)
  PROVE  IInv'
<1> USE SlotKinds DEF IInv
<1>1. TypeOK'
  BY DEF TypeOK, Copy, Goto, Uses, Idle, Slot
<1>2. RefCounts'
  <2> SUFFICES ASSUME NEW x \in alive' PROVE ref'[x] = Cardinality(PointingIn(at', x))
    BY CountsNext
  <2>1. at \in Places /\ x \in Object /\ Cardinality(PointingIn(at, x)) \in Nat
    BY <1>1, PlacesFinite DEF TypeOK, Places
  <2>2. Cardinality(PointingIn(at', x)) =
          Cardinality(PointingIn(at, x)) + (IF x = at[g] THEN 1 ELSE 0)
    <3>1. Redirected(at, at', h, at[g]) /\ at[h] = Null
      BY <2>1 DEF Copy, Redirected, Places
    <3> QED  BY <2>1, <3>1, Redirect
  <2> QED  BY <2>1, <2>2, Counts DEF Copy, TypeOK
<1>3. NoDangling'
  BY DEF TypeOK, NoDangling, Doomed, Copy, Goto, Uses, Idle, Stands
<1>4. Doomed'
  BY DEF TypeOK, NoDangling, Doomed, Copy, Goto, Uses, Idle, Stands
<1>5. Kept'
  BY DEF TypeOK, Kept, Doomed, Copy, Goto, Uses, Idle, Stands
<1>6. ASSUME NEW u \in Thread PROVE Stands(u)'
  BY DEF TypeOK, NoDangling, Doomed, Stands, Alone, Copy, Goto, Uses, Idle
<1>7. ASSUME NEW u \in Thread PROVE Copied(u)'
  BY DEF TypeOK, NoDangling, Doomed, Stands, Alone, Copied, Copy, Goto, Uses, Idle
<1> QED  BY <1>1, <1>2, <1>3, <1>4, <1>5, <1>6, <1>7

LEMMA MovePreserves ==
  ASSUME IInv, NEW t \in Thread, NEW h \in Handle, NEW g \in Handle, Move(t, h, g)
  PROVE  IInv'
<1> USE SlotKinds DEF IInv
<1>1. TypeOK'
  BY DEF TypeOK, Move, Goto, Uses, Idle, Slot
<1>2. RefCounts'
  <2> SUFFICES ASSUME NEW x \in alive' PROVE ref'[x] = Cardinality(PointingIn(at', x))
    BY CountsNext
  <2>1. at \in Places /\ x \in Object /\ Cardinality(PointingIn(at, x)) \in Nat
    BY <1>1, PlacesFinite DEF TypeOK, Places
  <2> DEFINE mid == [at EXCEPT ![h] = at[g]]
  <2>2. Redirected(at, mid, h, at[g])
    BY <2>1 DEF Move, Places, Redirected, TypeOK, Stands
  <2>3. Redirected(mid, at', g, at[h]) /\ mid[g] = at[g]
    BY <2>1, <2>2 DEF Move, Places, Redirected, TypeOK, Stands, Idle
  <2>4. Cardinality(PointingIn(mid, x)) = 
          Cardinality(PointingIn(at, x)) + (IF x = at[g] THEN 1 ELSE 0) - (IF x = at[h] THEN 1 ELSE 0)
    BY <2>1, <2>2, Redirect
  <2>6. Cardinality(PointingIn(mid, x)) \in Nat
    BY PlacesFinite
  <2> HIDE DEF mid
  <2>5. Cardinality(PointingIn(at', x)) = 
          Cardinality(PointingIn(mid, x)) + (IF x = at[h] THEN 1 ELSE 0) - (IF x = at[g] THEN 1 ELSE 0)
    BY <2>1, <2>3, <2>6, Redirect
  <2> QED  BY <2>1, <2>4, <2>5, Counts DEF Move
<1>3. NoDangling'
  BY DEF TypeOK, NoDangling, Doomed, Move, Goto, Uses, Idle, Stands
<1>4. Doomed'
  BY DEF TypeOK, NoDangling, Doomed, Move, Goto, Uses, Idle, Stands
<1>5. Kept'
  BY DEF TypeOK, Kept, Doomed, Move, Goto, Uses, Idle, Stands
<1>6. ASSUME NEW u \in Thread PROVE Stands(u)'
  BY DEF TypeOK, NoDangling, Doomed, Stands, Alone, Move, Goto, Uses, Idle
<1>7. ASSUME NEW u \in Thread PROVE Copied(u)'
  BY DEF TypeOK, NoDangling, Doomed, Stands, Alone, Copied, Move, Goto, Uses, Idle
<1> QED  BY <1>1, <1>2, <1>3, <1>4, <1>5, <1>6, <1>7

LEMMA HandOverPreserves ==
  ASSUME IInv, NEW t \in Thread, NEW h \in Handle, NEW w \in Thread, HandOver(t, h, w)
  PROVE  IInv'
<1> USE SlotKinds DEF IInv
<1>1. TypeOK'
  BY DEF TypeOK, HandOver, Goto, Uses, Idle, Slot
<1>2. RefCounts'
  BY Counts, CountsNext DEF HandOver
<1>3. NoDangling'
  BY DEF TypeOK, NoDangling, Doomed, HandOver, Goto, Uses, Idle, Stands
<1>4. Doomed'
  BY DEF TypeOK, NoDangling, Doomed, HandOver, Goto, Uses, Idle, Stands
<1>5. Kept'
  BY DEF TypeOK, Kept, Doomed, HandOver, Goto, Uses, Idle, Stands
<1>6. ASSUME NEW u \in Thread PROVE Stands(u)'
  BY DEF TypeOK, NoDangling, Doomed, Stands, Alone, HandOver, Goto, Uses, Idle
<1>7. ASSUME NEW u \in Thread PROVE Copied(u)'
  BY DEF TypeOK, NoDangling, Doomed, Stands, Alone, Copied, HandOver, Goto, Uses, Idle
<1> QED  BY <1>1, <1>2, <1>3, <1>4, <1>5, <1>6, <1>7

LEMMA AssignPreserves ==
  ASSUME IInv, NEW t \in Thread, NEW h \in Handle, NEW g \in Handle, Assign(t, h, g)
  PROVE  IInv'
<1> USE SlotKinds DEF IInv
<1>1. TypeOK'
  BY DEF TypeOK, Assign, Goto, Uses, Idle, Slot
<1>2. RefCounts'
  <2> SUFFICES ASSUME NEW x \in alive' PROVE ref'[x] = Cardinality(PointingIn(at', x))
    BY CountsNext
  <2>1. at \in Places /\ x \in Object /\ Cardinality(PointingIn(at, x)) \in Nat
    BY <1>1, PlacesFinite DEF TypeOK, Places
  <2> DEFINE mid == [at EXCEPT ![h] = at[g]]
  <2>2. Redirected(at, mid, h, at[g])
    BY <2>1 DEF Assign, Places, Redirected, TypeOK, Stands
  <2>3. Redirected(mid, at', t, at[h]) /\ mid[t] = Null
    BY <2>1, <2>2 DEF Assign, Places, Redirected, TypeOK, Stands, Idle
  <2>4. Cardinality(PointingIn(mid, x)) = 
          Cardinality(PointingIn(at, x)) + (IF x = at[g] THEN 1 ELSE 0) - (IF x = at[h] THEN 1 ELSE 0)
    BY <2>1, <2>2, Redirect
  <2>6. Cardinality(PointingIn(mid, x)) \in Nat
    BY PlacesFinite
  <2> HIDE DEF mid
  <2>5. Cardinality(PointingIn(at', x)) = Cardinality(PointingIn(mid, x)) + (IF x = at[h] THEN 1 ELSE 0)
    BY <2>1, <2>3, <2>6, Redirect
  <2> QED  BY <2>1, <2>4, <2>5, Counts DEF Assign, TypeOK
<1>3. NoDangling'
  BY DEF TypeOK, NoDangling, Doomed, Assign, Goto, Uses, Idle, Stands
<1>4. Doomed'
  BY DEF TypeOK, NoDangling, Doomed, Assign, Goto, Uses, Idle, Stands
<1>5. Kept'
  BY DEF TypeOK, Kept, Doomed, Assign, Goto, Uses, Idle, Stands
<1>6. ASSUME NEW u \in Thread PROVE Stands(u)'
  BY DEF TypeOK, NoDangling, Doomed, Stands, Alone, Assign, Goto, Uses, Idle
<1>7. ASSUME NEW u \in Thread PROVE Copied(u)'
  BY DEF TypeOK, NoDangling, Doomed, Stands, Alone, Copied, Assign, Goto, Uses, Idle
<1> QED  BY <1>1, <1>2, <1>3, <1>4, <1>5, <1>6, <1>7

LEMMA DestroyPreserves ==
  ASSUME IInv, NEW t \in Thread, NEW h \in Handle, Destroy(t, h)
  PROVE  IInv'
<1> USE SlotKinds DEF IInv
<1>1. TypeOK'
  BY DEF TypeOK, Destroy, Goto, Uses, Idle, Slot
<1>2. RefCounts'
  <2> SUFFICES ASSUME NEW x \in alive' PROVE ref'[x] = Cardinality(PointingIn(at', x))
    BY CountsNext
  <2>1. at \in Places /\ x \in Object /\ Cardinality(PointingIn(at, x)) \in Nat
    BY <1>1, PlacesFinite DEF TypeOK, Places
  <2> DEFINE mid == [at EXCEPT ![h] = Null]
  <2>2. Redirected(at, mid, h, Null)
    BY <2>1 DEF Destroy, Places, Redirected, TypeOK, Stands
  <2>3. Redirected(mid, at', t, at[h]) /\ mid[t] = Null
    BY <2>1, <2>2 DEF Destroy, Places, Redirected, TypeOK, Stands, Idle
  <2>4. Cardinality(PointingIn(mid, x)) = Cardinality(PointingIn(at, x)) - (IF x = at[h] THEN 1 ELSE 0)
    BY <2>1, <2>2, Redirect
  <2>6. Cardinality(PointingIn(mid, x)) \in Nat
    BY PlacesFinite
  <2> HIDE DEF mid
  <2>5. Cardinality(PointingIn(at', x)) = Cardinality(PointingIn(mid, x)) + (IF x = at[h] THEN 1 ELSE 0)
    BY <2>1, <2>3, <2>6, Redirect
  <2> QED  BY <2>1, <2>4, <2>5, Counts DEF Destroy
<1>3. NoDangling'
  BY DEF TypeOK, NoDangling, Doomed, Destroy, Goto, Uses, Idle, Stands
<1>4. Doomed'
  BY DEF TypeOK, NoDangling, Doomed, Destroy, Goto, Uses, Idle, Stands
<1>5. Kept'
  BY DEF TypeOK, Kept, Doomed, Destroy, Goto, Uses, Idle, Stands
<1>6. ASSUME NEW u \in Thread PROVE Stands(u)'
  BY DEF TypeOK, NoDangling, Doomed, Stands, Alone, Destroy, Goto, Uses, Idle
<1>7. ASSUME NEW u \in Thread PROVE Copied(u)'
  BY DEF TypeOK, NoDangling, Doomed, Stands, Alone, Copied, Destroy, Goto, Uses, Idle
<1> QED  BY <1>1, <1>2, <1>3, <1>4, <1>5, <1>6, <1>7

LEMMA DropPreserves ==
  ASSUME IInv, NEW t \in Thread, Drop(t)
  PROVE  IInv'
<1> USE SlotKinds DEF IInv
<1>0. ASSUME at[t] # Null
      PROVE  /\ ref[at[t]] \in Nat \ {0}
             /\ ref[at[t]] = 1 => \A s \in Slot : at[s] = at[t] => s = t
             /\ ref[at[t]] # 1 => \E s \in Slot : at[s] = at[t] /\ s # t
  <2>1. at[t] \in alive /\ t \in PointingIn(at, at[t])
    BY <1>0 DEF NoDangling, PointingIn
  <2> QED  BY <2>1, Counts, CountPositive, CountOne, CountNotOne
<1>1. TypeOK'
  BY <1>0 DEF TypeOK, Drop, Goto
<1>2. RefCounts'
  <2> SUFFICES ASSUME NEW x \in alive' PROVE ref'[x] = Cardinality(PointingIn(at', x))
    BY CountsNext
  <2>1. at \in Places /\ x \in Object /\ Cardinality(PointingIn(at, x)) \in Nat
    BY <1>1, PlacesFinite DEF TypeOK, Places
  <2>2. CASE at[t] = Null
    BY <2>1, <2>2, Counts DEF Drop
  <2>3. CASE at[t] # Null
    <3>1. Cardinality(PointingIn(at', x)) =
            Cardinality(PointingIn(at, x)) - (IF x = at[t] THEN 1 ELSE 0)
      <4>1. Redirected(at, at', t, Null)
        BY <2>1, <2>3 DEF Drop, Redirected
      <4> QED  BY <2>1, <4>1, Redirect
    <3> QED  BY <2>1, <2>3, <3>1, Counts DEF Drop, TypeOK
  <2> QED  BY <2>2, <2>3
<1>3. NoDangling'
  BY DEF TypeOK, NoDangling, Doomed, Drop, Goto, Uses, Idle, Stands
<1>4. Doomed'
  BY <1>0 DEF TypeOK, NoDangling, Doomed, Drop, Goto, Stands
<1>5. Kept'
  BY <1>0 DEF TypeOK, Kept, Doomed, Drop, Stands
<1>6. ASSUME NEW u \in Thread PROVE Stands(u)'
  BY DEF TypeOK, NoDangling, Doomed, Stands, Alone, Drop, Goto, Uses, Idle
<1>7. ASSUME NEW u \in Thread PROVE Copied(u)'
  BY DEF TypeOK, NoDangling, Doomed, Stands, Alone, Copied, Drop, Goto, Uses, Idle
<1> QED  BY <1>1, <1>2, <1>3, <1>4, <1>5, <1>6, <1>7

LEMMA DeletePreserves ==
  ASSUME IInv, NEW t \in Thread, Delete(t)
  PROVE  IInv'
<1> USE SlotKinds DEF IInv
<1>1. TypeOK'
  BY DEF TypeOK, Delete, Goto, Uses, Idle, Slot
<1>2. RefCounts'
  BY Counts, CountsNext DEF Delete
<1>3. NoDangling'
  BY DEF TypeOK, NoDangling, Doomed, Delete, Goto, Uses, Idle, Stands
<1>4. Doomed'
  BY DEF TypeOK, NoDangling, Doomed, Delete, Goto, Uses, Idle, Stands
<1>5. Kept'
  BY DEF TypeOK, Kept, Doomed, Delete, Goto, Uses, Idle, Stands
<1>6. ASSUME NEW u \in Thread PROVE Stands(u)'
  BY DEF TypeOK, NoDangling, Doomed, Stands, Alone, Delete, Goto, Uses, Idle
<1>7. ASSUME NEW u \in Thread PROVE Copied(u)'
  BY DEF TypeOK, NoDangling, Doomed, Stands, Alone, Copied, Delete, Goto, Uses, Idle
<1> QED  BY <1>1, <1>2, <1>3, <1>4, <1>5, <1>6, <1>7

LEMMA DetachPreserves ==
  ASSUME IInv, NEW t \in Thread, NEW h \in Handle, Detach(t, h)
  PROVE  IInv'
<1> USE SlotKinds DEF IInv
<1>1. TypeOK'
  BY DEF TypeOK, Detach, Goto, Uses, Idle, Slot
<1>2. RefCounts'
  BY Counts, CountsNext DEF Detach
<1>3. NoDangling'
  BY DEF TypeOK, NoDangling, Doomed, Detach, Goto, Uses, Idle, Stands
<1>4. Doomed'
  BY DEF TypeOK, NoDangling, Doomed, Detach, Goto, Uses, Idle, Stands
<1>5. Kept'
  BY DEF TypeOK, Kept, Doomed, Detach, Goto, Uses, Idle, Stands
<1>6. ASSUME NEW u \in Thread PROVE Stands(u)'
  <2>1. ref[at[h]] = 1 => \A s \in Slot : at[s] = at[h] => s = h
    <3>1. at[h] \in alive /\ h \in PointingIn(at, at[h])
      BY DEF Detach, NoDangling, PointingIn
    <3> QED  BY <3>1, Counts, CountOne
  <2> QED  BY <2>1 DEF TypeOK, Stands, Alone, Detach, Goto, Uses, Idle
<1>7. ASSUME NEW u \in Thread PROVE Copied(u)'
  BY DEF TypeOK, NoDangling, Doomed, Stands, Alone, Copied, Detach, Goto, Uses, Idle
<1> QED  BY <1>1, <1>2, <1>3, <1>4, <1>5, <1>6, <1>7

LEMMA ClonePreserves ==
  ASSUME IInv, NEW t \in Thread, NEW o \in Object, Clone(t, o)
  PROVE  IInv'
<1> USE SlotKinds DEF IInv
<1>1. TypeOK'
  <2>1. busy[t] \in Handle /\ at[busy[t]] \in Object
    BY DEF Clone, Stands, TypeOK
  <2> QED  BY <2>1 DEF TypeOK, Clone, Goto
<1>2. RefCounts'
  <2> SUFFICES ASSUME NEW x \in alive' PROVE ref'[x] = Cardinality(PointingIn(at', x))
    BY CountsNext
  <2>1. at \in Places /\ x \in Object /\ Cardinality(PointingIn(at, x)) \in Nat
    BY <1>1, PlacesFinite DEF TypeOK, Places
  <2>2. Cardinality(PointingIn(at', x)) =
          Cardinality(PointingIn(at, x)) + (IF x = o THEN 1 ELSE 0)
    <3>1. Redirected(at, at', t, o) /\ at[t] = Null
      BY <2>1 DEF Clone, Stands, Redirected
    <3> QED  BY <2>1, <3>1, Redirect
  <2>3. CASE x = o
    <3>1. PointingIn(at, x) = {}
      BY <2>3 DEF NoDangling, PointingIn, Clone
    <3>2. Cardinality(PointingIn(at', x)) = 1
      BY <2>2, <2>3, <3>1, FS_EmptySet
    <3> QED  BY <2>3, <3>2 DEF Clone, TypeOK
  <2>4. CASE x # o
    <3>1. x \in alive /\ ref'[x] = ref[x]
      BY <2>1, <2>4 DEF Clone, TypeOK
    <3> QED  BY <2>1, <2>2, <2>4, <3>1, Counts
  <2> QED  BY <2>3, <2>4
<1>3. NoDangling'
  BY DEF TypeOK, NoDangling, Doomed, Clone, Goto, Uses, Idle, Stands
<1>4. Doomed'
  BY DEF TypeOK, NoDangling, Doomed, Clone, Goto, Uses, Idle, Stands
<1>5. Kept'
  BY DEF TypeOK, Kept, Doomed, Clone, Goto, Uses, Idle, Stands
<1>6. ASSUME NEW u \in Thread PROVE Stands(u)'
  BY DEF TypeOK, NoDangling, Doomed, Stands, Alone, Clone, Goto, Uses, Idle
<1>7. ASSUME NEW u \in Thread PROVE Copied(u)'
  BY DEF TypeOK, NoDangling, Doomed, Stands, Alone, Copied, Clone, Goto, Uses, Idle
<1> QED  BY <1>1, <1>2, <1>3, <1>4, <1>5, <1>6, <1>7

LEMMA SwitchPreserves ==
  ASSUME IInv, NEW t \in Thread, Switch(t)
  PROVE  IInv'
<1> USE SlotKinds DEF IInv
<1>0. /\ busy[t] \in Handle /\ at[busy[t]] \in alive
      /\ ref[at[busy[t]]] \in Nat \ {0}
      /\ ref[at[busy[t]]] = 1 => \A s \in Slot : at[s] = at[busy[t]] => s = busy[t]
      /\ ref[at[busy[t]]] # 1 => \E s \in Slot : at[s] = at[busy[t]] /\ s # busy[t]
      /\ at[t] # at[busy[t]] /\ at[t] \in alive
  <2>1. busy[t] \in Handle /\ at[busy[t]] # Null
    BY DEF Switch, Stands, TypeOK
  <2>2. at[busy[t]] \in alive /\ busy[t] \in PointingIn(at, at[busy[t]])
    BY <2>1 DEF NoDangling, PointingIn
  <2>3. at[t] # at[busy[t]] /\ at[t] \in alive
    BY <2>1 DEF Switch, Copied, NoDangling
  <2> QED  BY <2>1, <2>2, <2>3, Counts, CountPositive, CountOne, CountNotOne
<1>1. TypeOK'
  BY <1>0 DEF TypeOK, Switch, Goto, Slot
<1>2. RefCounts'
  <2> SUFFICES ASSUME NEW x \in alive' PROVE ref'[x] = Cardinality(PointingIn(at', x))
    BY CountsNext
  <2>1. at \in Places /\ x \in Object /\ Cardinality(PointingIn(at, x)) \in Nat
    BY <1>1, PlacesFinite DEF TypeOK, Places
  <2> DEFINE mid == [at EXCEPT ![busy[t]] = at[t]]
  <2>2. Redirected(at, mid, busy[t], at[t])
    BY <2>1 DEF Switch, Places, Redirected, TypeOK, Stands
  <2>3. Redirected(mid, at', t, Null) /\ mid[t] = at[t]
    BY <2>1, <2>2 DEF Switch, Places, Redirected, TypeOK, Stands, Idle
  <2>4. Cardinality(PointingIn(mid, x)) = 
          Cardinality(PointingIn(at, x)) + (IF x = at[t] THEN 1 ELSE 0) - (IF x = at[busy[t]] THEN 1 ELSE 0)
    BY <2>1, <2>2, Redirect
  <2>6. Cardinality(PointingIn(mid, x)) \in Nat
    BY PlacesFinite
  <2> HIDE DEF mid
  <2>5. Cardinality(PointingIn(at', x)) = Cardinality(PointingIn(mid, x)) - (IF x = at[t] THEN 1 ELSE 0)
    BY <2>1, <2>3, <2>6, Redirect
  <2> QED  BY <2>1, <2>4, <2>5, Counts DEF Switch, TypeOK
<1>3. NoDangling'
  BY DEF TypeOK, NoDangling, Doomed, Switch, Goto, Uses, Idle, Stands
<1>4. Doomed'
  BY <1>0 DEF TypeOK, NoDangling, Doomed, Switch, Goto, Stands
<1>5. Kept'
  BY <1>0 DEF TypeOK, Kept, Doomed, Switch, Stands
<1>6. ASSUME NEW u \in Thread PROVE Stands(u)'
  <2>1. CASE u = t
    BY <1>0, <2>1 DEF TypeOK, Stands, Alone, Copied, Switch, Goto
  <2>2. CASE u # t
    BY <1>0, <2>2 DEF TypeOK, Stands, Alone, Copied, Switch, Goto
  <2> QED  BY <2>1, <2>2
<1>7. ASSUME NEW u \in Thread PROVE Copied(u)'
  BY DEF TypeOK, NoDangling, Doomed, Stands, Alone, Copied, Switch, Goto, Uses, Idle
<1> QED  BY <1>1, <1>2, <1>3, <1>4, <1>5, <1>6, <1>7

LEMMA WritePreserves ==
  ASSUME IInv, NEW t \in Thread, NEW v \in Value, Write(t, v)
  PROVE  IInv'
<1> USE SlotKinds DEF IInv
<1>1. TypeOK'
  BY DEF TypeOK, Write, Goto, Uses, Idle, Slot
<1>2. RefCounts'
  BY Counts, CountsNext DEF Write
<1>3. NoDangling'
  BY DEF TypeOK, NoDangling, Doomed, Write, Goto, Uses, Idle, Stands
<1>4. Doomed'
  BY DEF TypeOK, NoDangling, Doomed, Write, Goto, Uses, Idle, Stands
<1>5. Kept'
  BY DEF TypeOK, Kept, Doomed, Write, Goto, Uses, Idle, Stands
<1>6. ASSUME NEW u \in Thread PROVE Stands(u)'
  BY DEF TypeOK, NoDangling, Doomed, Stands, Alone, Write, Goto, Uses, Idle
<1>7. ASSUME NEW u \in Thread PROVE Copied(u)'
  BY DEF TypeOK, NoDangling, Doomed, Stands, Alone, Copied, Write, Goto, Uses, Idle
<1> QED  BY <1>1, <1>2, <1>3, <1>4, <1>5, <1>6, <1>7

-----------------------------------------------------------------------------
(* The theorems. *)

LEMMA InvariantInit == Init => IInv
<1> SUFFICES ASSUME Init PROVE IInv
  OBVIOUS
<1>1. TypeOK /\ RefCounts /\ NoDangling /\ Doomed /\ Kept
  BY DEF Init, TypeOK, RefCounts, NoDangling, Doomed, Kept
<1>2. \A t \in Thread : Stands(t) /\ Copied(t)
  BY SlotKinds DEF Init, Stands, Copied
<1> QED  BY <1>1, <1>2 DEF IInv

LEMMA InvariantStutters == IInv /\ UNCHANGED vars => IInv'
<1> SUFFICES ASSUME IInv, UNCHANGED vars PROVE IInv'
  OBVIOUS
<1>1. /\ at' = at /\ ref' = ref /\ alive' = alive /\ content' = content
      /\ owner' = owner /\ pc' = pc /\ busy' = busy /\ victim' = victim
  BY DEF vars
<1>2. (TypeOK /\ NoDangling /\ Doomed /\ Kept)'
  BY <1>1 DEF IInv, TypeOK, NoDangling, Doomed, Kept
<1>3. RefCounts'
  BY <1>1, Counts, CountsNext DEF IInv
<1>4. ASSUME NEW t \in Thread PROVE (Stands(t) /\ Copied(t))'
  BY <1>1 DEF IInv, Stands, Alone, Copied
<1> QED  BY <1>2, <1>3, <1>4 DEF IInv

(* The inductive invariant holds in every reachable state, however the       *)
(* threads interleave in the members of shared_data_ptr.                     *)
THEOREM PtrInvariant == Spec => []IInv
<1>1. Init => IInv
  BY InvariantInit
<1>2. IInv /\ [Next]_vars => IInv'
  <2> SUFFICES ASSUME IInv, [Next]_vars PROVE IInv'
    OBVIOUS
  <2>1. CASE UNCHANGED vars
    BY <2>1, InvariantStutters
  <2>2. CASE Next
    <3>1. PICK t \in Thread : Step(t)
      BY <2>2 DEF Next
    <3>2. CASE \E h \in Handle, o \in Object, v \in Value : Create(t, h, o, v)
      BY <3>2, CreatePreserves
    <3>3. CASE \E h, g \in Handle : Copy(t, h, g)
      BY <3>3, CopyPreserves
    <3>4. CASE \E h, g \in Handle : Move(t, h, g)
      BY <3>4, MovePreserves
    <3>5. CASE \E h, g \in Handle : Assign(t, h, g)
      BY <3>5, AssignPreserves
    <3>6. CASE \E h \in Handle, w \in Thread : HandOver(t, h, w)
      BY <3>6, HandOverPreserves
    <3>7. CASE \E h \in Handle : Destroy(t, h)
      BY <3>7, DestroyPreserves
    <3>8. CASE \E h \in Handle : Detach(t, h)
      BY <3>8, DetachPreserves
    <3>9. CASE Drop(t)
      BY <3>9, DropPreserves
    <3>10. CASE Delete(t)
      BY <3>10, DeletePreserves
    <3>11. CASE Switch(t)
      BY <3>11, SwitchPreserves
    <3>12. CASE \E o \in Object : Clone(t, o)
      BY <3>12, ClonePreserves
    <3>13. CASE \E v \in Value : Write(t, v)
      BY <3>13, WritePreserves
    <3> QED  BY <3>1, <3>2, <3>3, <3>4, <3>5, <3>6, <3>7, <3>8, <3>9, <3>10, <3>11, <3>12, <3>13
             DEF Step
  <2> QED  BY <2>1, <2>2
<1> QED  BY <1>1, <1>2, PTL DEF Spec

(* The count of every living object is the number of pointers to it, for any *)
(* number of threads and handles.                                            *)
THEOREM PtrRefCounts == Spec => []RefCounts
<1>1. IInv => RefCounts
  BY DEF IInv
<1> QED  BY <1>1, PtrInvariant, PTL

(* No handle and no running member function points to a deleted object.      *)
THEOREM PtrNoDangling == Spec => []NoDangling
<1>1. IInv => NoDangling
  BY DEF IInv
<1> QED  BY <1>1, PtrInvariant, PTL

(* However detaches, assignments and destructors of one object race, one     *)
(* thread deletes it, once, and after the last pointer is gone.              *)
THEOREM PtrOneDeleter == Spec => []OneDeleter
<1>1. IInv => OneDeleter
  BY DEF IInv, Doomed, OneDeleter, Pointing
<1> QED  BY <1>1, PtrInvariant, PTL

(* No interleaving leaves an object without a pointer and without a thread   *)
(* that deletes it.                                                          *)
THEOREM PtrNoLeak == Spec => []NoLeak
<1>1. IInv => NoLeak
  BY DEF IInv, Kept, NoLeak, Pointing
<1> QED  BY <1>1, PtrInvariant, PTL

(* A thread that detach sends on to its write is alone with the object.      *)
THEOREM PtrWritesAlone == Spec => []WritesAlone
<1>1. ASSUME IInv PROVE WritesAlone
  <2> SUFFICES ASSUME NEW t \in Thread, pc[t] = "write"
               PROVE  Pointing(at[busy[t]]) = {busy[t]}
    BY DEF WritesAlone
  <2>1. busy[t] \in Slot /\ Alone(t)
    BY <1>1, SlotKinds DEF IInv, TypeOK, Stands
  <2> QED  BY <2>1 DEF Alone, Pointing
<1> QED  BY <1>1, PtrInvariant, PTL

(* The variables keep their types; in particular a count never goes below    *)
(* zero, which in the code would be a wrap to the largest size_t.            *)
THEOREM PtrTypes == Spec => []TypeOK
<1>1. IInv => TypeOK
  BY DEF IInv
<1> QED  BY <1>1, PtrInvariant, PTL

-----------------------------------------------------------------------------
(* The handles behave as values. *)

Vals == [h \in Handle |-> ValueOf(h)]

(* A step that leaves every handle's value, seen pointwise, is a stutter.    *)
LEMMA SameValues ==
  ASSUME \A h \in Handle : ValueOf(h)' = ValueOf(h)
  PROVE  Vals' = Vals
BY DEF Vals

(* A step that changes the value of one handle is the assignment of it.      *)
LEMMA OneValue ==
  ASSUME NEW h \in Handle, NEW v, ValueOf(h)' = v,
         \A x \in Handle : x # h => ValueOf(x)' = ValueOf(x)
  PROVE  Vals' = [Vals EXCEPT ![h] = v]
BY DEF Vals

LEMMA ValueStep ==
  ASSUME IInv, NEW t \in Thread, Step(t)
  PROVE  AsValues!Next \/ Vals' = Vals
<1> USE SlotKinds, PtrAssumption DEF IInv
<1>1. ASSUME NEW h \in Handle, NEW o \in Object, NEW v \in Value, Create(t, h, o, v)
      PROVE  AsValues!Create(h, v)
  <2>1. ValueOf(h) = None /\ ValueOf(h)' = v
    BY <1>1 DEF Create, ValueOf, TypeOK
  <2>2. \A x \in Handle : x # h => ValueOf(x)' = ValueOf(x)
    BY <1>1 DEF Create, ValueOf, TypeOK, NoDangling
  <2> QED  BY <2>1, <2>2, OneValue DEF AsValues!Create, Vals
<1>2. ASSUME NEW h \in Handle, NEW g \in Handle, Copy(t, h, g) \/ Assign(t, h, g)
      PROVE  AsValues!Copy(h, g)
  <2>1. ValueOf(h)' = ValueOf(g)
    BY <1>2 DEF Copy, Assign, ValueOf, TypeOK
  <2>2. \A x \in Handle : x # h => ValueOf(x)' = ValueOf(x)
    BY <1>2 DEF Copy, Assign, ValueOf, TypeOK
  <2> QED  BY <2>1, <2>2, OneValue DEF AsValues!Copy, Vals
<1>3. ASSUME NEW h \in Handle, NEW g \in Handle, Move(t, h, g)
      PROVE  AsValues!Exchange(h, g)
  <2>1. ValueOf(h)' = ValueOf(g) /\ ValueOf(g)' = ValueOf(h)
    BY <1>3 DEF Move, ValueOf, TypeOK
  <2>2. \A x \in Handle : x \notin {h, g} => ValueOf(x)' = ValueOf(x)
    BY <1>3 DEF Move, ValueOf, TypeOK
  <2>3. Vals' = [Vals EXCEPT ![h] = Vals[g], ![g] = Vals[h]]
    BY <2>1, <2>2 DEF Vals
  <2> QED  BY <2>3 DEF AsValues!Exchange, Vals
<1>4. ASSUME NEW h \in Handle, Destroy(t, h)
      PROVE  AsValues!Destroy(h)
  <2>1. ValueOf(h)' = None
    BY <1>4 DEF Destroy, ValueOf, TypeOK
  <2>2. \A x \in Handle : x # h => ValueOf(x)' = ValueOf(x)
    BY <1>4 DEF Destroy, ValueOf, TypeOK
  <2> QED  BY <2>1, <2>2, OneValue DEF AsValues!Destroy, Vals
<1>5. ASSUME NEW v \in Value, Write(t, v), NEW h \in Handle, busy[t] = h
      PROVE  AsValues!Write(h, v)
  <2>1. at[h] \in Object /\ \A x \in Handle : x # h => at[x] # at[h]
    BY <1>5 DEF Write, Stands, TypeOK, Alone
  <2>2. ValueOf(h) # None /\ ValueOf(h)' = v
    BY <1>5, <2>1 DEF Write, ValueOf, TypeOK
  <2>3. \A x \in Handle : x # h => ValueOf(x)' = ValueOf(x)
    BY <1>5, <2>1 DEF Write, ValueOf, TypeOK
  <2> QED  BY <2>1, <2>2, <2>3, OneValue DEF AsValues!Write, Vals
<1>6. ASSUME NEW o \in Object, Clone(t, o)
      PROVE  Vals' = Vals
  <2>1. \A x \in Handle : ValueOf(x)' = ValueOf(x)
    BY <1>6 DEF Clone, ValueOf, TypeOK, NoDangling
  <2> QED  BY <2>1, SameValues
<1>7. ASSUME Switch(t)
      PROVE  Vals' = Vals
  <2>1. busy[t] \in Handle /\ at[busy[t]] # Null
    BY <1>7 DEF Switch, Stands, TypeOK
  <2>2. at[t] # Null /\ content[at[t]] = content[at[busy[t]]]
    BY <1>7 DEF Switch, Copied
  <2>3. \A x \in Handle : ValueOf(x)' = ValueOf(x)
    BY <1>7, <2>1, <2>2 DEF Switch, ValueOf, TypeOK
  <2> QED  BY <2>3, SameValues
<1>8. ASSUME \/ \E h \in Handle, w \in Thread : HandOver(t, h, w)
             \/ \E h \in Handle : Detach(t, h)
             \/ Drop(t)
             \/ Delete(t)
      PROVE  Vals' = Vals
  <2>1. \A x \in Handle : ValueOf(x)' = ValueOf(x)
    BY <1>8 DEF HandOver, Detach, Drop, Delete, ValueOf, TypeOK
  <2> QED  BY <2>1, SameValues
<1>9. CASE \E h \in Handle, o \in Object, v \in Value : Create(t, h, o, v)
  BY <1>1, <1>9 DEF AsValues!Next
<1>10. CASE \E h, g \in Handle : Copy(t, h, g) \/ Assign(t, h, g)
  BY <1>2, <1>10 DEF AsValues!Next
<1>11. CASE \E h, g \in Handle : Move(t, h, g)
  BY <1>3, <1>11 DEF AsValues!Next
<1>12. CASE \E h \in Handle : Destroy(t, h)
  BY <1>4, <1>12 DEF AsValues!Next
<1>13. CASE \E v \in Value : Write(t, v)
  <2>1. busy[t] \in Handle
    BY <1>13 DEF Write, Stands, TypeOK
  <2> QED  BY <1>5, <1>13, <2>1 DEF AsValues!Next
<1> QED  BY <1>6, <1>7, <1>8, <1>9, <1>10, <1>11, <1>12, <1>13 DEF Step

(* Copy on write with an atomic count is invisible: every behaviour of the   *)
(* pointers is one of plain values, for any number of threads.               *)
THEOREM PtrIsValue == Spec => ImplementsValues
<1>1. Init => AsValues!Init
  <2> SUFFICES ASSUME Init PROVE Vals = [h \in Handle |-> None]
    BY DEF AsValues!Init, Vals
  <2>1. \A h \in Handle : ValueOf(h) = None
    BY SlotKinds DEF Init, ValueOf
  <2> QED  BY <2>1 DEF Vals
<1>2. IInv /\ [Next]_vars => [AsValues!Next]_Vals
  <2> SUFFICES ASSUME IInv, [Next]_vars PROVE AsValues!Next \/ Vals' = Vals
    OBVIOUS
  <2>1. CASE UNCHANGED vars
    BY <2>1 DEF vars, Vals, ValueOf
  <2>2. CASE Next
    BY <2>2, ValueStep DEF Next
  <2> QED  BY <2>1, <2>2
<1> QED  BY <1>1, <1>2, PtrInvariant, PTL DEF Spec, ImplementsValues, AsValues!Spec, Vals

=============================================================================
