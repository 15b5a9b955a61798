----------------------------- MODULE Storage_proof -----------------------------
(* Proofs about a storage handle and the scan its open() makes, for every    *)
(* set of hashes, every forest of blocks, any number of databases, crashes,  *)
(* I/O errors and damaged entries.                                           *)
(*   The scan: the partial chains of heads_t partition the blocks read so    *)
(* far, from which the asserts of update_heads_and_tails and the verdict of  *)
(* rescan follow.                                                            *)
(*   The handle, in layers: what the handle and the scan in progress are     *)
(* (StorageFrame), what was counted (CountsKept), the chain below last_hash  *)
(* (TipKept), and what more holds of clients that heed open() (HeedKept) and *)
(* of those that append to last_hash() (AppendKept).                         *)
EXTENDS Storage, FiniteSetTheorems, TLAPS

(***************************************************************************)
(* The scan of a database.                                                 *)
(***************************************************************************)
(* A block that was seen to be missing is remembered until it is read.       *)
MissingAreTails == \A b \in Seen : prev[b] \in todo => prev[b] \in DOMAIN tails

(* The part of the invariant that the fold over the entries maintains.       *)
Chains ==
  /\ TailsNameHeads
  /\ HeadsAreLeaves
  /\ ChainsPartition
  /\ MissingAreTails

(* The types of what the fold works on.                                      *)
MapTypes ==
  /\ DOMAIN heads \subseteq Hash
  /\ \A h \in DOMAIN heads : heads[h] \in [len : Nat, next : HashOrNone]
  /\ DOMAIN tails \subseteq Hash
  /\ \A x \in DOMAIN tails : tails[x] \in Hash

FoldTypes ==
  /\ prev \in Forests
  /\ snapshot \in Contents
  /\ todo \subseteq DOMAIN snapshot
  /\ MapTypes

-----------------------------------------------------------------------------
(* What a step of the fold works on: the least unread key, a sound block.    *)
EntryOf(cur) ==
  /\ FoldTypes
  /\ Chains
  /\ cur \in todo
  /\ UpdateHeadsAndTails(cur, prev[cur])
  /\ todo' = todo \ {cur}
  /\ UNCHANGED <<prev, snapshot>>

LEMMA Scope ==
  ASSUME FoldTypes
  PROVE  /\ Seen \subseteq Hash /\ todo \subseteq Hash /\ Seen \cap todo = {}
         /\ prev \in [Hash -> HashOrNone]
         /\ NoHash \notin Hash
         /\ \A b \in Hash : prev[b] # b
<1>1. \A b \in Hash : prev[b] # b
  <2> SUFFICES ASSUME NEW b \in Hash PROVE prev[b] # b
    OBVIOUS
  <2>1. {b} \in SUBSET Hash /\ {b} # {}
    OBVIOUS
  <2>2. \E h \in {b} : prev[h] \notin {b}
    BY <2>1, Zenon DEF FoldTypes, Forests, Acyclic
  <2> QED  BY <2>2
<1>2. DOMAIN snapshot \subseteq Hash
  BY DEF FoldTypes, Contents
<1> QED  BY <1>1, <1>2, NoHashAssumption DEF FoldTypes, Forests, Seen

LEMMA NewSeen ==
  ASSUME NEW cur, EntryOf(cur)
  PROVE  Seen' = Seen \cup {cur} /\ cur \in Hash /\ cur \notin Seen
BY DEF EntryOf, Seen, FoldTypes, Contents

(* A chain never waits for a block that is to be put on top of it: with that *)
(* block its blocks would be closed under prev.                              *)
LEMMA NoCycle ==
  ASSUME NEW cur, EntryOf(cur), NEW own, OwnedBy(own), prev[cur] \in DOMAIN heads
  PROVE  heads[prev[cur]].next # cur
<1> DEFINE S == {b \in Seen : own[b] = prev[cur]} \cup {cur}
<1> SUFFICES ASSUME heads[prev[cur]].next = cur PROVE FALSE
  OBVIOUS
<1>1. FoldTypes /\ HeadsAreLeaves
  BY DEF EntryOf, Chains
<1>2. S \in SUBSET Hash /\ S # {}
  BY <1>1, Scope, NewSeen
<1>3. PICK h \in S : prev[h] \notin S
  BY <1>1, <1>2, Zenon DEF FoldTypes, Forests, Acyclic
<1>4. CASE h = cur
  BY <1>1, <1>3, <1>4 DEF OwnedBy, HeadsAreLeaves
<1>5. CASE h # cur
  BY <1>3, <1>5 DEF OwnedBy
<1> QED  BY <1>4, <1>5
-----------------------------------------------------------------------------
(* What each branch of update_heads_and_tails leaves in the two maps.        *)

GlueEffect(cur, p, t, below) ==
  /\ t \in DOMAIN heads /\ heads[t].next = cur /\ t # p
  /\ below # cur /\ below \in HashOrNone
  /\ DOMAIN heads' = DOMAIN heads \ {p}
  /\ heads'[t] = [len |-> heads[t].len + 1 + heads[p].len, next |-> below]
  /\ \A h \in DOMAIN heads \ {p, t} : heads'[h] = heads[h]
  /\ DOMAIN tails' = (DOMAIN tails \cup ({below} \ {NoHash})) \ {cur}
  /\ \A x \in DOMAIN tails' : tails'[x] = IF x = below THEN t ELSE tails[x]

PutOnTopEffect(cur, p, below) ==
  /\ cur \notin DOMAIN heads
  /\ below # cur /\ below \in HashOrNone
  /\ DOMAIN heads' = (DOMAIN heads \ {p}) \cup {cur}
  /\ heads'[cur] = [len |-> heads[p].len + 1, next |-> below]
  /\ \A h \in DOMAIN heads \ {p} : heads'[h] = heads[h]
  /\ DOMAIN tails' = DOMAIN tails \cup ({below} \ {NoHash})
  /\ \A x \in DOMAIN tails' : tails'[x] = IF x = below THEN cur ELSE tails[x]

PutBelowEffect(cur, p, t) ==
  /\ t \in DOMAIN heads /\ heads[t].next = cur
  /\ p # cur /\ p \in HashOrNone
  /\ DOMAIN heads' = DOMAIN heads
  /\ heads'[t] = [len |-> heads[t].len + 1, next |-> p]
  /\ \A h \in DOMAIN heads \ {t} : heads'[h] = heads[h]
  /\ DOMAIN tails' = (DOMAIN tails \cup ({p} \ {NoHash})) \ {cur}
  /\ \A x \in DOMAIN tails' :
       tails'[x] = IF x \in DOMAIN tails THEN tails[x] ELSE t

PutApartEffect(cur, p) ==
  /\ cur \notin DOMAIN heads
  /\ p # cur /\ p \in HashOrNone
  /\ DOMAIN heads' = DOMAIN heads \cup {cur}
  /\ heads'[cur] = [len |-> 1, next |-> p]
  /\ \A h \in DOMAIN heads : heads'[h] = heads[h]
  /\ DOMAIN tails' = DOMAIN tails \cup ({p} \ {NoHash})
  /\ \A x \in DOMAIN tails' :
       tails'[x] = IF x \in DOMAIN tails THEN tails[x] ELSE cur

LEMMA GlueMaps ==
  ASSUME NEW cur, EntryOf(cur), NEW own, OwnedBy(own),
         prev[cur] \in DOMAIN heads, cur \in DOMAIN tails, Glue(cur, prev[cur])
  PROVE  GlueEffect(cur, prev[cur], tails[cur], heads[prev[cur]].next)
<1> DEFINE p == prev[cur]
           t == tails[cur]
           below == heads[p].next
<1>1. FoldTypes /\ TailsNameHeads
  BY DEF EntryOf, Chains
<1>2. t \in DOMAIN heads /\ heads[t].next = cur
  BY <1>1 DEF TailsNameHeads
<1>3. below # cur
  BY NoCycle
<1>4. below \in HashOrNone
  BY <1>1 DEF FoldTypes, MapTypes
<1>5. /\ DOMAIN heads' = DOMAIN heads \ {p}
      /\ heads'[t] = [len |-> heads[t].len + 1 + heads[p].len, next |-> below]
      /\ \A h \in DOMAIN heads \ {p, t} : heads'[h] = heads[h]
  BY <1>2, <1>3 DEF Glue, Erase, Assign, HeadInfo
<1>6. /\ DOMAIN tails' = (DOMAIN tails \cup ({below} \ {NoHash})) \ {cur}
      /\ \A x \in DOMAIN tails' : tails'[x] = IF x = below THEN t ELSE tails[x]
  <2>1. CASE below = NoHash
    <3>1. NoHash \notin DOMAIN tails
      BY <1>1, NoHashAssumption DEF FoldTypes, MapTypes
    <3> QED  BY <2>1, <3>1 DEF Glue, Erase
  <2>2. CASE below # NoHash
    BY <2>2 DEF Glue, Erase, Assign
  <2> QED  BY <2>1, <2>2
<1> QED  BY <1>2, <1>3, <1>4, <1>5, <1>6 DEF GlueEffect

LEMMA PutOnTopMaps ==
  ASSUME NEW cur, EntryOf(cur), NEW own, OwnedBy(own),
         prev[cur] \in DOMAIN heads, cur \notin DOMAIN tails, PutOnTop(cur, prev[cur])
  PROVE  PutOnTopEffect(cur, prev[cur], heads[prev[cur]].next)
<1> DEFINE p == prev[cur]
           below == heads[p].next
<1>1. FoldTypes /\ TailsNameHeads
  BY DEF EntryOf, Chains
<1>2. cur \notin DOMAIN heads
  BY <1>1 DEF EntryOf, TailsNameHeads
<1>3. below # cur
  BY NoCycle
<1>4. below \in HashOrNone
  BY <1>1 DEF FoldTypes, MapTypes
<1>5. /\ DOMAIN heads' = (DOMAIN heads \ {p}) \cup {cur}
      /\ heads'[cur] = [len |-> heads[p].len + 1, next |-> below]
      /\ \A h \in DOMAIN heads \ {p} : heads'[h] = heads[h]
  BY <1>2 DEF PutOnTop, Erase, Emplace, Assign
<1>6. /\ DOMAIN tails' = DOMAIN tails \cup ({below} \ {NoHash})
      /\ \A x \in DOMAIN tails' : tails'[x] = IF x = below THEN cur ELSE tails[x]
  <2>1. CASE below = NoHash
    <3>1. NoHash \notin DOMAIN tails
      BY <1>1, NoHashAssumption DEF FoldTypes, MapTypes
    <3> QED  BY <2>1, <3>1 DEF PutOnTop
  <2>2. CASE below # NoHash
    BY <2>2 DEF PutOnTop, Assign
  <2> QED  BY <2>1, <2>2
<1> QED  BY <1>2, <1>3, <1>4, <1>5, <1>6 DEF PutOnTopEffect

LEMMA PutBelowMaps ==
  ASSUME NEW cur, EntryOf(cur),
         prev[cur] \notin DOMAIN heads, cur \in DOMAIN tails, PutBelow(cur, prev[cur])
  PROVE  PutBelowEffect(cur, prev[cur], tails[cur])
<1> DEFINE p == prev[cur]
           t == tails[cur]
<1>1. FoldTypes /\ TailsNameHeads
  BY DEF EntryOf, Chains
<1>2. t \in DOMAIN heads /\ heads[t].next = cur
  BY <1>1 DEF TailsNameHeads
<1>3. p # cur /\ p \in HashOrNone
  BY <1>1, Scope, NewSeen
<1>4. /\ DOMAIN heads' = DOMAIN heads
      /\ heads'[t] = [len |-> heads[t].len + 1, next |-> p]
      /\ \A h \in DOMAIN heads \ {t} : heads'[h] = heads[h]
  BY <1>2 DEF PutBelow, Assign, HeadInfo
<1>5. /\ DOMAIN tails' = (DOMAIN tails \cup ({p} \ {NoHash})) \ {cur}
      /\ \A x \in DOMAIN tails' : tails'[x] = IF x \in DOMAIN tails THEN tails[x] ELSE t
  <2>1. CASE p = NoHash
    BY <2>1 DEF PutBelow, Erase
  <2>2. CASE p # NoHash
    BY <2>2 DEF PutBelow, Erase, Emplace, Assign
  <2> QED  BY <2>1, <2>2
<1> QED  BY <1>2, <1>3, <1>4, <1>5 DEF PutBelowEffect

LEMMA PutApartMaps ==
  ASSUME NEW cur, EntryOf(cur),
         prev[cur] \notin DOMAIN heads, cur \notin DOMAIN tails, PutApart(cur, prev[cur])
  PROVE  PutApartEffect(cur, prev[cur])
<1> DEFINE p == prev[cur]
<1>1. FoldTypes /\ TailsNameHeads
  BY DEF EntryOf, Chains
<1>2. cur \notin DOMAIN heads
  BY <1>1 DEF EntryOf, TailsNameHeads
<1>3. p # cur /\ p \in HashOrNone
  BY <1>1, Scope, NewSeen
<1>4. /\ DOMAIN heads' = DOMAIN heads \cup {cur}
      /\ heads'[cur] = [len |-> 1, next |-> p]
      /\ \A h \in DOMAIN heads : heads'[h] = heads[h]
  BY <1>2 DEF PutApart, Emplace, Assign
<1>5. /\ DOMAIN tails' = DOMAIN tails \cup ({p} \ {NoHash})
      /\ \A x \in DOMAIN tails' : tails'[x] = IF x \in DOMAIN tails THEN tails[x] ELSE cur
  <2>1. CASE p = NoHash
    BY <2>1 DEF PutApart
  <2>2. CASE p # NoHash
    BY <2>2 DEF PutApart, Emplace, Assign
  <2> QED  BY <2>1, <2>2
<1> QED  BY <1>2, <1>3, <1>4, <1>5 DEF PutApartEffect
-----------------------------------------------------------------------------
(* Each branch keeps the partition.  newOwn is the owner function after it.  *)

LEMMA GlueKeepsChains ==
  ASSUME NEW cur, EntryOf(cur), prev[cur] \in DOMAIN heads, cur \in DOMAIN tails,
         Glue(cur, prev[cur])
  PROVE  Chains'
<1> PICK own \in [Seen -> DOMAIN heads] : OwnedBy(own)
  BY DEF EntryOf, Chains, ChainsPartition
<1> DEFINE p == prev[cur]
           t == tails[cur]
           below == heads[p].next
<1> PICK newOwn : newOwn = [b \in Seen \cup {cur} |-> IF b = cur \/ own[b] = p THEN t ELSE own[b]]
  OBVIOUS
<1>1. FoldTypes /\ TailsNameHeads /\ HeadsAreLeaves /\ MissingAreTails
  BY DEF EntryOf, Chains
<1>2. /\ Seen' = Seen \cup {cur} /\ cur \in Hash /\ cur \notin Seen
      /\ todo' = todo \ {cur} /\ cur \in todo /\ prev' = prev
      /\ Seen \subseteq Hash /\ todo \subseteq Hash /\ Seen \cap todo = {}
      /\ NoHash \notin Hash /\ DOMAIN heads \subseteq Seen
  BY <1>1, NewSeen, Scope DEF HeadsAreLeaves, EntryOf
<1>3. p \in DOMAIN heads /\ GlueEffect(cur, p, t, below)
  BY GlueMaps
<1>4. TailsNameHeads'
  BY <1>1, <1>2, <1>3 DEF TailsNameHeads, GlueEffect
<1>5. PICK c \in Seen : own[c] = t /\ prev[c] = cur
  BY <1>3 DEF OwnedBy, GlueEffect
<1>6. HeadsAreLeaves'
  BY <1>1, <1>2, <1>3, <1>5 DEF HeadsAreLeaves, IsLeaf, GlueEffect
<1>7. ChainsPartition'
  <2>1. newOwn \in [Seen' -> DOMAIN heads']
    BY <1>2, <1>3 DEF GlueEffect
  <2>2. (\A h \in DOMAIN heads : newOwn[h] = h)'
    BY <1>2, <1>3 DEF OwnedBy, GlueEffect
  <2>3. (\A b \in Seen : \/ prev[b] \in Seen /\ newOwn[prev[b]] = newOwn[b]
                         \/ prev[b] = heads[newOwn[b]].next)'
    <3> SUFFICES ASSUME NEW b \in Seen'
                 PROVE  \/ prev[b] \in Seen' /\ newOwn[prev[b]] = newOwn[b]
                        \/ prev[b] = heads'[newOwn[b]].next
      BY <1>2
    <3>1. CASE b = cur
      BY <1>2, <1>3, <3>1 DEF OwnedBy, GlueEffect
    <3>2. CASE b # cur /\ own[b] = p
      BY <1>2, <1>3, <3>2 DEF OwnedBy, GlueEffect
    <3>3. CASE b # cur /\ own[b] = t
      BY <1>2, <1>3, <3>3 DEF OwnedBy, GlueEffect
    <3>4. CASE b # cur /\ own[b] # p /\ own[b] # t
      BY <1>2, <1>3, <3>4 DEF OwnedBy, GlueEffect
    <3> QED  BY <3>1, <3>2, <3>3, <3>4
  <2>4. (\A h \in DOMAIN heads : \E b \in Seen : newOwn[b] = h /\ prev[b] = heads[h].next)'
    BY <1>2, <1>3 DEF OwnedBy, GlueEffect
  <2>5. (\A b, d \in FirstBlocks(Seen) : newOwn[b] = newOwn[d] => b = d)'
    BY <1>2, <1>3 DEF OwnedBy, FirstBlocks, GlueEffect
  <2>6. OwnedBy(newOwn)'
    BY <2>2, <2>3, <2>4, <2>5 DEF OwnedBy
  <2> QED  BY <2>1, <2>6 DEF ChainsPartition
<1>8. MissingAreTails'
  BY <1>1, <1>2, <1>3 DEF MissingAreTails, GlueEffect
<1> QED  BY <1>4, <1>6, <1>7, <1>8 DEF Chains

LEMMA PutOnTopKeepsChains ==
  ASSUME NEW cur, EntryOf(cur), prev[cur] \in DOMAIN heads, cur \notin DOMAIN tails,
         PutOnTop(cur, prev[cur])
  PROVE  Chains'
<1> PICK own \in [Seen -> DOMAIN heads] : OwnedBy(own)
  BY DEF EntryOf, Chains, ChainsPartition
<1> DEFINE p == prev[cur]
           below == heads[p].next
<1> PICK newOwn : newOwn = [b \in Seen \cup {cur} |-> IF b = cur \/ own[b] = p THEN cur ELSE own[b]]
  OBVIOUS
<1>1. FoldTypes /\ TailsNameHeads /\ HeadsAreLeaves /\ MissingAreTails
  BY DEF EntryOf, Chains
<1>2. /\ Seen' = Seen \cup {cur} /\ cur \in Hash /\ cur \notin Seen
      /\ todo' = todo \ {cur} /\ cur \in todo /\ prev' = prev
      /\ Seen \subseteq Hash /\ todo \subseteq Hash /\ Seen \cap todo = {}
      /\ NoHash \notin Hash /\ DOMAIN heads \subseteq Seen
  BY <1>1, NewSeen, Scope DEF HeadsAreLeaves, EntryOf
<1>3. p \in DOMAIN heads /\ PutOnTopEffect(cur, p, below) /\ cur \notin DOMAIN tails
  BY PutOnTopMaps
<1>4. TailsNameHeads'
  BY <1>1, <1>2, <1>3 DEF TailsNameHeads, PutOnTopEffect
<1>5. \A b \in Seen : prev[b] # cur
  BY <1>1, <1>2, <1>3 DEF MissingAreTails
<1>5a. prev[cur] # cur
  BY <1>1, <1>2, Scope
<1>6. HeadsAreLeaves'
  BY <1>1, <1>2, <1>3, <1>5, <1>5a DEF HeadsAreLeaves, IsLeaf, PutOnTopEffect
<1>7. ChainsPartition'
  <2>1. newOwn \in [Seen' -> DOMAIN heads']
    BY <1>2, <1>3 DEF PutOnTopEffect
  <2>2. (\A h \in DOMAIN heads : newOwn[h] = h)'
    BY <1>2, <1>3 DEF OwnedBy, PutOnTopEffect
  <2>3. (\A b \in Seen : \/ prev[b] \in Seen /\ newOwn[prev[b]] = newOwn[b]
                         \/ prev[b] = heads[newOwn[b]].next)'
    <3> SUFFICES ASSUME NEW b \in Seen'
                 PROVE  \/ prev[b] \in Seen' /\ newOwn[prev[b]] = newOwn[b]
                        \/ prev[b] = heads'[newOwn[b]].next
      BY <1>2
    <3>1. CASE b = cur
      BY <1>2, <1>3, <3>1 DEF OwnedBy, PutOnTopEffect
    <3>2. CASE b # cur /\ own[b] = p
      BY <1>2, <1>3, <3>2 DEF OwnedBy, PutOnTopEffect
    <3>3. CASE b # cur /\ own[b] # p
      BY <1>2, <1>3, <3>3 DEF OwnedBy, PutOnTopEffect
    <3> QED  BY <3>1, <3>2, <3>3
  <2>4. (\A h \in DOMAIN heads : \E b \in Seen : newOwn[b] = h /\ prev[b] = heads[h].next)'
    <3> SUFFICES ASSUME NEW h \in DOMAIN heads'
                 PROVE  \E b \in Seen' : newOwn[b] = h /\ prev[b] = heads'[h].next
      BY <1>2
    <3>1. CASE h = cur
      <4>1. PICK b \in Seen : own[b] = p /\ prev[b] = heads[p].next
        BY <1>3 DEF OwnedBy
      <4> QED  BY <1>2, <1>3, <3>1, <4>1 DEF PutOnTopEffect
    <3>2. CASE h # cur
      <4>1. PICK b \in Seen : own[b] = h /\ prev[b] = heads[h].next
        BY <1>3, <3>2 DEF OwnedBy, PutOnTopEffect
      <4> QED  BY <1>2, <1>3, <3>2, <4>1 DEF PutOnTopEffect
    <3> QED  BY <3>1, <3>2
  <2>5. (\A b, d \in FirstBlocks(Seen) : newOwn[b] = newOwn[d] => b = d)'
    BY <1>2, <1>3 DEF OwnedBy, FirstBlocks, PutOnTopEffect
  <2>6. OwnedBy(newOwn)'
    BY <2>2, <2>3, <2>4, <2>5 DEF OwnedBy
  <2> QED  BY <2>1, <2>6 DEF ChainsPartition
<1>8. MissingAreTails'
  BY <1>1, <1>2, <1>3 DEF MissingAreTails, PutOnTopEffect
<1> QED  BY <1>4, <1>6, <1>7, <1>8 DEF Chains

LEMMA PutBelowKeepsChains ==
  ASSUME NEW cur, EntryOf(cur), prev[cur] \notin DOMAIN heads, cur \in DOMAIN tails,
         PutBelow(cur, prev[cur])
  PROVE  Chains'
<1> PICK own \in [Seen -> DOMAIN heads] : OwnedBy(own)
  BY DEF EntryOf, Chains, ChainsPartition
<1> DEFINE p == prev[cur]
           t == tails[cur]
<1> PICK newOwn : newOwn = [b \in Seen \cup {cur} |-> IF b = cur THEN t ELSE own[b]]
  OBVIOUS
<1>1. FoldTypes /\ TailsNameHeads /\ HeadsAreLeaves /\ MissingAreTails
  BY DEF EntryOf, Chains
<1>2. /\ Seen' = Seen \cup {cur} /\ cur \in Hash /\ cur \notin Seen
      /\ todo' = todo \ {cur} /\ cur \in todo /\ prev' = prev
      /\ Seen \subseteq Hash /\ todo \subseteq Hash /\ Seen \cap todo = {}
      /\ NoHash \notin Hash /\ DOMAIN heads \subseteq Seen
  BY <1>1, NewSeen, Scope DEF HeadsAreLeaves, EntryOf
<1>3. p \notin DOMAIN heads /\ PutBelowEffect(cur, p, t)
  BY PutBelowMaps
<1>4. TailsNameHeads'
  BY <1>1, <1>2, <1>3 DEF TailsNameHeads, PutBelowEffect
<1>5. PICK c \in Seen : own[c] = t /\ prev[c] = cur
  BY <1>3 DEF OwnedBy, PutBelowEffect
<1>6. HeadsAreLeaves'
  BY <1>1, <1>2, <1>3, <1>5 DEF HeadsAreLeaves, IsLeaf, PutBelowEffect
<1>7. ChainsPartition'
  <2>1. newOwn \in [Seen' -> DOMAIN heads']
    BY <1>2, <1>3 DEF PutBelowEffect
  <2>2. (\A h \in DOMAIN heads : newOwn[h] = h)'
    BY <1>2, <1>3 DEF OwnedBy, PutBelowEffect
  <2>3. (\A b \in Seen : \/ prev[b] \in Seen /\ newOwn[prev[b]] = newOwn[b]
                         \/ prev[b] = heads[newOwn[b]].next)'
    <3> SUFFICES ASSUME NEW b \in Seen'
                 PROVE  \/ prev[b] \in Seen' /\ newOwn[prev[b]] = newOwn[b]
                        \/ prev[b] = heads'[newOwn[b]].next
      BY <1>2
    <3>1. CASE b = cur
      BY <1>2, <1>3, <3>1 DEF OwnedBy, PutBelowEffect
    <3>2. CASE b # cur /\ own[b] = t
      BY <1>2, <1>3, <3>2 DEF OwnedBy, PutBelowEffect
    <3>3. CASE b # cur /\ own[b] # t
      BY <1>2, <1>3, <3>3 DEF OwnedBy, PutBelowEffect
    <3> QED  BY <3>1, <3>2, <3>3
  <2>4. (\A h \in DOMAIN heads : \E b \in Seen : newOwn[b] = h /\ prev[b] = heads[h].next)'
    BY <1>2, <1>3 DEF OwnedBy, PutBelowEffect
  <2>5. (\A b, d \in FirstBlocks(Seen) : newOwn[b] = newOwn[d] => b = d)'
    BY <1>2, <1>3 DEF OwnedBy, FirstBlocks, PutBelowEffect
  <2>6. OwnedBy(newOwn)'
    BY <2>2, <2>3, <2>4, <2>5 DEF OwnedBy
  <2> QED  BY <2>1, <2>6 DEF ChainsPartition
<1>8. MissingAreTails'
  BY <1>1, <1>2, <1>3 DEF MissingAreTails, PutBelowEffect
<1> QED  BY <1>4, <1>6, <1>7, <1>8 DEF Chains

LEMMA PutApartKeepsChains ==
  ASSUME NEW cur, EntryOf(cur), prev[cur] \notin DOMAIN heads, cur \notin DOMAIN tails,
         PutApart(cur, prev[cur])
  PROVE  Chains'
<1> PICK own \in [Seen -> DOMAIN heads] : OwnedBy(own)
  BY DEF EntryOf, Chains, ChainsPartition
<1> DEFINE p == prev[cur]
<1> PICK newOwn : newOwn = [b \in Seen \cup {cur} |-> IF b = cur THEN cur ELSE own[b]]
  OBVIOUS
<1>1. FoldTypes /\ TailsNameHeads /\ HeadsAreLeaves /\ MissingAreTails
  BY DEF EntryOf, Chains
<1>2. /\ Seen' = Seen \cup {cur} /\ cur \in Hash /\ cur \notin Seen
      /\ todo' = todo \ {cur} /\ cur \in todo /\ prev' = prev
      /\ Seen \subseteq Hash /\ todo \subseteq Hash /\ Seen \cap todo = {}
      /\ NoHash \notin Hash /\ DOMAIN heads \subseteq Seen
  BY <1>1, NewSeen, Scope DEF HeadsAreLeaves, EntryOf
<1>3. p \notin DOMAIN heads /\ PutApartEffect(cur, p) /\ cur \notin DOMAIN tails
  BY PutApartMaps
<1>4. TailsNameHeads'
  BY <1>1, <1>2, <1>3 DEF TailsNameHeads, PutApartEffect
<1>5. \A b \in Seen : prev[b] # cur
  BY <1>1, <1>2, <1>3 DEF MissingAreTails
<1>6. HeadsAreLeaves'
  BY <1>1, <1>2, <1>3, <1>5 DEF HeadsAreLeaves, IsLeaf, PutApartEffect
<1>7. ChainsPartition'
  <2>1. newOwn \in [Seen' -> DOMAIN heads']
    BY <1>2, <1>3 DEF PutApartEffect
  <2>2. (\A h \in DOMAIN heads : newOwn[h] = h)'
    BY <1>2, <1>3 DEF OwnedBy, PutApartEffect
  <2>3. (\A b \in Seen : \/ prev[b] \in Seen /\ newOwn[prev[b]] = newOwn[b]
                         \/ prev[b] = heads[newOwn[b]].next)'
    <3> SUFFICES ASSUME NEW b \in Seen'
                 PROVE  \/ prev[b] \in Seen' /\ newOwn[prev[b]] = newOwn[b]
                        \/ prev[b] = heads'[newOwn[b]].next
      BY <1>2
    <3>1. CASE b = cur
      BY <1>2, <1>3, <3>1 DEF OwnedBy, PutApartEffect
    <3>2. CASE b # cur
      BY <1>2, <1>3, <3>2 DEF OwnedBy, PutApartEffect
    <3> QED  BY <3>1, <3>2
  <2>4. (\A h \in DOMAIN heads : \E b \in Seen : newOwn[b] = h /\ prev[b] = heads[h].next)'
    <3> SUFFICES ASSUME NEW h \in DOMAIN heads'
                 PROVE  \E b \in Seen' : newOwn[b] = h /\ prev[b] = heads'[h].next
      BY <1>2
    <3>1. CASE h = cur
      BY <1>2, <1>3, <3>1 DEF PutApartEffect
    <3>2. CASE h # cur
      <4>1. PICK b \in Seen : own[b] = h /\ prev[b] = heads[h].next
        BY <1>3, <3>2 DEF OwnedBy, PutApartEffect
      <4> QED  BY <1>2, <1>3, <3>2, <4>1 DEF PutApartEffect
    <3> QED  BY <3>1, <3>2
  <2>5. (\A b, d \in FirstBlocks(Seen) : newOwn[b] = newOwn[d] => b = d)'
    BY <1>2, <1>3 DEF OwnedBy, FirstBlocks, PutApartEffect
  <2>6. OwnedBy(newOwn)'
    BY <2>2, <2>3, <2>4, <2>5 DEF OwnedBy
  <2> QED  BY <2>1, <2>6 DEF ChainsPartition
<1>8. MissingAreTails'
  BY <1>1, <1>2, <1>3 DEF MissingAreTails, PutApartEffect
<1> QED  BY <1>4, <1>6, <1>7, <1>8 DEF Chains
-----------------------------------------------------------------------------
(* One folded entry keeps the types of the maps and the partition.           *)
LEMMA EntryKeepsChains ==
  ASSUME NEW cur, EntryOf(cur)
  PROVE  Chains' /\ MapTypes'
<1> PICK own \in [Seen -> DOMAIN heads] : OwnedBy(own)
  BY DEF EntryOf, Chains, ChainsPartition
<1> DEFINE p == prev[cur]
<1>0. MapTypes /\ cur \in Hash /\ NoHash \notin Hash
  BY NewSeen, NoHashAssumption DEF EntryOf, FoldTypes, MapTypes
<1>1. CASE p \in DOMAIN heads /\ cur \in DOMAIN tails /\ Glue(cur, p)
  <2>1. GlueEffect(cur, p, tails[cur], heads[p].next)
    BY <1>1, GlueMaps
  <2>2. MapTypes'
    BY <1>0, <1>1, <2>1 DEF MapTypes, GlueEffect, HashOrNone
  <2> QED  BY <1>1, <2>2, GlueKeepsChains
<1>2. CASE p \in DOMAIN heads /\ cur \notin DOMAIN tails /\ PutOnTop(cur, p)
  <2>1. PutOnTopEffect(cur, p, heads[p].next)
    BY <1>2, PutOnTopMaps
  <2>2. MapTypes'
    BY <1>0, <1>2, <2>1 DEF MapTypes, PutOnTopEffect, HashOrNone
  <2> QED  BY <1>2, <2>2, PutOnTopKeepsChains
<1>3. CASE p \notin DOMAIN heads /\ cur \in DOMAIN tails /\ PutBelow(cur, p)
  <2>1. PutBelowEffect(cur, p, tails[cur])
    BY <1>3, PutBelowMaps
  <2>2. MapTypes'
    BY <1>0, <1>3, <2>1 DEF MapTypes, PutBelowEffect, HashOrNone
  <2> QED  BY <1>3, <2>2, PutBelowKeepsChains
<1>4. CASE p \notin DOMAIN heads /\ cur \notin DOMAIN tails /\ PutApart(cur, p)
  <2>1. PutApartEffect(cur, p)
    BY <1>4, PutApartMaps
  <2>2. MapTypes'
    BY <1>0, <1>4, <2>1 DEF MapTypes, PutApartEffect, HashOrNone
  <2> QED  BY <1>4, <2>2, PutApartKeepsChains
<1> QED  BY <1>1, <1>2, <1>3, <1>4 DEF EntryOf, UpdateHeadsAndTails

-----------------------------------------------------------------------------
(* The final loop of rescan looks at heads only; these facts turn what it    *)
(* sees into facts about the blocks.                                         *)

LEMMA CompleteChainsAreFirstBlocks ==
  ASSUME FoldTypes, Chains
  PROVE  /\ CompleteChains = {} <=> FirstBlocks(Seen) = {}
         /\ (\A g, h \in CompleteChains : g = h)
              <=> (\A g, h \in FirstBlocks(Seen) : g = h)
<1> PICK own \in [Seen -> DOMAIN heads] : OwnedBy(own)
  BY DEF Chains, ChainsPartition
<1>1. NoHash \notin Seen
  BY Scope
<1>2. \A b \in FirstBlocks(Seen) : own[b] \in CompleteChains
  BY <1>1 DEF OwnedBy, FirstBlocks, CompleteChains
<1>3. \A h \in CompleteChains : \E b \in FirstBlocks(Seen) : own[b] = h
  BY DEF OwnedBy, FirstBlocks, CompleteChains
<1>4. \A b, c \in FirstBlocks(Seen) : own[b] = own[c] => b = c
  BY DEF OwnedBy
<1> QED  BY <1>2, <1>3, <1>4

LEMMA HeadChainIsStored ==
  ASSUME FoldTypes, Chains, NEW h \in CompleteChains
  PROVE  /\ h \in Hash /\ IsLeaf(h, Seen)
         /\ ChainIn(h, Seen)
<1> PICK own \in [Seen -> DOMAIN heads] : OwnedBy(own)
  BY DEF Chains, ChainsPartition
<1> DEFINE S == {b \in Seen : own[b] = h}
<1>1. h \in DOMAIN heads /\ heads[h].next = NoHash
  BY DEF CompleteChains
<1>2. h \in Hash /\ IsLeaf(h, Seen)
  BY <1>1 DEF Chains, HeadsAreLeaves, FoldTypes, MapTypes
<1>3. S \in SUBSET Hash /\ h \in S
  BY <1>1, <1>2, Scope DEF OwnedBy, IsLeaf
<1>4. \A y \in S : prev[y] \in S \cup {NoHash}
  BY <1>1 DEF OwnedBy
<1>5. \A x \in Hash : OnChain(x, h) => x \in S
  BY <1>3, <1>4 DEF OnChain
<1> QED  BY <1>2, <1>5 DEF ChainIn

(* In a database without forks and with every parent present, the blocks     *)
(* below a leaf are all the blocks.                                          *)
LEMMA LinearOneChain ==
  ASSUME prev \in Forests, NEW B \in SUBSET Hash, NEW h \in Hash,
         Linear(B), IsLeaf(h, B), ChainIn(h, B)
  PROVE  EndOf(h, B)
<1> DEFINE A == {x \in Hash : OnChain(x, h)}
           U == B \ A
<1>1. A \in SUBSET Hash /\ A \subseteq B /\ B \subseteq Hash /\ NoHash \notin Hash
  BY NoHashAssumption DEF ChainIn
<1>2. h \in A
  BY DEF OnChain
<1>3. \A y \in A : prev[y] \in A \cup {NoHash}
  <2> SUFFICES ASSUME NEW y \in A, prev[y] # NoHash PROVE prev[y] \in A
    OBVIOUS
  <2>1. prev[y] \in Hash
    BY <1>1 DEF HashOrNone, Forests
  <2>2. ASSUME NEW S \in SUBSET Hash, h \in S,
               \A z \in S : prev[z] \in S \cup {NoHash}
        PROVE  prev[y] \in S
    <3>1. y \in S
      BY <2>2 DEF OnChain
    <3> QED  BY <2>2, <3>1
  <2> QED  BY <2>1, <2>2 DEF OnChain
<1>4. \A y \in A \ {h} : \E z \in A : prev[z] = y
  <2> SUFFICES ASSUME NEW y \in A \ {h}, \A z \in A : prev[z] # y PROVE FALSE
    OBVIOUS
  <2>1. A \ {y} \in SUBSET Hash /\ h \in A \ {y}
    BY <1>1, <1>2
  <2>2. \A z \in A \ {y} : prev[z] \in (A \ {y}) \cup {NoHash}
    BY <1>3
  <2>3. y \in A \ {y}
    BY <2>1, <2>2 DEF OnChain
  <2> QED  BY <2>3
<1>5. PICK g \in A : prev[g] \notin A
  BY <1>1, <1>2, Zenon DEF FoldTypes, Forests, Acyclic
<1>6. prev[g] = NoHash
  BY <1>3, <1>5
<1>7. ASSUME U # {} PROVE FALSE
  <2>1. U \in SUBSET Hash
    BY <1>1
  <2>2. PICK u \in U : prev[u] \notin U
    BY <2>1, <1>7, Zenon DEF Forests, Acyclic
  <2>3. u \in B /\ u \notin A /\ prev[u] \in B \cup {NoHash}
    BY <2>2 DEF Linear
  <2>4. CASE prev[u] = NoHash
    BY <1>1, <1>5, <1>6, <2>3, <2>4 DEF Linear
  <2>5. CASE prev[u] # NoHash
    <3>1. prev[u] \in A
      BY <2>2, <2>3, <2>5
    <3>2. prev[u] # h
      BY <2>3 DEF IsLeaf
    <3>3. PICK z \in A : prev[z] = prev[u]
      BY <1>4, <3>1, <3>2
    <3> QED  BY <1>1, <2>3, <3>3 DEF Linear
  <2> QED  BY <2>4, <2>5
<1> QED  BY <1>1, <1>2, <1>7 DEF EndOf
-----------------------------------------------------------------------------
(* The inductive invariant: the partition, what was counted and checked so   *)
(* far, an untouched last_hash until the verdict, and the verdict itself.    *)
Folding ==
  /\ countPool = Cardinality(Seen)
  /\ \A k \in Seen : snapshot[k] = "pool"
  /\ phase \in {"scan", "callback"} => lastHash = NoHash /\ lastError = "NoError"

Verdict ==
  /\ ScanVerdict
  /\ TipEndsCompleteChain
  /\ lastError = "DataIntegrityError" => \E k \in Stored : snapshot[k] # "pool"

IInv == TypeOK /\ Chains /\ Folding /\ Verdict

\* The blocks and the maps that the invariant speaks of stand still.
FoldStands == UNCHANGED <<prev, snapshot, todo, heads, tails>>
Standing == FoldStands /\ UNCHANGED countPool

LEMMA StandingKeeps ==
  ASSUME Chains, FoldStands
  PROVE  /\ Chains' /\ Seen' = Seen /\ Stored' = Stored
         /\ CompleteChains' = CompleteChains /\ FirstBlocks(Seen)' = FirstBlocks(Seen)
         /\ \A h : IsLeaf(h, Seen)' <=> IsLeaf(h, Seen)
         /\ \A x, h : OnChain(x, h)' <=> OnChain(x, h)
<1>1. Seen' = Seen /\ Stored' = Stored
  BY DEF FoldStands, Seen, Stored
<1>2. FirstBlocks(Seen)' = FirstBlocks(Seen) /\ CompleteChains' = CompleteChains
  BY <1>1 DEF FoldStands, FirstBlocks, CompleteChains
<1>3. \A h : IsLeaf(h, Seen)' <=> IsLeaf(h, Seen)
  BY <1>1 DEF FoldStands, IsLeaf
<1>4. \A x, h : OnChain(x, h)' <=> OnChain(x, h)
  BY DEF FoldStands, OnChain
<1>5. \A own : OwnedBy(own)' <=> OwnedBy(own)
  BY <1>1, <1>2 DEF FoldStands, OwnedBy
<1>6. TailsNameHeads' /\ HeadsAreLeaves' /\ MissingAreTails'
  BY <1>1 DEF Chains, FoldStands, TailsNameHeads, HeadsAreLeaves, IsLeaf, MissingAreTails
<1>7. ChainsPartition'
  BY <1>1, <1>5 DEF Chains, FoldStands, ChainsPartition
<1> QED  BY <1>1, <1>2, <1>3, <1>4, <1>6, <1>7 DEF Chains

\* Nothing is read yet.
Fresh == Seen = {} /\ heads = EmptyMap /\ tails = EmptyMap

LEMMA NothingRead ==
  Fresh => Chains
<1> SUFFICES ASSUME Fresh PROVE Chains
  OBVIOUS
<1>1. Seen = {} /\ DOMAIN heads = {} /\ DOMAIN tails = {}
  BY DEF Fresh, EmptyMap
<1>2. ChainsPartition
  <2>1. [b \in {} |-> NoHash] \in [Seen -> DOMAIN heads]
    BY <1>1
  <2>2. OwnedBy([b \in {} |-> NoHash])
    BY <1>1 DEF OwnedBy, FirstBlocks
  <2> QED  BY <2>1, <2>2 DEF ChainsPartition
<1> QED  BY <1>1, <1>2 DEF Chains, TailsNameHeads, HeadsAreLeaves, IsLeaf, MissingAreTails

LEMMA TypesOfFold ==
  TypeOK => FoldTypes
BY DEF TypeOK, FoldTypes, MapTypes

LEMMA InitHolds == ScanInit => IInv
<1> SUFFICES ASSUME ScanInit PROVE IInv
  OBVIOUS
<1>1. TypeOK
  BY DEF ScanInit, TypeOK, EmptyMap, HashOrNone
<1>2. Seen = {}
  BY DEF ScanInit, Seen
<1>4. Chains
  BY <1>2, NothingRead DEF ScanInit, Fresh
<1>5. Folding
  BY <1>2, FS_EmptySet DEF ScanInit, Folding
<1>6. Verdict
  BY DEF ScanInit, Verdict, ScanVerdict, TipEndsCompleteChain
<1> QED  BY <1>1, <1>4, <1>5, <1>6 DEF IInv

LEMMA EntryHolds == IInv /\ ScanEntry /\ UNCHANGED prev => IInv'
<1> SUFFICES ASSUME IInv, ScanEntry, UNCHANGED prev PROVE IInv'
  OBVIOUS
<1>1. PICK cur \in todo : /\ AtKey(cur) /\ snapshot[cur] = "pool"
                          /\ UpdateHeadsAndTails(cur, prev[cur])
                          /\ todo' = todo \ {cur}
  BY DEF ScanEntry
<1>2. EntryOf(cur)
  BY <1>1, TypesOfFold DEF EntryOf, IInv, ScanEntry
<1>3. Chains' /\ MapTypes'
  BY <1>2, EntryKeepsChains
<1>4. TypeOK'
  BY <1>1, <1>3 DEF IInv, TypeOK, MapTypes, ScanEntry
<1>5. Seen' = Seen \cup {cur} /\ cur \notin Seen
  BY <1>2, NewSeen
<1>6. IsFiniteSet(Seen)
  BY Scope, TypesOfFold, HashAssumption, FS_Subset DEF IInv
<1>7. Cardinality(Seen') = Cardinality(Seen) + 1
  BY <1>5, <1>6, FS_AddElement
<1>8. Folding'
  BY <1>1, <1>5, <1>7 DEF IInv, Folding, ScanEntry
<1>9. Verdict'
  BY DEF IInv, Folding, Verdict, ScanVerdict, TipEndsCompleteChain, ScanEntry
<1> QED  BY <1>3, <1>4, <1>8, <1>9 DEF IInv

LEMMA AcceptHolds == IInv /\ ScanAccept /\ UNCHANGED prev => IInv'
<1> SUFFICES ASSUME IInv, ScanAccept, UNCHANGED prev PROVE IInv'
  OBVIOUS
<1>1. Standing /\ TypeOK /\ FoldTypes /\ Chains /\ lastHash = NoHash
  BY TypesOfFold DEF IInv, Folding, ScanAccept, Standing, FoldStands
<1>2. Chains' /\ Seen' = Seen /\ FirstBlocks(Seen)' = FirstBlocks(Seen)
  BY <1>1, StandingKeeps DEF Standing
<1>3. /\ CompleteChains = {} => lastHash' = NoHash
      /\ CompleteChains # {} => lastHash' \in CompleteChains
      /\ \A g, h \in CompleteChains : g = h
  BY <1>1 DEF ScanAccept, Judge
<1>4. CompleteChains \subseteq Hash /\ NoHash \notin Hash
  BY <1>1, NoHashAssumption DEF CompleteChains, TypeOK
<1>5. TypeOK'
  BY <1>1, <1>3, <1>4 DEF TypeOK, Standing, FoldStands, ScanAccept, HashOrNone
<1>6. Folding'
  BY <1>2 DEF IInv, Folding, ScanAccept
<1>7. ScanVerdict'
  BY <1>1, <1>2, <1>3, CompleteChainsAreFirstBlocks DEF ScanVerdict, ScanAccept
<1>8. TipEndsCompleteChain'
  <2>1. lastHash' = NoHash <=> FirstBlocks(Seen) = {}
    BY <1>1, <1>3, <1>4, CompleteChainsAreFirstBlocks
  <2>2. ASSUME lastHash' # NoHash
        PROVE  /\ IsLeaf(lastHash', Seen)
               /\ ChainIn(lastHash', Seen)
    BY <1>1, <1>3, <2>2, HeadChainIsStored
  <2>3. prev' = prev
    OBVIOUS
  <2> QED  BY <1>2, <2>1, <2>2, <2>3 DEF TipEndsCompleteChain, IsLeaf, ChainIn, OnChain
<1>9. Verdict'
  BY <1>7, <1>8 DEF Verdict, ScanAccept
<1> QED  BY <1>2, <1>5, <1>6, <1>9 DEF IInv

LEMMA ChainErrorHolds == IInv /\ ScanChainError /\ UNCHANGED prev => IInv'
<1> SUFFICES ASSUME IInv, ScanChainError, UNCHANGED prev PROVE IInv'
  OBVIOUS
<1>1. Standing /\ TypeOK /\ FoldTypes /\ Chains /\ lastHash = NoHash
  BY TypesOfFold DEF IInv, Folding, ScanChainError, Standing, FoldStands
<1>2. Chains' /\ Seen' = Seen /\ FirstBlocks(Seen)' = FirstBlocks(Seen)
  BY <1>1, StandingKeeps DEF Standing
<1>3. lastHash' \in CompleteChains /\ \E g, h \in CompleteChains : g # h
  BY <1>1 DEF ScanChainError, Judge
<1>4. TypeOK'
  BY <1>1, <1>3 DEF TypeOK, Standing, FoldStands, ScanChainError, HashOrNone, CompleteChains
<1>5. Folding'
  BY <1>2 DEF IInv, Folding, ScanChainError
<1>6. Verdict'
  BY <1>1, <1>2, <1>3, CompleteChainsAreFirstBlocks
     DEF Verdict, ScanVerdict, TipEndsCompleteChain, ScanChainError
<1> QED  BY <1>2, <1>4, <1>5, <1>6 DEF IInv

\* The steps that touch neither the blocks nor last_hash.
LEMMA QuietHolds ==
  ASSUME IInv, Standing, UNCHANGED lastHash,
         \/ phase = "callback" /\ phase' = "scan" /\ UNCHANGED lastError
         \/ phase' = "failed" /\ lastError' = "UserCancelled"
         \/ /\ phase' = "failed" /\ lastError' = "DataIntegrityError"
            /\ \E k \in todo : snapshot[k] # "pool"
         \/ UNCHANGED <<phase, lastError>>
  PROVE  IInv'
<1>1. Chains' /\ Seen' = Seen /\ FirstBlocks(Seen)' = FirstBlocks(Seen) /\ Stored' = Stored
  BY StandingKeeps DEF IInv, Standing
<1>2. TypeOK'
  BY DEF IInv, TypeOK, Standing, FoldStands
<1>3. Folding'
  BY <1>1 DEF IInv, Folding, Standing, FoldStands
<1>4. ScanVerdict'
  BY <1>1 DEF IInv, Verdict, ScanVerdict
<1>5. TipEndsCompleteChain'
  BY <1>1 DEF IInv, Verdict, TipEndsCompleteChain, IsLeaf, ChainIn, OnChain, Standing, FoldStands
<1>6. Verdict'
  BY <1>1, <1>4, <1>5 DEF IInv, Verdict, Standing, FoldStands, Stored, TypeOK
<1> QED  BY <1>1, <1>2, <1>3, <1>6 DEF IInv

LEMMA StepHolds == IInv /\ [ScanNext]_vars => IInv'
<1> SUFFICES ASSUME IInv, [ScanNext]_vars PROVE IInv'
  OBVIOUS
<1>1. CASE ScanBadEntry /\ UNCHANGED prev
  BY <1>1, QuietHolds DEF ScanBadEntry, Standing, FoldStands
<1>2. CASE ScanEntry /\ UNCHANGED prev
  BY <1>2, EntryHolds
<1>3. CASE ScanContinue /\ UNCHANGED prev
  BY <1>3, QuietHolds DEF ScanContinue, Standing, FoldStands
<1>4. CASE ScanCancel /\ UNCHANGED prev
  BY <1>4, QuietHolds DEF ScanCancel, Standing, FoldStands
<1>5. CASE ScanAccept /\ UNCHANGED prev
  BY <1>5, AcceptHolds
<1>6. CASE ScanChainError /\ UNCHANGED prev
  BY <1>6, ChainErrorHolds
<1>7. CASE UNCHANGED vars
  BY <1>7, QuietHolds DEF vars, Standing, FoldStands
<1> QED  BY <1>1, <1>2, <1>3, <1>4, <1>5, <1>6, <1>7 DEF ScanNext, ScanStep

THEOREM ScanInvariant == ScanSpec => []IInv
BY InitHolds, StepHolds, PTL DEF ScanSpec
-----------------------------------------------------------------------------
(* The theorems.                                                             *)

(* The variables of the scan keep their types: in particular no default      *)
(* element ever gets into heads_t (storage.cpp:35-89).                       *)
THEOREM ScanTypes == ScanSpec => []TypeOK
<1>1. IInv => TypeOK
  BY DEF IInv
<1> QED  BY <1>1, ScanInvariant, PTL

(* None of the asserts of update_heads_and_tails (storage.cpp:43,62,67,81)   *)
(* fires, for any database and any order of its keys.                        *)
THEOREM ScanAsserts == ScanSpec => []TailsNameHeads
<1>1. IInv => TailsNameHeads
  BY DEF IInv, Chains
<1> QED  BY <1>1, ScanInvariant, PTL

(* heads_t holds the blocks nothing follows, also when chains fork           *)
(* (storage.cpp:35-89).                                                      *)
THEOREM ScanLeaves == ScanSpec => []HeadsAreLeaves
<1>1. IInv => HeadsAreLeaves
  BY DEF IInv, Chains
<1> QED  BY <1>1, ScanInvariant, PTL

(* The partial chains of heads_t share no block and lose none                *)
(* (storage.cpp:35-89).                                                      *)
THEOREM ScanPartition == ScanSpec => []ChainsPartition
<1>1. IInv => ChainsPartition
  BY DEF IInv, Chains
<1> QED  BY <1>1, ScanInvariant, PTL

(* rescan refuses a chain structure exactly when there are two first blocks  *)
(* (storage.cpp:190-219).                                                    *)
THEOREM ScanRefusesTwoChains == ScanSpec => []ScanVerdict
<1>1. IInv => ScanVerdict
  BY DEF IInv, Verdict
<1> QED  BY <1>1, ScanInvariant, PTL

(* The last_hash of an accepted database ends a chain stored in full         *)
(* (storage.cpp:190-202, storage.h:159-168).                                 *)
THEOREM ScanTip == ScanSpec => []TipEndsCompleteChain
<1>1. IInv => TipEndsCompleteChain
  BY DEF IInv, Verdict
<1> QED  BY <1>1, ScanInvariant, PTL

(* When the stored blocks form one linear chain, last_hash is its end:       *)
(* every stored block is below it (storage.h:162-165).                       *)
THEOREM ScanLinearTip == ScanSpec => []LinearChainTip
<1>1. ASSUME IInv, phase = "done", Seen # {}, Linear(Seen) PROVE EndOf(lastHash, Seen)
  <2>1. TypeOK /\ FoldTypes /\ TipEndsCompleteChain
    BY <1>1, TypesOfFold DEF IInv, Verdict
  <2>2. Seen \in SUBSET Hash
    BY <2>1, Scope
  <2>3. PICK g \in Seen : prev[g] \notin Seen
    BY <1>1, <2>1, <2>2, Zenon DEF TypeOK, Forests, Acyclic
  <2>4. g \in FirstBlocks(Seen)
    BY <1>1, <2>3 DEF Linear, FirstBlocks
  <2>5. lastHash # NoHash
    BY <1>1, <2>1, <2>4 DEF TipEndsCompleteChain
  <2>6. lastHash \in Hash /\ IsLeaf(lastHash, Seen) /\ ChainIn(lastHash, Seen)
    BY <1>1, <2>1, <2>5 DEF TypeOK, HashOrNone, TipEndsCompleteChain
  <2> QED  BY <1>1, <2>1, <2>2, <2>6, LinearOneChain DEF FoldTypes
<1>2. IInv => LinearChainTip
  BY <1>1 DEF LinearChainTip
<1> QED  BY <1>2, ScanInvariant, PTL

(* size() after an accepted and complete scan is the number of stored blocks *)
(* (storage.cpp:179, storage.h:216-221).                                     *)
THEOREM ScanCounts == ScanSpec => []CountIsSize
<1>1. IInv => CountIsSize
  <2> SUFFICES ASSUME IInv, todo = {} PROVE countPool = Cardinality(Stored)
    BY DEF CountIsSize
  <2>1. Seen = Stored
    BY DEF Seen, Stored
  <2> QED  BY <2>1 DEF IInv, Folding
<1> QED  BY <1>1, ScanInvariant, PTL

(* A damaged entry is always found by a scan that reads to the end, and a    *)
(* DataIntegrityError always has one (storage.cpp:154-176).                  *)
THEOREM ScanFindsDamage == ScanSpec => []IntegrityVerdict
<1>1. IInv => IntegrityVerdict
  <2> SUFFICES ASSUME IInv PROVE IntegrityVerdict
    OBVIOUS
  <2>1. todo = {} => Seen = Stored
    BY DEF Seen, Stored
  <2> QED  BY <2>1 DEF IntegrityVerdict, IInv, Folding, Verdict
<1> QED  BY <1>1, ScanInvariant, PTL

(***************************************************************************)
(* The storage handle.                                                     *)
(***************************************************************************)
StorageTypes ==
  /\ FoldTypes
  /\ client \in Discipline
  /\ lastHash \in HashOrNone /\ countPool \in Nat
  /\ phase \in {"idle", "scan", "callback", "done", "failed"}
  /\ lastError \in {"NoError", "NotOpen", "InvalidParameter", "DatabaseError",
                    "DataIntegrityError", "UserCancelled", "ChainError"}
  /\ db \in Db \cup {NoDb} /\ scanned \in Db \cup {NoDb} /\ unread \subseteq Hash
  /\ opened \subseteq Db
  /\ store \in [Db -> Contents]
  /\ unsynced \in [Db -> Seq(Hash)]
  /\ acked \in [Db -> SUBSET Hash]
  /\ faults \in Nat /\ crashes \in Nat

(* Between the calls of open() nothing of a scan is left; an open() in       *)
(* progress has not been accepted, and has left nothing unread; and an       *)
(* accepted database is the one that d->db names, and is open.               *)
HandleKept ==
  /\ phase = "idle" => Stored = {}
  /\ phase # "idle" => scanned = NoDb /\ unread = {} /\ (db # NoDb => db \in opened)
  /\ scanned # NoDb => scanned = db /\ db \in opened

(* What the scan reads is still there, or was written again since.           *)
SnapshotKept ==
  phase # "idle" /\ db # NoDb =>
    \A h \in Stored : h \in Held /\ store[db][h] \in {snapshot[h], "pool"}

(* What a scan that came to the end of the iterator read.                    *)
ReadKept ==
  /\ \A h \in Seen : snapshot[h] = "pool"
  /\ phase = "done" /\ ~IteratorMayFail => todo = {}
  /\ ~IteratorMayFail => unread = {}

StorageFrame ==
  /\ StorageTypes
  /\ Chains
  /\ HandleKept
  /\ SnapshotKept
  /\ ReadKept

-----------------------------------------------------------------------------
(* Contents of databases.                                                    *)

LEMMA AssignKeepsContents ==
  ASSUME NEW m \in Contents, NEW h \in Hash
  PROVE  /\ Assign(m, h, "pool") \in Contents
         /\ DOMAIN Assign(m, h, "pool") = DOMAIN m \cup {h}
         /\ Assign(m, h, "pool")[h] = "pool"
         /\ \A x \in DOMAIN m \ {h} : Assign(m, h, "pool")[x] = m[x]
<1>1. PICK S \in SUBSET Hash : m \in [S -> Kind]
  BY DEF Contents
<1>2. Assign(m, h, "pool") \in [S \cup {h} -> Kind]
  BY <1>1 DEF Assign, Kind
<1>3. S \cup {h} \in SUBSET Hash
  OBVIOUS
<1> QED  BY <1>2, <1>3 DEF Contents, Assign

LEMMA DamageKeepsContents ==
  ASSUME NEW m \in Contents, NEW h \in DOMAIN m, NEW k \in Faults
  PROVE  [m EXCEPT ![h] = k] \in Contents
<1>1. PICK S \in SUBSET Hash : m \in [S -> Kind]
  BY DEF Contents
<1>2. [m EXCEPT ![h] = k] \in [S -> Kind]
  BY <1>1 DEF Kind
<1> QED  BY <1>2 DEF Contents

LEMMA SurvivorsAreContents ==
  ASSUME store \in [Db -> Contents], NEW d \in Db, NEW n
  PROVE  Survivors(d, n) \in Contents /\ DOMAIN Survivors(d, n) \subseteq DOMAIN store[d]
<1> DEFINE m == store[d]
           lost == {unsynced[d][i] : i \in n + 1 .. Len(unsynced[d])}
           kept == {unsynced[d][i] : i \in 1 .. n}
           R == DOMAIN m \ (lost \ kept)
<1>1. PICK S \in SUBSET Hash : m \in [S -> Kind]
  BY DEF Contents
<1>2. Survivors(d, n) = [h \in R |-> m[h]]
  BY DEF Survivors
<1>3. R \in SUBSET Hash /\ R \subseteq DOMAIN m
  BY <1>1
<1> HIDE DEF R
<1>4. [h \in R |-> m[h]] \in [R -> Kind]
  BY <1>1, <1>3
<1> QED  BY <1>2, <1>3, <1>4 DEF Contents

LEMMA StoredHashes ==
  ASSUME StorageTypes
  PROVE  /\ \A d \in Db : DOMAIN store[d] \subseteq Hash
         /\ Stored \subseteq Hash
BY DEF StorageTypes, FoldTypes, Contents, Stored

-----------------------------------------------------------------------------
(* The steps that change nothing but what is told of errors.                 *)
Telling ==
  /\ UNCHANGED <<client, prev, scanVars, lastHash, countPool, phase, dbVars, history, crashes>>
  /\ \/ UNCHANGED lastError
     \/ /\ ClientTurn
        /\ lastError' \in {"NoError", "NotOpen", "InvalidParameter", "DatabaseError",
                            "DataIntegrityError"}
  /\ faults' \in {faults, faults + 1}

Told ==
  \/ OpenNoDriver
  \/ SaveNotOpen
  \/ SaveRefused
  \/ \E h \in HashOrNone, meta \in BOOLEAN : Load(h, meta)
  \/ LoadUnread

LEMMA TellingSteps ==
  (Told /\ UNCHANGED client) \/ UNCHANGED allVars => Telling
<1>1. OpenNoDriver /\ UNCHANGED client => Telling
  BY DEF OpenNoDriver, Telling, Fail, failures, ClientTurn
<1>2. SaveNotOpen /\ UNCHANGED client => Telling
  BY DEF SaveNotOpen, Refuse, Telling, Fail, failures
<1>3. SaveRefused /\ UNCHANGED client => Telling
  BY DEF SaveRefused, Refuse, Telling, Fail, failures
<1>4. ASSUME NEW h \in HashOrNone, NEW meta \in BOOLEAN, Load(h, meta), UNCHANGED client
      PROVE  Telling
  <2>1. LoadErrors(h, meta) \subseteq
          {"NoError", "NotOpen", "InvalidParameter", "DatabaseError", "DataIntegrityError"}
    BY DEF LoadErrors
  <2> QED  BY <1>4, <2>1 DEF Load, Refuse, Telling, Fail, failures
<1>5. LoadUnread /\ UNCHANGED client => Telling
  BY DEF LoadUnread, IOError, Refuse, Telling, Fail
<1>6. UNCHANGED allVars => Telling
  BY DEF allVars, vars, Telling, failures, scanVars
<1> QED  BY <1>1, <1>2, <1>3, <1>4, <1>5, <1>6 DEF Told

(* A pool_save that answers true: the put went through, or it failed and     *)
(* that counts as a fault.                                                   *)
Saving(h) ==
  /\ CanSave(h)
  /\ Account(h)
  /\ UNCHANGED <<client, crashes>>
  /\ \/ PutEntry(h) /\ h \notin Held /\ UNCHANGED faults
     \/ PutEntry(h) /\ faults' = faults + 1
     \/ UNCHANGED <<store, unsynced>> /\ faults' = faults + 1

LEMMA SavingSteps ==
  ASSUME NEW h \in Hash, SaveStored(h) \/ SaveUnread(h) \/ SaveLost(h), UNCHANGED client
  PROVE  Saving(h)
BY DEF SaveStored, SaveUnread, SaveLost, Saving, SeemsAbsent, IOError, failures, Held

-----------------------------------------------------------------------------
(* The handle and the scan in progress.                                      *)

LEMMA PutEffect ==
  ASSUME StorageTypes, db \in Db, NEW h \in Hash, PutEntry(h)
  PROVE  /\ store' \in [Db -> Contents] /\ unsynced' \in [Db -> Seq(Hash)]
         /\ DOMAIN store'[db] = Held \cup {h}
         /\ store'[db][h] = "pool"
         /\ \A x \in Held \ {h} : store'[db][x] = store[db][x]
         /\ unsynced'[db] = Append(unsynced[db], h)
         /\ \A d \in Db \ {db} : store'[d] = store[d] /\ unsynced'[d] = unsynced[d]
<1> DEFINE m == Assign(store[db], h, "pool")
<1>1. store \in [Db -> Contents] /\ unsynced \in [Db -> Seq(Hash)]
  BY DEF StorageTypes
<1>2. /\ m \in Contents /\ DOMAIN m = Held \cup {h} /\ m[h] = "pool"
      /\ \A x \in Held \ {h} : m[x] = store[db][x]
  BY <1>1, AssignKeepsContents DEF Held
<1>3. store' = [store EXCEPT ![db] = m] /\ unsynced' = [unsynced EXCEPT ![db] = Append(@, h)]
  BY DEF PutEntry
<1>4. Append(unsynced[db], h) \in Seq(Hash)
  BY <1>1
<1> HIDE DEF m
<1>5. store' \in [Db -> Contents] /\ store'[db] = m /\ \A d \in Db \ {db} : store'[d] = store[d]
  BY <1>1, <1>2, <1>3
<1>6. /\ unsynced' \in [Db -> Seq(Hash)] /\ unsynced'[db] = Append(unsynced[db], h)
      /\ \A d \in Db \ {db} : unsynced'[d] = unsynced[d]
  BY <1>1, <1>3, <1>4
<1> QED  BY <1>2, <1>5, <1>6

LEMMA FrameInit ==
  Init => StorageFrame
<1> SUFFICES ASSUME Init PROVE StorageFrame
  OBVIOUS
<1>1. EmptyMap \in Contents /\ DOMAIN EmptyMap = {}
  <2>1. EmptyMap \in [{} -> Kind]
    BY DEF EmptyMap
  <2> QED  BY <2>1 DEF Contents
<1>2. FoldTypes
  BY <1>1 DEF Init, FoldTypes, MapTypes
<1>3. StorageTypes
  BY <1>1, <1>2, StorageAssumption DEF Init, StorageTypes, HashOrNone
<1>4. Stored = {} /\ Seen = {}
  BY <1>1 DEF Init, Stored, Seen
<1>5. Chains
  BY <1>4, NothingRead DEF Fresh, Init
<1> QED  BY <1>3, <1>4, <1>5 DEF Init, StorageFrame, HandleKept, SnapshotKept, ReadKept

LEMMA FrameTelling ==
  ASSUME StorageFrame, Telling
  PROVE  StorageFrame'
<1>1. Chains' /\ Seen' = Seen /\ Stored' = Stored
  BY StandingKeeps DEF StorageFrame, Telling, scanVars, FoldStands
<1>2. StorageTypes'
  BY DEF StorageFrame, StorageTypes, FoldTypes, MapTypes, Telling, scanVars, dbVars, history
<1>3. HandleKept' /\ SnapshotKept' /\ ReadKept'
  BY <1>1 DEF StorageFrame, HandleKept, SnapshotKept, ReadKept, Held, Telling, scanVars, dbVars, history
<1> QED  BY <1>1, <1>2, <1>3 DEF StorageFrame

LEMMA FrameScan ==
  ASSUME StorageFrame, Scan, UNCHANGED client
  PROVE  StorageFrame'
<1> USE DEF dbVars, failures, history
<1>1. StorageTypes /\ FoldTypes /\ Chains /\ HandleKept /\ SnapshotKept /\ ReadKept
  BY DEF StorageFrame, StorageTypes
<1>2. UNCHANGED <<client, prev, db, opened, store, unsynced, faults, crashes, scanned, unread, acked>>
  BY DEF Scan, ScanNext
<1>3. CASE ScanEntry
  <2>1. PICK cur \in todo : /\ snapshot[cur] = "pool"
                            /\ UpdateHeadsAndTails(cur, prev[cur])
                            /\ todo' = todo \ {cur}
    BY <1>3 DEF ScanEntry
  <2>2. EntryOf(cur)
    BY <1>1, <1>2, <1>3, <2>1 DEF EntryOf, ScanEntry
  <2>3. Chains' /\ MapTypes' /\ Seen' = Seen \cup {cur} /\ Stored' = Stored
    BY <1>3, <2>2, EntryKeepsChains, NewSeen DEF ScanEntry, Stored
  <2>4. FoldTypes'
    BY <1>1, <1>2, <1>3, <2>1, <2>3 DEF FoldTypes, ScanEntry
  <2>5. StorageTypes'
    BY <1>1, <1>2, <1>3, <2>4 DEF StorageTypes, ScanEntry
  <2>6. HandleKept' /\ SnapshotKept'
    BY <1>1, <1>2, <1>3, <2>3 DEF HandleKept, SnapshotKept, Held, ScanEntry
  <2>7. ReadKept'
    BY <1>1, <1>2, <1>3, <2>1, <2>3 DEF ReadKept, ScanEntry
  <2> QED  BY <2>3, <2>5, <2>6, <2>7 DEF StorageFrame
<1>4. CASE ~ScanEntry
  <2>1. /\ FoldStands
        /\ phase' \in {"scan", "done", "failed"} /\ phase # "idle"
        /\ phase' = "done" => todo = {} \/ IteratorMayFail
        /\ UNCHANGED countPool
        /\ lastHash' \in CompleteChains \cup {lastHash}
        /\ lastError' \in {"NoError", "DataIntegrityError", "UserCancelled", "ChainError", lastError}
    BY <1>2, <1>4 DEF Scan, ScanNext, ScanStep, ScanBadEntry, ScanContinue, ScanCancel, ScanAccept,
                      ScanChainError, AtEnd, Judge, FoldStands
  <2>2. Chains' /\ Seen' = Seen /\ Stored' = Stored
    BY <1>1, <2>1, StandingKeeps
  <2>3. CompleteChains \subseteq Hash
    BY <1>1 DEF CompleteChains, FoldTypes, MapTypes
  <2>4. FoldTypes'
    BY <1>1, <2>1 DEF FoldTypes, MapTypes, FoldStands
  <2>5. StorageTypes'
    BY <1>1, <1>2, <2>1, <2>3, <2>4 DEF StorageTypes, HashOrNone
  <2>6. HandleKept' /\ SnapshotKept' /\ ReadKept'
    BY <1>1, <1>2, <2>1, <2>2 DEF HandleKept, SnapshotKept, ReadKept, Held, FoldStands
  <2> QED  BY <2>2, <2>5, <2>6 DEF StorageFrame
<1> QED  BY <1>3, <1>4

LEMMA FrameReturns ==
  ASSUME StorageFrame, OpenReturns, UNCHANGED client
  PROVE  StorageFrame'
<1> USE DEF failures
<1>1. StorageTypes /\ FoldTypes /\ HandleKept /\ ReadKept
  BY DEF StorageFrame, StorageTypes
<1>2. Stored' = {} /\ Seen' = {} /\ Fresh'
  BY DEF OpenReturns, Stored, Seen, Fresh, EmptyMap
<1>3. Chains'
  BY <1>2, NothingRead, PTL
<1>4. FoldTypes'
  <2>1. EmptyMap \in [{} -> Kind] /\ DOMAIN EmptyMap = {}
    BY DEF EmptyMap
  <2>2. EmptyMap \in Contents
    BY <2>1 DEF Contents
  <2> QED  BY <1>1, <2>1, <2>2 DEF OpenReturns, FoldTypes, MapTypes
<1>5. opened' \subseteq opened /\ db' \in {db, NoDb}
  BY DEF OpenReturns, Release
<1>6. /\ lastError' \in {lastError, "NoError"} /\ scanned' \in {db, scanned}
      /\ unread' = unread \/ (phase = "done" /\ unread' = todo)
      /\ unread' \subseteq Hash
  BY <1>1 DEF OpenReturns, Fail, StorageTypes, FoldTypes, Contents
<1>7. StorageTypes'
  BY <1>1, <1>4, <1>5, <1>6 DEF OpenReturns, StorageTypes
<1>8. HandleKept'
  BY <1>1, <1>2 DEF HandleKept, OpenReturns
<1>9. SnapshotKept' /\ ReadKept'
  BY <1>1, <1>2, <1>6 DEF SnapshotKept, ReadKept, OpenReturns
<1> QED  BY <1>3, <1>7, <1>8, <1>9 DEF StorageFrame

(* open() of a database, and damage to one that is closed, between calls.    *)
LEMMA FrameDatabase ==
  ASSUME StorageFrame, NEW d \in Db, DbOpen(d) \/ Damage(d), UNCHANGED client
  PROVE  StorageFrame'
<1> USE DEF failures, history, vars
<1>1. StorageTypes /\ FoldTypes /\ HandleKept /\ ReadKept
  BY DEF StorageFrame, StorageTypes
<1>2. /\ UNCHANGED <<prev, snapshot, todo, heads, tails, lastHash, countPool, lastError, phase, db, scanned,
                     unread, acked>>
      /\ phase = "idle" /\ opened \subseteq opened' /\ opened' \subseteq Db
      /\ faults' \in {faults, faults + 1} /\ crashes' = crashes
  BY <1>1 DEF DbOpen, Damage, IOError, StorageTypes
<1>3. Chains' /\ Seen' = Seen /\ Stored' = Stored
  BY <1>2, StandingKeeps DEF StorageFrame, FoldStands
<1>4. store' \in [Db -> Contents] /\ unsynced' \in [Db -> Seq(Hash)]
  <2>1. CASE DbOpen(d)
    BY <1>1, <2>1 DEF DbOpen, StorageTypes
  <2>2. CASE Damage(d)
    <3>1. PICK h \in DOMAIN store[d], k \in Faults : store' = [store EXCEPT ![d][h] = k]
      BY <2>2 DEF Damage
    <3>2. store[d] \in Contents
      BY <1>1 DEF StorageTypes
    <3>3. [store[d] EXCEPT ![h] = k] \in Contents
      BY <3>2, DamageKeepsContents
    <3> QED  BY <1>1, <2>2, <3>1, <3>3 DEF Damage, StorageTypes
  <2> QED  BY <2>1, <2>2
<1>5. StorageTypes'
  BY <1>1, <1>2, <1>4 DEF StorageTypes, FoldTypes, MapTypes
<1>6. HandleKept' /\ SnapshotKept' /\ ReadKept'
  BY <1>1, <1>2, <1>3 DEF HandleKept, SnapshotKept, ReadKept
<1> QED  BY <1>3, <1>5, <1>6 DEF StorageFrame

LEMMA FrameHandle ==
  ASSUME StorageFrame, UNCHANGED client,
         Close \/ \E d \in Db : OpenClosedDriver(d) \/ OpenDriver(d)
  PROVE  StorageFrame'
<1> USE DEF failures
<1>1. StorageTypes /\ FoldTypes /\ HandleKept /\ SnapshotKept /\ ReadKept
  BY DEF StorageFrame, StorageTypes
<1>2. CASE Close
  <2>1. Chains' /\ Seen' = Seen /\ Stored' = Stored
    BY <1>2, StandingKeeps DEF StorageFrame, FoldStands, Close, scanVars
  <2>2. /\ opened' \subseteq opened /\ db' = NoDb /\ scanned' = NoDb /\ unread' = {}
        /\ lastError' = "NoError"
    BY <1>2 DEF Close, Release, Fail
  <2>3. StorageTypes'
    BY <1>1, <1>2, <2>2 DEF StorageTypes, FoldTypes, MapTypes, Close, scanVars
  <2>4. HandleKept' /\ SnapshotKept' /\ ReadKept'
    BY <1>1, <1>2, <2>1, <2>2 DEF HandleKept, SnapshotKept, ReadKept, Close, scanVars
  <2> QED  BY <2>1, <2>3, <2>4 DEF StorageFrame
<1>3. ASSUME NEW d \in Db, OpenClosedDriver(d) PROVE StorageFrame'
  <2>1. Chains' /\ Seen' = Seen /\ Stored' = Stored
    BY <1>3, StandingKeeps DEF StorageFrame, FoldStands, OpenClosedDriver, scanVars
  <2>2. /\ opened' \subseteq opened /\ db' = d /\ scanned' = NoDb /\ unread' = {}
        /\ lastError' = "DatabaseError"
    BY <1>3 DEF OpenClosedDriver, Release, Fail
  <2>3. StorageTypes'
    BY <1>1, <1>3, <2>2 DEF StorageTypes, FoldTypes, MapTypes, OpenClosedDriver, scanVars
  <2>4. HandleKept' /\ SnapshotKept' /\ ReadKept'
    BY <1>1, <1>3, <2>1, <2>2 DEF HandleKept, SnapshotKept, ReadKept, OpenClosedDriver, scanVars
  <2> QED  BY <2>1, <2>3, <2>4 DEF StorageFrame
<1>4. ASSUME NEW d \in Db, OpenDriver(d) PROVE StorageFrame'
  <2>1. opened' \subseteq opened /\ db' = d /\ scanned' = NoDb /\ unread' = {} /\ d \in opened'
    BY <1>1, <1>4 DEF OpenDriver, Release
  <2>2. Seen' = {} /\ Stored' = DOMAIN store[d] /\ Fresh'
    BY <1>4 DEF OpenDriver, ScanStart, Seen, Stored, Fresh, EmptyMap
  <2>3. Chains'
    BY <2>2, NothingRead, PTL
  <2>4. DOMAIN EmptyMap = {} /\ store[d] \in Contents
    BY <1>1 DEF EmptyMap, StorageTypes
  <2>5. FoldTypes'
    BY <1>1, <1>4, <2>4 DEF FoldTypes, MapTypes, OpenDriver, ScanStart
  <2>6. StorageTypes'
    BY <1>1, <1>4, <2>1, <2>5 DEF StorageTypes, OpenDriver, ScanStart, HashOrNone
  <2>7. HandleKept'
    BY <1>4, <2>1 DEF HandleKept, OpenDriver, ScanStart
  <2>8. SnapshotKept' /\ ReadKept'
    BY <1>4, <2>1, <2>2 DEF SnapshotKept, ReadKept, Held, Stored, OpenDriver, ScanStart
  <2> QED  BY <2>3, <2>6, <2>7, <2>8 DEF StorageFrame
<1> QED  BY <1>2, <1>3, <1>4

LEMMA FrameSave ==
  ASSUME StorageFrame, NEW h \in Hash, Saving(h)
  PROVE  StorageFrame'
<1>1. StorageTypes /\ FoldTypes /\ HandleKept /\ SnapshotKept /\ ReadKept
  BY DEF StorageFrame, StorageTypes
<1>2. /\ UNCHANGED <<client, prev, snapshot, todo, heads, tails, phase, db, opened, scanned, unread, crashes>>
      /\ countPool' = countPool + 1 /\ lastHash' \in {h, lastHash} /\ lastError' = "NoError"
      /\ acked' = [acked EXCEPT ![db] = @ \cup {h}]
      /\ faults' \in {faults, faults + 1}
  BY DEF Saving, Account, Fail, scanVars
<1>3. Chains' /\ Seen' = Seen /\ Stored' = Stored
  BY <1>2, StandingKeeps DEF StorageFrame, FoldStands
<1>4. db \in Db /\ store[db] \in Contents
  BY <1>1 DEF StorageTypes, Saving, CanSave, IsOpen
<1>5. /\ store' \in [Db -> Contents] /\ unsynced' \in [Db -> Seq(Hash)]
      /\ Held \subseteq DOMAIN store'[db]
      /\ \A x \in Held : store'[db][x] \in {store[db][x], "pool"}
  <2>1. CASE PutEntry(h)
    <3>1. /\ store' \in [Db -> Contents] /\ unsynced' \in [Db -> Seq(Hash)]
          /\ DOMAIN store'[db] = Held \cup {h} /\ store'[db][h] = "pool"
          /\ \A x \in Held \ {h} : store'[db][x] = store[db][x]
      BY <1>1, <1>4, <2>1, PutEffect
    <3> QED  BY <3>1
  <2>2. CASE UNCHANGED <<store, unsynced>>
    BY <1>1, <2>2 DEF StorageTypes, Held
  <2> QED  BY <2>1, <2>2 DEF Saving
<1>6. acked' \in [Db -> SUBSET Hash]
  BY <1>1, <1>2, <1>4 DEF StorageTypes
<1>7. StorageTypes'
  BY <1>1, <1>2, <1>5, <1>6 DEF StorageTypes, FoldTypes, MapTypes, HashOrNone
<1>8. SnapshotKept'
  BY <1>1, <1>2, <1>3, <1>5 DEF SnapshotKept, Held
<1>9. HandleKept' /\ ReadKept'
  BY <1>1, <1>2, <1>3 DEF HandleKept, ReadKept
<1> QED  BY <1>3, <1>7, <1>8, <1>9 DEF StorageFrame

LEMMA CrashedStore ==
  ASSUME StorageTypes, Crash
  PROVE  /\ store' \in [Db -> Contents]
         /\ \A d \in Db : DOMAIN store'[d] \subseteq DOMAIN store[d]
         /\ \A d \in Db : \E n \in Nat : store'[d] = Survivors(d, n)
<1>1. PICK n \in [Db -> 0 .. Cardinality(Hash) + MaxFaults] : store' = [d \in Db |-> Survivors(d, n[d])]
  BY DEF Crash
<1>2. Cardinality(Hash) + MaxFaults \in Nat
  BY HashAssumption, StorageAssumption, FS_CardinalityType
<1>3. \A d \in Db : n[d] \in Nat
  BY <1>1, <1>2
<1>4. \A d \in Db : Survivors(d, n[d]) \in Contents /\ DOMAIN Survivors(d, n[d]) \subseteq DOMAIN store[d]
  BY SurvivorsAreContents DEF StorageTypes
<1> QED  BY <1>1, <1>3, <1>4

LEMMA FrameCrash ==
  ASSUME StorageFrame, Crash, UNCHANGED client
  PROVE  StorageFrame'
<1>1. StorageTypes /\ FoldTypes
  BY DEF StorageFrame, StorageTypes
<1>2. Stored' = {} /\ Seen' = {} /\ Fresh'
  BY DEF Crash, Stored, Seen, Fresh, EmptyMap
<1>3. Chains'
  BY <1>2, NothingRead, PTL
<1>4. FoldTypes'
  <2>1. EmptyMap \in [{} -> Kind] /\ DOMAIN EmptyMap = {}
    BY DEF EmptyMap
  <2>2. EmptyMap \in Contents
    BY <2>1 DEF Contents
  <2> QED  BY <1>1, <2>1, <2>2 DEF Crash, FoldTypes, MapTypes
<1>5. store' \in [Db -> Contents]
  BY <1>1, CrashedStore
<1>6. StorageTypes'
  BY <1>1, <1>4, <1>5 DEF Crash, StorageTypes, HashOrNone
<1>7. HandleKept' /\ SnapshotKept' /\ ReadKept'
  BY <1>2 DEF Crash, HandleKept, SnapshotKept, ReadKept
<1> QED  BY <1>3, <1>6, <1>7 DEF StorageFrame

(* A step of the storage is one of these.                                    *)
LEMMA StepKinds ==
  ASSUME [Next]_allVars
  PROVE  \/ Telling
         \/ UNCHANGED client /\ Scan
         \/ UNCHANGED client /\ OpenReturns
         \/ UNCHANGED client /\ \E d \in Db : DbOpen(d) \/ Damage(d)
         \/ UNCHANGED client /\ (Close \/ \E d \in Db : OpenClosedDriver(d) \/ OpenDriver(d))
         \/ \E h \in Hash : Saving(h)
         \/ UNCHANGED client /\ Crash
<1>1. CASE Opening
  BY <1>1 DEF Opening
<1>2. CASE Client /\ UNCHANGED client
  BY <1>2, TellingSteps, SavingSteps DEF Client, Told
<1>3. CASE (Crash \/ \E d \in Db : Damage(d)) /\ UNCHANGED client
  BY <1>3
<1>4. CASE UNCHANGED allVars
  BY <1>4, TellingSteps
<1> QED  BY <1>1, <1>2, <1>3, <1>4 DEF Next

LEMMA FrameStep ==
  StorageFrame /\ [Next]_allVars => StorageFrame'
<1> SUFFICES ASSUME StorageFrame, [Next]_allVars PROVE StorageFrame'
  OBVIOUS
<1> QED  BY StepKinds, FrameTelling, FrameScan, FrameReturns, FrameDatabase, FrameHandle,
            FrameSave, FrameCrash

THEOREM StorageFrameKept == Spec => []StorageFrame
BY FrameInit, FrameStep, PTL DEF Spec

(* The variables of the handle, of its scan and of the databases keep their  *)
(* types through every call, crash and failure: last_hash is a hash or none, *)
(* and a database holds entries and nothing else (storage.cpp:95-101).       *)
THEOREM StorageTyped == Spec => []StorageTypes
<1>1. StorageFrame => StorageTypes
  BY DEF StorageFrame
<1> QED  BY <1>1, StorageFrameKept, PTL

-----------------------------------------------------------------------------
(* The database is being scanned, or was accepted.                           *)
Attached == db # NoDb /\ (phase # "idle" \/ scanned = db)

(* The blocks count_pool stands for: those the scan has read, and those that *)
(* its callback, or the client after it, saved.                              *)
Counted == Seen \cup (Held \ (Stored \cup unread))

CountsRight ==
  /\ unread \subseteq Held
  /\ countPool - Cardinality(Counted) \in 0 .. faults
  /\ \A h \in Counted : store[db][h] = "pool"

CountsKept == Attached => CountsRight

LEMMA CountedBlocks ==
  ASSUME StorageFrame, db # NoDb
  PROVE  /\ db \in Db /\ Stored \subseteq Held /\ Seen \subseteq Stored
         /\ Counted \subseteq Held /\ Held \subseteq Hash
         /\ IsFiniteSet(Counted) /\ IsFiniteSet(Held)
<1>1. db \in Db
  BY DEF StorageFrame, StorageTypes
<1>2. Stored \subseteq Held
  BY DEF StorageFrame, HandleKept, SnapshotKept
<1>3. Held \subseteq Hash
  BY <1>1, StoredHashes DEF StorageFrame, Held
<1>4. Seen \subseteq Stored
  BY DEF Seen, Stored
<1>5. Counted \subseteq Held
  BY <1>2, <1>4 DEF Counted
<1> QED  BY <1>1, <1>2, <1>3, <1>4, <1>5, HashAssumption, FS_Subset

(* Of a database that stays attached, or is let go, nothing is counted anew. *)
LEMMA CountsStand ==
  ASSUME StorageFrame, CountsKept, UNCHANGED countPool, faults' \in {faults, faults + 1},
         Attached' => /\ Attached /\ db' = db /\ UNCHANGED <<snapshot, todo, unread>>
                      /\ store'[db] = store[db]
  PROVE  CountsKept'
<1> SUFFICES ASSUME Attached' PROVE CountsRight'
  BY DEF CountsKept
<1>1. Counted' = Counted /\ Held' = Held
  BY DEF Counted, Seen, Held, Stored
<1>2. faults \in Nat /\ CountsRight
  BY DEF StorageFrame, StorageTypes, CountsKept
<1>3. countPool' - Cardinality(Counted') \in 0 .. faults'
  BY <1>1, <1>2 DEF CountsRight
<1> QED  BY <1>1, <1>2, <1>3 DEF CountsRight

LEMMA CountsEntry ==
  ASSUME StorageFrame, CountsKept, Scan, ScanEntry
  PROVE  CountsKept'
<1> SUFFICES ASSUME Attached' PROVE CountsRight'
  BY DEF CountsKept
<1>1. UNCHANGED <<prev, snapshot, db, store, faults, scanned, unread>> /\ phase = "scan"
      /\ countPool' = countPool + 1
  BY DEF Scan, ScanNext, ScanEntry, dbVars, failures, history
<1>2. PICK cur \in todo : snapshot[cur] = "pool" /\ todo' = todo \ {cur}
  BY DEF ScanEntry
<1>3. Attached /\ db # NoDb
  BY <1>1 DEF Attached
<1>4. cur \in Stored /\ cur \notin Seen
  BY <1>2 DEF StorageFrame, StorageTypes, FoldTypes, Stored, Seen
<1>5. Counted' = Counted \cup {cur} /\ cur \notin Counted /\ Held' = Held
  BY <1>1, <1>2, <1>4 DEF Counted, Seen, Stored, Held
<1>6. Cardinality(Counted') = Cardinality(Counted) + 1 /\ Cardinality(Counted) \in Nat
  BY <1>3, <1>5, CountedBlocks, FS_AddElement, FS_CardinalityType
<1>7. store[db][cur] = "pool"
  BY <1>1, <1>2, <1>3, <1>4 DEF StorageFrame, SnapshotKept
<1>8. CountsRight /\ countPool \in Nat /\ faults \in Nat
  BY <1>3 DEF CountsKept, StorageFrame, StorageTypes
<1>9. countPool' - Cardinality(Counted') \in 0 .. faults'
  BY <1>1, <1>5, <1>6, <1>8 DEF CountsRight
<1> QED  BY <1>1, <1>5, <1>7, <1>8, <1>9 DEF CountsRight

LEMMA CountsReturns ==
  ASSUME StorageFrame, CountsKept, OpenReturns
  PROVE  CountsKept'
<1> SUFFICES ASSUME Attached' PROVE CountsRight'
  BY DEF CountsKept
<1>1. phase = "done" /\ db' = db /\ db # NoDb /\ unread' = todo /\ unread = {}
  BY DEF Attached, OpenReturns, StorageFrame, HandleKept
<1>2. /\ UNCHANGED <<countPool, store, faults>> /\ Stored' = {} /\ Seen' = {}
      /\ Held' = Held
  BY <1>1 DEF OpenReturns, failures, Stored, Seen, EmptyMap, Held
<1>3. todo \subseteq Stored /\ Seen = Stored \ todo
  BY DEF StorageFrame, StorageTypes, FoldTypes, Seen, Stored
<1>4. Counted' = Counted /\ unread' \subseteq Held'
  BY <1>1, <1>2, <1>3, CountedBlocks DEF Counted
<1>5. Attached
  BY <1>1 DEF Attached
<1> QED  BY <1>1, <1>2, <1>4, <1>5 DEF CountsKept, CountsRight

LEMMA CountsOpening ==
  ASSUME StorageFrame, NEW d \in Db, OpenDriver(d)
  PROVE  CountsKept'
<1>1. Counted' = {} /\ countPool' = 0 /\ unread' = {} /\ faults' = faults
  BY DEF OpenDriver, ScanStart, Counted, Seen, Stored, Held, failures
<1>2. Cardinality({}) = 0 /\ faults \in Nat
  BY FS_EmptySet DEF StorageFrame, StorageTypes
<1> QED  BY <1>1, <1>2 DEF CountsKept, CountsRight

LEMMA CountsSave ==
  ASSUME StorageFrame, CountsKept, NEW h \in Hash, Saving(h)
  PROVE  CountsKept'
<1> SUFFICES ASSUME Attached' PROVE CountsRight'
  BY DEF CountsKept
<1>1. /\ UNCHANGED <<prev, snapshot, todo, db, scanned, unread, phase>>
      /\ countPool' = countPool + 1 /\ faults' \in {faults, faults + 1}
  BY DEF Saving, Account, scanVars
<1>2. Attached /\ db # NoDb
  BY <1>1 DEF Attached
<1>3. /\ db \in Db /\ Stored \subseteq Held /\ Counted \subseteq Held /\ IsFiniteSet(Counted)
      /\ countPool \in Nat /\ faults \in Nat /\ store \in [Db -> Contents]
  BY <1>2, CountedBlocks DEF StorageFrame, StorageTypes
<1>4. Cardinality(Counted) \in Nat /\ CountsRight
  BY <1>2, <1>3, FS_CardinalityType DEF CountsKept
<1>5. CASE PutEntry(h)
  <2>1. /\ DOMAIN store'[db] = Held \cup {h}
        /\ store'[db][h] = "pool"
        /\ \A x \in Held \ {h} : store'[db][x] = store[db][x]
    BY <1>3, <1>5, PutEffect DEF StorageFrame
  <2>2. Seen' = Seen /\ Stored' = Stored
    BY <1>1 DEF Seen, Stored
  <2>3. Counted' \in {Counted, Counted \cup {h}} /\ (h \notin Held => Counted' = Counted \cup {h})
    BY <1>1, <1>3, <1>4, <2>1, <2>2 DEF Counted, Held, CountsRight
  <2>4. /\ Cardinality(Counted') <= Cardinality(Counted) + 1 /\ Cardinality(Counted') \in Nat
        /\ h \notin Held => Cardinality(Counted') = Cardinality(Counted) + 1
    <3>2. Cardinality(Counted \cup {h}) = IF h \in Counted THEN Cardinality(Counted)
                                                         ELSE Cardinality(Counted) + 1
      BY <1>3, FS_AddElement
    <3>3. h \notin Held => h \notin Counted
      BY <1>3
    <3>4. CASE Counted' = Counted
      BY <1>4, <2>3, <3>2, <3>3, <3>4
    <3>5. CASE Counted' = Counted \cup {h}
      BY <1>4, <3>2, <3>3, <3>5
    <3> QED  BY <2>3, <3>4, <3>5
  <2>5. /\ Cardinality(Counted') >= Cardinality(Counted)
        /\ faults' = faults => Cardinality(Counted') = Cardinality(Counted) + 1
    <3>1. faults' = faults => h \notin Held
      BY <1>3, <1>5 DEF Saving
    <3>2. Cardinality(Counted \cup {h}) = IF h \in Counted THEN Cardinality(Counted)
                                                         ELSE Cardinality(Counted) + 1
      BY <1>3, FS_AddElement
    <3>3. CASE Counted' = Counted
      BY <1>4, <2>4, <3>1, <3>3
    <3>4. CASE Counted' = Counted \cup {h}
      BY <1>4, <2>4, <3>1, <3>2, <3>4
    <3> QED  BY <2>3, <3>3, <3>4
  <2>6. \A x \in Counted' : store'[db][x] = "pool"
    BY <1>3, <1>4, <2>1, <2>3 DEF CountsRight
  <2>7. countPool' - Cardinality(Counted') \in 0 .. faults'
    BY <1>1, <1>3, <1>4, <2>4, <2>5 DEF CountsRight
  <2>8. (unread \subseteq Held)'
    BY <1>1, <1>4, <2>1 DEF CountsRight, Held
  <2> QED  BY <1>1, <2>6, <2>7, <2>8 DEF CountsRight
<1>6. CASE UNCHANGED <<store, unsynced>> /\ faults' = faults + 1
  <2>1. Counted' = Counted /\ Held' = Held
    BY <1>1, <1>6 DEF Counted, Seen, Stored, Held
  <2>2. countPool' - Cardinality(Counted') \in 0 .. faults'
    BY <1>1, <1>3, <1>4, <1>6, <2>1 DEF CountsRight
  <2> QED  BY <1>1, <1>4, <1>6, <2>1, <2>2 DEF CountsRight
<1> QED  BY <1>5, <1>6 DEF Saving

LEMMA CountsStep ==
  ASSUME StorageFrame, CountsKept, [Next]_allVars
  PROVE  CountsKept'
<1> USE DEF failures, history, dbVars, scanVars, vars
<1>1. CASE Telling
  <2>1. Attached' = Attached
    BY <1>1 DEF Telling, Attached
  <2> QED  BY <1>1, <2>1, CountsStand DEF Telling
<1>2. CASE Scan
  <2>1. CASE ScanEntry
    BY <1>2, <2>1, CountsEntry
  <2>2. CASE ~ScanEntry
    <3>1. /\ UNCHANGED <<snapshot, todo, countPool, db, scanned, unread, store, faults>>
          /\ phase # "idle"
      BY <1>2, <2>2 DEF Scan, ScanNext, ScanStep, ScanBadEntry, ScanContinue, ScanCancel,
                        ScanAccept, ScanChainError
    <3>2. Attached' => Attached
      BY <3>1 DEF Attached
    <3> QED  BY <3>1, <3>2, CountsStand
  <2> QED  BY <2>1, <2>2
<1>3. CASE OpenReturns
  BY <1>3, CountsReturns
<1>4. ASSUME NEW d \in Db, DbOpen(d) \/ Damage(d) PROVE CountsKept'
  <2>1. /\ UNCHANGED <<snapshot, todo, countPool, db, scanned, unread, phase>> /\ phase = "idle"
        /\ faults' \in {faults, faults + 1} /\ d \notin opened
    BY <1>4 DEF DbOpen, Damage, IOError
  <2>2. Attached' => Attached
    BY <2>1 DEF Attached
  <2>3. Attached => d # db
    BY <2>1 DEF Attached, StorageFrame, HandleKept
  <2>4. Attached => store'[db] = store[db]
    <3>1. store \in [Db -> Contents]
      BY DEF StorageFrame, StorageTypes
    <3>2. db # d /\ db \in Db => store'[db] = store[db]
      BY <1>4, <3>1 DEF DbOpen, Damage
    <3> QED  BY <2>3, <3>2 DEF Attached, StorageFrame, StorageTypes
  <2> QED  BY <2>1, <2>2, <2>3, <2>4, CountsStand
<1>5. CASE Close \/ \E d \in Db : OpenClosedDriver(d)
  <2>1. ~Attached'
    BY <1>5, StorageAssumption DEF Close, OpenClosedDriver, Attached
  <2> QED  BY <2>1 DEF CountsKept
<1>6. CASE \E d \in Db : OpenDriver(d)
  BY <1>6, CountsOpening
<1>7. CASE \E h \in Hash : Saving(h)
  BY <1>7, CountsSave
<1>8. CASE Crash
  BY <1>8 DEF Crash, CountsKept, Attached
<1> QED  BY <1>1, <1>2, <1>3, <1>4, <1>5, <1>6, <1>7, <1>8, StepKinds

THEOREM StorageCounts == Spec => []CountsKept
<1>1. Init => CountsKept
  BY DEF Init, CountsKept, Attached
<1>2. StorageFrame /\ CountsKept /\ [Next]_allVars => CountsKept'
  BY CountsStep
<1> QED  BY <1>1, <1>2, StorageFrameKept, PTL DEF Spec

LEMMA ServingCounts ==
  ASSUME StorageFrame, Serving
  PROVE  Attached /\ Counted = Held \ unread
<1>1. Stored = {} /\ Seen = {} /\ db # NoDb /\ Attached
  BY DEF Serving, Ready, IsOpen, Attached, StorageFrame, HandleKept, Seen, Stored
<1> QED  BY <1>1 DEF Counted

(* size() is the number of blocks in the database, whatever the order of     *)
(* saves, failed opens, reopens and crashes (storage.cpp:179,368), but for   *)
(* what the iterator ended before (storage.cpp:148), and at most one more    *)
(* for each read and write that failed (storage.cpp:360,366).                *)
THEOREM StorageSize == Spec => []SizeIsStored
<1>1. StorageFrame /\ CountsKept => SizeIsStored
  BY ServingCounts DEF CountsKept, CountsRight, SizeIsStored
<1> QED  BY <1>1, StorageFrameKept, StorageCounts, PTL

(* In a database that open() accepted no entry is damaged but one that the   *)
(* iterator ended before (storage.cpp:148,154-176,291-301).                  *)
THEOREM StorageIsSound == Spec => []OpenStoreIsSound
<1>1. StorageFrame /\ CountsKept => OpenStoreIsSound
  BY ServingCounts DEF CountsKept, CountsRight, OpenStoreIsSound
<1> QED  BY <1>1, StorageFrameKept, StorageCounts, PTL

-----------------------------------------------------------------------------
(* A last_hash that was set before the verdict was set by a callback that    *)
(* saved a first block.                                                      *)
TipKept ==
  faults = 0 /\ db # NoDb =>
    /\ Attached /\ lastHash # NoHash => ChainIn(lastHash, Held)
    /\ phase \in {"scan", "callback"} /\ lastHash # NoHash
         => FirstBlocks(Held \ Stored) # {}
    /\ phase = "failed" /\ lastError = "ChainError"
         => \E g, h \in FirstBlocks(Held) : g # h

LEMMA ChainBelow ==
  ASSUME prev \in Forests, NEW h \in Hash, NEW y \in Hash, OnChain(y, h), prev[y] # NoHash
  PROVE  prev[y] \in Hash /\ OnChain(prev[y], h)
<1>1. prev[y] \in Hash
  BY DEF Forests, HashOrNone
<1>2. ASSUME NEW S \in SUBSET Hash, h \in S, \A z \in S : prev[z] \in S \cup {NoHash}
      PROVE  prev[y] \in S
  <2>1. y \in S
    BY <1>2 DEF OnChain
  <2> QED  BY <1>2, <2>1
<1> QED  BY <1>1, <1>2 DEF OnChain

(* A chain that is stored in full stays so when its next block is saved.     *)
LEMMA ChainAbove ==
  ASSUME prev \in Forests, NEW S \in SUBSET Hash, NEW h \in S,
         prev[h] = NoHash \/ ChainIn(prev[h], S)
  PROVE  ChainIn(h, S)
<1> SUFFICES ASSUME NEW x \in Hash, OnChain(x, h) PROVE x \in S
  BY DEF ChainIn
<1>1. CASE prev[h] = NoHash
  <2>1. x \in {h}
    BY <1>1 DEF OnChain
  <2> QED  BY <2>1
<1>2. CASE prev[h] # NoHash
  <2> DEFINE T == {y \in Hash : OnChain(y, prev[h])} \cup {h}
  <2>1. prev[h] \in Hash
    BY <1>2 DEF Forests, HashOrNone
  <2>2. OnChain(prev[h], prev[h])
    BY DEF OnChain
  <2>3. \A y \in T : prev[y] \in T \cup {NoHash}
    BY <2>1, <2>2, ChainBelow
  <2>4. T \in SUBSET Hash /\ h \in T
    OBVIOUS
  <2>5. x \in T
    BY <2>3, <2>4 DEF OnChain
  <2> QED  BY <1>2, <2>5 DEF ChainIn
<1> QED  BY <1>1, <1>2

LEMMA TipStands ==
  ASSUME StorageFrame, TipKept, UNCHANGED <<prev, lastHash>>,
         faults' \in {faults, faults + 1},
         db' # NoDb /\ faults' = 0 =>
           /\ Attached' => Attached /\ Held' = Held
           /\ phase' \in {"scan", "callback"} =>
                phase \in {"scan", "callback"} /\ db # NoDb /\ Held' = Held /\ Stored' = Stored
           /\ phase' = "failed" /\ lastError' = "ChainError" =>
                phase = "failed" /\ lastError = "ChainError" /\ db # NoDb /\ Held' = Held
  PROVE  TipKept'
<1>1. faults' = 0 => faults = 0
  BY DEF StorageFrame, StorageTypes
<1>2. Attached => db # NoDb
  BY DEF Attached
<1> QED  BY <1>1, <1>2 DEF TipKept, ChainIn, OnChain, FirstBlocks

LEMMA TipVerdict ==
  ASSUME StorageFrame, TipKept, Scan, ScanAccept \/ ScanChainError
  PROVE  TipKept'
<1>1. /\ UNCHANGED <<prev, snapshot, todo, db, store, faults, scanned>> /\ phase = "scan"
      /\ phase' \in {"done", "failed"}
  BY DEF Scan, ScanNext, ScanAccept, ScanChainError, dbVars, failures, history
<1> SUFFICES ASSUME faults = 0, db # NoDb
             PROVE  /\ lastHash' # NoHash => ChainIn(lastHash', Held)
                    /\ lastError' = "ChainError" => \E g, h \in FirstBlocks(Held) : g # h
  BY <1>1 DEF TipKept, ChainIn, OnChain, FirstBlocks, Held, Attached
<1>2. FoldTypes /\ Chains /\ Attached
  BY <1>1 DEF StorageFrame, StorageTypes, Attached
<1>3. Stored \subseteq Held /\ Seen \subseteq Stored
  BY CountedBlocks
<1>4. lastHash' # NoHash => ChainIn(lastHash', Held)
  <2>1. lastHash' = lastHash \/ lastHash' \in CompleteChains
    BY DEF ScanAccept, ScanChainError, Judge
  <2>2. \A h \in CompleteChains : ChainIn(h, Seen)
    BY <1>2, HeadChainIsStored
  <2> QED  BY <1>2, <1>3, <2>1, <2>2 DEF ChainIn, TipKept
<1>5. ASSUME lastError' = "ChainError" PROVE \E g, h \in FirstBlocks(Held) : g # h
  <2>1. /\ CompleteChains # {}
        /\ lastHash # NoHash \/ \E g, h \in CompleteChains : g # h
    BY <1>5 DEF ScanAccept, ScanChainError, Judge
  <2>2. FirstBlocks(Seen) \subseteq FirstBlocks(Held)
    BY <1>3 DEF FirstBlocks
  <2>3. CASE \E g, h \in CompleteChains : g # h
    BY <1>2, <2>2, <2>3, CompleteChainsAreFirstBlocks
  <2>4. CASE lastHash # NoHash
    <3>1. PICK g \in FirstBlocks(Seen) : TRUE
      BY <1>2, <2>1, CompleteChainsAreFirstBlocks
    <3>2. PICK f \in FirstBlocks(Held \ Stored) : TRUE
      BY <1>1, <2>4 DEF TipKept
    <3>3. g \in FirstBlocks(Held) /\ f \in FirstBlocks(Held) /\ g # f
      BY <1>3, <2>2, <3>1, <3>2 DEF FirstBlocks
    <3> QED  BY <3>3
  <2> QED  BY <2>1, <2>3, <2>4
<1> QED  BY <1>4, <1>5

LEMMA TipSave ==
  ASSUME StorageFrame, TipKept, NEW h \in Hash, Saving(h)
  PROVE  TipKept'
<1>1. /\ UNCHANGED <<prev, snapshot, db, scanned, phase>> /\ lastError' = "NoError"
      /\ lastHash' = IF lastHash = prev[h] THEN h ELSE lastHash
      /\ db \in Db
  BY DEF Saving, Account, Fail, scanVars, CanSave, IsOpen, StorageFrame, StorageTypes
<1> SUFFICES ASSUME faults' = 0, db # NoDb
             PROVE  /\ Attached /\ lastHash' # NoHash => ChainIn(lastHash', Held')
                    /\ phase \in {"scan", "callback"} /\ lastHash' # NoHash
                         => FirstBlocks(Held' \ Stored) # {}
  BY <1>1 DEF TipKept, ChainIn, OnChain, FirstBlocks, Stored, Attached
<1>2. faults = 0 /\ h \notin Held /\ PutEntry(h) /\ StorageTypes
  BY DEF Saving, StorageFrame, StorageTypes
<1>3. Held' = Held \cup {h}
  BY <1>1, <1>2, PutEffect DEF Held
<1>4. Stored \subseteq Held /\ Held \subseteq Hash /\ prev \in Forests /\ NoHash \notin Hash
  BY <1>2, CountedBlocks, NoHashAssumption DEF StorageTypes, FoldTypes
<1>5. ASSUME Attached, lastHash' # NoHash PROVE ChainIn(lastHash', Held')
  <2>1. lastHash # NoHash => ChainIn(lastHash, Held')
    BY <1>2, <1>3, <1>5 DEF TipKept, ChainIn
  <2>2. CASE lastHash = prev[h]
    <3>1. ChainIn(h, Held \cup {h})
      BY <1>3, <1>4, <2>1, <2>2, ChainAbove
    <3> QED  BY <1>1, <1>3, <2>2, <3>1
  <2>3. CASE lastHash # prev[h]
    BY <1>1, <1>5, <2>1, <2>3
  <2> QED  BY <2>2, <2>3
<1>6. ASSUME phase \in {"scan", "callback"}, lastHash' # NoHash
      PROVE  FirstBlocks(Held' \ Stored) # {}
  <2>1. CASE lastHash = NoHash
    BY <1>1, <1>2, <1>3, <1>4, <1>6, <2>1 DEF FirstBlocks
  <2>2. CASE lastHash # NoHash
    BY <1>2, <1>3, <1>6, <2>2 DEF TipKept, FirstBlocks
  <2> QED  BY <2>1, <2>2
<1> QED  BY <1>5, <1>6

LEMMA TipStep ==
  StorageFrame /\ TipKept /\ [Next]_allVars => TipKept'
<1> SUFFICES ASSUME StorageFrame, TipKept, [Next]_allVars PROVE TipKept'
  OBVIOUS
<1> USE DEF failures, history, dbVars, scanVars, vars
<1>1. CASE Telling
  <2>1. /\ Attached' = Attached /\ Held' = Held /\ Stored' = Stored
        /\ UNCHANGED <<prev, lastHash, db, phase>> /\ faults' \in {faults, faults + 1}
        /\ lastError' = "ChainError" => lastError = "ChainError"
    BY <1>1 DEF Telling, Attached, Held, Stored
  <2> QED  BY <2>1, TipStands
<1>2. CASE Scan
  <2>1. CASE ScanAccept \/ ScanChainError
    BY <1>2, <2>1, TipVerdict
  <2>2. CASE ScanEntry \/ ScanBadEntry \/ ScanContinue \/ ScanCancel
    <3>1. /\ UNCHANGED <<prev, lastHash, snapshot, db, scanned, store, faults>>
          /\ phase \in {"scan", "callback"} /\ phase' # "idle"
          /\ phase' = "failed" => lastError' # "ChainError"
      BY <1>2, <2>2 DEF Scan, ScanNext, ScanEntry, ScanBadEntry, ScanContinue, ScanCancel
    <3>2. Attached' = Attached /\ Held' = Held /\ Stored' = Stored
      BY <3>1 DEF Attached, Held, Stored
    <3> QED  BY <3>1, <3>2, TipStands
  <2> QED  BY <1>2, <2>1, <2>2 DEF Scan, ScanNext, ScanStep
<1>3. CASE OpenReturns
  <2>1. UNCHANGED <<prev, lastHash, store, faults>> /\ phase # "idle" /\ phase' = "idle"
        /\ (db' # NoDb => db' = db)
    BY <1>3 DEF OpenReturns
  <2>2. db' # NoDb => Attached /\ Held' = Held
    BY <2>1 DEF Attached, Held
  <2> QED  BY <2>1, <2>2, TipStands
<1>4. ASSUME NEW d \in Db, DbOpen(d) PROVE TipKept'
  <2>1. /\ UNCHANGED <<prev, lastHash, snapshot, db, scanned, store, phase, lastError, faults>>
    BY <1>4 DEF DbOpen
  <2>2. Attached' = Attached /\ Held' = Held /\ Stored' = Stored
    BY <2>1 DEF Attached, Held, Stored
  <2> QED  BY <2>1, <2>2, TipStands
<1>5. ASSUME NEW d \in Db, Damage(d) PROVE TipKept'
  BY <1>5 DEF Damage, IOError, TipKept, StorageFrame, StorageTypes
<1>6. CASE Close
  BY <1>6 DEF Close, TipKept
<1>7. ASSUME NEW d \in Db, OpenClosedDriver(d) PROVE TipKept'
  BY <1>7, StorageAssumption DEF OpenClosedDriver, TipKept, Attached
<1>8. ASSUME NEW d \in Db, OpenDriver(d) PROVE TipKept'
  BY <1>8 DEF OpenDriver, ScanStart, TipKept
<1>9. CASE \E h \in Hash : Saving(h)
  BY <1>9, TipSave
<1>10. CASE Crash
  BY <1>10 DEF Crash, TipKept
<1> QED  BY <1>1, <1>2, <1>3, <1>4, <1>5, <1>6, <1>7, <1>8, <1>9, <1>10, StepKinds

THEOREM StorageTips == Spec => []TipKept
<1>1. Init => TipKept
  BY DEF Init, TipKept
<1> QED  BY <1>1, TipStep, StorageFrameKept, PTL DEF Spec

(* However blocks are saved, by callbacks of open() too, and also when the   *)
(* iterator of the scan gave up early, all ancestors of last_hash() are in   *)
(* the database, as long as no put or get failed (storage.cpp:190-202,       *)
(* 369-371).                                                                 *)
THEOREM StorageTipChain == Spec => []TipChainStored
<1>1. TipKept => TipChainStored
  BY DEF TipKept, TipChainStored, Serving, Ready, IsOpen, Attached
<1> QED  BY <1>1, StorageTips, PTL

(* open() refuses with ChainError only a database that holds two first       *)
(* blocks, whatever its callback saved, as long as no put or get failed      *)
(* (storage.cpp:190-202).                                                    *)
THEOREM StorageChainErrors == Spec => []ChainErrorIsReal
<1>1. TipKept => ChainErrorIsReal
  BY DEF TipKept, ChainErrorIsReal
<1> QED  BY <1>1, StorageTips, PTL

-----------------------------------------------------------------------------
(* The callbacks of clients that heed open() save nothing.                   *)
HeedKept ==
  client # "any" =>
    /\ phase \in {"scan", "callback"} => lastHash = NoHash
    /\ phase # "idle" /\ db # NoDb => Held = Stored
    /\ phase = "done" => /\ \A g, h \in FirstBlocks(Seen) : g = h
                         /\ lastHash = NoHash <=> FirstBlocks(Seen) = {}
                         /\ lastHash # NoHash => IsLeaf(lastHash, Seen) /\ ChainIn(lastHash, Seen)

(* Such a client saves between the calls of open() only.                     *)
LEMMA HeedingSaves ==
  ASSUME StorageFrame, NEW h \in Hash, Saving(h), client # "any"
  PROVE  /\ phase = "idle" /\ db \in Db /\ scanned = db /\ scanned # NoDb
         /\ Stored = {} /\ Seen = {}
<1>1. db # NoDb /\ scanned = db
  BY DEF Saving, CanSave, IsOpen
<1>2. phase = "idle" /\ db \in Db
  BY <1>1 DEF StorageFrame, StorageTypes, HandleKept
<1> QED  BY <1>1, <1>2 DEF StorageFrame, HandleKept, Seen, Stored

LEMMA HeedAccept ==
  ASSUME StorageFrame, HeedKept, Scan, ScanAccept, UNCHANGED client
  PROVE  HeedKept'
<1> SUFFICES ASSUME client # "any" PROVE HeedKept'
  BY DEF HeedKept
<1>1. /\ UNCHANGED <<prev, snapshot, todo, heads, tails, db, store>>
      /\ phase = "scan" /\ phase' = "done"
  BY DEF Scan, ScanNext, ScanAccept, dbVars
<1>2. FoldTypes /\ Chains /\ lastHash = NoHash
  BY <1>1 DEF StorageFrame, StorageTypes, HeedKept
<1>3. /\ CompleteChains = {} => lastHash' = NoHash
      /\ CompleteChains # {} => lastHash' \in CompleteChains
      /\ \A g, h \in CompleteChains : g = h
  BY <1>2 DEF ScanAccept, Judge
<1>4. NoHash \notin CompleteChains
  BY <1>2, NoHashAssumption DEF CompleteChains, FoldTypes, MapTypes
<1>5. /\ \A g, h \in FirstBlocks(Seen) : g = h
      /\ lastHash' = NoHash <=> FirstBlocks(Seen) = {}
  BY <1>2, <1>3, <1>4, CompleteChainsAreFirstBlocks
<1>6. lastHash' # NoHash => IsLeaf(lastHash', Seen) /\ ChainIn(lastHash', Seen)
  BY <1>2, <1>3, HeadChainIsStored
<1>7. Seen' = Seen /\ Stored' = Stored /\ Held' = Held
  BY <1>1 DEF Seen, Stored, Held
<1> QED  BY <1>1, <1>5, <1>6, <1>7 DEF HeedKept, FirstBlocks, IsLeaf, ChainIn, OnChain

LEMMA HeedStands ==
  ASSUME HeedKept, UNCHANGED <<client, prev, lastHash, snapshot>>,
         phase' # "idle" =>
           /\ phase # "idle" /\ UNCHANGED store /\ db' \in {db, NoDb}
           /\ phase' \in {"scan", "callback"} => phase \in {"scan", "callback"}
           /\ phase' = "done" => phase = "done" /\ UNCHANGED todo
  PROVE  HeedKept'
<1>1. Stored' = Stored
  BY DEF Stored
<1>2. phase' # "idle" /\ db' # NoDb => Held' = Held /\ db # NoDb
  BY DEF Held
<1>3. phase' = "done" => Seen' = Seen
  BY DEF Seen
<1>4. ASSUME client # "any", phase' = "done"
      PROVE  /\ (\A g, h \in FirstBlocks(Seen) : g = h)'
             /\ (lastHash = NoHash <=> FirstBlocks(Seen) = {})'
             /\ (lastHash # NoHash => IsLeaf(lastHash, Seen) /\ ChainIn(lastHash, Seen))'
  BY <1>3, <1>4 DEF HeedKept, FirstBlocks, IsLeaf, ChainIn, OnChain
<1> QED  BY <1>1, <1>2, <1>4 DEF HeedKept

LEMMA HeedStep ==
  StorageFrame /\ HeedKept /\ [Next]_allVars => HeedKept'
<1> SUFFICES ASSUME StorageFrame, HeedKept, [Next]_allVars PROVE HeedKept'
  OBVIOUS
<1> USE DEF failures, history, dbVars, scanVars, vars
<1>1. CASE Telling
  BY <1>1, HeedStands DEF Telling
<1>2. CASE Scan /\ UNCHANGED client
  <2>1. CASE ScanAccept
    BY <1>2, <2>1, HeedAccept
  <2>2. CASE ScanEntry \/ ScanBadEntry \/ ScanContinue \/ ScanCancel
    <3>1. /\ UNCHANGED <<client, prev, lastHash, snapshot, db, store>>
          /\ phase \in {"scan", "callback"} /\ phase' \in {"scan", "callback", "failed"}
      BY <1>2, <2>2 DEF Scan, ScanNext, ScanEntry, ScanBadEntry, ScanContinue, ScanCancel
    <3> QED  BY <3>1, HeedStands
  <2>3. CASE ScanChainError
    <3>1. /\ UNCHANGED <<client, snapshot, db, store>> /\ phase = "scan" /\ phase' = "failed"
      BY <1>2, <2>3 DEF Scan, ScanNext, ScanChainError
    <3> QED  BY <3>1 DEF HeedKept, Held, Stored
  <2> QED  BY <1>2, <2>1, <2>2, <2>3 DEF Scan, ScanNext, ScanStep
<1>3. CASE OpenReturns
  BY <1>3 DEF OpenReturns, HeedKept
<1>4. ASSUME NEW d \in Db, DbOpen(d) \/ Damage(d) PROVE HeedKept'
  BY <1>4 DEF DbOpen, Damage, HeedKept
<1>5. CASE Close /\ UNCHANGED client
  BY <1>5, HeedStands DEF Close
<1>6. ASSUME NEW d \in Db, OpenClosedDriver(d) PROVE HeedKept'
  BY <1>6 DEF OpenClosedDriver, HeedKept
<1>7. ASSUME NEW d \in Db, OpenDriver(d) PROVE HeedKept'
  BY <1>7 DEF OpenDriver, ScanStart, HeedKept, Held, Stored
<1>8. ASSUME NEW h \in Hash, Saving(h) PROVE HeedKept'
  <2>1. client' = client /\ phase' = phase
    BY <1>8 DEF Saving, Account
  <2> QED  BY <1>8, <2>1, HeedingSaves DEF HeedKept
<1>9. CASE Crash
  BY <1>9 DEF Crash, HeedKept
<1> QED  BY <1>1, <1>2, <1>3, <1>4, <1>5, <1>6, <1>7, <1>8, <1>9, StepKinds

THEOREM StorageHeeds == Spec => []HeedKept
<1>1. Init => HeedKept
  BY DEF Init, HeedKept
<1> QED  BY <1>1, HeedStep, StorageFrameKept, PTL DEF Spec

-----------------------------------------------------------------------------
(* The storage implements BlockStore.                                        *)

FaultsInBound == faults <= MaxFaults

LEMMA FaultsBound ==
  faults \in Nat /\ FaultsInBound /\ [Next]_allVars => FaultsInBound'
<1> SUFFICES ASSUME faults \in Nat, faults <= MaxFaults, [Next]_allVars PROVE faults' <= MaxFaults
  BY DEF FaultsInBound
<1> USE StorageAssumption DEF failures
<1>1. CASE Opening
  BY <1>1 DEF Opening, Scan, OpenReturns
<1>2. CASE Client
  <2>1. CASE \E d \in Db : DbOpen(d) \/ OpenClosedDriver(d) \/ OpenDriver(d)
    BY <2>1 DEF DbOpen, OpenClosedDriver, OpenDriver
  <2>2. CASE OpenNoDriver \/ Close \/ SaveNotOpen \/ SaveRefused
    BY <2>2 DEF OpenNoDriver, Close, SaveNotOpen, SaveRefused
  <2>3. ASSUME NEW h \in Hash, SaveStored(h) \/ SaveUnread(h) \/ SaveLost(h)
        PROVE  faults' <= MaxFaults
    <3>1. UNCHANGED faults \/ IOError
      BY <2>3 DEF SaveStored, SaveUnread, SaveLost
    <3> QED  BY <3>1 DEF IOError
  <2>4. CASE LoadUnread \/ \E h \in HashOrNone, meta \in BOOLEAN : Load(h, meta)
    BY <2>4 DEF LoadUnread, Load, IOError
  <2> QED  BY <1>2, <2>1, <2>2, <2>3, <2>4 DEF Client
<1>3. CASE Crash \/ \E d \in Db : Damage(d)
  BY <1>3 DEF Crash, Damage, IOError
<1>4. CASE UNCHANGED allVars
  BY <1>4 DEF allVars
<1> QED  BY <1>1, <1>2, <1>3, <1>4 DEF Next

THEOREM FaultsAreBounded == Spec => []FaultsInBound
<1>1. Init => FaultsInBound
  BY StorageAssumption DEF Init, FaultsInBound
<1>2. StorageFrame => faults \in Nat
  BY DEF StorageFrame, StorageTypes
<1> QED  BY <1>1, <1>2, FaultsBound, StorageFrameKept, PTL DEF Spec

LEMMA ServingIsScanned ==
  ASSUME StorageFrame
  PROVE  /\ Serving <=> scanned # NoDb
         /\ Serving => scanned = db /\ db \in Db /\ phase = "idle"
BY DEF StorageFrame, StorageTypes, HandleKept, Serving, Ready, IsOpen

LEMMA ServingNext ==
  ASSUME StorageFrame'
  PROVE  /\ Serving' <=> scanned' # NoDb
         /\ Serving' => scanned' = db' /\ db' \in Db /\ phase' = "idle"
BY DEF StorageFrame, StorageTypes, HandleKept, Serving, Ready, IsOpen

LEMMA MapStands ==
  ASSUME StorageFrame, StorageFrame',
         UNCHANGED <<prev, store, db, scanned, lastHash, countPool>>
  PROVE  UNCHANGED Abstract!vars
<1>1. Serving' <=> Serving
  BY ServingIsScanned, ServingNext
<1> QED  BY <1>1 DEF Abstract!vars

LEMMA MapCloses ==
  ASSUME StorageFrame', UNCHANGED <<prev, store>>, scanned' = NoDb
  PROVE  Abstract!Close
<1>1. ~Serving'
  BY ServingNext
<1> QED  BY <1>1 DEF Abstract!Close

LEMMA MapOpens ==
  ASSUME ~IteratorMayFail, "any" \notin Discipline, faults = 0,
         StorageFrame, StorageFrame', CountsKept', HeedKept,
         OpenReturns, scanned' # NoDb
  PROVE  \E d \in Db : Abstract!Open(d)
<1>1. phase = "done" /\ scanned' = db /\ UNCHANGED <<prev, store, lastHash, countPool, faults, db>>
  BY DEF OpenReturns, StorageFrame, HandleKept, failures
<1>2. db \in Db /\ db # NoDb /\ Serving' /\ ~Serving
  BY <1>1, ServingIsScanned, ServingNext
<1>3. client # "any"
  BY DEF StorageFrame, StorageTypes
<1>4. Seen = Held
  <2>1. todo = {}
    BY <1>1 DEF StorageFrame, ReadKept
  <2> QED  BY <1>1, <1>2, <1>3, <2>1 DEF HeedKept, Seen, Stored
<1>5. lastHash \in Abstract!Tips(Held)
  BY <1>1, <1>3, <1>4 DEF HeedKept, Abstract!Tips, Abstract!FirstBlocks, FirstBlocks,
     Abstract!IsLeaf, IsLeaf, Abstract!ChainIn, ChainIn, Abstract!OnChain, OnChain
<1>6. countPool' = Cardinality(Held)
  <2>1. Stored' = {} /\ Seen' = {}
    BY DEF OpenReturns, Stored, Seen, EmptyMap
  <2>2. Counted' = Held
    BY <1>1, <2>1 DEF Counted, Held, StorageFrame, ReadKept
  <2>3. Attached'
    BY <1>1, <1>2 DEF Attached
  <2>4. IsFiniteSet(Held)
    BY <1>2, CountedBlocks
  <2>5. Cardinality(Held) \in Nat /\ countPool' \in Nat
    BY <2>4, FS_CardinalityType DEF StorageFrame, StorageTypes
  <2> QED  BY <1>1, <2>2, <2>3, <2>5 DEF CountsKept, CountsRight
<1>7. Abstract!Cardinality(Held) = Cardinality(Held)
  BY Zenon DEF Abstract!Cardinality, Cardinality
<1>8. Abstract!Open(db)
  BY <1>1, <1>2, <1>5, <1>6, <1>7 DEF Abstract!Open, Held
<1> QED  BY <1>2, <1>8

LEMMA MapSaves ==
  ASSUME "any" \notin Discipline, faults' = 0, StorageFrame, StorageFrame', NEW h \in Hash, Saving(h)
  PROVE  Abstract!Save(h)
<1>1. client # "any" /\ faults \in Nat
  BY DEF StorageFrame, StorageTypes
<1>2. db \in Db /\ scanned = db /\ scanned # NoDb
  BY <1>1, HeedingSaves
<1>3. PutEntry(h) /\ h \notin Held
  BY <1>1 DEF Saving
<1>4. /\ UNCHANGED <<prev, db, scanned>> /\ countPool' = countPool + 1
      /\ lastHash' = IF lastHash = prev[h] THEN h ELSE lastHash
  BY DEF Saving, Account
<1>5. Serving /\ Serving'
  BY <1>2, <1>4, ServingIsScanned, ServingNext
<1>6. \A d \in Db : DOMAIN store'[d] = IF d = db THEN DOMAIN store[d] \cup {h} ELSE DOMAIN store[d]
  BY <1>2, <1>3, PutEffect DEF StorageFrame, Held
<1>7. [d \in Db |-> DOMAIN store'[d]] = [[d \in Db |-> DOMAIN store[d]] EXCEPT ![db] = @ \cup {h}]
  BY <1>2, <1>6
<1> QED  BY <1>2, <1>3, <1>4, <1>5, <1>7 DEF Abstract!Save, Held

LEMMA MapCrashes ==
  ASSUME StorageFrame, StorageFrame', Crash
  PROVE  Abstract!Crash
<1>1. ~Serving' /\ prev' = prev
  BY ServingNext DEF Crash
<1>2. \A d \in Db : DOMAIN store'[d] \subseteq DOMAIN store[d]
  BY CrashedStore DEF StorageFrame
<1> QED  BY <1>1, <1>2 DEF Abstract!Crash

LEMMA MapStep ==
  ASSUME ~IteratorMayFail, "any" \notin Discipline, MaxFaults = 0,
         StorageFrame, StorageFrame', CountsKept', HeedKept,
         FaultsInBound, FaultsInBound',
         [Next]_allVars
  PROVE  [Abstract!Next]_Abstract!vars
<1> USE DEF failures, history, dbVars, scanVars, vars
<1>0. faults = 0 /\ faults' = 0
  BY DEF StorageFrame, StorageTypes, FaultsInBound
<1>1. CASE Telling
  BY <1>1, MapStands DEF Telling
<1>2. CASE Scan
  <2>1. UNCHANGED <<prev, store, scanned>> /\ scanned = NoDb
    BY <1>2 DEF Scan, ScanNext, ScanStep, ScanBadEntry, ScanEntry, ScanContinue, ScanCancel,
                ScanAccept, ScanChainError, StorageFrame, HandleKept
  <2> QED  BY <2>1, MapCloses DEF Abstract!Next
<1>3. CASE OpenReturns
  <2>1. CASE scanned' = NoDb
    BY <1>3, <2>1, MapCloses DEF OpenReturns, Abstract!Next
  <2>2. CASE scanned' # NoDb
    BY <1>0, <1>3, <2>2, MapOpens DEF Abstract!Next
  <2> QED  BY <2>1, <2>2
<1>4. ASSUME NEW d \in Db, DbOpen(d) PROVE UNCHANGED Abstract!vars
  BY <1>4, MapStands DEF DbOpen
<1>5. ASSUME NEW d \in Db, Damage(d) PROVE FALSE
  BY <1>0, <1>5 DEF Damage, IOError
<1>6. CASE Close \/ \E d \in Db : OpenClosedDriver(d) \/ OpenDriver(d)
  <2>1. UNCHANGED <<prev, store>> /\ scanned' = NoDb
    BY <1>6 DEF Close, OpenClosedDriver, OpenDriver
  <2> QED  BY <2>1, MapCloses DEF Abstract!Next
<1>7. CASE \E h \in Hash : Saving(h)
  BY <1>0, <1>7, MapSaves DEF Abstract!Next
<1>8. CASE Crash
  BY <1>8, MapCrashes DEF Abstract!Next
<1> QED  BY <1>1, <1>2, <1>3, <1>4, <1>5, <1>6, <1>7, <1>8, StepKinds

(* For clients that heed open(), and while no read or write of a database    *)
(* fails, the storage with its stepwise scan, its maps of partial chains and *)
(* the bookkeeping of pool_save implements BlockStore, in which open() is    *)
(* one step and an open storage simply knows its size and an end of its      *)
(* chain (storage.h:119-221, storage.cpp:113-222,285-376).                   *)
THEOREM StorageRefines ==
  ASSUME ~IteratorMayFail, "any" \notin Discipline, MaxFaults = 0
  PROVE  Spec => ImplementsBlockStore
<1>1. Init => Abstract!Init
  BY DEF Init, Abstract!Init, EmptyMap, Abstract!Forests, Forests, Abstract!Acyclic, Acyclic,
     Abstract!HashOrNone, HashOrNone, Serving, Ready, IsOpen
<1>2. /\ StorageFrame /\ StorageFrame' /\ CountsKept' /\ HeedKept
      /\ FaultsInBound /\ FaultsInBound' /\ [Next]_allVars
      => [Abstract!Next]_Abstract!vars
  BY MapStep
<1> QED  BY <1>1, <1>2, StorageFrameKept, StorageCounts, StorageHeeds, FaultsAreBounded, PTL
         DEF Spec, ImplementsBlockStore, Abstract!Spec

-----------------------------------------------------------------------------
(* The unsynced puts of a database: no key twice, and a block that follows   *)
(* one of them was put after it.                                             *)
PutsInOrder(d) ==
  LET puts == unsynced[d] IN
  /\ \A i \in DOMAIN puts : puts[i] \in DOMAIN store[d]
  /\ \A i, j \in DOMAIN puts : puts[i] = puts[j] => i = j
  /\ \A i \in DOMAIN puts, b \in DOMAIN store[d] :
       prev[b] = puts[i] => \E j \in DOMAIN puts : i < j /\ puts[j] = b

(* last_hash is the leaf that all blocks are below, or there are no blocks.  *)
TipIsEnd ==
  IF lastHash = NoHash THEN Held = {}
  ELSE IsLeaf(lastHash, Held) /\ EndOf(lastHash, Held)

AppendKept ==
  client = "appends" /\ faults = 0 =>
    /\ \A d \in Db : Linear(DOMAIN store[d]) /\ PutsInOrder(d)
    /\ Linear(Stored)
    /\ lastError # "ChainError"
    /\ scanned # NoDb => TipIsEnd

-----------------------------------------------------------------------------
(* A block is appended to a linear chain.                                    *)
LEMMA LinearGrows ==
  ASSUME prev \in Forests, NEW S \in SUBSET Hash, Linear(S), NEW h \in Hash \ S,
         IF prev[h] = NoHash THEN S = {} ELSE IsLeaf(prev[h], S) /\ EndOf(prev[h], S)
  PROVE  Linear(S \cup {h}) /\ IsLeaf(h, S \cup {h}) /\ EndOf(h, S \cup {h})
<1>1. prev[h] # h
  <2>1. {h} \in SUBSET Hash /\ {h} # {}
    OBVIOUS
  <2>2. \E x \in {h} : prev[x] \notin {h}
    BY <2>1, Zenon DEF Forests, Acyclic
  <2> QED  BY <2>2
<1>2. Linear(S \cup {h})
  BY DEF Linear, IsLeaf
<1>3. IsLeaf(h, S \cup {h})
  BY <1>1, NoHashAssumption DEF Linear, IsLeaf
<1>4. OnChain(h, h)
  BY DEF OnChain
<1>5. ASSUME NEW b \in S PROVE OnChain(b, h)
  <2>1. prev[h] # NoHash /\ OnChain(b, prev[h])
    BY DEF EndOf
  <2>2. ASSUME NEW T \in SUBSET Hash, h \in T, \A y \in T : prev[y] \in T \cup {NoHash}
        PROVE  b \in T
    <3>1. prev[h] \in T
      BY <2>1, <2>2
    <3> QED  BY <2>1, <2>2, <3>1 DEF OnChain
  <2> QED  BY <2>2 DEF OnChain
<1> QED  BY <1>2, <1>3, <1>4, <1>5 DEF EndOf

(* A crash that loses the latest puts of a database leaves a linear chain.   *)
LEMMA LinearSurvives ==
  ASSUME StorageTypes, NEW d \in Db, Linear(DOMAIN store[d]), PutsInOrder(d), NEW n \in Nat
  PROVE  Linear(DOMAIN Survivors(d, n))
<1> DEFINE puts == unsynced[d]
           lost == {puts[i] : i \in n + 1 .. Len(puts)}
           kept == {puts[i] : i \in 1 .. n}
           R == DOMAIN Survivors(d, n)
<1>1. puts \in Seq(Hash) /\ DOMAIN puts = 1 .. Len(puts) /\ Len(puts) \in Nat
  BY DEF StorageTypes
<1>2. R = DOMAIN store[d] \ (lost \ kept)
  BY DEF Survivors
<1>3. R \subseteq DOMAIN store[d] /\ NoHash \notin Hash
  BY <1>2, NoHashAssumption
<1> SUFFICES ASSUME NEW b \in R, prev[b] # NoHash, prev[b] \notin R PROVE FALSE
  BY <1>3 DEF Linear
<1>4. prev[b] \in lost /\ prev[b] \notin kept
  BY <1>2, <1>3 DEF Linear
<1>5. PICK i \in n + 1 .. Len(puts) : prev[b] = puts[i]
  BY <1>4
<1>6. PICK j \in DOMAIN puts : i < j /\ puts[j] = b
  BY <1>1, <1>3, <1>5 DEF PutsInOrder
<1>7. j \in n + 1 .. Len(puts)
  BY <1>1, <1>5, <1>6
<1>8. b \in lost
  BY <1>6, <1>7
<1>9. PICK k \in 1 .. n : puts[k] = b
  BY <1>2, <1>8
<1>10. CASE k \in DOMAIN puts
  BY <1>1, <1>6, <1>7, <1>9, <1>10 DEF PutsInOrder
<1>11. CASE k \notin DOMAIN puts
  BY <1>1, <1>7, <1>9, <1>11
<1> QED  BY <1>10, <1>11

LEMMA AppendSave ==
  ASSUME StorageFrame, AppendKept, NEW h \in Hash, Saving(h),
         client = "appends", faults' = 0
  PROVE  AppendKept'
<1>1. /\ phase = "idle" /\ db \in Db /\ scanned = db /\ scanned # NoDb
      /\ faults = 0 /\ PutEntry(h) /\ h \notin Held /\ prev[h] = lastHash /\ StorageTypes
  BY HeedingSaves DEF Saving, CanSave, StorageFrame, StorageTypes
<1>2. /\ UNCHANGED <<client, prev, snapshot, db, scanned, phase>>
      /\ lastHash' = h /\ lastError' = "NoError"
  BY <1>1 DEF Saving, Account, Fail, scanVars
<1>3. /\ Held' = Held \cup {h}
      /\ unsynced'[db] = Append(unsynced[db], h)
      /\ \A d \in Db \ {db} : store'[d] = store[d] /\ unsynced'[d] = unsynced[d]
  BY <1>1, <1>2, PutEffect DEF Held
<1>4. /\ (\A d \in Db : Linear(DOMAIN store[d]) /\ PutsInOrder(d)) /\ Linear(Held) /\ Linear(Stored)
      /\ TipIsEnd
  BY <1>1 DEF AppendKept, Held
<1>5. prev \in Forests /\ Held \in SUBSET Hash /\ h \in Hash \ Held /\ NoHash \notin Hash
  BY <1>1, StoredHashes, NoHashAssumption DEF StorageTypes, FoldTypes, Held
<1>6. /\ Linear(Held \cup {h}) /\ IsLeaf(h, Held \cup {h}) /\ EndOf(h, Held \cup {h})
  BY <1>1, <1>4, <1>5, LinearGrows DEF TipIsEnd
<1>7. ASSUME NEW d \in Db PROVE (Linear(DOMAIN store[d]) /\ PutsInOrder(d))'
  <2>1. CASE d # db
    BY <1>2, <1>3, <1>4, <2>1 DEF Linear, PutsInOrder
  <2>2. CASE d = db
    <3> DEFINE puts == unsynced[db]
    <3>1. /\ puts \in Seq(Hash) /\ DOMAIN puts = 1 .. Len(puts) /\ Len(puts) \in Nat
      BY <1>1 DEF StorageTypes
    <3>2. /\ DOMAIN unsynced'[db] = 1 .. Len(puts) + 1
          /\ unsynced'[db][Len(puts) + 1] = h
          /\ \A i \in DOMAIN puts : unsynced'[db][i] = puts[i]
      BY <1>3, <3>1
    <3>3. /\ \A i \in DOMAIN puts : puts[i] \in Held
          /\ \A i, j \in DOMAIN puts : puts[i] = puts[j] => i = j
          /\ \A i \in DOMAIN puts, b \in Held : prev[b] = puts[i] => \E j \in DOMAIN puts : i < j /\ puts[j] = b
      BY <1>1, <1>4 DEF PutsInOrder, Held
    <3>4. \A b \in Held \cup {h} : prev[b] # h
      BY <1>6 DEF IsLeaf
    <3> DEFINE new == unsynced'[db]
    <3>5. \A i \in DOMAIN new : \/ i \in DOMAIN puts /\ new[i] = puts[i]
                                \/ i = Len(puts) + 1 /\ new[i] = h
      BY <3>1, <3>2
    <3>6. DOMAIN puts \subseteq DOMAIN new /\ Len(puts) + 1 \in DOMAIN new
      BY <3>1, <3>2
    <3>7. \A i \in DOMAIN puts : i < Len(puts) + 1
      BY <3>1
    <3> HIDE DEF new, puts
    <3>8. /\ \A i \in DOMAIN new : new[i] \in Held \cup {h}
          /\ \A i, j \in DOMAIN new : new[i] = new[j] => i = j
      BY <1>5, <3>3, <3>5
    <3>9. ASSUME NEW i \in DOMAIN new, NEW b \in Held \cup {h}, prev[b] = new[i]
          PROVE  \E j \in DOMAIN new : i < j /\ new[j] = b
      <4>1. i \in DOMAIN puts /\ new[i] = puts[i]
        BY <3>4, <3>5, <3>9
      <4>2. CASE b = h
        BY <3>2, <3>6, <3>7, <4>1, <4>2 DEF new
      <4>3. CASE b \in Held
        <5>1. PICK j \in DOMAIN puts : i < j /\ puts[j] = b
          BY <3>3, <3>9, <4>1, <4>3
        <5> QED  BY <3>2, <3>6, <5>1 DEF new
      <4> QED  BY <4>2, <4>3
    <3>10. DOMAIN store'[d] = Held \cup {h} /\ unsynced'[d] = new /\ prev' = prev
      BY <1>2, <1>3, <2>2 DEF Held, new
    <3> QED  BY <1>6, <3>8, <3>9, <3>10 DEF PutsInOrder, Linear
  <2> QED  BY <2>1, <2>2
<1>8. Linear(Stored)'
  BY <1>2, <1>4 DEF Linear, Stored
<1>9. TipIsEnd'
  BY <1>2, <1>3, <1>5, <1>6 DEF TipIsEnd, IsLeaf, EndOf, OnChain
<1> QED  BY <1>2, <1>7, <1>8, <1>9 DEF AppendKept

LEMMA AppendReturns ==
  ASSUME ~IteratorMayFail, StorageFrame, HeedKept, AppendKept, OpenReturns,
         client = "appends", faults = 0, scanned' # NoDb
  PROVE  TipIsEnd'
<1>1. phase = "done" /\ scanned' = db /\ db # NoDb /\ UNCHANGED <<prev, store, lastHash, db>>
  BY DEF OpenReturns, StorageFrame, HandleKept
<1>2. todo = {} /\ FoldTypes /\ lastHash \in HashOrNone
  BY <1>1 DEF StorageFrame, StorageTypes, ReadKept
<1>3. Seen = Held /\ Seen = Stored
  BY <1>1, <1>2 DEF HeedKept, Seen, Stored
<1>4. Linear(Held) /\ Held \in SUBSET Hash
  BY <1>1, <1>3, CountedBlocks DEF AppendKept
<1>5. /\ lastHash = NoHash <=> FirstBlocks(Held) = {}
      /\ lastHash # NoHash => IsLeaf(lastHash, Held) /\ ChainIn(lastHash, Held)
  BY <1>1, <1>3 DEF HeedKept
<1>6. CASE lastHash = NoHash
  <2>1. ASSUME Held # {} PROVE FALSE
    <3>1. PICK g \in Held : prev[g] \notin Held
      BY <1>2, <1>4, <2>1, Zenon DEF FoldTypes, Forests, Acyclic
    <3>2. g \in FirstBlocks(Held)
      BY <1>4, <3>1 DEF Linear, FirstBlocks
    <3> QED  BY <1>5, <1>6, <3>2
  <2> QED  BY <1>1, <1>6, <2>1 DEF TipIsEnd, Held
<1>7. CASE lastHash # NoHash
  <2>1. lastHash \in Hash
    BY <1>2, <1>7 DEF HashOrNone
  <2>2. IsLeaf(lastHash, Held) /\ EndOf(lastHash, Held)
    BY <1>2, <1>4, <1>5, <1>7, <2>1, LinearOneChain DEF FoldTypes
  <2> QED  BY <1>1, <1>7, <2>2 DEF TipIsEnd, IsLeaf, EndOf, OnChain, Held
<1> QED  BY <1>6, <1>7

(* A scan of one linear chain raises no ChainError.                          *)
LEMMA AppendAccepted ==
  ASSUME StorageFrame, HeedKept, AppendKept, client = "appends", faults = 0, Scan
  PROVE  ~ScanChainError
<1> SUFFICES ASSUME ScanChainError PROVE FALSE
  OBVIOUS
<1>1. FoldTypes /\ Chains /\ lastHash = NoHash /\ Linear(Stored)
  BY DEF StorageFrame, StorageTypes, HeedKept, AppendKept, ScanChainError
<1>2. \E g, h \in CompleteChains : g # h
  BY <1>1 DEF ScanChainError, Judge
<1>3. \E g, h \in FirstBlocks(Seen) : g # h
  BY <1>1, <1>2, CompleteChainsAreFirstBlocks
<1>4. Seen \subseteq Stored
  BY DEF Seen, Stored
<1> QED  BY <1>1, <1>3, <1>4 DEF Linear, FirstBlocks

LEMMA AppendStands ==
  ASSUME AppendKept, UNCHANGED <<client, prev, faults, store>>,
         unsynced' = unsynced \/ \E d \in Db : unsynced' = [unsynced EXCEPT ![d] = <<>>],
         unsynced \in [Db -> Seq(Hash)],
         Stored' \in {{}, Stored} \cup {DOMAIN store[d] : d \in Db},
         client = "appends" /\ faults = 0 =>
           /\ lastError' # "ChainError"
           /\ scanned' # NoDb => TipIsEnd'
  PROVE  AppendKept'
<1> SUFFICES ASSUME client = "appends", faults = 0 PROVE AppendKept'
  BY DEF AppendKept
<1>1. /\ \A d \in Db : Linear(DOMAIN store[d]) /\ PutsInOrder(d)
      /\ Linear(Stored)
  BY DEF AppendKept
<1>2. Linear({})
  BY DEF Linear
<1>3. Linear(Stored)'
  BY <1>1, <1>2 DEF Linear
<1>4. ASSUME NEW d \in Db PROVE (Linear(DOMAIN store[d]) /\ PutsInOrder(d))'
  <2>1. Linear(DOMAIN store[d])'
    BY <1>1 DEF Linear
  <2>2. unsynced'[d] = unsynced[d] \/ unsynced'[d] = <<>>
    OBVIOUS
  <2>3. ASSUME unsynced'[d] = unsynced[d] PROVE PutsInOrder(d)'
    BY <1>1, <2>3 DEF PutsInOrder
  <2>4. ASSUME unsynced'[d] = <<>> PROVE PutsInOrder(d)'
    BY <2>4 DEF PutsInOrder
  <2> QED  BY <2>1, <2>2, <2>3, <2>4
<1> QED  BY <1>3, <1>4 DEF AppendKept

LEMMA AppendCrash ==
  ASSUME StorageFrame, AppendKept, Crash, UNCHANGED client
  PROVE  AppendKept'
<1> SUFFICES ASSUME client = "appends", faults = 0 PROVE AppendKept'
  BY DEF AppendKept, Crash
<1>1. /\ UNCHANGED prev /\ scanned' = NoDb /\ lastError' = "NoError" /\ Stored' = {}
      /\ unsynced' = [d \in Db |-> <<>>]
  BY DEF Crash, Stored, EmptyMap
<1>2. ASSUME NEW d \in Db PROVE (Linear(DOMAIN store[d]) /\ PutsInOrder(d))'
  <2>1. PICK n \in Nat : store'[d] = Survivors(d, n)
    BY CrashedStore DEF StorageFrame
  <2>2. Linear(DOMAIN Survivors(d, n))
    BY LinearSurvives DEF StorageFrame, AppendKept
  <2>3. unsynced'[d] = <<>>
    BY <1>1
  <2> QED  BY <1>1, <2>1, <2>2, <2>3 DEF Linear, PutsInOrder
<1> QED  BY <1>1, <1>2 DEF AppendKept, Linear

LEMMA AppendStep ==
  ASSUME ~IteratorMayFail, StorageFrame, HeedKept, AppendKept, [Next]_allVars
  PROVE  AppendKept'
<1> USE DEF failures, history, dbVars, scanVars, vars
<1> SUFFICES ASSUME client' = "appends", faults' = 0 PROVE AppendKept'
  BY DEF AppendKept
<1>0. /\ unsynced \in [Db -> Seq(Hash)] /\ faults \in Nat
      /\ client = "appends" /\ faults = 0 => (lastError # "ChainError" /\ (scanned # NoDb => TipIsEnd))
  BY DEF StorageFrame, StorageTypes, AppendKept
<1>1. CASE Telling
  <2>1. /\ UNCHANGED <<client, prev, store, unsynced, lastHash, db, scanned, faults>> /\ Stored' = Stored
        /\ lastError' \in {lastError} \cup {"NoError", "NotOpen", "InvalidParameter", "DatabaseError",
                                            "DataIntegrityError"}
    BY <1>0, <1>1 DEF Telling, Stored
  <2>2. TipIsEnd' <=> TipIsEnd
    BY <2>1 DEF TipIsEnd, Held, IsLeaf, EndOf, OnChain
  <2> QED  BY <1>0, <2>1, <2>2, AppendStands
<1>2. CASE Scan /\ UNCHANGED client
  <2>1. /\ UNCHANGED <<prev, store, unsynced, scanned, faults>> /\ Stored' = Stored
        /\ scanned = NoDb
    BY <1>2 DEF Scan, ScanNext, ScanStep, ScanBadEntry, ScanEntry, ScanContinue, ScanCancel,
                ScanAccept, ScanChainError, StorageFrame, HandleKept, Stored
  <2>2. lastError' # "ChainError"
    <3>1. ~ScanChainError
      BY <1>2, <2>1, AppendAccepted
    <3> QED  BY <1>0, <1>2, <2>1, <3>1 DEF Scan, ScanNext, ScanStep, ScanBadEntry, ScanEntry,
                                           ScanContinue, ScanCancel, ScanAccept
  <2> QED  BY <1>0, <1>2, <2>1, <2>2, AppendStands
<1>3. CASE OpenReturns /\ UNCHANGED client
  <2>1. /\ UNCHANGED <<prev, store, unsynced, faults>> /\ Stored' = {}
        /\ lastError' \in {lastError, "NoError"}
    BY <1>3 DEF OpenReturns, Fail, Stored, EmptyMap
  <2>2. scanned' # NoDb => TipIsEnd'
    BY <1>3, <2>1, AppendReturns
  <2> QED  BY <1>0, <1>3, <2>1, <2>2, AppendStands
<1>4. ASSUME NEW d \in Db, DbOpen(d), UNCHANGED client PROVE AppendKept'
  <2>1. /\ UNCHANGED <<prev, store, lastHash, lastError, db, scanned, faults>> /\ Stored' = Stored
        /\ unsynced' = [unsynced EXCEPT ![d] = <<>>]
    BY <1>4 DEF DbOpen, Stored
  <2>2. TipIsEnd' <=> TipIsEnd
    BY <2>1 DEF TipIsEnd, Held, IsLeaf, EndOf, OnChain
  <2> QED  BY <1>0, <1>4, <2>1, <2>2, AppendStands
<1>5. ASSUME NEW d \in Db, Damage(d) PROVE FALSE
  BY <1>0, <1>5 DEF Damage, IOError
<1>6. ASSUME Close \/ \E d \in Db : OpenClosedDriver(d) \/ OpenDriver(d), UNCHANGED client
      PROVE  AppendKept'
  <2>1. /\ UNCHANGED <<prev, store, unsynced, faults>> /\ scanned' = NoDb
        /\ lastError' \in {lastError, "NoError", "DatabaseError"}
    BY <1>6 DEF Close, OpenClosedDriver, OpenDriver, Fail
  <2>2. Stored' \in {{}, Stored} \cup {DOMAIN store[d] : d \in Db}
    BY <1>6 DEF Close, OpenClosedDriver, OpenDriver, ScanStart, Stored
  <2> QED  BY <1>0, <1>6, <2>1, <2>2, AppendStands
<1>7. ASSUME NEW h \in Hash, Saving(h) PROVE AppendKept'
  <2>1. client = "appends"
    BY <1>7 DEF Saving
  <2> QED  BY <1>7, <2>1, AppendSave
<1>8. CASE Crash /\ UNCHANGED client
  BY <1>8, AppendCrash
<1> QED  BY <1>1, <1>2, <1>3, <1>4, <1>5, <1>6, <1>7, <1>8, StepKinds

THEOREM StorageAppends ==
  ASSUME ~IteratorMayFail
  PROVE  Spec => []AppendKept
<1>1. Init => AppendKept
  <2> SUFFICES ASSUME Init PROVE AppendKept
    OBVIOUS
  <2>1. DOMAIN EmptyMap = {}
    BY DEF EmptyMap
  <2> QED  BY <2>1 DEF Init, AppendKept, Linear, PutsInOrder, Stored
<1>2. StorageFrame /\ HeedKept /\ AppendKept /\ [Next]_allVars => AppendKept'
  BY AppendStep
<1> QED  BY <1>1, <1>2, StorageFrameKept, StorageHeeds, PTL DEF Spec

(* A client that appends to last_hash() keeps one linear chain in every      *)
(* database, across cancelled opens, reopens and crashes that lose unsynced  *)
(* puts, and never meets a ChainError (storage.cpp:190-202,369-371).         *)
THEOREM StorageOrderly ==
  ASSUME ~IteratorMayFail
  PROVE  Spec => []OrderlyChain
<1>1. AppendKept => OrderlyChain
  BY DEF AppendKept, OrderlyChain
<1> QED  BY <1>1, StorageAppends, PTL

(* For such a client last_hash() is the end of that chain                    *)
(* (storage.h:159-168).                                                      *)
THEOREM StorageTipIsEnd ==
  ASSUME ~IteratorMayFail
  PROVE  Spec => []TipIsEndOfChain
<1>1. StorageFrame /\ AppendKept => TipIsEndOfChain
  BY ServingIsScanned DEF AppendKept, TipIsEnd, TipIsEndOfChain
<1> QED  BY <1>1, StorageAppends, StorageFrameKept, PTL
=============================================================================
