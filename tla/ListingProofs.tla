----------------------------- MODULE ListingProofs -----------------------------
(***************************************************************************)
(* Proofs about the agent's listing calls: the links' details (LinkAttach), *)
(* the walk of a map's keys (KeyWalk) and the walk of the ids (ObjectWalk), *)
(* for any node and however much it changes during the call.                *)
(***************************************************************************)
EXTENDS ObjectWalk, KeyWalk, LinkAttach, SequenceTheorems, FiniteSetTheorems,
        WellFoundedInduction, TLAPS

-----------------------------------------------------------------------------
(* The links' details.                                                     *)

(* Which BTF an object's targets are named in.                              *)
BtfOf(obj) == IF obj = 0 THEN "vmlinux" ELSE BtfKind[obj]
OfKernel(obj) == obj = 0 \/ obj \in DOMAIN BtfKind

Loads == {r \in DOMAIN rows : rows[r].type = "tracing" /\ links[r].btf # 0}
Walks == {r \in DOMAIN rows : rows[r].type = "cgroup"}

(* What the resolver remembers is right or nothing, and it has loaded and   *)
(* walked just when it remembers that, each for a row that needed it.       *)
LinkInv ==
  /\ n \in 0..Len(links) /\ Len(links) \in Nat /\ DOMAIN links = 1..Len(links)
  /\ \A r \in DOMAIN links : links[r] \in LinkKinds
  /\ rows = [r \in 1..n |-> rows[r]]
  /\ \A r \in DOMAIN rows :
        NamesTarget(r) /\ links[r].of = "kernel" => rows[r].target = TrueTarget(links[r])
  /\ kernelBTF \in {"untried", "none", "vmlinux"}
  /\ \A o \in DOMAIN targetSpecs : OfKernel(o) => targetSpecs[o] \in {"none", BtfOf(o)}
  /\ loads = IF kernelBTF = "untried" THEN 0 ELSE 1
  /\ walks = IF cgroupPaths = {} THEN 0 ELSE 1
  /\ loads = 1 => Loads # {}
  /\ walks = 1 => Walks # {}

(* One more element: the rest is as it was.                                 *)
LEMMA OneMore ==
  ASSUME NEW q, NEW m \in Nat, q = [i \in 1..m |-> q[i]], NEW e
  PROVE  /\ Append(q, e) = [i \in 1..(m + 1) |-> Append(q, e)[i]]
         /\ DOMAIN Append(q, e) = 1..(m + 1) /\ DOMAIN q = 1..m
         /\ \A i \in 1..m : Append(q, e)[i] = q[i]
         /\ Append(q, e)[m + 1] = e
<1> DEFINE S == {q[i] : i \in 1..m} \union {e}
<1>1. q \in Seq(S) /\ DOMAIN q = 1..m
  BY SeqDef
<1>2. e \in S
  OBVIOUS
<1> HIDE DEF S
<1>3. Len(q) = m
  BY <1>1, LenProperties
<1> QED
  BY <1>1, <1>2, <1>3, AppendProperties, LenProperties

LEMMA LinkInitial ==
  ASSUME LinkInit
  PROVE  LinkInv
<1>1. PICK k \in 0..MaxLinks : links \in [1..k -> LinkKinds]
  BY DEF LinkInit
<1>2. k \in Nat /\ links \in Seq(LinkKinds)
  BY <1>1, LinkAssumption, SeqDef
<1>3. Len(links) \in Nat /\ DOMAIN links = 1..Len(links) /\ \A r \in DOMAIN links : links[r] \in LinkKinds
  BY <1>2, LenProperties, ElementOfSeq
<1>4. n = 0 /\ rows = <<>> /\ targetSpecs = <<>> /\ kernelBTF = "untried" /\ cgroupPaths = {}
      /\ loads = 0 /\ walks = 0
  BY DEF LinkInit
<1>5. DOMAIN rows = {} /\ rows = [r \in 1..n |-> rows[r]] /\ DOMAIN targetSpecs = {}
  BY <1>4
<1> QED
  BY <1>3, <1>4, <1>5 DEF LinkInv

(* The next link: its target is named from a BTF that is its object's, and  *)
(* what is loaded or walked for it is remembered.                           *)
LEMMA LinkRead ==
  ASSUME LinkInv, ReadLink
  PROVE  LinkInv'
<1> DEFINE l == links[n + 1]
           tracing == l.type = "tracing" /\ l.told
           inCgroup == l.type = "cgroup" /\ l.told
           looks == tracing /\ l.btf # 0 /\ l.obj \notin DOMAIN targetSpecs
           needs == looks /\ NeedsKernel(l.obj)
           row == LinkDetail(l)
<1>1. /\ n \in Nat /\ n + 1 \in 1..Len(links) /\ n' = n + 1 /\ links' = links
      /\ l \in LinkKinds /\ Len(links) \in Nat /\ DOMAIN links = 1..Len(links)
  BY DEF ReadLink, LinkInv, world
<1>2. /\ rows' = Append(rows, row)
      /\ targetSpecs' = IF looks THEN Remember(targetSpecs, l.obj, LoadTargetSpec(l.obj)) ELSE targetSpecs
      /\ kernelBTF' = IF needs THEN Vmlinux ELSE kernelBTF
      /\ loads' = loads + (IF needs /\ kernelBTF = "untried" THEN 1 ELSE 0)
      /\ cgroupPaths' = IF inCgroup THEN {CgroupPaths} ELSE cgroupPaths
      /\ walks' = walks + (IF inCgroup /\ cgroupPaths = {} THEN 1 ELSE 0)
  BY DEF ReadLink
<1>3. /\ rows' = [r \in 1..(n + 1) |-> rows'[r]] /\ DOMAIN rows' = 1..(n + 1) /\ DOMAIN rows = 1..n
      /\ \A r \in 1..n : rows'[r] = rows[r]
      /\ rows'[n + 1] = row
  BY <1>1, <1>2, OneMore DEF LinkInv
<1>4. Vmlinux \in {"none", "vmlinux"}
  BY DEF LinkInv, Vmlinux
<1>5. OfKernel(l.obj) => LoadTargetSpec(l.obj) \in {"none", BtfOf(l.obj)}
  BY LinkAssumption DEF LoadTargetSpec, NeedsKernel, OfKernel, BtfOf
<1>6. OfKernel(l.obj) => TargetSpec(l.obj) \in {"none", BtfOf(l.obj)}
  BY <1>5 DEF LinkInv, TargetSpec
<1>7. row.type = "tracing" => row.target = TargetName(l) /\ tracing
  BY DEF LinkDetail, Detail, RawTracepointAttach, PerfEventAttach, TracingAttach, CgroupAttach
<1>8. /\ tracing => row.type = "tracing"
      /\ inCgroup => row.type = "cgroup"
  BY DEF LinkDetail, Detail, TracingAttach, CgroupAttach
<1>9. l.type = "tracing" /\ row.target # "" /\ l.of = "kernel" => row.target = TrueTarget(l)
  <2> SUFFICES ASSUME l.type = "tracing", row.target # "", l.of = "kernel"
               PROVE  row.target = TrueTarget(l)
    OBVIOUS
  <2>1. row.target = TargetName(l)
    BY DEF LinkDetail, Detail, TracingAttach
  <2>2. OfKernel(l.obj)
    BY <1>1, LinkAssumption DEF OfKernel
  <2>3. <<TargetSpec(l.obj), l.btf>> \in DOMAIN TypeName /\ row.target = TypeName[<<TargetSpec(l.obj), l.btf>>]
    BY <2>1 DEF TargetName
  <2>4. TargetSpec(l.obj) # "none"
    BY <2>3, LinkAssumption
  <2> QED
    BY <1>6, <2>2, <2>3, <2>4 DEF TrueTarget, BtfOf
<1> HIDE DEF row, l
<1>10. \A r \in DOMAIN rows' :
         NamesTarget(r)' /\ links'[r].of = "kernel" => rows'[r].target = TrueTarget(links'[r])
  <2> SUFFICES ASSUME NEW r \in 1..(n + 1), NamesTarget(r)', links'[r].of = "kernel"
               PROVE  rows'[r].target = TrueTarget(links'[r])
    BY <1>3
  <2>1. links'[r] = links[r] /\ links[r].type = "tracing" /\ rows'[r].target # ""
    BY <1>1 DEF NamesTarget
  <2>2. CASE r \in 1..n
    BY <1>3, <2>1, <2>2 DEF LinkInv, NamesTarget
  <2>3. CASE r = n + 1
    BY <1>3, <1>9, <2>1, <2>3 DEF l
  <2> QED
    BY <1>1, <2>2, <2>3
<1>11. \A o \in DOMAIN targetSpecs' : OfKernel(o) => targetSpecs'[o] \in {"none", BtfOf(o)}
  BY <1>2, <1>5 DEF LinkInv, Remember
<1>12. Loads \subseteq Loads' /\ Walks \subseteq Walks' /\ (needs => n + 1 \in Loads') /\ (inCgroup => n + 1 \in Walks')
  BY <1>1, <1>3, <1>8 DEF Loads, Walks, l
<1>13. kernelBTF' \in {"untried", "none", "vmlinux"} /\ loads' = IF kernelBTF' = "untried" THEN 0 ELSE 1
  BY <1>2, <1>4 DEF LinkInv
<1>14. walks' = IF cgroupPaths' = {} THEN 0 ELSE 1
  BY <1>2 DEF LinkInv
<1>15. (loads' = 1 => Loads' # {}) /\ (walks' = 1 => Walks' # {})
  BY <1>2, <1>12 DEF LinkInv
<1> QED
  BY <1>1, <1>3, <1>10, <1>11, <1>13, <1>14, <1>15 DEF LinkInv

LEMMA LinkInvariant == LinkSpec => []LinkInv
<1>1. LinkInv /\ [LinkNext]_linkVars => LinkInv'
  <2> SUFFICES ASSUME LinkInv, [LinkNext]_linkVars PROVE LinkInv'
    OBVIOUS
  <2>1. CASE ReadLink
    BY <2>1, LinkRead
  <2>2. CASE UNCHANGED <<links, n, rows, resolver>>
    BY <2>2 DEF LinkInv, NamesTarget, Loads, Walks, resolver
  <2> QED
    BY <2>1, <2>2 DEF LinkNext, ProgramGone, CgroupGone, linkVars, world
<1> QED
  BY <1>1, LinkInitial, PTL DEF LinkSpec

(* ResolvedOnce holds of every reachable state: a target in the kernel is   *)
(* named right from whichever BTF was loaded for an earlier link, and       *)
(* nothing is loaded or walked twice, or for nobody (links.go:226-368).      *)
THEOREM LinksResolvedOnce == LinkSpec => []ResolvedOnce
<1>1. LinkInv => ResolvedOnce
  <2> SUFFICES ASSUME LinkInv PROVE ResolvedOnce
    OBVIOUS
  <2>1. IsFiniteSet(1..n) /\ n \in Nat
    BY FS_Interval DEF LinkInv
  <2>2. Loads \in SUBSET (1..n) /\ Walks \in SUBSET (1..n)
    BY DEF Loads, Walks, LinkInv
  <2>3. /\ Cardinality(Loads) \in Nat /\ (Loads # {} => Cardinality(Loads) # 0)
        /\ Cardinality(Walks) \in Nat /\ (Walks # {} => Cardinality(Walks) # 0)
    BY <2>1, <2>2, FS_Subset, FS_CardinalityType, FS_EmptySet
  <2>4. /\ loads \in {0, 1} /\ (loads = 1 => Loads # {})
        /\ walks \in {0, 1} /\ (walks = 1 => Walks # {})
    BY DEF LinkInv
  <2>5. loads <= Cardinality(Loads) /\ walks <= Cardinality(Walks) /\ loads <= 1 /\ walks <= 1
    BY <2>3, <2>4
  <2> QED
    BY <2>5 DEF LinkInv, ResolvedOnce, Loads, Walks
<1> QED
  BY <1>1, LinkInvariant, PTL

-----------------------------------------------------------------------------
(* The walk of a map's keys.                                               *)

LEMMA LowestIsIn ==
  ASSUME NEW S \in SUBSET Nat, S # {}
  PROVE  \E x \in S : \A y \in S : x <= y
<1>1. PICK x \in S : \A y \in S : <<y, x>> \notin OpToRel(<, Nat)
  BY NatLessThanWellFounded, WFMin
<1>2. \A y \in S : ~(y < x)
  BY <1>1, Zenon DEF OpToRel
<1> QED
  BY <1>2

(* The key that comes after a given one, or after none.                     *)
LEMMA AfterIsNext ==
  ASSUME KeyTypeOK, NEW k \in Keys \union {NoKey}
  PROVE  /\ After(k) \in Keys \union {NoKey}
         /\ After(k) = NoKey => \A j \in DOMAIN slots : ~(j > k)
         /\ After(k) # NoKey => \A j \in DOMAIN slots : j > k => After(k) <= j
<1> DEFINE above == {j \in DOMAIN slots : j > k}
<1>1. above \in SUBSET Nat /\ above \subseteq Keys /\ DOMAIN slots \subseteq Keys
  BY KeyAssumption DEF KeyTypeOK, Keys
<1>2. CASE above = {}
  BY <1>2 DEF After
<1>3. CASE above # {}
  <2>1. \E j \in above : \A i \in above : j <= i
    BY <1>1, <1>3, LowestIsIn
  <2>2. After(k) \in above /\ \A i \in above : After(k) <= i
    BY <1>3, <2>1 DEF After
  <2>3. NoKey \notin Keys
    BY DEF NoKey, Keys
  <2> QED
    BY <1>1, <2>2, <2>3
<1> QED
  BY <1>2, <1>3

(* A dump reads every slot there is, a list of slots the ones in use.       *)
Wanted(k) == for = "dump" \/ slots[k] # 0
HasRead(k) == \E e \in DOMAIN entries : entries[e] = [key |-> k, id |-> slots[k]]

KeyInv ==
  /\ KeyTypeOK
  /\ entries \in Seq([key : Keys, id : Objects \union {0}])
  /\ Len(entries) <= limit
  /\ truncated => Len(entries) = limit
  /\ \A k \in calm \ unread : Wanted(k) /\ Behind(k) => HasRead(k)
  /\ step = "first" => key = NoKey

LEMMA KeyInitial ==
  ASSUME KeyInit
  PROVE  KeyInv
<1>1. limit \in Nat \ {0}
  BY KeyAssumption DEF KeyInit, DumpAsked, SlotsAsked, DumpLimit
<1>2. for \in {"dump", "slots"} /\ key = NoKey /\ 0 \in 0..MaxEdits /\ edits = 0
  BY KeyAssumption DEF KeyInit, DumpAsked, SlotsAsked
<1>3. PICK ks \in IF hash THEN SUBSET Keys ELSE {Keys} : slots \in [ks -> Objects \union {0}]
  BY DEF KeyInit
<1>4. DOMAIN slots = ks /\ ks \subseteq Keys /\ (hash \/ ks = Keys)
  BY <1>3 DEF KeyInit
<1>5. entries = <<>> /\ DOMAIN entries = {} /\ Len(entries) = 0
      /\ entries \in Seq([key : Keys, id : Objects \union {0}])
  BY EmptySeq DEF KeyInit
<1>6. KeyTypeOK
  BY <1>1, <1>2, <1>3, <1>4, <1>5 DEF KeyInit, KeyTypeOK
<1> QED
  BY <1>1, <1>5, <1>6 DEF KeyInit, KeyInv, Behind, NoKey, Keys

(* The owner's changes leave the calm keys' slots alone.                    *)
LEMMA KeyEdited ==
  ASSUME KeyInv, NEW k \in Keys, Delete(k) \/ \E id \in Objects \union {0} : Put(k, id)
  PROVE  KeyInv'
<1> USE DEF KeyInv, walk
<1>1. /\ UNCHANGED <<for, limit, step, key, entries, truncated, cut, hash, unread, looked>>
      /\ calm' = calm \ {k} /\ edits' = edits + 1 /\ edits < MaxEdits
      /\ \A j \in calm' : j \in DOMAIN slots' /\ slots'[j] = slots[j]
  BY DEF Delete, Put, KeyTypeOK
<1>2. /\ DOMAIN slots' \subseteq Keys /\ (hash \/ DOMAIN slots' = Keys)
      /\ \A j \in DOMAIN slots' : slots'[j] \in Objects \union {0}
  BY DEF Delete, Put, KeyTypeOK
<1>3. edits' \in 0..MaxEdits
  BY <1>1, KeyAssumption DEF KeyTypeOK
<1>4. KeyTypeOK'
  BY <1>1, <1>2, <1>3 DEF KeyTypeOK
<1>5. ASSUME NEW j \in (calm \ unread)', Wanted(j)', Behind(j)'
      PROVE  HasRead(j)'
  <2>1. Wanted(j) /\ Behind(j) /\ j \in calm \ unread
    BY <1>1, <1>5 DEF Wanted, Behind
  <2> QED
    BY <1>1, <1>5, <2>1 DEF HasRead
<1> QED
  BY <1>1, <1>4, <1>5

(* To the next key, the walk passes over none that is there.                *)
LEMMA KeyGoes ==
  ASSUME KeyInv, FirstKey \/ AskNext
  PROVE  KeyInv'
<1> USE DEF KeyInv, mapVars, history
<1> DEFINE from == IF step = "next" /\ key \in DOMAIN slots THEN key ELSE NoKey
<1>1. /\ Go(After(from)) /\ from \in Keys \union {NoKey}
      /\ UNCHANGED <<hash, slots, edits, for, limit, entries, truncated, cut, calm, unread, looked>>
  BY DEF FirstKey, AskNext, NextKey, KeyTypeOK
<1>2. /\ After(from) \in Keys \union {NoKey}
      /\ After(from) = NoKey => \A j \in DOMAIN slots : ~(j > from)
      /\ After(from) # NoKey => \A j \in DOMAIN slots : j > from => After(from) <= j
  BY <1>1, AfterIsNext
<1>3. KeyTypeOK'
  BY <1>1, <1>2 DEF Go, KeyTypeOK
<1>4. ASSUME NEW j \in (calm \ unread)', Wanted(j)', Behind(j)'
      PROVE  HasRead(j)'
  <2>1. j \in DOMAIN slots /\ j \in Keys /\ j \in Nat /\ j \in calm \ unread /\ Wanted(j)
    BY <1>1, <1>4 DEF KeyTypeOK, Wanted, Keys
  <2>2. from \in Int /\ After(from) \in Int
    BY <1>1, <1>2 DEF Keys, NoKey
  <2>3. ~(j > from)
    <3>1. CASE After(from) = NoKey
      BY <1>2, <2>1, <3>1
    <3>2. CASE After(from) # NoKey
      <4>1. j < After(from)
        BY <1>1, <1>2, <1>4, <2>1, <2>2, <3>2 DEF Go, Behind
      <4> QED
        BY <1>2, <2>1, <2>2, <3>2, <4>1
    <3> QED
      BY <3>1, <3>2
  <2>4. step = "next" /\ j <= key
    BY <2>1, <2>2, <2>3 DEF NoKey
  <2>5. HasRead(j)
    BY <2>1, <2>4 DEF Behind, KeyTypeOK, Keys
  <2> QED
    BY <1>1, <2>5 DEF HasRead
<1> QED
  BY <1>1, <1>3, <1>4 DEF Go

(* What the walk takes of the key it is at.                                 *)
LEMMA KeyTaken ==
  ASSUME KeyInv, Take
  PROVE  KeyInv'
<1> USE DEF KeyInv, mapVars, history
<1>1. PICK id \in fdArrayID(key) :
        /\ entries' = IF for = "dump" \/ id # 0 THEN Append(entries, [key |-> key, id |-> id]) ELSE entries
        /\ unread' = IF key \in DOMAIN slots /\ id # slots[key] THEN unread \union {key} ELSE unread
  BY DEF Take
<1> DEFINE e == [key |-> key, id |-> id]
           E == [key : Keys, id : Objects \union {0}]
<1>2. /\ step = "take" /\ step' = "next" /\ Len(entries) < limit /\ key \in Keys
      /\ looked' = looked + 1
      /\ UNCHANGED <<hash, slots, edits, for, limit, key, truncated, cut, calm>>
  BY DEF Take, KeyTypeOK
<1>3. e \in E
  BY <1>1, <1>2 DEF fdArrayID, KeyTypeOK
<1>4. entries \in Seq(E) /\ Len(entries) \in Nat /\ DOMAIN entries = 1..Len(entries)
  BY LenProperties
<1> HIDE DEF E
<1>5. /\ entries' \in Seq(E) /\ Len(entries') <= Len(entries) + 1 /\ DOMAIN entries' = 1..Len(entries')
      /\ Len(entries') \in Nat /\ Len(entries) <= Len(entries')
      /\ \A i \in DOMAIN entries : i \in DOMAIN entries' /\ entries'[i] = entries[i]
      /\ (for = "dump" \/ id # 0) => \E i \in DOMAIN entries' : entries'[i] = e
  <2>1. CASE for = "dump" \/ id # 0
    <3> HIDE DEF e
    <3>1. entries' = Append(entries, e)
      BY <1>1, <2>1 DEF e
    <3>2. /\ entries' \in Seq(E) /\ Len(entries') = Len(entries) + 1
          /\ \A i \in 1..Len(entries) : entries'[i] = entries[i]
          /\ entries'[Len(entries) + 1] = e
      BY <1>3, <1>4, <3>1, AppendProperties
    <3> QED
      BY <1>4, <3>2, LenProperties
  <2>2. CASE ~(for = "dump" \/ id # 0)
    BY <1>1, <1>4, <2>2
  <2> QED
    BY <2>1, <2>2
<1>6. Len(entries') <= limit /\ limit \in Nat
  <2>1. limit \in Nat
    BY DEF KeyTypeOK
  <2>2. \A x, y, z \in Nat : x < z /\ y <= x + 1 => y <= z
    OBVIOUS
  <2> QED
    BY ONLY <1>2, <1>4, <1>5, <2>1, <2>2
<1>7. ~truncated
  <2>1. truncated => Len(entries) = limit
    OBVIOUS
  <2>2. \A x, z \in Nat : x < z => x # z
    OBVIOUS
  <2> QED
    BY ONLY <1>2, <1>4, <1>6, <2>1, <2>2
<1>8. KeyTypeOK'
  <2>1. \A i \in DOMAIN entries' : entries'[i] \in E
    BY <1>5, ElementOfSeq
  <2> QED
    BY <1>1, <1>2, <2>1 DEF KeyTypeOK, E
<1>9. ASSUME NEW j \in (calm \ unread)', Wanted(j)', Behind(j)'
      PROVE  HasRead(j)'
  <2>1. j \in calm \ unread /\ Wanted(j) /\ j \in Keys /\ j \in DOMAIN slots /\ j <= key
    BY <1>1, <1>2, <1>9 DEF KeyTypeOK, Wanted, Behind, Keys
  <2>2. CASE j = key
    <3>1. id = slots[key]
      BY <1>1, <1>9, <2>1, <2>2
    <3> QED
      <4>1. PICK i \in DOMAIN entries' : entries'[i] = e
        <5>1. for = "dump" \/ id # 0
          BY <2>1, <2>2, <3>1 DEF Wanted
        <5> QED
          BY ONLY <1>5, <5>1
      <4>2. e = [key |-> j, id |-> slots'[j]]
        BY <1>2, <2>2, <3>1
      <4> QED
        BY <4>1, <4>2 DEF HasRead
  <2>3. CASE j # key
    <3>1. j < key
      BY <1>2, <2>1, <2>3 DEF Keys
    <3>2. HasRead(j)
      BY <1>2, <2>1, <3>1 DEF Behind
    <3> QED
      <4>1. PICK i \in DOMAIN entries : entries[i] = [key |-> j, id |-> slots[j]]
        BY <3>2 DEF HasRead
      <4>2. i \in DOMAIN entries' /\ entries'[i] = [key |-> j, id |-> slots'[j]]
        <5>1. slots' = slots
          BY <1>2
        <5> QED
          BY ONLY <1>5, <4>1, <5>1
      <4> QED
        BY <4>2 DEF HasRead
  <2> QED
    BY <2>2, <2>3
<1> QED
  BY <1>2, <1>5, <1>6, <1>7, <1>8, <1>9 DEF E

LEMMA KeyEnds ==
  ASSUME KeyInv, NoFirstKey \/ Full \/ NoNext
  PROVE  KeyInv'
<1> USE DEF KeyInv, mapVars, history
<1>1. /\ UNCHANGED <<hash, slots, edits, for, limit, key, entries, calm, unread, looked>>
      /\ step' \in {"failed", "done"} /\ Len(entries) \in Nat
  BY LenProperties DEF NoFirstKey, Full, NoNext
<1>2. KeyTypeOK'
  BY <1>1 DEF NoFirstKey, Full, NoNext, KeyTypeOK
<1>3. CASE NoFirstKey \/ NoNext
  <2>1. ASSUME NEW j \in (calm \ unread)', Behind(j)'
        PROVE  j \in calm \ unread /\ Behind(j)
    BY <1>1, <1>3, <2>1 DEF NoFirstKey, NoNext, Behind
  <2> QED
    BY <1>1, <1>2, <1>3, <2>1 DEF NoFirstKey, NoNext, Wanted, HasRead
<1>4. CASE Full
  <2>1. Len(entries) = limit /\ truncated' = (for = "dump") /\ for \in {"dump", "slots"} /\ limit \in Nat
    BY <1>1, <1>4 DEF Full, KeyTypeOK
  <2>2. ASSUME NEW j, Behind(j)'
        PROVE  Behind(j)
    <3>1. step' = "done" /\ for' = for /\ limit' = limit /\ entries' = entries
      BY <1>4 DEF Full
    <3>2. CASE for = "dump"
      BY <1>1, <1>4, <2>1, <2>2, <3>1, <3>2 DEF Full, Behind
    <3>3. CASE for = "slots"
      <4>1. ~(Len(entries) < limit)
        BY <2>1
      <4> QED
        BY <1>1, <1>4, <2>2, <3>1, <3>3, <4>1 DEF Full, Behind
    <3> QED
      BY <2>1, <3>2, <3>3
  <2> QED
    BY <1>1, <1>2, <1>4, <2>1, <2>2 DEF Full, Wanted, HasRead
<1> QED
  BY <1>3, <1>4

LEMMA KeyInvariant == KeySpec => []KeyInv
<1>1. KeyInv /\ [KeyNext]_keyVars => KeyInv'
  <2> SUFFICES ASSUME KeyInv, [KeyNext]_keyVars PROVE KeyInv'
    OBVIOUS
  <2>1. CASE UNCHANGED keyVars
    BY <2>1 DEF KeyInv, KeyTypeOK, Wanted, Behind, HasRead, keyVars, mapVars, walk, history
  <2> QED
    BY <2>1, KeyEdited, KeyGoes, KeyTaken, KeyEnds DEF KeyNext
<1> QED
  BY <1>1, KeyInitial, PTL DEF KeySpec

(* KeyWalkIsSound holds of every reachable state: however often deletions   *)
(* sent the walk back to the first key, and however it ended, it has every  *)
(* slot behind it that stayed as it was and could be looked up              *)
(* (inspector.go:169-232, 394-415).                                         *)
THEOREM KeyWalkAlwaysSound == KeySpec => []KeyWalkIsSound
<1>1. KeyInv => KeyWalkIsSound
  BY DEF KeyInv, KeyWalkIsSound, KeptKeysAreRead, Wanted, HasRead
<1> QED
  BY <1>1, KeyInvariant, PTL

-----------------------------------------------------------------------------
(* The walk of the ids: the node.                                          *)

Rows == [id : Ids, gen : Nat, pids : SUBSET Procs, share : SUBSET Int]

(* The node's own order: an fd holds something that is there, and every     *)
(* moment's holders have been recorded.                                     *)
NodeOrder ==
  /\ \A p \in Pairs : fd[p] # NoId => fd[p] \in Live
  /\ HeldIn(fd, gen) \subseteq held
  /\ \A p \in kept : fd[p] # NoId

WalkTyped ==
  /\ WalkTypeOK
  /\ out \in Seq(Rows)
  /\ \A i \in DOMAIN before : before[i] \in Nat
  /\ pc = "open" => cur \in Ids
  /\ NodeOrder

LEMMA FreeIds == NextFree \subseteq Ids \ Live
BY DEF NextFree, Live

LEMMA WalkStarts ==
  ASSUME WalkInit
  PROVE  WalkTyped
<1>1. PICK live \in SUBSET Ids :
        /\ gen = [i \in Ids |-> IF i \in live THEN i ELSE 0]
        /\ stayed = live
        /\ fd \in [Pairs -> {NoId} \union (IF call = "links" THEN {} ELSE live)]
  BY DEF WalkInit
<1>2. Ids \subseteq Nat \ {0} /\ {1, MaxId} \subseteq Ids /\ MaxId \in Nat /\ 0 \in 0..MaxChanges
  BY WalkAssumption DEF Ids
<1>3. Live = live
  BY <1>1, <1>2 DEF Live
<1>4. /\ gen \in [Ids -> Nat] /\ fd \in [Pairs -> Ids \union {NoId}]
      /\ \A p \in Pairs : fd[p] # NoId => fd[p] \in Live
  BY <1>1, <1>2, <1>3
<1>5. out = <<>> /\ before = <<>> /\ DOMAIN out = {} /\ DOMAIN before = {} /\ out \in Seq(Rows)
  BY EmptySeq DEF WalkInit
<1>6. WalkTypeOK
  BY <1>1, <1>2, <1>3, <1>4, <1>5 DEF WalkInit, WalkTypeOK
<1>7. NodeOrder
  BY <1>4 DEF WalkInit, NodeOrder
<1> QED
  BY <1>5, <1>6, <1>7 DEF WalkInit, WalkTyped

(* What the node does leaves the listing's own variables alone.             *)
LEMMA NodeTyped ==
  ASSUME WalkTyped, NodeStep
  PROVE  WalkTyped' /\ UNCHANGED agent
<1> USE DEF WalkTyped, agent, past
<1>1. ASSUME Changing
      PROVE  changes' \in 0..MaxChanges
  BY <1>1, WalkAssumption DEF Changing, WalkTypeOK
<1>2. CASE Make
  <2>1. PICK i \in NextFree : /\ gen' = [gen EXCEPT ![i] = made + 1]
                              /\ rt' = [rt EXCEPT ![i] = 0] /\ used' = [used EXCEPT ![i] = 0]
                              /\ last' = i
    BY <1>2 DEF Make
  <2>2. i \in Ids /\ i \notin Live /\ gen[i] = 0
    BY <2>1, FreeIds DEF Live
  <2>3. made \in Nat /\ made' = made + 1 /\ gen \in [Ids -> Nat]
    BY <1>2 DEF Make, WalkTypeOK
  <2>4. Live' = Live \union {i}
    BY <2>1, <2>2, <2>3 DEF Live
  <2>5. UNCHANGED <<fd, on, agent, stayed, kept, held, skipped>> /\ changes' \in 0..MaxChanges
    BY <1>1, <1>2 DEF Make
  <2>6. WalkTypeOK'
    <3>1. rt \in [Ids -> Nat] /\ used \in [Ids -> Nat] /\ stayed \subseteq Live
      BY DEF WalkTypeOK
    <3>2. gen' \in [Ids -> Nat] /\ made' \in Nat /\ last' \in Ids
      BY <2>1, <2>2, <2>3
    <3>3. rt' \in [Ids -> Nat] /\ used' \in [Ids -> Nat] /\ stayed' \subseteq Live'
      BY <2>1, <2>2, <2>4, <2>5, <3>1
    <3> QED
      BY <2>5, <3>2, <3>3 DEF WalkTypeOK
  <2>7. HeldIn(fd', gen') = HeldIn(fd, gen)
    <3>1. \A q \in Pairs : fd[q] # NoId => fd[q] # i /\ gen'[fd[q]] = gen[fd[q]]
      BY <2>1, <2>2, <2>3 DEF NodeOrder, Live
    <3> QED
      BY <2>5, <3>1 DEF HeldIn
  <2>8. NodeOrder'
    BY <2>4, <2>5, <2>7 DEF NodeOrder
  <2> QED
    BY <2>5, <2>6, <2>8
<1>3. ASSUME NEW i \in Ids, Free(i)
      PROVE  WalkTyped' /\ UNCHANGED agent
  <2>1. /\ gen' = [gen EXCEPT ![i] = 0] /\ stayed' = stayed \ {i} /\ gen \in [Ids -> Nat]
        /\ UNCHANGED <<made, last, fd, rt, on, agent, kept, held, skipped, used>>
        /\ \A p \in Pairs : fd[p] # i
        /\ changes' \in 0..MaxChanges
    BY <1>1, <1>3 DEF Free, WalkTypeOK
  <2>2. Live' = Live \ {i}
    BY <2>1 DEF Live
  <2>3. WalkTypeOK'
    BY <2>1, <2>2 DEF WalkTypeOK
  <2>4. HeldIn(fd', gen') = HeldIn(fd, gen)
    <3>1. \A q \in Pairs : fd[q] # NoId => gen'[fd[q]] = gen[fd[q]]
      BY <2>1 DEF NodeOrder, Live
    <3> QED
      BY <2>1, <3>1 DEF HeldIn
  <2>5. NodeOrder'
    BY <2>1, <2>2, <2>4 DEF NodeOrder
  <2> QED
    BY <2>1, <2>3, <2>5
<1>4. ASSUME NEW p \in Pairs, NEW i \in Ids \union {NoId}, SetFd(p, i)
      PROVE  WalkTyped' /\ UNCHANGED agent
  <2>1. /\ fd' = [fd EXCEPT ![p] = i] /\ kept' = kept \ {p} /\ i \in Live \union {NoId}
        /\ held' = held \union HeldIn(fd', gen)
        /\ UNCHANGED <<gen, made, last, rt, on, agent, stayed, skipped, used>>
        /\ changes' \in 0..MaxChanges
    BY <1>1, <1>4 DEF SetFd
  <2>2. Live' = Live
    BY <2>1 DEF Live
  <2>3. WalkTypeOK'
    BY <2>1, <2>2 DEF WalkTypeOK
  <2>4. NodeOrder'
    <3>1. fd \in [Pairs -> Ids \union {NoId}] /\ kept \subseteq Pairs
      BY DEF WalkTypeOK
    <3>2. HeldIn(fd', gen') \subseteq held'
      BY <2>1
    <3> QED
      BY <2>1, <2>2, <3>1, <3>2 DEF NodeOrder
  <2> QED
    BY <2>1, <2>3, <2>4
<1>5. ASSUME NEW i \in Ids, RunProgram(i)
      PROVE  WalkTyped' /\ UNCHANGED agent
  <2>1. /\ rt' = [rt EXCEPT ![i] = @ + 1] /\ used' = [used EXCEPT ![i] = @ + 1]
        /\ UNCHANGED <<gen, made, last, fd, on, agent, stayed, kept, held, skipped>>
        /\ changes' \in 0..MaxChanges
    BY <1>1, <1>5 DEF RunProgram
  <2>2. rt \in [Ids -> Nat] /\ used \in [Ids -> Nat] /\ Live' = Live
    BY <2>1 DEF WalkTypeOK, Live
  <2>3. rt' \in [Ids -> Nat] /\ used' \in [Ids -> Nat]
    BY <2>1, <2>2
  <2>4. WalkTypeOK'
    BY <2>1, <2>2, <2>3 DEF WalkTypeOK
  <2>5. NodeOrder'
    BY <2>1, <2>2 DEF NodeOrder, HeldIn
  <2> QED
    BY <2>1, <2>4, <2>5
<1>6. CASE StatsOff
  <2>1. UNCHANGED <<gen, made, last, fd, rt, agent, past>> /\ on' = FALSE /\ changes' \in 0..MaxChanges
    BY <1>1, <1>6 DEF StatsOff
  <2>2. WalkTypeOK' /\ NodeOrder'
    BY <2>1 DEF WalkTypeOK, NodeOrder, Live
  <2> QED
    BY <2>1, <2>2
<1> QED
  BY <1>2, <1>3, <1>4, <1>5, <1>6 DEF NodeStep

-----------------------------------------------------------------------------
(* The walk of the ids: the call.                                          *)

(* A row is of its type, whatever of it the sample filled in.               *)
LEMMA RowTyped ==
  ASSUME WalkTyped, cur \in Live, NEW stats \in BOOLEAN
  PROVE  /\ Row(cur, stats) \in Rows
         /\ Row(cur, stats).id = cur /\ Row(cur, stats).gen = gen[cur]
         /\ Row(cur, stats).pids = {p \in Procs : <<cur, p>> \in holders}
         /\ \A s \in Row(cur, stats).share :
               /\ cur \in DOMAIN before /\ s = rt[cur] - before[cur] /\ s \in Int /\ 0 <= s
<1>1. cur \in Ids /\ gen[cur] \in Nat /\ rt[cur] \in Nat
  BY DEF WalkTyped, WalkTypeOK, Live
<1> DEFINE share == IF stats /\ cur \in DOMAIN before THEN CpuShare(before[cur], rt[cur]) ELSE {}
<1>2. \A s \in share : /\ cur \in DOMAIN before /\ s = rt[cur] - before[cur] /\ s \in Int /\ 0 <= s
  BY <1>1 DEF WalkTyped, CpuShare
<1>3. Row(cur, stats) = [id |-> cur, gen |-> gen[cur],
                         pids |-> {p \in Procs : <<cur, p>> \in holders}, share |-> share]
  BY DEF Row
<1> HIDE DEF share
<1> QED
  BY <1>1, <1>2, <1>3 DEF Rows

LEMMA RowsAreRows ==
  ASSUME NEW s \in Seq(Rows)
  PROVE  /\ DOMAIN s = 1..Len(s) /\ Len(s) \in Nat
         /\ \A r \in DOMAIN s : s[r] \in Rows /\ s[r].id \in Ids
<1>1. DOMAIN s = 1..Len(s) /\ Len(s) \in Nat
  BY LenProperties
<1>2. \A r \in DOMAIN s : s[r] \in Rows
  BY <1>1, ElementOfSeq
<1>3. \A row \in Rows : row.id \in Ids
  BY DEF Rows
<1> QED
  BY <1>1, <1>2, <1>3

(* What a step of the call does: the node is as it was, all is of its type, *)
(* and a row is written only where an object is opened.                     *)
LEMMA CallTyped ==
  ASSUME WalkTyped, Agent
  PROVE  WalkTyped' /\ UNCHANGED <<node, call, stayed, kept, held>>
<1> USE DEF WalkTyped, node, past
<1>1. /\ cur \in Ids \union {0} /\ todo \subseteq Procs /\ fdList \subseteq Pairs
      /\ holders \subseteq Ids \X Procs /\ skipped \subseteq Ids /\ used \in [Ids -> Nat]
      /\ rt \in [Ids -> Nat] /\ fd \in [Pairs -> Ids \union {NoId}] /\ DOMAIN before \subseteq Ids
      /\ sample \in BOOLEAN /\ on \in BOOLEAN
  BY DEF WalkTypeOK
<1>2. ASSUME UNCHANGED <<node, call, stayed, kept, held>>
      PROVE  NodeOrder' /\ Live' = Live
  BY <1>2 DEF NodeOrder, HeldIn, Live
<1>3. NextIds \subseteq Live /\ Live \subseteq Ids
  BY DEF NextIds, Live
<1>4. ASSUME UNCHANGED <<node, call, stayed, kept, held, out>>,
             pc' \in {"start", "first", "scan", "walk", "open", "done", "failed"},
             sample' \in BOOLEAN, DOMAIN before' \subseteq Ids,
             \A i \in DOMAIN before' : before'[i] \in Nat,
             todo' \subseteq Procs, fdList' \subseteq Pairs, holders' \subseteq Ids \X Procs,
             cur' \in Ids \union {0}, pc' = "open" => cur' \in Ids,
             skipped' \subseteq Ids, used' \in [Ids -> Nat]
      PROVE  WalkTyped'
  BY <1>2, <1>4 DEF WalkTypeOK
<1>5. CASE Start
  BY <1>1, <1>4, <1>5 DEF Start
<1>6. CASE ReadFirst
  <2>1. PICK i \in NextIds :
          /\ cur' = i
          /\ \/ /\ before' = [j \in DOMAIN before \union {i} |-> IF j = i THEN rt[i] ELSE before[j]]
                /\ used' = [used EXCEPT ![i] = 0]
             \/ UNCHANGED <<before, used>>
    BY <1>6 DEF ReadFirst
  <2>2. i \in Ids /\ rt[i] \in Nat
    BY <1>1, <1>3
  <2>3. DOMAIN before' \subseteq Ids /\ (\A j \in DOMAIN before' : before'[j] \in Nat)
    BY <1>1, <2>1, <2>2
  <2>4. used' \in [Ids -> Nat]
    BY <1>1, <2>1
  <2> QED
    BY <1>1, <1>4, <1>6, <2>1, <2>2, <2>3, <2>4 DEF ReadFirst
<1>7. CASE EndFirst
  BY <1>1, <1>4, <1>7 DEF EndFirst
<1>8. ASSUME NEW p \in Procs, ReadFdDir(p)
      PROVE  WalkTyped' /\ UNCHANGED <<node, call, stayed, kept, held>>
  BY <1>1, <1>4, <1>8 DEF ReadFdDir
<1>9. ASSUME NEW q \in Pairs, ReadFdInfo(q)
      PROVE  WalkTyped' /\ UNCHANGED <<node, call, stayed, kept, held>>
  <2>1. fd[q] # NoId => <<fd[q], q[1]>> \in Ids \X Procs
    BY <1>1 DEF Pairs
  <2>2. holders' \subseteq Ids \X Procs
    BY <1>1, <1>9, <2>1 DEF ReadFdInfo
  <2> QED
    BY <1>1, <1>4, <1>9, <2>2 DEF ReadFdInfo
<1>10. CASE EndScan
  BY <1>1, <1>4, <1>10 DEF EndScan
<1>11. CASE GetNextId
  BY <1>1, <1>3, <1>4, <1>11 DEF GetNextId
<1>12. CASE WalkFails
  <2>1. out' = <<>> /\ DOMAIN out' = {} /\ out' \in Seq(Rows)
    BY <1>12, EmptySeq DEF WalkFails
  <2> QED
    BY <1>2, <1>12, <2>1 DEF WalkFails, WalkTypeOK
<1>13. CASE Open
  <2>1. UNCHANGED <<node, call, sample, before, todo, fdList, holders, cur, past>> /\ pc' = "walk"
    BY <1>13 DEF Open
  <2>2. CASE cur \in Live
    <3>1. PICK stats \in BOOLEAN : out' = Append(out, Row(cur, stats))
      BY <1>13, <2>2 DEF Open
    <3>2. Row(cur, stats) \in Rows /\ Row(cur, stats).id \in Ids
      BY <1>3, <2>2, RowTyped
    <3>3. out' \in Seq(Rows)
      BY <3>1, <3>2, AppendProperties
    <3>4. \A r \in DOMAIN out' : out'[r].id \in Ids
      BY <3>3, RowsAreRows
    <3> QED
      BY <1>2, <2>1, <3>3, <3>4 DEF WalkTypeOK
  <2>3. CASE cur \notin Live
    BY <1>1, <1>4, <1>13, <2>1, <2>3 DEF Open
  <2> QED
    BY <2>2, <2>3
<1>14. CASE CannotOpen
  BY <1>1, <1>4, <1>14 DEF CannotOpen
<1> QED
  BY <1>5, <1>6, <1>7, <1>8, <1>9, <1>10, <1>11, <1>12, <1>13, <1>14 DEF Agent

(* What the node does to what the listing relies on: an object that stays   *)
(* keeps its number, and an fd that is kept keeps its object.               *)
LEMMA NodeKeeps ==
  ASSUME WalkTyped, NodeStep
  PROVE  /\ stayed' \subseteq stayed /\ \A i \in stayed' : gen'[i] = gen[i]
         /\ kept' \subseteq kept /\ \A p \in kept' : fd'[p] = fd[p]
         /\ held \subseteq held' /\ skipped' = skipped
         /\ \A i \in DOMAIN before : rt[i] <= before[i] + used[i] => rt'[i] <= before[i] + used'[i]
<1>1. /\ gen \in [Ids -> Nat] /\ rt \in [Ids -> Nat] /\ used \in [Ids -> Nat] /\ stayed \subseteq Live
      /\ fd \in [Pairs -> Ids \union {NoId}] /\ kept \subseteq Pairs
      /\ DOMAIN before \subseteq Ids /\ \A i \in DOMAIN before : before[i] \in Nat
  BY DEF WalkTyped, WalkTypeOK
<1>2. CASE Make
  <2>1. PICK i \in NextFree : /\ gen' = [gen EXCEPT ![i] = made + 1]
                              /\ rt' = [rt EXCEPT ![i] = 0] /\ used' = [used EXCEPT ![i] = 0]
                              /\ last' = i
    BY <1>2 DEF Make
  <2>2. i \in Ids /\ i \notin stayed
    BY <1>1, <2>1, FreeIds
  <2>3. UNCHANGED <<fd, stayed, kept, held, skipped>>
    BY <1>2 DEF Make
  <2>4. \A j \in stayed : gen'[j] = gen[j]
    BY <1>1, <2>1, <2>2
  <2>5. ASSUME NEW j \in DOMAIN before, rt[j] <= before[j] + used[j]
        PROVE  rt'[j] <= before[j] + used'[j]
    <3>1. CASE j = i
      <4>1. rt'[j] = 0 /\ used'[j] = 0 /\ before[j] \in Nat
        BY <1>1, <2>1, <2>2, <3>1
      <4> QED
        BY <4>1
    <3>2. CASE j # i
      BY <1>1, <2>1, <2>5, <3>2
    <3> QED
      BY <3>1, <3>2
  <2> QED
    BY <2>3, <2>4, <2>5
<1>3. ASSUME NEW i \in Ids, Free(i)
      PROVE  /\ UNCHANGED <<rt, used, fd, kept, held, skipped>>
             /\ stayed' \subseteq stayed /\ \A j \in stayed' : gen'[j] = gen[j]
  BY <1>1, <1>3 DEF Free, Live
<1>4. ASSUME NEW p \in Pairs, NEW i \in Ids \union {NoId}, SetFd(p, i)
      PROVE  /\ UNCHANGED <<gen, rt, used, stayed, skipped>>
             /\ kept' \subseteq kept /\ (\A q \in kept' : fd'[q] = fd[q]) /\ held \subseteq held'
  BY <1>1, <1>4 DEF SetFd
<1>5. ASSUME NEW i \in Ids, RunProgram(i), NEW j \in DOMAIN before, rt[j] <= before[j] + used[j]
      PROVE  rt'[j] <= before[j] + used'[j]
  <2>1. rt' = [rt EXCEPT ![i] = @ + 1] /\ used' = [used EXCEPT ![i] = @ + 1]
    BY <1>5 DEF RunProgram
  <2>2. j \in Ids /\ rt[j] \in Nat /\ used[j] \in Nat /\ before[j] \in Nat
    BY <1>1
  <2>3. CASE j = i
    <3>1. rt'[j] = rt[j] + 1 /\ used'[j] = used[j] + 1
      BY <1>1, <2>1, <2>2, <2>3
    <3> QED
      BY <1>5, <2>2, <3>1
  <2>4. CASE j # i
    BY <1>1, <1>5, <2>1, <2>2, <2>4
  <2> QED
    BY <2>3, <2>4
<1>6. ASSUME NEW i \in Ids, RunProgram(i)
      PROVE  UNCHANGED <<gen, fd, stayed, kept, held, skipped>>
  BY <1>6 DEF RunProgram
<1>7. StatsOff => UNCHANGED <<gen, rt, fd, past>>
  BY DEF StatsOff
<1> QED
  BY <1>2, <1>3, <1>4, <1>5, <1>6, <1>7 DEF NodeStep, past

(* Which ids the walk has behind it.                                        *)
Passed(i) == \/ pc = "done"
             \/ pc = "walk" /\ i <= cur
             \/ pc = "open" /\ i < cur

(* The rows go upwards and end where the walk is, an object there all along *)
(* is in a row once the walk has passed it, and is that object.             *)
RowsInv ==
  /\ pc \in {"start", "scan"} => cur = 0
  /\ pc \in {"start", "first", "scan", "failed"} => out = <<>>
  /\ \A r, s \in DOMAIN out : r < s => out[r].id < out[s].id
  /\ \A r \in DOMAIN out : out[r].id <= cur /\ (pc = "open" => out[r].id < cur)
  /\ \A i \in stayed \ skipped : Passed(i) => \E r \in DOMAIN out : out[r].id = i
  /\ \A r \in DOMAIN out : out[r].id \in stayed => out[r].gen = gen[out[r].id]

LEMMA RowsNode ==
  ASSUME WalkTyped, RowsInv, NodeStep
  PROVE  RowsInv'
<1>1. UNCHANGED agent
  BY NodeTyped
<1>2. stayed' \subseteq stayed /\ (\A i \in stayed' : gen'[i] = gen[i]) /\ skipped' = skipped
  BY NodeKeeps
<1> QED
  BY ONLY RowsInv, <1>1, <1>2 DEF RowsInv, agent, Passed

LEMMA RowsCall ==
  ASSUME WalkTyped, RowsInv, Agent
  PROVE  RowsInv'
<1> USE DEF node, past, RowsInv, Passed
<1>1. /\ gen \in [Ids -> Nat] /\ stayed \subseteq Live /\ Live \subseteq Ids /\ Ids \subseteq Nat \ {0}
      /\ cur \in Nat /\ (pc = "open" => cur \in Ids)
  BY WalkAssumption DEF WalkTyped, WalkTypeOK, Live, Ids
<1>2. DOMAIN out = 1..Len(out) /\ Len(out) \in Nat /\ \A r \in DOMAIN out : out[r].id \in Ids
  BY RowsAreRows DEF WalkTyped
<1>3. DOMAIN <<>> = {}
  OBVIOUS
<1>4. CASE Start
  BY <1>1, <1>3, <1>4 DEF Start
<1>5. CASE ReadFirst
  BY <1>3, <1>5 DEF ReadFirst
<1>6. CASE EndFirst
  BY <1>3, <1>6 DEF EndFirst
<1>7. ASSUME NEW p \in Procs, ReadFdDir(p) PROVE RowsInv'
  BY <1>7 DEF ReadFdDir
<1>8. ASSUME NEW q \in Pairs, ReadFdInfo(q) PROVE RowsInv'
  BY <1>8 DEF ReadFdInfo
<1>9. CASE EndScan
  BY <1>1, <1>3, <1>9 DEF EndScan
<1>10. CASE GetNextId
  <2>1. UNCHANGED <<out, stayed, skipped, gen>> /\ pc = "walk"
    BY <1>10 DEF GetNextId
  <2>2. CASE NextIds = {}
    <3>1. \A i \in Live : ~(i > cur)
      <4> DEFINE above == {i \in Live : i > cur}
      <4>1. SUFFICES ASSUME above # {} PROVE FALSE
        OBVIOUS
      <4>2. above \in SUBSET Nat
        BY <1>1
      <4>3. PICK i \in above : \A j \in above : i <= j
        BY <4>1, <4>2, LowestIsIn
      <4>4. i \in NextIds
        BY <4>3 DEF NextIds
      <4> QED
        BY <2>2, <4>4
    <3>2. \A i \in stayed : i <= cur
      BY <1>1, <3>1
    <3>3. pc' = "done" /\ cur' = cur
      BY <1>10, <2>2 DEF GetNextId
    <3> QED
      BY <2>1, <3>2, <3>3
  <2>3. CASE NextIds # {}
    <3>1. pc' = "open" /\ cur' \in NextIds
      BY <1>10, <2>3 DEF GetNextId
    <3>2. cur' > cur /\ cur' \in Nat /\ \A j \in stayed : j < cur' => j <= cur
      BY <1>1, <3>1 DEF NextIds
    <3>3. \A r \in DOMAIN out : out[r].id <= cur /\ out[r].id \in Nat
      BY <1>1, <1>2
    <3>4. \A r \in DOMAIN out : out[r].id < cur' /\ out[r].id <= cur'
      BY ONLY <1>1, <3>2, <3>3
    <3>5. \A i \in stayed \ skipped : i < cur' => \E r \in DOMAIN out : out[r].id = i
      BY <2>1, <3>2
    <3> HIDE DEF node, past
    <3> QED
      BY <2>1, <3>1, <3>4, <3>5
  <2> QED
    BY <2>2, <2>3
<1>11. CASE WalkFails
  BY <1>3, <1>11 DEF WalkFails
<1>12. CASE Open
  <2>1. UNCHANGED <<node, call, sample, before, todo, fdList, holders, cur, past>>
        /\ pc = "open" /\ pc' = "walk"
    BY <1>12 DEF Open
  <2>2. CASE cur \in Live
    <3>1. PICK stats \in BOOLEAN : out' = Append(out, Row(cur, stats))
      BY <1>12, <2>2 DEF Open
    <3> DEFINE m == Len(out)
    <3>2. Row(cur, stats) \in Rows /\ Row(cur, stats).id = cur /\ Row(cur, stats).gen = gen[cur]
      BY <2>2, RowTyped
    <3>3. /\ DOMAIN out' = 1..(m + 1) /\ out'[m + 1] = Row(cur, stats)
          /\ \A r \in 1..m : out'[r] = out[r]
      BY <3>1, <3>2, AppendProperties, RowsAreRows DEF WalkTyped
    <3>4. \A r \in DOMAIN out : r \in DOMAIN out' /\ out'[r] = out[r] /\ out[r].id < cur /\ r # m + 1
      BY <1>2, <2>1, <3>3
    <3>5. m + 1 \in DOMAIN out' /\ DOMAIN out' = DOMAIN out \union {m + 1}
      BY <1>2, <3>3
    <3>6. \A r, s \in DOMAIN out' : r < s => out'[r].id < out'[s].id
      BY <1>2, <3>2, <3>3, <3>4, <3>5
    <3>7. \A r \in DOMAIN out' : out'[r].id <= cur
      BY <1>1, <1>2, <3>2, <3>3, <3>4, <3>5
    <3>8. \A i \in stayed \ skipped : i <= cur => \E r \in DOMAIN out' : out'[r].id = i
      <4>1. \A i \in stayed : i <= cur => i < cur \/ i = cur
        BY <1>1
      <4> QED
        BY <2>1, <3>2, <3>3, <3>4, <3>5, <4>1
    <3>9. \A r \in DOMAIN out' : out'[r].id \in stayed => out'[r].gen = gen[out'[r].id]
      BY <3>2, <3>3, <3>4, <3>5
    <3> QED
      BY <2>1, <3>6, <3>7, <3>8, <3>9
  <2>3. CASE cur \notin Live
    <3>1. UNCHANGED out
      BY <1>12, <2>3 DEF Open
    <3>2. \A i \in stayed : i <= cur => i < cur
      BY <1>1, <2>3
    <3> QED
      BY <1>1, <1>2, <2>1, <3>1, <3>2
  <2> QED
    BY <2>2, <2>3
<1>13. CASE CannotOpen
  <2>1. UNCHANGED <<node, out, cur, stayed>> /\ pc = "open" /\ pc' = "walk"
        /\ skipped' = skipped \union {cur}
    BY <1>13 DEF CannotOpen
  <2>2. \A i \in stayed \ skipped' : i <= cur => i < cur
    BY <1>1, <2>1
  <2> QED
    BY <1>1, <1>2, <2>1, <2>2
<1> QED
  BY <1>4, <1>5, <1>6, <1>7, <1>8, <1>9, <1>10, <1>11, <1>12, <1>13 DEF Agent

(* A process that has held an object all along is still to be read, has its *)
(* fd among those being read, or was found.                                 *)
Awaited(q) == pc \in {"first", "scan"} /\ (q[1] \in todo \/ q \in fdList)
Found(q) == pc \notin {"start", "first"} /\ <<fd[q], q[1]>> \in holders

(* The scan's pairs held what they say, none that stayed is missed once the *)
(* scan is over, and the rows, made of them, keep that.                     *)
HoldersInv ==
  /\ pc # "scan" => fdList = {}
  /\ pc = "first" => todo = Procs \ Unreadable
  /\ \A i \in Ids, p \in Procs : <<i, p>> \in holders =>
        \E h \in held : h[1] = p /\ h[2] = i /\ (i \in stayed => h[3] = gen[i])
  /\ call # "links" /\ pc # "start" =>
        \A q \in kept : q[1] \notin Unreadable => Awaited(q) \/ Found(q)
  /\ HoldersAreRight

LEMMA HoldersNode ==
  ASSUME WalkTyped, HoldersInv, NodeStep
  PROVE  HoldersInv'
<1>1. UNCHANGED agent
  BY NodeTyped
<1>2. /\ stayed' \subseteq stayed /\ (\A i \in stayed' : gen'[i] = gen[i])
      /\ kept' \subseteq kept /\ (\A p \in kept' : fd'[p] = fd[p])
      /\ held \subseteq held'
  BY NodeKeeps
<1>3. HoldersAreRight'
  <2> SUFFICES ASSUME NEW r \in DOMAIN out
               PROVE  /\ \A p \in out[r].pids :
                           \E h \in held' : h[1] = p /\ h[2] = out[r].id
                                            /\ (out[r].id \in stayed' => h[3] = out[r].gen)
                      /\ call # "links" /\ out[r].id \in stayed' =>
                           {q[1] : q \in {k \in kept' : fd'[k] = out[r].id}} \ Unreadable \subseteq out[r].pids
    BY <1>1 DEF HoldersAreRight, agent
  <2>1. \A p \in out[r].pids :
          \E h \in held : h[1] = p /\ h[2] = out[r].id /\ (out[r].id \in stayed => h[3] = out[r].gen)
    BY DEF HoldersInv, HoldersAreRight
  <2>2. call # "links" /\ out[r].id \in stayed =>
          {q[1] : q \in {k \in kept : fd[k] = out[r].id}} \ Unreadable \subseteq out[r].pids
    BY DEF HoldersInv, HoldersAreRight
  <2>3. {q[1] : q \in {k \in kept' : fd'[k] = out[r].id}}
          \subseteq {q[1] : q \in {k \in kept : fd[k] = out[r].id}}
    BY <1>2
  <2>4. \A p \in out[r].pids :
          \E h \in held' : h[1] = p /\ h[2] = out[r].id /\ (out[r].id \in stayed' => h[3] = out[r].gen)
    BY <1>2, <2>1
  <2> QED
    BY <1>2, <2>2, <2>3, <2>4
<1>4. \A i \in Ids, p \in Procs : <<i, p>> \in holders =>
        \E h \in held' : h[1] = p /\ h[2] = i /\ (i \in stayed' => h[3] = gen'[i])
  <2>1. \A i \in Ids, p \in Procs : <<i, p>> \in holders =>
          \E h \in held : h[1] = p /\ h[2] = i /\ (i \in stayed => h[3] = gen[i])
    BY DEF HoldersInv
  <2> QED
    BY ONLY <1>2, <2>1
<1>5. call # "links" /\ pc # "start" =>
        \A q \in kept' : q[1] \notin Unreadable => Awaited(q)' \/ Found(q)'
  BY <1>1, <1>2 DEF HoldersInv, Awaited, Found, agent
<1> QED
  BY <1>1, <1>3, <1>4, <1>5 DEF HoldersInv, agent

LEMMA HoldersCall ==
  ASSUME WalkTyped, HoldersInv, Agent
  PROVE  HoldersInv'
<1> USE DEF node, past
<1>1. UNCHANGED <<node, call, stayed, kept, held>>
  BY CallTyped
<1>2. kept \subseteq Pairs /\ fd \in [Pairs -> Ids \union {NoId}] /\ \A p \in kept : fd[p] # NoId
  BY DEF WalkTyped, WalkTypeOK, NodeOrder
<1>3. \A q \in kept : q[1] \in Procs /\ fd[q] \in Ids
  BY <1>2 DEF Pairs
<1>4. DOMAIN <<>> = {}
  OBVIOUS
<1>5. ASSUME UNCHANGED out
      PROVE  HoldersAreRight'
  BY ONLY HoldersInv, <1>1, <1>5 DEF HoldersInv, HoldersAreRight, node
<1>6. ASSUME UNCHANGED <<holders, fdList>>, fdList = {},
             pc' \notin {"start", "first"}, pc \in {"scan", "walk", "open"},
             pc = "scan" => todo = {}, HoldersAreRight'
      PROVE  HoldersInv'
  <2>1. \A q \in kept : q[1] \notin Unreadable /\ call # "links" => Found(q)'
    BY <1>1, <1>6 DEF HoldersInv, Awaited, Found
  <2> QED
    BY <1>1, <1>6, <2>1 DEF HoldersInv
<1>7. CASE Start
  BY <1>1, <1>3, <1>5, <1>7 DEF Start, HoldersInv, Awaited
<1>8. CASE ReadFirst
  BY <1>1, <1>5, <1>8 DEF ReadFirst, HoldersInv, Awaited, Found
<1>9. CASE EndFirst
  BY <1>1, <1>5, <1>9 DEF EndFirst, HoldersInv, Awaited, Found
<1>10. ASSUME NEW p \in Procs, ReadFdDir(p)
       PROVE  HoldersInv'
  <2>1. /\ pc = "scan" /\ fdList = {} /\ todo' = todo \ {p} /\ pc' = pc /\ UNCHANGED <<holders, out>>
        /\ fdList' = {q \in Pairs : q[1] = p /\ fd[q] # NoId}
    BY <1>10 DEF ReadFdDir
  <2>2. ASSUME NEW q \in kept, q[1] \notin Unreadable, call # "links"
        PROVE  Awaited(q)' \/ Found(q)'
    <3>1. q[1] \in todo \/ <<fd[q], q[1]>> \in holders
      BY <2>1, <2>2 DEF HoldersInv, Awaited, Found
    <3>2. q[1] = p => q \in fdList'
      BY <1>2, <2>1
    <3> QED
      BY <1>1, <2>1, <3>1, <3>2 DEF Awaited, Found
  <2> QED
    BY <1>1, <1>5, <2>1, <2>2 DEF HoldersInv
<1>11. ASSUME NEW q \in Pairs, ReadFdInfo(q)
       PROVE  HoldersInv'
  <2>1. /\ pc = "scan" /\ q \in fdList /\ fdList' = fdList \ {q} /\ UNCHANGED <<pc, todo, out>>
        /\ holders' = holders \union (IF fd[q] # NoId THEN {<<fd[q], q[1]>>} ELSE {})
    BY <1>11 DEF ReadFdInfo
  <2>2. fd[q] # NoId => <<q[1], fd[q], gen[fd[q]]>> \in held
    BY DEF WalkTyped, NodeOrder, HeldIn
  <2>3. ASSUME NEW i \in Ids, NEW p \in Procs, <<i, p>> \in holders'
        PROVE  \E h \in held : h[1] = p /\ h[2] = i /\ (i \in stayed => h[3] = gen[i])
    <3>1. CASE <<i, p>> \in holders
      BY <3>1 DEF HoldersInv
    <3>2. CASE fd[q] # NoId /\ i = fd[q] /\ p = q[1]
      BY <2>2, <3>2
    <3> QED
      BY <2>1, <2>3, <3>1, <3>2
  <2>4. ASSUME NEW k \in kept, k[1] \notin Unreadable, call # "links"
        PROVE  Awaited(k)' \/ Found(k)'
    <3>1. k[1] \in todo \/ k \in fdList \/ <<fd[k], k[1]>> \in holders
      BY <2>1, <2>4 DEF HoldersInv, Awaited, Found
    <3>2. k = q => <<fd[k], k[1]>> \in holders'
      BY <1>2, <2>1
    <3> QED
      BY <1>1, <2>1, <3>1, <3>2 DEF Awaited, Found
  <2> QED
    BY <1>1, <1>5, <2>1, <2>3, <2>4 DEF HoldersInv
<1>12. CASE EndScan
  BY <1>5, <1>6, <1>12 DEF EndScan
<1>13. CASE GetNextId
  BY <1>5, <1>6, <1>13 DEF GetNextId, HoldersInv
<1>14. CASE WalkFails
  <2>1. HoldersAreRight'
    BY <1>4, <1>14 DEF WalkFails, HoldersAreRight
  <2> QED
    BY <1>6, <1>14, <2>1 DEF WalkFails, HoldersInv
<1>15. CASE Open
  <2>1. UNCHANGED <<node, call, sample, before, todo, fdList, holders, cur, past>>
        /\ pc = "open" /\ pc' = "walk"
    BY <1>15 DEF Open
  <2>2. CASE cur \in Live
    <3>1. PICK stats \in BOOLEAN : out' = Append(out, Row(cur, stats))
      BY <1>15, <2>2 DEF Open
    <3> DEFINE row == Row(cur, stats)
               m == Len(out)
    <3>2. /\ row \in Rows /\ row.id = cur /\ row.gen = gen[cur]
          /\ row.pids = {p \in Procs : <<cur, p>> \in holders} /\ cur \in Ids
      BY <2>2, RowTyped DEF Live
    <3> HIDE DEF row
    <3>3. /\ DOMAIN out' = 1..(m + 1) /\ out'[m + 1] = row /\ m \in Nat /\ DOMAIN out = 1..m
          /\ \A r \in 1..m : out'[r] = out[r]
      BY <3>1, <3>2, AppendProperties, RowsAreRows DEF WalkTyped, row
    <3>4. \A p \in row.pids :
            \E h \in held : h[1] = p /\ h[2] = row.id /\ (row.id \in stayed => h[3] = row.gen)
      BY <3>2 DEF HoldersInv
    <3>5. call # "links" => {q[1] : q \in {k \in kept : fd[k] = row.id}} \ Unreadable \subseteq row.pids
      <4>1. ASSUME NEW k \in kept, fd[k] = cur, k[1] \notin Unreadable, call # "links"
            PROVE  k[1] \in row.pids
        BY <1>3, <2>1, <3>2, <4>1 DEF HoldersInv, Awaited, Found
      <4> QED
        BY <3>2, <4>1
    <3>6. ASSUME NEW r \in DOMAIN out'
          PROVE  /\ \A p \in out'[r].pids :
                      \E h \in held : h[1] = p /\ h[2] = out'[r].id
                                      /\ (out'[r].id \in stayed => h[3] = out'[r].gen)
                 /\ call # "links" /\ out'[r].id \in stayed =>
                      {q[1] : q \in {k \in kept : fd[k] = out'[r].id}} \ Unreadable \subseteq out'[r].pids
      <4>1. CASE r = m + 1
        BY <3>3, <3>4, <3>5, <4>1
      <4>2. CASE r # m + 1
        <5>1. r \in DOMAIN out /\ out'[r] = out[r]
          BY <3>3, <4>2
        <5> QED
          BY ONLY HoldersInv, <5>1 DEF HoldersInv, HoldersAreRight
      <4> QED
        BY <4>1, <4>2
    <3>7. HoldersAreRight'
      BY ONLY <1>1, <3>6 DEF HoldersAreRight, node
    <3> QED
      BY <1>6, <2>1, <3>7 DEF HoldersInv
  <2>3. CASE cur \notin Live
    <3>1. UNCHANGED out
      BY <1>15, <2>3 DEF Open
    <3> QED
      BY <1>5, <1>6, <2>1, <3>1 DEF HoldersInv
  <2> QED
    BY <2>2, <2>3
<1>16. CASE CannotOpen
  BY <1>5, <1>6, <1>16 DEF CannotOpen, HoldersInv
<1> QED
  BY <1>7, <1>8, <1>9, <1>10, <1>11, <1>12, <1>13, <1>14, <1>15, <1>16 DEF Agent

(* What a program has run since the first pass read it is on its account,   *)
(* also when its id has changed hands.                                      *)
UsedInv == \A i \in DOMAIN before : rt[i] <= before[i] + used[i]

LEMMA UsedStep ==
  ASSUME WalkTyped, UsedInv, WalkNext
  PROVE  UsedInv'
<1>1. CASE NodeStep
  <2>1. UNCHANGED before
    BY <1>1, NodeTyped DEF agent
  <2> QED
    BY <1>1, <2>1, NodeKeeps DEF UsedInv
<1>2. ASSUME UNCHANGED <<before, rt, used>> PROVE UsedInv'
  BY <1>2 DEF UsedInv
<1>3. CASE ReadFirst
  <2>1. PICK i \in NextIds :
          \/ /\ before' = [j \in DOMAIN before \union {i} |-> IF j = i THEN rt[i] ELSE before[j]]
             /\ used' = [used EXCEPT ![i] = 0]
          \/ UNCHANGED <<before, used>>
    BY <1>3 DEF ReadFirst
  <2>2. UNCHANGED rt /\ rt \in [Ids -> Nat] /\ used \in [Ids -> Nat] /\ i \in Ids
    BY <1>3 DEF ReadFirst, node, WalkTyped, WalkTypeOK, NextIds, Live
  <2>3. CASE UNCHANGED <<before, used>>
    BY <1>2, <2>2, <2>3
  <2>4. CASE /\ before' = [j \in DOMAIN before \union {i} |-> IF j = i THEN rt[i] ELSE before[j]]
             /\ used' = [used EXCEPT ![i] = 0]
    <3>1. ASSUME NEW j \in DOMAIN before'
          PROVE  rt[j] <= before'[j] + used'[j]
      <4>1. CASE j = i
        <5>1. before'[j] = rt[j] /\ used'[j] = 0 /\ rt[j] \in Nat
          BY <2>2, <2>4, <4>1
        <5> QED
          BY <5>1
      <4>2. CASE j # i
        <5>1. j \in DOMAIN before /\ before'[j] = before[j] /\ used'[j] = used[j]
          BY <2>2, <2>4, <3>1, <4>2
        <5> QED
          BY <5>1 DEF UsedInv
      <4> QED
        BY <4>1, <4>2
    <3> QED
      BY <2>2, <3>1 DEF UsedInv
  <2> QED
    BY <2>1, <2>3, <2>4
<1>4. Agent /\ ~ReadFirst => UNCHANGED <<before, rt, used>>
  BY DEF Agent, Start, EndFirst, ReadFdDir, ReadFdInfo, EndScan, GetNextId, WalkFails, Open,
         CannotOpen, node, past
<1> QED
  BY <1>1, <1>2, <1>3, <1>4 DEF WalkNext

-----------------------------------------------------------------------------
WalkInv == WalkTyped /\ RowsInv /\ HoldersInv /\ UsedInv

LEMMA WalkInvariant == WalkSpec => []WalkInv
<1>1. WalkInit => WalkInv
  <2> SUFFICES ASSUME WalkInit PROVE WalkInv
    OBVIOUS
  <2>1. WalkTyped
    BY WalkStarts
  <2>2. RowsInv /\ HoldersInv /\ UsedInv
    <3>1. DOMAIN <<>> = {}
      OBVIOUS
    <3>2. /\ pc = "start" /\ cur = 0 /\ out = <<>> /\ before = <<>> /\ holders = {} /\ fdList = {}
      BY DEF WalkInit
    <3> QED
      BY <3>1, <3>2 DEF RowsInv, Passed, HoldersInv, HoldersAreRight, UsedInv
  <2> QED
    BY <2>1, <2>2 DEF WalkInv
<1>2. WalkInv /\ [WalkNext]_walkVars => WalkInv'
  <2> SUFFICES ASSUME WalkInv, [WalkNext]_walkVars PROVE WalkInv'
    OBVIOUS
  <2>1. CASE Agent
    BY <2>1, CallTyped, RowsCall, HoldersCall, UsedStep DEF WalkInv, WalkNext
  <2>2. CASE NodeStep
    BY <2>2, NodeTyped, RowsNode, HoldersNode, UsedStep DEF WalkInv, WalkNext
  <2>3. CASE UNCHANGED walkVars
    <3>1. UNCHANGED <<node, agent, past>>
      BY <2>3 DEF walkVars
    <3>2. WalkTyped'
      BY <3>1 DEF WalkInv, WalkTyped, WalkTypeOK, NodeOrder, HeldIn, Live, node, agent, past
    <3>3. RowsInv' /\ UsedInv'
      BY <3>1 DEF WalkInv, RowsInv, Passed, UsedInv, node, agent, past
    <3>4. HoldersInv'
      BY <3>1 DEF WalkInv, HoldersInv, HoldersAreRight, Awaited, Found, node, agent, past
    <3> QED
      BY <3>2, <3>3, <3>4 DEF WalkInv
  <2> QED
    BY <2>1, <2>2, <2>3 DEF WalkNext
<1> QED
  BY <1>1, <1>2, PTL DEF WalkSpec

(* Rows that go upwards hold no id twice.                                   *)
LEMMA ListedOnce ==
  ASSUME WalkTyped, RowsInv, NEW i \in Ids
  PROVE  Cardinality(RowsOf(i)) <= 1
<1>1. DOMAIN out = 1..Len(out) /\ Len(out) \in Nat /\ Ids \subseteq Nat
  BY RowsAreRows, WalkAssumption DEF WalkTyped, Ids
<1>2. \A r, s \in RowsOf(i) : r = s
  <2>1. \A r, s \in RowsOf(i) : r \in Int /\ s \in Int /\ ~(r < s)
    BY <1>1 DEF RowsOf, RowsInv
  <2> QED
    BY <2>1
<1>3. CASE RowsOf(i) = {}
  BY <1>3, FS_EmptySet
<1>4. CASE RowsOf(i) # {}
  <2>1. PICK r \in RowsOf(i) : TRUE
    BY <1>4
  <2>2. RowsOf(i) = {r}
    BY <1>2, <2>1
  <2> QED
    BY <2>2, FS_Singleton
<1> QED
  BY <1>3, <1>4

(* WalkIsSound holds of every reachable state: whatever the node makes,     *)
(* frees and numbers again while the ids are walked, no id is in two rows,  *)
(* an object there all along is in one unless it could not be opened, and   *)
(* no other object stands in its row (inspector.go:137-168, 242-299,        *)
(* 443-497).                                                                *)
THEOREM WalkAlwaysSound == WalkSpec => []WalkIsSound
<1>1. WalkInv => WalkIsSound
  <2> SUFFICES ASSUME WalkInv PROVE WalkIsSound
    OBVIOUS
  <2> USE DEF WalkInv
  <2>1. \A i \in Ids : Cardinality(RowsOf(i)) <= 1
    BY ListedOnce
  <2>2. pc = "done" => \A i \in stayed \ skipped : RowsOf(i) # {}
    BY DEF RowsInv, Passed, RowsOf
  <2>3. \A i \in stayed : \A r \in RowsOf(i) : out[r].gen = gen[i]
    BY DEF RowsInv, RowsOf
  <2> QED
    BY <2>1, <2>2, <2>3 DEF WalkIsSound, ListsWhatStayed, WalkTyped
<1> QED
  BY <1>1, WalkInvariant, PTL

(* HoldersAreRight holds of every reachable state: the scan of /proc, which *)
(* sees no two fds at one moment, puts no process in a row that did not     *)
(* hold the object, and misses none that held it all along                  *)
(* (scan.go:26-76).                                                         *)
THEOREM HoldersAlwaysRight == WalkSpec => []HoldersAreRight
<1>1. WalkInv => HoldersAreRight
  BY DEF WalkInv, HoldersInv
<1> QED
  BY <1>1, WalkInvariant, PTL

(* ShareNotOverstated holds of every step: no row is given a share that is  *)
(* negative, or more than its program ran between the two reads             *)
(* (runtime.go:47-101).                                                     *)
THEOREM NoShareOverstated == WalkSpec => ShareNotOverstated
<1> DEFINE Step == \A r \in DOMAIN out' \ DOMAIN out :
                      \A s \in out'[r].share : 0 <= s /\ s <= used[out'[r].id]
<1>1. WalkInv /\ [WalkNext]_walkVars => [Step]_out
  <2> SUFFICES ASSUME WalkInv, WalkNext, out' # out
               PROVE  Step
    BY DEF walkVars, agent
  <2>1. Agent
    BY NodeTyped DEF WalkNext, WalkInv, agent
  <2>2. CASE WalkFails
    BY <2>2 DEF WalkFails
  <2>3. CASE Open
    <3>1. cur \in Live
      BY <2>3 DEF Open
    <3>2. PICK stats \in BOOLEAN : out' = Append(out, Row(cur, stats))
      BY <2>3, <3>1 DEF Open
    <3> DEFINE row == Row(cur, stats)
               m == Len(out)
    <3>3. /\ row \in Rows /\ row.id = cur
          /\ \A s \in row.share : /\ cur \in DOMAIN before /\ s = rt[cur] - before[cur]
                                  /\ s \in Int /\ 0 <= s
      BY <3>1, RowTyped DEF WalkInv
    <3>4. rt[cur] \in Nat /\ used[cur] \in Nat /\ (cur \in DOMAIN before => before[cur] \in Nat)
      BY <3>1 DEF WalkInv, WalkTyped, WalkTypeOK, Live
    <3> HIDE DEF row
    <3>5. DOMAIN out' = 1..(m + 1) /\ out'[m + 1] = row /\ m \in Nat /\ DOMAIN out = 1..m
      BY <3>2, <3>3, AppendProperties, RowsAreRows DEF WalkInv, WalkTyped, row
    <3>6. \A s \in row.share : 0 <= s /\ s <= used[cur]
      BY <3>3, <3>4 DEF WalkInv, UsedInv
    <3> QED
      BY <3>3, <3>5, <3>6
  <2>4. CASE ~WalkFails /\ ~Open
    BY <2>1, <2>4 DEF Agent, Start, ReadFirst, EndFirst, ReadFdDir, ReadFdInfo, EndScan, GetNextId,
                      CannotOpen
  <2> QED
    BY <2>2, <2>3, <2>4
<1> QED
  BY <1>1, WalkInvariant, PTL DEF WalkSpec, ShareNotOverstated
=============================================================================
