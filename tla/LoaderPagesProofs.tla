------------------------- MODULE LoaderPagesProofs -------------------------
(***************************************************************************)
(* The partition by loader, for any lists and any pids: the no-loader      *)
(* group has what no route traces to a loader and its rows name no loader, *)
(* and only a map that inherits its group can be in none.                  *)
(***************************************************************************)
EXTENDS LoaderDiagrams, Discovery, SequenceTheorems, WellFoundedInduction, TLAPS

(* What the proofs need of the lists: ids and pids are numbers, and no pid  *)
(* is 0.                                                                    *)
Numbered(s) ==
  /\ DOMAIN s.progs \subseteq Nat
  /\ DOMAIN s.maps \subseteq Nat
  /\ \A p \in DOMAIN s.progs : s.progs[p].pids \subseteq Nat \ {0}
  /\ \A m \in DOMAIN s.maps : s.maps[m].pids \subseteq Nat \ {0}

-----------------------------------------------------------------------------
(* The lowest of a set of numbers is one of them.                           *)
LEMMA LowestIsIn ==
  ASSUME NEW S \in SUBSET Nat, S # {}
  PROVE  \E x \in S : \A y \in S : x <= y
<1>1. PICK x \in S : \A y \in S : <<y, x>> \notin OpToRel(<, Nat)
  BY NatLessThanWellFounded, WFMin
<1>2. \A y \in S : ~(y < x)
  BY <1>1, Zenon DEF OpToRel
<1> QED
  BY <1>2

LEMMA MinIsIn ==
  ASSUME NEW S \in SUBSET Nat, S # {}
  PROVE  Min(S) \in S
<1>1. \E x \in S : \A y \in S : x <= y
  BY LowestIsIn
<1> QED
  BY <1>1 DEF Min

(* A set of pids names a loader just when one of them may be a loader.      *)
LEMMA HolderGroupVisible ==
  ASSUME NEW pids \in SUBSET (Nat \ {0})
  PROVE  /\ HolderGroup(pids) # NoLoader <=> Visible(pids)
         /\ Visible(pids) => HolderGroup(pids) \in pids
<1>1. CASE pids \ Hidden = {}
  BY <1>1 DEF HolderGroup, Lowest, Visible
<1>2. CASE pids \ Hidden # {}
  <2>1. Min(pids \ Hidden) \in pids \ Hidden
    BY <1>2, MinIsIn
  <2> QED
    BY <1>2, <2>1 DEF HolderGroup, Lowest, Visible, NoLoader
<1> QED
  BY <1>1, <1>2

(* A map passes a loader on just when a visible process holds it or a       *)
(* program in a loader's group references it.                               *)
LEMMA PassesOnTraced ==
  ASSUME NEW s, Numbered(s), NEW group, NEW m \in DOMAIN s.maps
  PROVE  PassesOn(s, group, m) # NoLoader <=>
           Visible(s.maps[m].pids) \/ \E p \in Referrers(s, m) : group[p] # NoLoader
<1> DEFINE refs == {p \in Referrers(s, m) : group[p] # NoLoader}
<1>1. s.maps[m].pids \in SUBSET (Nat \ {0})
  BY DEF Numbered
<1>2. refs \in SUBSET Nat
  BY DEF Numbered, Referrers
<1>3. refs # {} => Min(refs) \in refs
  BY <1>2, MinIsIn
<1> QED
  BY <1>1, <1>3, HolderGroupVisible DEF PassesOn

(* A program is in a loader's group just when a route traces it there.      *)
LEMMA ProgTraced ==
  ASSUME Numbered(got), NEW p \in DOMAIN got.progs
  PROVE  progGroups(got)[p] # NoLoader <=> p \in TracedProgs
<1> DEFINE own == [q \in DOMAIN got.progs |-> HolderGroup(got.progs[q].pids)]
           arrays == {m \in DOMAIN got.maps : /\ p \in got.maps[m].progs
                                              /\ PassesOn(got, own, m) # NoLoader}
<1>1. \A q \in DOMAIN got.progs : own[q] # NoLoader <=> q \in HeldProgs
  BY HolderGroupVisible DEF Numbered, HeldProgs
<1>2. \A m \in DOMAIN got.maps :
        PassesOn(got, own, m) # NoLoader <=> m \in TracedBy(HeldProgs)
  <2> SUFFICES ASSUME NEW m \in DOMAIN got.maps
               PROVE  PassesOn(got, own, m) # NoLoader <=> m \in TracedBy(HeldProgs)
    OBVIOUS
  <2> HIDE DEF own
  <2>1. PassesOn(got, own, m) # NoLoader <=>
          Visible(got.maps[m].pids) \/ \E q \in Referrers(got, m) : own[q] # NoLoader
    BY PassesOnTraced
  <2> QED
    BY <1>1, <2>1 DEF TracedBy, Referrers, HeldProgs
<1>3. p \in TracedProgs <=> p \in HeldProgs \/ arrays # {}
  <2>1. \A m \in TracedBy(HeldProgs) : m \in DOMAIN got.maps
    BY DEF TracedBy
  <2> QED
    BY <1>2, <2>1 DEF TracedProgs
<1>4. arrays # {} => PassesOn(got, own, Min(arrays)) # NoLoader
  <2>1. arrays \in SUBSET Nat
    BY DEF Numbered
  <2> QED
    BY <2>1, MinIsIn
<1>5. progGroups(got)[p] = IF own[p] # NoLoader \/ arrays = {} THEN own[p]
                           ELSE PassesOn(got, own, Min(arrays))
  BY Zenon DEF progGroups
<1> HIDE DEF own, arrays
<1> QED
  BY <1>1, <1>3, <1>4, <1>5

(* A map passes a loader's group on to its slots just when it is traced     *)
(* itself, by a process or by a traced program.                             *)
LEMMA OuterTraced ==
  ASSUME Numbered(got), NEW m \in DOMAIN got.maps
  PROVE  PassesOn(got, progGroups(got), m) # NoLoader <=> m \in TracedBy(TracedProgs)
<1>1. PassesOn(got, progGroups(got), m) # NoLoader <=>
        Visible(got.maps[m].pids) \/ \E q \in Referrers(got, m) : progGroups(got)[q] # NoLoader
  BY PassesOnTraced
<1>2. TracedProgs \subseteq DOMAIN got.progs
  BY DEF TracedProgs, HeldProgs
<1> QED
  BY <1>1, <1>2, ProgTraced DEF TracedBy, Referrers

(* A map inherits a group just when it sits in a slot of a traced map.      *)
LEMMA InnerTraced ==
  ASSUME Numbered(got), NEW m
  PROVE  innerGroup(got, m) # NoLoader <=>
           \E o \in TracedBy(TracedProgs) : m \in got.maps[o].inner
<1> DEFINE outer == {o \in DOMAIN got.maps : /\ m \in got.maps[o].inner
                                             /\ PassesOn(got, progGroups(got), o) # NoLoader}
<1>1. outer = {o \in TracedBy(TracedProgs) : m \in got.maps[o].inner}
  <2>1. TracedBy(TracedProgs) \subseteq DOMAIN got.maps
    BY DEF TracedBy
  <2> QED
    BY <2>1, OuterTraced
<1>2. outer # {} => PassesOn(got, progGroups(got), Min(outer)) # NoLoader
  <2>1. outer \in SUBSET Nat
    BY DEF Numbered
  <2> QED
    BY <2>1, MinIsIn
<1>3. innerGroup(got, m) = IF outer = {} THEN NoLoader
                           ELSE PassesOn(got, progGroups(got), Min(outer))
  BY Zenon DEF innerGroup
<1> HIDE DEF outer
<1> QED
  BY <1>1, <1>2, <1>3

(* What the set of traced maps is made of.                                  *)
LEMMA InTracedMaps ==
  ASSUME NEW m
  PROVE  m \in TracedMaps <=>
           \/ m \in TracedBy(TracedProgs)
           \/ \E p \in TracedProgs : m \in got.progs[p].maps
           \/ \E o \in TracedBy(TracedProgs) : m \in got.maps[o].inner
<1> DEFINE ps == TracedProgs
           os == TracedBy(TracedProgs)
           byProgs == UNION {got.progs[p].maps : p \in ps}
           bySlots == UNION {got.maps[o].inner : o \in os}
<1> HIDE DEF ps, os
<1>1. TracedMaps = os \union byProgs \union bySlots
  BY Zenon DEF TracedMaps, ps, os
<1>2. m \in byProgs <=> \E p \in ps : m \in got.progs[p].maps
  OBVIOUS
<1>3. m \in bySlots <=> \E o \in os : m \in got.maps[o].inner
  OBVIOUS
<1> HIDE DEF byProgs, bySlots
<1>4. m \in TracedMaps <=> m \in os \/ m \in byProgs \/ m \in bySlots
  BY <1>1
<1> QED
  BY <1>2, <1>3, <1>4 DEF ps, os

(* The code knows a map's loader just when a route traces it to one.        *)
LEMMA KnownTraced ==
  ASSUME Numbered(got), NEW m
  PROVE  known(got, m) <=> m \in TracedMaps
<1>1. TracedProgs \subseteq DOMAIN got.progs
  BY DEF TracedProgs, HeldProgs
<1>2. Held(got, m) <=> m \in DOMAIN got.maps /\ Visible(got.maps[m].pids)
  BY HolderGroupVisible DEF Held, Numbered
<1>3. (\E p \in Referrers(got, m) : progGroups(got)[p] # NoLoader) <=>
        \E p \in TracedProgs : m \in got.progs[p].maps
  BY <1>1, ProgTraced DEF Referrers
<1>4. m \in TracedBy(TracedProgs) <=>
        /\ m \in DOMAIN got.maps
        /\ Visible(got.maps[m].pids) \/ \E p \in TracedProgs : m \in got.progs[p].maps
  BY DEF TracedBy
<1> QED
  BY <1>2, <1>3, <1>4, InTracedMaps, InnerTraced DEF known

(* A map is under no loader just when none is known: its holder, its        *)
(* references and what it inherits are asked in that order.                 *)
LEMMA MapTraced ==
  ASSUME Numbered(got), NEW m, m \in DOMAIN got.maps \/ Referrers(got, m) # {}
  PROVE  NoLoader \in MapGroups(got, m) <=> m \notin TracedMaps
<1>1. NoLoader \in ByReference(got, m) <=> Referrers(got, m) # {} /\ ~known(got, m)
  <2>1. ~known(got, m) => \A p \in Referrers(got, m) : progGroups(got)[p] = NoLoader
    BY DEF known
  <2> QED
    BY <2>1 DEF ByReference
<1>2. ASSUME m \in DOMAIN got.maps
      PROVE  NoLoader \in ByHolder(got, m) <=> Referrers(got, m) = {} /\ ~known(got, m)
  BY <1>2 DEF ByHolder, Held, known
<1>3. NoLoader \in MapGroups(got, m) <=> ~known(got, m)
  BY <1>1, <1>2 DEF MapGroups
<1> QED
  BY <1>3, KnownTraced

(* What an outer map shows as its loader is hidden, or the map is traced.   *)
LEMMA OuterShown ==
  ASSUME Numbered(got), NEW o \in DOMAIN got.maps
  PROVE  \/ outerLoaderRef(got, o) \in Hidden \union {NoLoader}
         \/ o \in TracedBy(HeldProgs)
<1> DEFINE pids == got.maps[o].pids
           refPids == UNION {got.progs[p].pids : p \in Referrers(got, o)}
<1>1. outerLoaderRef(got, o) = IF pids # {} THEN Min(pids)
                               ELSE IF refPids = {} THEN NoLoader ELSE Min(refPids)
  BY Zenon DEF outerLoaderRef, Lowest
<1>2. CASE pids # {}
  <2>1. Min(pids) \in pids
    BY <1>2, MinIsIn DEF Numbered
  <2>2. outerLoaderRef(got, o) \in pids
    BY <1>1, <1>2, <2>1
  <2> QED
    BY <2>2 DEF TracedBy, Visible
<1>3. CASE pids = {} /\ refPids # {}
  <2>1. refPids \in SUBSET Nat
    BY DEF Numbered, Referrers
  <2> DEFINE low == Min(refPids)
  <2>2. low \in refPids
    BY <1>3, <2>1, MinIsIn
  <2> HIDE DEF low
  <2>3. PICK p \in Referrers(got, o) : low \in got.progs[p].pids
    BY <2>2
  <2>4. outerLoaderRef(got, o) = low
    BY <1>1, <1>3, Zenon DEF low
  <2>5. p \in DOMAIN got.progs /\ o \in got.progs[p].maps
    BY <2>3 DEF Referrers
  <2>6. low \notin Hidden => p \in HeldProgs
    BY <2>3, <2>5 DEF HeldProgs, Visible
  <2>7. p \in HeldProgs => o \in TracedBy(HeldProgs)
    BY <2>5, Zenon DEF TracedBy
  <2> QED
    BY <2>4, <2>6, <2>7
<1>4. CASE pids = {} /\ refPids = {}
  BY <1>1, <1>4
<1> QED
  BY <1>2, <1>3, <1>4

(* The Holders column of an untraced program names hidden processes only.   *)
LEMMA ProgColumnHidden ==
  ASSUME Numbered(got), NEW p \in DOMAIN got.progs, p \notin TracedProgs
  PROVE  ProgColumn(got, p) \subseteq Hidden
<1>1. got.progs[p].pids \subseteq Hidden
  BY DEF TracedProgs, HeldProgs, Visible
<1>2. progArrayLoaders(got, p) \subseteq Hidden
  <2>1. \A m \in DOMAIN got.maps : p \in got.maps[m].progs => m \notin TracedBy(HeldProgs)
    BY DEF TracedProgs
  <2> QED
    BY <2>1, OuterShown DEF progArrayLoaders, Loaders
<1> QED
  BY <1>1, <1>2 DEF ProgColumn

(* So does that of an untraced map, by each of its three fallbacks.         *)
LEMMA MapColumnHidden ==
  ASSUME Numbered(got), NEW m \in DOMAIN got.maps, m \notin TracedMaps
  PROVE  MapColumn(got, m) \subseteq Hidden
<1>1. /\ m \notin TracedBy(TracedProgs)
      /\ \A p \in TracedProgs : m \notin got.progs[p].maps
      /\ \A o \in TracedBy(TracedProgs) : m \notin got.maps[o].inner
  BY InTracedMaps
<1>2. got.maps[m].pids \subseteq Hidden
  BY <1>1 DEF TracedBy, Visible
<1>3. mapLoaders(got, m) \subseteq Hidden
  <2> SUFFICES ASSUME NEW p \in Referrers(got, m)
               PROVE  progLoaderRef(got, p) \in Hidden \union {NoLoader}
    BY DEF mapLoaders, Loaders
  <2>1. p \in DOMAIN got.progs /\ p \notin TracedProgs
    BY <1>1 DEF Referrers
  <2>2. ProgColumn(got, p) \subseteq Hidden
    BY <2>1, ProgColumnHidden
  <2>3. ProgColumn(got, p) \in SUBSET Nat
    BY <2>2, PagesAssumption
  <2>4. ProgColumn(got, p) # {} => Min(ProgColumn(got, p)) \in Hidden
    BY <2>2, <2>3, MinIsIn
  <2> QED
    BY <2>4 DEF progLoaderRef, ProgColumn, Lowest
<1>4. innerMapLoaders(got, m) \subseteq Hidden
  <2>1. HeldProgs \subseteq TracedProgs
    BY DEF TracedProgs
  <2>2. TracedBy(HeldProgs) \subseteq TracedBy(TracedProgs)
    BY <2>1 DEF TracedBy
  <2> QED
    BY <1>1, <2>2, OuterShown DEF innerMapLoaders, Loaders
<1> QED
  BY <1>2, <1>3, <1>4 DEF MapColumn

-----------------------------------------------------------------------------
(* What the calls return is one of the lists, so it is numbered.            *)
ListsOK ==
  /\ calls \in Seq({"progs", "maps", "links"})
  /\ got \in [progs : Lists.progs, maps : Lists.maps, links : Lists.links]

(* What a list's ids and rows are.                                          *)
LEMMA SomeIsTyped ==
  ASSUME NEW Ids, NEW Info, NEW l \in Some(Ids, Info)
  PROVE  DOMAIN l \subseteq Ids /\ \A x \in DOMAIN l : l[x] \in Info
BY DEF Some

(* The ids and pids of what was returned are numbers.                       *)
LEMMA ListsNumbered == ListsOK => Numbered(got)
<1> SUFFICES ASSUME ListsOK PROVE Numbered(got)
  OBVIOUS
<1>1. got.progs \in Some(Progs, ProgInfo) /\ got.maps \in Some(Maps, MapInfo)
  BY DEF ListsOK, Lists
<1>2. /\ DOMAIN got.progs \subseteq Progs
      /\ \A p \in DOMAIN got.progs : got.progs[p] \in ProgInfo
  BY <1>1, SomeIsTyped
<1>3. /\ DOMAIN got.maps \subseteq Maps
      /\ \A m \in DOMAIN got.maps : got.maps[m] \in MapInfo
  BY <1>1, SomeIsTyped
<1>4. /\ \A i \in ProgInfo : i.pids \in HolderSets
      /\ \A i \in MapInfo : i.pids \in HolderSets
  BY DEF ProgInfo, MapInfo
<1>5. \A pids \in HolderSets : pids \subseteq Nat \ {0}
  BY PagesAssumption
<1>6. DOMAIN got.progs \subseteq Nat /\ DOMAIN got.maps \subseteq Nat
  BY <1>2, <1>3, PagesAssumption
<1>7. \A p \in DOMAIN got.progs : got.progs[p].pids \in HolderSets
  BY <1>2, <1>4
<1>8. \A m \in DOMAIN got.maps : got.maps[m].pids \in HolderSets
  BY <1>3, <1>4
<1> QED
  BY <1>5, <1>6, <1>7, <1>8 DEF Numbered

(* A call not made leaves an empty list, which is a list.                   *)
LEMMA NoneIsListed == None \in [progs : Lists.progs, maps : Lists.maps, links : Lists.links]
<1>1. \A Ids, Info : Empty \in Some(Ids, Info)
  <2> SUFFICES ASSUME NEW Ids, NEW Info PROVE Empty \in Some(Ids, Info)
    OBVIOUS
  <2>1. Empty \in [{} -> Info]
    BY DEF Empty
  <2> QED
    BY <2>1 DEF Some
<1>2. DOMAIN Empty = {}
  BY DEF Empty
<1>3. Empty \in Lists.progs /\ Empty \in Lists.maps /\ Empty \in Lists.links
  BY <1>1, <1>2 DEF Lists
<1> QED
  BY <1>3 DEF None

(* Every step leaves the lists, and the calls to make, what they may be.    *)
LEMMA ListsOKInvariant == Spec => []ListsOK
<1>1. Init => ListsOK
  <2> SUFFICES ASSUME Init PROVE ListsOK
    OBVIOUS
  <2>1. calls \in Seq({"progs", "maps", "links"})
    <3>1. page \in {"loaders", "programs", "maps", "links"} /\ calls = CallsOf[page]
      BY DEF Init, CallsOf
    <3>2. /\ CallsOf["loaders"] \in Seq({"progs", "maps", "links"})
          /\ CallsOf["programs"] \in Seq({"progs", "maps", "links"})
          /\ CallsOf["maps"] \in Seq({"progs", "maps", "links"})
          /\ CallsOf["links"] \in Seq({"progs", "maps", "links"})
      BY DEF CallsOf
    <3> QED
      BY <3>1, <3>2
  <2> QED
    BY <2>1, NoneIsListed DEF Init, ListsOK
<1>2. ListsOK /\ [Next]_vars => ListsOK'
  <2> SUFFICES ASSUME ListsOK, [Next]_vars PROVE ListsOK'
    OBVIOUS
  <2>1. CASE AgentAnswers
    <3>1. Head(calls) \in {"progs", "maps", "links"}
      BY <2>1 DEF ListsOK, AgentAnswers
    <3>2. calls' \in Seq({"progs", "maps", "links"})
      BY <2>1 DEF ListsOK, AgentAnswers
    <3>3. PICK l \in Lists[Head(calls)] : got' = [got EXCEPT ![Head(calls)] = l]
      BY <2>1 DEF AgentAnswers
    <3>4. got' \in [progs : Lists.progs, maps : Lists.maps, links : Lists.links]
      BY <3>1, <3>3 DEF ListsOK
    <3> QED
      BY <3>2, <3>4 DEF ListsOK
  <2>2. CASE CallFails
    <3>1. calls' \in Seq({"progs", "maps", "links"})
      BY <2>2 DEF ListsOK, CallFails
    <3> QED
      BY <2>2, <3>1, NoneIsListed DEF ListsOK, CallFails
  <2>3. CASE Render
    BY <2>3 DEF ListsOK, Render
  <2>4. CASE UNCHANGED vars
    BY <2>4 DEF ListsOK, vars
  <2> QED
    BY <2>1, <2>2, <2>3, <2>4 DEF Next
<1> QED
  BY <1>1, <1>2, PTL DEF Spec

(* The no-loader group has exactly what no route traces to a loader         *)
(* (graph.go:107-183): five loops, each taking the lowest id, agree with    *)
(* "there is a route".                                                      *)
THEOREM GroupsTraced == Spec => []NoLoaderIsUntraced
<1>1. ListsOK => NoLoaderIsUntraced
  <2> SUFFICES ASSUME ListsOK PROVE NoLoaderIsUntraced
    OBVIOUS
  <2>1. Numbered(got)
    BY ListsNumbered
  <2>2. \A p \in DOMAIN got.progs : progGroups(got)[p] = NoLoader <=> p \notin TracedProgs
    BY <2>1, ProgTraced
  <2>3. \A m \in DOMAIN got.maps \union (UNION {got.progs[p].maps : p \in DOMAIN got.progs}) :
          NoLoader \in MapGroups(got, m) <=> m \notin TracedMaps
    <3> SUFFICES ASSUME NEW m, m \in DOMAIN got.maps \/ Referrers(got, m) # {}
                 PROVE  NoLoader \in MapGroups(got, m) <=> m \notin TracedMaps
      BY DEF Referrers
    <3> QED
      BY <2>1, MapTraced
  <2>4. \A l \in DOMAIN got.links :
          LinkGroup(got, l) = NoLoader <=> got.links[l] \notin TracedProgs
    <3>1. TracedProgs \subseteq DOMAIN got.progs
      BY DEF TracedProgs, HeldProgs
    <3> QED
      BY <2>2, <3>1 DEF LinkGroup
  <2> QED
    BY <2>2, <2>3, <2>4 DEF NoLoaderIsUntraced
<1> QED
  BY <1>1, ListsOKInvariant, PTL

(* No row of the no-loader group names a loader in its Holders column       *)
(* (graph.go:104-106).                                                      *)
THEOREM UntracedRowsNameNobody == Spec => []NoLoaderRowsNameNobody
<1>1. ListsOK => NoLoaderRowsNameNobody
  <2> SUFFICES ASSUME ListsOK PROVE NoLoaderRowsNameNobody
    OBVIOUS
  <2>1. Numbered(got)
    BY ListsNumbered
  <2>2. \A p \in DOMAIN got.progs :
          progGroups(got)[p] = NoLoader => ProgColumn(got, p) \subseteq Hidden
    BY <2>1, ProgTraced, ProgColumnHidden
  <2>3. \A m \in DOMAIN got.maps :
          NoLoader \in MapGroups(got, m) => MapColumn(got, m) \subseteq Hidden
    BY <2>1, MapTraced, MapColumnHidden
  <2> QED
    BY <2>2, <2>3 DEF NoLoaderRowsNameNobody
<1> QED
  BY <1>1, ListsOKInvariant, PTL

(* A listed map that is in no group inherits one: the loops leave nothing   *)
(* else out (graph.go:160-176).                                             *)
THEOREM OnlyHeirsAreLost == Spec => []OnlyInheritedMapsAreLost
<1>1. ListsOK => OnlyInheritedMapsAreLost
  <2> SUFFICES ASSUME ListsOK, NEW m \in DOMAIN got.maps, MapGroups(got, m) = {}
               PROVE  /\ ~Visible(got.maps[m].pids)
                      /\ Referrers(got, m) # {}
                      /\ Referrers(got, m) \cap TracedProgs = {}
                      /\ \E o \in TracedBy(TracedProgs) : m \in got.maps[o].inner
    BY DEF OnlyInheritedMapsAreLost
  <2>1. Numbered(got)
    BY ListsNumbered
  <2>2. ByHolder(got, m) = {} /\ ByReference(got, m) = {}
    BY DEF MapGroups
  <2>3. ~Held(got, m) /\ Referrers(got, m) # {}
    BY <2>2 DEF ByHolder
  <2>4. known(got, m) /\ \A p \in Referrers(got, m) : progGroups(got)[p] = NoLoader
    BY <2>2, <2>3 DEF ByReference
  <2>5. ~Visible(got.maps[m].pids)
    BY <2>1, <2>3, HolderGroupVisible DEF Held, Numbered
  <2>6. Referrers(got, m) \cap TracedProgs = {}
    BY <2>1, <2>4, ProgTraced DEF Referrers
  <2>7. innerGroup(got, m) # NoLoader
    BY <2>3, <2>4 DEF known
  <2> QED
    BY <2>1, <2>3, <2>5, <2>6, <2>7, InnerTraced
<1> QED
  BY <1>1, ListsOKInvariant, PTL

-----------------------------------------------------------------------------
(* The finding of a node's agent.                                           *)

LEMMA FirstExists ==
  ASSUME NEW S \in SUBSET Nat, S # {}
  PROVE  FirstOf(S) # {}
BY LowestIsIn DEF FirstOf

LEMMA ElementsTyped ==
  ASSUME NEW S, NEW s \in Seq(S)
  PROVE  DOMAIN s \subseteq Nat /\ \A i \in DOMAIN s : s[i] \in S
<1>1. DOMAIN s = 1..Len(s) /\ Len(s) \in Nat /\ \A i \in 1..Len(s) : s[i] \in S
  OBVIOUS
<1> QED
  BY <1>1

AgentsTyped ==
  /\ spec \in Seq([node : Nodes, addr : Nat])
  /\ DOMAIN pods \subseteq Pods /\ \A p \in DOMAIN pods : pods[p].node \in Nodes

(* What is steady has an agent now, and what has been opened and dialled is *)
(* what was asked for.                                                      *)
FindInv ==
  /\ AgentsTyped
  /\ visit \in {"index", "node", "call", "over"}
  /\ \A k \in steady : AgentOn(k)
  /\ visit = "index" => opened = 0 /\ entry = "index"
  /\ visit \in {"index", "node", "call"} => result = "none"
  /\ visit \in {"node", "call"} => opened \in Nodes
  /\ visit = "call" => IF spec = <<>> THEN addr \in DOMAIN pods /\ pods[addr].node = opened
                       ELSE \E i \in DOMAIN spec : spec[i] = Endpoint(opened, addr)
  /\ FindsTheNode

LEMMA NodesAreListed ==
  ASSUME AgentsTyped
  PROVE  /\ Listed \subseteq Nat /\ nodes \subseteq Nodes /\ nodes \subseteq Nat \ {0}
         /\ \A i \in Listed : Endpoints(i).node \in Nodes
         /\ \A k : AgentOn(k) <=> \E i \in Listed : Endpoints(i).node = k
<1>1. DOMAIN spec \subseteq Nat /\ \A i \in DOMAIN spec : spec[i] \in [node : Nodes, addr : Nat]
  BY ElementsTyped DEF AgentsTyped
<1>2. Pods \subseteq Nat /\ Nodes \subseteq Nat \ {0}
  BY DiscoveryAssumption
<1>3. CASE spec # <<>>
  <2>1. Listed = DOMAIN spec /\ \A i : Endpoints(i) = spec[i]
    BY <1>3 DEF Listed, Endpoints
  <2>2. \A i \in DOMAIN spec : spec[i].node \in Nodes
    BY <1>1
  <2> QED
    BY <1>1, <1>2, <1>3, <2>1, <2>2 DEF nodes, AgentOn
<1>4. CASE spec = <<>>
  <2>1. Listed = {p \in DOMAIN pods : podReady(p)} /\ \A i : Endpoints(i).node = pods[i].node
    BY <1>4 DEF Listed, Endpoints, Endpoint
  <2>2. \A i \in Listed : i \in Pods /\ pods[i].node \in Nodes
    BY <2>1 DEF AgentsTyped
  <2>3. \A k : AgentOn(k) <=> \E p \in Listed : pods[p].node = k
    BY <1>4, <2>1 DEF AgentOn
  <2> QED
    BY <1>2, <2>1, <2>2, <2>3 DEF nodes
<1> QED
  BY <1>3, <1>4

LEMMA FindInitial ==
  ASSUME DiscoveryInit
  PROVE  FindInv
<1>1. spec \in Seq([node : Nodes, addr : Nat])
  <2>1. \A s \in Specs : ParseStatic(s) = <<>> \/ ParseStatic(s) \in Specs
    BY DEF ParseStatic
  <2>2. spec = <<>> \/ spec \in Specs
    BY <2>1 DEF DiscoveryInit
  <2>3. <<>> \in Seq([node : Nodes, addr : Nat])
    OBVIOUS
  <2> QED
    BY <2>2, <2>3, DiscoveryAssumption
<1>2. DOMAIN pods \subseteq Pods /\ \A p \in DOMAIN pods : pods[p].node \in Nodes
  <2>1. CASE spec # <<>>
    BY <2>1 DEF DiscoveryInit
  <2>2. CASE spec = <<>>
    <3>1. PICK ps \in SUBSET Pods : pods \in [ps -> UNION {Pod(k, {"Running"}, {TRUE}) : k \in Nodes}]
      BY <2>2 DEF DiscoveryInit
    <3>2. \A k \in Nodes : \A x \in Pod(k, {"Running"}, {TRUE}) : x.node = k
      BY DEF Pod
    <3>3. \A x \in UNION {Pod(k, {"Running"}, {TRUE}) : k \in Nodes} : x.node \in Nodes
      BY <3>2
    <3> QED
      BY <3>1, <3>3
  <2> QED
    BY <2>1, <2>2
<1>3. FindsTheNode
  BY DEF DiscoveryInit, FindsTheNode
<1>4. /\ \A k \in steady : AgentOn(k)
      /\ visit = "index" => opened = 0 /\ entry = "index"
      /\ visit \in {"index", "node"} /\ result = "none"
      /\ visit = "node" => opened \in Nodes
  BY DEF DiscoveryInit
<1> QED
  BY <1>1, <1>2, <1>3, <1>4 DEF FindInv, AgentsTyped

LEMMA FindStep ==
  ASSUME FindInv, DiscoveryNext
  PROVE  FindInv'
<1>1. AgentsTyped /\ FindsTheNode
  BY DEF FindInv
<1>2. CASE PodsChange
  <2>1. /\ spec = <<>> /\ UNCHANGED <<spec, entry, visit, opened, addr, result>>
        /\ steady' = {k \in steady : AgentOn(k)'}
    BY <1>2 DEF PodsChange
  <2>2. /\ DOMAIN pods \subseteq DOMAIN pods' /\ DOMAIN pods' \subseteq Pods
        /\ \A p \in DOMAIN pods' : pods'[p].node \in Nodes
        /\ \A p \in DOMAIN pods : pods'[p].node = pods[p].node
    <3> DEFINE Kept == /\ DOMAIN pods \subseteq DOMAIN pods' /\ DOMAIN pods' \subseteq Pods
                       /\ \A p \in DOMAIN pods' : pods'[p].node \in Nodes
                       /\ \A p \in DOMAIN pods : pods'[p].node = pods[p].node
    <3>1. ASSUME NEW p \in Pods \ DOMAIN pods, NEW k \in Nodes, NEW new \in Pod(k, {"Pending"}, {FALSE}),
                 pods' = [q \in DOMAIN pods \union {p} |-> IF q = p THEN new ELSE pods[q]]
          PROVE  Kept
      <4>1. new.node = k
        BY DEF Pod
      <4> QED
        BY <1>1, <3>1, <4>1 DEF AgentsTyped
    <3>2. ASSUME NEW p \in DOMAIN pods, NEW s \in Later(pods[p].node), pods' = [pods EXCEPT ![p] = s]
          PROVE  Kept
      <4>1. s.node = pods[p].node
        BY DEF Later, Pod
      <4> QED
        BY <1>1, <3>2, <4>1 DEF AgentsTyped
    <3> QED
      BY <1>2, <3>1, <3>2 DEF PodsChange
  <2>3. AgentsTyped' /\ \A k \in steady' : AgentOn(k)'
    BY <1>1, <2>1, <2>2 DEF AgentsTyped
  <2>4. FindsTheNode'
    <3>1. visit # "over" /\ result = "none"
      BY <1>2 DEF PodsChange, FindInv
    <3>2. entry = "index" /\ opened # 0 => \A k \in steady' : opened <= k
      BY <1>1, <2>1 DEF FindsTheNode
    <3> QED
      BY <2>1, <3>1, <3>2 DEF FindsTheNode
  <2>5. visit = "call" => addr \in DOMAIN pods' /\ pods'[addr].node = opened
    BY <2>1, <2>2 DEF FindInv
  <2> QED
    BY <2>1, <2>3, <2>4, <2>5 DEF FindInv
<1>3. ASSUME UNCHANGED <<spec, pods, steady>>
      PROVE  AgentsTyped' /\ \A k \in steady' : AgentOn(k)'
  <2>1. \A k : AgentOn(k)' = AgentOn(k)
    BY <1>3 DEF AgentOn, podReady
  <2> QED
    BY <1>3, <2>1 DEF FindInv, AgentsTyped
<1>4. CASE index
  <2>1. UNCHANGED <<spec, pods, entry, addr, steady>> /\ opened = 0 /\ result = "none" /\ entry = "index"
    BY <1>4 DEF index, FindInv, cluster
  <2>2. \A k \in steady : k \in nodes
    BY <1>1, NodesAreListed DEF FindInv, nodes
  <2>3. CASE Over("error") /\ UNCHANGED opened
    BY <1>3, <2>1, <2>3 DEF Over, FindInv, FindsTheNode
  <2>4. CASE nodes = {} /\ Over("no agents") /\ UNCHANGED opened
    BY <1>3, <2>1, <2>2, <2>4 DEF Over, FindInv, FindsTheNode
  <2>5. CASE opened' \in FirstOf(nodes) /\ visit' = "node" /\ UNCHANGED result
    <3>1. opened' \in nodes /\ \A k \in nodes : opened' <= k
      BY <2>5 DEF FirstOf
    <3>2. opened' \in Nodes
      BY <1>1, <3>1, NodesAreListed
    <3> QED
      BY <1>3, <2>1, <2>2, <2>5, <3>1, <3>2 DEF FindInv, FindsTheNode
  <2> QED
    BY <1>4, <2>3, <2>4, <2>5 DEF index
<1>5. CASE dial
  <2>1. UNCHANGED <<spec, pods, entry, opened, steady>> /\ result = "none" /\ opened \in Nodes
        /\ visit = "node"
    BY <1>5 DEF dial, FindInv, cluster
  <2>2. CASE Over("error") /\ UNCHANGED addr
    BY <1>1, <1>3, <2>1, <2>2 DEF Over, FindInv, FindsTheNode
  <2>3. CASE AddrsOf(opened) = {} /\ Over("not found") /\ UNCHANGED addr
    <3>1. opened \notin steady
      <4> SUFFICES ASSUME opened \in steady PROVE FALSE
        OBVIOUS
      <4> DEFINE places == {i \in Listed : Endpoints(i).node = opened}
      <4>1. places # {} /\ places \in SUBSET Nat
        BY <1>1, NodesAreListed DEF FindInv
      <4>2. FirstOf(places) # {}
        BY <4>1, FirstExists
      <4> QED
        BY <2>3, <4>2 DEF AddrsOf
    <3> QED
      BY <1>1, <1>3, <2>1, <2>3, <3>1 DEF Over, FindInv, FindsTheNode
  <2>4. CASE addr' \in AddrsOf(opened) /\ visit' = "call" /\ UNCHANGED result
    <3>1. PICK i \in Listed : Endpoints(i).node = opened /\ addr' = Endpoints(i).addr
      BY <2>4 DEF AddrsOf, FirstOf
    <3>2. CASE spec = <<>>
      <4>1. i \in DOMAIN pods /\ Endpoints(i) = Endpoint(pods[i].node, i)
        BY <3>1, <3>2 DEF Listed, Endpoints
      <4>2. addr' = i /\ pods[i].node = opened
        BY <3>1, <4>1 DEF Endpoint
      <4> QED
        BY <1>1, <1>3, <2>1, <2>4, <3>2, <4>1, <4>2 DEF FindInv, FindsTheNode
    <3>3. CASE spec # <<>>
      <4>1. i \in DOMAIN spec /\ spec[i].node = opened /\ addr' = spec[i].addr
        BY <3>1, <3>3 DEF Listed, Endpoints
      <4>2. spec[i] \in [node : Nodes, addr : Nat]
        BY <1>1, <4>1, ElementsTyped DEF AgentsTyped
      <4>3. spec[i] = Endpoint(opened, addr')
        BY <4>1, <4>2 DEF Endpoint
      <4> QED
        BY <1>1, <1>3, <2>1, <2>4, <3>3, <4>1, <4>3 DEF FindInv, FindsTheNode, Endpoint
    <3> QED
      BY <3>2, <3>3
  <2> QED
    BY <1>5, <2>2, <2>3, <2>4 DEF dial
<1>6. CASE Call
  <2>1. UNCHANGED <<spec, pods, entry, opened, addr, steady>> /\ result = "none" /\ visit = "call"
    BY <1>6 DEF Call, FindInv, cluster
  <2>2. visit' = "over" /\ result' \in {"page", "unavailable"}
    BY <1>6 DEF Call, Over
  <2>3. IF spec = <<>> THEN addr \in DOMAIN pods /\ pods[addr].node = opened
        ELSE \E i \in DOMAIN spec : spec[i] = Endpoint(opened, addr)
    BY <2>1 DEF FindInv
  <2>4. FindsTheNode'
    BY <1>1, <2>1, <2>2, <2>3 DEF FindsTheNode, Endpoint
  <2> QED
    BY <1>3, <2>1, <2>2, <2>4 DEF FindInv
<1> QED
  BY <1>2, <1>4, <1>5, <1>6 DEF DiscoveryNext

(* FindsTheNode holds of every reachable state: a node that has an agent    *)
(* ready throughout is found whichever pods come and go, the index opens    *)
(* the first, and the agent reached is one of the node that was opened      *)
(* (discovery/kube.go:36-66, handlers.go:289-312, 905-944).                 *)
THEOREM NodeAlwaysFound == DiscoverySpec => []FindsTheNode
<1>1. FindInv /\ [DiscoveryNext]_discoveryVars => FindInv'
  <2> SUFFICES ASSUME FindInv, [DiscoveryNext]_discoveryVars PROVE FindInv'
    OBVIOUS
  <2>1. CASE UNCHANGED discoveryVars
    <3>1. UNCHANGED <<spec, pods, entry, visit, opened, addr, result, steady>>
      BY <2>1 DEF discoveryVars, cluster, browser
    <3> QED
      BY <3>1 DEF FindInv, AgentsTyped, FindsTheNode, AgentOn, podReady, Endpoint
  <2> QED
    BY <2>1, FindStep
<1>2. FindInv => FindsTheNode
  BY DEF FindInv
<1> QED
  BY <1>1, <1>2, FindInitial, PTL DEF DiscoverySpec

-----------------------------------------------------------------------------
(* The diagrams: what is gathered and what is drawn.                        *)

(* The lists, and the tail calls, that a page can have.                     *)
ListedTyped ==
  /\ DOMAIN listed.progs \subseteq Progs
  /\ DOMAIN listed.maps \subseteq Maps
  /\ tails # {} => subject.kind = "program"

(* A group draws listed programs and links, and the tail calls of the       *)
(* program that the page is of.                                             *)
GroupOf(g) ==
  /\ g.progs \subseteq DOMAIN listed.progs
  /\ g.links \subseteq DOMAIN listed.links
  /\ g.calls \subseteq tails
  /\ g.calls # {} => subject.id \in g.progs
  /\ \A c \in g.calls : c.to \in g.progs
  /\ \A c \in tails : c.to \in DOMAIN listed.progs => c \in g.calls
  /\ \A l \in g.links : \/ listed.links[l] \in g.progs
                        \/ subject.kind = "loader" /\ listed.links[l] \notin DOMAIN listed.progs

(* An edge, and a node, of what is drawn of a group.                        *)
Attaches(g, e) == \E l \in g.links :
  listed.links[l] # 0 /\ e = Edge(Node("link", l), "attaches", Node("program", listed.links[l]))
Uses(g, e) == \E p \in g.progs, m \in g.maps :
  m \in listed.progs[p].maps /\ e = Edge(Node("program", p), "uses", Node("map", m))
Holds(g, e) == \E o, m \in g.maps :
  m \in Slots(o).inner /\ e = Edge(Node("map", o), "holds", Node("map", m))
MayCall(g, e) == \E m \in g.maps, p \in g.progs :
  /\ <<m, p>> \notin Precise(g) /\ p \in Slots(m).progs
  /\ e = Edge(Node("map", m), "may tail call", Node("program", p))
Jumps(g, e) == \E c \in g.calls :
  e = Edge(Node("program", subject.id), <<"tail call", c.slot>>, Node("program", c.to))

IsEdge(g, e) == Attaches(g, e) \/ Uses(g, e) \/ Holds(g, e) \/ MayCall(g, e) \/ Jumps(g, e)
IsNode(g, n) ==
  \/ \E p \in g.progs : n = Node("program", p)
  \/ \E m \in g.maps : n = Node("map", m)
  \/ \E l \in g.links : n = Node("link", l)

LEMMA WhatIsDrawn ==
  ASSUME NEW g
  PROVE  /\ \A n : n \in buildGroupMermaid(g).nodes <=> IsNode(g, n)
         /\ \A e : e \in buildGroupMermaid(g).edges <=> IsEdge(g, e)
<1> DEFINE ns == {Node("program", p) : p \in g.progs} \union {Node("map", m) : m \in g.maps}
                   \union {Node("link", l) : l \in g.links}
           attaches == {Edge(Node("link", l), "attaches", Node("program", listed.links[l])) :
                          l \in {l \in g.links : listed.links[l] # 0}}
           uses == {Edge(Node("program", x[1]), "uses", Node("map", x[2])) :
                      x \in {x \in g.progs \X g.maps : x[2] \in listed.progs[x[1]].maps}}
           holds == {Edge(Node("map", x[1]), "holds", Node("map", x[2])) :
                       x \in {x \in g.maps \X g.maps : x[2] \in Slots(x[1]).inner}}
           slots == {Edge(Node("map", x[1]), "may tail call", Node("program", x[2])) :
                       x \in {x \in (g.maps \X g.progs) \ Precise(g) : x[2] \in Slots(x[1]).progs}}
           jumps == {Edge(Node("program", subject.id), <<"tail call", c.slot>>, Node("program", c.to)) :
                      c \in g.calls}
<1>1. buildGroupMermaid(g) = [nodes |-> ns,
                              edges |-> attaches \union uses \union holds \union slots \union jumps]
  BY Zenon DEF buildGroupMermaid
<1>2. \A n : n \in ns <=> IsNode(g, n)
  BY DEF IsNode
<1>3. \A e : e \in attaches <=> Attaches(g, e)
  BY DEF Attaches
<1>4. \A e : e \in uses <=> Uses(g, e)
  <2> SUFFICES ASSUME NEW e PROVE e \in uses <=> Uses(g, e)
    OBVIOUS
  <2>1. e \in uses <=> \E x \in g.progs \X g.maps :
          x[2] \in listed.progs[x[1]].maps /\ e = Edge(Node("program", x[1]), "uses", Node("map", x[2]))
    BY Zenon
  <2>2. ASSUME NEW x \in g.progs \X g.maps
        PROVE  x[1] \in g.progs /\ x[2] \in g.maps /\ x = <<x[1], x[2]>>
    OBVIOUS
  <2>3. ASSUME e \in uses PROVE Uses(g, e)
    <3>1. PICK x \in g.progs \X g.maps : x[2] \in listed.progs[x[1]].maps /\ e = Edge(Node("program", x[1]), "uses", Node("map", x[2]))
      BY <2>1, <2>3, <2>2
    <3> QED
      BY <2>2, <3>1 DEF Uses
  <2>4. ASSUME Uses(g, e) PROVE e \in uses
    <3>1. PICK a \in g.progs, b \in g.maps :
            b \in listed.progs[a].maps /\ e = Edge(Node("program", a), "uses", Node("map", b))
      BY <2>4 DEF Uses
    <3>2. <<a, b>> \in g.progs \X g.maps /\ <<a, b>>[1] = a /\ <<a, b>>[2] = b
      OBVIOUS
    <3> HIDE DEF uses
    <3> QED
      BY <2>1, <3>1, <3>2
  <2> QED
    BY <2>3, <2>4
<1>5. \A e : e \in holds <=> Holds(g, e)
  <2> SUFFICES ASSUME NEW e PROVE e \in holds <=> Holds(g, e)
    OBVIOUS
  <2>1. e \in holds <=> \E x \in g.maps \X g.maps :
          x[2] \in Slots(x[1]).inner /\ e = Edge(Node("map", x[1]), "holds", Node("map", x[2]))
    BY Zenon
  <2>2. ASSUME NEW x \in g.maps \X g.maps
        PROVE  x[1] \in g.maps /\ x[2] \in g.maps /\ x = <<x[1], x[2]>>
    OBVIOUS
  <2>3. ASSUME e \in holds PROVE Holds(g, e)
    <3>1. PICK x \in g.maps \X g.maps : x[2] \in Slots(x[1]).inner /\ e = Edge(Node("map", x[1]), "holds", Node("map", x[2]))
      BY <2>1, <2>3, <2>2
    <3> QED
      BY <2>2, <3>1 DEF Holds
  <2>4. ASSUME Holds(g, e) PROVE e \in holds
    <3>1. PICK a \in g.maps, b \in g.maps :
            b \in Slots(a).inner /\ e = Edge(Node("map", a), "holds", Node("map", b))
      BY <2>4 DEF Holds
    <3>2. <<a, b>> \in g.maps \X g.maps /\ <<a, b>>[1] = a /\ <<a, b>>[2] = b
      OBVIOUS
    <3> HIDE DEF holds
    <3> QED
      BY <2>1, <3>1, <3>2
  <2> QED
    BY <2>3, <2>4
<1>6. \A e : e \in slots <=> MayCall(g, e)
  <2> SUFFICES ASSUME NEW e PROVE e \in slots <=> MayCall(g, e)
    OBVIOUS
  <2>1. e \in slots <=> \E x \in g.maps \X g.progs :
          x \notin Precise(g) /\ x[2] \in Slots(x[1]).progs /\ e = Edge(Node("map", x[1]), "may tail call", Node("program", x[2]))
    BY Zenon
  <2>2. ASSUME NEW x \in g.maps \X g.progs
        PROVE  x[1] \in g.maps /\ x[2] \in g.progs /\ x = <<x[1], x[2]>>
    OBVIOUS
  <2>3. ASSUME e \in slots PROVE MayCall(g, e)
    <3>1. PICK x \in g.maps \X g.progs : <<x[1], x[2]>> \notin Precise(g) /\ x[2] \in Slots(x[1]).progs /\ e = Edge(Node("map", x[1]), "may tail call", Node("program", x[2]))
      BY <2>1, <2>3, <2>2
    <3> QED
      BY <2>2, <3>1 DEF MayCall
  <2>4. ASSUME MayCall(g, e) PROVE e \in slots
    <3>1. PICK a \in g.maps, b \in g.progs :
            <<a, b>> \notin Precise(g) /\ b \in Slots(a).progs /\ e = Edge(Node("map", a), "may tail call", Node("program", b))
      BY <2>4 DEF MayCall
    <3>2. <<a, b>> \in g.maps \X g.progs /\ <<a, b>>[1] = a /\ <<a, b>>[2] = b
      OBVIOUS
    <3> HIDE DEF slots
    <3> QED
      BY <2>1, <3>1, <3>2
  <2> QED
    BY <2>3, <2>4
<1>7. \A e : e \in jumps <=> Jumps(g, e)
  BY DEF Jumps
<1> HIDE DEF ns, attaches, uses, holds, slots, jumps
<1> QED
  BY <1>1, <1>2, <1>3, <1>4, <1>5, <1>6, <1>7 DEF IsEdge

(* The two properties, of a diagram that is not shown yet.                  *)
NamedIn(d) == d.nodes \union UNION {{e.from, e.to} : e \in d.edges}
JoinedIn(d, a, b) == \E e \in d.edges : e.from = a /\ e.to = b

RefersDrawn(d) == \A a, b \in d.nodes :
  Refers(a, b) => \/ JoinedIn(d, a, b)
                  \/ /\ b.kind = "program"
                     /\ \E c \in tails : /\ c.map = a.id /\ c.to = b.id
                                         /\ JoinedIn(d, Node("program", subject.id), b)
CallsDrawn(d) == \A c \in tails : c.to \in DOMAIN listed.progs =>
  \E e \in d.edges :
    e = Edge(Node("program", subject.id), <<"tail call", c.slot>>, Node("program", c.to))
EdgesMean(d) == \A e \in d.edges :
  \/ Refers(e.from, e.to)
  \/ \E c \in tails : e.what = <<"tail call", c.slot>> /\ e.to.id = c.to
NothingElse(d) == \A n \in NamedIn(d) \ d.nodes :
  subject.kind = "loader" /\ n.kind = "program" /\ n.id \notin DOMAIN listed.progs

LEMMA EveryReference ==
  ASSUME ListedTyped, NEW g, GroupOf(g), NEW d, d = buildGroupMermaid(g)
  PROVE  RefersDrawn(d)
<1> SUFFICES ASSUME NEW a \in d.nodes, NEW b \in d.nodes, Refers(a, b)
             PROVE  \/ JoinedIn(d, a, b)
                    \/ /\ b.kind = "program"
                       /\ \E c \in tails : /\ c.map = a.id /\ c.to = b.id
                                           /\ JoinedIn(d, Node("program", subject.id), b)
  BY DEF RefersDrawn
<1>1. IsNode(g, a) /\ IsNode(g, b)
  BY WhatIsDrawn
<1>2. \A e : IsEdge(g, e) => e \in d.edges
  BY WhatIsDrawn
<1>3. 0 \notin Progs
  BY PagesAssumption
<1>4. /\ b.kind = "program" => b.id \in g.progs /\ b = Node("program", b.id)
      /\ b.kind = "map" => b.id \in g.maps /\ b = Node("map", b.id)
  BY <1>1 DEF IsNode, Node
<1>5. CASE \E l \in g.links : a = Node("link", l)
  <2>1. a.id \in g.links /\ a = Node("link", a.id) /\ a.kind = "link"
    BY <1>5 DEF Node
  <2>2. b.kind = "program" /\ listed.links[a.id] = b.id
    BY <2>1 DEF Refers
  <2>3. b.id # 0
    BY <1>3, <1>4, <2>2 DEF GroupOf, ListedTyped
  <2>4. Attaches(g, Edge(a, "attaches", b))
    BY <1>4, <2>1, <2>2, <2>3 DEF Attaches
  <2> QED
    BY <1>2, <2>4 DEF IsEdge, JoinedIn, Edge
<1>6. CASE \E p \in g.progs : a = Node("program", p)
  <2>1. a.id \in g.progs /\ a = Node("program", a.id) /\ a.kind = "program"
    BY <1>6 DEF Node
  <2>2. b.kind = "map" /\ b.id \in listed.progs[a.id].maps
    BY <2>1 DEF Refers
  <2>3. Uses(g, Edge(a, "uses", b))
    BY <1>4, <2>1, <2>2 DEF Uses
  <2> QED
    BY <1>2, <2>3 DEF IsEdge, JoinedIn, Edge
<1>7. CASE \E m \in g.maps : a = Node("map", m)
  <2>1. a.id \in g.maps /\ a = Node("map", a.id) /\ a.kind = "map"
    BY <1>7 DEF Node
  <2>2. /\ a.id \in DOMAIN listed.maps
        /\ \/ b.kind = "map" /\ b.id \in listed.maps[a.id].inner
           \/ b.kind = "program" /\ b.id \in listed.maps[a.id].progs
    BY <2>1 DEF Refers
  <2>3. Slots(a.id) = listed.maps[a.id]
    BY <2>2 DEF Slots
  <2>4. CASE b.kind = "map"
    <3>1. Holds(g, Edge(a, "holds", b))
      BY <1>4, <2>1, <2>2, <2>3, <2>4 DEF Holds
    <3> QED
      BY <1>2, <3>1 DEF IsEdge, JoinedIn, Edge
  <2>5. CASE b.kind = "program" /\ <<a.id, b.id>> \notin Precise(g)
    <3>1. MayCall(g, Edge(a, "may tail call", b))
      BY <1>4, <2>1, <2>2, <2>3, <2>5 DEF MayCall
    <3>2. Edge(a, "may tail call", b) \in d.edges
      BY <1>2, <3>1, Zenon DEF IsEdge
    <3> QED
      BY <3>2 DEF JoinedIn, Edge
  <2>6. CASE b.kind = "program" /\ <<a.id, b.id>> \in Precise(g)
    <3>1. PICK c \in g.calls : c.map = a.id /\ c.to = b.id
      BY <2>6 DEF Precise
    <3>2. Jumps(g, Edge(Node("program", subject.id), <<"tail call", c.slot>>, b))
      BY <1>4, <2>6, <3>1 DEF Jumps
    <3>3. JoinedIn(d, Node("program", subject.id), b)
      <4>1. Edge(Node("program", subject.id), <<"tail call", c.slot>>, b) \in d.edges
        BY <1>2, <3>2, Zenon DEF IsEdge
      <4> QED
        BY <4>1 DEF JoinedIn, Edge
    <3> QED
      BY <2>6, <3>1, <3>3 DEF GroupOf
  <2> QED
    BY <2>2, <2>4, <2>5, <2>6
<1> QED
  BY <1>1, <1>5, <1>6, <1>7 DEF IsNode

LEMMA NoOtherEdge ==
  ASSUME ListedTyped, NEW g, GroupOf(g), NEW d, d = buildGroupMermaid(g)
  PROVE  CallsDrawn(d) /\ EdgesMean(d) /\ NothingElse(d)
<1>1. CallsDrawn(d)
  <2> SUFFICES ASSUME NEW c \in tails, c.to \in DOMAIN listed.progs
               PROVE  Edge(Node("program", subject.id), <<"tail call", c.slot>>, Node("program", c.to))
                        \in d.edges
    BY DEF CallsDrawn
  <2> QED
    BY WhatIsDrawn DEF IsEdge, Jumps, GroupOf
<1>2. ASSUME NEW e \in d.edges
      PROVE  /\ \/ Refers(e.from, e.to)
                \/ \E c \in tails : e.what = <<"tail call", c.slot>> /\ e.to.id = c.to
             /\ e.from \in d.nodes
             /\ \/ e.to \in d.nodes
                \/ /\ subject.kind = "loader" /\ e.to.kind = "program"
                   /\ e.to.id \notin DOMAIN listed.progs
  <2>1. IsEdge(g, e)
    BY <1>2, WhatIsDrawn
  <2>2. \A n : IsNode(g, n) => n \in d.nodes
    BY WhatIsDrawn
  <2>3. CASE Attaches(g, e)
    <3>1. PICK l \in g.links :
            e = Edge(Node("link", l), "attaches", Node("program", listed.links[l]))
      BY <2>3 DEF Attaches
    <3>2. /\ e.from = Node("link", l) /\ e.from.kind = "link" /\ e.from.id = l
          /\ e.to = Node("program", listed.links[l])
          /\ e.to.kind = "program" /\ e.to.id = listed.links[l]
      BY <3>1 DEF Edge, Node
    <3>3. Refers(e.from, e.to)
      BY <3>2 DEF Refers
    <3>4. IsNode(g, e.from)
      BY <3>2 DEF IsNode
    <3>5. listed.links[l] \in g.progs => IsNode(g, e.to)
      BY <3>2 DEF IsNode
    <3> QED
      BY <2>2, <3>2, <3>3, <3>4, <3>5 DEF GroupOf
  <2>4. CASE Uses(g, e)
    <3>1. PICK p \in g.progs, m \in g.maps :
            m \in listed.progs[p].maps /\ e = Edge(Node("program", p), "uses", Node("map", m))
      BY <2>4 DEF Uses
    <3>2. /\ e.from = Node("program", p) /\ e.from.kind = "program" /\ e.from.id = p
          /\ e.to = Node("map", m) /\ e.to.kind = "map" /\ e.to.id = m
      BY <3>1 DEF Edge, Node
    <3>3. Refers(e.from, e.to)
      BY <3>1, <3>2 DEF Refers
    <3>4. IsNode(g, e.from) /\ IsNode(g, e.to)
      BY <3>2 DEF IsNode
    <3> QED
      BY <2>2, <3>3, <3>4
  <2>5. CASE Holds(g, e)
    <3>1. PICK o \in g.maps, m \in g.maps :
            m \in Slots(o).inner /\ e = Edge(Node("map", o), "holds", Node("map", m))
      BY <2>5 DEF Holds
    <3>2. /\ e.from = Node("map", o) /\ e.from.kind = "map" /\ e.from.id = o
          /\ e.to = Node("map", m) /\ e.to.kind = "map" /\ e.to.id = m
      BY <3>1 DEF Edge, Node
    <3>3. Refers(e.from, e.to)
      BY <3>1, <3>2 DEF Refers, Slots
    <3>4. IsNode(g, e.from) /\ IsNode(g, e.to)
      BY <3>2 DEF IsNode
    <3> QED
      BY <2>2, <3>3, <3>4
  <2>6. CASE MayCall(g, e)
    <3>1. PICK m \in g.maps, p \in g.progs :
            p \in Slots(m).progs /\ e = Edge(Node("map", m), "may tail call", Node("program", p))
      BY <2>6 DEF MayCall
    <3>2. /\ e.from = Node("map", m) /\ e.from.kind = "map" /\ e.from.id = m
          /\ e.to = Node("program", p) /\ e.to.kind = "program" /\ e.to.id = p
      BY <3>1 DEF Edge, Node
    <3>3. Refers(e.from, e.to)
      BY <3>1, <3>2 DEF Refers, Slots
    <3>4. IsNode(g, e.from) /\ IsNode(g, e.to)
      BY <3>2 DEF IsNode
    <3> QED
      BY <2>2, <3>3, <3>4
  <2>7. CASE Jumps(g, e)
    <3>1. PICK c \in g.calls :
            e = Edge(Node("program", subject.id), <<"tail call", c.slot>>, Node("program", c.to))
      BY <2>7 DEF Jumps
    <3>2. /\ e.from = Node("program", subject.id) /\ e.what = <<"tail call", c.slot>>
          /\ e.to = Node("program", c.to) /\ e.to.id = c.to
      BY <3>1 DEF Edge, Node
    <3>3. c \in tails /\ subject.id \in g.progs /\ c.to \in g.progs
      BY <3>1 DEF GroupOf
    <3>4. IsNode(g, e.from) /\ IsNode(g, e.to)
      BY <3>2, <3>3 DEF IsNode
    <3> QED
      BY <2>2, <3>2, <3>3, <3>4
  <2> QED
    BY <2>1, <2>3, <2>4, <2>5, <2>6, <2>7 DEF IsEdge
<1>3. NothingElse(d)
  <2> SUFFICES ASSUME NEW n \in NamedIn(d), n \notin d.nodes
               PROVE  subject.kind = "loader" /\ n.kind = "program" /\ n.id \notin DOMAIN listed.progs
    BY DEF NothingElse
  <2>1. PICK e \in d.edges : n = e.from \/ n = e.to
    BY DEF NamedIn
  <2> QED
    BY <1>2, <2>1
<1> QED
  BY <1>1, <1>2, <1>3 DEF EdgesMean

(* Each of the three ways to gather a group makes one.                      *)
LEMMA LoaderGroupOf ==
  ASSUME ListedTyped, subject.kind = "loader"
  PROVE  GroupOf(LoaderGroup(subject.id))
<1> DEFINE g == LoaderGroup(subject.id)
<1>1. /\ g.progs = {p \in DOMAIN listed.progs : progGroups(listed)[p] = subject.id}
      /\ g.links = {l \in DOMAIN listed.links : LinkGroup(listed, l) = subject.id}
      /\ g.calls = {}
  BY DEF LoaderGroup
<1>2. tails = {}
  BY DEF ListedTyped
<1>3. \A l \in g.links : listed.links[l] \in DOMAIN listed.progs => listed.links[l] \in g.progs
  BY <1>1 DEF LinkGroup
<1> HIDE DEF g
<1>4. GroupOf(g)
  BY <1>1, <1>2, <1>3 DEF GroupOf
<1> QED
  BY <1>4 DEF g

LEMMA ProgramGroupOf ==
  ASSUME ListedTyped, subject.kind = "program", subject.id \in DOMAIN listed.progs
  PROVE  GroupOf(ProgramGroup(subject.id))
<1> DEFINE g == ProgramGroup(subject.id)
           targets == {c.to : c \in tails} \cap DOMAIN listed.progs
<1>1. /\ g.progs = {subject.id} \union targets
      /\ g.links = {l \in DOMAIN listed.links : listed.links[l] = subject.id}
      /\ g.calls = {c \in tails : c.to \in {subject.id} \union targets}
  BY DEF ProgramGroup
<1>2. \A c \in tails : c.to \in DOMAIN listed.progs => c.to \in targets
  OBVIOUS
<1>3. targets \subseteq DOMAIN listed.progs
  OBVIOUS
<1> HIDE DEF g, targets
<1>4. GroupOf(g)
  BY <1>1, <1>2, <1>3 DEF GroupOf
<1> QED
  BY <1>4 DEF g

LEMMA MapGroupOf ==
  ASSUME ListedTyped, subject.kind = "map"
  PROVE  GroupOf(MapGroup(subject.id))
<1> DEFINE g == MapGroup(subject.id)
<1>1. /\ g.progs \subseteq DOMAIN listed.progs
      /\ g.links = AttachedTo(g.progs)
      /\ g.calls = {}
  BY DEF MapGroup, ReferringTo
<1>2. tails = {}
  BY DEF ListedTyped
<1> HIDE DEF g
<1>4. GroupOf(g)
  BY <1>1, <1>2 DEF GroupOf, AttachedTo
<1> QED
  BY <1>4 DEF g

(* The diagram hangs together.                                              *)
OnePiece(d) == \A piece \in SUBSET NamedIn(d) :
  /\ Node(subject.kind, subject.id) \in piece
  /\ \A e \in d.edges : e.from \in piece <=> e.to \in piece
  => piece = NamedIn(d)

(* It does when every edge that there is joins its ends and every node is   *)
(* reached from the subject along edges.                                    *)
LEMMA OnePieceOf ==
  ASSUME ListedTyped, subject.kind # "loader", NEW g, GroupOf(g),
         NEW d, d = buildGroupMermaid(g),
         ASSUME NEW piece, Node(subject.kind, subject.id) \in piece,
                \A a, what, b : IsEdge(g, Edge(a, what, b)) => (a \in piece <=> b \in piece)
         PROVE  \A n : IsNode(g, n) => n \in piece
  PROVE  OnePiece(d)
<1> SUFFICES ASSUME NEW piece \in SUBSET NamedIn(d),
                    Node(subject.kind, subject.id) \in piece,
                    \A e \in d.edges : e.from \in piece <=> e.to \in piece
             PROVE  NamedIn(d) \subseteq piece
  BY DEF OnePiece
<1>1. NamedIn(d) \subseteq d.nodes
  BY NoOtherEdge DEF NothingElse
<1>2. \A a, what, b : IsEdge(g, Edge(a, what, b)) => (a \in piece <=> b \in piece)
  <2> SUFFICES ASSUME NEW a, NEW what, NEW b, IsEdge(g, Edge(a, what, b))
               PROVE  a \in piece <=> b \in piece
    OBVIOUS
  <2>1. Edge(a, what, b) \in d.edges
    BY WhatIsDrawn
  <2> QED
    BY <2>1 DEF Edge
<1>3. \A n : IsNode(g, n) => n \in piece
  BY <1>2
<1> QED
  BY <1>1, <1>3, WhatIsDrawn

(* A program's page: each map, link and target is one edge from it.         *)
LEMMA ProgramIsOnePiece ==
  ASSUME ListedTyped, subject.kind = "program", subject.id \in DOMAIN listed.progs,
         NEW d, d = buildGroupMermaid(ProgramGroup(subject.id))
  PROVE  OnePiece(d)
<1> DEFINE g == ProgramGroup(subject.id)
           targets == {c.to : c \in tails} \cap DOMAIN listed.progs
<1>1. /\ g.progs = {subject.id} \union targets
      /\ g.maps = listed.progs[subject.id].maps
      /\ g.links = {l \in DOMAIN listed.links : listed.links[l] = subject.id}
      /\ g.calls = {c \in tails : c.to \in {subject.id} \union targets}
  BY DEF ProgramGroup
<1>2. \A t \in targets : \E c \in g.calls : c.to = t
  BY <1>1
<1>3. GroupOf(g) /\ d = buildGroupMermaid(g)
  BY ProgramGroupOf
<1>4. subject.id # 0
  BY PagesAssumption DEF ListedTyped
<1> HIDE DEF g, targets
<1>5. ASSUME NEW piece, Node(subject.kind, subject.id) \in piece,
             \A a, what, b : IsEdge(g, Edge(a, what, b)) => (a \in piece <=> b \in piece)
      PROVE  \A n : IsNode(g, n) => n \in piece
  <2>1. Node("program", subject.id) \in piece
    BY <1>5
  <2>2. \A p \in g.progs : Node("program", p) \in piece
    <3> SUFFICES ASSUME NEW t \in targets PROVE Node("program", t) \in piece
      BY <1>1, <2>1
    <3>1. PICK c \in g.calls : c.to = t
      BY <1>2
    <3>2. Jumps(g, Edge(Node("program", subject.id), <<"tail call", c.slot>>, Node("program", t)))
      BY <3>1 DEF Jumps
    <3>3. IsEdge(g, Edge(Node("program", subject.id), <<"tail call", c.slot>>, Node("program", t)))
      BY <3>2 DEF IsEdge
    <3>4. Node("program", subject.id) \in piece <=> Node("program", t) \in piece
      <4> DEFINE what == <<"tail call", c.slot>>
      <4>1. IsEdge(g, Edge(Node("program", subject.id), what, Node("program", t)))
        BY <3>3
      <4> HIDE DEF what
      <4> QED
        BY <1>5, <4>1
    <3> QED
      BY <2>1, <3>4
  <2>3. \A m \in g.maps : Node("map", m) \in piece
    <3> SUFFICES ASSUME NEW m \in g.maps PROVE Node("map", m) \in piece
      OBVIOUS
    <3>1. Uses(g, Edge(Node("program", subject.id), "uses", Node("map", m)))
      BY <1>1 DEF Uses
    <3>2. IsEdge(g, Edge(Node("program", subject.id), "uses", Node("map", m)))
      BY <3>1 DEF IsEdge
    <3> QED
      BY <1>5, <2>1, <3>2, Zenon
  <2>4. \A l \in g.links : Node("link", l) \in piece
    <3> SUFFICES ASSUME NEW l \in g.links PROVE Node("link", l) \in piece
      OBVIOUS
    <3>1. Attaches(g, Edge(Node("link", l), "attaches", Node("program", subject.id)))
      BY <1>1, <1>4 DEF Attaches
    <3>2. IsEdge(g, Edge(Node("link", l), "attaches", Node("program", subject.id)))
      BY <3>1 DEF IsEdge
    <3> QED
      BY <1>5, <2>1, <3>2, Zenon
  <2> QED
    BY <2>2, <2>3, <2>4 DEF IsNode
<1> QED
  BY <1>3, <1>5, OnePieceOf

(* A map's page: the maps it holds and those that hold it are one edge from *)
(* it, a program one edge from one of these maps, a link from its program.  *)
LEMMA MapIsOnePiece ==
  ASSUME ListedTyped, subject.kind = "map", subject.id \in DOMAIN listed.maps,
         NEW d, d = buildGroupMermaid(MapGroup(subject.id))
  PROVE  OnePiece(d)
<1> DEFINE g == MapGroup(subject.id)
           m == subject.id
           outer == {o \in DOMAIN listed.maps : m \in listed.maps[o].inner}
<1>1. /\ g.maps = {m} \union listed.maps[m].inner \union outer
      /\ g.progs = ReferringTo(g.maps) \union (listed.maps[m].progs \cap DOMAIN listed.progs)
      /\ g.links = AttachedTo(g.progs)
      /\ g.calls = {}
  BY DEF MapGroup
<1>2. GroupOf(g) /\ d = buildGroupMermaid(g)
  BY MapGroupOf
<1>3. 0 \notin g.progs
  BY <1>2, PagesAssumption DEF GroupOf, ListedTyped
<1>4. Slots(m) = listed.maps[m] /\ \A o \in outer : Slots(o) = listed.maps[o]
  BY DEF Slots
<1> HIDE DEF g
<1>5. ASSUME NEW piece, Node(subject.kind, subject.id) \in piece,
             \A a, what, b : IsEdge(g, Edge(a, what, b)) => (a \in piece <=> b \in piece)
      PROVE  \A n : IsNode(g, n) => n \in piece
  <2>1. Node("map", m) \in piece
    BY <1>5
  <2>2. \A o \in g.maps : Node("map", o) \in piece
    <3>1. ASSUME NEW o \in listed.maps[m].inner PROVE Node("map", o) \in piece
      <4>1. Holds(g, Edge(Node("map", m), "holds", Node("map", o)))
        BY <1>1, <1>4 DEF Holds
      <4>2. IsEdge(g, Edge(Node("map", m), "holds", Node("map", o)))
        BY <4>1 DEF IsEdge
      <4> QED
        BY <1>5, <2>1, <4>2, Zenon
    <3>2. ASSUME NEW o \in outer PROVE Node("map", o) \in piece
      <4>1. Holds(g, Edge(Node("map", o), "holds", Node("map", m)))
        BY <1>1, <1>4 DEF Holds
      <4>2. IsEdge(g, Edge(Node("map", o), "holds", Node("map", m)))
        BY <4>1 DEF IsEdge
      <4> QED
        BY <1>5, <2>1, <4>2
    <3> QED
      BY <1>1, <2>1, <3>1, <3>2
  <2>3. \A p \in g.progs : Node("program", p) \in piece
    <3>1. ASSUME NEW p \in ReferringTo(g.maps) PROVE Node("program", p) \in piece
      <4>1. PICK o \in g.maps : o \in listed.progs[p].maps
        BY DEF ReferringTo
      <4>2. Uses(g, Edge(Node("program", p), "uses", Node("map", o)))
        BY <1>1, <4>1 DEF Uses
      <4>3. IsEdge(g, Edge(Node("program", p), "uses", Node("map", o)))
        BY <4>2 DEF IsEdge
      <4> QED
        BY <1>5, <2>2, <4>3, Zenon
    <3>2. ASSUME NEW p \in listed.maps[m].progs \cap DOMAIN listed.progs
          PROVE  Node("program", p) \in piece
      <4>1. Precise(g) = {}
        BY <1>1 DEF Precise
      <4>2. MayCall(g, Edge(Node("map", m), "may tail call", Node("program", p)))
        BY <1>1, <1>4, <4>1 DEF MayCall
      <4>3. IsEdge(g, Edge(Node("map", m), "may tail call", Node("program", p)))
        BY <4>2 DEF IsEdge
      <4> QED
        BY <1>5, <2>1, <4>3, Zenon
    <3> QED
      BY <1>1, <3>1, <3>2
  <2>4. \A l \in g.links : Node("link", l) \in piece
    <3> SUFFICES ASSUME NEW l \in g.links PROVE Node("link", l) \in piece
      OBVIOUS
    <3>1. listed.links[l] \in g.progs
      BY <1>1 DEF AttachedTo
    <3>2. Attaches(g, Edge(Node("link", l), "attaches", Node("program", listed.links[l])))
      BY <1>3, <3>1 DEF Attaches
    <3>3. IsEdge(g, Edge(Node("link", l), "attaches", Node("program", listed.links[l])))
      BY <3>2 DEF IsEdge
    <3> QED
      BY <1>5, <2>3, <3>1, <3>3
  <2> QED
    BY <2>2, <2>3, <2>4 DEF IsNode
<1> QED
  BY <1>2, <1>5, OnePieceOf

(* What a page can have, and that what is drawn has both properties.        *)
DiagramInv ==
  /\ ListedTyped
  /\ stage = "calls" => subject.kind = "program"
  /\ stage = "drawing" /\ subject.kind = "program" => subject.id \in DOMAIN listed.progs
  /\ FocusIsOnePiece
  /\ EveryReferenceDrawn

LEMMA DrawingKeeps ==
  ASSUME DiagramInv, NEW g, GroupOf(g), Draw(g),
         subject.kind # "loader" => OnePiece(buildGroupMermaid(g))
  PROVE  DiagramInv'
<1> DEFINE d == buildGroupMermaid(g)
<1>1. diagram' = d /\ stage' = "done" /\ UNCHANGED <<subject, listed, tails>>
  BY DEF Draw
<1>2. RefersDrawn(d) /\ CallsDrawn(d) /\ EdgesMean(d) /\ NothingElse(d)
  BY EveryReference, NoOtherEdge DEF DiagramInv
<1>3. subject.kind # "loader" => OnePiece(d)
  OBVIOUS
<1> HIDE DEF d
<1>4. ListedTyped'
  BY <1>1 DEF DiagramInv, ListedTyped
<1>5. FocusIsOnePiece'
  <2>1. Named' = NamedIn(d)
    BY <1>1 DEF Named, NamedIn
  <2> QED
    BY <1>1, <1>3, <2>1, Zenon DEF FocusIsOnePiece, OnePiece, Node
<1>6. EveryReferenceDrawn'
  <2>1. Named' = NamedIn(d)
    BY <1>1 DEF Named, NamedIn
  <2>2. \A a, b : Refers(a, b)' <=> Refers(a, b)
    BY <1>1 DEF Refers
  <2>3. \A a, b : Joined(a, b)' <=> JoinedIn(d, a, b)
    BY <1>1 DEF Joined, JoinedIn
  <2>4. (\A a, b \in diagram.nodes :
           Refers(a, b) => \/ Joined(a, b)
                           \/ /\ b.kind = "program"
                              /\ \E c \in tails : /\ c.map = a.id /\ c.to = b.id
                                                  /\ Joined(Node("program", subject.id), b))'
    <3> SUFFICES ASSUME NEW a \in d.nodes, NEW b \in d.nodes, Refers(a, b)
                 PROVE  \/ JoinedIn(d, a, b)
                        \/ /\ b.kind = "program"
                           /\ \E c \in tails : /\ c.map = a.id /\ c.to = b.id
                                               /\ JoinedIn(d, Node("program", subject.id), b)
      BY <1>1, <2>2, <2>3 DEF Node
    <3> QED
      BY <1>2, Zenon DEF RefersDrawn
  <2>5. (\A c \in tails : c.to \in DOMAIN listed.progs =>
           \E e \in diagram.edges :
             e = Edge(Node("program", subject.id), <<"tail call", c.slot>>, Node("program", c.to)))'
    BY <1>1, <1>2, Zenon DEF CallsDrawn, Node, Edge
  <2>6. (\A e \in diagram.edges :
           \/ Refers(e.from, e.to)
           \/ \E c \in tails : e.what = <<"tail call", c.slot>> /\ e.to.id = c.to)'
    BY <1>1, <1>2, <2>2, Zenon DEF EdgesMean
  <2>7. (\A n \in Named \ diagram.nodes :
           subject.kind = "loader" /\ n.kind = "program" /\ n.id \notin DOMAIN listed.progs)'
    BY <1>1, <1>2, <2>1, Zenon DEF NothingElse
  <2> QED
    BY <2>4, <2>5, <2>6, <2>7, Zenon DEF EveryReferenceDrawn
<1> QED
  BY <1>1, <1>4, <1>5, <1>6 DEF DiagramInv

LEMMA DiagramStep ==
  ASSUME DiagramInv, DiagramNext
  PROVE  DiagramInv'
<1>1. ListedTyped
  BY DEF DiagramInv
<1>2. ASSUME stage' # "done" PROVE FocusIsOnePiece' /\ EveryReferenceDrawn'
  BY <1>2 DEF FocusIsOnePiece, EveryReferenceDrawn, Drawn
<1>3. CASE FetchGraph
  <2>1. PICK ps \in Lists.progs, ms \in Lists.maps, ls \in Lists.links :
          listed' = [progs |-> ps, maps |-> ms, links |-> ls]
    BY <1>3 DEF FetchGraph
  <2>2. ps \in Some(Progs, ProgInfo) /\ ms \in Some(Maps, MapInfo)
    BY DEF Lists
  <2>3. DOMAIN ps \subseteq Progs /\ DOMAIN ms \subseteq Maps
    BY <2>2, SomeIsTyped
  <2>4. /\ UNCHANGED <<subject, tails>>
        /\ stage' = IF subject.kind = "program" THEN "calls" ELSE "drawing"
    BY <1>3 DEF FetchGraph
  <2>5. listed'.progs = ps /\ listed'.maps = ms
    BY <2>1
  <2>6. ListedTyped'
    BY <1>1, <2>3, <2>4, <2>5 DEF ListedTyped
  <2> QED
    BY <1>2, <2>4, <2>6 DEF DiagramInv
<1>4. CASE FetchFails
  BY <1>1, <1>2, <1>4 DEF FetchFails, DiagramInv, ListedTyped
<1>5. CASE FetchTailCalls
  BY <1>1, <1>2, <1>5 DEF FetchTailCalls, DiagramInv, ListedTyped
<1>6. CASE DrawLoader
  BY <1>1, <1>6, LoaderGroupOf, DrawingKeeps DEF DrawLoader
<1>7. CASE DrawProgram
  <2>1. subject.kind = "program" /\ subject.id \in DOMAIN listed.progs
    BY <1>7 DEF DrawProgram, DiagramInv
  <2> QED
    BY <1>1, <1>7, <2>1, ProgramGroupOf, ProgramIsOnePiece, DrawingKeeps DEF DrawProgram
<1>8. CASE DrawMap
  BY <1>1, <1>8, MapGroupOf, MapIsOnePiece, DrawingKeeps DEF DrawMap
<1>9. CASE NotFound
  BY <1>1, <1>2, <1>9 DEF NotFound, DiagramInv, ListedTyped
<1> QED
  BY <1>3, <1>4, <1>5, <1>6, <1>7, <1>8, <1>9 DEF DiagramNext

LEMMA DiagramAlways == DiagramSpec => []DiagramInv
<1>1. DiagramInit => DiagramInv
  BY DEF DiagramInit, DiagramInv, ListedTyped, None, Empty, FocusIsOnePiece, EveryReferenceDrawn, Drawn
<1>2. DiagramInv /\ UNCHANGED diagramVars => DiagramInv'
  <2> SUFFICES ASSUME DiagramInv, UNCHANGED <<subject, stage, listed, tails, diagram>> PROVE DiagramInv'
    BY DEF diagramVars
  <2>1. ListedTyped' /\ FocusIsOnePiece'
    BY DEF DiagramInv, ListedTyped, FocusIsOnePiece, Drawn, Named, Node
  <2>2. EveryReferenceDrawn'
    <3>1. \A a, b : Refers(a, b)' <=> Refers(a, b)
      BY DEF Refers
    <3>2. \A a, b : Joined(a, b)' <=> Joined(a, b)
      BY DEF Joined
    <3>3. Named' = Named
      BY DEF Named
    <3> SUFFICES ASSUME stage = "done" PROVE EveryReferenceDrawn'
      BY DEF EveryReferenceDrawn, Drawn
    <3>4. EveryReferenceDrawn
      BY DEF DiagramInv
    <3>5. (\A a, b \in diagram.nodes :
             Refers(a, b) => \/ Joined(a, b)
                             \/ /\ b.kind = "program"
                                /\ \E c \in tails : /\ c.map = a.id /\ c.to = b.id
                                                    /\ Joined(Node("program", subject.id), b))'
      <4> SUFFICES ASSUME NEW a \in diagram.nodes, NEW b \in diagram.nodes, Refers(a, b)
                   PROVE  \/ Joined(a, b)
                          \/ /\ b.kind = "program"
                             /\ \E c \in tails : /\ c.map = a.id /\ c.to = b.id
                                                 /\ Joined(Node("program", subject.id), b)
        BY <3>1, <3>2 DEF Node
      <4> QED
        BY <3>4, Zenon DEF EveryReferenceDrawn, Drawn
    <3>6. (\A c \in tails : c.to \in DOMAIN listed.progs =>
             \E e \in diagram.edges :
               e = Edge(Node("program", subject.id), <<"tail call", c.slot>>, Node("program", c.to)))'
      BY <3>4, Zenon DEF EveryReferenceDrawn, Drawn, Node, Edge
    <3>7. (\A e \in diagram.edges :
             \/ Refers(e.from, e.to)
             \/ \E c \in tails : e.what = <<"tail call", c.slot>> /\ e.to.id = c.to)'
      BY <3>1, <3>4, Zenon DEF EveryReferenceDrawn, Drawn
    <3>8. (\A n \in Named \ diagram.nodes :
             subject.kind = "loader" /\ n.kind = "program" /\ n.id \notin DOMAIN listed.progs)'
      BY <3>3, <3>4, Zenon DEF EveryReferenceDrawn, Drawn
    <3> QED
      BY <3>5, <3>6, <3>7, <3>8, Zenon DEF EveryReferenceDrawn
  <2> QED
    BY <2>1, <2>2 DEF DiagramInv
<1> QED
  BY <1>1, <1>2, DiagramStep, PTL DEF DiagramSpec

(* FocusIsOnePiece holds of every reachable state: on the page of one       *)
(* program or map, what gathers the objects and what draws the edges agree, *)
(* so that each node is joined to the subject (graph.go:527-590, 677-741).  *)
THEOREM FocusHangsTogether == DiagramSpec => []FocusIsOnePiece
<1>1. DiagramInv => FocusIsOnePiece
  BY DEF DiagramInv
<1> QED
  BY <1>1, DiagramAlways, PTL

(* EveryReferenceDrawn holds of every reachable state: the edges of a       *)
(* diagram are the references and tail calls between its nodes, all of them *)
(* and nothing else (graph.go:464-590).                                     *)
THEOREM DiagramIsComplete == DiagramSpec => []EveryReferenceDrawn
<1>1. DiagramInv => EveryReferenceDrawn
  BY DEF DiagramInv
<1> QED
  BY <1>1, DiagramAlways, PTL

-----------------------------------------------------------------------------
(* The lists under one loader, and what a page says of what it has not seen. *)

(* A set of holders names no group but one that there is.                   *)
LEMMA HolderGroupIsGroup ==
  ASSUME NEW pids \in HolderSets
  PROVE  HolderGroup(pids) \in Groups
<1>1. pids \in SUBSET (Nat \ {0})
  BY PagesAssumption
<1>2. CASE pids \ Hidden = {}
  BY <1>2 DEF HolderGroup, Lowest, Groups
<1>3. CASE pids \ Hidden # {}
  <2>1. Min(pids \ Hidden) \in pids \ Hidden
    BY <1>1, <1>3, MinIsIn
  <2> QED
    BY <1>3, <2>1 DEF HolderGroup, Lowest, Groups
<1> QED
  BY <1>2, <1>3

(* Holders come from the bounded sets.                                      *)
HoldersOf(s) ==
  /\ DOMAIN s.progs \subseteq Progs /\ DOMAIN s.maps \subseteq Maps /\ DOMAIN s.links \subseteq Links
  /\ \A p \in DOMAIN s.progs : s.progs[p].pids \in HolderSets
  /\ \A m \in DOMAIN s.maps : s.maps[m].pids \in HolderSets

LEMMA HoldersTyped ==
  ASSUME ListsOK
  PROVE  HoldersOf(got)
<1>1. /\ got.progs \in Some(Progs, ProgInfo) /\ got.maps \in Some(Maps, MapInfo)
      /\ got.links \in Some(Links, Progs \union {0})
  BY DEF ListsOK, Lists
<1>2. /\ DOMAIN got.progs \subseteq Progs
      /\ \A p \in DOMAIN got.progs : got.progs[p] \in ProgInfo
  BY <1>1, SomeIsTyped
<1>3. /\ DOMAIN got.maps \subseteq Maps
      /\ \A m \in DOMAIN got.maps : got.maps[m] \in MapInfo
  BY <1>1, SomeIsTyped
<1>4. DOMAIN got.links \subseteq Links
  BY <1>1, SomeIsTyped
<1>5. /\ \A i \in ProgInfo : i.pids \in HolderSets
      /\ \A i \in MapInfo : i.pids \in HolderSets
  BY DEF ProgInfo, MapInfo
<1>6. \A p \in DOMAIN got.progs : got.progs[p].pids \in HolderSets
  BY <1>2, <1>5
<1>7. \A m \in DOMAIN got.maps : got.maps[m].pids \in HolderSets
  BY <1>3, <1>5
<1> QED
  BY <1>2, <1>3, <1>4, <1>6, <1>7 DEF HoldersOf

(* What a map passes on is a group, when what it is passed is.              *)
LEMMA PassesOnGroup ==
  ASSUME NEW s, HoldersOf(s), NEW group, \A p \in DOMAIN s.progs : group[p] \in Groups,
         NEW m \in DOMAIN s.maps
  PROVE  PassesOn(s, group, m) \in Groups
<1> DEFINE refs == {p \in Referrers(s, m) : group[p] # NoLoader}
<1>1. HolderGroup(s.maps[m].pids) \in Groups
  BY HolderGroupIsGroup DEF HoldersOf
<1>2. refs # {} => Min(refs) \in DOMAIN s.progs
  <2>1. refs \in SUBSET Nat /\ refs \subseteq DOMAIN s.progs
    BY PagesAssumption DEF HoldersOf, Referrers
  <2>2. refs # {} => Min(refs) \in refs
    BY <2>1, MinIsIn
  <2> QED
    BY <2>1, <2>2
<1>3. NoLoader \in Groups
  BY DEF Groups
<1> QED
  BY <1>1, <1>2, <1>3 DEF PassesOn

LEMMA ProgGroupIsGroup ==
  ASSUME NEW s, HoldersOf(s), NEW p \in DOMAIN s.progs
  PROVE  progGroups(s)[p] \in Groups
<1> DEFINE own == [q \in DOMAIN s.progs |-> HolderGroup(s.progs[q].pids)]
           arrays == {m \in DOMAIN s.maps : p \in s.maps[m].progs /\ PassesOn(s, own, m) # NoLoader}
<1>1. \A q \in DOMAIN s.progs : own[q] \in Groups
  BY HolderGroupIsGroup DEF HoldersOf
<1>2. arrays # {} => Min(arrays) \in DOMAIN s.maps
  <2>1. arrays \in SUBSET Nat
    BY PagesAssumption DEF HoldersOf
  <2> QED
    BY <2>1, MinIsIn
<1>3. progGroups(s)[p] = IF own[p] # NoLoader \/ arrays = {} THEN own[p]
                         ELSE PassesOn(s, own, Min(arrays))
  BY Zenon DEF progGroups
<1> HIDE DEF own, arrays
<1>4. arrays # {} => PassesOn(s, own, Min(arrays)) \in Groups
  BY <1>1, <1>2, PassesOnGroup
<1> QED
  BY <1>1, <1>3, <1>4

LEMMA MapGroupsAreGroups ==
  ASSUME NEW s, HoldersOf(s), NEW m
  PROVE  /\ ByReference(s, m) \subseteq Groups
         /\ m \in DOMAIN s.maps => ByHolder(s, m) \subseteq Groups
         /\ MapGroups(s, m) \subseteq Groups
<1>1. ByReference(s, m) \subseteq Groups
  <2>1. \A p \in Referrers(s, m) : progGroups(s)[p] \in Groups
    BY ProgGroupIsGroup DEF Referrers
  <2> QED
    BY <2>1 DEF ByReference
<1>2. innerGroup(s, m) \in Groups
  <2> DEFINE pg == progGroups(s)
             outer == {o \in DOMAIN s.maps : m \in s.maps[o].inner /\ PassesOn(s, pg, o) # NoLoader}
  <2>1. outer # {} => Min(outer) \in DOMAIN s.maps
    <3>1. outer \in SUBSET Nat
      BY PagesAssumption DEF HoldersOf
    <3> QED
      BY <3>1, MinIsIn
  <2>2. innerGroup(s, m) = IF outer = {} THEN NoLoader ELSE PassesOn(s, pg, Min(outer))
    BY Zenon DEF innerGroup
  <2>3. \A p \in DOMAIN s.progs : pg[p] \in Groups
    BY ProgGroupIsGroup
  <2>4. NoLoader \in Groups
    BY DEF Groups
  <2> HIDE DEF pg, outer
  <2> QED
    BY <2>1, <2>2, <2>3, <2>4, PassesOnGroup
<1>3. m \in DOMAIN s.maps => ByHolder(s, m) \subseteq Groups
  <2>1. m \in DOMAIN s.maps => HolderGroup(s.maps[m].pids) \in Groups
    BY HolderGroupIsGroup DEF HoldersOf
  <2> QED
    BY <1>2, <2>1 DEF ByHolder, Held
<1> QED
  BY <1>1, <1>3 DEF MapGroups

LEMMA LinkGroupIsGroup ==
  ASSUME NEW s, HoldersOf(s), NEW l
  PROVE  LinkGroup(s, l) \in Groups
BY ProgGroupIsGroup DEF LinkGroup, Groups

LEMMA GroupsOffered ==
  ASSUME HoldersOf(got), page \in DOMAIN CallsOf
  PROVE  /\ page # "loaders" => Offered(got) \subseteq Groups
         /\ page # "loaders" => DOMAIN RowGroups(got) \subseteq Progs \union Maps \union Links
         /\ AllGroups(got) \subseteq Groups
<1>1. page \in {"loaders", "programs", "maps", "links"}
  BY DEF CallsOf
<1>2. \A p \in DOMAIN got.progs : progGroups(got)[p] \in Groups
  BY ProgGroupIsGroup
<1>3. \A m : MapGroups(got, m) \subseteq Groups
  BY MapGroupsAreGroups
<1>4. \A l : LinkGroup(got, l) \in Groups
  BY LinkGroupIsGroup
<1>5. \A m \in DOMAIN got.maps : ByHolder(got, m) \subseteq Groups
  BY MapGroupsAreGroups
<1>6. AllGroups(got) \subseteq Groups
  BY <1>2, <1>4, <1>5 DEF AllGroups
<1>7. CASE page = "programs"
  <2>1. RowGroups(got) = [p \in DOMAIN got.progs |-> {progGroups(got)[p]}]
    BY <1>7 DEF RowGroups
  <2> QED
    BY <1>2, <1>6, <1>7, <2>1 DEF Offered, HoldersOf
<1>8. CASE page = "maps"
  <2>1. RowGroups(got) = [m \in DOMAIN got.maps |-> MapGroups(got, m)]
    BY <1>8 DEF RowGroups
  <2> QED
    BY <1>3, <1>6, <1>8, <2>1 DEF Offered, HoldersOf
<1>9. CASE page = "links"
  <2>1. RowGroups(got) = [l \in DOMAIN got.links |-> {LinkGroup(got, l)}]
    BY <1>9 DEF RowGroups
  <2> QED
    BY <1>4, <1>6, <1>9, <2>1 DEF Offered, HoldersOf
<1> QED
  BY <1>1, <1>6, <1>7, <1>8, <1>9

(* Where the page is: how many calls are over.  Under a filter a page that  *)
(* is still being made has the answers of all of them, as CallFails ends it *)
(* at the first that fails; and what it shows is what was made of them.     *)
Queue == CallsOf[page]
Progress(n) ==
  /\ n \in 0..Len(Queue)
  /\ calls = SubSeq(Queue, n + 1, Len(Queue))
  /\ filter # {} /\ answer.state # "error" => \A i \in 1..n : Queue[i] \in read
Shown ==
  Done =>
    /\ calls = <<>>
    /\ IF page = "loaders" THEN answer.rows \subseteq Groups /\ answer.picker = {}
       ELSE /\ \A r \in answer.rows : r \in DOMAIN RowGroups(got) /\ filter \subseteq RowGroups(got)[r]
            /\ \A g \in answer.picker \ filter : Missing = {} /\ g \in Offered(got)
PageInv ==
  /\ ListsOK
  /\ page \in DOMAIN CallsOf
  /\ filter \in {{}} \union {{g} : g \in Groups}
  /\ read \subseteq DOMAIN None
  /\ answer = Blank \/ answer = Error \/ Done
  /\ \E n : Progress(n)
  /\ Shown

LEMMA QueueTyped ==
  ASSUME page \in DOMAIN CallsOf
  PROVE  Queue \in Seq({"progs", "maps", "links"})
<1>1. page \in {"loaders", "programs", "maps", "links"}
  BY DEF CallsOf
<1>2. /\ CallsOf["loaders"] \in Seq({"progs", "maps", "links"})
      /\ CallsOf["programs"] \in Seq({"progs", "maps", "links"})
      /\ CallsOf["maps"] \in Seq({"progs", "maps", "links"})
      /\ CallsOf["links"] \in Seq({"progs", "maps", "links"})
  BY DEF CallsOf
<1> QED
  BY <1>1, <1>2 DEF Queue

(* Once every call is over and none has failed, nothing is missing.         *)
LEMMA NothingMissing ==
  ASSUME PageInv, calls = <<>>, filter # {}, answer.state # "error"
  PROVE  Missing = {}
<1>1. Queue \in Seq({"progs", "maps", "links"})
  BY QueueTyped DEF PageInv
<1>2. PICK n : Progress(n)
  BY DEF PageInv
<1>3. n = Len(Queue)
  <2>1. Len(Queue) \in Nat /\ n \in 0..Len(Queue)
    BY <1>1, <1>2 DEF Progress
  <2>2. \A i \in (n + 1)..Len(Queue) : Queue[i] \in {"progs", "maps", "links"}
    BY <1>1, <2>1
  <2>3. Len(calls) = IF n + 1 <= Len(Queue) THEN Len(Queue) - (n + 1) + 1 ELSE 0
    <3> DEFINE from == n + 1
               to == Len(Queue)
    <3>1. from \in Int /\ to \in Int /\ \A i \in from..to : Queue[i] \in {"progs", "maps", "links"}
      BY <2>1, <2>2
    <3>2. calls = SubSeq(Queue, from, to)
      BY <1>2 DEF Progress
    <3> HIDE DEF from, to
    <3>3. Len(SubSeq(Queue, from, to)) = IF from <= to THEN to - from + 1 ELSE 0
      BY <3>1, SubSeqProperties
    <3> QED
      BY <3>2, <3>3 DEF from, to
  <2>4. Len(calls) = 0
    OBVIOUS
  <2> QED
    BY <2>1, <2>3, <2>4
<1>4. DOMAIN Queue = 1..Len(Queue)
  BY <1>1
<1>5. \A i \in DOMAIN Queue : Queue[i] \in read
  BY <1>2, <1>3, <1>4 DEF Progress
<1> QED
  BY <1>5 DEF Missing, Queue

(* What is not missing is known.                                            *)
LEMMA OneWorld ==
  ASSUME ListsOK, Missing = {}, NEW s \in Worlds
  PROVE  s = got
<1>1. Worlds = [progs : {got["progs"]}, maps : {got["maps"]}, links : {got["links"]}]
  BY DEF Worlds
<1>2. got = [progs |-> got["progs"], maps |-> got["maps"], links |-> got["links"]]
  BY DEF ListsOK
<1>3. s = [progs |-> s.progs, maps |-> s.maps, links |-> s.links]
      /\ s.progs = got["progs"] /\ s.maps = got["maps"] /\ s.links = got["links"]
  BY <1>1
<1> QED
  BY <1>2, <1>3

LEMMA PageSays ==
  ASSUME PageInv
  PROVE  PageIsSound
<1>1. ListsOK /\ page \in DOMAIN CallsOf
  BY DEF PageInv
<1>2. HoldersOf(got)
  BY <1>1, HoldersTyped
<1>3. TypeOK
  <2>1. \E n \in 0..Len(CallsOf[page]) : calls = SubSeq(CallsOf[page], n + 1, Len(CallsOf[page]))
    BY DEF PageInv, Progress, Queue
  <2>2. \A c \in DOMAIN None : got[c] \in Lists[c]
    BY <1>1 DEF ListsOK, None
  <2>3. ASSUME Done
        PROVE  /\ answer.rows \subseteq Groups \union Progs \union Maps \union Links
               /\ answer.picker \subseteq Groups
    <3>1. filter \subseteq Groups
      BY DEF PageInv
    <3> QED
      BY <1>1, <1>2, <2>3, <3>1, GroupsOffered DEF PageInv, Shown
  <2> QED
    BY <1>1, <2>1, <2>2, <2>3 DEF TypeOK, PageInv, Done
<1>4. NothingRestsOnAFailure
  <2> SUFFICES ASSUME Done, page # "loaders"
               PROVE  /\ \A r \in IF filter = {} THEN {} ELSE answer.rows :
                           \A s \in Worlds : filter \subseteq RowGroups(s)[r]
                      /\ \A g \in answer.picker \ filter : \A s \in Worlds : g \in Offered(s)
    BY Zenon DEF NothingRestsOnAFailure
  <2>1. /\ calls = <<>>
        /\ \A r \in answer.rows : filter \subseteq RowGroups(got)[r]
        /\ \A g \in answer.picker \ filter : Missing = {} /\ g \in Offered(got)
    BY DEF PageInv, Shown
  <2>2. filter # {} => Missing = {}
    BY <2>1, NothingMissing DEF Done
  <2>3. Missing = {} => \A s \in Worlds : s = got
    BY <1>1, OneWorld
  <2> QED
    BY <2>1, <2>2, <2>3
<1> QED
  BY <1>3, <1>4 DEF PageIsSound

(* A call takes the head of the queue.                                      *)
LEMMA OneMoreCall ==
  ASSUME page \in DOMAIN CallsOf, calls # <<>>, NEW n, Progress(n)
  PROVE  /\ n + 1 \in 0..Len(Queue)
         /\ Head(calls) = Queue[n + 1]
         /\ Tail(calls) = SubSeq(Queue, n + 2, Len(Queue))
<1>1. Queue \in Seq({"progs", "maps", "links"})
  BY QueueTyped
<1>2. Len(Queue) \in Nat /\ n \in 0..Len(Queue) /\ calls = SubSeq(Queue, n + 1, Len(Queue))
  BY <1>1 DEF Progress
<1>3. n # Len(Queue)
  <2> SUFFICES ASSUME n = Len(Queue) PROVE FALSE
    OBVIOUS
  <2>1. SubSeq(Queue, n + 1, Len(Queue)) = <<>>
    BY <1>2, SubSeqEmpty
  <2> QED
    BY <1>2, <2>1
<1>4. n + 1 \in 1..Len(Queue) /\ Len(Queue) \in (n + 1)..Len(Queue)
  BY <1>2, <1>3
<1>5. /\ Head(SubSeq(Queue, n + 1, Len(Queue))) = Queue[n + 1]
      /\ Tail(SubSeq(Queue, n + 1, Len(Queue))) = SubSeq(Queue, (n + 1) + 1, Len(Queue))
  BY <1>1, <1>4, HeadTailOfSubSeq
<1>6. (n + 1) + 1 = n + 2
  BY <1>2
<1> QED
  BY <1>2, <1>4, <1>5, <1>6

LEMMA PageStep ==
  ASSUME PageInv, Next, ListsOK'
  PROVE  PageInv'
<1>1. PICK n : Progress(n)
  BY DEF PageInv
<1>2. Queue' = Queue /\ Len(Queue) \in Nat /\ n \in 0..Len(Queue)
  <2>1. UNCHANGED page
    BY DEF Next, AgentAnswers, CallFails, Render
  <2>2. Queue \in Seq({"progs", "maps", "links"})
    BY QueueTyped DEF PageInv
  <2> QED
    BY <1>1, <2>1, <2>2 DEF Queue, Progress, CallsOf
<1>3. CASE AgentAnswers
  <2>1. /\ answer = Blank /\ calls # <<>> /\ calls' = Tail(calls)
        /\ read' = read \union {Head(calls)}
        /\ UNCHANGED <<page, filter, answer>>
    BY <1>3 DEF AgentAnswers
  <2>2. /\ n + 1 \in 0..Len(Queue) /\ Head(calls) = Queue[n + 1]
        /\ Tail(calls) = SubSeq(Queue, n + 2, Len(Queue))
    BY <1>1, <2>1, OneMoreCall DEF PageInv
  <2>3. Progress(n + 1)'
    <3>1. (n + 1) + 1 = n + 2
      BY <1>2
    <3>2. \A i \in 1..(n + 1) : i \in 1..n \/ i = n + 1
      BY <1>2
    <3>3. filter' # {} /\ answer'.state # "error" => \A i \in 1..(n + 1) : Queue[i] \in read'
      BY <1>1, <2>1, <2>2, <3>2 DEF Progress
    <3> QED
      BY <1>2, <2>1, <2>2, <3>1, <3>3 DEF Progress
  <2>4. Head(calls) \in DOMAIN None
    BY <2>1 DEF PageInv, ListsOK, None
  <2>5. ~Done'
    BY <2>1 DEF Done, Blank
  <2> QED
    BY <2>1, <2>3, <2>4, <2>5 DEF PageInv, Shown, None, Blank, Groups
<1>4. CASE CallFails
  <2>1. /\ answer = Blank /\ calls # <<>> /\ calls' = Tail(calls)
        /\ answer' = IF Required(Head(calls)) THEN Error ELSE Blank
        /\ UNCHANGED <<page, filter, read>>
    BY <1>4 DEF CallFails
  <2>2. /\ n + 1 \in 0..Len(Queue) /\ Head(calls) = Queue[n + 1]
        /\ Tail(calls) = SubSeq(Queue, n + 2, Len(Queue))
    BY <1>1, <2>1, OneMoreCall DEF PageInv
  <2>3. Progress(n + 1)'
    <3>1. (n + 1) + 1 = n + 2
      BY <1>2
    <3>2. filter # {} => answer'.state = "error"
      BY <2>1 DEF Required, Error
    <3> QED
      BY <1>2, <2>1, <2>2, <3>1, <3>2 DEF Progress
  <2>4. ~Done' /\ (answer' = Blank \/ answer' = Error)
    BY <2>1 DEF Done, Blank, Error
  <2> QED
    BY <2>1, <2>3, <2>4 DEF PageInv, Shown, None, Blank, Error, Groups
<1>5. CASE Render
  <2>1. answer = Blank /\ calls = <<>> /\ UNCHANGED <<page, filter, calls, read, got>>
    BY <1>5 DEF Render
  <2>2. answer' =
          IF page = "loaders" THEN [state |-> "done", rows |-> AllGroups(got), picker |-> {}]
          ELSE [state |-> "done",
                rows |-> {r \in DOMAIN RowGroups(got) : filter \subseteq RowGroups(got)[r]},
                picker |-> Picker]
    BY <1>5, Zenon DEF Render
  <2>3. Done' /\ answer'.state = "done"
    BY <2>2 DEF Done
  <2>4. Progress(n)'
    BY <1>1, <1>2, <2>1, <2>3 DEF Progress, Blank
  <2>5. RowGroups(got)' = RowGroups(got) /\ Offered(got)' = Offered(got) /\ Missing' = Missing
    BY <2>1 DEF RowGroups, Offered, Missing
  <2>6. CASE page = "loaders"
    <3>1. AllGroups(got) \subseteq Groups
      BY HoldersTyped, GroupsOffered DEF PageInv
    <3>2. answer'.rows = AllGroups(got) /\ answer'.picker = {}
      BY <2>2, <2>6
    <3> QED
      BY <2>1, <2>3, <2>4, <2>6, <3>1, <3>2 DEF PageInv, Shown, None, Groups
  <2>7. CASE page # "loaders"
    <3>1. /\ answer'.rows = {r \in DOMAIN RowGroups(got) : filter \subseteq RowGroups(got)[r]}
          /\ answer'.picker = Picker
      BY <2>2, <2>7
    <3>2. \A g \in answer'.picker \ filter : Missing = {} /\ g \in Offered(got)
      BY <3>1 DEF Picker
    <3>3. Shown'
      BY <2>1, <2>5, <2>7, <3>1, <3>2 DEF Shown
    <3> QED
      BY <2>1, <2>3, <2>4, <3>3 DEF PageInv, None, Groups
  <2> QED
    BY <2>6, <2>7
<1> QED
  BY <1>3, <1>4, <1>5 DEF Next

LEMMA PageAlways == Spec => []PageInv
<1>1. Init => PageInv
  <2> SUFFICES ASSUME Init PROVE PageInv
    OBVIOUS
  <2>1. /\ page \in DOMAIN CallsOf /\ calls = Queue /\ read = {} /\ got = None /\ answer = Blank
        /\ filter \in {{}} \union {{g} : g \in Groups}
    BY DEF Init, Queue
  <2>2. Queue \in Seq({"progs", "maps", "links"})
    BY <2>1, QueueTyped
  <2>3. Progress(0)
    <3>1. Len(Queue) \in Nat /\ SubSeq(Queue, 1, Len(Queue)) = Queue
      BY <2>2, SubSeqFull
    <3> QED
      BY <2>1, <3>1 DEF Progress
  <2>4. ListsOK
    BY <2>1, <2>2, NoneIsListed DEF ListsOK
  <2>5. ~Done
    BY <2>1 DEF Done, Blank
  <2> QED
    BY <2>1, <2>3, <2>4, <2>5 DEF PageInv, Shown
<1>2. PageInv /\ ListsOK' /\ [Next]_vars => PageInv'
  <2>1. ASSUME PageInv, ListsOK', UNCHANGED vars PROVE PageInv'
    <3>1. UNCHANGED <<page, filter, calls, read, got, answer>>
      BY <2>1 DEF vars
    <3>2. RowGroups(got)' = RowGroups(got) /\ Offered(got)' = Offered(got) /\ Missing' = Missing
      BY <3>1 DEF RowGroups, Offered, Missing
    <3>3. Shown'
      BY <2>1, <3>1, <3>2 DEF PageInv, Shown, Done
    <3>4. (\E n : Progress(n))'
      BY <2>1, <3>1 DEF PageInv, Progress, Queue, CallsOf
    <3> QED
      BY <2>1, <3>1, <3>3, <3>4 DEF PageInv, Done, None, Blank, Error, Groups
  <2> QED
    BY <2>1, PageStep
<1> QED
  BY <1>1, <1>2, ListsOKInvariant, PTL DEF Spec

(* PageIsSound holds of every reachable state: whichever calls failed, a    *)
(* page under a filter and its picker say only what every list that the     *)
(* missing calls might have returned would bear out (handlers.go:375-397,   *)
(* 529-553, 645-678).                                                       *)
THEOREM PagesSayWhatTheyKnow == Spec => []PageIsSound
BY PageAlways, PageSays, PTL
=============================================================================
