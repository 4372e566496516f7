---------------------------- MODULE LoaderGroups ----------------------------
(***************************************************************************)
(* Who loaded what (internal/web/graph.go), and what the Holders columns   *)
(* say of it (internal/web/handlers.go).                                   *)
(*                                                                         *)
(* s is what three calls to an agent returned, keyed by id: s.progs[p] has *)
(* its holders' pids and the maps it references, s.maps[m] its holders and *)
(* the maps or programs in its slots, s.links[l] is the program it         *)
(* attaches.  The calls are made one after another, so nothing relates one *)
(* list to another: an id may be named that no list has.                   *)
(***************************************************************************)
EXTENDS Naturals, FiniteSetsExt

CONSTANT Hidden   (* the pids that are never a loader *)

NoLoader == 0     (* the group sg_unattached; any other group is a pid *)

Lowest(pids) == IF pids = {} THEN NoLoader ELSE Min(pids)

-----------------------------------------------------------------------------
(* The partition.                                                          *)

HolderGroup(pids) == Lowest(pids \ Hidden)

Referrers(s, m) == {p \in DOMAIN s.progs : m \in s.progs[p].maps}

(* The group a map passes on to what sits in its slots, when programs are   *)
(* in the groups given: its own holder's, or that of the lowest-numbered    *)
(* program referencing it that has one.                                     *)
PassesOn(s, group, m) ==
  LET held == HolderGroup(s.maps[m].pids)
      refs == {p \in Referrers(s, m) : group[p] # NoLoader}
  IN  IF held # NoLoader THEN held
      ELSE IF refs # {} THEN group[Min(refs)]
      ELSE NoLoader

(* Mutant: the first array decides, though it may have no loader. *)
ProgGroupsFirstArray(s) ==
  LET own == [p \in DOMAIN s.progs |-> HolderGroup(s.progs[p].pids)]
      arrays(p) == {m \in DOMAIN s.maps : p \in s.maps[m].progs}
  IN  [p \in DOMAIN s.progs |->
         IF own[p] # NoLoader \/ arrays(p) = {} THEN own[p]
         ELSE PassesOn(s, own, Min(arrays(p)))]

(* A program's own holder, or what the lowest-numbered array that holds it  *)
(* passes on.                                                               *)
progGroups(s) ==
  LET own == [p \in DOMAIN s.progs |-> HolderGroup(s.progs[p].pids)]
      arrays(p) == {m \in DOMAIN s.maps : p \in s.maps[m].progs /\ PassesOn(s, own, m) # NoLoader}
  IN  [p \in DOMAIN s.progs |->
         IF own[p] # NoLoader \/ arrays(p) = {} THEN own[p]
         ELSE PassesOn(s, own, Min(arrays(p)))]

(* What an inner map inherits from the lowest-numbered outer map.           *)
innerGroup(s, m) ==
  LET pg == progGroups(s)
      outer == {o \in DOMAIN s.maps : m \in s.maps[o].inner /\ PassesOn(s, pg, o) # NoLoader}
  IN  IF outer = {} THEN NoLoader ELSE PassesOn(s, pg, Min(outer))

Held(s, m) == m \in DOMAIN s.maps /\ HolderGroup(s.maps[m].pids) # NoLoader

(* Mutant: an inherited map is not known. *)
KnownUnlessInner(s, m) ==
  \/ Held(s, m)
  \/ \E p \in Referrers(s, m) : progGroups(s)[p] # NoLoader

known(s, m) ==
  \/ Held(s, m)
  \/ \E p \in Referrers(s, m) : progGroups(s)[p] # NoLoader
  \/ innerGroup(s, m) # NoLoader

(* The groups a map joins because programs reference it.                    *)
ByReference(s, m) ==
  {g \in {progGroups(s)[p] : p \in Referrers(s, m)} : g # NoLoader \/ ~known(s, m)}

(* Mutant: a referenced map is left to those who reference it, held or not. *)
ByHolderUnreferenced(s, m) ==
  IF Referrers(s, m) # {} THEN {}
  ELSE IF Held(s, m) THEN {HolderGroup(s.maps[m].pids)}
  ELSE {innerGroup(s, m)}

(* The group a listed map joins by itself.                                  *)
ByHolder(s, m) ==
  IF Held(s, m) THEN {HolderGroup(s.maps[m].pids)}
  ELSE IF Referrers(s, m) # {} THEN {}
  ELSE {innerGroup(s, m)}

MapGroups(s, m) ==
  ByReference(s, m) \union (IF m \in DOMAIN s.maps THEN ByHolder(s, m) ELSE {})

LinkGroup(s, l) ==
  IF s.links[l] \in DOMAIN s.progs THEN progGroups(s)[s.links[l]] ELSE NoLoader

-----------------------------------------------------------------------------
(* The Holders columns.  They know nothing of Hidden.                       *)

outerLoaderRef(s, m) ==
  IF s.maps[m].pids # {} THEN Min(s.maps[m].pids)
  ELSE Lowest(UNION {s.progs[p].pids : p \in Referrers(s, m)})

Loaders(refs) == refs \ {NoLoader}

progArrayLoaders(s, p) ==
  Loaders({outerLoaderRef(s, m) : m \in {x \in DOMAIN s.maps : p \in s.maps[x].progs}})

innerMapLoaders(s, m) ==
  Loaders({outerLoaderRef(s, o) : o \in {x \in DOMAIN s.maps : m \in s.maps[x].inner}})

progLoaderRef(s, p) ==
  IF s.progs[p].pids # {} THEN Min(s.progs[p].pids)
  ELSE Lowest(progArrayLoaders(s, p))

mapLoaders(s, m) == Loaders({progLoaderRef(s, p) : p \in Referrers(s, m)})

ProgColumn(s, p) ==
  IF s.progs[p].pids # {} THEN s.progs[p].pids ELSE progArrayLoaders(s, p)

MapColumn(s, m) ==
  IF s.maps[m].pids # {} THEN s.maps[m].pids
  ELSE IF mapLoaders(s, m) # {} THEN mapLoaders(s, m)
  ELSE innerMapLoaders(s, m)
=============================================================================
