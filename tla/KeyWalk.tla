-------------------------------- MODULE KeyWalk --------------------------------
(***************************************************************************)
(* Walking the keys of one map while its owner changes it: DumpMap, and the *)
(* slots a listing reads of a map of maps or a program array.  The kernel   *)
(* answers what key comes after a given one; of a hash that no longer has   *)
(* the given one, it answers the first.                                     *)
(***************************************************************************)
EXTENDS Integers, Sequences, FiniteSets

CONSTANTS
    MaxKey,       \* keys are 0..MaxKey, in the order the kernel walks them
    Objects,      \* ids a slot may hold; 0 is an empty slot
    MaxDump,      \* maxDumpEntries
    MaxSlots,     \* maxFDArraySlots
    MaxEdits      \* how often the map is changed during the walk (a bound)

Keys == 0..MaxKey
NoKey == -1

ASSUME KeyAssumption ==
    /\ MaxKey \in Nat /\ MaxEdits \in Nat /\ Objects \subseteq Nat \ {0}
    /\ MaxDump \in Nat \ {0} /\ MaxSlots \in Nat \ {0}

VARIABLES
    hash,      \* the map is a hash; an array has every key
    slots,     \* key |-> the id in it, for the keys there are
    edits,
    for,       \* "dump" or "slots"
    limit,     \* how many entries at most
    step,      \* where the walk is
    key,       \* the key it is at
    entries,   \* what it has read: [key, id], id 0 where there was nothing to read
    truncated, \* the dump says it left something out
    cut,       \* a key could not be asked for
    calm,      \* history: keys whose slot has not changed since the walk began
    unread,    \* history: keys that are there and could not be looked up
    looked     \* history: how many slots were read

mapVars == <<hash, slots, edits>>
walk == <<for, limit, step, key, entries, truncated, cut>>
history == <<calm, unread, looked>>
keyVars == <<mapVars, walk, history>>

\* A dump asked for 0 entries or for too many gets the most there is.
DumpLimit(n) == IF n = 0 \/ n > MaxDump THEN MaxDump ELSE n

\* A page's dump of one map, with the limit the page gave.
DumpAsked == for = "dump" /\ limit \in {DumpLimit(n) : n \in 0..(MaxDump + 1)}
\* A listing's reading of the slots of a map of maps or a program array.
SlotsAsked == for = "slots" /\ limit = MaxSlots

KeyInit ==
    /\ hash \in BOOLEAN
    /\ \E ks \in IF hash THEN SUBSET Keys ELSE {Keys} : slots \in [ks -> Objects \union {0}]
    /\ edits = 0
    /\ DumpAsked \/ SlotsAsked
    /\ step = "first" /\ key = NoKey /\ entries = <<>> /\ truncated = FALSE /\ cut = FALSE
    /\ calm = DOMAIN slots /\ unread = {} /\ looked = 0

\* The map's owner puts an object in a slot, empties it, or deletes its key.
Put(k, id) ==
    /\ step \notin {"done", "failed"} /\ edits < MaxEdits
    /\ k \in DOMAIN slots \/ hash
    /\ slots' = [j \in DOMAIN slots \union {k} |-> IF j = k THEN id ELSE slots[j]]
    /\ edits' = edits + 1 /\ calm' = calm \ {k}
    /\ UNCHANGED <<hash, walk, unread, looked>>

Delete(k) ==
    /\ step \notin {"done", "failed"} /\ edits < MaxEdits
    /\ hash /\ k \in DOMAIN slots
    /\ slots' = [j \in DOMAIN slots \ {k} |-> slots[j]]
    /\ edits' = edits + 1 /\ calm' = calm \ {k}
    /\ UNCHANGED <<hash, walk, unread, looked>>

\* The first of the keys after k, or NoKey.
After(k) ==
    LET above == {j \in DOMAIN slots : j > k}
    IN  IF above = {} THEN NoKey ELSE CHOOSE j \in above : \A i \in above : j <= i
NextKey(k) == IF k \in DOMAIN slots THEN After(k) ELSE After(NoKey)

\* To the next key, or the end.
Go(k) == /\ key' = k
         /\ step' = IF k = NoKey THEN "done" ELSE "take"

FirstKey ==
    /\ step = "first" /\ Go(After(NoKey))
    /\ UNCHANGED <<mapVars, for, limit, entries, truncated, cut, history>>

\* A dump that cannot begin is an error; slots that cannot be read are none.
NoFirstKey ==
    /\ step = "first"
    /\ step' = IF for = "dump" THEN "failed" ELSE "done"
    /\ cut' = TRUE
    /\ UNCHANGED <<mapVars, for, limit, key, entries, truncated, history>>

\* Mutant: it does not say so.
FullInSilence ==
    /\ step = "take" /\ Len(entries) >= limit
    /\ step' = "done"
    /\ UNCHANGED <<mapVars, for, limit, key, entries, truncated, cut, history>>

\* At its limit the walk stops, and a dump says so.
Full ==
    /\ step = "take" /\ Len(entries) >= limit
    /\ step' = "done" /\ truncated' = (for = "dump")
    /\ UNCHANGED <<mapVars, for, limit, key, entries, cut, history>>

\* What a lookup gives: the id in the slot, or none when the slot is empty, its key
\* gone, or the lookup fails.
fdArrayID(k) == {0} \union (IF k \in DOMAIN slots THEN {slots[k]} ELSE {})

\* A dump has a row for what was looked up all the same, a list of slots only for
\* an object.
Take ==
    /\ step = "take" /\ Len(entries) < limit
    /\ \E id \in fdArrayID(key) :
          /\ entries' = IF for = "dump" \/ id # 0 THEN Append(entries, [key |-> key, id |-> id])
                        ELSE entries
          /\ unread' = IF key \in DOMAIN slots /\ id # slots[key] THEN unread \union {key} ELSE unread
    /\ looked' = looked + 1
    /\ step' = "next"
    /\ UNCHANGED <<mapVars, for, limit, key, truncated, cut, calm>>

AskNext ==
    /\ step = "next" /\ Go(NextKey(key))
    /\ UNCHANGED <<mapVars, for, limit, entries, truncated, cut, history>>

\* A failing NextKey ends the walk as the last key does: nothing is said of it.
NoNext ==
    /\ step = "next"
    /\ step' = "done" /\ cut' = TRUE
    /\ UNCHANGED <<mapVars, for, limit, key, entries, truncated, history>>

KeyNext ==
    \/ \E k \in Keys : Delete(k) \/ \E id \in Objects \union {0} : Put(k, id)
    \/ FirstKey \/ NoFirstKey \/ Full \/ Take \/ AskNext \/ NoNext

KeySpec == KeyInit /\ [][KeyNext]_keyVars

-----------------------------------------------------------------------------
\* Types, and where the walk stands among the keys.
KeyTypeOK ==
    /\ hash \in BOOLEAN /\ DOMAIN slots \subseteq Keys /\ (hash \/ DOMAIN slots = Keys)
    /\ \A k \in DOMAIN slots : slots[k] \in Objects \union {0}
    /\ edits \in 0..MaxEdits /\ for \in {"dump", "slots"} /\ limit \in Nat \ {0}
    /\ step \in {"first", "take", "next", "done", "failed"}
    /\ key \in Keys \union {NoKey} /\ (step \in {"take", "next"} => key \in Keys)
    /\ \A e \in DOMAIN entries : entries[e].key \in Keys /\ entries[e].id \in Objects \union {0}
    /\ truncated \in BOOLEAN /\ cut \in BOOLEAN /\ calm \subseteq DOMAIN slots
    /\ unread \subseteq Keys /\ looked \in Nat

\* Which keys the walk has behind it: those below the one it is at, or was at when
\* it ended; and all of them, once it was told of no more.  A walk that is refused
\* the next key ends as if there were none (inspector.go:222), which is not told.
Behind(k) ==
    \/ k < key
    \/ step = "next" /\ k = key
    \/ step = "done" /\ ~cut /\ ~truncated /\ (for = "slots" => Len(entries) < limit)

\* At every moment, and however it ends, a walk has read every slot behind it that
\* stayed as it was and could be looked up, however often deletions sent it back to
\* the first key.  A dump that leaves something out for its limit says so, and one
\* that says so is full.
KeptKeysAreRead ==
    /\ Len(entries) <= limit
    /\ truncated => Len(entries) = limit
    /\ \A k \in calm \ unread :
          Behind(k) /\ (for = "dump" \/ slots[k] # 0) =>
             \E e \in DOMAIN entries : entries[e] = [key |-> k, id |-> slots[k]]

\* The walk of keys is of its type, and reads what it should.
KeyWalkIsSound == KeyTypeOK /\ KeptKeysAreRead

\* A listing reads at most maxFDArraySlots slots of one map, "a bound on work done
\* for every page view" (inspector.go:358-360).
SlotsReadAreCapped == for = "slots" => looked <= MaxSlots
=============================================================================
