--------------------------- MODULE NodeReadsProofs ---------------------------
(***************************************************************************)
(* Proofs about NodeReads, for any processes, threads, calls at once and    *)
(* deployments; about CgroupTree, for any cgroups, types and programs; and  *)
(* about InodeSearch, for any directories, files, processes and lookups.    *)
(***************************************************************************)
EXTENDS NodeReads, CgroupTree, InodeSearch,
        SequenceTheorems, FiniteSetTheorems, WellFoundedInduction, TLAPS

(* A thread is moved only while a call has it for its own.  A call has one,  *)
(* and only from LockOSThread until it has failed to enter or has left; the  *)
(* thread is where it was until the call has entered.                       *)
Holding == {"open", "setns", "inside", "exit"}

HomeInv ==
    /\ DOMAIN kind \subseteq Nat \ {0}
    /\ DOMAIN ns = Threads /\ DOMAIN locked = Threads /\ DOMAIN pc = DOMAIN kind
    /\ locked \in [Threads -> {Free} \union DOMAIN kind]
    /\ PoolStaysHome
    /\ \A t \in Threads : \A c \in DOMAIN kind :
          locked[t] = c => /\ pc[c] \in Holding
                           /\ pc[c] \in {"open", "setns"} => ns[t] = Home
    /\ \A t, u \in Threads : locked[t] = locked[u] /\ locked[t] # Free => t = u

LEMMA HomeInit ==
  ASSUME ReadsInit
  PROVE  HomeInv
<1>1. DOMAIN kind \subseteq Nat \ {0}
  BY ReadsAssumption DEF ReadsInit
<1>2. \A t \in Threads : ns[t] = Home /\ locked[t] = Free
  BY DEF ReadsInit
<1>3. \A c \in DOMAIN kind : c # Free
  BY <1>1 DEF Free
<1> QED
  BY <1>1, <1>2, <1>3 DEF ReadsInit, HomeInv, PoolStaysHome, Unlocked

(* A call that only goes on, its threads where they were and not about to    *)
(* enter, disturbs nothing.                                                  *)
LEMMA ReadsGoOn ==
  ASSUME HomeInv, NEW c \in DOMAIN kind, NEW to,
         Goes(c, to), pc[c] \in Holding => to \in Holding,
         to \in {"open", "setns"} => pc[c] \in {"open", "setns"},
         UNCHANGED threads, UNCHANGED <<setup, kind>>
  PROVE  HomeInv'
  BY DEF HomeInv, Goes, threads, PoolStaysHome, Unlocked, Home

LEMMA HomeStep ==
  ASSUME HomeInv, [ReadsNext]_readsVars
  PROVE  HomeInv'
<1>1. ASSUME NEW c \in DOMAIN kind, Begin(c)
      PROVE  HomeInv'
  <2>1. PICK to \in {"done", "spawn", "here"} : Goes(c, to)
    BY <1>1 DEF Begin
  <2> QED
    BY <1>1, <2>1, ReadsGoOn DEF Begin, world, Holding
<1>2. ASSUME NEW c \in DOMAIN kind, OpenNamespace(c)
      PROVE  HomeInv'
  BY <1>2, ReadsGoOn DEF OpenNamespace, world, Holding
<1>3. ASSUME NEW c \in DOMAIN kind, ReadJIT(c)
      PROVE  HomeInv'
  <2>1. PICK to \in {"exit", "done"} : Goes(c, to) /\ (pc[c] \in Holding => to \in Holding)
    BY <1>3 DEF ReadJIT, RunsOn, Holding
  <2> QED
    BY <1>3, <2>1, ReadsGoOn DEF ReadJIT, world
<1>4. ASSUME NEW c \in DOMAIN kind, PathsRead(c)
      PROVE  HomeInv'
  <2>1. PICK to \in {"exit", "paths"} : Goes(c, to) /\ (pc[c] \in Holding => to \in Holding)
    BY <1>4 DEF PathsRead, Holding
  <2> QED
    BY <1>4, <2>1, ReadsGoOn DEF PathsRead, world
<1>5. ASSUME NEW c \in DOMAIN kind, Describe(c) \/ Account(c) \/ Report(c)
      PROVE  HomeInv'
  <2>1. Goes(c, "done") /\ UNCHANGED threads /\ UNCHANGED <<setup, kind>> /\ pc[c] \notin Holding
    BY <1>5 DEF Describe, Account, Report, world, Holding
  <2> QED
    BY <2>1, ReadsGoOn
<1>6. ASSUME NEW c \in DOMAIN kind, NEW t \in Threads, LockThread(c, t)
      PROVE  HomeInv'
  <2>1. ns[t] = Home
    BY <1>6 DEF LockThread, HomeInv, PoolStaysHome
  <2>2. UNCHANGED <<ns, setup, kind>> /\ Goes(c, "open") /\ locked' = [locked EXCEPT ![t] = c]
        /\ pc[c] = "spawn"
    BY <1>6 DEF LockThread, world
  <2>3. \A u \in Threads : locked[u] # c
    BY <2>2 DEF HomeInv, Holding
  <2> QED
    BY <2>1, <2>2, <2>3 DEF HomeInv, PoolStaysHome, Unlocked, Home, Goes, Free, Holding
<1>7. ASSUME NEW c \in DOMAIN kind, NEW t \in Threads, CannotEnter(c, t)
      PROVE  HomeInv'
  <2>1. /\ locked[t] = c /\ pc[c] \in {"open", "setns"} /\ UNCHANGED <<ns, setup, kind>>
        /\ locked' = [locked EXCEPT ![t] = Free] /\ pc' = [pc EXCEPT ![c] = "here"]
    BY <1>7 DEF CannotEnter, Goes, world
  <2>2. locked' \in [Threads -> {Free} \union DOMAIN kind]
    BY <2>1 DEF HomeInv
  <2>3. \A u \in Threads : locked'[u] = IF u = t THEN Free ELSE locked[u]
    BY <2>1 DEF HomeInv
  <2>4. \A d \in DOMAIN kind : d # Free /\ pc'[d] = IF d = c THEN "here" ELSE pc[d]
    BY <2>1 DEF HomeInv, Free
  <2>5. ns[t] = Home
    BY <2>1 DEF HomeInv
  <2>6. \A u \in Threads : \A d \in DOMAIN kind : locked'[u] = d => d # c /\ u # t
    BY <2>1, <2>3, <2>4 DEF HomeInv, Free
  <2> QED
    BY <2>1, <2>2, <2>3, <2>4, <2>5, <2>6 DEF HomeInv, PoolStaysHome, Unlocked, Home
<1>8. ASSUME NEW c \in DOMAIN kind, NEW t \in Threads, Setns(c, t)
      PROVE  HomeInv'
  <2>1. PICK n : ns' = [ns EXCEPT ![t] = n]
    BY <1>8 DEF Setns
  <2>2. UNCHANGED <<locked, setup, kind>> /\ Goes(c, "inside") /\ locked[t] = c
    BY <1>8 DEF Setns, world
  <2>3. \A u \in Threads : u # t => ns'[u] = ns[u]
    BY <2>1 DEF HomeInv
  <2>4. \A d \in DOMAIN kind : pc'[d] \in {"open", "setns"} => d # c /\ pc'[d] = pc[d]
    BY <2>2 DEF HomeInv, Goes
  <2>5. DOMAIN ns' = Threads /\ DOMAIN pc' = DOMAIN kind /\ Home' = Home /\ c # Free
    BY <2>1, <2>2 DEF HomeInv, Goes, Home, Free
  <2> QED
    BY <2>2, <2>3, <2>4, <2>5 DEF HomeInv, PoolStaysHome, Unlocked, Goes, Holding
<1>9. ASSUME NEW c \in DOMAIN kind, NEW t \in Threads, ThrowThreadAway(c, t)
      PROVE  HomeInv'
  BY <1>9 DEF ThrowThreadAway, HomeInv, PoolStaysHome, Unlocked, Home, Goes, Free, world, Holding
<1>10. ASSUME NEW c \in DOMAIN kind, NEW p \in Pids, ReadPath(c, p)
       PROVE  HomeInv'
  BY <1>10 DEF ReadPath, HomeInv, PoolStaysHome, Unlocked, Home, threads, world
<1>11. ASSUME NEW p \in Pids, Move(p)
       PROVE  HomeInv'
  BY <1>11 DEF Move, HomeInv, PoolStaysHome, Unlocked, Home, threads
<1>12. CASE UNCHANGED readsVars
  BY <1>12 DEF readsVars, HomeInv, PoolStaysHome, Unlocked, Home, threads, world
<1> QED
  BY <1>1, <1>2, <1>3, <1>4, <1>5, <1>6, <1>7, <1>8, <1>9, <1>10, <1>11, <1>12
     DEF ReadsNext, Step

(* No goroutine is ever given a thread that is in another process's          *)
(* namespaces, whatever calls run at once and wherever they fail: runInNS    *)
(* unlocks a thread only before it has moved it (cgroup.go:113-143).         *)
THEOREM PoolAlwaysHome == ReadsSpec => []PoolStaysHome
<1>1. ReadsInit => HomeInv
  BY HomeInit
<1>2. HomeInv /\ [ReadsNext]_readsVars => HomeInv'
  BY HomeStep
<1>3. HomeInv => PoolStaysHome
  BY DEF HomeInv
<1> QED
  BY <1>1, <1>2, <1>3, PTL DEF ReadsSpec

-----------------------------------------------------------------------------
(* How the kernel spells a cgroup's path.                                   *)

LEMMA LowestIsIn ==
  ASSUME NEW S \in SUBSET Nat, S # {}
  PROVE  \E x \in S : \A y \in S : x <= y
<1>1. PICK x \in S : \A y \in S : <<y, x>> \notin OpToRel(<, Nat)
  BY NatLessThanWellFounded, WFMin
<1>2. \A y \in S : ~(y < x)
  BY <1>1, Zenon DEF OpToRel
<1> QED
  BY <1>2

(* Two paths part somewhere: at the first place where they differ, or where *)
(* the first of them ends.                                                  *)
LEMMA PathsPart ==
  ASSUME NEW a \in Seq(STRING), NEW b \in Seq(STRING)
  PROVE  /\ Common(a, b) \in 0..Len(a) /\ Common(a, b) <= Len(b)
         /\ SubSeq(a, 1, Common(a, b)) = SubSeq(b, 1, Common(a, b))
<1> DEFINE Differ == {i \in 1..Len(a) : i > Len(b) \/ a[i] # b[i]}
<1>1. Len(a) \in Nat /\ Len(b) \in Nat
  BY LenProperties
<1>2. \E n \in 0..Len(a) : /\ n <= Len(b) /\ \A i \in 1..n : a[i] = b[i]
                           /\ n < Len(a) /\ n < Len(b) => a[n + 1] # b[n + 1]
  <2>1. CASE Differ = {}
    <3>1. \A i \in 1..Len(a) : i <= Len(b) /\ a[i] = b[i]
      BY <1>1, <2>1
    <3>2. Len(a) <= Len(b)
      BY <1>1, <3>1
    <3> QED
      BY <1>1, <3>1, <3>2
  <2>2. CASE Differ # {}
    <3>1. Differ \in SUBSET Nat
      BY <1>1
    <3>2. PICK j \in Differ : \A i \in Differ : j <= i
      BY <2>2, <3>1, LowestIsIn
    <3>3. j \in 1..Len(a) /\ (j > Len(b) \/ a[j] # b[j])
      BY <3>2
    <3>4. \A i \in 1..(j - 1) : i <= Len(b) /\ a[i] = b[i]
      BY <1>1, <3>2, <3>3
    <3>5. j - 1 <= Len(b)
      <4>1. CASE j = 1
        BY <1>1, <4>1
      <4>2. CASE j # 1
        <5>1. j - 1 \in 1..(j - 1)
          BY <1>1, <3>3, <4>2
        <5> QED
          BY <3>4, <5>1
      <4> QED
        BY <4>1, <4>2
    <3>6. j - 1 \in 0..Len(a) /\ (j - 1) + 1 = j
      BY <1>1, <3>3
    <3>7. ASSUME j - 1 < Len(a), j - 1 < Len(b)
          PROVE  a[(j - 1) + 1] # b[(j - 1) + 1]
      BY <1>1, <3>3, <3>6, <3>7
    <3> QED
      BY <3>4, <3>5, <3>6, <3>7
  <2> QED
    BY <2>1, <2>2
<1>3. \A n \in 0..Len(a) : n <= Len(b) /\ (\A i \in 1..n : a[i] = b[i])
                            => SubSeq(a, 1, n) = SubSeq(b, 1, n)
  <2> SUFFICES ASSUME NEW n \in 0..Len(a), n <= Len(b), \A i \in 1..n : a[i] = b[i]
               PROVE  SubSeq(a, 1, n) = SubSeq(b, 1, n)
    OBVIOUS
  <2>1. n \in Nat /\ n <= Len(a)
    BY <1>1
  <2>2. SubSeq(a, 1, n) = [i \in 1..n |-> a[i]] /\ SubSeq(b, 1, n) = [i \in 1..n |-> b[i]]
    BY <1>1, <2>1
  <2> QED
    BY <2>2
<1>4. \E n \in 0..Len(a) : /\ n <= Len(b) /\ SubSeq(a, 1, n) = SubSeq(b, 1, n)
                           /\ n < Len(a) /\ n < Len(b) => a[n + 1] # b[n + 1]
  BY <1>2, <1>3
<1> QED
  BY <1>4, Zenon DEF Common

(* Read from the node's root, a cgroup's path is the cgroup.                *)
LEMMA SpellFromRoot ==
  ASSUME NEW c \in Seq(STRING)
  PROVE  Spell(<<>>, c) = c
<1>1. <<>> \in Seq(STRING) /\ Len(<<>>) = 0 /\ Len(c) \in Nat
  BY EmptySeq, LenProperties
<1>2. Common(<<>>, c) = 0
  <2>1. Common(<<>>, c) \in 0..Len(<<>>)
    BY <1>1, PathsPart
  <2> QED
    BY <1>1, <2>1
<1>3. [i \in 1..(0 - 0) |-> ".."] = <<>>
  OBVIOUS
<1>4. SubSeq(c, 0 + 1, Len(c)) = c
  BY SubSeqFull
<1>5. <<>> \o c = c
  BY ConcatEmptySeq
<1> QED
  BY <1>1, <1>2, <1>3, <1>4, <1>5 DEF Spell

(* Read from a cgroup namespace's root, a path that does not climb is joined *)
(* to that root the cgroup again.                                           *)
LEMMA SpellUnder ==
  ASSUME NEW base \in Seq(STRING), NEW c \in Seq(STRING), ~Climbs(Spell(base, c))
  PROVE  base \o Spell(base, c) = c
<1> DEFINE n == Common(base, c)
           ups == [i \in 1..(Len(base) - n) |-> ".."]
           rest == SubSeq(c, n + 1, Len(c))
           T == STRING \union {".."}
<1>1. Len(base) \in Nat /\ Len(c) \in Nat /\ n \in 0..Len(base) /\ n <= Len(c) /\ n \in Nat
      /\ SubSeq(base, 1, n) = SubSeq(c, 1, n)
  <2>1. n \in 0..Len(base) /\ n <= Len(c) /\ SubSeq(base, 1, n) = SubSeq(c, 1, n)
    BY PathsPart
  <2>2. Len(base) \in Nat /\ Len(c) \in Nat
    BY LenProperties
  <2> HIDE DEF n
  <2> QED
    BY <2>1, <2>2
<1>2. Spell(base, c) = ups \o rest
  BY DEF Spell
<1> HIDE DEF n
<1>3. rest \in Seq(T) /\ rest \in Seq(STRING)
  BY <1>1, SubSeqProperties, SeqMonotonic
<1>4. CASE n < Len(base)
  <2>1. Len(base) - n \in Nat \ {0}
    BY <1>1, <1>4
  <2>2. ups \in Seq(T) /\ Len(ups) = Len(base) - n /\ ups[1] = ".."
    <3> HIDE DEF T
    <3>1. ".." \in T
      BY DEF T
    <3>2. ups \in [1..(Len(base) - n) -> T]
      BY <3>1
    <3> QED
      BY <2>1, <3>2, SeqDef
  <2>3. Len(rest) \in Nat
    BY <1>3, LenProperties
  <2> HIDE DEF ups, rest, T
  <2>4. (ups \o rest)[1] = ".." /\ ups \o rest # <<>>
    BY <1>3, <2>1, <2>2, <2>3, ConcatProperties
  <2>5. Head(ups \o rest) = ".."
    BY <2>4
  <2> QED
    BY <1>2, <2>4, <2>5 DEF Climbs
<1>5. CASE n = Len(base)
  <2>1. ups = <<>>
    BY <1>1, <1>5
  <2>2. Spell(base, c) = rest
    <3> HIDE DEF rest
    <3> QED
      BY <1>2, <1>3, <2>1, ConcatEmptySeq
  <2>3. base = SubSeq(c, 1, n)
    BY <1>1, <1>5, SubSeqFull
  <2>4. SubSeq(c, 1, n) \o SubSeq(c, n + 1, Len(c)) = SubSeq(c, 1, Len(c))
    <3>1. 1 \in 1..Len(c) + 1 /\ n \in 1 - 1..Len(c) /\ Len(c) \in n..Len(c)
      BY <1>1
    <3> QED
      BY <3>1, ConcatAdjacentSubSeq
  <2> QED
    BY <2>2, <2>3, <2>4, SubSeqFull
<1> QED
  BY <1>1, <1>4, <1>5

-----------------------------------------------------------------------------
(* What the calls read and show.                                            *)

Stages == {"start", "spawn", "open", "setns", "inside", "here", "exit", "paths", "done"}
Unentered == "could not be entered"

(* Where the paths a call reads are spelled from, when it has not said.     *)
Frame(c) == IF Apart(c) THEN <<>> ELSE setup.ns

WorldTyped ==
    /\ setup \in Setups /\ kind \in CallSets /\ moves \in 0..MaxMoves
    /\ in \in [Pids -> Cgroups \union {Gone}] /\ setup.ns \in Cgroups
    /\ setup.mounts.init \subseteq {<<>>} /\ setup.mounts.self \subseteq {setup.ns}
    /\ was \subseteq Pids \X Cgroups
    /\ \A p \in Pids : in[p] # Gone => <<p, in[p]>> \in was

CallsTyped ==
    /\ DOMAIN todo = DOMAIN kind /\ DOMAIN path = DOMAIN kind
    /\ DOMAIN note = DOMAIN kind /\ DOMAIN out = DOMAIN kind
    /\ \A c \in DOMAIN kind :
          /\ pc[c] \in Stages /\ todo[c] \subseteq Pids
          /\ DOMAIN path[c] = Pids /\ DOMAIN out[c] = Pids
          /\ \A p \in Pids : path[c][p] = {} \/ \E s : path[c][p] = {s}

ReadsTyped == WorldTyped /\ CallsTyped

(* A call that has a thread is one that had a namespace to enter, and reads *)
(* where it is only if it had none, or says so.                             *)
Entering ==
    /\ \A c \in DOMAIN kind :
          /\ pc[c] \in Holding => \E t \in Threads : locked[t] = c
          /\ pc[c] \in Holding \union {"spawn"} => Apart(c)
          /\ pc[c] = "here" => ~Apart(c) \/ note[c] = Unentered
          /\ kind[c] = "sysctls" => todo[c] = {}
    /\ \A c \in DOMAIN kind : \A t \in Threads :
          pc[c] = "inside" /\ locked[t] = c /\ kind[c] # "sysctls" => ns[t].cgroup = <<>>

PathsAreTheirs ==
    \A c \in DOMAIN kind : note[c] # Unentered =>
        \A p \in Pids : \A s \in path[c][p] :
            \E cgr \in Cgroups : <<p, cgr>> \in was /\ s = Spell(Frame(c), cgr)

(* A sysctls call that is done without a note has read the node's: inside    *)
(* the thread is in the node's network namespace, and out of it the call is  *)
(* only when it had none to enter, or says so.                               *)
ToldOrNodes(c) == note[c] = "" /\ (setup.sees \/ ~setup.netns) => jit[c]
JitInv ==
    /\ DOMAIN jit = DOMAIN kind
    /\ \A c \in DOMAIN kind : \A t \in Threads :
          pc[c] = "inside" /\ locked[t] = c /\ kind[c] = "sysctls" => ~ns[t].net
    /\ \A c \in DOMAIN kind : kind[c] = "sysctls" /\ pc[c] \in {"exit", "done"} => ToldOrNodes(c)

ReadsInv ==
    /\ HomeInv /\ ReadsTyped /\ Entering /\ PathsAreTheirs
    /\ ResourcesAreItsOwn /\ DisplacedIsTold /\ JitInv

LEMMA ReadsInitial ==
  ASSUME ReadsInit
  PROVE  ReadsInv
<1>1. HomeInv
  BY HomeInit
<1>2. Self \in Pids /\ <<>> \in Cgroups /\ Gone \notin Cgroups /\ MaxMoves \in Nat
  BY ReadsAssumption
<1>3. WorldTyped
  <2>1. setup \in Setups /\ kind \in CallSets /\ in \in [Pids -> Cgroups] /\ moves = 0
    BY DEF ReadsInit
  <2>2. moves \in 0..MaxMoves
    BY <1>2, <2>1
  <2>3. setup.ns = <<>> \/ setup.ns = in[Self]
    BY DEF ReadsInit
  <2>4. setup.ns \in Cgroups /\ in \in [Pids -> Cgroups \union {Gone}]
    BY <1>2, <2>1, <2>3
  <2>5. was = {<<p, in[p]>> : p \in Pids}
    BY DEF ReadsInit
  <2>6. was \subseteq Pids \X Cgroups /\ \A p \in Pids : <<p, in[p]>> \in was
    BY <2>1, <2>5
  <2>7. setup.mounts.init \subseteq {<<>>} /\ setup.mounts.self \subseteq {setup.ns}
    BY DEF ReadsInit
  <2> QED
    BY <2>1, <2>2, <2>4, <2>6, <2>7 DEF WorldTyped
<1>4. CallsTyped
  <2>1. \A c \in DOMAIN kind : /\ pc[c] = "start" /\ todo[c] = {}
                               /\ path[c] = [p \in Pids |-> {}] /\ out[c] = [p \in Pids |-> {}]
    BY DEF ReadsInit
  <2>2. DOMAIN todo = DOMAIN kind /\ DOMAIN path = DOMAIN kind
        /\ DOMAIN note = DOMAIN kind /\ DOMAIN out = DOMAIN kind
    BY DEF ReadsInit
  <2> QED
    BY <2>1, <2>2 DEF CallsTyped, Stages
<1>5. Entering /\ PathsAreTheirs /\ ResourcesAreItsOwn /\ DisplacedIsTold
  BY DEF ReadsInit, Entering, Holding, PathsAreTheirs, ResourcesAreItsOwn, DisplacedIsTold
<1>6. JitInv
  BY DEF ReadsInit, JitInv
<1> QED
  BY <1>1, <1>3, <1>4, <1>5, <1>6 DEF ReadsInv, ReadsTyped

(* What the world does and does not do in a step.                           *)
LEMMA WorldStep ==
  ASSUME ReadsNext
  PROVE  UNCHANGED <<setup, kind>> /\ was \subseteq was'
BY DEF ReadsNext, Step, Begin, OpenNamespace, ReadJIT, PathsRead, Describe, Account, Report,
       LockThread, CannotEnter, Setns, ThrowThreadAway, ReadPath, Move, world

LEMMA AskedOfPids ==
  ASSUME ReadsTyped, NEW c \in DOMAIN kind
  PROVE  Asked(c) \subseteq Pids /\ (kind[c] = "sysctls" => Asked(c) = {})
<1>1. kind[c] \in Kinds
  BY ReadsAssumption DEF ReadsTyped, WorldTyped
<1> QED
  BY <1>1 DEF Asked, Kinds, Lowest

LEMMA WorldTypedStep ==
  ASSUME WorldTyped, ReadsNext
  PROVE  WorldTyped'
<1>1. CASE UNCHANGED world
  BY <1>1 DEF WorldTyped, world
<1>2. ASSUME NEW p \in Pids, Move(p)
      PROVE  WorldTyped'
  <2> USE DEF WorldTyped
  <2>1. PICK cgr \in Cgroups \union {Gone} :
          /\ in' = [in EXCEPT ![p] = cgr]
          /\ was' = IF cgr = Gone THEN was ELSE was \union {<<p, cgr>>}
    BY <1>2 DEF Move
  <2>2. moves' \in 0..MaxMoves
    <3>1. moves < MaxMoves /\ moves' = moves + 1 /\ moves \in 0..MaxMoves
      BY <1>2 DEF Move
    <3> QED
      BY <3>1, ReadsAssumption
  <2>3. UNCHANGED <<setup, kind>>
    BY <1>2 DEF Move
  <2>4. in' \in [Pids -> Cgroups \union {Gone}]
    BY <2>1
  <2>5. was' \subseteq Pids \X Cgroups
    BY <2>1
  <2>6. \A q \in Pids : in'[q] # Gone => <<q, in'[q]>> \in was'
    <3>1. in \in [Pids -> Cgroups \union {Gone}] /\ \A q \in Pids : in[q] # Gone => <<q, in[q]>> \in was
      OBVIOUS
    <3> QED
      BY ONLY <2>1, <3>1
  <2> QED
    BY <2>2, <2>3, <2>4, <2>5, <2>6
<1>3. (\E c \in DOMAIN kind : Step(c)) => UNCHANGED world
  BY DEF Step, Begin, OpenNamespace, ReadJIT, PathsRead, Describe, Account, Report,
         LockThread, CannotEnter, Setns, ThrowThreadAway, ReadPath
<1> QED
  BY <1>1, <1>2, <1>3 DEF ReadsNext

LEMMA CallsTypedStep ==
  ASSUME HomeInv, ReadsTyped, ReadsNext
  PROVE  CallsTyped'
<1>1. CallsTyped /\ DOMAIN pc = DOMAIN kind
  BY DEF ReadsTyped, HomeInv
<1>2. kind' = kind
  BY WorldStep
(* A call of which only the stage and what it has yet to read have changed.  *)
<1>3. ASSUME NEW c \in DOMAIN kind, NEW to \in Stages, Goes(c, to), UNCHANGED <<path, out>>,
             DOMAIN note' = DOMAIN kind, DOMAIN todo' = DOMAIN kind,
             \A d \in DOMAIN kind : todo'[d] \subseteq Pids
      PROVE  CallsTyped'
  <2>1. \A d \in DOMAIN kind : pc'[d] \in Stages
    BY <1>1, <1>3 DEF Goes, CallsTyped
  <2> QED
    BY ONLY <1>1, <1>2, <1>3, <2>1 DEF CallsTyped
<1>4. ASSUME NEW c \in DOMAIN kind, Begin(c)
      PROVE  CallsTyped'
  <2>1. PICK to \in {"done", "spawn", "here"} : Goes(c, to)
    BY <1>4 DEF Begin
  <2>2. UNCHANGED todo \/ todo' = [todo EXCEPT ![c] = Asked(c)]
    BY <1>4 DEF Begin
  <2>3. Asked(c) \subseteq Pids
    BY AskedOfPids
  <2>4. DOMAIN todo = DOMAIN kind /\ \A d \in DOMAIN kind : todo[d] \subseteq Pids
    BY <1>1 DEF CallsTyped
  <2>5. DOMAIN todo' = DOMAIN kind /\ \A d \in DOMAIN kind : todo'[d] \subseteq Pids
    BY ONLY <2>2, <2>3, <2>4
  <2>6. UNCHANGED <<path, out, note>> /\ DOMAIN note = DOMAIN kind
    BY <1>1, <1>4 DEF Begin, CallsTyped
  <2>7. to \in Stages
    BY DEF Stages
  <2> QED
    BY <1>3, <2>1, <2>5, <2>6, <2>7
<1>5. ASSUME NEW c \in DOMAIN kind, OpenNamespace(c) \/ ReadJIT(c) \/ PathsRead(c)
      PROVE  CallsTyped'
  <2>1. PICK to \in Stages : Goes(c, to)
    BY <1>5 DEF OpenNamespace, ReadJIT, PathsRead, Stages
  <2>2. UNCHANGED <<path, out, note, todo>>
    BY <1>5 DEF OpenNamespace, ReadJIT, PathsRead
  <2> QED
    BY <1>1, <1>3, <2>1, <2>2 DEF CallsTyped
<1>6. ASSUME NEW c \in DOMAIN kind, NEW t \in Threads,
             LockThread(c, t) \/ CannotEnter(c, t) \/ Setns(c, t) \/ ThrowThreadAway(c, t)
      PROVE  CallsTyped'
  <2>1. PICK to \in Stages : Goes(c, to)
    BY <1>6 DEF LockThread, CannotEnter, Setns, ThrowThreadAway, Stages
  <2>2. UNCHANGED <<path, out, todo>> /\ DOMAIN note' = DOMAIN note
    BY <1>6 DEF LockThread, CannotEnter, Setns, ThrowThreadAway
  <2> QED
    BY <1>1, <1>3, <2>1, <2>2 DEF CallsTyped
<1>7. ASSUME NEW c \in DOMAIN kind, Describe(c) \/ Account(c) \/ Report(c)
      PROVE  CallsTyped'
  <2>1. Goes(c, "done") /\ UNCHANGED <<path, todo>> /\ DOMAIN note' = DOMAIN note
    BY <1>7 DEF Describe, Account, Report
  <2>2. PICK f : out' = [out EXCEPT ![c] = [p \in Pids |-> f[p]]]
    <3>1. CASE Describe(c)
      <4> DEFINE f == [p \in Pids |-> cgroupResources(path[c][p], note[c])]
      <4>1. out' = [out EXCEPT ![c] = f] /\ f = [p \in Pids |-> f[p]]
        BY <3>1 DEF Describe
      <4> QED
        BY <4>1
    <3>2. CASE Account(c)
      <4> DEFINE f == [p \in Pids |-> IF readProcessResources(p)
                                      THEN cgroupResources(path[c][p], note[c]) ELSE {}]
      <4>1. out' = [out EXCEPT ![c] = f] /\ f = [p \in Pids |-> f[p]]
        BY <3>2 DEF Account
      <4> QED
        BY <4>1
    <3>3. CASE Report(c)
      <4> DEFINE f == [p \in Pids |-> IF p \in DOMAIN readCgroups(c).paths THEN path[c][p] ELSE {}]
      <4>1. out' = [out EXCEPT ![c] = f] /\ f = [p \in Pids |-> f[p]]
        BY <3>3 DEF Report
      <4> QED
        BY <4>1
    <3> QED
      BY <1>7, <3>1, <3>2, <3>3
  <2>3. DOMAIN out' = DOMAIN kind /\ \A d \in DOMAIN kind : DOMAIN out'[d] = Pids
    BY <1>1, <2>2 DEF CallsTyped
  <2>4. \A d \in DOMAIN kind : pc'[d] \in Stages
    BY <1>1, <2>1 DEF Goes, CallsTyped, Stages
  <2> QED
    BY <1>1, <1>2, <2>1, <2>3, <2>4 DEF CallsTyped
<1>8. ASSUME NEW c \in DOMAIN kind, NEW p \in Pids, ReadPath(c, p)
      PROVE  CallsTyped'
  <2>1. PICK new : path' = [path EXCEPT ![c][p] = new] /\ (new = {} \/ \E s : new = {s})
    BY <1>8 DEF ReadPath
  <2>2. UNCHANGED <<pc, note, out>> /\ todo' = [todo EXCEPT ![c] = @ \ {p}]
    BY <1>8 DEF ReadPath
  <2>3. \A d \in DOMAIN kind : DOMAIN path'[d] = Pids /\ todo'[d] \subseteq Pids
    BY <1>1, <2>1, <2>2 DEF CallsTyped
  <2>4. \A d \in DOMAIN kind : \A q \in Pids : path'[d][q] = path[d][q] \/ path'[d][q] = new
    BY <1>1, <2>1 DEF CallsTyped
  <2>5. \A d \in DOMAIN kind : \A q \in Pids : path'[d][q] = {} \/ \E s : path'[d][q] = {s}
    <3>1. \A d \in DOMAIN kind : \A q \in Pids : path[d][q] = {} \/ \E s : path[d][q] = {s}
      BY <1>1 DEF CallsTyped
    <3>2. new = {} \/ \E s : new = {s}
      BY <2>1
    <3> SUFFICES ASSUME NEW d \in DOMAIN kind, NEW q \in Pids
                 PROVE  path'[d][q] = {} \/ \E s : path'[d][q] = {s}
      OBVIOUS
    <3>3. CASE path'[d][q] = new
      BY ONLY <3>2, <3>3
    <3>4. CASE path'[d][q] = path[d][q]
      <4>1. path[d][q] = {} \/ \E s : path[d][q] = {s}
        BY <3>1
      <4> QED
        BY ONLY <3>4, <4>1
    <3> QED
      BY <2>4, <3>3, <3>4
  <2>6. DOMAIN path' = DOMAIN kind /\ DOMAIN todo' = DOMAIN kind
    BY <1>1, <2>1, <2>2 DEF CallsTyped
  <2> QED
    BY <1>1, <1>2, <2>2, <2>3, <2>5, <2>6 DEF CallsTyped
<1>9. ASSUME NEW p \in Pids, Move(p)
      PROVE  CallsTyped'
  <2>1. UNCHANGED <<kind, pc, todo, path, note, out>>
    BY <1>9 DEF Move
  <2> QED
    BY <1>1, <2>1 DEF CallsTyped
<1> QED
  BY <1>4, <1>5, <1>6, <1>7, <1>8, <1>9 DEF ReadsNext, Step

LEMMA EnteringStep ==
  ASSUME HomeInv, ReadsTyped, Entering, ReadsNext
  PROVE  Entering'
<1>1. /\ DOMAIN ns = Threads /\ DOMAIN locked = Threads /\ DOMAIN pc = DOMAIN kind
      /\ DOMAIN note = DOMAIN kind /\ DOMAIN todo = DOMAIN kind
      /\ DOMAIN kind \subseteq Nat \ {0}
      /\ \A t \in Threads : \A c \in DOMAIN kind : locked[t] = c => pc[c] \in Holding
      /\ \A t, u \in Threads : locked[t] = locked[u] /\ locked[t] # Free => t = u
  BY DEF HomeInv, ReadsTyped, CallsTyped
<1>2. UNCHANGED <<setup, kind>>
  BY WorldStep
<1>3. \A c : Apart(c)' = Apart(c)
  BY <1>2 DEF Apart
<1>4. \A c \in DOMAIN kind : c # Free
  BY <1>1 DEF Free
(* A call goes on and no thread changes.                                    *)
<1>5. ASSUME NEW c \in DOMAIN kind, NEW to, Goes(c, to), UNCHANGED <<threads, note>>,
             to \in Holding => pc[c] \in Holding,
             to \in Holding \union {"spawn"} => Apart(c), to = "here" => ~Apart(c),
             to = "inside" => pc[c] = "inside",
             \A d \in DOMAIN kind : kind[d] = "sysctls" => todo'[d] = {}
      PROVE  Entering'
  <2>1. /\ pc' = [pc EXCEPT ![c] = to] /\ UNCHANGED <<ns, locked, note>>
    BY <1>5 DEF Goes, threads
  <2>2. \A d \in DOMAIN kind : pc'[d] = IF d = c THEN to ELSE pc[d]
    BY <1>1, <2>1
  <2>3. \A d \in DOMAIN kind : pc'[d] \in Holding => pc[d] \in Holding
    BY <1>5, <2>2
  <2> QED
    BY <1>2, <1>3, <1>5, <2>1, <2>2, <2>3 DEF Entering
<1>6. ASSUME NEW c \in DOMAIN kind, Begin(c)
      PROVE  Entering'
  <2>1. CASE Goes(c, "done") /\ UNCHANGED todo
    BY <1>1, <1>5, <1>6, <2>1 DEF Begin, Entering, Holding
  <2>2. CASE Goes(c, IF Apart(c) THEN "spawn" ELSE "here") /\ todo' = [todo EXCEPT ![c] = Asked(c)]
    <3>1. \A d \in DOMAIN kind : kind[d] = "sysctls" => todo'[d] = {}
      BY <1>1, <2>2, AskedOfPids DEF Entering
    <3> QED
      BY <1>5, <1>6, <2>2, <3>1 DEF Begin, Holding
  <2> QED
    BY <1>6, <2>1, <2>2 DEF Begin
<1>7. ASSUME NEW c \in DOMAIN kind, OpenNamespace(c)
      PROVE  Entering'
  <2>1. Apart(c)
    BY <1>7 DEF OpenNamespace, Entering, Holding
  <2> QED
    BY <1>5, <1>7, <2>1 DEF OpenNamespace, Entering, Holding
<1>8. ASSUME NEW c \in DOMAIN kind, ReadJIT(c) \/ PathsRead(c)
      PROVE  Entering'
  <2>1. pc[c] = "inside" \/ pc[c] = "here"
    BY <1>8 DEF ReadJIT, PathsRead, RunsOn
  <2>2. PICK to \in {"exit", "done", "paths"} : Goes(c, to) /\ (to = "exit" <=> pc[c] = "inside")
    BY <1>8, <2>1 DEF ReadJIT, PathsRead
  <2>3. to = "exit" => Apart(c) /\ pc[c] \in Holding
    BY <2>2 DEF Entering, Holding
  <2>4. UNCHANGED <<threads, note, todo>>
    BY <1>8 DEF ReadJIT, PathsRead
  <2> QED
    BY <1>5, <2>2, <2>3, <2>4 DEF Entering, Holding
<1>9. ASSUME NEW c \in DOMAIN kind, Describe(c) \/ Account(c)
      PROVE  Entering'
  BY <1>5, <1>9 DEF Describe, Account, Entering, Holding
<1>10. ASSUME NEW c \in DOMAIN kind, Report(c)
       PROVE  Entering'
  <2>1. /\ pc[c] = "paths" /\ pc' = [pc EXCEPT ![c] = "done"] /\ UNCHANGED <<ns, locked, todo>>
        /\ note' = [note EXCEPT ![c] = readCgroups(c).note]
    BY <1>10 DEF Report, Goes, threads
  <2>2. \A d \in DOMAIN kind : /\ pc'[d] = IF d = c THEN "done" ELSE pc[d]
                               /\ d # c => note'[d] = note[d]
    BY <1>1, <2>1
  <2> QED
    BY <1>2, <1>3, <2>1, <2>2 DEF Entering, Holding
<1>11. ASSUME NEW c \in DOMAIN kind, NEW t \in Threads, LockThread(c, t)
       PROVE  Entering'
  <2>1. /\ pc[c] = "spawn" /\ locked[t] = Free /\ locked' = [locked EXCEPT ![t] = c]
        /\ pc' = [pc EXCEPT ![c] = "open"] /\ UNCHANGED <<ns, note, todo>>
    BY <1>11 DEF LockThread, Goes, Unlocked
  <2>2. \A d \in DOMAIN kind : pc'[d] = IF d = c THEN "open" ELSE pc[d]
    BY <1>1, <2>1
  <2>3. \A u \in Threads : locked'[u] = IF u = t THEN c ELSE locked[u]
    BY <1>1, <2>1
  <2>4. \A d \in DOMAIN kind : pc'[d] \in Holding => \E u \in Threads : locked'[u] = d
    <3>1. ASSUME NEW d \in DOMAIN kind, d # c, pc[d] \in Holding
          PROVE  \E u \in Threads : locked'[u] = d
      <4>1. PICK u \in Threads : locked[u] = d
        BY <3>1 DEF Entering
      <4>2. u # t
        BY <1>4, <2>1, <4>1
      <4> QED
        BY <2>3, <4>1, <4>2
    <3> QED
      BY <2>2, <2>3, <3>1
  <2>5. \A d \in DOMAIN kind : \A u \in Threads : pc'[d] = "inside" /\ locked'[u] = d =>
            locked[u] = d /\ pc[d] = "inside"
    BY <2>2, <2>3
  <2> QED
    BY <1>2, <1>3, <2>1, <2>2, <2>4, <2>5 DEF Entering, Holding
(* A thread goes back, and its call has none.                               *)
<1>12. ASSUME NEW c \in DOMAIN kind, NEW t \in Threads, NEW to, locked[t] = c, Goes(c, to),
              to \notin Holding \union {"spawn"}, locked' = [locked EXCEPT ![t] = Free],
              UNCHANGED todo, \A u \in Threads : u # t => ns'[u] = ns[u],
              \A d \in DOMAIN kind : d # c => note'[d] = note[d],
              to = "here" => note'[c] = Unentered
       PROVE  Entering'
  <2>1. \A d \in DOMAIN kind : pc'[d] = IF d = c THEN to ELSE pc[d]
    BY <1>1, <1>12 DEF Goes
  <2>2. \A u \in Threads : locked'[u] = IF u = t THEN Free ELSE locked[u]
    BY <1>1, <1>12
  <2>3. \A d \in DOMAIN kind : pc'[d] \in Holding => \E u \in Threads : locked'[u] = d
    <3>1. ASSUME NEW d \in DOMAIN kind, d # c, pc[d] \in Holding
          PROVE  \E u \in Threads : locked'[u] = d
      <4>1. PICK u \in Threads : locked[u] = d
        BY <3>1 DEF Entering
      <4>2. u # t
        BY <1>12, <3>1, <4>1
      <4> QED
        BY <2>2, <4>1, <4>2
    <3> QED
      BY <1>12, <2>1, <3>1
  <2>4. \A d \in DOMAIN kind : \A u \in Threads : pc'[d] = "inside" /\ locked'[u] = d =>
            locked[u] = d /\ pc[d] = "inside" /\ ns'[u] = ns[u]
    <3>1. ASSUME NEW d \in DOMAIN kind, NEW u \in Threads, pc'[d] = "inside", locked'[u] = d
          PROVE  locked[u] = d /\ pc[d] = "inside" /\ ns'[u] = ns[u]
      <4>1. u # t
        BY <1>4, <2>2, <3>1
      <4>2. d # c
        BY <1>12, <2>1, <3>1 DEF Holding
      <4> QED
        BY <1>12, <2>1, <2>2, <3>1, <4>1, <4>2
    <3> QED
      BY <3>1
  <2>5. \A d \in DOMAIN kind : pc'[d] \in Holding \union {"spawn"} => Apart(d)
    BY <1>12, <2>1 DEF Entering
  <2>6. \A d \in DOMAIN kind : pc'[d] = "here" => ~Apart(d) \/ note'[d] = Unentered
    BY <1>12, <2>1 DEF Entering
  <2> QED
    BY <1>2, <1>3, <1>12, <2>3, <2>4, <2>5, <2>6 DEF Entering
<1>13. ASSUME NEW c \in DOMAIN kind, NEW t \in Threads, CannotEnter(c, t)
       PROVE  Entering'
  BY <1>1, <1>12, <1>13 DEF CannotEnter, Holding, Unentered
<1>14. ASSUME NEW c \in DOMAIN kind, NEW t \in Threads, ThrowThreadAway(c, t)
       PROVE  Entering'
  <2>1. PICK to \in {"done", "paths"} : Goes(c, to)
    BY <1>14 DEF ThrowThreadAway
  <2>2. /\ ns' = [ns EXCEPT ![t] = Home] /\ locked' = [locked EXCEPT ![t] = Free]
        /\ UNCHANGED <<note, todo>> /\ locked[t] = c
    BY <1>14 DEF ThrowThreadAway
  <2> QED
    BY <1>1, <1>12, <2>1, <2>2 DEF Holding
<1>15. ASSUME NEW c \in DOMAIN kind, NEW t \in Threads, Setns(c, t)
       PROVE  Entering'
  <2>1. /\ pc[c] = "setns" /\ locked[t] = c /\ pc' = [pc EXCEPT ![c] = "inside"]
        /\ UNCHANGED <<locked, note, todo>>
        /\ ns' = [ns EXCEPT ![t] = IF kind[c] = "sysctls" THEN [@ EXCEPT !.net = FALSE]
                                                          ELSE [@ EXCEPT !.cgroup = <<>>]]
    BY <1>15 DEF Setns, Goes
  <2>2. \A d \in DOMAIN kind : pc'[d] = IF d = c THEN "inside" ELSE pc[d]
    BY <1>1, <2>1
  <2>3. ns[t] = Home
    BY <2>1 DEF HomeInv
  <2>4. kind[c] # "sysctls" => ns'[t].cgroup = <<>>
    BY <1>1, <2>1, <2>3 DEF Home
  <2>5. \A u \in Threads : u # t => ns'[u] = ns[u] /\ locked[u] # c
    BY <1>1, <1>4, <2>1
  <2>6. \A d \in DOMAIN kind : \A u \in Threads :
          pc'[d] = "inside" /\ locked'[u] = d /\ kind[d] # "sysctls" => ns'[u].cgroup = <<>>
    BY <2>1, <2>2, <2>4, <2>5 DEF Entering
  <2>7. \A d \in DOMAIN kind : pc'[d] \in Holding => pc[d] \in Holding
    BY <2>1, <2>2 DEF Holding
  <2>8. Apart(c)
    BY <2>1 DEF Entering, Holding
  <2> QED
    BY <1>2, <1>3, <2>1, <2>2, <2>6, <2>7, <2>8 DEF Entering
<1>16. ASSUME NEW c \in DOMAIN kind, NEW p \in Pids, ReadPath(c, p)
       PROVE  Entering'
  <2>1. UNCHANGED <<pc, ns, locked, note>> /\ todo' = [todo EXCEPT ![c] = @ \ {p}]
    BY <1>16 DEF ReadPath, threads
  <2>2. \A d \in DOMAIN kind : todo[d] = {} => todo'[d] = {}
    BY <1>1, <2>1
  <2> QED
    BY <1>2, <1>3, <2>1, <2>2 DEF Entering
<1>17. ASSUME NEW p \in Pids, Move(p)
       PROVE  Entering'
  BY <1>2, <1>3, <1>17 DEF Move, Entering, threads
<1> QED
  BY <1>6, <1>7, <1>8, <1>9, <1>10, <1>11, <1>13, <1>14, <1>15, <1>16, <1>17 DEF ReadsNext, Step

LEMMA PathsStep ==
  ASSUME HomeInv, ReadsTyped, Entering, PathsAreTheirs, ReadsNext
  PROVE  PathsAreTheirs'
<1>1. /\ DOMAIN note = DOMAIN kind /\ DOMAIN path = DOMAIN kind
      /\ \A c \in DOMAIN kind : DOMAIN path[c] = Pids
  BY DEF ReadsTyped, CallsTyped
<1>2. UNCHANGED <<setup, kind>> /\ was \subseteq was'
  BY WorldStep
<1>3. \A c : Frame(c)' = Frame(c)
  BY <1>2 DEF Frame, Apart
<1>4. ASSUME UNCHANGED path, \A c \in DOMAIN kind : note'[c] # Unentered => note[c] # Unentered
      PROVE  PathsAreTheirs'
  BY ONLY PathsAreTheirs, <1>2, <1>3, <1>4 DEF PathsAreTheirs
<1>5. ASSUME NEW c \in DOMAIN kind, NEW p \in Pids, ReadPath(c, p)
      PROVE  PathsAreTheirs'
  <2>1. PICK t \in RunsOn(c) :
          path' = [path EXCEPT ![c][p] = IF in[p] = Gone THEN {} ELSE {Spell(ns[t].cgroup, in[p])}]
    BY <1>5 DEF ReadPath
  <2>2. UNCHANGED <<in, pc, note>> /\ p \in todo[c]
    BY <1>5 DEF ReadPath, world
  <2>3. ASSUME note[c] # Unentered
        PROVE  ns[t].cgroup = Frame(c)
    <3>1. kind[c] # "sysctls"
      BY <2>2 DEF Entering
    <3>2. CASE pc[c] = "inside"
      <4>1. t \in Threads /\ locked[t] = c /\ Apart(c)
        BY <2>1, <3>2 DEF RunsOn, Entering, Holding
      <4> QED
        BY <3>1, <3>2, <4>1 DEF Entering, Frame
    <3>3. CASE pc[c] = "here"
      <4>1. t \in Unlocked /\ ~Apart(c)
        BY <2>1, <2>3, <3>3 DEF RunsOn, Entering
      <4> QED
        BY <4>1 DEF HomeInv, PoolStaysHome, Home, Frame
    <3>4. CASE pc[c] \notin {"inside", "here"}
      BY <2>1, <3>4 DEF RunsOn
    <3> QED
      BY <3>2, <3>3, <3>4
  <2>4. in[p] # Gone => in[p] \in Cgroups /\ <<p, in[p]>> \in was
    BY DEF ReadsTyped, WorldTyped
  <2>5. ASSUME NEW d \in DOMAIN kind, note[d] # Unentered, NEW q \in Pids, NEW s \in path'[d][q]
        PROVE  \E cgr \in Cgroups : <<q, cgr>> \in was /\ s = Spell(Frame(d), cgr)
    <3>1. CASE d = c /\ q = p
      <4>1. path'[d][q] = IF in[p] = Gone THEN {} ELSE {Spell(ns[t].cgroup, in[p])}
        BY <1>1, <2>1, <3>1
      <4>2. in[p] # Gone /\ s = Spell(Frame(c), in[p])
        BY <2>3, <2>5, <3>1, <4>1
      <4> QED
        BY <2>4, <3>1, <4>2
    <3>2. CASE ~(d = c /\ q = p)
      <4>1. path'[d][q] = path[d][q]
        BY <1>1, <2>1, <3>2
      <4>2. s \in path[d][q]
        BY <2>5, <4>1
      <4> QED
        BY <2>5, <4>2 DEF PathsAreTheirs
    <3> QED
      BY <3>1, <3>2
  <2> QED
    BY <1>2, <1>3, <2>2, <2>5 DEF PathsAreTheirs
<1>6. ASSUME NEW c \in DOMAIN kind, NEW t \in Threads, CannotEnter(c, t)
      PROVE  PathsAreTheirs'
  BY <1>1, <1>4, <1>6 DEF CannotEnter, Unentered
<1>7. ASSUME NEW c \in DOMAIN kind, Report(c)
      PROVE  PathsAreTheirs'
  <2>1. path' = path /\ note' = [note EXCEPT ![c] = readCgroups(c).note]
    BY <1>7 DEF Report
  <2>2. readCgroups(c).note # Unentered => note[c] # Unentered
    BY DEF readCgroups, Unentered
  <2> QED
    BY <1>1, <1>4, <2>1, <2>2
<1>8. ASSUME NEW c \in DOMAIN kind, NEW t \in Threads,
             LockThread(c, t) \/ Setns(c, t) \/ ThrowThreadAway(c, t)
      PROVE  PathsAreTheirs'
  BY <1>4, <1>8 DEF LockThread, Setns, ThrowThreadAway
<1>9. ASSUME NEW c \in DOMAIN kind, Begin(c) \/ OpenNamespace(c) \/ ReadJIT(c) \/ PathsRead(c)
                                    \/ Describe(c) \/ Account(c)
      PROVE  PathsAreTheirs'
  BY <1>4, <1>9 DEF Begin, OpenNamespace, ReadJIT, PathsRead, Describe, Account
<1>10. ASSUME NEW p \in Pids, Move(p)
       PROVE  PathsAreTheirs'
  BY <1>4, <1>10 DEF Move
<1> QED
  BY <1>5, <1>6, <1>7, <1>8, <1>9, <1>10 DEF ReadsNext, Step

(* A path that carries no note, joined to the mount, is the cgroup that the  *)
(* process was in, whichever side it was spelled from.                      *)
LEMMA JoinedIsIts ==
  ASSUME ReadsTyped, PathsAreTheirs, NEW c \in DOMAIN kind,
         kind[c] \in {"process", "resources"},
         NEW p \in Pids, NEW cgr \in cgroupResources(path[c][p], note[c])
  PROVE  <<p, cgr>> \in was
<1>1. note[c] = ""
  BY DEF cgroupResources
<1>2. PICK base \in cgroupV2Root, s \in path[c][p] : ~Climbs(s) /\ cgr = base \o s
  BY DEF cgroupResources
<1>3. PICK own \in Cgroups : <<p, own>> \in was /\ s = Spell(Frame(c), own)
  BY <1>1 DEF PathsAreTheirs, Unentered
<1>4. /\ own \in Seq(STRING) /\ setup.ns \in Seq(STRING) /\ <<>> \in Seq(STRING)
      /\ setup \in Setups /\ setup.mounts.init \subseteq {<<>>} /\ setup.mounts.self \subseteq {setup.ns}
  BY ReadsAssumption, EmptySeq DEF ReadsTyped, WorldTyped
<1>5. base = <<>> \/ base = setup.ns
  BY <1>2, <1>4 DEF cgroupV2Root
<1>6. base = Frame(c)
  <2>1. CASE Apart(c)
    <3>1. setup.sees /\ setup.ns # <<>>
      BY <2>1 DEF Apart
    <3>2. setup.mounts.init # {}
      BY <1>2, <1>4, <3>1, OneHierarchy DEF cgroupV2Root
    <3> QED
      BY <1>2, <1>4, <2>1, <3>1, <3>2 DEF cgroupV2Root, Frame
  <2>2. CASE ~Apart(c)
    <3>1. ~setup.sees \/ setup.ns = <<>>
      BY <2>2 DEF Apart
    <3> QED
      BY <1>2, <1>4, <1>5, <2>2, <3>1 DEF cgroupV2Root, Frame
  <2> QED
    BY <2>1, <2>2
<1>7. base \o s = own
  BY <1>2, <1>3, <1>4, <1>5, <1>6, SpellUnder
<1> QED
  BY <1>2, <1>3, <1>7

LEMMA ShownStep ==
  ASSUME HomeInv, ReadsTyped, PathsAreTheirs, ResourcesAreItsOwn, DisplacedIsTold, ReadsNext
  PROVE  ResourcesAreItsOwn' /\ DisplacedIsTold'
<1>1. /\ DOMAIN pc = DOMAIN kind /\ DOMAIN note = DOMAIN kind /\ DOMAIN out = DOMAIN kind
  BY DEF HomeInv, ReadsTyped, CallsTyped
<1>2. UNCHANGED <<setup, kind>> /\ was \subseteq was'
  BY WorldStep
<1>3. ASSUME NEW c \in DOMAIN kind, UNCHANGED out,
             \A d \in DOMAIN kind : d # c => pc'[d] = pc[d] /\ note'[d] = note[d],
             kind[c] # "node" \/ pc'[c] # "done"
      PROVE  ResourcesAreItsOwn' /\ DisplacedIsTold'
  <2>1. \A d \in DOMAIN kind : kind[d] = "node" /\ pc'[d] = "done" => d # c
    BY <1>3
  <2> QED
    BY ONLY ResourcesAreItsOwn, DisplacedIsTold, <1>2, <1>3, <2>1 DEF ResourcesAreItsOwn, DisplacedIsTold
<1>4. ASSUME NEW c \in DOMAIN kind, Begin(c) \/ OpenNamespace(c) \/ ReadJIT(c) \/ PathsRead(c)
      PROVE  ResourcesAreItsOwn' /\ DisplacedIsTold'
  <2>1. UNCHANGED <<out, note>> /\ \E to : Goes(c, to) /\ (kind[c] = "node" => to # "done")
    <3>1. CASE Begin(c)
      BY <3>1 DEF Begin
    <3>2. CASE OpenNamespace(c)
      <4>1. UNCHANGED <<out, note>> /\ Goes(c, "setns") /\ "setns" # "done"
        BY <3>2 DEF OpenNamespace
      <4> QED
        BY ONLY <4>1
    <3>3. CASE ReadJIT(c)
      BY <3>3 DEF ReadJIT
    <3>4. CASE PathsRead(c)
      BY <3>4 DEF PathsRead
    <3> QED
      BY <1>4, <3>1, <3>2, <3>3, <3>4
  <2> QED
    BY <1>1, <1>3, <2>1 DEF Goes
<1>5. ASSUME NEW c \in DOMAIN kind, NEW t \in Threads,
             LockThread(c, t) \/ CannotEnter(c, t) \/ Setns(c, t) \/ ThrowThreadAway(c, t)
      PROVE  ResourcesAreItsOwn' /\ DisplacedIsTold'
  <2>1. PICK to : UNCHANGED out /\ Goes(c, to) /\ (kind[c] = "node" => to # "done")
    <3>1. LockThread(c, t) => UNCHANGED out /\ Goes(c, "open")
      BY DEF LockThread
    <3>2. CannotEnter(c, t) => UNCHANGED out /\ Goes(c, "here")
      BY DEF CannotEnter
    <3>3. Setns(c, t) => UNCHANGED out /\ Goes(c, "inside")
      BY DEF Setns
    <3>4. ThrowThreadAway(c, t) =>
            UNCHANGED out /\ (Goes(c, "paths") \/ (Goes(c, "done") /\ kind[c] # "node"))
      BY DEF ThrowThreadAway
    <3>5. "open" # "done" /\ "here" # "done" /\ "inside" # "done" /\ "paths" # "done"
      OBVIOUS
    <3> QED
      BY ONLY <1>5, <3>1, <3>2, <3>3, <3>4, <3>5
  <2>2. UNCHANGED note \/ note' = [note EXCEPT ![c] = Unentered]
    BY <1>5 DEF LockThread, CannotEnter, Setns, ThrowThreadAway, Unentered
  <2> QED
    BY <1>1, <1>3, <2>1, <2>2 DEF Goes
<1>6. ASSUME NEW c \in DOMAIN kind, Describe(c) \/ Account(c)
      PROVE  ResourcesAreItsOwn' /\ DisplacedIsTold'
  <2>1. Goes(c, "done") /\ kind[c] \in {"process", "resources"} /\ UNCHANGED <<note, was>>
    BY <1>6 DEF Describe, Account, world
  <2>2. \A p \in Pids : out'[c][p] \subseteq cgroupResources(path[c][p], note[c])
    BY <1>1, <1>6 DEF Describe, Account
  <2>3. \A d \in DOMAIN kind : d # c => out'[d] = out[d] /\ pc'[d] = pc[d]
    BY <1>1, <1>6, <2>1 DEF Describe, Account, Goes
  <2>4. \A p \in Pids : \A cgr \in out'[c][p] : <<p, cgr>> \in was
    BY <2>1, <2>2, JoinedIsIts
  <2> QED
    BY ONLY ResourcesAreItsOwn, DisplacedIsTold, <1>2, <2>1, <2>3, <2>4
       DEF ResourcesAreItsOwn, DisplacedIsTold
<1>7. ASSUME NEW c \in DOMAIN kind, Report(c)
      PROVE  ResourcesAreItsOwn' /\ DisplacedIsTold'
  <2>1. /\ kind[c] = "node" /\ Goes(c, "done") /\ UNCHANGED was
        /\ note' = [note EXCEPT ![c] = readCgroups(c).note]
        /\ out' = [out EXCEPT ![c] = [p \in Pids |-> IF p \in DOMAIN readCgroups(c).paths
                                                     THEN path[c][p] ELSE {}]]
    BY <1>7 DEF Report, world
  <2>2. \A p \in Pids : out'[c][p] \subseteq path[c][p]
    BY <1>1, <2>1
  <2>3. note'[c] = "" => note[c] = ""
    <3>1. readCgroups(c).note = "" => note[c] = ""
      BY DEF readCgroups
    <3> QED
      BY <1>1, <2>1, <3>1
  <2>4. \A d \in DOMAIN kind : d # c => out'[d] = out[d] /\ pc'[d] = pc[d] /\ note'[d] = note[d]
    BY <1>1, <2>1 DEF Goes
  <2>5. ASSUME note'[c] = "", setup.sees \/ setup.ns = <<>>, NEW p \in Pids, NEW s \in out'[c][p]
        PROVE  <<p, s>> \in was
    <3>1. note[c] # Unentered /\ s \in path[c][p]
      BY <2>2, <2>3, <2>5 DEF Unentered
    <3>2. PICK own \in Cgroups : <<p, own>> \in was /\ s = Spell(Frame(c), own)
      BY <3>1 DEF PathsAreTheirs
    <3>3. Frame(c) = <<>>
      BY <2>1, <2>5 DEF Frame, Apart
    <3>4. own \in Seq(STRING)
      BY ReadsAssumption
    <3> QED
      BY <3>2, <3>3, <3>4, SpellFromRoot
  <2>6. ResourcesAreItsOwn'
    BY ONLY ResourcesAreItsOwn, <1>2, <2>1, <2>4 DEF ResourcesAreItsOwn
  <2>7. DisplacedIsTold'
    <3>1. ASSUME NEW d \in DOMAIN kind, kind[d] = "node", pc'[d] = "done", note'[d] = "",
                 setup.sees \/ setup.ns = <<>>, NEW p \in Pids, NEW t \in out'[d][p]
          PROVE  <<p, t>> \in was
      <4>1. CASE d = c
        BY <2>5, <3>1, <4>1
      <4>2. CASE d # c
        <5>1. out'[d] = out[d] /\ pc'[d] = pc[d] /\ note'[d] = note[d]
          BY <2>4, <4>2
        <5> QED
          BY <3>1, <5>1 DEF DisplacedIsTold
      <4> QED
        BY <4>1, <4>2
    <3>2. setup' = setup /\ kind' = kind /\ was' = was
      BY <1>2, <2>1
    <3> QED
      BY ONLY <3>1, <3>2, Zenon DEF DisplacedIsTold
  <2> QED
    BY <2>6, <2>7
<1>8. ASSUME UNCHANGED <<out, pc, note>>
      PROVE  ResourcesAreItsOwn' /\ DisplacedIsTold'
  BY ONLY ResourcesAreItsOwn, DisplacedIsTold, <1>2, <1>8 DEF ResourcesAreItsOwn, DisplacedIsTold
<1>9. (\E c \in DOMAIN kind, p \in Pids : ReadPath(c, p)) \/ (\E p \in Pids : Move(p))
        => UNCHANGED <<out, pc, note>>
  BY DEF ReadPath, Move
<1> QED
  BY <1>4, <1>5, <1>6, <1>7, <1>8, <1>9 DEF ReadsNext, Step

LEMMA JitStep ==
  ASSUME HomeInv, ReadsTyped, Entering, JitInv, ReadsNext
  PROVE  JitInv'
<1>1. /\ DOMAIN ns = Threads /\ DOMAIN locked = Threads /\ DOMAIN pc = DOMAIN kind
      /\ DOMAIN note = DOMAIN kind /\ DOMAIN jit = DOMAIN kind
      /\ \A t, u \in Threads : locked[t] = locked[u] /\ locked[t] # Free => t = u
      /\ \A c \in DOMAIN kind : c # Free
  BY DEF HomeInv, ReadsTyped, CallsTyped, JitInv, Free
<1>2. UNCHANGED <<setup, kind>>
  BY WorldStep
(* A call goes on, nothing is read, and no thread moves that is inside.      *)
<1>3. ASSUME NEW c \in DOMAIN kind, NEW to, Goes(c, to), UNCHANGED jit,
             to # "inside", kind[c] = "sysctls" /\ to \in {"exit", "done"} => pc[c] = "exit" /\ note'[c] = note[c],
             \A d \in DOMAIN kind : d # c => note'[d] = note[d],
             \A t \in Threads : \A d \in DOMAIN kind :
                d # c /\ locked'[t] = d => locked[t] = d /\ ns'[t] = ns[t]
      PROVE  JitInv'
  <2>1. \A d \in DOMAIN kind : pc'[d] = IF d = c THEN to ELSE pc[d]
    BY <1>1, <1>3 DEF Goes
  <2>2. \A d \in DOMAIN kind : \A t \in Threads :
          pc'[d] = "inside" /\ locked'[t] = d /\ kind[d] = "sysctls" => ~ns'[t].net
    BY <1>3, <2>1 DEF JitInv
  <2>3. \A d \in DOMAIN kind : kind[d] = "sysctls" /\ pc'[d] \in {"exit", "done"} => ToldOrNodes(d)'
    BY <1>2, <1>3, <2>1 DEF JitInv, ToldOrNodes
  <2> QED
    BY <1>1, <1>2, <1>3, <2>2, <2>3 DEF JitInv
<1>4. ASSUME NEW c \in DOMAIN kind,
             Begin(c) \/ OpenNamespace(c) \/ PathsRead(c) \/ Describe(c) \/ Account(c) \/ Report(c)
      PROVE  JitInv'
  <2>1. PICK to \in {"done", "spawn", "here", "setns", "exit", "paths"} :
           Goes(c, to) /\ (to \in {"exit", "done"} => kind[c] # "sysctls")
    BY <1>4 DEF Begin, OpenNamespace, PathsRead, Describe, Account, Report
  <2>2. UNCHANGED <<threads, jit>> /\ \A d \in DOMAIN kind : d # c => note'[d] = note[d]
    BY <1>1, <1>4 DEF Begin, OpenNamespace, PathsRead, Describe, Account, Report
  <2> QED
    BY <1>3, <2>1, <2>2 DEF threads
<1>5. ASSUME NEW c \in DOMAIN kind, NEW t \in Threads, LockThread(c, t)
      PROVE  JitInv'
  <2>1. Goes(c, "open") /\ UNCHANGED <<jit, note, ns>> /\ locked' = [locked EXCEPT ![t] = c]
    BY <1>5 DEF LockThread
  <2> QED
    BY <1>1, <1>3, <2>1
<1>6. ASSUME NEW c \in DOMAIN kind, NEW t \in Threads, CannotEnter(c, t)
      PROVE  JitInv'
  <2>1. /\ Goes(c, "here") /\ UNCHANGED <<jit, ns>> /\ locked' = [locked EXCEPT ![t] = Free]
        /\ \A d \in DOMAIN kind : d # c => note'[d] = note[d]
    BY <1>1, <1>6 DEF CannotEnter
  <2> QED
    BY <1>1, <1>3, <2>1
<1>7. ASSUME NEW c \in DOMAIN kind, NEW t \in Threads, ThrowThreadAway(c, t)
      PROVE  JitInv'
  <2>1. /\ pc[c] = "exit" /\ locked[t] = c /\ UNCHANGED <<jit, note>>
        /\ ns' = [ns EXCEPT ![t] = Home] /\ locked' = [locked EXCEPT ![t] = Free]
    BY <1>7 DEF ThrowThreadAway
  <2>2. PICK to \in {"done", "paths"} : Goes(c, to)
    BY <1>7 DEF ThrowThreadAway
  <2>3. \A u \in Threads : \A d \in DOMAIN kind :
           d # c /\ locked'[u] = d => locked[u] = d /\ ns'[u] = ns[u]
    BY <1>1, <2>1
  <2> QED
    BY <1>3, <2>1, <2>2, <2>3
<1>8. ASSUME NEW c \in DOMAIN kind, NEW t \in Threads, Setns(c, t)
      PROVE  JitInv'
  <2>1. /\ pc[c] = "setns" /\ locked[t] = c /\ pc' = [pc EXCEPT ![c] = "inside"]
        /\ UNCHANGED <<locked, note, jit>>
        /\ ns' = [ns EXCEPT ![t] = IF kind[c] = "sysctls" THEN [@ EXCEPT !.net = FALSE]
                                                          ELSE [@ EXCEPT !.cgroup = <<>>]]
    BY <1>8 DEF Setns, Goes
  <2>2. ns[t] = Home
    BY <2>1 DEF HomeInv
  <2>3. kind[c] = "sysctls" => ~ns'[t].net
    BY <1>1, <2>1, <2>2 DEF Home
  <2>4. \A u \in Threads : u # t => ns'[u] = ns[u] /\ locked[u] # c
    BY <1>1, <2>1
  <2>5. \A d \in DOMAIN kind : pc'[d] = IF d = c THEN "inside" ELSE pc[d]
    BY <1>1, <2>1
  <2>6. \A d \in DOMAIN kind : \A u \in Threads :
          pc'[d] = "inside" /\ locked'[u] = d /\ kind[d] = "sysctls" => ~ns'[u].net
    BY <2>1, <2>3, <2>4, <2>5 DEF JitInv
  <2>7. \A d \in DOMAIN kind : kind[d] = "sysctls" /\ pc'[d] \in {"exit", "done"} => ToldOrNodes(d)'
    <3>1. \A d \in DOMAIN kind : ToldOrNodes(d)' = ToldOrNodes(d)
      BY <1>2, <2>1 DEF ToldOrNodes
    <3>2. \A d \in DOMAIN kind : pc'[d] \in {"exit", "done"} => pc[d] = pc'[d]
      BY <2>5
    <3> QED
      BY <1>2, <3>1, <3>2 DEF JitInv
  <2> QED
    BY <1>1, <1>2, <2>1, <2>6, <2>7 DEF JitInv
<1>9. ASSUME NEW c \in DOMAIN kind, ReadJIT(c)
      PROVE  JitInv'
  <2>1. /\ kind[c] = "sysctls" /\ UNCHANGED <<ns, locked, note>>
        /\ \/ pc[c] = "inside" /\ pc' = [pc EXCEPT ![c] = "exit"]
           \/ pc[c] = "here" /\ pc' = [pc EXCEPT ![c] = "done"]
    BY <1>9 DEF ReadJIT, RunsOn, Goes, threads
  <2>2. PICK t \in RunsOn(c) : jit' = [jit EXCEPT ![c] = ~ns[t].net]
    BY <1>9 DEF ReadJIT
  <2>3. ToldOrNodes(c)'
    <3>1. jit'[c] = ~ns[t].net
      BY <1>1, <2>2
    <3>2. CASE pc[c] = "inside"
      <4>1. t \in Threads /\ locked[t] = c
        BY <3>2 DEF RunsOn
      <4> QED
        BY <2>1, <3>1, <3>2, <4>1 DEF JitInv, ToldOrNodes
    <3>3. CASE pc[c] = "here"
      <4>1. ns[t] = Home
        BY <3>3 DEF RunsOn, HomeInv, PoolStaysHome
      <4>2. ~Apart(c) \/ note[c] # ""
        BY <3>3 DEF Entering, Unentered
      <4>3. note[c] = "" /\ (setup.sees \/ ~setup.netns) => ~setup.netns
        BY <2>1, <4>2 DEF Apart
      <4>4. ns[t].net = setup.netns
        BY <4>1 DEF Home
      <4>5. note' = note /\ setup' = setup
        BY <1>2, <2>1
      <4> QED
        BY <3>1, <4>3, <4>4, <4>5, Zenon DEF ToldOrNodes
    <3> QED
      BY <2>1, <3>2, <3>3
  <2>4. \A d \in DOMAIN kind : d # c => pc'[d] = pc[d] /\ jit'[d] = jit[d]
    BY <1>1, <2>1, <2>2
  <2>5. pc'[c] # "inside" /\ DOMAIN jit' = DOMAIN kind
    BY <1>1, <2>1, <2>2
  <2>6. \A d \in DOMAIN kind : d # c => (ToldOrNodes(d) => ToldOrNodes(d)')
    BY <1>2, <2>1, <2>4 DEF ToldOrNodes
  <2> QED
    BY <1>2, <2>1, <2>3, <2>4, <2>5, <2>6 DEF JitInv
<1>10. ASSUME NEW p \in Pids, Move(p) \/ \E c \in DOMAIN kind : ReadPath(c, p)
       PROVE  JitInv'
  <2>1. UNCHANGED <<ns, locked, pc, note, jit>>
    BY <1>10 DEF Move, ReadPath, threads
  <2> QED
    BY <1>2, <2>1 DEF JitInv, ToldOrNodes
<1> QED
  BY <1>4, <1>5, <1>6, <1>7, <1>8, <1>9, <1>10 DEF ReadsNext, Step

(* ReadsAreTrue holds of every reachable state: what is shown of a process  *)
(* is a cgroup's that it was in, and a path without a note is the node's,   *)
(* whichever calls and moves of processes come between (cgroup.go:37-166,   *)
(* cgroupid.go:16-58, resources.go:52-195).                                 *)
THEOREM ReadsAlwaysTrue == ReadsSpec => []ReadsAreTrue
<1>1. ReadsInit => ReadsInv
  BY ReadsInitial
<1>2. ReadsInv /\ [ReadsNext]_readsVars => ReadsInv'
  <2> SUFFICES ASSUME ReadsInv, [ReadsNext]_readsVars PROVE ReadsInv'
    OBVIOUS
  <2>1. CASE ReadsNext
    <3>1. HomeInv' /\ ReadsTyped' /\ Entering'
      BY <2>1, HomeStep, WorldTypedStep, CallsTypedStep, EnteringStep DEF ReadsInv, ReadsTyped
    <3>2. PathsAreTheirs' /\ ResourcesAreItsOwn' /\ DisplacedIsTold'
      BY <2>1, PathsStep, ShownStep DEF ReadsInv
    <3>3. JitInv'
      BY <2>1, JitStep DEF ReadsInv
    <3> QED
      BY <3>1, <3>2, <3>3 DEF ReadsInv
  <2>2. CASE UNCHANGED readsVars
    <3>1. UNCHANGED <<setup, kind, in, moves, was, ns, locked, pc, todo, path, note, out>>
      BY <2>2 DEF readsVars, world, threads
    <3>2. HomeInv'
      BY <2>2, HomeStep DEF ReadsInv
    <3>3. ReadsTyped'
      <4>1. WorldTyped'
        BY <3>1 DEF ReadsInv, ReadsTyped, WorldTyped
      <4>2. CallsTyped /\ (CallsTyped => CallsTyped')
        BY <3>1 DEF ReadsInv, ReadsTyped, CallsTyped
      <4> QED
        BY <4>1, <4>2 DEF ReadsTyped
    <3>4. \A c : Apart(c)' = Apart(c) /\ Frame(c)' = Frame(c)
      BY <3>1 DEF Apart, Frame
    <3>5. Entering'
      BY <3>1, <3>4 DEF ReadsInv, Entering
    <3>6. PathsAreTheirs'
      BY <3>1, <3>4 DEF ReadsInv, PathsAreTheirs
    <3>7. ResourcesAreItsOwn' /\ DisplacedIsTold'
      BY <3>1 DEF ReadsInv, ResourcesAreItsOwn, DisplacedIsTold
    <3>8. JitInv'
      <4>1. UNCHANGED jit
        BY <2>2 DEF readsVars
      <4> QED
        BY <3>1, <4>1 DEF ReadsInv, JitInv, ToldOrNodes
    <3> QED
      BY <3>2, <3>3, <3>5, <3>6, <3>7, <3>8 DEF ReadsInv
  <2> QED
    BY <2>1, <2>2
<1>3. ReadsInv => ReadsAreTrue
  <2> SUFFICES ASSUME ReadsInv PROVE ReadsTypeOK
    BY DEF ReadsAreTrue, ReadsInv, JitInv, ToldOrNodes, SysctlsAreTheNodes
  <2>1. \A c \in DOMAIN kind : \A p \in Pids : Cardinality(path[c][p]) <= 1
    <3> SUFFICES ASSUME NEW c \in DOMAIN kind, NEW p \in Pids PROVE Cardinality(path[c][p]) <= 1
      OBVIOUS
    <3>1. path[c][p] = {} \/ \E s : path[c][p] = {s}
      BY DEF ReadsInv, ReadsTyped, CallsTyped
    <3>2. CASE path[c][p] = {}
      BY <3>2, FS_EmptySet
    <3>3. ASSUME NEW s, path[c][p] = {s}
          PROVE  Cardinality(path[c][p]) <= 1
      <4>1. Cardinality({s}) = 1
        BY FS_Singleton
      <4> QED
        BY <3>3, <4>1
    <3> QED
      BY <3>1, <3>2, <3>3
  <2>2. \A c \in DOMAIN kind :
          pc[c] \in {"start", "spawn", "here", "paths", "done"} <=> \A t \in Threads : locked[t] # c
    BY DEF ReadsInv, ReadsTyped, CallsTyped, HomeInv, Entering, Stages, Holding
  <2>3. locked \in [Threads -> {Free} \union DOMAIN kind]
    BY DEF ReadsInv, HomeInv
  <2> QED
    BY <2>1, <2>2, <2>3 DEF ReadsInv, ReadsTyped, WorldTyped, CallsTyped, HomeInv, ReadsTypeOK, Stages
<1> QED
  BY <1>1, <1>2, <1>3, PTL DEF ReadsSpec

-----------------------------------------------------------------------------
(* The tree of cgroups.                                                      *)

(* Of the node: a cgroup that is there has those above it, and only a type  *)
(* the kernel has has programs.  Of the histories: they have what is so now. *)
NodeInv ==
    /\ there \subseteq made /\ made \subseteq Tree
    /\ attached \in [Keys -> SUBSET ProgIds] /\ aflags \in [Keys -> Flags]
    /\ \A d \in there : \A n \in 0..Len(d) : SubSeq(d, 1, n) \in there
    /\ \A k \in Keys : attached[k] # {} => k[2] \in Known
    /\ changed \in 0..MaxAttach /\ root \in Roots
    /\ steady \subseteq AppliesIn(attached, there)
    /\ \A x \in AppliesIn(attached, there) :
          <<x[1], x[2], x[3], FlagsOf(<<x[1], x[2]>>)>> \in applied
    /\ \A i \in ProgIds : <<i, name[i]>> \in named
    /\ \A d \in named : d = <<d[1], d[2]>>

(* The variables of the call, each as its phase has them.                   *)
CallInv ==
    /\ phase \in {"start", "walk", "query", "describe", "done", "failed"}
    /\ list \in Seq(Tree) /\ types \in Seq(Range(Types)) /\ cg \in Tree
    /\ visited \in 0..(Limit + 1) /\ (list # <<>> => visited <= Limit)
    /\ phase \in {"start", "failed"} => tree = {}
    /\ phase \in {"start", "done"} => list = <<>>
    /\ phase = "start" => visited = 0
    /\ phase \notin {"start", "failed"} => \E r \in Tree : root = {r}
    /\ phase # "describe" => ids = {}
    /\ phase = "describe" => types # <<>>
    /\ phase \in {"query", "describe"} => list # <<>> /\ list[1] = cg
    /\ phase \in {"start", "walk"} => cur = {}

(* What is on its way to the tree is as true as what is in it.              *)
RowsInv ==
    /\ RowsWereTrue
    /\ known \subseteq named /\ \A d, o \in known : d[1] = o[1] => d = o
    /\ \A p \in ids : p.id \in ProgIds /\ <<cg, Head(types), p.id, p.flags>> \in applied
    /\ phase \in {"query", "describe"} =>
          \A p \in cur : <<cg, p.type, p.id, p.flags>> \in applied /\ <<p.id, p.as>> \in named

(* No cgroup is met twice: what is listed, the one being asked first, does   *)
(* not hang under what is listed, and neither does what is in the tree.      *)
OnceInv ==
    /\ \A i, j \in DOMAIN list : i # j => ~ IsPrefix(list[i], list[j])
    /\ \A i \in DOMAIN list : \A c \in tree : ~ IsPrefix(list[i], c.path)
    /\ \A c \in tree : c.path \in Tree
    /\ \A c, o \in tree : c.path = o.path => c = o

(* None is lost: what has applied all along is under what is listed, or being *)
(* asked for, or given.                                                      *)
ToVisit(x) ==
    /\ \E i \in DOMAIN list : IsPrefix(list[i], x[1])
    /\ phase \in {"query", "describe"} => x[1] # cg
BeingAsked(x) ==
    /\ phase \in {"query", "describe"} /\ x[1] = cg
    /\ \/ \E i \in DOMAIN types : types[i] = x[2] /\ (phase = "describe" => i # 1)
       \/ \E p \in ids : p.id = x[3] /\ Head(types) = x[2]
       \/ \E p \in cur : p.type = x[2] /\ p.id = x[3]
Given(x) == \E c \in tree : c.path = x[1] /\ \E p \in c.progs : p.type = x[2] /\ p.id = x[3]
WholeInv ==
    phase \notin {"start", "failed"} /\ visited <= Limit =>
        \A r \in root : \A x \in steady : IsPrefix(r, x[1]) => ToVisit(x) \/ BeingAsked(x) \/ Given(x)

TreeInv == NodeInv /\ CallInv /\ RowsInv /\ OnceInv /\ WholeInv

(* One path is under another if it goes on from it, name by name.            *)
LEMMA UnderIs ==
  ASSUME NEW s \in Seq(Nat), NEW t \in Seq(Nat)
  PROVE  IsPrefix(s, t) <=> Len(s) <= Len(t) /\ \A n \in 1..Len(s) : s[n] = t[n]
<1>1. Len(s) \in Nat /\ Len(t) \in Nat
  BY LenProperties
<1>2. SubSeq(s, 1, Len(s)) = s
  BY SubSeqFull
<1>3. CASE Len(s) <= Len(t)
  <2>1. SubSeq(t, 1, Len(s)) \in Seq(Nat) /\ Len(SubSeq(t, 1, Len(s))) = Len(s)
    BY <1>1, <1>3, SubSeqProperties
  <2>2. \A n \in 1..Len(s) : SubSeq(t, 1, Len(s))[n] = t[n]
    BY <1>1, <1>3, SubSeqProperties
  <2>3. s = SubSeq(t, 1, Len(s)) <=> \A n \in 1..Len(s) : s[n] = t[n]
    BY <2>1, <2>2, SeqEqual
  <2> QED
    BY <1>2, <1>3, <2>3 DEF IsPrefix
<1> QED
  BY <1>3 DEF IsPrefix

LEMMA UnderItself ==
  ASSUME NEW s \in Seq(Nat)
  PROVE  IsPrefix(s, s)
BY UnderIs, LenProperties

LEMMA UnderBoth ==
  ASSUME NEW s \in Seq(Nat), NEW t \in Seq(Nat), NEW u \in Seq(Nat),
         IsPrefix(s, t), IsPrefix(t, u)
  PROVE  IsPrefix(s, u)
BY UnderIs, LenProperties

(* Two that one path is under, are under one another.                        *)
LEMMA UnderShorter ==
  ASSUME NEW s \in Seq(Nat), NEW t \in Seq(Nat), NEW u \in Seq(Nat),
         IsPrefix(s, u), IsPrefix(t, u), Len(s) <= Len(t)
  PROVE  IsPrefix(s, t)
BY UnderIs, LenProperties

LEMMA UnderSame ==
  ASSUME NEW s \in Seq(Nat), NEW t \in Seq(Nat), IsPrefix(s, t), Len(t) <= Len(s)
  PROVE  s = t
<1>1. Len(s) = Len(t) /\ \A n \in 1..Len(s) : s[n] = t[n]
  BY UnderIs, LenProperties
<1> QED
  BY <1>1, SeqEqual

LEMMA FirstOfIt ==
  ASSUME NEW s \in Seq(Nat), NEW n \in 0..Len(s)
  PROVE  /\ SubSeq(s, 1, n) \in Seq(Nat) /\ Len(SubSeq(s, 1, n)) = n
         /\ \A i \in 1..n : SubSeq(s, 1, n)[i] = s[i]
<1>1. \A i \in 1..n : s[i] \in Nat
  BY LenProperties, ElementOfSeq
<1> QED
  BY <1>1, SubSeqProperties, LenProperties

(* The cgroup above one.                                                     *)
LEMMA AboveIt ==
  ASSUME NEW s \in Seq(Nat), s # <<>>
  PROVE  /\ Front(s) \in Seq(Nat) /\ Len(Front(s)) = Len(s) - 1
         /\ IsPrefix(Front(s), s)
<1>1. Len(s) \in Nat \ {0}
  BY LenProperties, EmptySeq
<1>2. Len(s) - 1 \in 0..Len(s)
  BY <1>1
<1>3. /\ Front(s) \in Seq(Nat) /\ Len(Front(s)) = Len(s) - 1
      /\ \A n \in 1..(Len(s) - 1) : Front(s)[n] = s[n]
  BY <1>2, FirstOfIt DEF Front
<1>4. Len(Front(s)) <= Len(s) /\ \A n \in 1..Len(Front(s)) : Front(s)[n] = s[n]
  BY <1>1, <1>3
<1> QED
  BY <1>3, <1>4, UnderIs

-----------------------------------------------------------------------------
(* A walk, in any tree: what is on the way, and what is to be visited after  *)
(* a directory is.                                                           *)

(* The next on the way from one path to another under it.                    *)
LEMMA NextOnTheWay ==
  ASSUME NEW d \in Seq(Nat), NEW o \in Seq(Nat), IsPrefix(d, o), d # o
  PROVE  LET c == SubSeq(o, 1, Len(d) + 1)
         IN  /\ Len(d) + 1 \in 0..Len(o)
             /\ c \in Seq(Nat) /\ c # <<>> /\ Front(c) = d /\ IsPrefix(c, o)
<1> DEFINE c == SubSeq(o, 1, Len(d) + 1)
<1>1. Len(o) \in Nat /\ Len(d) \in Nat
  BY LenProperties
<1>2. Len(d) < Len(o) /\ \A n \in 1..Len(d) : d[n] = o[n]
  BY <1>1, UnderIs, UnderSame
<1>3. Len(d) + 1 \in 0..Len(o)
  BY <1>1, <1>2
<1>4. /\ c \in Seq(Nat) /\ Len(c) = Len(d) + 1
      /\ \A n \in 1..(Len(d) + 1) : c[n] = o[n]
  BY <1>1, <1>3, FirstOfIt
<1> HIDE DEF c
<1>5. c # <<>>
  BY <1>1, <1>4, EmptySeq
<1>6. Front(c) \in Seq(Nat) /\ Len(Front(c)) = Len(d) /\ IsPrefix(Front(c), c)
  BY <1>1, <1>4, <1>5, AboveIt
<1>7. \A n \in 1..Len(d) : Front(c)[n] = d[n]
  <2>1. \A n \in 1..Len(Front(c)) : Front(c)[n] = c[n]
    BY <1>4, <1>6, UnderIs
  <2>2. \A n \in 1..Len(d) : n \in 1..(Len(d) + 1)
    BY <1>1
  <2>3. \A n \in 1..Len(d) : Front(c)[n] = c[n]
    BY <2>1, <1>6
  <2>4. \A n \in 1..Len(d) : c[n] = o[n]
    BY <2>2, <1>4
  <2> QED
    BY <2>3, <2>4, <1>2
<1>8. Front(c) = d
  BY <1>6, <1>7, SeqEqual
<1>9. IsPrefix(c, o)
  <2>1. Len(c) <= Len(o) /\ \A n \in 1..Len(c) : c[n] = o[n]
    BY <1>1, <1>2, <1>4
  <2> QED
    BY <2>1, <1>1, <1>4, UnderIs
<1> QED
  BY <1>3, <1>4, <1>5, <1>8, <1>9 DEF c

EachOnce(s, K) ==
  /\ \A i \in DOMAIN s : s[i] \in K
  /\ \A c \in K : \E i \in DOMAIN s : s[i] = c
  /\ \A i, j \in DOMAIN s : i # j => s[i] # s[j]
AreChildren(K, d) == \A c \in K : c # <<>> /\ Front(c) = d
NoneUnder(w) == \A i, j \in DOMAIN w : i # j => ~ IsPrefix(w[i], w[j])
InPlaceOfFirst(next, w, K) ==
  /\ \A i \in DOMAIN next : next[i] \in K \/ \E k \in DOMAIN w : k # 1 /\ next[i] = w[k]
  /\ \A c \in K : \E i \in DOMAIN next : next[i] = c
  /\ \A j \in DOMAIN w : j # 1 => \E i \in DOMAIN next : next[i] = w[j]

(* Entries in the order of their names are each there, and there once.       *)
LEMMA InOrder ==
  ASSUME NEW T \in SUBSET Seq(Nat), NEW K \in SUBSET T, IsFiniteSet(K), <<>> \notin K, NEW s \in ByName(K)
  PROVE  s \in Seq(T) /\ EachOnce(s, K)
<1> DEFINE n == Cardinality(K)
<1>1. n \in Nat
  BY FS_CardinalityType
<1>2. /\ s \in [1..n -> K] /\ Range(s) = K
      /\ \A i, j \in DOMAIN s : i < j => Last(s[i]) < Last(s[j])
  BY DEF ByName
<1> HIDE DEF n
<1>3. s \in Seq(T) /\ DOMAIN s = 1..n /\ \A i \in 1..n : s[i] \in K
  BY <1>1, <1>2
<1>4. \A i \in DOMAIN s : Last(s[i]) \in Nat
  <2>1. \A i \in DOMAIN s : s[i] \in Seq(Nat) /\ s[i] # <<>>
    BY <1>3
  <2>2. \A i \in DOMAIN s : Len(s[i]) \in 1..Len(s[i])
    BY <2>1, LenProperties, EmptySeq
  <2> QED
    BY <2>1, <2>2, ElementOfSeq DEF Last
<1>5. ASSUME NEW i \in DOMAIN s, NEW j \in DOMAIN s, i # j
      PROVE  s[i] # s[j]
  <2>1. i < j \/ j < i
    BY <1>1, <1>3, <1>5
  <2>2. Last(s[i]) < Last(s[j]) \/ Last(s[j]) < Last(s[i])
    BY <1>2, <2>1
  <2>3. Last(s[i]) # Last(s[j])
    BY <1>4, <2>2
  <2> QED
    BY <2>3
<1>6. \A c \in K : \E i \in DOMAIN s : s[i] = c
  BY <1>2 DEF Range
<1> QED
  BY <1>3, <1>5, <1>6 DEF EachOnce

LEMMA ChildOfIt ==
  ASSUME NEW c \in Seq(Nat), c # <<>>
  PROVE  IsPrefix(Front(c), c) /\ Len(c) = Len(Front(c)) + 1
BY AboveIt, LenProperties

(* Places in two sequences, one after the other.                             *)
LEMMA PlacesIn ==
  ASSUME NEW n \in Nat, NEW m \in Nat
  PROVE  /\ \A i \in 1..n : i \in 1..(n + m) /\ i <= n
         /\ \A i \in 1..(n + m) : \/ i \in 1..n /\ i <= n
                                  \/ ~ (i <= n) /\ i - n \in 1..m
         /\ \A k \in 1..m : n + k \in 1..(n + m) /\ ~ (n + k <= n) /\ (n + k) - n = k
         /\ \A k \in 1..m : k + 1 \in 1..(m + 1) /\ k + 1 # 1
         /\ \A k \in 1..(m + 1) : k # 1 => \E j \in 1..m : k = j + 1
         /\ \A i, j \in 1..(n + m) : i # j => (i - n) + 1 # (j - n) + 1
<1>1. \A k \in 1..(m + 1) : k # 1 => k - 1 \in 1..m /\ k = (k - 1) + 1
  OBVIOUS
<1>2. \A k \in 1..(m + 1) : k # 1 => \E j \in 1..m : k = j + 1
  BY ONLY <1>1, Zenon
<1> QED
  BY <1>2

(* What is to be visited after a directory is: its entries, each once, and   *)
(* then what was to be visited after it; and of these, if that was so, none  *)
(* is on the way to another.                                                 *)
LEMMA NextInWalk ==
  ASSUME NEW T \in SUBSET Seq(Nat), NEW w \in Seq(T), w # <<>>,
         NEW K \in SUBSET T, AreChildren(K, w[1]), NEW s \in Seq(T), EachOnce(s, K)
  PROVE  /\ s \o Tail(w) \in Seq(T) /\ InPlaceOfFirst(s \o Tail(w), w, K)
         /\ NoneUnder(w) => NoneUnder(s \o Tail(w))
<1> DEFINE d == w[1]
           n == Len(s)
           t == Tail(w)
           m == Len(t)
           next == s \o t
<1>0. /\ \A c \in K : c # <<>> /\ Front(c) = d
      /\ \A i \in DOMAIN s : s[i] \in K
      /\ \A c \in K : \E i \in DOMAIN s : s[i] = c
      /\ \A i, j \in DOMAIN s : i # j => s[i] # s[j]
  BY DEF EachOnce, AreChildren
<1>1. n \in Nat /\ DOMAIN s = 1..n
  BY LenProperties
<1>2. t \in Seq(T) /\ Len(t) = Len(w) - 1 /\ \A i \in 1..Len(t) : t[i] = w[i + 1]
  BY HeadTailProperties
<1>3. Len(w) \in Nat \ {0} /\ DOMAIN w = 1..Len(w) /\ \A i \in DOMAIN w : w[i] \in T
  BY LenProperties, EmptySeq, ElementOfSeq
<1>4. /\ next \in Seq(T) /\ DOMAIN next = 1..(n + m)
      /\ \A i \in 1..(n + m) : next[i] = IF i <= n THEN s[i] ELSE t[i - n]
  BY <1>2, ConcatProperties, LenProperties
<1>5. m \in Nat /\ DOMAIN w = 1..(m + 1) /\ \A i \in 1..m : t[i] = w[i + 1]
  BY <1>2, <1>3
<1> HIDE DEF n, t, m, next
<1>6. ASSUME NEW i \in 1..(n + m)
      PROVE  \/ i \in 1..n /\ next[i] = s[i]
             \/ i - n \in 1..m /\ next[i] = t[i - n]
  <2>1. \/ i \in 1..n /\ i <= n
        \/ ~ (i <= n) /\ i - n \in 1..m
    BY ONLY <1>1, <1>5, <1>6, PlacesIn, Zenon
  <2> QED
    BY <1>4, <2>1
<1>7. ASSUME NEW k \in 1..m
      PROVE  k + 1 \in DOMAIN w /\ k + 1 # 1 /\ t[k] = w[k + 1]
  BY ONLY <1>1, <1>5, <1>7, PlacesIn, Zenon
<1>8. ASSUME NEW i \in DOMAIN next
      PROVE  next[i] \in K \/ \E k \in DOMAIN w : k # 1 /\ next[i] = w[k]
  <2>1. CASE i \in 1..n /\ next[i] = s[i]
    BY <1>0, <1>1, <2>1
  <2>2. CASE i - n \in 1..m /\ next[i] = t[i - n]
    <3>1. PICK x \in 1..m : x = i - n
      BY <2>2
    <3> QED
      BY <1>7, <2>2, <3>1
  <2> QED
    BY <1>4, <1>6, <2>1, <2>2
<1>9. ASSUME NEW c \in K
      PROVE  \E i \in DOMAIN next : next[i] = c
  <2>1. PICK i \in DOMAIN s : s[i] = c
    BY <1>0
  <2>2. i \in 1..(n + m) /\ i <= n
    BY ONLY <1>1, <1>5, <2>1, PlacesIn, Zenon
  <2> QED
    BY <1>4, <2>1, <2>2
<1>10. ASSUME NEW j \in DOMAIN w, j # 1
      PROVE  \E i \in DOMAIN next : next[i] = w[j]
  <2>1. PICK k \in 1..m : j = k + 1
    <3>1. n \in Nat /\ m \in Nat /\ j \in 1..(m + 1) /\ j # 1
      BY ONLY <1>1, <1>5, <1>10, Zenon
    <3>2. \A k \in 1..(m + 1) : k # 1 => \E x \in 1..m : k = x + 1
      BY ONLY <3>1, PlacesIn, Zenon
    <3> QED
      BY ONLY <3>1, <3>2, Zenon
  <2>2. PICK i \in 1..(n + m) : i - n = k /\ ~ (i <= n)
    <3>1. n + k \in 1..(n + m) /\ ~ (n + k <= n) /\ (n + k) - n = k
      BY ONLY <1>1, <1>5, <2>1, PlacesIn
    <3> QED
      BY ONLY <3>1, Zenon
  <2>3. next[i] = t[k] /\ t[k] = w[j]
    BY <1>4, <1>7, <2>1, <2>2
  <2> QED
    BY <1>4, <2>3
<1>11. ASSUME \A i, j \in DOMAIN w : i # j => ~ IsPrefix(w[i], w[j]),
             NEW i \in DOMAIN next, NEW j \in DOMAIN next, i # j, IsPrefix(next[i], next[j])
      PROVE  FALSE
  <2>0. /\ d \in T /\ \A k \in DOMAIN w : /\ w[k] \in Seq(Nat)
                                          /\ k # 1 => ~ IsPrefix(d, w[k]) /\ ~ IsPrefix(w[k], d)
    <3>1. 1 \in DOMAIN w
      BY <1>3
    <3> QED
      BY <1>3, <1>11, <3>1
  <2>1. \A c \in K : c \in Seq(Nat) /\ IsPrefix(d, c) /\ Len(c) = Len(d) + 1
    BY <1>0, ChildOfIt
  <2>2. CASE i \in 1..n /\ next[i] = s[i] /\ j \in 1..n /\ next[j] = s[j]
    <3>1. /\ s[i] \in Seq(Nat) /\ s[j] \in Seq(Nat) /\ Len(s[i]) = Len(s[j]) /\ Len(s[i]) \in Nat
      BY <1>0, <1>1, <2>1, <2>2, LenProperties
    <3>2. s[i] = s[j]
      BY <1>11, <2>2, <3>1, UnderSame
    <3> QED
      BY <1>0, <1>1, <1>11, <2>2, <3>2
  <2>3. CASE next[i] \in K /\ \E k \in DOMAIN w : k # 1 /\ next[j] = w[k]
    BY <1>11, <2>0, <2>1, <2>3, UnderBoth
  <2>4. CASE next[j] \in K /\ \E k \in DOMAIN w : k # 1 /\ next[i] = w[k]
    <3>1. PICK k \in DOMAIN w : k # 1 /\ next[i] = w[k]
      BY <2>4
    <3>2. w[k] \in Seq(Nat) /\ IsPrefix(w[k], next[j]) /\ next[j] \in Seq(Nat) /\ IsPrefix(d, next[j])
      BY <1>11, <2>0, <2>1, <2>4, <3>1
    <3>3. Len(w[k]) <= Len(d) \/ Len(d) <= Len(w[k])
      BY <3>2, LenProperties
    <3> QED
      BY <2>0, <3>1, <3>2, <3>3, UnderShorter
  <2>5. CASE i - n \in 1..m /\ next[i] = t[i - n] /\ j - n \in 1..m /\ next[j] = t[j - n]
    <3>1. i \in 1..(n + m) /\ j \in 1..(n + m)
      BY <1>4
    <3>2. PICK x \in 1..m, y \in 1..m : x = i - n /\ y = j - n
      BY <2>5
    <3>3. x + 1 # y + 1
      <4>1. n \in Nat /\ m \in Nat /\ i # j
        BY <1>1, <1>5, <1>11
      <4>2. (i - n) + 1 # (j - n) + 1
        BY ONLY <3>1, <4>1, PlacesIn
      <4> QED
        BY ONLY <3>2, <4>2
    <3>4. next[i] = w[x + 1] /\ next[j] = w[y + 1] /\ x + 1 \in DOMAIN w /\ y + 1 \in DOMAIN w
      BY <1>7, <2>5, <3>2
    <3> QED
      BY <1>11, <3>3, <3>4
  <2>6. \A x \in 1..n : next[x] = s[x] => next[x] \in K
    BY <1>0, <1>1
  <2>7. \A x \in 1..(n + m) : x - n \in 1..m /\ next[x] = t[x - n] => \E k \in DOMAIN w : k # 1 /\ next[x] = w[k]
    BY <1>7
  <2>8. i \in 1..(n + m) /\ j \in 1..(n + m)
    BY <1>4
  <2> QED
    BY <1>6, <2>2, <2>3, <2>4, <2>5, <2>6, <2>7, <2>8
<1> QED
  BY <1>4, <1>8, <1>9, <1>10, <1>11 DEF next, t, NoneUnder, InPlaceOfFirst

-----------------------------------------------------------------------------
(* A cgroup and its children.                                                *)

(* Between a cgroup and one under it is a child of the first.                *)
LEMMA ChildOnTheWay ==
  ASSUME NodeInv, NEW d \in Seq(Nat), NEW o \in there, IsPrefix(d, o), d # o
  PROVE  \E c \in Children(d) : IsPrefix(c, o)
<1> DEFINE c == SubSeq(o, 1, Len(d) + 1)
<1>1. o \in Seq(Nat)
  BY TreeAssumption DEF NodeInv
<1>2. Len(d) + 1 \in 0..Len(o) /\ c # <<>> /\ Front(c) = d /\ IsPrefix(c, o)
  BY <1>1, NextOnTheWay
<1>3. c \in there
  BY <1>2 DEF NodeInv
<1> QED
  BY <1>2, <1>3 DEF Children

LEMMA ChildIs ==
  ASSUME NodeInv, NEW d \in Seq(Nat), NEW c \in Children(d)
  PROVE  c \in Tree /\ c \in Seq(Nat) /\ IsPrefix(d, c) /\ Len(c) = Len(d) + 1
<1>1. c \in Tree /\ c \in Seq(Nat) /\ c # <<>> /\ Front(c) = d
  BY TreeAssumption DEF Children, NodeInv
<1> QED
  BY <1>1, AboveIt, LenProperties
-----------------------------------------------------------------------------
(* What the kernel answers.                                                  *)

LEMMA WhatIsAnswered ==
  ASSUME NodeInv, NEW d \in Tree, NEW t \in Range(Types), NEW i \in Of(attached, <<d, t>>)
  PROVE  i \in ProgIds /\ t \in Known
<1>1. CASE ~effective
  <2>1. i \in attached[<<d, t>>] /\ <<d, t>> \in Keys
    BY <1>1 DEF Of, Keys
  <2> QED
    BY <2>1 DEF NodeInv
<1>2. CASE effective
  <2>1. PICK o \in Tree : i \in attached[<<o, t>>]
    BY <1>2 DEF Of
  <2>2. <<o, t>> \in Keys
    BY DEF Keys
  <2> QED
    BY <2>1, <2>2 DEF NodeInv
<1> QED
  BY <1>1, <1>2

LEMMA AnswerApplies ==
  ASSUME NodeInv, NEW d \in there \ Elsewhere, NEW t \in Range(Types), NEW i \in Of(attached, <<d, t>>)
  PROVE  <<d, t, i, FlagsOf(<<d, t>>)>> \in applied
<1>1. d \in Tree
  BY DEF NodeInv
<1>2. <<d, t, i>> \in AppliesIn(attached, there)
  BY <1>1, WhatIsAnswered DEF AppliesIn
<1> QED
  BY <1>2 DEF NodeInv

LEMMA SteadyIs ==
  ASSUME NodeInv, NEW x \in steady
  PROVE  /\ x[1] \in there \ Elsewhere /\ x[1] \in Tree /\ x[1] \in Seq(Nat) /\ x[2] \in Range(Types)
         /\ x[2] \in Known /\ x[3] \in Of(attached, <<x[1], x[2]>>)
<1>1. /\ x[1] \in there \ Elsewhere /\ x[1] \in Tree /\ x[2] \in Range(Types)
      /\ x[3] \in Of(attached, <<x[1], x[2]>>)
  BY DEF NodeInv, AppliesIn
<1> QED
  BY <1>1, WhatIsAnswered, TreeAssumption
-----------------------------------------------------------------------------
(* The node's steps.                                                         *)

LEMMA HostStep ==
  ASSUME TreeInv, NodeInv', UNCHANGED call,
         steady' \subseteq steady, applied \subseteq applied', named \subseteq named'
  PROVE  TreeInv'
<1>1. CallInv'
  BY DEF TreeInv, CallInv, call
<1>2. RowsInv'
  BY DEF TreeInv, RowsInv, RowsWereTrue, call
<1>3. OnceInv'
  BY DEF TreeInv, OnceInv, call
<1>4. \A x : /\ ToVisit(x)' = ToVisit(x) /\ BeingAsked(x)' = BeingAsked(x)
             /\ Given(x)' = Given(x)
  BY DEF ToVisit, BeingAsked, Given, call
<1>5. WholeInv'
  BY <1>4 DEF TreeInv, WholeInv, call
<1> QED
  BY <1>1, <1>2, <1>3, <1>5 DEF TreeInv

LEMMA Recorded ==
  ASSUME Record, effective' = effective
  PROVE  /\ steady' \subseteq steady /\ steady' \subseteq AppliesIn(attached, there)'
         /\ applied \subseteq applied'
         /\ \A x \in AppliesIn(attached, there)' :
               <<x[1], x[2], x[3], FlagsOf(<<x[1], x[2]>>)'>> \in applied'
BY DEF Record, AppliesIn, Of, FlagsOf

LEMMA NodeChanges ==
  ASSUME TreeInv,
         \/ \E k \in Keys, i \in ProgIds : Attach(k, i) \/ Detach(k, i)
         \/ \E i \in ProgIds : Reload(i)
         \/ \E d \in Tree : Mkdir(d) \/ Rmdir(d)
  PROVE  TreeInv'
<1>0. NodeInv /\ RowsInv
  BY DEF TreeInv
<1>1. ASSUME NEW k \in Keys, NEW i \in ProgIds, Attach(k, i)
      PROVE  TreeInv'
  <2>1. Record /\ UNCHANGED <<there, made, call, named, name>> /\ effective' = effective /\ root' = root
    BY <1>1 DEF Attach, call
  <2>2. attached' \in [Keys -> SUBSET ProgIds] /\ aflags' \in [Keys -> Flags]
    BY <1>0, <1>1 DEF Attach, NodeInv
  <2>3. \A j \in Keys : attached'[j] # {} => j[2] \in Known
    BY <1>0, <1>1 DEF Attach, NodeInv
  <2>4. changed' \in 0..MaxAttach
    BY <1>0, <1>1, TreeAssumption DEF Attach, Changing, NodeInv
  <2>5. NodeInv'
    BY <1>0, <2>1, <2>2, <2>3, <2>4, Recorded DEF NodeInv
  <2> QED
    BY <2>1, <2>5, Recorded, HostStep
<1>2. ASSUME NEW k \in Keys, NEW i \in ProgIds, Detach(k, i)
      PROVE  TreeInv'
  <2>1. Record /\ UNCHANGED <<there, made, aflags, call, named, name>> /\ effective' = effective /\ root' = root
    BY <1>2 DEF Detach, call
  <2>2. attached' \in [Keys -> SUBSET ProgIds]
    BY <1>0, <1>2 DEF Detach, NodeInv
  <2>3. \A j \in Keys : attached'[j] # {} => j[2] \in Known
    BY <1>0, <1>2 DEF Detach, NodeInv
  <2>4. changed' \in 0..MaxAttach
    BY <1>0, <1>2, TreeAssumption DEF Detach, Changing, NodeInv
  <2>5. NodeInv'
    BY <1>0, <2>1, <2>2, <2>3, <2>4, Recorded DEF NodeInv
  <2> QED
    BY <2>1, <2>5, Recorded, HostStep
<1>3. ASSUME NEW i \in ProgIds, Reload(i)
      PROVE  TreeInv'
  <2>1. /\ UNCHANGED <<there, made, attached, aflags, call, steady, applied>>
        /\ effective' = effective /\ root' = root
    BY <1>3 DEF Reload, call
  <2>2. changed' \in 0..MaxAttach
    BY <1>0, <1>3, TreeAssumption DEF Reload, Changing, NodeInv
  <2>3. /\ named \subseteq named'
        /\ \A j \in ProgIds : <<j, name'[j]>> \in named'
        /\ \A d \in named' : d = <<d[1], d[2]>>
    <3>1. named' = named \union {<<i, name'[i]>>} /\ \A j \in ProgIds \ {i} : name'[j] = name[j]
      BY <1>3 DEF Reload
    <3> QED
      BY <1>0, <3>1 DEF NodeInv
  <2>4. AppliesIn(attached, there)' = AppliesIn(attached, there)
    BY <2>1 DEF AppliesIn, Of
  <2>5. \A k : FlagsOf(k)' = FlagsOf(k)
    BY <2>1 DEF FlagsOf
  <2>6. NodeInv'
    BY <1>0, <2>1, <2>2, <2>3, <2>4, <2>5 DEF NodeInv
  <2> QED
    BY <2>1, <2>3, <2>6, HostStep
<1>4. ASSUME NEW d \in Tree, Rmdir(d)
      PROVE  TreeInv'
  <2>1. /\ Record /\ UNCHANGED <<made, aflags, call, named, name>> /\ effective' = effective /\ root' = root
        /\ there' = there \ {d}
    BY <1>4 DEF Rmdir, call
  <2>2. /\ attached' \in [Keys -> SUBSET ProgIds]
        /\ \A j \in Keys : attached'[j] # {} => j[2] \in Known
    BY <1>0, <1>4 DEF Rmdir, NodeInv
  <2>3. changed' \in 0..MaxAttach
    BY <1>0, <1>4, TreeAssumption DEF Rmdir, Changing, NodeInv
  <2>4. ASSUME NEW o \in there', NEW n \in 0..Len(o)
        PROVE  SubSeq(o, 1, n) \in there'
    <3>1. o \in there /\ o # d /\ o \in Seq(Nat) /\ d \in Seq(Nat) /\ SubSeq(o, 1, n) \in there
      BY <1>0, <2>1, TreeAssumption DEF NodeInv
    <3>2. CASE n = Len(o)
      BY <2>1, <3>1, <3>2, SubSeqFull
    <3>3. CASE n < Len(o) /\ SubSeq(o, 1, n) = d
      <4> DEFINE c == SubSeq(o, 1, n + 1)
      <4>1. Len(o) \in Nat /\ n + 1 \in 0..Len(o)
        BY <3>1, <3>3, LenProperties
      <4>2. /\ c \in there /\ c \in Seq(Nat) /\ Len(c) = n + 1
            /\ \A i \in 1..(n + 1) : c[i] = o[i]
        BY <1>0, <3>1, <4>1, FirstOfIt DEF NodeInv
      <4>3. Len(d) = n /\ \A i \in 1..n : d[i] = o[i]
        BY <3>1, <3>3, FirstOfIt
      <4> HIDE DEF c
      <4>4. c # <<>>
        BY <4>1, <4>2, EmptySeq
      <4>5. Front(c) \in Seq(Nat) /\ Len(Front(c)) = n /\ IsPrefix(Front(c), c)
        BY <4>1, <4>2, <4>4, AboveIt
      <4>6. \A i \in 1..n : Front(c)[i] = c[i]
        BY <4>2, <4>5, UnderIs
      <4>7. \A i \in 1..n : i \in 1..(n + 1)
        OBVIOUS
      <4>8. \A i \in 1..n : Front(c)[i] = d[i]
        BY <4>2, <4>3, <4>6, <4>7
      <4>9. Front(c) = d
        BY <3>1, <4>3, <4>5, <4>8, SeqEqual
      <4> QED
        BY <1>4, <4>2, <4>4, <4>9 DEF Rmdir
    <3> QED
      BY <2>1, <3>1, <3>2, <3>3, LenProperties
  <2>5. NodeInv'
    BY <1>0, <2>1, <2>2, <2>3, <2>4, Recorded DEF NodeInv
  <2> QED
    BY <2>1, <2>5, Recorded, HostStep
<1>5. ASSUME NEW d \in Tree, Mkdir(d)
      PROVE  TreeInv'
  <2>1. /\ Record /\ UNCHANGED <<attached, aflags, call, named, name>> /\ effective' = effective /\ root' = root
        /\ there' = there \union {d} /\ made' = made \union {d} /\ Front(d) \in there
    BY <1>5 DEF Mkdir, call
  <2>2. changed' \in 0..MaxAttach
    BY <1>0, <1>5, TreeAssumption DEF Mkdir, Changing, NodeInv
  <2>3. ASSUME NEW n \in 0..Len(d)
        PROVE  SubSeq(d, 1, n) \in there'
    <3>1. d \in Seq(Nat) /\ Len(d) \in Nat
      BY TreeAssumption, LenProperties
    <3>2. CASE n = Len(d)
      BY <2>1, <3>1, <3>2, SubSeqFull
    <3>3. CASE n # Len(d)
      <4>1. d # <<>> /\ n \in 0..(Len(d) - 1)
        BY <3>1, <3>3, EmptySeq
      <4>2. /\ Front(d) \in Seq(Nat) /\ Len(Front(d)) = Len(d) - 1 /\ IsPrefix(Front(d), d)
        BY <3>1, <4>1, AboveIt
      <4>3. \A i \in 1..Len(Front(d)) : Front(d)[i] = d[i]
        BY <3>1, <4>2, UnderIs
      <4>4. /\ SubSeq(d, 1, n) \in Seq(Nat) /\ Len(SubSeq(d, 1, n)) = n
            /\ \A i \in 1..n : SubSeq(d, 1, n)[i] = d[i]
        BY <3>1, FirstOfIt
      <4>5. /\ SubSeq(Front(d), 1, n) \in Seq(Nat) /\ Len(SubSeq(Front(d), 1, n)) = n
            /\ \A i \in 1..n : SubSeq(Front(d), 1, n)[i] = Front(d)[i]
        BY <4>1, <4>2, FirstOfIt
      <4>6. \A i \in 1..n : i \in 1..Len(Front(d))
        BY <3>1, <4>1, <4>2
      <4>7. \A i \in 1..n : SubSeq(d, 1, n)[i] = SubSeq(Front(d), 1, n)[i]
        BY <4>3, <4>4, <4>5, <4>6
      <4>8. SubSeq(d, 1, n) = SubSeq(Front(d), 1, n)
        BY <4>4, <4>5, <4>7, SeqEqual
      <4>9. SubSeq(Front(d), 1, n) \in there
        BY <1>0, <2>1, <4>1, <4>2 DEF NodeInv
      <4> QED
        BY <2>1, <4>8, <4>9
    <3> QED
      BY <3>2, <3>3
  <2>4. \A o \in there' : \A n \in 0..Len(o) : SubSeq(o, 1, n) \in there'
    BY <1>0, <2>1, <2>3 DEF NodeInv
  <2>5. there' \subseteq made' /\ made' \subseteq Tree
    BY <1>0, <2>1 DEF NodeInv
  <2>6. NodeInv'
    BY <1>0, <2>1, <2>2, <2>4, <2>5, Recorded DEF NodeInv
  <2> QED
    BY <2>1, <2>6, Recorded, HostStep
<1> QED
  BY <1>1, <1>2, <1>3, <1>4, <1>5

-----------------------------------------------------------------------------
(* The call's steps, which leave the node alone.                             *)

LEMMA NodeSame ==
  ASSUME NodeInv, UNCHANGED <<host, effective, root, history>>
  PROVE  NodeInv'
<1>1. AppliesIn(attached, there)' = AppliesIn(attached, there)
  BY DEF AppliesIn, Of, host
<1>2. \A k : FlagsOf(k)' = FlagsOf(k)
  BY DEF FlagsOf, host
<1> QED
  BY <1>1, <1>2 DEF NodeInv, host, history

LEMMA TreeInitial ==
  ASSUME TreeInit
  PROVE  TreeInv
<1>1. NodeInv
  <2>1. there = AtFirst /\ made = AtFirst /\ attached \in [Keys -> SUBSET ProgIds] /\ aflags \in [Keys -> Flags]
    BY DEF TreeInit
  <2>2. \A k \in Keys : attached[k] # {} => k[2] \in Known
    BY DEF TreeInit
  <2>3. changed \in 0..MaxAttach /\ root \in Roots
    BY TreeAssumption DEF TreeInit
  <2>4. \A x \in AppliesIn(attached, there) :
          <<x[1], x[2], x[3], FlagsOf(<<x[1], x[2]>>)>> \in applied
    BY DEF TreeInit
  <2>5. \A i \in ProgIds : <<i, name[i]>> \in named
    BY DEF TreeInit
  <2>6. \A d \in named : d = <<d[1], d[2]>>
    BY DEF TreeInit
  <2>7. /\ steady \subseteq AppliesIn(attached, there) /\ there \subseteq made /\ made \subseteq Tree
        /\ \A d \in there : \A n \in 0..Len(d) : SubSeq(d, 1, n) \in there
    BY <2>1, TreeAssumption DEF TreeInit
  <2> QED
    BY <2>1, <2>2, <2>3, <2>4, <2>5, <2>6, <2>7 DEF NodeInv
<1>2. CallInv
  BY TreeAssumption DEF TreeInit, CallInv
<1>3. RowsInv
  BY DEF TreeInit, RowsInv, RowsWereTrue
<1>4. OnceInv
  BY DEF TreeInit, OnceInv
<1>5. WholeInv
  BY DEF TreeInit, WholeInv
<1> QED
  BY <1>1, <1>2, <1>3, <1>4, <1>5 DEF TreeInv

LEMMA StartKeeps ==
  ASSUME TreeInv, StartTree
  PROVE  TreeInv'
<1>0. NodeInv /\ CallInv /\ RowsInv /\ OnceInv
  BY DEF TreeInv
<1>1. NodeInv'
  BY <1>0, NodeSame DEF StartTree
<1>2. /\ ids = {} /\ tree = {} /\ cur = {} /\ list = <<>>
      /\ UNCHANGED <<ids, tree, cur, types, cg, visited, known, history, root>>
  BY <1>0 DEF StartTree, CallInv
<1>3. CASE phase' = "failed" /\ list' = list
  <2>1. CallInv'
    BY <1>0, <1>2, <1>3 DEF CallInv
  <2>2. RowsInv'
    BY <1>0, <1>2, <1>3 DEF RowsInv, RowsWereTrue, history
  <2>3. OnceInv'
    BY <1>0, <1>2, <1>3 DEF OnceInv
  <2>4. WholeInv'
    BY <1>3 DEF WholeInv
  <2> QED
    BY <1>1, <2>1, <2>2, <2>3, <2>4 DEF TreeInv
<1>4. CASE /\ phase' = "walk" /\ root \subseteq there /\ \E r \in root : list' = <<r>>
  <2>1. PICK r \in root : list' = <<r>>
    BY <1>4
  <2>2. r \in Tree /\ r \in Seq(Nat) /\ root = {r}
    BY <1>0, <1>4, <2>1, TreeAssumption DEF NodeInv
  <2>3. visited <= Limit /\ list' \in Seq(Tree) /\ DOMAIN list' = {1} /\ list'[1] = r
    <3>1. visited = 0
      BY <1>0 DEF CallInv, StartTree
    <3> QED
      BY <3>1, <2>1, <2>2, TreeAssumption
  <2>4. CallInv'
    BY <1>0, <1>2, <1>4, <2>2, <2>3 DEF CallInv
  <2>5. RowsInv'
    BY <1>0, <1>2, <1>4 DEF RowsInv, RowsWereTrue, history
  <2>6. OnceInv'
    BY <1>0, <1>2, <1>4, <2>3 DEF OnceInv
  <2>7. WholeInv'
    <3>1. \A x : IsPrefix(r, x[1]) => ToVisit(x)'
      BY <1>4, <2>3 DEF ToVisit
    <3> QED
      BY <1>2, <2>2, <3>1 DEF WholeInv
  <2> QED
    BY <1>1, <2>4, <2>5, <2>6, <2>7 DEF TreeInv
<1> QED
  BY <1>3, <1>4 DEF StartTree, cgroupTreeRoot

LEMMA AskKeeps ==
  ASSUME TreeInv, AskType
  PROVE  TreeInv'
<1>0. NodeInv /\ CallInv /\ RowsInv /\ OnceInv /\ WholeInv
  BY DEF TreeInv
<1>1. NodeInv'
  BY <1>0, NodeSame DEF AskType
<1>2. /\ phase = "query" /\ phase' = "describe" /\ types # <<>> /\ cg \in there \ Elsewhere
      /\ ids' = queryType(<<cg, Head(types)>>)
      /\ UNCHANGED <<host, effective, root, list, visited, cg, types, known, cur, tree, history>>
  BY DEF AskType
<1>3. types \in Seq(Range(Types)) /\ Head(types) \in Range(Types) /\ types[1] = Head(types)
  BY <1>0, <1>2 DEF CallInv
<1>4. CallInv'
  BY <1>0, <1>2 DEF CallInv
<1>5. \A p \in queryType(<<cg, Head(types)>>) :
         /\ p.id \in Of(attached, <<cg, Head(types)>>)
         /\ p.flags = FlagsOf(<<cg, Head(types)>>)
  <2> DEFINE k == <<cg, Head(types)>>
  <2> SUFFICES ASSUME NEW p \in queryType(k)
               PROVE  p.id \in Of(attached, k) /\ p.flags = FlagsOf(k)
    OBVIOUS
  <2> HIDE DEF k
  <2>1. p \in {[id |-> i, flags |-> FlagsOf(k)] : i \in Of(attached, k)}
    BY DEF queryType
  <2> QED
    BY <2>1
<1>6. RowsInv'
  <2>1. \A p \in ids' : p.id \in ProgIds /\ <<cg, Head(types), p.id, p.flags>> \in applied
    BY <1>0, <1>2, <1>3, <1>5, AnswerApplies, WhatIsAnswered DEF CallInv
  <2> QED
    BY <1>0, <1>2, <2>1 DEF RowsInv, RowsWereTrue, history
<1>7. OnceInv'
  BY <1>0, <1>2 DEF OnceInv
<1>8. ASSUME NEW x \in steady, BeingAsked(x)
      PROVE  BeingAsked(x)'
  <2>1. CASE x[2] = Head(types)
    <3>1. /\ x[1] = cg /\ x[2] \in Known /\ x[3] \in Of(attached, <<cg, Head(types)>>)
      BY <1>0, <1>8, <2>1, SteadyIs DEF BeingAsked
    <3>2. Query(<<cg, Head(types)>>, FALSE) = "ok"
      BY <2>1, <3>1 DEF Query
    <3>3. [id |-> x[3], flags |-> FlagsOf(<<cg, Head(types)>>)] \in ids'
      BY <1>2, <3>1, <3>2 DEF queryType
    <3>4. \E p \in ids' : p.id = x[3]
      BY <3>3
    <3> QED
      BY <1>2, <2>1, <3>1, <3>4 DEF BeingAsked
  <2>2. CASE x[2] # Head(types)
    BY <1>0, <1>2, <1>3, <1>8, <2>2 DEF BeingAsked, CallInv
  <2> QED
    BY <2>1, <2>2
<1>9. \A x : ToVisit(x)' = ToVisit(x) /\ Given(x)' = Given(x)
  BY <1>2 DEF ToVisit, Given
<1>10. WholeInv'
  BY <1>0, <1>2, <1>8, <1>9 DEF WholeInv, history
<1> QED
  BY <1>1, <1>4, <1>6, <1>7, <1>10 DEF TreeInv

LEMMA DescribeKeeps ==
  ASSUME TreeInv, DescribeProg
  PROVE  TreeInv'
<1>0. NodeInv /\ CallInv /\ RowsInv /\ OnceInv /\ WholeInv
  BY DEF TreeInv
<1>1. NodeInv'
  BY <1>0, NodeSame DEF DescribeProg
<1>2. PICK p \in ids :
        /\ known' = IF Described(p.id) # {} THEN known ELSE known \union {<<p.id, name[p.id]>>}
        /\ cur' = cur \union {[type |-> Head(types), id |-> p.id, flags |-> p.flags, as |-> d[2]] :
                                d \in {o \in known' : o[1] = p.id}}
        /\ ids' = ids \ {p}
  BY DEF DescribeProg
<1>3. /\ phase = "describe"
      /\ UNCHANGED <<host, effective, root, phase, list, visited, cg, types, tree, history>>
  BY DEF DescribeProg
<1>4. CallInv'
  BY <1>0, <1>2, <1>3 DEF CallInv
<1>5. p.id \in ProgIds /\ <<cg, Head(types), p.id, p.flags>> \in applied
  BY <1>0, <1>2 DEF RowsInv
<1>6. known' \subseteq named
  BY <1>0, <1>2, <1>5 DEF RowsInv, NodeInv
<1>7. \A d, o \in known' : d[1] = o[1] => d = o
  BY <1>0, <1>2 DEF RowsInv, Described
<1>8. PICK d \in known' : d[1] = p.id
  <2>1. CASE Described(p.id) # {}
    BY <1>2, <2>1 DEF Described
  <2>2. CASE Described(p.id) = {}
    <3>1. <<p.id, name[p.id]>> \in known'
      BY <1>2, <2>2
    <3> QED
      BY <3>1
  <2> QED
    BY <2>1, <2>2
<1>9. \A q \in cur' \ cur : /\ q.type = Head(types) /\ q.id = p.id /\ q.flags = p.flags
                            /\ \E o \in known' : o[1] = p.id /\ q.as = o[2]
  BY <1>2
<1>10. \A q \in cur' \ cur : /\ <<cg, q.type, q.id, q.flags>> \in applied
                             /\ <<q.id, q.as>> \in named
  <2>1. \A o \in known' : o = <<o[1], o[2]>>
    BY <1>0, <1>6 DEF NodeInv
  <2> QED
    BY <1>5, <1>6, <1>9, <2>1
<1>11. RowsInv'
  BY <1>0, <1>2, <1>3, <1>6, <1>7, <1>10 DEF RowsInv, RowsWereTrue, history
<1>12. OnceInv'
  BY <1>0, <1>3 DEF OnceInv
<1>13. [type |-> Head(types), id |-> p.id, flags |-> p.flags, as |-> d[2]] \in cur'
  BY <1>2, <1>8
<1>14. cur \subseteq cur' /\ \E q \in cur' : q.type = Head(types) /\ q.id = p.id
  BY <1>2, <1>13
<1>15. \A x : BeingAsked(x) => BeingAsked(x)'
  BY <1>2, <1>3, <1>14 DEF BeingAsked
<1>16. \A x : ToVisit(x)' = ToVisit(x) /\ Given(x)' = Given(x)
  BY <1>3 DEF ToVisit, Given
<1>17. WholeInv'
  BY <1>0, <1>3, <1>15, <1>16 DEF WholeInv, history
<1> QED
  BY <1>1, <1>4, <1>11, <1>12, <1>17 DEF TreeInv

LEMMA NextTypeKeeps ==
  ASSUME TreeInv, NextType
  PROVE  TreeInv'
<1>0. NodeInv /\ CallInv /\ RowsInv /\ OnceInv /\ WholeInv
  BY DEF TreeInv
<1>1. NodeInv'
  BY <1>0, NodeSame DEF NextType
<1>2. /\ phase = "describe" /\ phase' = "query" /\ ids = {} /\ types' = Tail(types)
      /\ UNCHANGED <<host, effective, root, list, visited, cg, ids, known, cur, tree, history>>
  BY DEF NextType
<1>3. types \in Seq(Range(Types)) /\ types # <<>>
  BY <1>0, <1>2 DEF CallInv
<1>4. types' \in Seq(Range(Types))
  BY <1>2, <1>3
<1>5. CallInv'
  BY <1>0, <1>2, <1>4 DEF CallInv
<1>6. RowsInv'
  BY <1>0, <1>2 DEF RowsInv, RowsWereTrue, history
<1>7. OnceInv'
  BY <1>0, <1>2 DEF OnceInv
<1>8. ASSUME NEW i \in DOMAIN types, i # 1
      PROVE  i - 1 \in DOMAIN types' /\ types'[i - 1] = types[i]
  <2>1. /\ Len(types) \in Nat /\ Len(types') = Len(types) - 1
        /\ \A n \in 1..Len(types') : types'[n] = types[n + 1]
    BY <1>2, <1>3, HeadTailProperties, LenProperties
  <2>2. i \in 1..Len(types) /\ i - 1 \in 1..Len(types')
    BY <1>3, <1>8, <2>1, LenProperties
  <2>3. DOMAIN types' = 1..Len(types')
    BY <1>4, LenProperties
  <2> QED
    BY <2>1, <2>2, <2>3
<1>9. \A x : BeingAsked(x) => BeingAsked(x)'
  BY <1>2, <1>8 DEF BeingAsked
<1>10. \A x : ToVisit(x)' = ToVisit(x) /\ Given(x)' = Given(x)
  BY <1>2 DEF ToVisit, Given
<1>11. WholeInv'
  BY <1>0, <1>2, <1>9, <1>10 DEF WholeInv, history
<1> QED
  BY <1>1, <1>5, <1>6, <1>7, <1>11 DEF TreeInv

LEMMA EndKeeps ==
  ASSUME TreeInv, QueryFails \/ EndTree
  PROVE  TreeInv'
<1>0. NodeInv /\ CallInv /\ RowsInv /\ OnceInv /\ WholeInv
  BY DEF TreeInv
<1>1. CASE QueryFails
  <2>1. NodeInv'
    BY <1>0, <1>1, NodeSame DEF QueryFails
  <2>2. /\ phase = "query" /\ phase' = "failed" /\ tree' = {}
        /\ UNCHANGED <<list, visited, cg, types, ids, known, cur, root, history>>
    BY <1>1 DEF QueryFails
  <2>3. CallInv'
    BY <1>0, <2>2 DEF CallInv
  <2>4. RowsInv'
    BY <1>0, <2>2 DEF RowsInv, RowsWereTrue, history
  <2>5. OnceInv'
    BY <1>0, <2>2 DEF OnceInv
  <2>6. WholeInv'
    BY <2>2 DEF WholeInv
  <2> QED
    BY <2>1, <2>3, <2>4, <2>5, <2>6 DEF TreeInv
<1>2. CASE EndTree
  <2>1. NodeInv'
    BY <1>0, <1>2, NodeSame DEF EndTree
  <2>2. /\ phase = "walk" /\ phase' = "done" /\ list = <<>>
        /\ UNCHANGED <<list, visited, cg, types, ids, known, cur, tree, root, history>>
    BY <1>2 DEF EndTree
  <2>3. CallInv'
    BY <1>0, <2>2 DEF CallInv
  <2>4. RowsInv'
    BY <1>0, <2>2 DEF RowsInv, RowsWereTrue, history
  <2>5. OnceInv'
    BY <1>0, <2>2 DEF OnceInv
  <2>6. \A x : /\ ToVisit(x)' = ToVisit(x) /\ ~ BeingAsked(x) /\ Given(x)' = Given(x)
    BY <2>2 DEF ToVisit, BeingAsked, Given
  <2>7. WholeInv'
    BY <1>0, <2>2, <2>6 DEF WholeInv, history
  <2> QED
    BY <2>1, <2>3, <2>4, <2>5, <2>7 DEF TreeInv
<1> QED
  BY <1>1, <1>2

-----------------------------------------------------------------------------
(* The walk.                                                                 *)

(* What is listed after a cgroup is visited: its children, each once, and   *)
(* then what was listed after it.                                            *)
LEMMA NextList ==
  ASSUME NodeInv, list \in Seq(Tree), list # <<>>,
         \A i, j \in DOMAIN list : i # j => ~ IsPrefix(list[i], list[j]),
         NEW d \in Seq(Nat), d = list[1], NEW s \in ByName(Children(d))
  PROVE  /\ s \o Tail(list) \in Seq(Tree)
         /\ \A i \in DOMAIN (s \o Tail(list)) :
               \/ (s \o Tail(list))[i] \in Children(d)
               \/ \E k \in DOMAIN list : k # 1 /\ (s \o Tail(list))[i] = list[k]
         /\ \A i, j \in DOMAIN (s \o Tail(list)) :
               i # j => ~ IsPrefix((s \o Tail(list))[i], (s \o Tail(list))[j])
         /\ \A c \in Children(d) : \E i \in DOMAIN (s \o Tail(list)) : (s \o Tail(list))[i] = c
         /\ \A j \in DOMAIN list : j # 1 =>
               \E i \in DOMAIN (s \o Tail(list)) : (s \o Tail(list))[i] = list[j]
<1>1. Tree \in SUBSET Seq(Nat) /\ Children(d) \in SUBSET Tree /\ <<>> \notin Children(d)
      /\ IsFiniteSet(Children(d))
  <2>1. Tree \in SUBSET Seq(Nat) /\ Children(d) \in SUBSET Tree /\ <<>> \notin Children(d)
    BY TreeAssumption DEF Children, NodeInv
  <2> QED
    BY <2>1, TreeAssumption, FS_Subset
<1>2. s \in Seq(Tree) /\ EachOnce(s, Children(d))
  BY <1>1, InOrder
<1>3. AreChildren(Children(d), list[1])
  BY DEF AreChildren, Children
<1>4. /\ s \o Tail(list) \in Seq(Tree) /\ InPlaceOfFirst(s \o Tail(list), list, Children(d))
      /\ NoneUnder(list) => NoneUnder(s \o Tail(list))
  BY <1>1, <1>2, <1>3, NextInWalk
<1>5. NoneUnder(list)
  BY DEF NoneUnder
<1> QED
  BY <1>4, <1>5 DEF InPlaceOfFirst, NoneUnder

LEMMA VisitKeeps ==
  ASSUME TreeInv, VisitCgroup
  PROVE  TreeInv'
<1>0. NodeInv /\ CallInv /\ RowsInv /\ OnceInv /\ WholeInv
  BY DEF TreeInv
<1>1. NodeInv'
  BY <1>0, NodeSame DEF VisitCgroup
<1> DEFINE d == Head(list)
<1>2. /\ phase = "walk" /\ list # <<>> /\ visited' = visited + 1
      /\ UNCHANGED <<host, effective, root, ids, known, cur, tree, history>>
  BY DEF VisitCgroup
<1>3. /\ list \in Seq(Tree) /\ d \in Tree /\ d \in Seq(Nat) /\ d = list[1] /\ 1 \in DOMAIN list
  BY <1>0, <1>2, TreeAssumption DEF CallInv
<1>4. visited \in Nat /\ visited <= Limit /\ visited' \in 0..(Limit + 1) /\ Limit \in Nat
  BY <1>0, <1>2, TreeAssumption DEF CallInv
<1>5. ids = {} /\ cur = {}
  BY <1>0, <1>2 DEF CallInv
<1>6. RowsInv' <=> RowsInv
  BY <1>2, <1>5, <1>0 DEF RowsInv, RowsWereTrue, history
<1>7. \A x : Given(x)' = Given(x) /\ ~ BeingAsked(x)
  BY <1>2 DEF Given, BeingAsked
<1>8. CASE visited' > Limit
  <2>1. list' = <<>> /\ UNCHANGED <<phase, cg, types>>
    BY <1>8 DEF VisitCgroup
  <2>2. CallInv'
    BY <1>0, <1>2, <1>4, <2>1 DEF CallInv
  <2>3. OnceInv'
    BY <1>0, <1>2, <2>1 DEF OnceInv
  <2>4. WholeInv'
    BY <1>4, <1>8 DEF WholeInv
  <2> QED
    BY <1>0, <1>1, <1>6, <2>2, <2>3, <2>4 DEF TreeInv
(* What is not there, or not of the hierarchy, is passed over.               *)
<1>9. CASE ~ (visited' > Limit) /\ (d \notin there \/ OtherFilesystem(d))
  <2>1. list' = Tail(list) /\ UNCHANGED <<phase, cg, types>>
    BY <1>9 DEF VisitCgroup
  <2>2. /\ list' \in Seq(Tree) /\ Len(list') = Len(list) - 1 /\ Len(list) \in Nat \ {0}
        /\ \A i \in 1..Len(list') : list'[i] = list[i + 1]
        /\ DOMAIN list = 1..Len(list) /\ DOMAIN list' = 1..Len(list')
    BY <1>2, <1>3, <2>1, HeadTailProperties, LenProperties, EmptySeq
  <2>3. \A i \in DOMAIN list' : i + 1 \in DOMAIN list /\ list'[i] = list[i + 1]
    BY <2>2
  <2>4. \A k \in DOMAIN list : k # 1 => k - 1 \in DOMAIN list' /\ list'[k - 1] = list[k]
    BY <2>2
  <2>5. CallInv'
    BY <1>0, <1>2, <1>4, <1>9, <2>1, <2>2 DEF CallInv
  <2>6. OnceInv'
    <3>1. \A i, j \in DOMAIN list' : i # j => i + 1 # j + 1
      BY <2>2
    <3> QED
      BY <1>0, <1>2, <2>3, <3>1 DEF OnceInv
  <2>7. ASSUME NEW r \in root, NEW x \in steady, IsPrefix(r, x[1]), ToVisit(x)
        PROVE  ToVisit(x)'
    <3>1. PICK k \in DOMAIN list : IsPrefix(list[k], x[1])
      BY <2>7 DEF ToVisit
    <3>2. x[1] \in there \ Elsewhere /\ x[1] \in Tree /\ x[1] \in Seq(Nat)
      BY <1>0, SteadyIs
    <3>3. k # 1
      <4>1. SUFFICES ASSUME IsPrefix(d, x[1]) PROVE FALSE
        BY <1>3, <3>1
      <4>2. root = {r} /\ r \notin Elsewhere /\ d \notin Elsewhere
        BY <1>0, <1>2, <2>7, <3>2, <4>1, TreeAssumption DEF CallInv
      <4>6. (d \in Elsewhere) = FALSE /\ (\E q \in root : q \in Elsewhere) = FALSE
        BY <4>2
      <4>7. ~ OtherFilesystem(d)
        BY <4>6, Zenon DEF OtherFilesystem
      <4>3. d \notin there
        BY <1>9, <4>7
      <4>4. Len(d) \in 0..Len(x[1]) /\ d = SubSeq(x[1], 1, Len(d))
        <5>1. Len(d) <= Len(x[1]) /\ Len(d) \in Nat /\ Len(x[1]) \in Nat
          BY <1>3, <3>2, <4>1, UnderIs, LenProperties
        <5>2. /\ SubSeq(x[1], 1, Len(d)) \in Seq(Nat) /\ Len(SubSeq(x[1], 1, Len(d))) = Len(d)
              /\ \A n \in 1..Len(d) : SubSeq(x[1], 1, Len(d))[n] = x[1][n]
          BY <3>2, <5>1, FirstOfIt
        <5>3. \A n \in 1..Len(d) : d[n] = x[1][n]
          BY <1>3, <3>2, <4>1, UnderIs
        <5>4. d = SubSeq(x[1], 1, Len(d))
          BY <1>3, <5>2, <5>3, SeqEqual
        <5> QED
          BY <5>1, <5>4
      <4>5. SubSeq(x[1], 1, Len(d)) \in there
        BY <1>0, <3>2, <4>4 DEF NodeInv
      <4> QED
        BY <4>3, <4>4, <4>5
    <3> QED
      BY <1>2, <2>1, <2>4, <3>1, <3>3 DEF ToVisit
  <2>8. WholeInv'
    BY <1>0, <1>2, <1>4, <1>7, <2>1, <2>7 DEF WholeInv, history
  <2> QED
    BY <1>0, <1>1, <1>6, <2>5, <2>6, <2>8 DEF TreeInv
<1>10. CASE ~ (visited' > Limit) /\ d \in there /\ ~ OtherFilesystem(d)
  <2>1. list' = list /\ phase' = "query" /\ cg' = d /\ types' = Types
    BY <1>10 DEF VisitCgroup
  <2>2. CallInv'
    BY <1>0, <1>2, <1>3, <1>4, <1>10, <2>1, TreeAssumption DEF CallInv
  <2>3. OnceInv'
    BY <1>0, <1>2, <2>1 DEF OnceInv
  <2>4. ASSUME NEW x \in steady, ToVisit(x)
        PROVE  ToVisit(x)' \/ BeingAsked(x)'
    <3>1. CASE x[1] # d
      BY <1>2, <2>1, <2>4, <3>1 DEF ToVisit
    <3>2. CASE x[1] = d
      <4>1. x[2] \in Range(Types)
        BY <1>0, SteadyIs
      <4>2. \E i \in DOMAIN types' : types'[i] = x[2]
        BY <2>1, <4>1 DEF Range
      <4> QED
        BY <2>1, <3>2, <4>2 DEF BeingAsked
    <3> QED
      BY <3>1, <3>2
  <2>5. WholeInv'
    BY <1>0, <1>2, <1>4, <1>7, <2>1, <2>4 DEF WholeInv, history
  <2> QED
    BY <1>0, <1>1, <1>6, <2>2, <2>3, <2>5 DEF TreeInv
<1> QED
  BY <1>8, <1>9, <1>10

(* A cgroup has been asked for every type: it is given, and its children are *)
(* listed in its place.                                                      *)
LEMMA EndCgroupKeeps ==
  ASSUME TreeInv, EndCgroup
  PROVE  TreeInv'
<1>0. NodeInv /\ CallInv /\ RowsInv /\ OnceInv /\ WholeInv
  BY DEF TreeInv
<1>1. NodeInv'
  BY <1>0, NodeSame DEF EndCgroup
<1> DEFINE row == [path |-> cg, progs |-> cur]
<1>2. /\ phase = "query" /\ phase' = "walk" /\ types = <<>> /\ cur' = {} /\ ids = {}
      /\ tree' = IF cur = {} THEN tree ELSE tree \union {row}
      /\ UNCHANGED <<host, effective, root, visited, cg, types, ids, known, history>>
  BY <1>0 DEF EndCgroup, CallInv
<1>3. /\ list \in Seq(Tree) /\ list # <<>> /\ cg \in Tree /\ cg \in Seq(Nat)
      /\ cg = list[1] /\ 1 \in DOMAIN list
  BY <1>0, <1>2, TreeAssumption DEF CallInv
<1>4. row.path = cg /\ row.progs = cur
  OBVIOUS
<1> HIDE DEF row
<1>5. /\ list' \in Seq(Tree)
      /\ \A i \in DOMAIN list' : \/ list'[i] \in Children(cg)
                                 \/ \E k \in DOMAIN list : k # 1 /\ list'[i] = list[k]
      /\ \A i, j \in DOMAIN list' : i # j => ~ IsPrefix(list'[i], list'[j])
      /\ \A c \in Children(cg) : \E i \in DOMAIN list' : list'[i] = c
      /\ \A j \in DOMAIN list : j # 1 => \E i \in DOMAIN list' : list'[i] = list[j]
  <2>1. PICK s \in ByName(Children(cg)) : list' = s \o Tail(list)
    BY DEF EndCgroup
  <2>2. \A i, j \in DOMAIN list : i # j => ~ IsPrefix(list[i], list[j])
    BY <1>0 DEF OnceInv
  <2> DEFINE l == s \o Tail(list)
  <2>3. /\ l \in Seq(Tree)
        /\ \A i \in DOMAIN l : l[i] \in Children(cg) \/ \E k \in DOMAIN list : k # 1 /\ l[i] = list[k]
        /\ \A i, j \in DOMAIN l : i # j => ~ IsPrefix(l[i], l[j])
        /\ \A c \in Children(cg) : \E i \in DOMAIN l : l[i] = c
        /\ \A j \in DOMAIN list : j # 1 => \E i \in DOMAIN l : l[i] = list[j]
    BY ONLY <1>0, <1>3, <2>1, <2>2, NextList, Zenon
  <2>4. list' = l
    BY <2>1
  <2> HIDE DEF l
  <2> QED
    BY ONLY <2>3, <2>4
<1>6. CallInv'
  BY <1>0, <1>2, <1>3, <1>5 DEF CallInv
<1>7. RowsInv'
  BY <1>0, <1>2, <1>4 DEF RowsInv, RowsWereTrue, history
<1>8. \A i \in DOMAIN list : list[i] \in Seq(Nat)
  BY <1>3, ElementOfSeq, TreeAssumption
<1>9. \A c \in tree : c.path \in Tree /\ c.path \in Seq(Nat)
  BY <1>0, TreeAssumption DEF OnceInv
<1>10. ASSUME NEW i \in DOMAIN list', NEW o \in Seq(Nat),
              \A k \in DOMAIN list : IsPrefix(list[k], o) => k = 1,
              IsPrefix(cg, o) => cg = o
       PROVE  ~ IsPrefix(list'[i], o)
  <2>1. CASE list'[i] \in Children(cg)
    <3>1. /\ list'[i] \in Seq(Nat) /\ IsPrefix(cg, list'[i]) /\ Len(list'[i]) = Len(cg) + 1
      BY <1>0, <1>3, <2>1, ChildIs
    <3>2. ASSUME IsPrefix(list'[i], o)
          PROVE  FALSE
      <4>1. cg = o
        BY <1>3, <1>10, <3>1, <3>2, UnderBoth
      <4>2. Len(list'[i]) <= Len(o)
        BY <3>1, <3>2, UnderIs
      <4> QED
        BY <1>3, <3>1, <4>1, <4>2, LenProperties
    <3> QED
      BY <3>2
  <2> QED
    BY <1>5, <1>10, <2>1
<1>11. \A i \in DOMAIN list' : \A c \in tree : ~ IsPrefix(list'[i], c.path)
  BY <1>0, <1>3, <1>9, <1>10 DEF OnceInv
<1>12. \A i \in DOMAIN list' : ~ IsPrefix(list'[i], cg)
  BY <1>0, <1>3, <1>10 DEF OnceInv
<1>13. \A c \in tree : c.path # cg
  <2>1. IsPrefix(cg, cg)
    BY <1>3, UnderItself
  <2> QED
    BY <1>0, <1>3, <2>1 DEF OnceInv
<1>14. OnceInv'
  BY <1>0, <1>2, <1>3, <1>4, <1>5, <1>11, <1>12, <1>13 DEF OnceInv
<1>15. ASSUME NEW x, BeingAsked(x)
       PROVE  Given(x)'
  <2>1. DOMAIN types = {}
    BY <1>2
  <2>2. x[1] = cg /\ \E p \in cur : p.type = x[2] /\ p.id = x[3]
    BY <1>2, <1>15, <2>1 DEF BeingAsked
  <2>3. row \in tree'
    BY <1>2, <2>2
  <2> QED
    BY <1>4, <2>2, <2>3 DEF Given
<1>16. tree \subseteq tree'
  BY <1>2
<1>17. \A x : Given(x) => Given(x)'
  BY <1>16 DEF Given
<1>18. ASSUME NEW x \in steady, ToVisit(x)
       PROVE  ToVisit(x)'
  <2>1. PICK k \in DOMAIN list : IsPrefix(list[k], x[1])
    BY <1>18 DEF ToVisit
  <2>2. x[1] # cg
    BY <1>2, <1>18 DEF ToVisit
  <2>3. CASE k # 1
    BY <1>2, <1>5, <2>1, <2>3 DEF ToVisit
  <2>4. CASE k = 1
    <3>1. x[1] \in there /\ IsPrefix(cg, x[1])
      BY <1>0, <1>3, <2>1, <2>4, SteadyIs
    <3>2. PICK c \in Children(cg) : IsPrefix(c, x[1])
      BY <1>0, <1>3, <2>2, <3>1, ChildOnTheWay
    <3> QED
      BY <1>2, <1>5, <3>2 DEF ToVisit
  <2> QED
    BY <2>3, <2>4
<1>19. WholeInv'
  BY <1>0, <1>2, <1>15, <1>17, <1>18 DEF WholeInv, history
<1> QED
  BY <1>1, <1>6, <1>7, <1>14, <1>19 DEF TreeInv

LEMMA TreeStep ==
  ASSUME TreeInv, [TreeNext]_treeVars
  PROVE  TreeInv'
<1>1. CASE UNCHANGED treeVars
  <2>1. UNCHANGED call /\ UNCHANGED history /\ UNCHANGED <<host, effective, root>>
    BY <1>1 DEF treeVars, call
  <2>2. NodeInv'
    BY <2>1, NodeSame DEF TreeInv
  <2> QED
    BY <2>1, <2>2, HostStep DEF history
<1>2. CASE TreeNext
  BY <1>2, NodeChanges, StartKeeps, VisitKeeps, AskKeeps, DescribeKeeps, NextTypeKeeps,
     EndCgroupKeeps, EndKeeps DEF TreeNext
<1> QED
  BY <1>1, <1>2

LEMMA TreeInvRight ==
  ASSUME TreeInv
  PROVE  TreeIsRight
<1>0. NodeInv /\ CallInv /\ RowsInv /\ OnceInv /\ WholeInv
  BY DEF TreeInv
<1>1. ASSUME NEW i \in ProgIds
      PROVE  Cardinality(Described(i)) <= 1
  <2>1. CASE Described(i) = {}
    BY <2>1, FS_EmptySet
  <2>2. CASE Described(i) # {}
    <3>1. PICK d : d \in Described(i)
      BY <2>2
    <3>2. Described(i) = {d}
      BY <1>0, <3>1 DEF RowsInv, Described
    <3>3. Cardinality({d}) = 1
      BY FS_Singleton
    <3> QED
      BY <3>2, <3>3
  <2> QED
    BY <2>1, <2>2
<1>2. \A i \in DOMAIN list : list[i] \in Tree
  BY <1>0, ElementOfSeq, LenProperties DEF CallInv
<1>3. TreeTypeOK
  BY <1>0, <1>1, <1>2 DEF TreeTypeOK, NodeInv, CallInv
<1>4. RowsWereTrue
  BY <1>0 DEF RowsInv
<1>5. TreeIsWhole
  <2>1. SUFFICES ASSUME phase = "done", visited <= Limit
                 PROVE  /\ \A x \in steady : IsPrefix(CHOOSE r \in root : TRUE, x[1]) => Given(x)
                        /\ \A c, o \in tree : c.path = o.path => c = o
    BY DEF TreeIsWhole, Given
  <2>2. PICK r \in Tree : root = {r}
    BY <1>0, <2>1 DEF CallInv
  <2>3. (CHOOSE q \in root : TRUE) = r
    BY <2>2
  <2>4. DOMAIN list = {}
    BY <1>0, <2>1 DEF CallInv
  <2>5. \A x : ~ ToVisit(x) /\ ~ BeingAsked(x)
    BY <2>1, <2>4 DEF ToVisit, BeingAsked
  <2> QED
    BY <1>0, <2>1, <2>2, <2>3, <2>5 DEF WholeInv, OnceInv
<1> QED
  BY <1>3, <1>4, <1>5 DEF TreeIsRight

(* A tree of cgroups that is given is true and whole: each of its rows was so at *)
(* some moment, and every program that applied to a cgroup all along is in it,  *)
(* once, unless the walk reached its limit (cgrouptree.go).                      *)
THEOREM TreeAlwaysRight == TreeSpec => []TreeIsRight
<1>1. TreeInit => TreeInv
  BY TreeInitial
<1>2. TreeInv /\ [TreeNext]_treeVars => TreeInv'
  BY TreeStep
<1>3. TreeInv => TreeIsRight
  BY TreeInvRight
<1> QED
  BY <1>1, <1>2, <1>3, PTL DEF TreeSpec

-----------------------------------------------------------------------------
(* Inode search.  What a process holds is a file by one of its names, and    *)
(* unless that name is gone it still is the file's; the history variables    *)
(* say what they are named for.                                              *)
Held == [path : FilePaths, file : Files, gone : BOOLEAN]
Carrying(p) == at[Place(p)] # NoFile /\ Ino[at[Place(p)]] = query.ino

FilesInv ==
  /\ at \in [Places -> Files \union {NoFile}]
  /\ slot \in [Slots -> Held \union {NoHit}]
  /\ \A k \in Slots : slot[k] # NoHit /\ ~ slot[k].gone => at[Place(slot[k].path)] = slot[k].file
  /\ edits \in 0..MaxEdits /\ late \in BOOLEAN
  /\ query \in Queries

PastInv ==
  /\ lost \in BOOLEAN
  /\ \A p \in FilePaths : Carrying(p) => <<p, Dev[at[Place(p)]]>> \in carried
  /\ stayed \subseteq FilePaths /\ \A p \in stayed : Carrying(p)
  /\ kept \subseteq Slots /\ \A k \in kept : slot[k] # NoHit
  /\ \A k \in Slots : slot[k] # NoHit => <<k[1], k[2], slot[k].path, slot[k].file>> \in heldBy

(* What the scan has stat'ed is what the slot still holds, what it has read  *)
(* was held, and a row's holders held its path - unless the fd was another   *)
(* by then.                                                                  *)
Devices == {Dev[x] : x \in DOMAIN Dev}
Hit == [slot : Slots, dev : Devices, path : FilePaths, deleted : BOOLEAN]
AskedFor(d) == query.dev # 0 => d = query.dev
WasHeld(k, p, d) ==
  \E h \in heldBy : <<h[1], h[2]>> = k /\ h[3] = p /\ Ino[h[4]] = query.ino /\ Dev[h[4]] = d
HeldInode(k, d) == \E h \in heldBy : <<h[1], h[2]>> = k /\ Ino[h[4]] = query.ino /\ Dev[h[4]] = d
HeldPath(k, p) == \E h \in heldBy : <<h[1], h[2]>> = k /\ h[3] = p
BothHeld(k, p, d) == HeldInode(k, d) /\ HeldPath(k, p)

StatOK(a) ==
  /\ a.slot \in Slots /\ a.dev \in Devices /\ AskedFor(a.dev)
  /\ HeldInode(a.slot, a.dev)
  /\ a.slot \notin reused => /\ slot[a.slot] # NoHit
                             /\ Ino[slot[a.slot].file] = query.ino /\ Dev[slot[a.slot].file] = a.dev
HitOK(h) ==
  /\ AskedFor(h.dev) /\ BothHeld(h.slot, h.path, h.dev)
  /\ h.slot \notin reused => /\ WasHeld(h.slot, h.path, h.dev)
                             /\ ~ h.deleted => <<h.path, h.dev>> \in carried
OnWalk(p, d) ==
  \/ <<p, d>> \in carried
  \/ p \in DOMAIN DirAt /\ Ino[DirAt[p]] = query.ino /\ Dev[DirAt[p]] = d
RowOK(m) ==
  /\ m \in Row /\ AskedFor(m.dev)
  /\ m.fromWalk => OnWalk(m.path, m.dev)
  /\ \A k \in m.holders : BothHeld(k, m.path, m.dev)
  /\ \A k \in m.holders \ reused : WasHeld(k, m.path, m.dev)
  /\ ~ m.fromWalk => m.holders # {}
  /\ ~ m.fromWalk /\ ~ m.deleted /\ m.holders \cap reused = {} => <<m.path, m.dev>> \in carried

ScanInv ==
  /\ step \in {"start", "proc", "fds", "walk", "done"}
  /\ pids \subseteq Procs /\ fds \subseteq Slots
  /\ step = "fds" => pids # {}
  /\ step # "fds" => stat = {} /\ hits = <<>>
  /\ \A a \in stat : StatOK(a)
  /\ \A a, b \in stat : a = b
  /\ hits \in Seq(Hit) /\ \A i \in DOMAIN hits : HitOK(hits[i])

MatchesInv ==
  /\ \A m \in rows : RowOK(m)
  /\ \A m, n \in rows : Same(m, n.path, n.dev) => m = n

(* Who held the inode all along is a holder, or is still to be read.         *)
Sought(k) == k \in kept /\ k[1] \notin Hidden /\ Wanted(slot[k].file)
IsHolder(k) == \E m \in rows : k \in m.holders
Unread(k) ==
  \/ k[1] \in pids \ {Pid}
  \/ k[1] = Pid /\ \/ k[2] = MapSlot
                   \/ k \in fds
                   \/ \E a \in stat : a.slot = k
                   \/ \E i \in DOMAIN hits : hits[i].slot = k
HoldersInv ==
  \A k \in Slots : Sought(k) =>
     /\ step = "proc" => k[1] \in pids \/ IsHolder(k)
     /\ step = "fds" => Unread(k) \/ IsHolder(k)
     /\ step \in {"walk", "done"} /\ query.ino # 0 => IsHolder(k)

(* The walk has under its root paths to visit, none on the way to another or *)
(* to one it has found.                                                      *)
Paths == DOMAIN DirAt \union FilePaths
WorkInv ==
  /\ seen \in Nat /\ timedOut \in BOOLEAN
  /\ plan.root \in DOMAIN DirAt
  /\ work \in Seq(Paths) /\ found \in Seq(Paths)
  /\ \A i, j \in DOMAIN found : found[i] = found[j] => i = j
  /\ step \notin {"walk", "done"} => found = <<>>
  /\ step = "walk" =>
       /\ AskedFor(plan.dev) /\ plan.dev = Dev[DirAt[plan.root]]
       /\ work # <<>>
       /\ \A i \in DOMAIN work : IsPrefix(plan.root, work[i])
       /\ \A i, j \in DOMAIN work : i # j => ~ IsPrefix(work[i], work[j])
       /\ \A i \in DOMAIN work, j \in DOMAIN found : ~ IsPrefix(work[i], found[j])
       /\ \A i \in DOMAIN found : found[i] \in FilePaths /\ <<found[i], plan.dev>> \in carried

(* Unless one was removed, what it has found is there; and a link that was   *)
(* there all along is found, or under a path to be visited.                  *)
Linked(p) == Carrying(p) /\ Dev[at[Place(p)]] = plan.dev
ToVisitFor(p) == \E i \in DOMAIN work : IsPrefix(work[i], p)
Owed(p) == Reached(p) /\ Dev[at[Place(p)]] = plan.dev
IsFound(p) == \E i \in DOMAIN found : found[i] = p
LinksInv ==
  /\ step = "walk" =>
       /\ ~ lost => \A i \in DOMAIN found : Linked(found[i])
       /\ \A p \in stayed : Owed(p) => ToVisitFor(p) \/ IsFound(p)
  /\ EveryLinkFound

SearchInv == FilesInv /\ PastInv /\ ScanInv /\ MatchesInv /\ HoldersInv /\ WorkInv


LEMMA DirectoryIs ==
  ASSUME NEW d \in DOMAIN DirAt
  PROVE  d \in Seq(Nat) /\ DirAt[d] \in Inodes /\ Dev[DirAt[d]] \in Devices /\ d \in Paths
BY SearchAssumption DEF Inodes, Range, Devices, Paths

(* A path of a file is that of a name in the directory it is at.             *)
LEMMA FilePathIs ==
  ASSUME NEW p \in FilePaths
  PROVE  /\ p \in Seq(Nat) /\ p # <<>> /\ p \notin DOMAIN DirAt
         /\ Front(p) \in DOMAIN DirAt /\ Last(p) \in Nat /\ Append(Front(p), Last(p)) = p
         /\ Place(p) \in Places
<1>1. PICK pl \in Places : p \in PathsOf(pl)
  BY DEF FilePaths
<1>2. PICK d \in DOMAIN DirAt : DirAt[d] = pl[1] /\ p = Append(d, pl[2])
  BY <1>1 DEF PathsOf
<1>3. d \in Seq(Nat) /\ pl[2] \in Nat /\ pl = <<pl[1], pl[2]>>
  BY SearchAssumption
<1>4. /\ p \in Seq(Nat) /\ p # <<>> /\ Len(p) = Len(d) + 1 /\ Len(d) \in Nat
      /\ \A i \in 1..Len(d) : p[i] = d[i]
      /\ p[Len(d) + 1] = pl[2]
  <2>1. Len(d) \in Nat
    BY <1>3, LenProperties
  <2>2. ASSUME NEW x \in Nat
        PROVE  /\ Append(d, x) \in Seq(Nat) /\ Append(d, x) # <<>> /\ Len(Append(d, x)) = Len(d) + 1
               /\ \A i \in 1..Len(d) : Append(d, x)[i] = d[i]
               /\ Append(d, x)[Len(d) + 1] = x
    BY <1>3, <2>1, AppendProperties
  <2> QED
    BY <1>2, <1>3, <2>1, <2>2, Zenon
<1>5. Len(p) - 1 = Len(d) /\ Len(d) \in 0..Len(p)
  BY <1>4
<1>6. Front(p) \in Seq(Nat) /\ Len(Front(p)) = Len(d) /\ \A i \in 1..Len(d) : Front(p)[i] = p[i]
  BY <1>4, <1>5, FirstOfIt DEF Front
<1>7. Front(p) = d
  BY <1>3, <1>4, <1>6, SeqEqual
<1>8. Last(p) = pl[2]
  BY <1>4 DEF Last
<1>9. Place(p) = pl
  BY <1>2, <1>3, <1>7, <1>8 DEF Place
<1>10. p \notin DOMAIN DirAt
  BY DEF FilePaths
<1> QED
  BY <1>2, <1>3, <1>4, <1>7, <1>8, <1>9, <1>10

LEMMA FileIs ==
  ASSUME FilesInv, NEW pl \in Places, at[pl] # NoFile
  PROVE  at[pl] \in Files /\ at[pl] \in Inodes /\ Dev[at[pl]] \in Devices
BY SearchAssumption DEF FilesInv, Inodes, Devices

LEMMA SlotIs ==
  ASSUME FilesInv, NEW k \in Slots, slot[k] # NoHit
  PROVE  /\ slot[k] \in Held /\ slot[k].path \in FilePaths /\ slot[k].file \in Files
         /\ slot[k].gone \in BOOLEAN /\ Dev[slot[k].file] \in Devices
<1>1. slot[k] \in Held
  BY DEF FilesInv
<1> QED
  BY <1>1, SearchAssumption DEF Held, Inodes, Devices

LEMMA HeldIsNotNone ==
  ASSUME NEW h \in Held
  PROVE  h # NoHit
BY SearchAssumption DEF Held, NoHit

-----------------------------------------------------------------------------
(* What happens on the node.                                                 *)

(* What a change of the node leaves as it was, as far as the search has seen *)
(* it: what stayed, what was kept, what was stat'ed and what was found.      *)
EditLeaves ==
  /\ step # "done" /\ UNCHANGED <<query, step, scan, walk>>
  /\ heldBy \subseteq heldBy' /\ carried \subseteq carried' /\ reused \subseteq reused'
  /\ \A p \in stayed' : p \in stayed /\ at'[Place(p)] = at[Place(p)]
  /\ \A k \in kept' : k \in kept /\ slot'[k].file = slot[k].file
  /\ \A a \in stat : a.slot \in Slots /\ a.slot \notin reused' /\ slot[a.slot] # NoHit =>
        slot'[a.slot] # NoHit /\ slot'[a.slot].file = slot[a.slot].file
  /\ ~ lost' => ~ lost
  /\ \A i \in DOMAIN found : ~ lost' /\ found[i] \in FilePaths /\ at[Place(found[i])] # NoFile =>
        at'[Place(found[i])] = at[Place(found[i])]

LEMMA LinkKeeps ==
  ASSUME FilesInv, PastInv, NEW pl \in Places, NEW f \in Files, Link(pl, f)
  PROVE  FilesInv' /\ PastInv' /\ EditLeaves
<1>1. /\ step # "done" /\ edits < MaxEdits /\ edits' = edits + 1
      /\ UNCHANGED <<late, query, step, scan, walk, slot, stayed, kept, heldBy, reused, lost>>
      /\ at[pl] = NoFile /\ at' = [at EXCEPT ![pl] = f]
      /\ carried' = carried \union CarriedIn(at')
  BY DEF Link, Editing
<1>2. /\ at' \in [Places -> Files \union {NoFile}]
      /\ \A o \in Places : o # pl => at'[o] = at[o]
  BY <1>1 DEF FilesInv
<1>3. \A o \in Places : at[o] # NoFile => at'[o] = at[o]
  BY <1>1, <1>2
<1>4. ASSUME NEW k \in Slots, slot[k] # NoHit, ~ slot[k].gone
      PROVE  at'[Place(slot[k].path)] = slot[k].file
  <2>1. slot[k].path \in FilePaths /\ slot[k].file \in Files /\ at[Place(slot[k].path)] = slot[k].file
    BY <1>4, SlotIs DEF FilesInv
  <2> QED
    BY <1>3, <2>1, FilePathIs, SearchAssumption
<1>5. FilesInv'
  BY <1>1, <1>2, <1>4, SearchAssumption DEF FilesInv
<1>6. ASSUME NEW p \in FilePaths, Carrying(p)'
      PROVE  <<p, Dev[at[Place(p)]]>>' \in carried'
  BY <1>1, <1>6 DEF CarriedIn, Carrying
<1>7. \A p \in stayed : p \in FilePaths /\ Place(p) \in Places /\ at[Place(p)] # NoFile /\ Carrying(p)
  BY FilePathIs DEF PastInv, Carrying
<1>8. \A p \in stayed : at'[Place(p)] = at[Place(p)] /\ Carrying(p)'
  BY <1>1, <1>3, <1>7 DEF Carrying
<1>9. PastInv'
  BY <1>1, <1>6, <1>8 DEF PastInv
<1>10. EditLeaves
  BY <1>1, <1>3, <1>8, FilePathIs DEF EditLeaves, scan, walk
<1> QED
  BY <1>5, <1>9, <1>10

LEMMA UnlinkKeeps ==
  ASSUME FilesInv, PastInv, NEW pl \in Places, Unlink(pl)
  PROVE  FilesInv' /\ PastInv' /\ EditLeaves
<1>1. /\ step # "done" /\ edits < MaxEdits /\ edits' = edits + 1
      /\ UNCHANGED <<late, query, step, scan, walk, carried, kept, heldBy, reused>>
      /\ at' = [at EXCEPT ![pl] = NoFile]
      /\ slot' = [k \in Slots |-> IF slot[k] # NoHit /\ Place(slot[k].path) = pl
                                   THEN [slot[k] EXCEPT !.gone = TRUE] ELSE slot[k]]
      /\ stayed' = {p \in stayed : Place(p) # pl}
      /\ lost' = (lost \/ \E i \in DOMAIN found : found[i] \in FilePaths /\ Place(found[i]) = pl)
  BY DEF Unlink, Editing
<1>2. /\ at' \in [Places -> Files \union {NoFile}]
      /\ \A o \in Places : o # pl => at'[o] = at[o]
      /\ at'[pl] = NoFile
  BY <1>1 DEF FilesInv
<1>3. ASSUME NEW k \in Slots, slot[k] # NoHit
      PROVE  /\ slot'[k] \in Held /\ slot'[k] # NoHit
             /\ slot'[k].path = slot[k].path /\ slot'[k].file = slot[k].file
             /\ ~ slot'[k].gone => ~ slot[k].gone /\ Place(slot[k].path) # pl
  <2>1. slot[k] \in Held
    BY <1>3, SlotIs
  <2>2. CASE Place(slot[k].path) = pl
    <3>1. slot'[k] = [slot[k] EXCEPT !.gone = TRUE]
      BY <1>1, <1>3, <2>2
    <3>2. /\ slot'[k] \in Held /\ slot'[k].path = slot[k].path /\ slot'[k].file = slot[k].file
          /\ slot'[k].gone = TRUE
      BY <2>1, <3>1 DEF Held
    <3> QED
      BY <3>2, HeldIsNotNone
  <2>3. CASE Place(slot[k].path) # pl
    <3>1. slot'[k] = slot[k]
      BY <1>1, <2>3
    <3> QED
      BY <1>3, <2>1, <2>3, <3>1
  <2> QED
    BY <2>2, <2>3
<1>4. \A k \in Slots : slot[k] = NoHit => slot'[k] = NoHit
  BY <1>1
<1>5. slot' \in [Slots -> Held \union {NoHit}]
  <2>1. \A k \in Slots : slot'[k] \in Held \union {NoHit}
    BY <1>3, <1>4
  <2> QED
    BY <1>1, <2>1
<1>6. ASSUME NEW k \in Slots, slot'[k] # NoHit, ~ slot'[k].gone
      PROVE  at'[Place(slot'[k].path)] = slot'[k].file
  <2>1. /\ slot[k] # NoHit /\ ~ slot[k].gone /\ Place(slot[k].path) # pl
        /\ slot'[k].path = slot[k].path /\ slot'[k].file = slot[k].file
    BY <1>3, <1>4, <1>6
  <2>2. slot[k].path \in FilePaths /\ at[Place(slot[k].path)] = slot[k].file
    BY <2>1, SlotIs DEF FilesInv
  <2> QED
    BY <1>2, <2>1, <2>2, FilePathIs
<1>7. FilesInv'
  BY <1>1, <1>2, <1>5, <1>6, SearchAssumption DEF FilesInv
<1>8. ASSUME NEW p \in FilePaths, Carrying(p)'
      PROVE  <<p, Dev[at[Place(p)]]>>' \in carried'
  <2>1. Place(p) \in Places /\ at'[Place(p)] # NoFile /\ Ino[at'[Place(p)]] = query.ino
    BY <1>1, <1>8, FilePathIs DEF Carrying
  <2>2. at'[Place(p)] = at[Place(p)]
    BY <1>2, <2>1
  <2>3. Carrying(p)
    BY <2>1, <2>2 DEF Carrying
  <2> QED
    BY <1>1, <2>2, <2>3 DEF PastInv
<1>9. \A p \in stayed : p \in FilePaths /\ Place(p) \in Places /\ Carrying(p)
  BY FilePathIs DEF PastInv
<1>10. \A p \in stayed' : p \in stayed /\ at'[Place(p)] = at[Place(p)] /\ Carrying(p)'
  BY <1>1, <1>2, <1>9 DEF Carrying
<1>11. \A k \in kept : k \in Slots /\ slot[k] # NoHit
  BY DEF PastInv
<1>12. ASSUME NEW k \in Slots, slot'[k] # NoHit
       PROVE  <<k[1], k[2], slot'[k].path, slot'[k].file>> \in heldBy'
  <2>1. slot[k] # NoHit /\ slot'[k].path = slot[k].path /\ slot'[k].file = slot[k].file
    BY <1>3, <1>4, <1>12
  <2>2. <<k[1], k[2], slot[k].path, slot[k].file>> \in heldBy
    BY <2>1 DEF PastInv
  <2> QED
    BY <1>1, <2>1, <2>2
<1>13. lost' \in BOOLEAN
  BY <1>1
<1>14. PastInv'
  BY <1>1, <1>3, <1>8, <1>9, <1>10, <1>11, <1>12, <1>13 DEF PastInv
<1>15. \A i \in DOMAIN found : ~ lost' /\ found[i] \in FilePaths => at'[Place(found[i])] = at[Place(found[i])]
  BY <1>1, <1>2, FilePathIs
<1>16. ~ lost' => ~ lost
  BY <1>1
<1>17. EditLeaves
  BY <1>1, <1>3, <1>10, <1>11, <1>15, <1>16 DEF EditLeaves, scan, walk
<1> QED
  BY <1>7, <1>14, <1>17

LEMMA SetSlotKeeps ==
  ASSUME FilesInv, PastInv, NEW k \in Slots, NEW h \in Held \union {NoHit}, SetSlot(k, h),
         h # NoHit => ~ h.gone
  PROVE  FilesInv' /\ PastInv' /\ EditLeaves
<1>1. /\ step # "done" /\ edits < MaxEdits /\ edits' = edits + 1
      /\ UNCHANGED <<late, query, step, scan, walk, at, stayed, carried, lost>>
      /\ h # NoHit => at[Place(h.path)] = h.file
      /\ slot' = [slot EXCEPT ![k] = h]
      /\ kept' = kept \ {k} /\ heldBy' = heldBy \union HeldIn(slot')
      /\ reused' = IF \E a \in stat : a.slot = k THEN reused \union {k} ELSE reused
  BY DEF SetSlot, Editing
<1>2. /\ slot' \in [Slots -> Held \union {NoHit}]
      /\ slot'[k] = h /\ \A o \in Slots : o # k => slot'[o] = slot[o]
  BY <1>1 DEF FilesInv
<1>3. \A o \in Slots : slot'[o] # NoHit /\ ~ slot'[o].gone => at[Place(slot'[o].path)] = slot'[o].file
  BY <1>1, <1>2 DEF FilesInv
<1>4. FilesInv'
  BY <1>1, <1>2, <1>3, SearchAssumption DEF FilesInv
<1>5. \A o \in Slots : slot'[o] # NoHit => <<o[1], o[2], slot'[o].path, slot'[o].file>> \in HeldIn(slot')
  BY DEF HeldIn
<1>6. \A p : Carrying(p)' <=> Carrying(p)
  BY <1>1 DEF Carrying
<1>7. \A o \in kept' : o \in kept /\ o \in Slots /\ o # k /\ slot'[o] = slot[o] /\ slot[o] # NoHit
  BY <1>1, <1>2 DEF PastInv
<1>8. PastInv'
  <2>1. \A p \in FilePaths : Carrying(p)' => <<p, Dev[at'[Place(p)]]>> \in carried'
    BY <1>1, <1>6 DEF PastInv
  <2>2. \A o \in Slots : slot'[o] # NoHit => <<o[1], o[2], slot'[o].path, slot'[o].file>> \in heldBy'
    <3>1. SUFFICES ASSUME NEW o \in Slots, slot'[o] # NoHit
                   PROVE  <<o[1], o[2], slot'[o].path, slot'[o].file>> \in heldBy'
      OBVIOUS
    <3>2. <<o[1], o[2], slot'[o].path, slot'[o].file>> \in HeldIn(slot')
      BY <1>5, <3>1
    <3> QED
      BY <1>1, <3>2
  <2>3. stayed' \subseteq FilePaths /\ \A p \in stayed' : Carrying(p)'
    BY <1>1, <1>6 DEF PastInv
  <2>4. kept' \subseteq Slots /\ \A o \in kept' : slot'[o] # NoHit
    BY <1>7
  <2>5. lost' \in BOOLEAN
    BY <1>1 DEF PastInv
  <2> QED
    BY <2>1, <2>2, <2>3, <2>4, <2>5 DEF PastInv
<1>9. \A a \in stat : a.slot \in Slots /\ a.slot \notin reused' => slot'[a.slot] = slot[a.slot]
  BY <1>1, <1>2
<1>10. heldBy \subseteq heldBy' /\ reused \subseteq reused'
  BY <1>1
<1>11. \A p \in stayed' : p \in stayed /\ at'[Place(p)] = at[Place(p)]
  BY <1>1
<1>12. EditLeaves
  BY <1>1, <1>7, <1>9, <1>10, <1>11 DEF EditLeaves
<1> QED
  BY <1>4, <1>8, <1>12

LEMMA EditKeeps ==
  ASSUME FilesInv, PastInv, Edit
  PROVE  FilesInv' /\ PastInv' /\ EditLeaves
<1>1. CASE \E pl \in Places : Unlink(pl) \/ \E f \in Files : Link(pl, f)
  BY <1>1, LinkKeeps, UnlinkKeeps
<1>2. CASE \E k \in Slots : SetSlot(k, NoHit)
  BY <1>2, SetSlotKeeps
<1>3. CASE \E k \in Slots : \E p \in FilePaths : at[Place(p)] # NoFile
               /\ SetSlot(k, [path |-> p, file |-> at[Place(p)], gone |-> FALSE])
  <2>1. PICK k \in Slots, p \in FilePaths : at[Place(p)] # NoFile
               /\ SetSlot(k, [path |-> p, file |-> at[Place(p)], gone |-> FALSE])
    BY <1>3
  <2>2. at[Place(p)] \in Files
    BY <2>1, FilePathIs, FileIs
  <2> DEFINE h == [path |-> p, file |-> at[Place(p)], gone |-> FALSE]
  <2>3. h \in Held /\ ~ h.gone
    BY <2>2 DEF Held
  <2> QED
    BY <2>1, <2>3, SetSlotKeeps
<1>4. CASE Late
  <2>1. step = "walk" /\ late' = TRUE /\ UNCHANGED <<at, slot, edits, query, step, scan, walk, past>>
    BY <1>4 DEF Late
  <2>2. FilesInv'
    BY <2>1 DEF FilesInv
  <2>3. PastInv'
    BY <2>1 DEF PastInv, Carrying, past
  <2>4. EditLeaves
    BY <2>1 DEF EditLeaves, past
  <2> QED
    BY <2>2, <2>3, <2>4
<1> QED
  BY <1>1, <1>2, <1>3, <1>4 DEF Edit

LEMMA LookupKeeps ==
  ASSUME FilesInv, PastInv, Lookup
  PROVE  FilesInv' /\ PastInv' /\ UNCHANGED <<at, slot, query, past>>
<1>1. UNCHANGED <<fs, query, past>>
  BY DEF Lookup, Start, ReadFds, StatFd, ReadlinkFd, EndProcess, Target, Visit
<1>2. UNCHANGED <<at, slot, edits, late, stayed, carried, kept, heldBy, lost>>
  BY <1>1 DEF fs, past
<1>3. \A p : Carrying(p)' <=> Carrying(p)
  BY <1>1, <1>2 DEF Carrying
<1> QED
  BY <1>1, <1>2, <1>3 DEF FilesInv, PastInv


-----------------------------------------------------------------------------
(* What has been read stays as true as it was, whatever happens.             *)

LEMMA StaysTrue ==
  ASSUME query' = query, heldBy \subseteq heldBy', carried \subseteq carried', reused \subseteq reused'
  PROVE  /\ \A d : AskedFor(d)' <=> AskedFor(d)
         /\ \A k, p, d : WasHeld(k, p, d) => WasHeld(k, p, d)'
         /\ \A k, d : HeldInode(k, d) => HeldInode(k, d)'
         /\ \A p, d : OnWalk(p, d) => OnWalk(p, d)'
         /\ \A h : HitOK(h) => HitOK(h)'
         /\ \A m : RowOK(m) => RowOK(m)'
<1>1. \A d : AskedFor(d)' <=> AskedFor(d)
  BY DEF AskedFor
<1>2. \A k, p, d : WasHeld(k, p, d) => WasHeld(k, p, d)'
  BY DEF WasHeld
<1>3. \A p, d : OnWalk(p, d) => OnWalk(p, d)'
  BY DEF OnWalk
<1>6. /\ \A k, d : HeldInode(k, d) => HeldInode(k, d)'
      /\ \A k, p, d : BothHeld(k, p, d) => BothHeld(k, p, d)'
  BY DEF HeldInode, HeldPath, BothHeld
<1>4. \A h : HitOK(h) => HitOK(h)'
  BY <1>1, <1>2, <1>6 DEF HitOK
<1>5. ASSUME NEW m, RowOK(m)
      PROVE  RowOK(m)'
  <2>1. m \in Row' /\ AskedFor(m.dev)'
    BY <1>1, <1>5 DEF RowOK, Row
  <2>2. \A k \in m.holders \ reused' : WasHeld(k, m.path, m.dev)'
    BY <1>2, <1>5 DEF RowOK
  <2>3. m.fromWalk => OnWalk(m.path, m.dev)'
    BY <1>3, <1>5 DEF RowOK
  <2>4. ~ m.fromWalk /\ ~ m.deleted /\ m.holders \cap reused' = {} => <<m.path, m.dev>> \in carried'
    BY <1>5 DEF RowOK
  <2>5. \A k \in m.holders : BothHeld(k, m.path, m.dev)'
    BY <1>5, <1>6 DEF RowOK
  <2> QED
    BY <1>5, <2>1, <2>2, <2>3, <2>4, <2>5 DEF RowOK
<1> QED
  BY <1>1, <1>2, <1>3, <1>4, <1>5, <1>6

LEMMA EditKeepsScan ==
  ASSUME FilesInv, PastInv, ScanInv, MatchesInv, HoldersInv, EditLeaves
  PROVE  ScanInv' /\ MatchesInv' /\ HoldersInv'
<1>1. /\ UNCHANGED <<query, step, pids, fds, stat, hits, rows>>
      /\ heldBy \subseteq heldBy' /\ carried \subseteq carried' /\ reused \subseteq reused'
      /\ \A k \in kept' : k \in kept /\ slot'[k].file = slot[k].file
      /\ \A a \in stat : a.slot \in Slots /\ a.slot \notin reused' /\ slot[a.slot] # NoHit =>
            slot'[a.slot] # NoHit /\ slot'[a.slot].file = slot[a.slot].file
  BY DEF EditLeaves, scan
<1>2. /\ \A d : AskedFor(d)' <=> AskedFor(d)
      /\ \A h : HitOK(h) => HitOK(h)'
      /\ \A m : RowOK(m) => RowOK(m)'
      /\ \A k, d : HeldInode(k, d) => HeldInode(k, d)'
  BY <1>1, StaysTrue
<1>3. \A a \in stat : StatOK(a)'
  BY <1>1, <1>2 DEF ScanInv, StatOK
<1>4. ScanInv'
  BY <1>1, <1>2, <1>3 DEF ScanInv
<1>5. MatchesInv'
  BY <1>1, <1>2 DEF MatchesInv
<1>6. \A k \in Slots : Sought(k)' => Sought(k)
  BY <1>1 DEF Sought, Wanted
<1>7. \A k : (IsHolder(k)' <=> IsHolder(k)) /\ (Unread(k)' <=> Unread(k))
  BY <1>1 DEF IsHolder, Unread, Pid
<1>8. HoldersInv'
  BY <1>1, <1>6, <1>7 DEF HoldersInv
<1> QED
  BY <1>4, <1>5, <1>8

LEMMA EditKeepsWork ==
  ASSUME WorkInv, EditLeaves
  PROVE  WorkInv'
<1>1. UNCHANGED <<query, step, plan, work, found, seen, timedOut>> /\ carried \subseteq carried'
  BY DEF EditLeaves, walk
<1> QED
  BY <1>1 DEF WorkInv, AskedFor

-----------------------------------------------------------------------------
(* The scan of the processes.                                                *)

(* Nothing is read: what was read, and what is sought, is as it was.         *)
LEMMA SameRows ==
  ASSUME FilesInv, MatchesInv, UNCHANGED <<at, slot, query, past>>, rows' = rows
  PROVE  /\ MatchesInv'
         /\ \A k \in Slots : (Sought(k)' <=> Sought(k)) /\ (IsHolder(k)' <=> IsHolder(k))
<1>1. UNCHANGED <<stayed, carried, kept, heldBy, reused, lost>>
  BY DEF past
<1>2. \A m : RowOK(m) => RowOK(m)'
  BY <1>1, StaysTrue
<1> QED
  BY <1>1, <1>2 DEF MatchesInv, Sought, Wanted, IsHolder

LEMMA PidIs ==
  ASSUME pids \subseteq Procs, pids # {}
  PROVE  Pid \in pids /\ Pid \in Procs
<1>1. pids \in SUBSET Nat
  BY SearchAssumption
<1>2. \E p \in pids : \A o \in pids : p <= o
  BY <1>1, LowestIsIn
<1> QED
  BY <1>2 DEF Pid

LEMMA StartKeepsScan ==
  ASSUME FilesInv, ScanInv, MatchesInv, HoldersInv, UNCHANGED <<at, slot, query, past>>, Start
  PROVE  ScanInv' /\ MatchesInv' /\ HoldersInv'
<1>1. /\ step = "start" /\ UNCHANGED <<fds, stat, hits, rows>>
      /\ \/ query.ino = 0 /\ step' = "done" /\ pids' = pids
         \/ query.ino # 0 /\ step' = "proc" /\ pids' = Procs
  BY DEF Start
<1>2. MatchesInv' /\ \A k \in Slots : (Sought(k)' <=> Sought(k)) /\ (IsHolder(k)' <=> IsHolder(k))
  BY <1>1, SameRows
<1>3. stat' = {} /\ hits' = <<>> /\ <<>> \in Seq(Hit) /\ DOMAIN <<>> = {}
  BY <1>1, EmptySeq DEF ScanInv
<1>4. ScanInv'
  BY <1>1, <1>3 DEF ScanInv
<1>5. \A k \in Slots : k[1] \in Procs
  BY DEF Slots
<1>6. HoldersInv'
  BY <1>1, <1>5 DEF HoldersInv
<1> QED
  BY <1>2, <1>4, <1>6

LEMMA ReadFdsKeepsScan ==
  ASSUME FilesInv, PastInv, ScanInv, MatchesInv, HoldersInv, UNCHANGED <<at, slot, query, past>>, ReadFds
  PROVE  ScanInv' /\ MatchesInv' /\ HoldersInv'
<1>1. /\ step = "proc" /\ pids # {} /\ step' = "fds" /\ UNCHANGED <<pids, stat, hits, rows>>
      /\ fds' = {k \in Slots : k[1] = Pid /\ k[1] \notin Hidden /\ k[2] # MapSlot /\ slot[k] # NoHit}
  BY DEF ReadFds
<1>2. MatchesInv' /\ \A k \in Slots : (Sought(k)' <=> Sought(k)) /\ (IsHolder(k)' <=> IsHolder(k))
  BY <1>1, SameRows
<1>3. stat' = {} /\ hits' = <<>> /\ <<>> \in Seq(Hit) /\ DOMAIN <<>> = {}
  BY <1>1, EmptySeq DEF ScanInv
<1>4. ScanInv'
  BY <1>1, <1>3 DEF ScanInv
<1>5. ASSUME NEW k \in Slots, Sought(k)
      PROVE  Unread(k)' \/ IsHolder(k)
  <2>1. k[1] \notin Hidden /\ slot[k] # NoHit
    BY <1>5 DEF Sought, PastInv
  <2>2. k[1] \in pids \/ IsHolder(k)
    BY <1>1, <1>5 DEF HoldersInv
  <2>3. Pid' = Pid
    BY <1>1 DEF Pid
  <2>4. CASE k[1] = Pid
    <3>1. k[2] = MapSlot \/ k \in fds'
      BY <1>1, <2>1, <2>4
    <3> QED
      BY <2>3, <2>4, <3>1 DEF Unread
  <2>5. CASE k[1] # Pid /\ k[1] \in pids
    BY <1>1, <2>3, <2>5 DEF Unread
  <2> QED
    BY <2>2, <2>4, <2>5
<1>6. HoldersInv'
  BY <1>1, <1>2, <1>5 DEF HoldersInv
<1> QED
  BY <1>2, <1>4, <1>6

LEMMA StatKeepsScan ==
  ASSUME FilesInv, PastInv, ScanInv, MatchesInv, HoldersInv, UNCHANGED <<at, slot, query, past>>, StatFd
  PROVE  ScanInv' /\ MatchesInv' /\ HoldersInv'
<1>1. step = "fds" /\ stat = {} /\ UNCHANGED <<step, pids, hits, rows>>
  BY DEF StatFd
<1>2. PICK o \in fds : /\ fds' = fds \ {o}
                       /\ stat' = IF slot[o] # NoHit /\ Wanted(slot[o].file)
                                  THEN {[slot |-> o, dev |-> Dev[slot[o].file]]} ELSE {}
  BY DEF StatFd
<1>3. MatchesInv' /\ \A k \in Slots : (Sought(k)' <=> Sought(k)) /\ (IsHolder(k)' <=> IsHolder(k))
  BY <1>1, SameRows
<1>4. UNCHANGED <<slot, query, reused, heldBy, carried>>
  BY DEF past
<1>5. o \in Slots
  BY <1>2 DEF ScanInv
<1>6. \A a \in stat' : a.slot = o /\ a.dev = Dev[slot[o].file] /\ slot[o] # NoHit /\ Wanted(slot[o].file)
  BY <1>2
<1>7. \A a \in stat' : StatOK(a)'
  <2>1. slot[o] # NoHit => Dev[slot[o].file] \in Devices
    BY <1>5, SlotIs
  <2>2. Wanted(slot[o].file) => Ino[slot[o].file] = query.ino /\ AskedFor(Dev[slot[o].file])
    BY DEF Wanted, AskedFor
  <2>3. \A d : AskedFor(d)' <=> AskedFor(d)
    BY DEF AskedFor
  <2>4. ASSUME slot[o] # NoHit, Wanted(slot[o].file)
        PROVE  HeldInode(o, Dev[slot[o].file])'
    <3>1. <<o[1], o[2], slot[o].path, slot[o].file>> \in heldBy' /\ <<o[1], o[2]>> = o
      BY <1>4, <1>5, <2>4 DEF PastInv, Slots
    <3>2. Ino[slot[o].file] = query'.ino
      BY <2>2, <2>4
    <3> QED
      BY <1>4, <3>1, <3>2 DEF HeldInode
  <2> QED
    BY <1>4, <1>5, <1>6, <2>1, <2>2, <2>3, <2>4 DEF StatOK
<1>8. \A a, b \in stat' : a = b
  BY <1>2
<1>9. \A h : HitOK(h) => HitOK(h)'
  BY <1>4, StaysTrue
<1>10. ScanInv'
  BY <1>1, <1>2, <1>7, <1>8, <1>9 DEF ScanInv
<1>11. ASSUME NEW k \in Slots, Sought(k), Unread(k)
       PROVE  Unread(k)'
  <2>1. Pid' = Pid
    BY <1>1 DEF Pid
  <2>2. k = o => \E a \in stat' : a.slot = k
    BY <1>2, <1>11 DEF Sought, PastInv
  <2>3. k \in fds => k \in fds' \/ \E a \in stat' : a.slot = k
    BY <1>2, <2>2
  <2> QED
    BY <1>1, <1>11, <2>1, <2>3 DEF Unread
<1>12. HoldersInv'
  BY <1>1, <1>3, <1>11 DEF HoldersInv
<1> QED
  BY <1>3, <1>10, <1>12

LEMMA ReadlinkKeepsScan ==
  ASSUME FilesInv, PastInv, ScanInv, MatchesInv, HoldersInv, UNCHANGED <<at, slot, query, past>>, ReadlinkFd
  PROVE  ScanInv' /\ MatchesInv' /\ HoldersInv'
<1>1. step = "fds" /\ stat' = {} /\ UNCHANGED <<step, pids, fds, rows>>
  BY DEF ReadlinkFd
<1>2. PICK a \in stat :
        hits' = IF slot[a.slot] = NoHit THEN hits
                ELSE Append(hits, [slot |-> a.slot, dev |-> a.dev,
                                   path |-> slot[a.slot].path, deleted |-> slot[a.slot].gone])
  BY DEF ReadlinkFd
<1>3. MatchesInv' /\ \A k \in Slots : (Sought(k)' <=> Sought(k)) /\ (IsHolder(k)' <=> IsHolder(k))
  BY <1>1, SameRows
<1>4. UNCHANGED <<at, slot, query, reused, heldBy, carried>>
  BY DEF past
<1>5. \A h : HitOK(h) => HitOK(h)'
  BY <1>4, StaysTrue
<1>6. StatOK(a) /\ a.slot \in Slots /\ hits \in Seq(Hit) /\ \A i \in DOMAIN hits : HitOK(hits[i])
  BY DEF ScanInv, StatOK
<1>7. CASE slot[a.slot] = NoHit
  <2>1. hits' = hits
    BY <1>2, <1>7
  <2>2. ScanInv'
    BY <1>1, <1>5, <2>1 DEF ScanInv
  <2>3. ASSUME NEW k \in Slots, Sought(k), Unread(k)
        PROVE  Unread(k)'
    <3>1. Pid' = Pid
      BY <1>1 DEF Pid
    <3>2. \A b \in stat : b = a
      BY DEF ScanInv
    <3>3. slot[k] # NoHit
      BY <2>3 DEF Sought, PastInv
    <3>4. \A b \in stat : b.slot # k
      BY <1>7, <3>2, <3>3
    <3> QED
      BY <1>1, <2>1, <2>3, <3>1, <3>4 DEF Unread
  <2>4. HoldersInv'
    BY <1>1, <1>3, <2>3 DEF HoldersInv
  <2> QED
    BY <1>3, <2>2, <2>4
<1>8. CASE slot[a.slot] # NoHit
  <2> DEFINE h == [slot |-> a.slot, dev |-> a.dev, path |-> slot[a.slot].path, deleted |-> slot[a.slot].gone]
             s == slot[a.slot]
  <2>1. hits' = Append(hits, h)
    BY <1>2, <1>8
  <2>2. s.path \in FilePaths /\ s.file \in Files /\ s.gone \in BOOLEAN
    BY <1>6, <1>8, SlotIs
  <2>3. h \in Hit
    BY <1>6, <2>2 DEF Hit, StatOK
  <2>4. /\ h.slot = a.slot /\ h.dev = a.dev /\ h.path = s.path /\ h.deleted = s.gone
    OBVIOUS
  <2>5. a.slot \notin reused => WasHeld(a.slot, s.path, a.dev)
    <3>1. SUFFICES ASSUME a.slot \notin reused PROVE WasHeld(a.slot, s.path, a.dev)
      OBVIOUS
    <3>2. Ino[s.file] = query.ino /\ Dev[s.file] = a.dev
      BY <1>6, <3>1 DEF StatOK
    <3>3. <<a.slot[1], a.slot[2], s.path, s.file>> \in heldBy
      BY <1>6, <1>8 DEF PastInv
    <3>4. <<a.slot[1], a.slot[2]>> = a.slot
      BY <1>6 DEF Slots
    <3> HIDE DEF s
    <3> QED
      BY <3>2, <3>3, <3>4 DEF WasHeld
  <2>6. a.slot \notin reused /\ ~ s.gone => <<s.path, a.dev>> \in carried
    <3>1. SUFFICES ASSUME a.slot \notin reused, ~ s.gone PROVE <<s.path, a.dev>> \in carried
      OBVIOUS
    <3>2. Ino[s.file] = query.ino /\ Dev[s.file] = a.dev
      BY <1>6, <3>1 DEF StatOK
    <3>3. at[Place(s.path)] = s.file /\ s.file # NoFile
      BY <1>6, <1>8, <2>2, <3>1, SearchAssumption DEF FilesInv
    <3> HIDE DEF s
    <3>4. Carrying(s.path)
      BY <3>2, <3>3 DEF Carrying
    <3> QED
      BY <2>2, <3>2, <3>3, <3>4 DEF PastInv
  <2>13. BothHeld(a.slot, s.path, a.dev)
    <3>1. <<a.slot[1], a.slot[2], s.path, s.file>> \in heldBy
      BY <1>6, <1>8 DEF PastInv
    <3>2. <<a.slot[1], a.slot[2]>> = a.slot
      BY <1>6 DEF Slots
    <3> HIDE DEF s
    <3> QED
      BY <1>6, <3>1, <3>2 DEF StatOK, BothHeld, HeldPath
  <2>7. HitOK(h)
    BY <1>6, <2>4, <2>5, <2>6, <2>13 DEF HitOK, StatOK
  <2> HIDE DEF h, s
  <2>8. /\ hits' \in Seq(Hit) /\ Len(hits') = Len(hits) + 1 /\ Len(hits) \in Nat
        /\ \A i \in 1..Len(hits) : hits'[i] = hits[i]
        /\ hits'[Len(hits) + 1] = h
        /\ DOMAIN hits = 1..Len(hits) /\ DOMAIN hits' = 1..(Len(hits) + 1)
    BY <1>6, <2>1, <2>3, AppendProperties, LenProperties
  <2>9. \A i \in DOMAIN hits' : HitOK(hits'[i])
    BY <1>6, <2>7, <2>8
  <2>10. ScanInv'
    BY <1>1, <1>5, <2>8, <2>9 DEF ScanInv
  <2>11. ASSUME NEW k \in Slots, Sought(k), Unread(k)
         PROVE  Unread(k)'
    <3>1. Pid' = Pid
      BY <1>1 DEF Pid
    <3>2. \A b \in stat : b = a
      BY DEF ScanInv
    <3>3. \A b \in stat : b.slot = k => \E i \in DOMAIN hits' : hits'[i].slot = k
      BY <2>4, <2>8, <3>2
    <3>4. \A i \in DOMAIN hits : hits[i].slot = k => \E j \in DOMAIN hits' : hits'[j].slot = k
      BY <2>8
    <3> QED
      BY <1>1, <2>11, <3>1, <3>3, <3>4 DEF Unread
  <2>12. HoldersInv'
    BY <1>1, <1>3, <2>11 DEF HoldersInv
  <2> QED
    BY <1>3, <2>10, <2>12
<1> QED
  BY <1>7, <1>8


LEMMA MapsHit ==
  ASSUME FilesInv, PastInv, NEW p \in Procs
  PROVE  /\ mapsHits(p) \in Seq(Hit)
         /\ \A i \in DOMAIN mapsHits(p) : HitOK(mapsHits(p)[i])
         /\ Sought(<<p, MapSlot>>) => \E i \in DOMAIN mapsHits(p) : mapsHits(p)[i].slot = <<p, MapSlot>>
<1> DEFINE k == <<p, MapSlot>>
           h == [slot |-> k, dev |-> Dev[slot[k].file], path |-> slot[k].path, deleted |-> slot[k].gone]
<1>1. k \in Slots /\ k[1] = p /\ k[2] = MapSlot
  BY DEF Slots
<1>2. CASE p \in Hidden \/ slot[k] = NoHit \/ ~ Wanted(slot[k].file)
  <2>1. mapsHits(p) = <<>>
    BY <1>2 DEF mapsHits
  <2>2. ~ Sought(k)
    BY <1>1, <1>2 DEF Sought, PastInv
  <2> QED
    BY <2>1, <2>2, EmptySeq
<1>3. CASE ~ (p \in Hidden \/ slot[k] = NoHit \/ ~ Wanted(slot[k].file))
  <2>1. mapsHits(p) = <<h>>
    BY <1>3 DEF mapsHits
  <2>2. slot[k].path \in FilePaths /\ slot[k].file \in Files /\ slot[k].gone \in BOOLEAN /\ Dev[slot[k].file] \in Devices
    BY <1>1, <1>3, SlotIs
  <2>3. h \in Hit
    BY <1>1, <2>2 DEF Hit
  <2>4. h.slot = k /\ h.dev = Dev[slot[k].file] /\ h.path = slot[k].path /\ h.deleted = slot[k].gone
    OBVIOUS
  <2>5. Ino[slot[k].file] = query.ino /\ AskedFor(Dev[slot[k].file])
    BY <1>3 DEF Wanted, AskedFor
  <2>6. <<k[1], k[2], slot[k].path, slot[k].file>> \in heldBy /\ <<k[1], k[2]>> = k
    BY <1>1, <1>3 DEF PastInv
  <2> HIDE DEF k, h
  <2>7. WasHeld(k, slot[k].path, Dev[slot[k].file]) /\ BothHeld(k, slot[k].path, Dev[slot[k].file])
    BY <2>5, <2>6 DEF WasHeld, BothHeld, HeldInode, HeldPath
  <2>8. ~ slot[k].gone => <<slot[k].path, Dev[slot[k].file]>> \in carried
    <3>1. SUFFICES ASSUME ~ slot[k].gone PROVE <<slot[k].path, Dev[slot[k].file]>> \in carried
      OBVIOUS
    <3>2. at[Place(slot[k].path)] = slot[k].file /\ slot[k].file # NoFile
      BY <1>1, <1>3, <2>2, <3>1, SearchAssumption DEF FilesInv
    <3>3. Carrying(slot[k].path)
      BY <2>5, <3>2 DEF Carrying
    <3> QED
      BY <2>2, <3>2, <3>3 DEF PastInv
  <2>9. HitOK(h)
    BY <2>4, <2>5, <2>7, <2>8 DEF HitOK
  <2>10. <<h>> \in Seq(Hit) /\ DOMAIN <<h>> = {1} /\ <<h>>[1] = h
    BY <2>3
  <2>11. \E i \in DOMAIN mapsHits(p) : mapsHits(p)[i].slot = k
    BY <2>1, <2>4, <2>10
  <2> QED
    BY <2>1, <2>9, <2>10, <2>11 DEF k
<1> QED
  BY <1>2, <1>3

LEMMA JoinedHits ==
  ASSUME NEW s \in Seq(Hit), NEW t \in Seq(Hit)
  PROVE  /\ s \o t \in Seq(Hit)
         /\ \A i \in DOMAIN (s \o t) : \/ \E j \in DOMAIN s : (s \o t)[i] = s[j]
                                       \/ \E j \in DOMAIN t : (s \o t)[i] = t[j]
         /\ \A j \in DOMAIN s : \E i \in DOMAIN (s \o t) : (s \o t)[i] = s[j]
         /\ \A j \in DOMAIN t : \E i \in DOMAIN (s \o t) : (s \o t)[i] = t[j]
<1> DEFINE n == Len(s)
           m == Len(t)
<1>1. /\ n \in Nat /\ m \in Nat /\ DOMAIN s = 1..n /\ DOMAIN t = 1..m
      /\ s \o t \in Seq(Hit) /\ Len(s \o t) = n + m /\ DOMAIN (s \o t) = 1..(n + m)
      /\ \A i \in 1..(n + m) : (s \o t)[i] = IF i <= n THEN s[i] ELSE t[i - n]
  BY ConcatProperties, LenProperties
<1> HIDE DEF n, m
<1>2. ASSUME NEW i \in 1..(n + m)
      PROVE  \/ \E j \in 1..n : (s \o t)[i] = s[j]
             \/ \E j \in 1..m : (s \o t)[i] = t[j]
  <2>1. \/ i \in 1..n /\ i <= n
        \/ ~ (i <= n) /\ i - n \in 1..m
    BY <1>1, PlacesIn, Zenon
  <2> QED
    BY <1>1, <2>1
<1>3. ASSUME NEW j \in 1..m
      PROVE  \E i \in 1..(n + m) : (s \o t)[i] = t[j]
  <2>1. PICK i \in 1..(n + m) : i = n + j
    BY <1>1
  <2>2. ~ (i <= n) /\ i - n = j
    BY <1>1, <2>1
  <2> QED
    BY <1>1, <2>2
<1>4. ASSUME NEW j \in 1..n
      PROVE  \E i \in 1..(n + m) : (s \o t)[i] = s[j]
  <2>1. j \in 1..(n + m) /\ j <= n
    BY <1>1
  <2> QED
    BY <1>1, <2>1
<1>5. /\ s \o t \in Seq(Hit) /\ DOMAIN s = 1..n /\ DOMAIN t = 1..m /\ DOMAIN (s \o t) = 1..(n + m)
  BY <1>1
<1> QED
  BY <1>2, <1>3, <1>4, <1>5, Zenon

(* What a row made of hits says is what its hits say, and every hit is in one. *)
LEMMA GroupedHits ==
  ASSUME MatchesInv, NEW hs \in Seq(Hit), \A i \in DOMAIN hs : HitOK(hs[i])
  PROVE  /\ \A m \in AddHits(rows, hs) : RowOK(m)
         /\ \A m, n \in AddHits(rows, hs) : Same(m, n.path, n.dev) => m = n
         /\ \A m \in rows : \E n \in AddHits(rows, hs) : m.holders \subseteq n.holders
         /\ \A i \in DOMAIN hs : \E n \in AddHits(rows, hs) : hs[i].slot \in n.holders
<1> DEFINE joined(m) == [m EXCEPT !.holders = @ \union Holders(hs, m.path, m.dev)]
           fresh(i) == [path |-> hs[i].path, dev |-> hs[i].dev, deleted |-> hs[i].deleted,
                       reach |-> hostPath(hs[i].slot[1]), holders |-> Holders(hs, hs[i].path, hs[i].dev),
                       fromWalk |-> FALSE]
<1>0. AddHits(rows, hs) = {joined(m) : m \in rows} \union {fresh(i) : i \in Firsts(rows, hs)}
  BY Zenon DEF AddHits
<1>1. \A i \in DOMAIN hs : /\ hs[i] \in Hit /\ hs[i].slot \in Slots /\ hs[i].path \in FilePaths
                           /\ hs[i].dev \in Devices /\ hs[i].deleted \in BOOLEAN
  <2>1. \A i \in DOMAIN hs : hs[i] \in Hit
    BY LenProperties, ElementOfSeq
  <2> QED
    BY <2>1 DEF Hit
<1>2. \A p, d : \A k \in Holders(hs, p, d) :
         \E i \in DOMAIN hs : k = hs[i].slot /\ hs[i].path = p /\ hs[i].dev = d
  BY DEF Holders, Same
<1>3. \A i \in DOMAIN hs : \A p, d : hs[i].path = p /\ hs[i].dev = d => hs[i].slot \in Holders(hs, p, d)
  BY DEF Holders, Same
<1>4. \A p, d : Holders(hs, p, d) \subseteq Slots
  BY <1>1, <1>2
<1>5. ASSUME NEW p, NEW d, NEW k \in Holders(hs, p, d) \ reused
      PROVE  WasHeld(k, p, d)
  <2>1. PICK i \in DOMAIN hs : k = hs[i].slot /\ hs[i].path = p /\ hs[i].dev = d
    BY <1>2
  <2>2. HitOK(hs[i])
    OBVIOUS
  <2> QED
    BY <2>1, <2>2 DEF HitOK
<1>16. ASSUME NEW p, NEW d, NEW k \in Holders(hs, p, d)
       PROVE  BothHeld(k, p, d)
  <2>1. PICK i \in DOMAIN hs : k = hs[i].slot /\ hs[i].path = p /\ hs[i].dev = d
    BY <1>2
  <2>2. HitOK(hs[i])
    OBVIOUS
  <2> QED
    BY <2>1, <2>2 DEF HitOK
<1>6. \A m \in rows : RowOK(m) /\ m \in Row
  BY DEF MatchesInv, RowOK
<1>7. ASSUME NEW m \in rows
      PROVE  /\ joined(m) \in Row /\ joined(m).holders = m.holders \union Holders(hs, m.path, m.dev)
             /\ joined(m).path = m.path /\ joined(m).dev = m.dev
             /\ joined(m).deleted = m.deleted /\ joined(m).fromWalk = m.fromWalk
  BY <1>4, <1>6 DEF Row
<1>8. ASSUME NEW i \in DOMAIN hs
      PROVE  /\ fresh(i) \in Row /\ fresh(i).holders = Holders(hs, hs[i].path, hs[i].dev)
             /\ fresh(i).path = hs[i].path /\ fresh(i).dev = hs[i].dev
             /\ fresh(i).deleted = hs[i].deleted /\ fresh(i).fromWalk = FALSE
  <2>1. hs[i].slot[1] \in Procs
    BY <1>1 DEF Slots
  <2>2. hostPath(hs[i].slot[1]) \subseteq Procs \union {1}
    BY <2>1 DEF hostPath
  <2> QED
    BY <1>1, <1>4, <2>2 DEF Row, Devices
<1>9. \A i \in Firsts(rows, hs) : /\ i \in DOMAIN hs
                                  /\ \A m \in rows : ~ Same(m, hs[i].path, hs[i].dev)
                                  /\ \A j \in 1..(i - 1) : ~ Same(hs[j], hs[i].path, hs[i].dev)
  BY DEF Firsts
<1> HIDE DEF joined, fresh
<1>10. ASSUME NEW m \in rows
       PROVE  RowOK(joined(m))
  <2>1. \A k \in joined(m).holders \ reused : WasHeld(k, m.path, m.dev)
    BY <1>5, <1>6, <1>7 DEF RowOK
  <2>2. \A k \in joined(m).holders : BothHeld(k, m.path, m.dev)
    BY <1>6, <1>7, <1>16 DEF RowOK
  <2> QED
    BY <1>6, <1>7, <2>1, <2>2 DEF RowOK
<1>11. ASSUME NEW i \in DOMAIN hs
       PROVE  RowOK(fresh(i))
  <2>1. \A k \in fresh(i).holders \ reused : WasHeld(k, fresh(i).path, fresh(i).dev)
    BY <1>5, <1>8
  <2>2. hs[i].slot \in fresh(i).holders
    <3>1. hs[i].slot \in Holders(hs, hs[i].path, hs[i].dev)
      BY <1>3
    <3> QED
      BY <1>8, <3>1
  <2>3. HitOK(hs[i])
    OBVIOUS
  <2>4. \A k \in fresh(i).holders : BothHeld(k, fresh(i).path, fresh(i).dev)
    BY <1>8, <1>16
  <2> QED
    BY <1>8, <2>1, <2>2, <2>3, <2>4 DEF RowOK, HitOK
<1>12. \A m \in AddHits(rows, hs) : RowOK(m)
  BY <1>0, <1>9, <1>10, <1>11
<1>13. ASSUME NEW m \in AddHits(rows, hs), NEW n \in AddHits(rows, hs), Same(m, n.path, n.dev)
       PROVE  m = n
  <2>1. CASE (\E x \in rows : m = joined(x)) /\ (\E y \in rows : n = joined(y))
    <3>1. PICK x \in rows, y \in rows : m = joined(x) /\ n = joined(y)
      BY <2>1
    <3>2. Same(x, y.path, y.dev)
      BY <1>7, <1>13, <3>1 DEF Same
    <3>3. x = y
      BY <3>2 DEF MatchesInv
    <3> QED
      BY <3>1, <3>3
  <2>2. CASE (\E x \in rows : m = joined(x)) /\ (\E j \in Firsts(rows, hs) : n = fresh(j))
    <3>1. PICK x \in rows, j \in Firsts(rows, hs) : m = joined(x) /\ n = fresh(j)
      BY <2>2
    <3>2. m.path = x.path /\ m.dev = x.dev /\ n.path = hs[j].path /\ n.dev = hs[j].dev
      BY <1>7, <1>8, <1>9, <3>1
    <3>3. Same(x, hs[j].path, hs[j].dev)
      BY <1>13, <3>2 DEF Same
    <3> QED
      BY <1>9, <3>3
  <2>3. CASE (\E i \in Firsts(rows, hs) : m = fresh(i)) /\ (\E y \in rows : n = joined(y))
    <3>1. PICK i \in Firsts(rows, hs), y \in rows : m = fresh(i) /\ n = joined(y)
      BY <2>3
    <3>2. n.path = y.path /\ n.dev = y.dev /\ m.path = hs[i].path /\ m.dev = hs[i].dev
      BY <1>7, <1>8, <1>9, <3>1
    <3>3. Same(y, hs[i].path, hs[i].dev)
      BY <1>13, <3>2 DEF Same
    <3> QED
      BY <1>9, <3>3
  <2>4. CASE (\E i \in Firsts(rows, hs) : m = fresh(i)) /\ (\E j \in Firsts(rows, hs) : n = fresh(j))
    <3>1. PICK i \in Firsts(rows, hs), j \in Firsts(rows, hs) : m = fresh(i) /\ n = fresh(j)
      BY <2>4
    <3>2. i \in DOMAIN hs /\ j \in DOMAIN hs /\ DOMAIN hs = 1..Len(hs) /\ Len(hs) \in Nat
      BY <1>9, LenProperties
    <3>3. hs[i].path = hs[j].path /\ hs[i].dev = hs[j].dev
      BY <1>8, <1>13, <3>1, <3>2 DEF Same
    <3>4. ~ (i \in 1..(j - 1)) /\ ~ (j \in 1..(i - 1))
      BY <1>9, <3>3 DEF Same
    <3>5. i = j
      BY <3>2, <3>4
    <3> QED
      BY <3>1, <3>5
  <2> QED
    BY <1>0, <1>13, <2>1, <2>2, <2>3, <2>4
<1>14. \A m \in rows : \E n \in AddHits(rows, hs) : m.holders \subseteq n.holders
  BY <1>0, <1>7
<1>15. ASSUME NEW i \in DOMAIN hs
       PROVE  \E n \in AddHits(rows, hs) : hs[i].slot \in n.holders
  <2>1. CASE \E m \in rows : Same(m, hs[i].path, hs[i].dev)
    BY <1>0, <1>3, <1>7, <2>1 DEF Same
  <2>2. CASE ~ \E m \in rows : Same(m, hs[i].path, hs[i].dev)
    <3> DEFINE S == {j \in DOMAIN hs : Same(hs[j], hs[i].path, hs[i].dev)}
    <3>1. S \in SUBSET Nat /\ i \in S
      BY LenProperties DEF Same
    <3>2. PICK j \in S : \A o \in S : j <= o
      BY <3>1, LowestIsIn
    <3>3. /\ j \in DOMAIN hs /\ hs[j].path = hs[i].path /\ hs[j].dev = hs[i].dev
          /\ DOMAIN hs = 1..Len(hs) /\ Len(hs) \in Nat
      BY <3>2, LenProperties DEF Same
    <3>4. ASSUME NEW o \in 1..(j - 1)
          PROVE  ~ Same(hs[o], hs[j].path, hs[j].dev)
      <4>1. o \in DOMAIN hs /\ ~ (j <= o)
        BY <3>3
      <4> QED
        BY <3>2, <3>3, <4>1
    <3>5. j \in Firsts(rows, hs)
      BY <2>2, <3>3, <3>4 DEF Firsts
    <3>6. hs[i].slot \in fresh(j).holders
      <4>1. hs[i].slot \in Holders(hs, hs[j].path, hs[j].dev)
        BY <1>3, <3>3
      <4> QED
        BY <1>8, <3>3, <4>1
    <3> QED
      BY <1>0, <3>5, <3>6
  <2> QED
    BY <2>1, <2>2
<1> QED
  BY <1>12, <1>13, <1>14, <1>15

LEMMA EndProcessKeepsScan ==
  ASSUME FilesInv, PastInv, ScanInv, MatchesInv, HoldersInv, UNCHANGED <<at, slot, query, past>>, EndProcess
  PROVE  ScanInv' /\ MatchesInv' /\ HoldersInv'
<1> DEFINE more == mapsHits(Pid)
           all == hits \o more
<1>1. /\ step = "fds" /\ fds = {} /\ stat = {} /\ rows' = AddHits(rows, all)
      /\ hits' = <<>> /\ pids' = pids \ {Pid} /\ step' = "proc" /\ UNCHANGED <<fds, stat>>
  BY DEF EndProcess
<1>2. Pid \in pids /\ Pid \in Procs
  BY <1>1, PidIs DEF ScanInv
<1>3. UNCHANGED <<at, slot, query, reused, heldBy, carried, kept>>
  BY DEF past
<1>4. /\ more \in Seq(Hit) /\ \A i \in DOMAIN more : HitOK(more[i])
      /\ Sought(<<Pid, MapSlot>>) => \E i \in DOMAIN more : more[i].slot = <<Pid, MapSlot>>
  BY <1>2, MapsHit
<1>5. hits \in Seq(Hit) /\ \A i \in DOMAIN hits : HitOK(hits[i])
  BY DEF ScanInv
<1> HIDE DEF more
<1>6. /\ all \in Seq(Hit)
      /\ \A i \in DOMAIN all : \/ \E j \in DOMAIN hits : all[i] = hits[j]
                               \/ \E j \in DOMAIN more : all[i] = more[j]
      /\ \A j \in DOMAIN hits : \E i \in DOMAIN all : all[i] = hits[j]
      /\ \A j \in DOMAIN more : \E i \in DOMAIN all : all[i] = more[j]
  BY <1>4, <1>5, JoinedHits
<1> HIDE DEF all
<1>7. \A i \in DOMAIN all : HitOK(all[i])
  BY <1>4, <1>5, <1>6
<1>8. /\ \A m \in rows' : RowOK(m)
      /\ \A m, n \in rows' : Same(m, n.path, n.dev) => m = n
      /\ \A m \in rows : \E n \in rows' : m.holders \subseteq n.holders
      /\ \A i \in DOMAIN all : \E n \in rows' : all[i].slot \in n.holders
  BY <1>1, <1>6, <1>7, GroupedHits
<1>9. \A m : RowOK(m) => RowOK(m)'
  BY <1>3, StaysTrue
<1>10. MatchesInv'
  BY <1>8, <1>9 DEF MatchesInv
<1>11. <<>> \in Seq(Hit) /\ DOMAIN <<>> = {}
  BY EmptySeq
<1>12. ScanInv'
  BY <1>1, <1>11 DEF ScanInv
<1>13. ASSUME NEW k \in Slots, Sought(k)
       PROVE  k[1] \in pids' \/ IsHolder(k)'
  <2>1. Unread(k) \/ IsHolder(k)
    BY <1>1, <1>13 DEF HoldersInv
  <2>2. CASE IsHolder(k)
    BY <1>8, <2>2 DEF IsHolder
  <2>3. CASE k[1] \in pids \ {Pid}
    BY <1>1, <2>3
  <2>4. CASE k[1] = Pid /\ k[2] = MapSlot
    <3>1. k = <<Pid, MapSlot>>
      BY <2>4 DEF Slots
    <3>2. \E i \in DOMAIN all : all[i].slot = k
      BY <1>4, <1>6, <1>13, <3>1
    <3> QED
      BY <1>8, <3>2 DEF IsHolder
  <2>5. CASE \E i \in DOMAIN hits : hits[i].slot = k
    BY <1>6, <1>8, <2>5 DEF IsHolder
  <2> QED
    BY <1>1, <2>1, <2>2, <2>3, <2>4, <2>5 DEF Unread
<1>14. \A k \in Slots : Sought(k)' <=> Sought(k)
  BY <1>3 DEF Sought, Wanted
<1>15. HoldersInv'
  BY <1>1, <1>13, <1>14 DEF HoldersInv
<1> QED
  BY <1>10, <1>12, <1>15


-----------------------------------------------------------------------------
(* The walk.                                                                 *)

LEMMA PathsAre ==
  /\ Paths \subseteq Seq(Nat)
  /\ \A p \in FilePaths : p \in Paths
  /\ \A p \in Paths : p \in FilePaths <=> p \notin DOMAIN DirAt
BY DirectoryIs, FilePathIs DEF Paths

(* The target of a walk is a directory, on the device that is asked for.     *)
LEMMA TargetIs ==
  /\ walkTarget.root \in DOMAIN DirAt
  /\ walkTarget.note = "" =>
       AskedFor(walkTarget.dev) /\ walkTarget.dev = Dev[DirAt[walkTarget.root]]
<1> DEFINE byDevice == query.root = {} /\ query.dev # 0
           mounted == query.dev \in DOMAIN readMounts
           top == IF query.root # {} THEN CHOOSE r \in query.root : TRUE
                  ELSE IF byDevice /\ mounted THEN readMounts[query.dev] ELSE <<>>
<1>1. walkTarget =
        IF byDevice /\ ~ mounted THEN [NoPlan EXCEPT !.note = "not mounted"]
        ELSE IF top \notin DOMAIN DirAt THEN [NoPlan EXCEPT !.note = "cannot read"]
        ELSE IF query.dev # 0 /\ Dev[DirAt[top]] # query.dev
             THEN [NoPlan EXCEPT !.note = "wrong device"]
        ELSE [root |-> top, dev |-> Dev[DirAt[top]], note |-> ""]
  BY Zenon DEF walkTarget
<1> HIDE DEF byDevice, mounted, top
<1>2. <<>> \in DOMAIN DirAt
  BY SearchAssumption
<1>3. \A s : /\ [NoPlan EXCEPT !.note = s].root = <<>>
             /\ [NoPlan EXCEPT !.note = s].note = s
  BY DEF NoPlan
<1> QED
  BY <1>1, <1>2, <1>3 DEF AskedFor

LEMMA TargetKeeps ==
  ASSUME FilesInv, PastInv, ScanInv, MatchesInv, HoldersInv, WorkInv,
         UNCHANGED <<at, slot, query, past>>, Target
  PROVE  ScanInv' /\ MatchesInv' /\ HoldersInv' /\ WorkInv'
<1>1. /\ step = "proc" /\ pids = {} /\ UNCHANGED <<pids, fds, stat, hits, rows, found, seen, timedOut>>
      /\ \/ /\ query.walk /\ plan' = walkTarget /\ work' = <<plan'.root>>
            /\ step' = IF plan'.note = "" THEN "walk" ELSE "done"
         \/ ~ query.walk /\ step' = "done" /\ UNCHANGED <<plan, work>>
  BY DEF Target, scan
<1>0. step = "proc" /\ stat' = stat /\ hits' = hits /\ found' = found /\ seen' = seen /\ timedOut' = timedOut
  BY <1>1
<1>2. MatchesInv' /\ \A k \in Slots : (Sought(k)' <=> Sought(k)) /\ (IsHolder(k)' <=> IsHolder(k))
  BY <1>1, SameRows
<1>3. stat' = {} /\ hits' = <<>> /\ <<>> \in Seq(Hit) /\ DOMAIN <<>> = {}
  BY <1>0, EmptySeq DEF ScanInv
<1>4. step' \in {"walk", "done"}
  BY <1>1
<1>5. ScanInv'
  BY <1>1, <1>3, <1>4 DEF ScanInv
<1>6. HoldersInv'
  BY <1>1, <1>2, <1>4 DEF HoldersInv
<1>7. found = <<>> /\ found' = <<>> /\ DOMAIN found' = {} /\ seen' \in Nat /\ timedOut' \in BOOLEAN
  BY <1>0 DEF WorkInv
<1>8. CASE query.walk
  <2>1. plan' = walkTarget /\ work' = <<plan'.root>> /\ (step' = "walk" => plan'.note = "")
    BY <1>1, <1>8
  <2>2. /\ plan'.root \in DOMAIN DirAt
        /\ plan'.note = "" => AskedFor(plan'.dev) /\ plan'.dev = Dev[DirAt[plan'.root]]
    BY <2>1, TargetIs
  <2>3. plan'.root \in Paths /\ plan'.root \in Seq(Nat) /\ IsPrefix(plan'.root, plan'.root)
    BY <2>2, DirectoryIs, UnderItself
  <2>4. work' \in Seq(Paths) /\ work' # <<>> /\ DOMAIN work' = {1} /\ work'[1] = plan'.root
    <3>1. \A r \in Paths : <<r>> \in Seq(Paths) /\ <<r>> # <<>> /\ DOMAIN <<r>> = {1} /\ <<r>>[1] = r
      OBVIOUS
    <3> QED
      BY <2>1, <2>3, <3>1
  <2>5. \A i \in DOMAIN work' : work'[i] = plan'.root /\ \A j \in DOMAIN work' : i = j
    BY <2>4
  <2>6. step' = "walk" => AskedFor(plan.dev)'
    BY <2>1, <2>2 DEF AskedFor
  <2>7. found' \in Seq(Paths)
    BY <1>7, EmptySeq
  <2> QED
    <3>1. WorkInv'
      BY <1>7, <2>1, <2>2, <2>3, <2>4, <2>5, <2>6, <2>7 DEF WorkInv
    <3> QED
      BY <1>2, <1>5, <1>6, <3>1
<1>9. CASE ~ query.walk
  <2>1. step' = "done" /\ UNCHANGED <<plan, work, found>>
    BY <1>1, <1>9
  <2>2. WorkInv'
    BY <1>7, <2>1 DEF WorkInv
  <2> QED
    BY <1>2, <1>5, <1>6, <2>2
<1> QED
  BY <1>8, <1>9

(* What it has found, with or without the path it visits.                    *)
LEMMA OneMoreFound ==
  ASSUME NEW s \in Seq(Paths), NEW p \in Paths
  PROVE  /\ Append(s, p) \in Seq(Paths) /\ Len(Append(s, p)) = Len(s) + 1 /\ Len(s) \in Nat
         /\ DOMAIN s = 1..Len(s) /\ DOMAIN Append(s, p) = 1..(Len(s) + 1)
         /\ \A i \in DOMAIN Append(s, p) : \/ i \in DOMAIN s /\ Append(s, p)[i] = s[i]
                                           \/ i = Len(s) + 1 /\ Append(s, p)[i] = p
         /\ \A i \in DOMAIN s : i \in DOMAIN Append(s, p) /\ Append(s, p)[i] = s[i]
         /\ \E i \in DOMAIN Append(s, p) : Append(s, p)[i] = p
<1>1. /\ Append(s, p) \in Seq(Paths) /\ Len(Append(s, p)) = Len(s) + 1 /\ Len(s) \in Nat
      /\ DOMAIN s = 1..Len(s) /\ DOMAIN Append(s, p) = 1..(Len(s) + 1)
      /\ \A i \in 1..Len(s) : Append(s, p)[i] = s[i]
      /\ Append(s, p)[Len(s) + 1] = p
  BY AppendProperties, LenProperties
<1>2. \A i \in 1..(Len(s) + 1) : i \in 1..Len(s) \/ i = Len(s) + 1
  BY <1>1
<1>3. \A i \in 1..Len(s) : i \in 1..(Len(s) + 1)
  BY <1>1
<1>4. Len(s) + 1 \in 1..(Len(s) + 1)
  BY <1>1
<1> QED
  BY <1>1, <1>2, <1>3, <1>4

(* What a walk leaves alone.                                                 *)
OnlyTheWalk == /\ step = "walk" /\ seen' = seen + 1 /\ timedOut' \in BOOLEAN
               /\ UNCHANGED <<at, slot, query, past, pids, fds, stat, hits, plan>>

(* The walk ends, with what it has found.                                    *)
LEMMA EndsKeeps ==
  ASSUME FilesInv, PastInv, ScanInv, MatchesInv, HoldersInv, WorkInv, OnlyTheWalk,
         NEW fnd \in Seq(Paths), \A i, j \in DOMAIN fnd : fnd[i] = fnd[j] => i = j,
         \A i \in DOMAIN fnd : OnWalk(fnd[i], plan.dev), Ends(fnd)
  PROVE  ScanInv' /\ MatchesInv' /\ HoldersInv' /\ WorkInv'
<1>1. step = "walk" /\ step' = "done" /\ found' = fnd /\ rows' = mergeMatches(fnd) /\ work' = <<>>
  BY DEF Ends, OnlyTheWalk
<1>2. UNCHANGED <<at, slot, query, pids, fds, stat, hits, plan, kept, carried, heldBy, reused>>
  BY DEF OnlyTheWalk, past
<1>3. /\ \A m : RowOK(m) => RowOK(m)'
      /\ \A h : HitOK(h) => HitOK(h)'
  BY <1>2, StaysTrue
<1> DEFINE new == {p \in Range(fnd) : \A m \in rows : ~ Same(m, p, plan.dev)}
<1>4. rows' = rows \union {AsFound(p) : p \in new}
  BY <1>1 DEF mergeMatches
<1>5. ASSUME NEW p \in new
      PROVE  /\ AsFound(p).path = p /\ AsFound(p).dev = plan.dev /\ RowOK(AsFound(p))
             /\ \A m \in rows : ~ Same(m, p, plan.dev)
  <2>1. p \in Range(fnd) /\ \A m \in rows : ~ Same(m, p, plan.dev)
    OBVIOUS
  <2>2. p \in Paths /\ OnWalk(p, plan.dev)
    BY <2>1, LenProperties, ElementOfSeq DEF Range
  <2>3. plan.dev \in Devices /\ AskedFor(plan.dev)
    BY <1>1, DirectoryIs DEF WorkInv
  <2>4. /\ AsFound(p).path = p /\ AsFound(p).dev = plan.dev /\ AsFound(p).deleted = FALSE
        /\ AsFound(p).holders = {} /\ AsFound(p).fromWalk = TRUE
    BY DEF AsFound
  <2>5. AsFound(p) \in Row
    BY <2>2, <2>3 DEF AsFound, Row, Devices, Paths
  <2>6. RowOK(AsFound(p))
    BY <2>2, <2>3, <2>4, <2>5 DEF RowOK
  <2> QED
    BY <2>1, <2>4, <2>6
<1> HIDE DEF new
<1>6. \A m \in rows' : RowOK(m)
  BY <1>4, <1>5 DEF MatchesInv
<1>7. ASSUME NEW m \in rows', NEW n \in rows', Same(m, n.path, n.dev)
      PROVE  m = n
  <2>1. CASE m \in rows /\ n \in rows
    BY <1>7, <2>1 DEF MatchesInv
  <2>2. CASE m \in rows /\ \E q \in new : n = AsFound(q)
    BY <1>5, <1>7, <2>2 DEF Same
  <2>3. CASE (\E p \in new : m = AsFound(p)) /\ n \in rows
    BY <1>5, <1>7, <2>3 DEF Same
  <2>4. CASE (\E p \in new : m = AsFound(p)) /\ (\E q \in new : n = AsFound(q))
    BY <1>5, <1>7, <2>4 DEF Same
  <2> QED
    BY <1>4, <1>7, <2>1, <2>2, <2>3, <2>4
<1>8. MatchesInv'
  BY <1>3, <1>6, <1>7 DEF MatchesInv
<1>9. stat' = {} /\ hits' = <<>> /\ <<>> \in Seq(Hit) /\ DOMAIN <<>> = {}
  BY <1>1, <1>2, EmptySeq DEF ScanInv
<1>10. ScanInv'
  BY <1>1, <1>2, <1>9 DEF ScanInv
<1>11. \A k \in Slots : (Sought(k)' <=> Sought(k)) /\ (IsHolder(k) => IsHolder(k)')
  BY <1>2, <1>4 DEF Sought, Wanted, IsHolder
<1>12. HoldersInv'
  BY <1>1, <1>2, <1>11 DEF HoldersInv
<1>13. seen' \in Nat /\ timedOut' \in BOOLEAN /\ plan'.root \in DOMAIN DirAt
  BY <1>2 DEF WorkInv, OnlyTheWalk
<1>14. work' \in Seq(Paths)
  BY <1>1, EmptySeq
<1>15. WorkInv'
  BY <1>1, <1>13, <1>14 DEF WorkInv
<1> QED
  BY <1>8, <1>10, <1>12, <1>15

(* The walk goes on, with what is to be visited and what it has found.       *)
LEMMA GoesOnKeeps ==
  ASSUME FilesInv, PastInv, ScanInv, MatchesInv, HoldersInv, WorkInv, OnlyTheWalk,
         NEW left \in Seq(Paths), NEW fnd \in Seq(Paths),
         \A i, j \in DOMAIN fnd : fnd[i] = fnd[j] => i = j,
         \A i \in DOMAIN fnd : fnd[i] \in FilePaths /\ <<fnd[i], plan.dev>> \in carried,
         \A i \in DOMAIN left : IsPrefix(plan.root, left[i]),
         \A i, j \in DOMAIN left : i # j => ~ IsPrefix(left[i], left[j]),
         \A i \in DOMAIN left, j \in DOMAIN fnd : ~ IsPrefix(left[i], fnd[j]),
         GoesOn(left, fnd)
  PROVE  ScanInv' /\ MatchesInv' /\ HoldersInv' /\ WorkInv'
<1>1. CASE left = <<>>
  <2>1. Ends(fnd)
    BY <1>1 DEF GoesOn
  <2>2. \A i \in DOMAIN fnd : OnWalk(fnd[i], plan.dev)
    BY DEF OnWalk
  <2> QED
    BY <2>1, <2>2, EndsKeeps
<1>2. CASE left # <<>>
  <2>1. found' = fnd /\ work' = left /\ UNCHANGED <<step, rows>> /\ step = "walk"
    BY <1>2 DEF GoesOn, OnlyTheWalk
  <2>2. UNCHANGED <<at, slot, query, past, pids, fds, stat, hits, plan, carried, reused>>
    BY DEF OnlyTheWalk, past
  <2>3. MatchesInv' /\ \A k \in Slots : (Sought(k)' <=> Sought(k)) /\ (IsHolder(k)' <=> IsHolder(k))
    BY <2>1, <2>2, SameRows
  <2>4. stat' = {} /\ hits' = <<>> /\ <<>> \in Seq(Hit) /\ DOMAIN <<>> = {}
    BY <2>1, <2>2, EmptySeq DEF ScanInv
  <2>5. ScanInv'
    BY <2>1, <2>2, <2>4 DEF ScanInv
  <2>6. HoldersInv'
    BY <2>1, <2>2, <2>3 DEF HoldersInv
  <2>7. seen' \in Nat /\ timedOut' \in BOOLEAN
    BY DEF WorkInv, OnlyTheWalk
  <2>8. /\ AskedFor(plan.dev)' /\ plan'.dev = Dev[DirAt[plan'.root]] /\ plan'.root \in DOMAIN DirAt
    BY <2>1, <2>2 DEF WorkInv, AskedFor
  <2>9. WorkInv'
    BY <1>2, <2>1, <2>2, <2>7, <2>8 DEF WorkInv
  <2> QED
    BY <2>3, <2>5, <2>6, <2>9
<1> QED
  BY <1>1, <1>2


(* What a visit does, by what it visits.                                     *)
Passed(p) ==
  \/ p \in DOMAIN DirAt /\ (Dev[DirAt[p]] # plan.dev \/ DirAt[p] \in Unreadable)
  \/ p \in FilePaths /\ ~ Linked(p)
VisitIs(p) ==
  \/ timedOut' = TRUE /\ Ends(found)
  \/ /\ p \in DOMAIN DirAt /\ Ino[DirAt[p]] = query.ino /\ Dev[DirAt[p]] = plan.dev
     /\ Ends(Append(found, p))
  \/ /\ p \in FilePaths /\ Linked(p) /\ Len(found) + 1 >= Links(at[Place(p)])
     /\ Ends(Append(found, p))
  \/ p \in FilePaths /\ Linked(p) /\ GoesOn(Tail(work), Append(found, p))
  \/ /\ p \in DOMAIN DirAt /\ Ino[DirAt[p]] # query.ino
     /\ \E s \in ByName(Entries(p)) : GoesOn(s \o Tail(work), found)
  \/ Passed(p) /\ GoesOn(Tail(work), found)

LEMMA AVisit ==
  ASSUME WorkInv, Visit, UNCHANGED <<at, slot, query, past>>
  PROVE  /\ OnlyTheWalk /\ work # <<>> /\ 1 \in DOMAIN work
         /\ work[1] \in Paths /\ VisitIs(work[1])
<1> DEFINE p == Head(work)
<1>1. /\ step = "walk" /\ seen' = seen + 1 /\ timedOut' = TooLate /\ VisitPath(p, Tail(work))
      /\ UNCHANGED <<pids, fds, stat, hits, plan>>
  BY DEF Visit
<1>2. work # <<>> /\ work \in Seq(Paths) /\ p = work[1] /\ p \in Paths /\ 1 \in DOMAIN work
  <2>1. work # <<>> /\ work \in Seq(Paths)
    BY <1>1 DEF WorkInv
  <2>2. p \in Paths
    BY <2>1, HeadTailProperties
  <2>3. Len(work) \in Nat \ {0} /\ DOMAIN work = 1..Len(work)
    BY <2>1, LenProperties, EmptySeq
  <2>4. p = work[1]
    BY <2>1, <2>3
  <2> QED
    BY <2>1, <2>2, <2>3, <2>4
<1>3. TooLate \in BOOLEAN
  BY DEF TooLate
<1>4. OnlyTheWalk
  BY <1>1, <1>3 DEF OnlyTheWalk
<1> HIDE DEF p
<1>5. plan.dev = Dev[DirAt[plan.root]]
  BY <1>1 DEF WorkInv
<1>6. CASE TooLate
  <2>1. timedOut' = TRUE
    BY <1>1, <1>3, <1>6
  <2>2. Ends(found)
    BY <1>1, <1>6 DEF VisitPath
  <2>3. VisitIs(p)
    BY <2>1, <2>2, Zenon DEF VisitIs
  <2> QED
    BY <1>2, <1>4, <2>3
<1>7. CASE ~ TooLate /\ p \in DOMAIN DirAt
  <2>1. VisitDir(p, Tail(work))
    BY <1>1, <1>7 DEF VisitPath
  <2>2. CASE p # plan.root /\ Dev[DirAt[p]] # plan.dev
    <3>1. GoesOn(Tail(work), found)
      BY <2>1, <2>2, Zenon DEF VisitDir
    <3>2. Passed(p)
      BY <1>7, <2>2 DEF Passed
    <3>3. VisitIs(p)
      BY <3>1, <3>2, Zenon DEF VisitIs
    <3> QED
      BY <1>2, <1>4, <3>3
  <2>3. CASE ~ (p # plan.root /\ Dev[DirAt[p]] # plan.dev)
    <3>1. Dev[DirAt[p]] = plan.dev
      BY <1>5, <2>3
    <3>2. \/ Ino[DirAt[p]] = query.ino /\ Ends(Append(found, p))
          \/ DirAt[p] \in Unreadable /\ GoesOn(Tail(work), found)
          \/ /\ Ino[DirAt[p]] # query.ino
             /\ \E s \in ByName(Entries(p)) : GoesOn(s \o Tail(work), found)
      BY <2>1, <2>3, Zenon DEF VisitDir
    <3>3. DirAt[p] \in Unreadable => Passed(p)
      BY <1>7 DEF Passed
    <3>4. VisitIs(p)
      BY <1>7, <3>1, <3>2, <3>3, Zenon DEF VisitIs
    <3> QED
      BY <1>2, <1>4, <3>4
  <2> QED
    BY <2>2, <2>3
<1>8. CASE ~ TooLate /\ p \notin DOMAIN DirAt
  <2>1. VisitFile(p, Tail(work)) /\ p \in FilePaths
    BY <1>1, <1>2, <1>8 DEF VisitPath, Paths
  <2> QED
    <3> DEFINE f == at[Place(p)]
    <3>1. \/ (f = NoFile \/ Ino[f] # query.ino \/ Dev[f] # plan.dev) /\ GoesOn(Tail(work), found)
          \/ /\ ~ (f = NoFile \/ Ino[f] # query.ino \/ Dev[f] # plan.dev)
             /\ \/ Len(found) + 1 >= Links(f) /\ Ends(Append(found, p))
                \/ GoesOn(Tail(work), Append(found, p))
      BY <2>1, Zenon DEF VisitFile
    <3>2. Linked(p) <=> ~ (f = NoFile \/ Ino[f] # query.ino \/ Dev[f] # plan.dev)
      BY DEF Linked, Carrying
    <3>3. ~ Linked(p) => Passed(p)
      BY <2>1 DEF Passed
    <3>4. VisitIs(p)
      BY <2>1, <3>1, <3>2, <3>3, Zenon DEF VisitIs
    <3> QED
      BY <1>2, <1>4, <3>4
<1> QED
  BY <1>2, <1>4, <1>6, <1>7, <1>8

(* A directory's entries are paths, each a name longer than the directory's.  *)
LEMMA EntriesAre ==
  ASSUME NEW p \in DOMAIN DirAt
  PROVE  /\ Entries(p) \subseteq Paths /\ IsFiniteSet(Entries(p)) /\ <<>> \notin Entries(p)
         /\ AreChildren(Entries(p), p)
<1> DEFINE dirs == {d \in DOMAIN DirAt : d # <<>> /\ Front(d) = p}
           files == {pl \in Places : pl[1] = DirAt[p] /\ at[pl] # NoFile}
           names == {Append(p, pl[2]) : pl \in files}
<1>1. Entries(p) = dirs \union (names \ DOMAIN DirAt)
  BY DEF Entries
<1>2. IsFiniteSet(dirs) /\ IsFiniteSet(files)
  <2>1. dirs \in SUBSET DOMAIN DirAt /\ files \in SUBSET Places
    OBVIOUS
  <2> HIDE DEF dirs, files
  <2> QED
    BY <2>1, SearchAssumption, FS_Subset
<1>3. IsFiniteSet(names)
  <2> DEFINE of == [x \in files |-> Append(p, x[2])]
  <2>1. of \in Surjection(files, names)
    <3>1. of \in [files -> names]
      OBVIOUS
    <3>2. \A c \in names : \E x \in files : of[x] = c
      OBVIOUS
    <3> QED
      BY <3>1, <3>2 DEF Surjection
  <2> HIDE DEF files, names, of
  <2> QED
    BY <1>2, <2>1, FS_Surjection
<1>4. IsFiniteSet(Entries(p))
  <2>1. names \ DOMAIN DirAt \in SUBSET names
    OBVIOUS
  <2> HIDE DEF dirs, names
  <2>2. IsFiniteSet(names \ DOMAIN DirAt)
    BY <1>3, <2>1, FS_Subset
  <2> QED
    BY <1>1, <1>2, <2>2, FS_Union
<1>5. p \in Seq(Nat)
  BY DirectoryIs
<1>6. ASSUME NEW c \in names, c \notin DOMAIN DirAt
      PROVE  c \in FilePaths /\ c # <<>> /\ Front(c) = p
  <2>1. PICK pl \in Places : pl[1] = DirAt[p] /\ c = Append(p, pl[2])
    BY <1>6
  <2>2. c \in PathsOf(pl)
    BY <2>1 DEF PathsOf
  <2>3. c \in FilePaths
    BY <1>6, <2>2 DEF FilePaths
  <2>4. pl[2] \in Nat
    BY SearchAssumption
  <2>5. /\ c \in Seq(Nat) /\ c # <<>> /\ Len(c) = Len(p) + 1 /\ Len(p) \in Nat
        /\ \A i \in 1..Len(p) : c[i] = p[i]
    BY <1>5, <2>1, <2>4, AppendProperties, LenProperties
  <2>6. Len(c) - 1 = Len(p) /\ Len(p) \in 0..Len(c)
    BY <2>5
  <2>7. Front(c) \in Seq(Nat) /\ Len(Front(c)) = Len(p) /\ \A i \in 1..Len(p) : Front(c)[i] = c[i]
    BY <2>5, <2>6, FirstOfIt DEF Front
  <2>8. Front(c) = p
    BY <1>5, <2>5, <2>7, SeqEqual
  <2> QED
    BY <2>3, <2>5, <2>8
<1>7. \A c \in dirs : c \in Paths /\ c # <<>> /\ Front(c) = p
  BY DEF Paths
<1> HIDE DEF dirs, names
<1>8. \A c \in Entries(p) : c \in Paths /\ c # <<>> /\ Front(c) = p
  BY <1>1, <1>6, <1>7 DEF Paths
<1> QED
  BY <1>4, <1>8 DEF AreChildren

(* What is left to be visited once a path is: all but it, with what is in it. *)
LEMMA WorkLeft ==
  ASSUME WorkInv, step = "walk", NEW K \in SUBSET Paths, AreChildren(K, work[1]),
         NEW s \in Seq(Paths), EachOnce(s, K), NEW fnd \in Seq(Paths),
         \A j \in DOMAIN fnd : fnd[j] = work[1] \/ \E i \in DOMAIN found : fnd[j] = found[i],
         K = {} \/ \A j \in DOMAIN fnd : fnd[j] # work[1]
  PROVE  LET left == s \o Tail(work)
         IN  /\ left \in Seq(Paths) /\ InPlaceOfFirst(left, work, K)
             /\ \A i \in DOMAIN left : IsPrefix(plan.root, left[i])
             /\ NoneUnder(left)
             /\ \A i \in DOMAIN left, j \in DOMAIN fnd : ~ IsPrefix(left[i], fnd[j])
<1> DEFINE left == s \o Tail(work)
           p == work[1]
<1>1. /\ work \in Seq(Paths) /\ work # <<>> /\ found \in Seq(Paths)
      /\ \A i \in DOMAIN work : IsPrefix(plan.root, work[i])
      /\ NoneUnder(work)
      /\ \A i \in DOMAIN work, j \in DOMAIN found : ~ IsPrefix(work[i], found[j])
      /\ plan.root \in Seq(Nat)
  BY DirectoryIs DEF WorkInv, NoneUnder
<1>2. /\ 1 \in DOMAIN work /\ \A i \in DOMAIN work : work[i] \in Paths /\ work[i] \in Seq(Nat)
  BY <1>1, LenProperties, EmptySeq, ElementOfSeq, PathsAre
<1>3. p \in Seq(Nat) /\ p \in Paths
  BY <1>2
<1>4. left \in Seq(Paths) /\ InPlaceOfFirst(left, work, K) /\ NoneUnder(left)
  <2>1. Paths \in SUBSET Seq(Nat)
    BY PathsAre
  <2> QED
    BY <1>1, <2>1, NextInWalk
<1>5. \A c \in K : c \in Seq(Nat) /\ IsPrefix(p, c)
  BY PathsAre, ChildOfIt DEF AreChildren
<1>6. \A i \in DOMAIN left : left[i] \in K \/ \E k \in DOMAIN work : k # 1 /\ left[i] = work[k]
  BY <1>4 DEF InPlaceOfFirst
<1>7. \A j \in DOMAIN fnd : fnd[j] = p \/ \E i \in DOMAIN found : fnd[j] = found[i]
  OBVIOUS
<1>8. K = {} \/ \A j \in DOMAIN fnd : fnd[j] # p
  OBVIOUS
<1> HIDE DEF left, p
<1>9. \A i \in DOMAIN left : IsPrefix(plan.root, left[i])
  <2>1. \A c \in K : IsPrefix(plan.root, c)
    <3>1. IsPrefix(plan.root, p)
      BY <1>1, <1>2 DEF p
    <3> QED
      BY <1>1, <1>3, <1>5, <3>1, UnderBoth
  <2> QED
    BY <1>1, <1>6, <2>1
<1>10. ASSUME NEW i \in DOMAIN left, NEW j \in DOMAIN fnd, IsPrefix(left[i], fnd[j])
      PROVE  FALSE
  <2>1. fnd[j] \in Seq(Nat)
    BY LenProperties, ElementOfSeq, PathsAre
  <2>2. 1 \in DOMAIN work /\ p = work[1]
    BY <1>2 DEF p
  <2>3. CASE left[i] \in K
    <3>1. IsPrefix(p, fnd[j]) /\ K # {}
      BY <1>3, <1>5, <1>10, <2>1, <2>3, UnderBoth
    <3> QED
      BY <1>1, <1>7, <1>8, <2>2, <3>1
  <2>4. CASE \E k \in DOMAIN work : k # 1 /\ left[i] = work[k]
    BY <1>1, <1>2, <1>7, <1>10, <2>2, <2>4 DEF NoneUnder
  <2> QED
    BY <1>6, <2>3, <2>4
<1> QED
  BY <1>4, <1>9, <1>10 DEF left

(* What it has found, and a path that is not on the way to any of that, are   *)
(* each found once.                                                          *)
LEMMA FoundOnce ==
  ASSUME WorkInv, step = "walk", 1 \in DOMAIN work, work[1] \in Paths
  PROVE  /\ \A j \in DOMAIN found : found[j] # work[1]
         /\ LET fnd == Append(found, work[1])
            IN  /\ fnd \in Seq(Paths)
                /\ \A i, j \in DOMAIN fnd : fnd[i] = fnd[j] => i = j
                /\ \A j \in DOMAIN fnd : fnd[j] = work[1] \/ \E i \in DOMAIN found : fnd[j] = found[i]
<1> DEFINE p == work[1]
           fnd == Append(found, p)
<1>1. p \in Paths /\ p \in Seq(Nat) /\ found \in Seq(Paths) /\ \A i, j \in DOMAIN found : found[i] = found[j] => i = j
  BY PathsAre DEF WorkInv
<1>2. \A j \in DOMAIN found : found[j] # p
  BY <1>1, UnderItself DEF WorkInv
<1> HIDE DEF p
<1>3. /\ fnd \in Seq(Paths)
      /\ \A i \in DOMAIN fnd : \/ i \in DOMAIN found /\ fnd[i] = found[i]
                               \/ i = Len(found) + 1 /\ fnd[i] = p
  BY <1>1, OneMoreFound
<1> HIDE DEF fnd
<1>4. \A i, j \in DOMAIN fnd : fnd[i] = fnd[j] => i = j
  BY <1>1, <1>2, <1>3
<1>5. \A j \in DOMAIN fnd : fnd[j] = p \/ \E i \in DOMAIN found : fnd[j] = found[i]
  BY <1>3
<1> QED
  BY <1>2, <1>3, <1>4, <1>5 DEF p, fnd

(* A link that is found carried the inode, for it still does.                *)
LEMMA LinkedCarried ==
  ASSUME PastInv, NEW p \in FilePaths, Linked(p)
  PROVE  <<p, plan.dev>> \in carried
BY DEF PastInv, Linked

(* What is left, when nothing is in what was visited.                        *)
LEMMA NothingInIt ==
  ASSUME WorkInv, step = "walk", NEW fnd \in Seq(Paths),
         \A j \in DOMAIN fnd : fnd[j] = work[1] \/ \E i \in DOMAIN found : fnd[j] = found[i]
  PROVE  LET left == Tail(work)
         IN  /\ left \in Seq(Paths)
             /\ \A j \in DOMAIN work : j # 1 => \E i \in DOMAIN left : left[i] = work[j]
             /\ \A i \in DOMAIN left : IsPrefix(plan.root, left[i])
             /\ \A i, j \in DOMAIN left : i # j => ~ IsPrefix(left[i], left[j])
             /\ \A i \in DOMAIN left, j \in DOMAIN fnd : ~ IsPrefix(left[i], fnd[j])
<1> DEFINE left == <<>> \o Tail(work)
<1>1. work \in Seq(Paths) /\ work # <<>>
  BY DEF WorkInv
<1>2. Tail(work) \in Seq(Paths)
  BY <1>1, HeadTailProperties
<1>3. left = Tail(work) /\ <<>> \in Seq(Paths) /\ DOMAIN <<>> = {}
  BY <1>2, ConcatEmptySeq, EmptySeq
<1>4. {} \in SUBSET Paths /\ EachOnce(<<>>, {}) /\ AreChildren({}, work[1])
  BY <1>3 DEF EachOnce, AreChildren
<1>5. /\ left \in Seq(Paths) /\ InPlaceOfFirst(left, work, {}) /\ NoneUnder(left)
      /\ \A i \in DOMAIN left : IsPrefix(plan.root, left[i])
      /\ \A i \in DOMAIN left, j \in DOMAIN fnd : ~ IsPrefix(left[i], fnd[j])
  BY <1>3, <1>4, WorkLeft
<1> HIDE DEF left
<1> QED
  BY <1>3, <1>5 DEF InPlaceOfFirst, NoneUnder

LEMMA VisitKeepsWalk ==
  ASSUME FilesInv, PastInv, ScanInv, MatchesInv, HoldersInv, WorkInv,
         UNCHANGED <<at, slot, query, past>>, Visit
  PROVE  ScanInv' /\ MatchesInv' /\ HoldersInv' /\ WorkInv'
<1> DEFINE p == work[1]
           more == Append(found, p)
<1>1. OnlyTheWalk /\ work # <<>> /\ 1 \in DOMAIN work /\ p \in Paths /\ VisitIs(p) /\ step = "walk"
  BY AVisit DEF OnlyTheWalk
<1>2. /\ found \in Seq(Paths) /\ \A i, j \in DOMAIN found : found[i] = found[j] => i = j
      /\ \A i \in DOMAIN found : found[i] \in FilePaths /\ <<found[i], plan.dev>> \in carried
  BY <1>1 DEF WorkInv
<1>3. /\ \A j \in DOMAIN found : found[j] # p
      /\ more \in Seq(Paths) /\ \A i, j \in DOMAIN more : more[i] = more[j] => i = j
      /\ \A j \in DOMAIN more : more[j] = p \/ \E i \in DOMAIN found : more[j] = found[i]
  BY <1>1, FoundOnce
<1>4. /\ \A i \in DOMAIN found : OnWalk(found[i], plan.dev)
      /\ OnWalk(p, plan.dev) => \A i \in DOMAIN more : OnWalk(more[i], plan.dev)
  BY <1>2, <1>3 DEF OnWalk
<1> HIDE DEF more
<1>5. CASE Ends(found)
  BY <1>1, <1>2, <1>4, <1>5, EndsKeeps
<1>6. CASE OnWalk(p, plan.dev) /\ Ends(more)
  BY <1>1, <1>3, <1>4, <1>6, EndsKeeps
<1>7. CASE GoesOn(Tail(work), found)
  <2> DEFINE left == Tail(work)
  <2>1. \A j \in DOMAIN found : found[j] = work[1] \/ \E i \in DOMAIN found : found[j] = found[i]
    OBVIOUS
  <2>2. /\ left \in Seq(Paths)
        /\ \A i, j \in DOMAIN left : i # j => ~ IsPrefix(left[i], left[j])
        /\ \A i \in DOMAIN left : IsPrefix(plan.root, left[i])
        /\ \A i \in DOMAIN left, j \in DOMAIN found : ~ IsPrefix(left[i], found[j])
    BY <1>1, <1>2, <2>1, NothingInIt
  <2>3. GoesOn(left, found)
    BY <1>7
  <2> HIDE DEF left
  <2> QED
    BY <1>1, <1>2, <2>2, <2>3, GoesOnKeeps
<1>8. CASE p \in FilePaths /\ Linked(p) /\ GoesOn(Tail(work), more)
  <2> DEFINE left == Tail(work)
  <2>1. /\ left \in Seq(Paths)
        /\ \A i, j \in DOMAIN left : i # j => ~ IsPrefix(left[i], left[j])
        /\ \A i \in DOMAIN left : IsPrefix(plan.root, left[i])
        /\ \A i \in DOMAIN left, j \in DOMAIN more : ~ IsPrefix(left[i], more[j])
    BY <1>1, <1>3, NothingInIt
  <2>2. GoesOn(left, more)
    BY <1>8
  <2> HIDE DEF left
  <2>3. <<p, plan.dev>> \in carried
    BY <1>8, LinkedCarried
  <2>4. \A i \in DOMAIN more : more[i] \in FilePaths /\ <<more[i], plan.dev>> \in carried
    BY <1>2, <1>3, <1>8, <2>3
  <2> QED
    BY <1>1, <1>3, <2>1, <2>2, <2>4, GoesOnKeeps
<1>9. CASE p \in DOMAIN DirAt /\ \E s \in ByName(Entries(p)) : GoesOn(s \o Tail(work), found)
  <2>1. PICK s \in ByName(Entries(p)) : GoesOn(s \o Tail(work), found)
    BY <1>9
  <2>2. /\ Entries(p) \in SUBSET Paths /\ IsFiniteSet(Entries(p)) /\ <<>> \notin Entries(p)
        /\ AreChildren(Entries(p), p)
    BY <1>9, EntriesAre
  <2>3. s \in Seq(Paths) /\ EachOnce(s, Entries(p))
    BY <2>2, PathsAre, InOrder
  <2> DEFINE left == s \o Tail(work)
  <2>4. /\ left \in Seq(Paths) /\ NoneUnder(left)
        /\ \A i \in DOMAIN left : IsPrefix(plan.root, left[i])
        /\ \A i \in DOMAIN left, j \in DOMAIN found : ~ IsPrefix(left[i], found[j])
    BY <1>1, <1>2, <1>3, <2>2, <2>3, WorkLeft
  <2> HIDE DEF left
  <2>5. \A i, j \in DOMAIN left : i # j => ~ IsPrefix(left[i], left[j])
    BY <2>4 DEF NoneUnder
  <2> QED
    BY <1>1, <1>2, <2>1, <2>4, <2>5, GoesOnKeeps DEF left
<1>10. p \in FilePaths /\ Linked(p) => OnWalk(p, plan.dev)
  BY LinkedCarried DEF OnWalk
<1>11. p \in DOMAIN DirAt /\ Ino[DirAt[p]] = query.ino /\ Dev[DirAt[p]] = plan.dev => OnWalk(p, plan.dev)
  BY DEF OnWalk
<1> HIDE DEF p
<1>12. \/ Ends(found)
       \/ OnWalk(p, plan.dev) /\ Ends(more)
       \/ GoesOn(Tail(work), found)
       \/ p \in FilePaths /\ Linked(p) /\ GoesOn(Tail(work), more)
       \/ p \in DOMAIN DirAt /\ \E s \in ByName(Entries(p)) : GoesOn(s \o Tail(work), found)
  <2>1. VisitIs(p)
    BY <1>1
  <2>2. \/ Ends(found)
        \/ /\ p \in DOMAIN DirAt /\ Ino[DirAt[p]] = query.ino /\ Dev[DirAt[p]] = plan.dev
           /\ Ends(more)
        \/ p \in FilePaths /\ Linked(p) /\ Ends(more)
        \/ p \in FilePaths /\ Linked(p) /\ GoesOn(Tail(work), more)
        \/ p \in DOMAIN DirAt /\ \E s \in ByName(Entries(p)) : GoesOn(s \o Tail(work), found)
        \/ GoesOn(Tail(work), found)
    BY <2>1, Zenon DEF VisitIs, more
  <2> QED
    BY <1>10, <1>11, <2>2, Zenon
<1> QED
  BY <1>5, <1>6, <1>7, <1>8, <1>9, <1>12

(* A scan leaves the walk alone.                                             *)
LEMMA ScanKeepsWalk ==
  ASSUME WorkInv, UNCHANGED <<query, past>>, Start \/ ReadFds \/ StatFd \/ ReadlinkFd \/ EndProcess
  PROVE  WorkInv'
<1>1. UNCHANGED <<plan, work, found, seen, timedOut>> /\ step \notin {"walk", "done"} /\ step' # "walk"
  BY DEF Start, ReadFds, StatFd, ReadlinkFd, EndProcess, walk
<1> QED
  BY <1>1 DEF WorkInv

LEMMA SearchInitInv ==
  ASSUME SearchInit
  PROVE  SearchInv
<1>1. /\ at \in [Places -> Files \union {NoFile}]
      /\ edits = 0 /\ late = FALSE /\ query \in Queries /\ step = "start"
      /\ pids = {} /\ fds = {} /\ stat = {} /\ hits = <<>> /\ rows = {}
      /\ plan = NoPlan /\ work = <<>> /\ found = <<>> /\ seen = 0 /\ timedOut = FALSE
      /\ carried = CarriedIn(at) /\ stayed = {c[1] : c \in CarriedIn(at)}
      /\ kept = {k \in Slots : slot[k] # NoHit} /\ heldBy = HeldIn(slot)
      /\ reused = {} /\ lost = FALSE
  BY DEF SearchInit
<1>2. /\ slot \in [Slots -> Held \union {NoHit}]
      /\ \A k \in Slots : slot[k] # NoHit => at[Place(slot[k].path)] = slot[k].file
  <2>1. slot \in [Slots -> {NoHit} \union
                 {[path |-> p, file |-> at[Place(p)], gone |-> FALSE] :
                    p \in {o \in FilePaths : at[Place(o)] # NoFile}}]
    BY DEF SearchInit
  <2>2. ASSUME NEW p \in FilePaths, at[Place(p)] # NoFile
        PROVE  [path |-> p, file |-> at[Place(p)], gone |-> FALSE] \in Held
    BY <1>1, <2>2, FilePathIs DEF Held
  <2>3. ASSUME NEW k \in Slots
        PROVE  slot[k] \in Held \union {NoHit} /\ (slot[k] # NoHit => at[Place(slot[k].path)] = slot[k].file)
    <3>1. \/ slot[k] = NoHit
          \/ \E p \in FilePaths : at[Place(p)] # NoFile
                /\ slot[k] = [path |-> p, file |-> at[Place(p)], gone |-> FALSE]
      BY <2>1
    <3>2. CASE \E p \in FilePaths : at[Place(p)] # NoFile
                  /\ slot[k] = [path |-> p, file |-> at[Place(p)], gone |-> FALSE]
      <4>1. PICK p \in FilePaths : at[Place(p)] # NoFile
                  /\ slot[k] = [path |-> p, file |-> at[Place(p)], gone |-> FALSE]
        BY <3>2
      <4>2. slot[k].path = p /\ slot[k].file = at[Place(p)] /\ slot[k] \in Held
        BY <2>2, <4>1
      <4> QED
        BY <4>2
    <3> QED
      BY <3>1, <3>2
  <2> QED
    BY <2>1, <2>3
<1>3. edits \in 0..MaxEdits /\ late \in BOOLEAN
  <2>1. MaxEdits \in Nat
    BY SearchAssumption
  <2>2. edits = 0 /\ late = FALSE
    BY <1>1
  <2>3. 0 \in 0..MaxEdits
    BY ONLY <2>1
  <2> QED
    BY <2>2, <2>3, Zenon
<1>4. FilesInv
  BY <1>1, <1>2, <1>3 DEF FilesInv
<1>5. PastInv
  <2>1. \A p \in FilePaths : Carrying(p) => <<p, Dev[at[Place(p)]]>> \in carried
    BY <1>1 DEF Carrying, CarriedIn
  <2>2. stayed \subseteq FilePaths /\ \A p \in stayed : Carrying(p)
    BY <1>1 DEF Carrying, CarriedIn
  <2>3. \A k \in Slots : slot[k] # NoHit => <<k[1], k[2], slot[k].path, slot[k].file>> \in heldBy
    BY <1>1 DEF HeldIn
  <2> QED
    BY <1>1, <2>1, <2>2, <2>3 DEF PastInv
<1>6. <<>> \in Seq(Hit) /\ <<>> \in Seq(Paths) /\ DOMAIN <<>> = {}
  BY EmptySeq
<1>7. ScanInv /\ MatchesInv /\ HoldersInv
  BY <1>1, <1>6 DEF ScanInv, MatchesInv, HoldersInv
<1>8. WorkInv
  <2>1. plan.root \in DOMAIN DirAt
    BY <1>1, SearchAssumption DEF NoPlan
  <2> QED
    BY <1>1, <1>6, <2>1 DEF WorkInv
<1> QED
  BY <1>4, <1>5, <1>7, <1>8 DEF SearchInv

LEMMA SearchNextInv ==
  ASSUME SearchInv, SearchNext
  PROVE  SearchInv'
<1>1. FilesInv /\ PastInv /\ ScanInv /\ MatchesInv /\ HoldersInv /\ WorkInv
  BY DEF SearchInv
<1>2. CASE Edit
  <2>1. FilesInv' /\ PastInv' /\ EditLeaves
    BY <1>1, <1>2, EditKeeps
  <2> QED
    BY <1>1, <2>1, EditKeepsScan, EditKeepsWork DEF SearchInv
<1>3. CASE Lookup
  <2>1. FilesInv' /\ PastInv' /\ UNCHANGED <<at, slot, query, past>>
    BY <1>1, <1>3, LookupKeeps
  <2>2. CASE Start \/ ReadFds \/ StatFd \/ ReadlinkFd \/ EndProcess
    <3>1. WorkInv'
      BY <1>1, <2>1, <2>2, ScanKeepsWalk
    <3>2. ScanInv' /\ MatchesInv' /\ HoldersInv'
      BY <1>1, <2>1, <2>2, StartKeepsScan, ReadFdsKeepsScan, StatKeepsScan, ReadlinkKeepsScan,
         EndProcessKeepsScan
    <3> QED
      BY <2>1, <3>1, <3>2 DEF SearchInv
  <2>3. CASE Target
    BY <1>1, <2>1, <2>3, TargetKeeps DEF SearchInv
  <2>4. CASE Visit
    BY <1>1, <2>1, <2>4, VisitKeepsWalk DEF SearchInv
  <2> QED
    BY <1>3, <2>2, <2>3, <2>4 DEF Lookup
<1> QED
  BY <1>2, <1>3 DEF SearchNext

LEMMA SearchStutters ==
  ASSUME SearchInv, UNCHANGED searchVars
  PROVE  SearchInv'
<1>1. /\ UNCHANGED <<at, slot, edits, late, query, step, pids, fds, stat, hits, rows>>
      /\ UNCHANGED <<plan, work, found, seen, timedOut, stayed, carried, kept, heldBy, reused, lost>>
      /\ UNCHANGED past
  BY DEF searchVars, fs, scan, walk, past
<1>2. FilesInv /\ PastInv /\ ScanInv /\ MatchesInv /\ HoldersInv /\ WorkInv
  BY DEF SearchInv
<1>3. FilesInv' /\ PastInv'
  BY <1>1, <1>2 DEF FilesInv, PastInv, Carrying
<1>4. MatchesInv' /\ \A k \in Slots : (Sought(k)' <=> Sought(k)) /\ (IsHolder(k)' <=> IsHolder(k))
  BY <1>1, <1>2, SameRows
<1>5. ScanInv'
  <2>1. /\ \A h : HitOK(h) => HitOK(h)'
        /\ \A d : AskedFor(d)' <=> AskedFor(d)
        /\ \A k, d : HeldInode(k, d) => HeldInode(k, d)'
    BY <1>1, StaysTrue
  <2>2. \A a : StatOK(a) => StatOK(a)'
    BY <1>1, <2>1 DEF StatOK
  <2> QED
    BY <1>1, <1>2, <2>1, <2>2 DEF ScanInv
<1>6. HoldersInv'
  <2>1. \A k : Unread(k)' <=> Unread(k)
    BY <1>1 DEF Unread, Pid
  <2> QED
    BY <1>1, <1>2, <1>4, <2>1 DEF HoldersInv
<1>7. WorkInv'
  BY <1>1, <1>2 DEF WorkInv, AskedFor
<1> QED
  BY <1>3, <1>4, <1>5, <1>6, <1>7 DEF SearchInv

LEMMA SearchInvGives ==
  ASSUME SearchInv
  PROVE  MatchesAreRight
<1>1. FilesInv /\ PastInv /\ ScanInv /\ MatchesInv /\ HoldersInv /\ WorkInv
  BY DEF SearchInv
<1>2. SearchTypeOK
  <2>1. DOMAIN slot = Slots /\ {late, timedOut, lost} \subseteq BOOLEAN
    BY <1>1 DEF FilesInv, PastInv, WorkInv
  <2>2. \A h \in stat : h.slot \in Slots
    BY <1>1 DEF ScanInv, StatOK
  <2>3. \A m \in rows : m \in Row
    BY <1>1 DEF MatchesInv, RowOK
  <2>4. \A i \in DOMAIN work : work[i] \in DOMAIN DirAt \union FilePaths
    BY <1>1, LenProperties, ElementOfSeq DEF WorkInv, Paths
  <2> QED
    BY <1>1, <2>1, <2>2, <2>3, <2>4 DEF SearchTypeOK, FilesInv, ScanInv, MatchesInv, WorkInv
<1>3. MatchesWereThere
  <2>1. ASSUME NEW m \in rows, NEW k \in m.holders
        PROVE  \E h, i \in heldBy : /\ <<h[1], h[2]>> = k /\ h[3] = m.path
                                    /\ <<i[1], i[2]>> = k /\ Ino[i[4]] = query.ino /\ Dev[i[4]] = m.dev
                                    /\ k \notin reused => h = i
    <3>1. BothHeld(k, m.path, m.dev) /\ (k \notin reused => WasHeld(k, m.path, m.dev))
      BY <1>1, <2>1 DEF MatchesInv, RowOK
    <3>2. CASE k \in reused
      BY <3>1, <3>2 DEF BothHeld, HeldInode, HeldPath
    <3>3. CASE k \notin reused
      BY <3>1, <3>3 DEF WasHeld
    <3> QED
      BY <3>2, <3>3
  <2> QED
    BY <1>1, <2>1 DEF MatchesWereThere, MatchesInv, RowOK, AskedFor, OnWalk
<1>4. EveryHolderFound
  BY <1>1 DEF EveryHolderFound, HoldersInv, Sought, IsHolder, PastInv
<1> QED
  BY <1>2, <1>3, <1>4 DEF MatchesAreRight

(* MatchesAreRight, at every moment of every lookup.                         *)
THEOREM MatchesAlwaysRight == SearchSpec => []MatchesAreRight
<1>1. SearchInit => SearchInv
  BY SearchInitInv
<1>2. SearchInv /\ [SearchNext]_searchVars => SearchInv'
  BY SearchNextInv, SearchStutters
<1>3. SearchInv => MatchesAreRight
  BY SearchInvGives
<1> QED
  BY <1>1, <1>2, <1>3, PTL DEF SearchSpec

-----------------------------------------------------------------------------
(* Where no directory has two paths, every link is found.                    *)

OnePathEach == \A d, o \in DOMAIN DirAt : DirAt[d] = DirAt[o] => d = o

LEMMA OnePlaceEach ==
  ASSUME OnePathEach, NEW p \in FilePaths, NEW o \in FilePaths, Place(p) = Place(o)
  PROVE  p = o
<1>1. Front(p) = Front(o) /\ Last(p) = Last(o)
  BY FilePathIs DEF OnePathEach, Place
<1> QED
  BY <1>1, FilePathIs

(* Two links to the inode, on the device walked, are to the same file.       *)
LEMMA OneFile ==
  ASSUME FilesInv, NEW p \in FilePaths, NEW o \in FilePaths, Linked(p), Linked(o)
  PROVE  at[Place(p)] = at[Place(o)]
<1>1. at[Place(p)] \in Inodes /\ at[Place(o)] \in Inodes
  BY FilePathIs, FileIs DEF Linked, Carrying
<1> QED
  BY <1>1, SearchAssumption DEF Linked, Carrying

(* A directory with the inode is no file.                                    *)
LEMMA NoFileThen ==
  ASSUME FilesInv, NEW p \in FilePaths, Linked(p), NEW d \in DOMAIN DirAt,
         Ino[DirAt[d]] = query.ino, Dev[DirAt[d]] = plan.dev
  PROVE  FALSE
<1>1. at[Place(p)] \in Files /\ at[Place(p)] \in Inodes
  BY FilePathIs, FileIs DEF Linked, Carrying
<1>2. DirAt[d] \in Inodes /\ DirAt[d] \in Range(DirAt)
  BY DirectoryIs DEF Range
<1>3. at[Place(p)] = DirAt[d]
  BY <1>1, <1>2, SearchAssumption DEF Linked, Carrying
<1> QED
  BY <1>1, <1>2, <1>3, SearchAssumption

(* Once as many are found as the file has links, all are.                    *)
LEMMA AllAreFound ==
  ASSUME OnePathEach, FilesInv, NEW fnd \in Seq(Paths),
         \A i, j \in DOMAIN fnd : fnd[i] = fnd[j] => i = j,
         \A i \in DOMAIN fnd : fnd[i] \in FilePaths /\ Linked(fnd[i]),
         NEW q \in FilePaths, Linked(q), Len(fnd) >= Links(at[Place(q)]),
         NEW p \in FilePaths, Linked(p)
  PROVE  \E i \in DOMAIN fnd : fnd[i] = p
<1> DEFINE f == at[Place(q)]
           S == {pl \in Places : at[pl] = f}
           n == Len(fnd)
           g == [i \in 1..n |-> Place(fnd[i])]
<1>1. n \in Nat /\ DOMAIN fnd = 1..n
  BY LenProperties
<1>2. IsFiniteSet(S) /\ Cardinality(S) \in Nat /\ Links(f) = Cardinality(S)
  <2>1. S \in SUBSET Places
    OBVIOUS
  <2>2. IsFiniteSet(S)
    BY <2>1, SearchAssumption, FS_Subset
  <2> QED
    BY <2>2, FS_CardinalityType DEF Links
<1>3. n >= Cardinality(S)
  BY <1>2
<1>4. \A o \in FilePaths : Linked(o) => Place(o) \in S
  BY OneFile, FilePathIs
<1> HIDE DEF S, n, f
<1>5. g \in [1..n -> S]
  BY <1>1, <1>4
<1>6. \A i, j \in 1..n : g[i] = g[j] => i = j
  BY <1>1, OnePlaceEach
<1>7. g \in Injection(1..n, S)
  BY <1>5, <1>6 DEF Injection, IsInjective
<1> HIDE DEF g
<1>8. Cardinality(1..n) = n
  <2>1. 1 \in Int /\ n \in Int
    BY <1>1
  <2>2. Cardinality(1..n) = IF 1 > n THEN 0 ELSE n - 1 + 1
    BY <2>1, FS_Interval
  <2> QED
    BY <1>1, <2>2
<1>9. g \in Surjection(1..n, S)
  <2>1. Cardinality(1..n) <= Cardinality(S) /\ (Cardinality(1..n) = Cardinality(S) <=> g \in Surjection(1..n, S))
    BY <1>2, <1>7, FS_Injection
  <2>2. Cardinality(1..n) = Cardinality(S)
    BY <1>1, <1>2, <1>3, <1>8, <2>1
  <2> QED
    BY <2>1, <2>2
<1>10. PICK i \in 1..n : g[i] = Place(p)
  BY <1>4, <1>9 DEF Surjection
<1>11. fnd[i] \in FilePaths /\ Place(fnd[i]) = Place(p)
  BY <1>1, <1>10 DEF g
<1> QED
  BY <1>1, <1>11, OnePlaceEach

(* What is on the way to a path, and not it, is on the way to what it is in.  *)
LEMMA UnderFront ==
  ASSUME NEW s \in Seq(Nat), NEW t \in Seq(Nat), t # <<>>, IsPrefix(s, t), s # t
  PROVE  IsPrefix(s, Front(t))
<1>1. Front(t) \in Seq(Nat) /\ Len(Front(t)) = Len(t) - 1 /\ IsPrefix(Front(t), t)
  BY AboveIt
<1>2. Len(s) \in Nat /\ Len(t) \in Nat
  BY LenProperties
<1>3. ~ (Len(t) <= Len(s))
  BY UnderSame
<1> QED
  BY <1>1, <1>2, <1>3, UnderShorter

LEMMA PrefixIs ==
  ASSUME NEW s \in Seq(Nat), NEW t \in Seq(Nat), IsPrefix(s, t)
  PROVE  Len(s) \in 0..Len(t) /\ SubSeq(t, 1, Len(s)) = s
<1>1. Len(s) \in Nat /\ Len(t) \in Nat
  BY LenProperties
<1>2. Len(s) <= Len(t) /\ \A n \in 1..Len(s) : s[n] = t[n]
  BY UnderIs
<1>3. Len(s) \in 0..Len(t)
  BY <1>1, <1>2
<1>4. /\ SubSeq(t, 1, Len(s)) \in Seq(Nat) /\ Len(SubSeq(t, 1, Len(s))) = Len(s)
      /\ \A i \in 1..Len(s) : SubSeq(t, 1, Len(s))[i] = t[i]
  BY <1>3, FirstOfIt
<1>5. SubSeq(t, 1, Len(s)) = s
  BY <1>2, <1>4, SeqEqual
<1> QED
  BY <1>3, <1>5

(* What is on the way to a directory is a directory.                         *)
LEMMA AboveDirectory ==
  ASSUME NEW d \in DOMAIN DirAt, NEW s \in Seq(Nat), IsPrefix(s, d)
  PROVE  s \in DOMAIN DirAt
<1>1. Len(s) \in 0..Len(d) /\ SubSeq(d, 1, Len(s)) = s
  BY DirectoryIs, PrefixIs
<1> QED
  BY <1>1, SearchAssumption

(* A path of a file that is on the way to one is that path itself.           *)
LEMMA FileOnTheWay ==
  ASSUME NEW p \in FilePaths, NEW q \in FilePaths, IsPrefix(q, p)
  PROVE  q = p
<1>1. p \in Seq(Nat) /\ q \in Seq(Nat) /\ p # <<>> /\ Front(p) \in DOMAIN DirAt /\ q \notin DOMAIN DirAt
  BY FilePathIs
<1>2. SUFFICES ASSUME q # p
               PROVE  FALSE
  OBVIOUS
<1>3. IsPrefix(q, Front(p))
  BY <1>1, <1>2, UnderFront
<1>4. q \in DOMAIN DirAt
  BY <1>1, <1>3, AboveDirectory
<1> QED
  BY <1>1, <1>4

(* A visit that ends the walk has found all that was owed, or says it did not *)
(* get to the end.                                                           *)
LEMMA EndsLinks ==
  ASSUME PastInv, OnlyTheWalk, NEW fnd \in Seq(Paths), Ends(fnd),
         timedOut' = TRUE \/ \A p \in stayed : Owed(p) => \E i \in DOMAIN fnd : fnd[i] = p
  PROVE  LinksInv'
<1>1. /\ step' = "done" /\ rows' = mergeMatches(fnd)
      /\ UNCHANGED <<at, query, stayed, plan>>
  BY DEF Ends, OnlyTheWalk, past
<1>2. SUFFICES ASSUME ~ timedOut', NEW p \in stayed, Owed(p)
               PROVE  \E same \in FilePaths : Place(same) = Place(p) /\ Found(same)'
  <2>1. SUFFICES EveryLinkFound'
    BY <1>1 DEF LinksInv
  <2>2. \A p : Reached(p)' <=> Reached(p)
    BY <1>1 DEF Reached
  <2> QED
    BY <1>1, <2>2 DEF EveryLinkFound, SaysAll, Owed
<1>3. p \in FilePaths
  BY DEF PastInv
<1>4. PICK i \in DOMAIN fnd : fnd[i] = p
  BY <1>2
<1>5. p \in Range(fnd)
  BY <1>4 DEF Range
<1>6. \E m \in rows' : Same(m, p, plan.dev)
  <2>1. CASE \E m \in rows : Same(m, p, plan.dev)
    BY <1>1, <2>1 DEF mergeMatches
  <2>2. CASE \A m \in rows : ~ Same(m, p, plan.dev)
    <3>1. AsFound(p) \in rows'
      BY <1>1, <1>5, <2>2 DEF mergeMatches
    <3>2. Same(AsFound(p), p, plan.dev)
      BY DEF Same, AsFound
    <3> QED
      BY <3>1, <3>2
  <2> QED
    BY <2>1, <2>2
<1>7. Found(p)'
  BY <1>1, <1>6 DEF Found, Same
<1> QED
  BY <1>3, <1>7

LEMMA GoesOnLinks ==
  ASSUME PastInv, OnlyTheWalk, NEW left \in Seq(Paths), NEW fnd \in Seq(Paths), GoesOn(left, fnd),
         ~ lost => \A i \in DOMAIN fnd : Linked(fnd[i]),
         \A p \in stayed : Owed(p) =>
            \/ \E i \in DOMAIN left : IsPrefix(left[i], p)
            \/ \E i \in DOMAIN fnd : fnd[i] = p
  PROVE  LinksInv'
<1>1. CASE left = <<>>
  <2>1. Ends(fnd) /\ DOMAIN left = {}
    BY <1>1 DEF GoesOn
  <2> QED
    BY <2>1, EndsLinks
<1>2. CASE left # <<>>
  <2>1. /\ found' = fnd /\ work' = left /\ step' = "walk"
        /\ UNCHANGED <<at, query, stayed, lost, plan>>
    BY <1>2 DEF GoesOn, OnlyTheWalk, past
  <2>2. (\A p : Reached(p)' <=> Reached(p)) /\ (\A p : Linked(p)' <=> Linked(p))
    BY <2>1 DEF Reached, Linked, Carrying
  <2>3. \A p : Owed(p)' <=> Owed(p)
    BY <2>1, <2>2 DEF Owed
  <2>4. EveryLinkFound'
    BY <2>1 DEF EveryLinkFound, SaysAll
  <2> QED
    BY <2>1, <2>2, <2>3, <2>4 DEF LinksInv, ToVisitFor, IsFound
<1> QED
  BY <1>1, <1>2

(* A link that is owed and is under what is visited: it is what is visited,  *)
(* or in a directory that is not passed, one of whose entries is on the way. *)
LEMMA OwedIs ==
  ASSUME FilesInv, PastInv, WorkInv, step = "walk", NEW p \in stayed, Owed(p),
         NEW q \in Paths, IsPrefix(plan.root, q), IsPrefix(q, p)
  PROVE  /\ p \in FilePaths /\ Linked(p) /\ ~ Passed(q)
         /\ q \in FilePaths => q = p
         /\ q \in DOMAIN DirAt => \E c \in Entries(q) : IsPrefix(c, p)
<1>1. p \in FilePaths /\ Linked(p) /\ Reached(p)
  BY DEF PastInv, Linked, Owed
<1>2. /\ p \in Seq(Nat) /\ p # <<>> /\ p \notin DOMAIN DirAt /\ Front(p) \in DOMAIN DirAt
      /\ Append(Front(p), Last(p)) = p /\ Place(p) \in Places
  BY <1>1, FilePathIs
<1>3. q \in Seq(Nat) /\ plan.root \in Seq(Nat)
  BY PathsAre, DirectoryIs DEF WorkInv
<1>4. q \in FilePaths => q = p
  BY <1>1, FileOnTheWay
<1>5. ASSUME q \in DOMAIN DirAt
      PROVE  /\ Dev[DirAt[q]] = plan.dev /\ DirAt[q] \notin Unreadable
             /\ \E c \in Entries(q) : IsPrefix(c, p)
  <2>1. q # p
    BY <1>2, <1>5
  <2> DEFINE c == SubSeq(p, 1, Len(q) + 1)
  <2>2. c \in Seq(Nat) /\ c # <<>> /\ Front(c) = q /\ IsPrefix(c, p)
    BY <1>2, <1>3, <2>1, NextOnTheWay
  <2>3. Len(plan.root) <= Len(q) /\ Len(q) < Len(p) /\ SubSeq(p, 1, Len(q)) = q
    <3>1. Len(plan.root) \in Nat /\ Len(q) \in Nat /\ Len(p) \in Nat
      BY <1>2, <1>3, LenProperties
    <3>2. Len(plan.root) <= Len(q) /\ Len(q) <= Len(p)
      BY <1>2, <1>3, UnderIs
    <3>3. ~ (Len(p) <= Len(q))
      BY <1>2, <1>3, <2>1, UnderSame
    <3>4. SubSeq(p, 1, Len(q)) = q
      BY <1>2, <1>3, <3>1, <3>2, PrefixIs
    <3> QED
      BY <3>1, <3>2, <3>3, <3>4
  <2>4. Len(q) \in Len(plan.root)..(Len(p) - 1)
    BY <1>2, <1>3, <2>3, LenProperties
  <2>5. Dev[DirAt[q]] = plan.dev /\ DirAt[q] \notin Unreadable
    BY <1>1, <2>3, <2>4 DEF Reached
  <2> HIDE DEF c
  <2>6. c \in Entries(q)
    <3>1. CASE c # p
      <4>1. IsPrefix(c, Front(p))
        BY <1>2, <2>2, <3>1, UnderFront
      <4>2. c \in DOMAIN DirAt
        BY <1>2, <2>2, <4>1, AboveDirectory
      <4> QED
        BY <2>2, <4>2 DEF Entries
    <3>2. CASE c = p
      <4>1. Place(p) = <<DirAt[q], Last(p)>> /\ at[Place(p)] # NoFile
        BY <1>1, <2>2, <3>2 DEF Place, Linked, Carrying
      <4>2. Append(q, Place(p)[2]) = p /\ Place(p)[1] = DirAt[q]
        BY <1>2, <2>2, <3>2, <4>1
      <4> QED
        BY <1>2, <3>2, <4>1, <4>2 DEF Entries
    <3> QED
      BY <3>1, <3>2
  <2> QED
    BY <2>2, <2>5, <2>6
<1>6. ~ Passed(q)
  BY <1>1, <1>4, <1>5 DEF Passed
<1> QED
  BY <1>1, <1>4, <1>5, <1>6

LEMMA VisitLinks ==
  ASSUME OnePathEach, FilesInv, PastInv, WorkInv, LinksInv, UNCHANGED <<at, slot, query, past>>, Visit
  PROVE  LinksInv'
<1> DEFINE q == work[1]
           more == Append(found, q)
<1>1. OnlyTheWalk /\ work # <<>> /\ 1 \in DOMAIN work /\ q \in Paths /\ VisitIs(q) /\ step = "walk"
  BY AVisit DEF OnlyTheWalk
<1>2. /\ work \in Seq(Paths) /\ found \in Seq(Paths) /\ \A i \in DOMAIN found : found[i] \in FilePaths
      /\ IsPrefix(plan.root, q)
  BY <1>1 DEF WorkInv
<1>3. /\ ~ lost => \A i \in DOMAIN found : Linked(found[i])
      /\ \A p \in stayed : Owed(p) => \/ \E i \in DOMAIN work : IsPrefix(work[i], p)
                                      \/ \E i \in DOMAIN found : found[i] = p
  BY <1>1 DEF LinksInv, ToVisitFor, IsFound
<1>4. /\ more \in Seq(Paths) /\ \A i, j \in DOMAIN more : more[i] = more[j] => i = j
      /\ \A j \in DOMAIN more : more[j] = q \/ \E i \in DOMAIN found : more[j] = found[i]
      /\ Len(more) = Len(found) + 1
      /\ \A i \in DOMAIN found : \E j \in DOMAIN more : more[j] = found[i]
      /\ \E j \in DOMAIN more : more[j] = q
  <2>1. /\ more \in Seq(Paths) /\ \A i, j \in DOMAIN more : more[i] = more[j] => i = j
        /\ \A j \in DOMAIN more : more[j] = q \/ \E i \in DOMAIN found : more[j] = found[i]
    BY <1>1, FoundOnce
  <2> HIDE DEF q
  <2>2. /\ Len(more) = Len(found) + 1
        /\ \A i \in DOMAIN found : i \in DOMAIN more /\ more[i] = found[i]
        /\ \E j \in DOMAIN more : more[j] = q
    BY <1>1, <1>2, OneMoreFound
  <2> HIDE DEF more
  <2> QED
    BY <2>1, <2>2
<1>5. \A p \in stayed : /\ p \in FilePaths
                        /\ Owed(p) => Linked(p)
                        /\ Owed(p) /\ IsPrefix(q, p) =>
                              /\ ~ Passed(q)
                              /\ q \in FilePaths => q = p
                              /\ q \in DOMAIN DirAt => \E c \in Entries(q) : IsPrefix(c, p)
  <2>1. \A p \in stayed : p \in FilePaths /\ (Owed(p) => Linked(p))
    BY DEF PastInv, Owed, Linked
  <2> HIDE DEF q
  <2> QED
    BY <1>1, <1>2, <2>1, OwedIs
<1> HIDE DEF more
<1>6. CASE timedOut' = TRUE /\ Ends(found)
  BY <1>1, <1>2, <1>6, EndsLinks
<1>7. CASE q \in DOMAIN DirAt /\ Ino[DirAt[q]] = query.ino /\ Dev[DirAt[q]] = plan.dev /\ Ends(more)
  <2>1. \A p \in stayed : ~ Owed(p)
    BY <1>5, <1>7, NoFileThen
  <2> QED
    BY <1>1, <1>4, <1>7, <2>1, EndsLinks
<1>8. CASE q \in FilePaths /\ Linked(q) /\ Len(found) + 1 >= Links(at[Place(q)]) /\ Ends(more)
  <2>1. CASE lost
    <3>1. step' = "done" /\ lost'
      BY <1>1, <1>8, <2>1 DEF Ends, OnlyTheWalk, past
    <3> QED
      BY <3>1 DEF LinksInv, EveryLinkFound
  <2>2. CASE ~ lost
    <3>1. \A i \in DOMAIN more : more[i] \in FilePaths /\ Linked(more[i])
      <4>1. \A i \in DOMAIN found : found[i] \in FilePaths /\ Linked(found[i])
        BY <1>2, <1>3, <2>2
      <4>2. q \in FilePaths /\ Linked(q)
        BY <1>8
      <4> HIDE DEF q
      <4> QED
        BY <1>4, <4>1, <4>2, Zenon
    <3>2. Len(more) >= Links(at[Place(q)])
      BY <1>4, <1>8
    <3> HIDE DEF q
    <3>3. \A p \in FilePaths : Linked(p) => \E i \in DOMAIN more : more[i] = p
      BY <1>4, <1>8, <3>1, <3>2, AllAreFound
    <3>4. \A p \in stayed : Owed(p) => \E i \in DOMAIN more : more[i] = p
      BY <1>5, <3>3
    <3> QED
      BY <1>1, <1>4, <1>8, <3>4, EndsLinks
  <2> QED
    BY <2>1, <2>2
<1>9. CASE q \in FilePaths /\ Linked(q) /\ GoesOn(Tail(work), more)
  <2> DEFINE left == Tail(work)
  <2>1. left \in Seq(Paths) /\ \A j \in DOMAIN work : j # 1 => \E i \in DOMAIN left : left[i] = work[j]
    BY <1>1, <1>4, NothingInIt
  <2>2. GoesOn(left, more)
    BY <1>9
  <2> HIDE DEF left
  <2>3. ~ lost => \A i \in DOMAIN more : Linked(more[i])
    BY <1>3, <1>4, <1>9
  <2>4. \A p \in stayed : Owed(p) => \/ \E i \in DOMAIN left : IsPrefix(left[i], p)
                                     \/ \E i \in DOMAIN more : more[i] = p
    BY <1>3, <1>4, <1>5, <1>9, <2>1
  <2> QED
    BY <1>1, <1>4, <2>1, <2>2, <2>3, <2>4, GoesOnLinks
<1>10. CASE q \in DOMAIN DirAt /\ \E s \in ByName(Entries(q)) : GoesOn(s \o Tail(work), found)
  <2>1. PICK s \in ByName(Entries(q)) : GoesOn(s \o Tail(work), found)
    BY <1>10
  <2>2. /\ Entries(q) \in SUBSET Paths /\ IsFiniteSet(Entries(q)) /\ <<>> \notin Entries(q)
        /\ AreChildren(Entries(q), q)
    BY <1>10, EntriesAre
  <2>3. s \in Seq(Paths) /\ EachOnce(s, Entries(q))
    BY <2>2, PathsAre, InOrder
  <2> DEFINE left == s \o Tail(work)
  <2>4. left \in Seq(Paths) /\ InPlaceOfFirst(left, work, Entries(q))
    <3>1. \A j \in DOMAIN found : found[j] # q
      BY <1>1, FoundOnce
    <3> QED
      BY <1>1, <1>2, <2>2, <2>3, <3>1, WorkLeft
  <2> HIDE DEF left
  <2>5. /\ \A c \in Entries(q) : \E i \in DOMAIN left : left[i] = c
        /\ \A j \in DOMAIN work : j # 1 => \E i \in DOMAIN left : left[i] = work[j]
    BY <2>4 DEF InPlaceOfFirst
  <2>6. \A p \in stayed : Owed(p) => \/ \E i \in DOMAIN left : IsPrefix(left[i], p)
                                     \/ \E i \in DOMAIN found : found[i] = p
    BY <1>3, <1>5, <1>10, <2>5
  <2> QED
    BY <1>1, <1>2, <1>3, <2>1, <2>4, <2>6, GoesOnLinks DEF left
<1>11. CASE Passed(q) /\ GoesOn(Tail(work), found)
  <2> DEFINE left == Tail(work)
  <2>1. \A j \in DOMAIN found : found[j] = work[1] \/ \E i \in DOMAIN found : found[j] = found[i]
    OBVIOUS
  <2>2. left \in Seq(Paths) /\ \A j \in DOMAIN work : j # 1 => \E i \in DOMAIN left : left[i] = work[j]
    BY <1>1, <1>2, <2>1, NothingInIt
  <2>3. GoesOn(left, found)
    BY <1>11
  <2> HIDE DEF left
  <2>4. \A p \in stayed : Owed(p) => \/ \E i \in DOMAIN left : IsPrefix(left[i], p)
                                     \/ \E i \in DOMAIN found : found[i] = p
    BY <1>3, <1>5, <1>11, <2>2
  <2> QED
    BY <1>1, <1>2, <1>3, <2>2, <2>3, <2>4, GoesOnLinks
<1> HIDE DEF q
<1>12. VisitIs(q)
  BY <1>1
<1>13. \/ timedOut' = TRUE /\ Ends(found)
       \/ q \in DOMAIN DirAt /\ Ino[DirAt[q]] = query.ino /\ Dev[DirAt[q]] = plan.dev /\ Ends(more)
       \/ q \in FilePaths /\ Linked(q) /\ Len(found) + 1 >= Links(at[Place(q)]) /\ Ends(more)
       \/ q \in FilePaths /\ Linked(q) /\ GoesOn(Tail(work), more)
       \/ q \in DOMAIN DirAt /\ \E s \in ByName(Entries(q)) : GoesOn(s \o Tail(work), found)
       \/ Passed(q) /\ GoesOn(Tail(work), found)
  BY <1>12, Zenon DEF VisitIs, more
<1> QED
  BY <1>6, <1>7, <1>8, <1>9, <1>10, <1>11, <1>13

(* Until the walk is over, nothing is said of its links; a change of the     *)
(* node leaves what is owed, or owes less.                                   *)
LEMMA EditLinks ==
  ASSUME LinksInv, WorkInv, EditLeaves
  PROVE  LinksInv'
<1>1. /\ step # "done" /\ step' = step /\ UNCHANGED <<query, plan, work, found>>
      /\ ~ lost' => ~ lost
      /\ \A p \in stayed' : p \in stayed /\ at'[Place(p)] = at[Place(p)]
      /\ \A i \in DOMAIN found : ~ lost' /\ found[i] \in FilePaths /\ at[Place(found[i])] # NoFile =>
            at'[Place(found[i])] = at[Place(found[i])]
  BY DEF EditLeaves, walk
<1>2. EveryLinkFound'
  BY <1>1 DEF EveryLinkFound, SaysAll
<1>3. ASSUME step = "walk", ~ lost', NEW i \in DOMAIN found
      PROVE  Linked(found[i])'
  <2>1. Linked(found[i]) /\ found[i] \in FilePaths
    BY <1>1, <1>3 DEF LinksInv, WorkInv
  <2>2. at[Place(found[i])] # NoFile
    BY <2>1 DEF Linked, Carrying
  <2>3. at'[Place(found[i])] = at[Place(found[i])]
    BY <1>1, <1>3, <2>1, <2>2
  <2> QED
    BY <1>1, <2>1, <2>3 DEF Linked, Carrying
<1>4. ASSUME step = "walk", NEW p \in stayed', Owed(p)'
      PROVE  (ToVisitFor(p) \/ IsFound(p))'
  <2>1. p \in stayed /\ Owed(p)
    BY <1>1, <1>4 DEF Owed, Reached
  <2> QED
    BY <1>1, <1>4, <2>1 DEF LinksInv, ToVisitFor, IsFound
<1> QED
  BY <1>1, <1>2, <1>3, <1>4 DEF LinksInv

LEMMA ScanLinks ==
  ASSUME UNCHANGED <<fs, query, past>>, Start \/ ReadFds \/ StatFd \/ ReadlinkFd \/ EndProcess
  PROVE  LinksInv'
<1>1. step' # "walk" /\ (step' = "done" => query'.ino = 0)
  BY DEF Start, ReadFds, StatFd, ReadlinkFd, EndProcess
<1> QED
  BY <1>1 DEF LinksInv, EveryLinkFound, SaysAll

LEMMA TargetLinks ==
  ASSUME WorkInv, UNCHANGED <<fs, query, past>>, Target
  PROVE  LinksInv'
<1>1. /\ step = "proc" /\ found' = found /\ query' = query
      /\ \/ /\ query.walk /\ plan' = walkTarget /\ work' = <<plan'.root>>
            /\ step' = IF plan'.note = "" THEN "walk" ELSE "done"
         \/ ~ query.walk /\ step' = "done" /\ UNCHANGED <<plan, work>>
  BY DEF Target
<1>2. found' = <<>> /\ DOMAIN found' = {}
  <2>1. step = "proc" /\ found' = found
    BY <1>1
  <2> QED
    BY <2>1 DEF WorkInv
<1>3. CASE step' = "walk"
  <2>1. DOMAIN work' = {1} /\ work'[1] = plan'.root
    <3>1. work' = <<plan'.root>>
      BY <1>1, <1>3
    <3>2. \A x : DOMAIN <<x>> = {1} /\ <<x>>[1] = x
      OBVIOUS
    <3> QED
      BY <3>1, <3>2
  <2>2. \A p : Owed(p)' => ToVisitFor(p)'
    BY <2>1 DEF Owed, Reached, ToVisitFor
  <2>3. EveryLinkFound'
    BY <1>3 DEF EveryLinkFound, SaysAll
  <2> QED
    BY <1>2, <2>2, <2>3 DEF LinksInv
<1>4. CASE step' # "walk"
  <2>1. ~ SaysAll'
    BY <1>1, <1>4 DEF SaysAll
  <2> QED
    BY <1>4, <2>1 DEF LinksInv, EveryLinkFound
<1> QED
  BY <1>3, <1>4

(* EveryLinkFound, where no directory has two paths: without a bind mount, a *)
(* walk that does not say it stopped short has found every link that was     *)
(* there all along.  With one it has not: it counts paths against links.     *)
THEOREM LinksAllFound ==
  ASSUME OnePathEach
  PROVE  SearchSpec => []EveryLinkFound
<1>1. SearchInit => SearchInv /\ LinksInv
  <2>1. SearchInit => step = "start"
    BY DEF SearchInit
  <2>2. step = "start" => LinksInv
    BY DEF LinksInv, EveryLinkFound, SaysAll
  <2> QED
    BY <2>1, <2>2, SearchInitInv
<1>2. SearchInv /\ LinksInv /\ [SearchNext]_searchVars => SearchInv' /\ LinksInv'
  <2> SUFFICES ASSUME SearchInv, LinksInv, [SearchNext]_searchVars
               PROVE  SearchInv' /\ LinksInv'
    OBVIOUS
  <2>1. SearchInv'
    BY SearchNextInv, SearchStutters
  <2>2. FilesInv /\ PastInv /\ WorkInv
    BY DEF SearchInv
  <2>3. CASE Edit
    BY <2>1, <2>2, <2>3, EditKeeps, EditLinks
  <2>4. CASE Lookup
    <3>1. UNCHANGED <<fs, query, past>>
      BY <2>4 DEF Lookup, Start, ReadFds, StatFd, ReadlinkFd, EndProcess, Target, Visit
    <3>2. UNCHANGED <<at, slot, query, past>>
      BY <3>1 DEF fs
    <3> QED
      BY <2>1, <2>2, <2>4, <3>1, <3>2, ScanLinks, TargetLinks, VisitLinks DEF Lookup
  <2>5. CASE UNCHANGED searchVars
    <3>1. UNCHANGED <<at, query, step, rows, plan, work, found, timedOut, stayed, lost>>
      BY <2>5 DEF searchVars, fs, scan, walk, past
    <3>2. /\ \A p : Owed(p)' <=> Owed(p)
          /\ \A p : Linked(p)' <=> Linked(p)
          /\ \A p : Reached(p)' <=> Reached(p)
      BY <3>1 DEF Owed, Reached, Linked, Carrying
    <3>3. \A p : Found(p)' <=> Found(p)
      BY <3>1 DEF Found
    <3>4. EveryLinkFound'
      BY <3>1, <3>2, <3>3 DEF LinksInv, EveryLinkFound, SaysAll
    <3>5. LinksInv'
      BY <3>1, <3>2, <3>4 DEF LinksInv, ToVisitFor, IsFound
    <3> QED
      BY <2>1, <3>5
  <2> QED
    BY <2>1, <2>3, <2>4, <2>5 DEF SearchNext
<1>3. LinksInv => EveryLinkFound
  BY DEF LinksInv
<1> QED
  BY <1>1, <1>2, <1>3, PTL DEF SearchSpec
=============================================================================
