-------------------------- MODULE StatsSwitchProofs --------------------------
(***************************************************************************)
(* Proofs about StatsSwitch, for any callers, processes, TTL and bound on  *)
(* the clock.                                                              *)
(***************************************************************************)
EXTENDS StatsSwitch, TLAPS

(* A hold never has more than one TTL to go, so neither does an answer.     *)
WithinTTL == held => offAt <= now + TTL

SwitchInv == TypeOK /\ OneFd /\ HoldIsTimed /\ WithinTTL

LEMMA SwitchInit == Init => SwitchInv
<1> SUFFICES ASSUME Init
             PROVE  SwitchInv
  OBVIOUS
<1>1. Idle \in Calls
  BY SwitchAssumption DEF Idle, Calls
<1>2. TypeOK
  <2>1. Unseen \in [ever : SUBSET Reasons, always : SUBSET Reasons]
    BY DEF Unseen
  <2> QED
    BY <1>1, <2>1 DEF Init, TypeOK
<1> QED
  BY <1>2 DEF Init, SwitchInv, OneFd, HoldIsTimed, WithinTTL

-----------------------------------------------------------------------------
(* The two helpers that change a hold.                                      *)

(* Under the invariant stop() always comes in time for the timers list: no  *)
(* runtime timer survives the hold it was armed for.                        *)
LEMMA NoTimerIsLeft ==
  ASSUME HoldIsTimed
  PROVE  Stopped = {}
  BY DEF HoldIsTimed, Stopped

LEMMA ArmTimes ==
  ASSUME TypeOK, HoldIsTimed, arm, held' = TRUE, UNCHANGED <<now, fired>>
  PROVE  /\ gen' \in Nat /\ offAt' \in Nat /\ timer' \in Nat /\ pending' \in SUBSET Timers
         /\ HoldIsTimed' /\ WithinTTL'
<1> DEFINE t == [gen |-> gen + 1, due |-> now + TTL]
<1>1. /\ gen' = gen + 1 /\ offAt' = now + TTL /\ timer' = gen + 1
      /\ pending' = {t}
  BY NoTimerIsLeft DEF arm
<1>2. gen \in Nat /\ now \in Nat /\ TTL \in Nat
  BY SwitchAssumption DEF TypeOK
<1>3. t \in Timers /\ t.gen = gen + 1 /\ t.due = now + TTL
  BY <1>2 DEF Timers
<1> HIDE DEF t
<1>4. \A g \in fired : g \in Nat /\ g <= gen
  BY DEF TypeOK, HoldIsTimed
<1>5. HoldIsTimed'
  BY <1>1, <1>2, <1>3, <1>4 DEF HoldIsTimed
<1> QED
  BY <1>1, <1>2, <1>3, <1>5 DEF WithinTTL

LEMMA DropEnds ==
  ASSUME TypeOK, HoldIsTimed, OneFd, drop, fired' \subseteq fired, now' = now
  PROVE  /\ gen' \in Nat /\ offAt' = 0 /\ timer' \in Nat /\ pending' \in SUBSET Timers
         /\ held' = FALSE /\ nOpen' = 0
         /\ OneFd' /\ HoldIsTimed' /\ WithinTTL'
<1>1. /\ gen' = gen + 1 /\ offAt' = 0 /\ timer' = 0 /\ held' = FALSE
      /\ pending' = {}
  BY NoTimerIsLeft DEF drop
<1>2. nOpen' = 0
  <2>1. CASE held
    BY <2>1 DEF drop, OneFd
  <2>2. CASE ~held
    BY <2>2 DEF drop, OneFd
  <2> QED
    BY <2>1, <2>2
<1>3. gen \in Nat /\ \A g \in fired : g \in Nat /\ g <= gen
  BY DEF TypeOK, HoldIsTimed
<1>4. HoldIsTimed'
  BY <1>1, <1>3 DEF HoldIsTimed
<1> QED
  BY <1>1, <1>2, <1>3, <1>4 DEF OneFd, WithinTTL

-----------------------------------------------------------------------------
(* A call's record keeps its type.                                          *)

LEMMA LeftWithin ==
  ASSUME TypeOK, WithinTTL
  PROVE  Left \in 0..TTL
<1>1. now \in Nat /\ offAt \in Nat /\ TTL \in Nat
  BY SwitchAssumption DEF TypeOK
<1>2. CASE held /\ offAt > now
  <2>1. Left = offAt - now /\ offAt <= now + TTL
    BY <1>2 DEF Left, WithinTTL
  <2> QED
    BY <1>1, <1>2, <2>1
<1>3. CASE ~(held /\ offAt > now)
  <2>1. Left = 0
    BY <1>3 DEF Left
  <2> QED
    BY <1>1, <2>1
<1> QED
  BY <1>2, <1>3

LEMMA CallTypes ==
  ASSUME TypeOK, WithinTTL, NEW c \in Callers,
         \/ \E err \in BOOLEAN : Returns(c, err)
         \/ ReadHeld(c) \/ ReadSysctl(c) \/ ScanProc(c) \/ Answer(c)
  PROVE  call' \in [Callers -> Calls]
<1>1. call \in [Callers -> Calls] /\ call[c] \in Calls
  BY DEF TypeOK
<1>2. ASSUME NEW err \in BOOLEAN, Returns(c, err)
      PROVE  call' \in [Callers -> Calls]
  BY <1>1, <1>2 DEF Returns, Calls
<1>3. CASE ReadHeld(c)
  BY <1>1, <1>3, LeftWithin DEF ReadHeld, TypeOK, Calls
<1>4. CASE ReadSysctl(c)
  BY <1>1, <1>4 DEF ReadSysctl, TypeOK, Calls
<1>5. CASE ScanProc(c)
  <2>1. PICK p \in call[c].todo :
          call' = [call EXCEPT ![c].todo = call[c].todo \ {p},
                               ![c].holders = call[c].holders \union ({p} \intersect holders)]
    BY <1>5 DEF ScanProc
  <2>2. /\ call[c].todo \ {p} \in SUBSET Procs
        /\ call[c].holders \union ({p} \intersect holders) \in SUBSET Procs
    BY <1>1 DEF TypeOK, Calls
  <2> QED
    BY <1>1, <2>1, <2>2 DEF Calls
<1>6. CASE Answer(c)
  BY <1>1, <1>6 DEF Answer, Calls
<1> QED
  BY <1>2, <1>3, <1>4, <1>5, <1>6

(* Which reasons there are, and which of them one set of facts names.       *)
LEMMA KeptOnByIs ==
  ASSUME NEW fd \in BOOLEAN, NEW set \in BOOLEAN, NEW others \in SUBSET Procs
  PROVE  /\ KeptOnBy(fd, set, others) \in SUBSET Reasons
         /\ "agent" \in KeptOnBy(fd, set, others) <=> fd
         /\ "sysctl" \in KeptOnBy(fd, set, others) <=> set
         /\ \A p \in Procs : p \in KeptOnBy(fd, set, others) <=> p \in others
<1>1. "agent" \notin Procs /\ "sysctl" \notin Procs /\ "agent" # "sysctl"
  BY SwitchAssumption
<1> QED
  BY <1>1 DEF KeptOnBy, Reasons

LEMMA CountingType == TypeOK => Counting \in SUBSET Reasons
<1> SUFFICES ASSUME TypeOK PROVE Counting \in SUBSET Reasons
  OBVIOUS
<1>1. sysctl \in BOOLEAN /\ holders \in SUBSET Procs
  BY DEF TypeOK
<1>2. (nOpen > 0) \in BOOLEAN
  OBVIOUS
<1> QED
  BY <1>1, <1>2, KeptOnByIs DEF Counting

LEMMA ObserveType ==
  ASSUME TypeOK, Observe, Counting' \in SUBSET Reasons
  PROVE  seen' \in [Callers -> [ever : SUBSET Reasons, always : SUBSET Reasons]]
<1> DEFINE S == [ever : SUBSET Reasons, always : SUBSET Reasons]
<1>1. Unseen \in S
  BY DEF Unseen
<1>2. ASSUME NEW c \in Callers
      PROVE  [ever   |-> seen[c].ever \union Counting',
              always |-> seen[c].always \intersect Counting'] \in S
  <2>1. seen[c].ever \in SUBSET Reasons /\ seen[c].always \in SUBSET Reasons
    BY DEF TypeOK
  <2> QED
    BY <2>1
<1> QED
  BY <1>1, <1>2 DEF Observe

-----------------------------------------------------------------------------
LEMMA SwitchStep == SwitchInv /\ [Next]_vars => SwitchInv'
<1> SUFFICES ASSUME TypeOK, OneFd, HoldIsTimed, WithinTTL, [Next]_vars
             PROVE  SwitchInv'
  BY DEF SwitchInv
<1> USE SwitchAssumption
<1>1. CASE UNCHANGED vars
  BY <1>1 DEF vars, SwitchInv, TypeOK, OneFd, HoldIsTimed, WithinTTL
<1> SUFFICES ASSUME Next
             PROVE  SwitchInv'
  BY <1>1
<1>2. seen' \in [Callers -> [ever : SUBSET Reasons, always : SUBSET Reasons]]
  <2>1. sysctl' \in BOOLEAN /\ holders' \in SUBSET Procs
    <3>1. CASE Others
      BY <3>1 DEF Others, TypeOK
    <3>2. CASE UNCHANGED node
      BY <3>2 DEF node, TypeOK
    <3>3. UNCHANGED node \/ Others
      BY DEF Next, CallStep, SetOn, SetOnFails, SetOff, CallState, ReadHeld, ReadSysctl,
             ScanProc, Answer, Tick, TimerStep, Fire, Callback, Exit
    <3> QED
      BY <3>1, <3>2, <3>3
  <2>2. (nOpen > 0)' \in BOOLEAN
    OBVIOUS
  <2> QED
    BY <2>1, <2>2, KeptOnByIs, ObserveType DEF Next, Counting
<1>3. ASSUME NEW c \in Callers, SetOn(c)
      PROVE  SwitchInv'
  <2>1. /\ held' = TRUE /\ arm /\ UNCHANGED <<now, fired, why, node>>
        /\ nOpen' = IF held THEN nOpen ELSE nOpen + 1
        /\ Returns(c, FALSE)
    BY <1>3 DEF SetOn
  <2>2. call' \in [Callers -> Calls]
    BY <2>1, CallTypes
  <2>3. /\ gen' \in Nat /\ offAt' \in Nat /\ timer' \in Nat /\ pending' \in SUBSET Timers
        /\ HoldIsTimed' /\ WithinTTL'
    BY <2>1, ArmTimes
  <2>4. OneFd' /\ nOpen' \in Nat
    <3>1. CASE held
      BY <2>1, <3>1 DEF OneFd
    <3>2. CASE ~held
      BY <2>1, <3>2 DEF OneFd
    <3> QED
      BY <3>1, <3>2
  <2> QED
    BY <1>2, <2>1, <2>2, <2>3, <2>4 DEF SwitchInv, TypeOK, node
<1>4. ASSUME NEW c \in Callers, SetOff(c)
      PROVE  SwitchInv'
  <2>1. drop /\ EndsHold("asked") /\ Returns(c, FALSE) /\ UNCHANGED <<now, fired, node>>
    BY <1>4 DEF SetOff
  <2>2. call' \in [Callers -> Calls]
    BY <2>1, CallTypes
  <2>3. /\ gen' \in Nat /\ offAt' = 0 /\ timer' \in Nat /\ pending' \in SUBSET Timers
        /\ held' = FALSE /\ nOpen' = 0
        /\ OneFd' /\ HoldIsTimed' /\ WithinTTL'
    BY <2>1, DropEnds
  <2>4. why' \in {"never held", "asked", "expired", "exited"}
    BY <2>1 DEF EndsHold, TypeOK
  <2> QED
    BY <1>2, <2>1, <2>2, <2>3, <2>4 DEF SwitchInv, TypeOK, node
<1>5. ASSUME NEW c \in Callers,
             SetOnFails(c) \/ CallState(c) \/ ReadHeld(c) \/ ReadSysctl(c) \/ ScanProc(c) \/ Answer(c)
      PROVE  SwitchInv'
  <2>1. UNCHANGED <<now, switch, node>>
    BY <1>5 DEF SetOnFails, CallState, ReadHeld, ReadSysctl, ScanProc, Answer
  <2>2. call' \in [Callers -> Calls]
    BY <1>5, CallTypes DEF SetOnFails, CallState
  <2> QED
    BY <1>2, <2>1, <2>2 DEF SwitchInv, TypeOK, OneFd, HoldIsTimed, WithinTTL, switch, node
<1>6. CASE Tick
  <2>1. now' = now + 1 /\ UNCHANGED <<switch, node, call>>
    BY <1>6 DEF Tick
  <2>2. now \in Nat /\ offAt \in Nat /\ TTL \in Nat /\ now' \in Nat
    <3>1. now \in Nat /\ offAt \in Nat
      BY DEF TypeOK
    <3>2. now' = now + 1
      BY <2>1
    <3> QED
      BY <3>1, <3>2
  <2>3. TypeOK'
    BY <1>2, <2>1, <2>2 DEF TypeOK, switch, node
  <2>4. OneFd'
    BY <2>1 DEF OneFd, switch
  <2>5. WithinTTL'
    BY <2>1, <2>2 DEF WithinTTL, switch
  <2>6. HoldIsTimed'
    BY <2>1, <2>2 DEF HoldIsTimed, switch
  <2> QED
    BY <2>3, <2>4, <2>5, <2>6 DEF SwitchInv
<1>7. CASE Fire
  <2>1. PICK t \in pending : /\ now >= t.due
                             /\ pending' = pending \ {t}
                             /\ fired' = fired \union {t.gen}
    BY <1>7 DEF Fire
  <2>2. UNCHANGED <<now, held, nOpen, offAt, gen, timer, why, node, call>>
    BY <1>7 DEF Fire
  <2>3. t \in Timers /\ t.gen = gen /\ t.due = offAt /\ held
    BY DEF TypeOK, HoldIsTimed
  <2>4. \A u \in pending : u = t
    <3>1. \A u \in pending : u \in Timers /\ u.gen = gen /\ u.due = offAt
      BY DEF TypeOK, HoldIsTimed
    <3> QED
      BY <2>3, <3>1 DEF Timers
  <2>5. pending' = {} /\ fired' = fired \union {gen}
    BY <2>1, <2>3, <2>4
  <2>6. HoldIsTimed'
    <3>1. held' = held /\ now' = now /\ offAt' = offAt /\ gen' = gen /\ timer' = timer
      BY <2>2
    <3>2. held /\ now >= offAt /\ timer = gen /\ gen \in Nat
      BY <2>1, <2>3 DEF HoldIsTimed, TypeOK
    <3>3. \A g \in fired : g <= gen /\ (g = gen => held /\ now >= offAt)
      BY DEF HoldIsTimed
    <3>4. \A g \in fired' : g <= gen /\ (g = gen => held /\ now >= offAt)
      BY <2>5, <3>2, <3>3
    <3> QED
      BY <2>5, <3>1, <3>2, <3>4 DEF HoldIsTimed
  <2> QED
    BY <1>2, <2>2, <2>5, <2>6 DEF SwitchInv, TypeOK, OneFd, WithinTTL, node
<1>8. ASSUME NEW g \in fired, Callback(g)
      PROVE  SwitchInv'
  <2>1. fired' = fired \ {g} /\ UNCHANGED <<now, node, call>>
    BY <1>8 DEF Callback
  <2>2. CASE drop /\ EndsHold("expired")
    <3>1. /\ gen' \in Nat /\ offAt' = 0 /\ timer' \in Nat /\ pending' \in SUBSET Timers
          /\ held' = FALSE /\ nOpen' = 0
          /\ OneFd' /\ HoldIsTimed' /\ WithinTTL'
      BY <2>1, <2>2, DropEnds
    <3>2. why' \in {"never held", "asked", "expired", "exited"}
      BY <2>2 DEF EndsHold, TypeOK
    <3> QED
      BY <1>2, <2>1, <3>1, <3>2 DEF SwitchInv, TypeOK, node
  <2>3. CASE g # gen /\ UNCHANGED <<held, nOpen, offAt, gen, timer, pending, why>>
    BY <1>2, <2>1, <2>3 DEF SwitchInv, TypeOK, OneFd, HoldIsTimed, WithinTTL, node
  <2> QED
    BY <1>8, <2>2, <2>3 DEF Callback
<1>9. CASE Exit
  <2>1. \A c \in Callers : call'[c] \in Calls
    <3>1. Idle \in Calls
      BY DEF Idle, Calls
    <3>2. [Idle EXCEPT !.pc = "lost"] \in Calls
      BY <3>1 DEF Calls
    <3> QED
      BY <1>9, <3>2 DEF Exit, TypeOK
  <2>2. call' \in [Callers -> Calls]
    BY <1>9, <2>1 DEF Exit
  <2>3. why' \in {"never held", "asked", "expired", "exited"}
    BY <1>9 DEF Exit, EndsHold, TypeOK
  <2> QED
    BY <1>2, <1>9, <2>2, <2>3 DEF Exit, SwitchInv, TypeOK, OneFd, HoldIsTimed, WithinTTL, node
<1>10. CASE Others
  <2>1. sysctl' \in BOOLEAN /\ holders' \in SUBSET Procs
    BY <1>10 DEF Others, TypeOK
  <2> QED
    BY <1>2, <1>10, <2>1 DEF Others, SwitchInv, TypeOK, OneFd, HoldIsTimed, WithinTTL, switch
<1> QED
  BY <1>3, <1>4, <1>5, <1>6, <1>7, <1>8, <1>9, <1>10 DEF Next, CallStep, TimerStep

LEMMA SwitchInvariant == Spec => []SwitchInv
  BY SwitchInit, SwitchStep, PTL DEF Spec

(* Every variable keeps its type; no answer's Left leaves 0..TTL.           *)
THEOREM SwitchTypeCorrect == Spec => []TypeOK
<1>1. SwitchInv => TypeOK
  BY DEF SwitchInv
<1> QED
  BY <1>1, SwitchInvariant, PTL

(* The fd is never leaked and never doubled.                                *)
THEOREM OneFdAlways == Spec => []OneFd
<1>1. SwitchInv => OneFd
  BY DEF SwitchInv
<1> QED
  BY <1>1, SwitchInvariant, PTL

(* A hold always has its own countdown, running or fired, and no other.     *)
THEOREM HoldAlwaysTimed == Spec => []HoldIsTimed
<1>1. SwitchInv => HoldIsTimed
  BY DEF SwitchInv
<1> QED
  BY <1>1, SwitchInvariant, PTL

(* The switch and its timer always agree.                                   *)
THEOREM SwitchSound == Spec => []SwitchIsSound
<1>1. TypeOK /\ OneFd /\ HoldIsTimed => SwitchIsSound
  BY DEF SwitchIsSound
<1> QED
  BY <1>1, SwitchTypeCorrect, OneFdAlways, HoldAlwaysTimed, PTL

-----------------------------------------------------------------------------
(* The switch implements the lease.                                         *)

LEMMA LeaseStep == SwitchInv /\ [Next]_vars => [Lease!Next]_(Lease!leaseVars)
<1> SUFFICES ASSUME TypeOK, OneFd, HoldIsTimed, [Next]_vars
             PROVE  Lease!Next \/ UNCHANGED Lease!leaseVars
  BY DEF SwitchInv
<1>1. CASE UNCHANGED <<now, held, offAt, why>>
  BY <1>1 DEF Lease!leaseVars
<1>2. CASE UNCHANGED vars
  BY <1>1, <1>2 DEF vars
(* A hold that is dropped, for whatever reason; without one, a stutter.     *)
<1>3. ASSUME NEW reason, EndsHold(reason), held' = FALSE, offAt' = 0, now' = now
      PROVE  (held /\ Lease!EndHold(reason)) \/ UNCHANGED <<now, held, offAt, why>>
  BY <1>3 DEF EndsHold, Lease!EndHold, HoldIsTimed, TypeOK
<1>4. ASSUME NEW c \in Callers, SetOn(c)
      PROVE  Lease!Next
  BY <1>4 DEF SetOn, arm, Lease!Next, Lease!TurnOn
<1>5. ASSUME NEW c \in Callers, SetOff(c)
      PROVE  Lease!Next \/ UNCHANGED Lease!leaseVars
  BY <1>1, <1>3, <1>5 DEF SetOff, drop, Lease!Next
<1>6. ASSUME NEW c \in Callers,
             SetOnFails(c) \/ CallState(c) \/ ReadHeld(c) \/ ReadSysctl(c) \/ ScanProc(c) \/ Answer(c)
      PROVE  Lease!Next \/ UNCHANGED Lease!leaseVars
  BY <1>1, <1>6 DEF SetOnFails, CallState, ReadHeld, ReadSysctl, ScanProc, Answer, switch
<1>7. CASE Tick
  BY <1>7 DEF Tick, switch, Lease!Next, Lease!Tick
<1>8. CASE Fire
  BY <1>1, <1>8 DEF Fire
<1>9. ASSUME NEW g \in fired, Callback(g)
      PROVE  Lease!Next \/ UNCHANGED Lease!leaseVars
  <2>1. CASE g = gen /\ drop /\ EndsHold("expired")
    <3>1. held /\ now >= offAt
      BY <2>1 DEF HoldIsTimed
    <3> QED
      BY <1>1, <1>3, <1>9, <2>1, <3>1 DEF Callback, drop, Lease!Next, Lease!Expire
  <2>2. CASE g # gen
    BY <1>1, <1>9, <2>2 DEF Callback
  <2> QED
    BY <1>9, <2>1, <2>2 DEF Callback
<1>10. CASE Exit
  BY <1>1, <1>3, <1>10 DEF Exit, Lease!Next
<1>11. CASE Others
  BY <1>1, <1>11 DEF Others, switch
<1> QED
  BY <1>2, <1>4, <1>5, <1>6, <1>7, <1>8, <1>9, <1>10, <1>11 DEF Next, CallStep, TimerStep

(* No timer of an older hold ends a newer one before its TTL is over, and a *)
(* hold ends only by being asked, by expiring, or with the process.         *)
THEOREM SwitchImplementsLease == Spec => ImplementsLease
<1>1. Init => Lease!Init
  BY DEF Init, Lease!Init
<1> QED
  BY <1>1, SwitchInvariant, LeaseStep, PTL DEF Spec, ImplementsLease, Lease!Spec

-----------------------------------------------------------------------------
(* What an answer says of who keeps stats on.                              *)

(* A call's part of the answer holds what it has read, and nothing before.  *)
AnswerInv(a, h) ==
  /\ a.pc \in {"idle", "held"} => ~a.held
  /\ a.pc \in {"idle", "held", "sysctl"} => ~a.sysctl /\ a.holders = {}
  /\ a.pc \in InState => Told(a) \subseteq h.ever
  /\ a.pc \in {"sysctl", "procs"} => ("agent" \in h.always => a.held)
  /\ a.pc = "procs" => ("sysctl" \in h.always => a.sysctl)
  /\ a.pc = "procs" => \A p \in Procs : p \in h.always => p \in a.todo \/ p \in a.holders

SeenInv == \A c \in Callers : AnswerInv(call[c], seen[c])

LEMMA ToldIs ==
  ASSUME NEW a \in Calls
  PROVE  /\ Told(a) \in SUBSET Reasons
         /\ "agent" \in Told(a) <=> a.held
         /\ "sysctl" \in Told(a) <=> a.sysctl
         /\ \A p \in Procs : p \in Told(a) <=> p \in a.holders
<1>1. a.held \in BOOLEAN /\ a.sysctl \in BOOLEAN /\ a.holders \in SUBSET Procs
  BY DEF Calls
<1> QED
  BY <1>1, KeptOnByIs DEF Told

(* Each step leaves a call where it is, takes it one read further, or loses *)
(* it with the process.                                                     *)
LEMMA CallMoves ==
  ASSUME TypeOK, Next, NEW c \in Callers
  PROVE  \/ call'[c] = call[c]
         \/ /\ call[c].pc = "idle"
            /\ \E err \in BOOLEAN : call'[c] = [call[c] EXCEPT !.pc = "held", !.err = err]
         \/ ReadHeld(c) \/ ReadSysctl(c) \/ ScanProc(c) \/ Answer(c)
         \/ call'[c].pc = "lost"
<1>1. call \in [Callers -> Calls]
  BY DEF TypeOK
<1>2. ASSUME NEW d \in Callers, CallStep(d), d # c
      PROVE  call'[c] = call[c]
  BY <1>1, <1>2 DEF CallStep, SetOn, SetOnFails, SetOff, CallState, Returns, ReadHeld,
                    ReadSysctl, ScanProc, Answer
<1>3. ASSUME SetOn(c) \/ SetOnFails(c) \/ SetOff(c) \/ CallState(c)
      PROVE  /\ call[c].pc = "idle"
             /\ \E err \in BOOLEAN : call'[c] = [call[c] EXCEPT !.pc = "held", !.err = err]
  <2>1. PICK err \in BOOLEAN : call[c].pc = "idle" /\ Returns(c, err)
    BY <1>3 DEF SetOn, SetOnFails, SetOff, CallState
  <2> QED
    BY <1>1, <2>1 DEF Returns
<1>4. CASE Exit
  <2>1. call'[c] = call[c] \/ call'[c] = [Idle EXCEPT !.pc = "lost"]
    BY <1>4 DEF Exit
  <2> QED
    BY <2>1 DEF Idle
<1>5. CASE Tick \/ TimerStep \/ Others
  BY <1>5 DEF Tick, TimerStep, Fire, Callback, Others
<1> QED
  BY <1>2, <1>3, <1>4, <1>5 DEF Next, CallStep

LEMMA AnswerStep ==
  ASSUME SwitchInv, SwitchInv', SeenInv, Next, NEW c \in Callers
  PROVE  AnswerInv(call'[c], seen'[c])
<1> DEFINE a == call[c]
           b == call'[c]
           h == seen[c]
           k == seen'[c]
<1>1. /\ call \in [Callers -> Calls] /\ a \in Calls /\ b \in Calls
      /\ AnswerInv(a, h) /\ OneFd /\ OneFd' /\ TypeOK /\ TypeOK'
  BY DEF SwitchInv, TypeOK, SeenInv
<1>2. /\ "agent" \in Counting' <=> held'
      /\ "sysctl" \in Counting' <=> sysctl'
      /\ \A p \in Procs : p \in Counting' <=> p \in holders'
  <2>1. sysctl' \in BOOLEAN /\ holders' \in SUBSET Procs
    BY <1>1 DEF TypeOK
  <2>2. (nOpen > 0)' \in BOOLEAN
    OBVIOUS
  <2>3. (nOpen > 0)' <=> held'
    <3>1. nOpen' = IF held' THEN 1 ELSE 0
      BY <1>1 DEF OneFd
    <3> QED
      BY <3>1
  <2> QED
    BY <2>1, <2>2, <2>3, KeptOnByIs DEF Counting
<1>3. b.pc \in InState => k.ever = h.ever \union Counting' /\ k.always = h.always \intersect Counting'
  BY DEF Next, Observe
<1>4. CASE b = a
  BY <1>1, <1>3, <1>4 DEF AnswerInv, InState
<1>5. CASE a.pc = "idle" /\ \E err \in BOOLEAN : b = [a EXCEPT !.pc = "held", !.err = err]
  <2>1. b.pc = "held" /\ b.held = a.held /\ b.sysctl = a.sysctl /\ b.holders = a.holders
    BY <1>1, <1>5 DEF Calls
  <2>2. Told(b) = {}
    BY <1>1, <1>5, <2>1 DEF AnswerInv, Told, KeptOnBy
  <2> QED
    BY <1>1, <1>5, <2>1, <2>2 DEF AnswerInv
<1>6. CASE ReadHeld(c)
  <2>1. /\ a.pc = "held" /\ b.pc = "sysctl" /\ b.held = held /\ held' = held
        /\ b.sysctl = a.sysctl /\ b.holders = a.holders
    BY <1>1, <1>6 DEF ReadHeld, Calls, switch
  <2>2. Told(b) \subseteq Counting'
    BY <1>1, <1>2, <2>1 DEF AnswerInv, Told, KeptOnBy
  <2> QED
    BY <1>1, <1>2, <1>3, <2>1, <2>2 DEF AnswerInv, InState
<1>7. CASE ReadSysctl(c)
  <2>1. /\ a.pc = "sysctl" /\ b.pc = "procs" /\ b.sysctl = sysctl /\ sysctl' = sysctl
        /\ b.held = a.held /\ b.holders = a.holders /\ b.todo = Procs
    BY <1>1, <1>7 DEF ReadSysctl, Calls, node
  <2>2. Told(b) \subseteq Told(a) \union Counting'
    BY <1>1, <1>2, <2>1 DEF AnswerInv, Told, KeptOnBy
  <2> QED
    BY <1>1, <1>2, <1>3, <2>1, <2>2 DEF AnswerInv, InState
<1>8. CASE ScanProc(c)
  <2>1. PICK p \in a.todo :
          call' = [call EXCEPT ![c].todo = call[c].todo \ {p},
                               ![c].holders = call[c].holders \union ({p} \intersect holders)]
    BY <1>8 DEF ScanProc
  <2>2. /\ a.pc = "procs" /\ b.pc = "procs" /\ b.sysctl = a.sysctl /\ b.held = a.held
        /\ b.todo = a.todo \ {p} /\ b.holders = a.holders \union ({p} \intersect holders)
        /\ holders' = holders
    BY <1>1, <1>8, <2>1 DEF ScanProc, Calls, node
  <2>3. p \in Procs
    BY <1>1 DEF Calls
  <2>4. Told(b) \subseteq Told(a) \union Counting'
    BY <1>2, <2>2, <2>3 DEF Told, KeptOnBy
  <2> QED
    BY <1>1, <1>2, <1>3, <2>2, <2>4 DEF AnswerInv, InState
<1>9. CASE Answer(c)
  <2>1. b.pc = "done"
    BY <1>1, <1>9 DEF Answer, Calls
  <2> QED
    BY <2>1 DEF AnswerInv, InState
<1>10. CASE b.pc = "lost"
  BY <1>10 DEF AnswerInv, InState
<1> QED
  BY <1>1, <1>4, <1>5, <1>6, <1>7, <1>8, <1>9, <1>10, CallMoves

LEMMA SeenInvariant == Spec => []SeenInv
<1>1. Init => SeenInv
  <2>1. AnswerInv(Idle, Unseen)
    BY DEF AnswerInv, Idle, InState, Told, KeptOnBy
  <2> QED
    BY <2>1 DEF Init, SeenInv
<1>2. SwitchInv /\ SwitchInv' /\ SeenInv /\ [Next]_vars => SeenInv'
  <2>1. SwitchInv /\ SwitchInv' /\ SeenInv /\ Next => SeenInv'
    BY AnswerStep DEF SeenInv
  <2>2. SeenInv /\ UNCHANGED vars => SeenInv'
    BY DEF SeenInv, AnswerInv, Told, KeptOnBy, vars
  <2> QED
    BY <2>1, <2>2
<1> QED
  BY <1>1, <1>2, SwitchInvariant, PTL DEF Spec

(* Every reason an answer of State names was there at some moment of the    *)
(* call, and one that was there throughout is named, though its three reads *)
(* are of different moments (stats.go:68-80).                               *)
THEOREM AnswerNamesReasons == Spec => ReasonsWereSeen
<1> DEFINE Step == \A c \in Callers :
             call[c].pc # "done" /\ call'[c].pc = "done" =>
               /\ Told(call'[c]) \subseteq seen[c].ever
               /\ seen[c].always \subseteq Told(call'[c])
<1>1. SwitchInv /\ SeenInv /\ [Next]_vars => [Step]_call
  <2> SUFFICES ASSUME SwitchInv, SeenInv, Next, NEW c \in Callers,
                      call[c].pc # "done", call'[c].pc = "done"
               PROVE  /\ Told(call'[c]) \subseteq seen[c].ever
                      /\ seen[c].always \subseteq Told(call'[c])
    BY DEF vars
  <2>1. call \in [Callers -> Calls] /\ call[c] \in Calls /\ TypeOK /\ AnswerInv(call[c], seen[c])
    BY DEF SwitchInv, TypeOK, SeenInv
  <2>2. Answer(c)
    <3>1. ~ReadHeld(c) /\ ~ReadSysctl(c)
      BY <2>1 DEF ReadHeld, ReadSysctl, Calls
    <3>2. ~ScanProc(c)
      BY <2>1 DEF ScanProc, Calls
    <3>3. \A err \in BOOLEAN : call'[c] # [call[c] EXCEPT !.pc = "held", !.err = err]
      BY <2>1 DEF Calls
    <3>4. call'[c] # call[c] /\ call'[c].pc # "lost"
      OBVIOUS
    <3> QED
      BY <2>1, <3>1, <3>2, <3>3, <3>4, CallMoves
  <2>3. /\ call[c].pc = "procs" /\ call[c].todo = {}
        /\ call'[c] \in Calls /\ call'[c] = [call[c] EXCEPT !.pc = "done"]
    BY <2>1, <2>2 DEF Answer, Calls
  <2>4. Told(call'[c]) = Told(call[c])
    BY <2>1, <2>3 DEF Told, Calls
  <2>5. seen[c].always \in SUBSET Reasons
    BY <2>1 DEF TypeOK
  <2>6. seen[c].always \subseteq Told(call[c])
    BY <2>1, <2>3, <2>5, ToldIs DEF AnswerInv, Reasons
  <2> QED
    BY <2>1, <2>3, <2>4, <2>6 DEF AnswerInv, InState
<1> QED
  BY <1>1, SwitchInvariant, SeenInvariant, PTL DEF Spec, ReasonsWereSeen

=============================================================================
