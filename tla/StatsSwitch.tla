----------------------------- MODULE StatsSwitch -----------------------------
(***************************************************************************)
(* internal/inspector/stats.go: the switch that keeps the kernel counting  *)
(* program runs by holding a BPF_ENABLE_STATS fd, and drops it after TTL.  *)
(*                                                                         *)
(* A caller is one call of StatsSwitch.Set or StatsSwitch.State, from the  *)
(* SetStats and ListPrograms handlers.  Each critical section of the mutex *)
(* is one action; State then reads the sysctl and scans /proc without it,  *)
(* one read an action.  A timer is the one that arm() starts for a         *)
(* generation: it may have fired, and its callback be waiting for the      *)
(* mutex, when Stop comes too late.                                        *)
(***************************************************************************)
EXTENDS Naturals, FiniteSets

CONSTANTS Callers,  (* the calls made *)
          Procs,    (* the other processes that may hold an fd *)
          TTL,      (* StatsTTL *)
          MaxTime   (* bound: the clock stops here, and arms must fit before *)

ASSUME SwitchAssumption ==
  /\ TTL \in Nat \ {0}
  /\ MaxTime \in Nat
  /\ Procs \intersect {"agent", "sysctl"} = {}

VARIABLES
  now,      (* the clock *)
  held,     (* s.fd # nil *)
  nOpen,    (* BPF_ENABLE_STATS fds this process has open *)
  offAt,    (* s.offAt; 0 is the zero time *)
  gen,      (* s.gen *)
  timer,    (* s.timer: the generation it was armed for; 0 is nil *)
  pending,  (* runtime timers still to fire: [gen, due] *)
  fired,    (* the generations of callbacks waiting for s.mu *)
  why,      (* history: how the last hold ended *)
  sysctl,   (* kernel.bpf_stats_enabled *)
  holders,  (* the other processes holding an fd *)
  call,     (* call[c]: where the call is, and what it will answer *)
  seen      (* history: what kept stats on while c's State ran *)

switch == <<held, nOpen, offAt, gen, timer, pending, fired, why>>
node   == <<sysctl, holders>>
vars   == <<now, held, nOpen, offAt, gen, timer, pending, fired, why,
            sysctl, holders, call, seen>>

(* The kernel counts while the sysctl is set or anybody holds an fd, this   *)
(* agent or another process: each of them is a reason.                      *)
Reasons == {"agent", "sysctl"} \union Procs
KeptOnBy(fd, set, others) ==
  (IF fd THEN {"agent"} ELSE {}) \union (IF set THEN {"sysctl"} ELSE {}) \union others

Counting == KeptOnBy(nOpen > 0, sysctl, holders)

Unseen == [ever |-> {}, always |-> Reasons]

Idle == [pc |-> "idle", held |-> FALSE, left |-> 0, sysctl |-> FALSE,
         holders |-> {}, todo |-> {}, err |-> FALSE]

Init ==
  /\ now = 0
  /\ held = FALSE
  /\ nOpen = 0
  /\ offAt = 0
  /\ gen = 0
  /\ timer = 0
  /\ pending = {}
  /\ fired = {}
  /\ why = "never held"
  /\ sysctl \in BOOLEAN
  /\ holders \in SUBSET Procs
  /\ call = [c \in Callers |-> Idle]
  /\ seen = [c \in Callers |-> Unseen]

-----------------------------------------------------------------------------
(* arm and drop, both called with s.mu held.                               *)

Stopped == {t \in pending : t.gen # timer}

(* Mutant: arm does not stop the timer it replaces. *)
armKeepsTimer ==
  /\ gen' = gen + 1
  /\ offAt' = now + TTL
  /\ timer' = gen + 1
  /\ pending' = pending \union {[gen |-> gen + 1, due |-> now + TTL]}

arm ==
  /\ gen' = gen + 1
  /\ offAt' = now + TTL
  /\ timer' = gen + 1
  /\ pending' = Stopped \union {[gen |-> gen + 1, due |-> now + TTL]}

drop ==
  /\ gen' = gen + 1
  /\ offAt' = 0
  /\ timer' = 0
  /\ pending' = Stopped
  /\ held' = FALSE
  /\ nOpen' = IF held THEN nOpen - 1 ELSE nOpen

EndsHold(reason) == why' = IF held THEN reason ELSE why

-----------------------------------------------------------------------------
(* StatsSwitch.Set: its critical section; it answers with State.           *)

Returns(c, err) == call' = [call EXCEPT ![c].pc = "held", ![c].err = err]

(* Mutant: a hold without a countdown is never dropped.                     *)
SetOnUntimed(c) ==
  /\ call[c].pc = "idle"
  /\ held' = TRUE
  /\ nOpen' = IF held THEN nOpen ELSE nOpen + 1
  /\ Returns(c, FALSE)
  /\ UNCHANGED <<now, offAt, gen, timer, pending, fired, why, node>>

SetOn(c) ==
  /\ call[c].pc = "idle"
  /\ now + TTL <= MaxTime
  /\ held' = TRUE
  /\ nOpen' = IF held THEN nOpen ELSE nOpen + 1
  /\ arm
  /\ Returns(c, FALSE)
  /\ UNCHANGED <<now, fired, why, node>>

(* The kernel refuses the fd: nothing is held and nothing armed. *)
SetOnFails(c) ==
  /\ call[c].pc = "idle"
  /\ ~held
  /\ Returns(c, TRUE)
  /\ UNCHANGED <<now, switch, node>>

SetOff(c) ==
  /\ call[c].pc = "idle"
  /\ drop
  /\ EndsHold("asked")
  /\ Returns(c, FALSE)
  /\ UNCHANGED <<now, fired, node>>

-----------------------------------------------------------------------------
(* StatsSwitch.State: the fd under the mutex, then the sysctl, then every  *)
(* other process in turn.                                                  *)

CallState(c) ==
  /\ call[c].pc = "idle"
  /\ Returns(c, FALSE)
  /\ UNCHANGED <<now, switch, node>>

Left == IF held /\ offAt > now THEN offAt - now ELSE 0

ReadHeld(c) ==
  /\ call[c].pc = "held"
  /\ call' = [call EXCEPT ![c].pc = "sysctl", ![c].held = held, ![c].left = Left]
  /\ UNCHANGED <<now, switch, node>>

(* Mutant: the sysctl is taken for set whatever it reads. *)
ReadSysctlSet(c) ==
  /\ call[c].pc = "sysctl"
  /\ call' = [call EXCEPT ![c].pc = "procs", ![c].sysctl = TRUE,
                          ![c].todo = Procs]
  /\ UNCHANGED <<now, switch, node>>

ReadSysctl(c) ==
  /\ call[c].pc = "sysctl"
  /\ call' = [call EXCEPT ![c].pc = "procs", ![c].sysctl = sysctl,
                          ![c].todo = Procs]
  /\ UNCHANGED <<now, switch, node>>

ScanProc(c) ==
  /\ call[c].pc = "procs"
  /\ \E p \in call[c].todo :
       call' = [call EXCEPT ![c].todo = @ \ {p},
                            ![c].holders = @ \union ({p} \intersect holders)]
  /\ UNCHANGED <<now, switch, node>>

Answer(c) ==
  /\ call[c].pc = "procs"
  /\ call[c].todo = {}
  /\ call' = [call EXCEPT ![c].pc = "done"]
  /\ UNCHANGED <<now, switch, node>>

-----------------------------------------------------------------------------
(* Time, and the timer arm() started.                                      *)

Tick ==
  /\ now < MaxTime
  /\ now' = now + 1
  /\ UNCHANGED <<switch, node, call>>

Fire ==
  /\ \E t \in pending :
       /\ now >= t.due
       /\ pending' = pending \ {t}
       /\ fired' = fired \union {t.gen}
  /\ UNCHANGED <<now, held, nOpen, offAt, gen, timer, why, node, call>>

(* Mutant: the callback drops whatever hold it finds. *)
CallbackUnchecked(g) ==
  /\ g \in fired
  /\ fired' = fired \ {g}
  /\ drop
  /\ EndsHold("expired")
  /\ UNCHANGED <<now, node, call>>

(* The callback, once it has s.mu: a hold it was not armed for is not its. *)
Callback(g) ==
  /\ g \in fired
  /\ fired' = fired \ {g}
  /\ \/ /\ g = gen
        /\ drop
        /\ EndsHold("expired")
     \/ /\ g # gen
        /\ UNCHANGED <<held, nOpen, offAt, gen, timer, pending, why>>
  /\ UNCHANGED <<now, node, call>>

-----------------------------------------------------------------------------
(* The agent exits, however it exits, and is started again: the kernel     *)
(* drops its fds, its calls get no answer, and the new process is off.     *)

Exit ==
  /\ held' = FALSE
  /\ nOpen' = 0
  /\ offAt' = 0
  /\ gen' = 0
  /\ timer' = 0
  /\ pending' = {}
  /\ fired' = {}
  /\ EndsHold("exited")
  /\ call' = [c \in Callers |-> IF call[c].pc \in {"idle", "done"} THEN call[c]
                                ELSE [Idle EXCEPT !.pc = "lost"]]
  /\ UNCHANGED <<now, node>>

(* Other people's switches. *)
Others ==
  /\ \/ sysctl' = ~sysctl /\ UNCHANGED holders
     \/ \E p \in Procs :
          /\ holders' = IF p \in holders THEN holders \ {p} ELSE holders \union {p}
          /\ UNCHANGED sysctl
  /\ UNCHANGED <<now, switch, call>>

-----------------------------------------------------------------------------
InState == {"held", "sysctl", "procs"}

Observe ==
  seen' = [c \in Callers |-> IF call'[c].pc \notin InState THEN Unseen
                             ELSE [ever   |-> seen[c].ever \union Counting',
                                   always |-> seen[c].always \intersect Counting']]

CallStep(c) ==
  \/ SetOn(c) \/ SetOnFails(c) \/ SetOff(c) \/ CallState(c)
  \/ ReadHeld(c) \/ ReadSysctl(c) \/ ScanProc(c) \/ Answer(c)

TimerStep == Fire \/ \E g \in fired : Callback(g)

Next ==
  /\ \/ \E c \in Callers : CallStep(c)
     \/ Tick
     \/ TimerStep
     \/ Exit
     \/ Others
  /\ Observe

Spec == Init /\ [][Next]_vars

(* Time passes, the runtime fires a timer that is due, and its callback     *)
(* gets the mutex.  Nobody has to call, to exit, or to touch the sysctl.    *)
Fairness ==
  /\ WF_vars(Tick /\ Observe)
  /\ WF_vars(Fire /\ Observe)
  /\ WF_vars((\E g \in fired : Callback(g)) /\ Observe)

FairSpec == Spec /\ Fairness

-----------------------------------------------------------------------------
(* Safety.                                                                 *)

Timers == [gen : Nat \ {0}, due : Nat]

Calls == [pc : {"idle", "held", "sysctl", "procs", "done", "lost"},
          held : BOOLEAN, left : 0..TTL, sysctl : BOOLEAN,
          holders : SUBSET Procs, todo : SUBSET Procs, err : BOOLEAN]

(* Every variable has its type; in particular an answer's Left never        *)
(* exceeds StatsTTL and never goes below zero (stats.go:73).                *)
TypeOK ==
  /\ now \in Nat
  /\ held \in BOOLEAN
  /\ nOpen \in Nat
  /\ offAt \in Nat
  /\ gen \in Nat
  /\ timer \in Nat
  /\ pending \in SUBSET Timers
  /\ fired \in SUBSET Nat
  /\ why \in {"never held", "asked", "expired", "exited"}
  /\ sysctl \in BOOLEAN
  /\ holders \in SUBSET Procs
  /\ call \in [Callers -> Calls]
  /\ seen \in [Callers -> [ever : SUBSET Reasons, always : SUBSET Reasons]]

(* The fd is never leaked and never doubled: the process has one open       *)
(* exactly while the switch says so (stats.go:88-95, 128-131).              *)
OneFd == nOpen = (IF held THEN 1 ELSE 0)

(* Whatever order calls, late timers and their callbacks come in, a hold    *)
(* has its own timer running or its own callback queued, due when offAt     *)
(* says; no other timer is running; and a queued callback of an earlier     *)
(* generation cannot pass for it (stats.go:51-53, 105-133).                 *)
HoldIsTimed ==
  /\ \A t \in pending : t.gen = gen /\ t.due = offAt /\ held
  /\ \A g \in fired : g <= gen /\ (g = gen => held /\ now >= offAt)
  /\ held => gen \in fired \/ \E t \in pending : t.gen = gen
  /\ gen \in fired => pending = {}
  /\ timer = (IF held THEN gen ELSE 0)
  /\ ~held => offAt = 0

(* The switch and its timer always agree.                                   *)
SwitchIsSound == TypeOK /\ OneFd /\ HoldIsTimed

(* State's three reads are of different moments (stats.go:68-80), while     *)
(* stats may go off here and on there.  Each reason its answer names was    *)
(* there at some moment of the call, and a reason that was there throughout *)
(* is named: so an answer of on was true at some moment, and one of off     *)
(* says falsely that nobody kept stats on only when one took over from      *)
(* another during the call.                                                 *)
Told(a) == KeptOnBy(a.held, a.sysctl, a.holders)

ReasonsWereSeen ==
  [][\A c \in Callers :
       call[c].pc # "done" /\ call'[c].pc = "done" =>
         /\ Told(call'[c]) \subseteq seen[c].ever
         /\ seen[c].always \subseteq Told(call'[c])]_call

-----------------------------------------------------------------------------
(* What the switch promises.                                               *)

Lease == INSTANCE StatsLease WITH on <- held, until <- offAt

(* The switch implements the lease: no timer of an older hold, however      *)
(* late, ends a newer one before its TTL is over.                           *)
ImplementsLease == Lease!Spec

(* "A forgotten toggle must not stay on" (stats.go:16-19): every hold ends. *)
HoldEnds == held ~> ~held
=============================================================================
