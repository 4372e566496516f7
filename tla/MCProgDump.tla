----------------------------- MODULE MCProgDump -----------------------------
(* TLC's instances of ProgDump: every well-formed program of up to four     *)
(* instructions before a tail call and an exit.                             *)
EXTENDS ProgDump

Distances == [get_pid |-> 1000, kfunc |-> -2000]
ProgArrays == [m \in {1} |-> [k \in {1, 2} |-> IF k = 1 THEN 7 ELSE 0]]

Call(f) == Ins("call", f, "r0", 0, 0)
TailCall == Call("bpf_tail_call")
LoadMap(m) == Ins("ldmap", "r2", "-", m, 0)
SetIndex(k) == Ins("mov", "r3", "-", k, 0)

\* What may stand before a tail call, and touches what the scan looks at.
Steps == {LoadMap(1), SetIndex(1), Ins("ldimm", "r3", "-", 1, 0),
          Ins("movreg", "r2", "r1", 0, 0), Ins("add", "r3", "-", 1, 0),
          Ins("ldx", "r3", "r1", 0, 0), Ins("stx", "r1", "r3", 0, 0),
          Ins("fetch", "r1", "r3", 0, 0), Ins("ldabs", "r0", "-", 0, 0),
          Ins("jif", "r1", "-", 0, 1), Ins("jif", "r1", "-", 0, 2), Ins("jif", "r1", "-", 0, -2),
          Ins("ja", "-", "-", 0, 1), Ins("gotol", "-", "-", 1, 0),
          TailCall, Ins("exit", "-", "-", 0, 0)}
\* The rest: calls, and what neither the scan nor the machine cares for.
Others == {Call("get_pid"), Ins("call", "kfunc", "kfunc", 0, 0),
           Ins("call", "-", "pseudo", 0, 0), Ins("st", "r1", "-", 0, 0),
           Ins("lock", "r1", "r3", 0, 0), Ins("cmpxchg", "r1", "r3", 0, 0),
           LoadMap(2), SetIndex(2), Ins("release", "r1", "r3", 0, 0)}
Acquire == Ins("acquire", "r3", "r1", 0, 0)

ScanCode == [n \in 1..4 |-> IF n = 4 THEN Steps ELSE Steps \union Others]
AcquireCode == [n \in 3..3 |-> {LoadMap(1), SetIndex(1), Acquire}]
=============================================================================
