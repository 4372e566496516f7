------------------------------- MODULE ProgDump -------------------------------
(***************************************************************************)
(* A program's dump: the agent reads the instructions the kernel shows it,  *)
(* names the calls from /proc/kallsyms, prints one line per instruction and *)
(* reads the tail calls out of the same instructions; the dump page reads   *)
(* the lines back.  The same program then runs, so that what the page says  *)
(* can be held against what the program does.                               *)
(***************************************************************************)
EXTENDS Integers, Sequences, FiniteSets

CONSTANTS
    Code,        \* n |-> the instructions a program of n may be made of (a bound)
    Watched,     \* the n at which kptr_restrict may change during a dump (a bound)
    MaxFlips,    \* how often it changes (a bound)
    Dist,        \* function name |-> its address less that of __bpf_call_base
    Slot,        \* program array |-> index |-> program id, 0 for an empty slot
    MaxScan      \* maxTailCallScan

Regs == {"r0", "r1", "r2", "r3"}
TailCallId == 12
CallBase == "__bpf_call_base"

\* An instruction: its operation, registers, imm and off.  A call has the
\* function it calls for dst; what the kernel shows of it is in Shown.
Ins(op, dst, src, imm, off) ==
    [op |-> op, dst |-> dst, src |-> src, imm |-> imm, off |-> off]

ALU == {"mov", "movreg", "add"}
Atomics == {"lock", "fetch", "cmpxchg", "acquire", "release"}

Ops == ALU \union Atomics \union {"ldmap", "ldimm", "ldabs", "ldx", "st", "stx",
                                  "jif", "ja", "gotol", "call", "exit"}
Operands == Regs \union {"-", "pseudo", "kfunc", "bpf_tail_call"} \union DOMAIN Dist
Instructions == [op : Ops, dst : Operands, src : Operands, imm : Int, off : Int]

\* What the verifier lets through: a load names a register, and a call a function
\* the kernel has.
Verified(ins) ==
    /\ ins \in Instructions
    /\ ins.op \in ALU \union {"ldmap", "ldimm", "ldx"} => ins.dst \in Regs
    /\ ins.op = "call" /\ ins.src # "pseudo" => ins.dst \in DOMAIN Dist \union {"bpf_tail_call"}

ASSUME DumpAssumption ==
    /\ MaxFlips \in Nat /\ MaxScan \in Nat
    /\ DOMAIN Code \subseteq Nat /\ Watched \subseteq DOMAIN Code
    /\ \A n \in DOMAIN Code : \A ins \in Code[n] : Verified(ins)
    /\ \A f \in DOMAIN Dist : Dist[f] \in Int /\ Dist[f] # 0 /\ Dist[f] # TailCallId
    /\ \A f, g \in DOMAIN Dist : Dist[f] = Dist[g] => f = g
    /\ "unknown" \notin DOMAIN Dist

-----------------------------------------------------------------------------
(* The instructions as the kernel shows them, and their numbering.          *)

\* A wide load takes two of the raw offsets the listing counts in.
Wide(ins) == ins.op \in {"ldmap", "ldimm"}
Offset(p, i) == (i - 1) + Cardinality({j \in 1..(i - 1) : Wide(p[j])})
At(p, o) == {i \in DOMAIN p : Offset(p, i) = o}

\* The dump of a program: a call shows how far its function is from
\* __bpf_call_base, a tail call its helper id, and all of them show 0 to a
\* reader who may not see kernel addresses.
Shown(p, raw) ==
    [i \in DOMAIN p |->
        IF p[i].op # "call" THEN p[i]
        ELSE [p[i] EXCEPT !.imm =
                IF ~raw \/ p[i].src = "pseudo" THEN 0
                ELSE IF p[i].dst = "bpf_tail_call" THEN TailCallId ELSE Dist[p[i].dst]]]

-----------------------------------------------------------------------------
(* Naming the calls.                                                        *)

ResolvableCall(ins) == ins.op = "call" /\ ins.src # "pseudo"

\* The symbol at a distance from __bpf_call_base, in a table whose addresses
\* are readable.
SymbolsAt(d) == {f \in DOMAIN Dist : Dist[f] = d} \union
                (IF d = 0 THEN {CallBase} ELSE {})

CallNames(insns) ==
    LET wanted == {insns[i].imm : i \in {j \in DOMAIN insns : ResolvableCall(insns[j])}}
    IN  [d \in {w \in wanted : SymbolsAt(w) # {}} |-> CHOOSE f \in SymbolsAt(d) : TRUE]

\* Mutant: 0, which the kernel shows for a call it hides, is taken for a helper.
HelperNameOfZero(imm) == IF imm \in {0, TailCallId} THEN "bpf_tail_call" ELSE ""

HelperName(imm) == IF imm = TailCallId THEN "bpf_tail_call" ELSE ""

-----------------------------------------------------------------------------
(* Printing an instruction: what its text shows assigned, where it says it   *)
(* jumps, what it calls and which map it names.  BUG_ is the text of an      *)
(* instruction the printer does not know.                                   *)

Text == [form |-> "plain", sets |-> {}, to |-> {}, name |-> "", map |-> 0]
Bug == [Text EXCEPT !.form = "BUG"]
Sets(r) == [Text EXCEPT !.sets = {r}]

FormatALU(ins) == Sets(ins.dst)

FormatAtomic(ins) ==
    CASE ins.op = "lock"    -> Text
      [] ins.op = "fetch"   -> Sets(ins.src)
      [] ins.op = "cmpxchg" -> Sets("r0")
      [] OTHER              -> Bug

FormatStX(ins) == IF ins.op \in Atomics THEN FormatAtomic(ins) ELSE Text
FormatSt(ins) == Text
FormatLdX(ins) == Sets(ins.dst)

ImmString(ins) == IF ins.op = "ldmap" THEN ins.imm ELSE 0

FormatLd(ins) ==
    IF ins.op = "ldabs" THEN Sets("r0")
    ELSE [Sets(ins.dst) EXCEPT !.map = ImmString(ins)]

FormatJump(ins, names) ==
    CASE ins.op = "call" /\ ins.src = "pseudo" -> [Text EXCEPT !.form = "call pc"]
      [] ResolvableCall(ins) ->
            [Text EXCEPT !.form = "call",
                         !.name = IF ins.imm \in DOMAIN names THEN names[ins.imm]
                                  ELSE IF HelperName(ins.imm) # "" THEN HelperName(ins.imm)
                                  ELSE "unknown"]
      [] ins.op = "gotol" -> [Text EXCEPT !.form = "goto", !.to = {ins.imm}]
      [] ins.op = "ja"    -> [Text EXCEPT !.form = "goto", !.to = {ins.off}]
      [] ins.op = "exit"  -> [Text EXCEPT !.form = "exit"]
      [] OTHER            -> [Text EXCEPT !.form = "if", !.to = {ins.off}]

FormatInstruction(ins, names) ==
    CASE ins.op \in ALU                        -> FormatALU(ins)
      [] ins.op \in Atomics \union {"stx"}     -> FormatStX(ins)
      [] ins.op = "st"                         -> FormatSt(ins)
      [] ins.op = "ldx"                        -> FormatLdX(ins)
      [] ins.op \in {"ldmap", "ldimm", "ldabs"} -> FormatLd(ins)
      [] OTHER                                 -> FormatJump(ins, names)

\* Mutant: the lines are numbered as the instructions are.
FormatListingByIndex(insns, names) ==
    [i \in DOMAIN insns |-> [off |-> i - 1, text |-> FormatInstruction(insns[i], names)]]

\* One numbered line per instruction; the headers and source lines between them
\* carry no number and are left out.
FormatListing(insns, names) ==
    [i \in DOMAIN insns |->
        [off |-> Offset(insns, i), text |-> FormatInstruction(insns[i], names)]]

-----------------------------------------------------------------------------
(* The page: what it makes of a line of the listing.                        *)

\* A named call is marked as a helper, a map reference links to its dump, and
\* everything else is text.
XlatedParts(text) ==
    [helper |-> IF text.form = "call" /\ text.name # "unknown" THEN text.name ELSE "",
     link   |-> text.map]

XlatedLines(ls) ==
    [i \in DOMAIN ls |-> [off |-> ls[i].off, parts |-> XlatedParts(ls[i].text),
                          text |-> ls[i].text]]

-----------------------------------------------------------------------------
(* Reading the tail calls out of the instructions.                          *)

\* Where a jump of the program lands.
JumpTarget(ins, o) ==
    CASE ins.op \in {"jif", "ja"} -> {o + 1 + ins.off}
      [] ins.op = "gotol"         -> {o + 1 + ins.imm}
      [] OTHER                    -> {}
Targets(insns) == UNION {JumpTarget(insns[i], Offset(insns, i)) : i \in DOMAIN insns}

IsTailCall(ins) == ins.op = "call" /\ ins.src = "r0" /\ ins.imm = TailCallId
StopsScan(ins) == ins.op \in {"call", "exit", "ja", "gotol"}
IsMovImm(ins, r) == ins.op = "mov" /\ ins.dst = r
IsMapLoad(ins, r) == ins.op = "ldmap" /\ ins.dst = r

WritesReg(ins, r) ==
    CASE ins.op = "ldabs"                               -> TRUE
      [] ins.op \in ALU \union {"ldmap", "ldimm", "ldx"} -> ins.dst = r
      [] ins.op \in Atomics                             -> ins.src = r \/ r = "r0"
      [] OTHER                                          -> FALSE

\* Mutant: a jump's target does not end the walk.
ScannedPastTargets(insns, c) ==
    {j \in 1..(c - 1) : c - j <= MaxScan /\ \A k \in j..(c - 1) : ~StopsScan(insns[k])}

\* The instructions the backwards walk from c looks at: it ends before a call, an
\* exit or an unconditional jump, and after an instruction a jump lands on.
Scanned(insns, c) ==
    {j \in 1..(c - 1) :
        /\ c - j <= MaxScan
        /\ \A k \in j..(c - 1) : ~StopsScan(insns[k])
        /\ \A k \in (j + 1)..(c - 1) : Offset(insns, k) \notin Targets(insns)}

\* The last of them that may have left a value in r, if any.
Writer(insns, c, r) ==
    LET w == {j \in Scanned(insns, c) : WritesReg(insns[j], r)}
    IN  {j \in w : \A k \in w : k <= j}

ScanOperands(insns, c) ==
    [map   |-> {insns[j].imm : j \in {w \in Writer(insns, c, "r2") : IsMapLoad(insns[w], "r2")}},
     index |-> {insns[j].imm : j \in {w \in Writer(insns, c, "r3") : IsMovImm(insns[w], "r3")}}]

\* A slot of a program array, or 0 where there is nothing to read.
ProgArraySlot(m, k) ==
    IF m \in DOMAIN Slot /\ k \in DOMAIN Slot[m] THEN Slot[m][k] ELSE 0

\* The sites, each with its program array, its index if it could be read, and the
\* program in that slot.
TailCalls(insns) ==
    LET sites == {i \in DOMAIN insns : /\ IsTailCall(insns[i])
                                       /\ Offset(insns, i) \notin Targets(insns)
                                       /\ ScanOperands(insns, i).map # {}}
        call(i) == LET at == ScanOperands(insns, i)
                   IN  [site  |-> Offset(insns, i),
                        map   |-> CHOOSE m \in at.map : TRUE,
                        index |-> at.index,
                        prog  |-> {ProgArraySlot(m, k) : m \in at.map, k \in at.index} \ {0}]
    IN  {call(i) : i \in sites}

-----------------------------------------------------------------------------
VARIABLES
    len,       \* how many instructions it has before its end
    prog,      \* the program dumped
    visible,   \* kernel addresses are shown to the agent
    flips,     \* how often that changed
    based,     \* callBaseAddr is cached
    stage,     \* where DumpProgram is: then "run", the program running
    raw,       \* the instructions were read with their addresses
    resolved,  \* the symbols were read with their addresses
    page,      \* what the page shows
    calls,     \* the tail calls reported
    ip, regs   \* the running program

agent == <<based, stage, raw, resolved, page, calls>>
machine == <<ip, regs>>
vars == <<len, prog, visible, flips, agent, machine>>

Unknown == [k |-> "any", v |-> 0]
MapPtr(m) == [k |-> "map", v |-> m]
Const(n) == [k |-> "const", v |-> n]

\* Every program ends in a tail call and an exit, and the verifier has seen to it
\* that every jump lands on an instruction.
Ended(body) == body \o <<Ins("call", "bpf_tail_call", "r0", 0, 0), Ins("exit", "-", "-", 0, 0)>>
WellFormed(p) == \A i \in DOMAIN p : \A o \in JumpTarget(p[i], Offset(p, i)) : At(p, o) # {}

Init ==
    /\ len \in DOMAIN Code /\ prog = <<>>
    /\ visible \in (IF len \in Watched THEN BOOLEAN ELSE {TRUE})
    /\ based \in (IF len \in Watched THEN BOOLEAN ELSE {TRUE})
    /\ flips = 0 /\ stage = "load" /\ raw = FALSE /\ resolved = FALSE
    /\ page = <<>> /\ calls = {}
    /\ ip = 1 /\ regs = [r \in Regs |-> Unknown]

\* Somebody loads a program.
Load ==
    /\ stage = "load"
    /\ \E body \in [1..len -> Code[len]] : WellFormed(Ended(body)) /\ prog' = Ended(body)
    /\ stage' = "open"
    /\ UNCHANGED <<len, visible, flips, based, raw, resolved, page, calls, machine>>

\* kptr_restrict or the agent's privilege changes.
Flip ==
    /\ len \in Watched /\ flips < MaxFlips /\ stage \in {"open", "base", "symbols"}
    /\ visible' = ~visible /\ flips' = flips + 1
    /\ UNCHANGED <<len, prog, agent, machine>>

\* DumpProgram opens the program and reads its instructions.  It may be gone, or
\* the kernel may not show the instructions at all.
ReadInsns ==
    /\ stage = "open"
    /\ raw' = visible
    /\ stage' = IF \E i \in DOMAIN prog : ResolvableCall(prog[i]) THEN "base" ELSE "format"
    /\ UNCHANGED <<len, prog, visible, flips, based, resolved, page, calls, machine>>

NoInsns ==
    /\ stage = "open"
    /\ stage' = "failed"
    /\ UNCHANGED <<len, prog, visible, flips, based, raw, resolved, page, calls, machine>>

\* bpfCallBase: from the cache, or out of the symbols, where a hidden address
\* reads as none and leaves the cache empty.
FindCallBase ==
    /\ stage = "base"
    /\ based' = (based \/ visible)
    /\ stage' = IF based' THEN "symbols" ELSE "format"
    /\ UNCHANGED <<len, prog, visible, flips, raw, resolved, page, calls, machine>>

\* callNames: one walk over the symbols.
ReadSymbols ==
    /\ stage = "symbols"
    /\ resolved' = visible
    /\ stage' = "format"
    /\ UNCHANGED <<len, prog, visible, flips, based, raw, page, calls, machine>>

Names == IF resolved THEN CallNames(Shown(prog, raw)) ELSE <<>>

\* formatListing, tailCalls and resolveTailCallTargets on the same instructions.
DumpAnswer == [lines |-> FormatListing(Shown(prog, raw), Names), calls |-> TailCalls(Shown(prog, raw))]

\* What the agent sends of it, and the page that reads the answer.
ShowDump ==
    /\ stage = "format"
    /\ page' = XlatedLines(DumpAnswer.lines)
    /\ calls' = DumpAnswer.calls
    /\ stage' = "run"
    /\ UNCHANGED <<len, prog, visible, flips, based, raw, resolved, machine>>

-----------------------------------------------------------------------------
(* The program runs: the kernel's machine, as far as r0-r3 and the order of *)
(* instructions go.                                                         *)

Writes(ins) ==
    CASE ins.op = "mov"                       -> [r \in {ins.dst} |-> Const(ins.imm)]
      [] ins.op = "ldmap"                     -> [r \in {ins.dst} |-> MapPtr(ins.imm)]
      [] ins.op \in {"movreg", "add", "ldx", "ldimm", "acquire"}
                                              -> [r \in {ins.dst} |-> Unknown]
      [] ins.op = "fetch"                     -> [r \in {ins.src} |-> Unknown]
      [] ins.op = "cmpxchg"                   -> [r \in {"r0"} |-> Unknown]
      [] ins.op \in {"call", "ldabs"}         -> [r \in Regs |-> Unknown]
      [] OTHER                                -> <<>>

\* A tail call leaves when its slot holds a program; otherwise, and after any
\* other call, the program goes on.
Successors(p, i) ==
    LET to(d) == At(p, Offset(p, i) + 1 + d)
    IN  CASE p[i].op = "jif"   -> {i + 1} \union to(p[i].off)
          [] p[i].op = "ja"    -> to(p[i].off)
          [] p[i].op = "gotol" -> to(p[i].imm)
          [] p[i].op = "exit"  -> {}
          [] OTHER             -> {i + 1}

Run ==
    /\ stage = "run"
    /\ ip' \in Successors(prog, ip)
    /\ regs' = LET w == Writes(prog[ip])
               IN  [r \in Regs |-> IF r \in DOMAIN w THEN w[r] ELSE regs[r]]
    /\ UNCHANGED <<len, prog, visible, flips, agent>>

Next == Load \/ Flip \/ ReadInsns \/ NoInsns \/ FindCallBase \/ ReadSymbols \/ ShowDump \/ Run

Spec == Init /\ [][Next]_vars

-----------------------------------------------------------------------------
(* Properties.                                                              *)

TypeOK ==
    /\ len \in DOMAIN Code /\ visible \in BOOLEAN /\ flips \in 0..MaxFlips
    /\ based \in BOOLEAN /\ raw \in BOOLEAN /\ resolved \in BOOLEAN
    /\ stage \in {"load", "open", "base", "symbols", "format", "run", "failed"}
    /\ prog \in Seq(Instructions)
    /\ stage # "load" => ip \in DOMAIN prog
    /\ DOMAIN regs = Regs
    /\ stage = "run" => DOMAIN page = DOMAIN prog

\* What the tail-call table says of a site is true on every path that reaches it:
\* r2 holds that program array, r3 that index, and the slot that program.
\* (tailcall.go:141: an operand is left unread rather than guessed.)
ScanTellsTruth ==
    \A c \in calls :
        Offset(prog, ip) = c.site =>
            /\ regs["r2"] = MapPtr(c.map)
            /\ \A k \in c.index : regs["r3"] = Const(k)
            /\ \A g \in c.prog : \E k \in c.index : ProgArraySlot(regs["r2"].v, k) = g

\* A call whose instruction was read with its address is named for the function it
\* calls, or not at all, and is named where the symbols were read with theirs too.
\* Where kptr_restrict hid the instructions' addresses, a call has no name; but if
\* it is lifted before the symbols are read, every call has __bpf_call_base's.
\* (kallsyms.go:45-97, disasm.go:333-380.)
NamesAreTrue ==
    \A i \in DOMAIN page :
        LET shown == page[i].parts.helper
            called == IF ResolvableCall(prog[i]) THEN prog[i].dst ELSE ""
        IN  /\ raw => shown \in {"", called}
            /\ raw /\ resolved => shown = called
            /\ ~raw => shown = IF resolved /\ ResolvableCall(prog[i]) THEN CallBase ELSE ""

\* A call the kernel hid is left unknown rather than named (kallsyms.go:106-108:
\* "naming a redacted call would be worse than leaving it unknown").  It is named
\* for __bpf_call_base when the symbols are read after kptr_restrict was lifted.
RedactedStayUnknown == ~raw => \A i \in DOMAIN page : page[i].parts.helper = ""

\* The dump is of its type, and names nothing falsely.
DumpIsSound == TypeOK /\ NamesAreTrue

\* The program can be followed on the page: it goes from a line to the line
\* printed under it, or to the one whose printed number the line's displacement
\* names; a register changes only where the line shows it assigned, or calls, or
\* could not be printed, or is a packet load; and a linked map is the one loaded.
FollowsListing ==
    [][stage = "run" =>
        LET line == page[ip]
        IN  /\ \/ ip' = ip + 1 /\ line.text.form \notin {"goto", "exit"}
               \/ \E d \in line.text.to : page[ip'].off = line.off + 1 + d
            /\ \A r \in Regs : regs'[r] # regs[r] =>
                  \/ line.text.form \in {"call", "call pc", "BUG"}
                  \/ r \in line.text.sets
                  \/ prog[ip].op = "ldabs"
            /\ line.parts.link # 0 => \E r \in line.text.sets : regs'[r] = MapPtr(line.parts.link)]_machine
=============================================================================
