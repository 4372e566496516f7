---------------------------- MODULE ProgDumpProofs ----------------------------
(***************************************************************************)
(* Proofs about ProgDump, for programs of any length, any scan limit, any  *)
(* kernel symbols and any program arrays: what the dump says of a tail     *)
(* call, of a call's name and of the flow of control is what the program   *)
(* does, on every path through it.                                         *)
(***************************************************************************)
EXTENDS ProgDump, SequenceTheorems, FiniteSetTheorems, TLAPS

(* A program: the verifier has seen each instruction, it ends in an exit,   *)
(* and every jump lands.                                                    *)
Programs ==
  {p \in Seq(Instructions) : /\ Len(p) \in Nat \ {0}
                             /\ \A i \in 1..Len(p) : Verified(p[i])
                             /\ p[Len(p)].op = "exit"
                             /\ WellFormed(p)}

(* The instructions the agent read.                                         *)
Read == Shown(prog, raw)

(* Every step finds what the ones before it left: a program, which runs     *)
(* only when the page shows what was read of it.                            *)
DumpInv ==
  /\ len \in DOMAIN Code /\ visible \in BOOLEAN /\ flips \in 0..MaxFlips
  /\ based \in BOOLEAN /\ raw \in BOOLEAN /\ resolved \in BOOLEAN
  /\ stage \in {"load", "open", "base", "symbols", "format", "run", "failed"}
  /\ stage = "load" => prog = <<>>
  /\ stage # "load" => prog \in Programs /\ ip \in DOMAIN prog
  /\ DOMAIN regs = Regs
  /\ stage # "run" => ip = 1 /\ page = <<>> /\ calls = {}
  /\ stage = "run" => /\ page = XlatedLines(FormatListing(Read, Names))
                     /\ calls = TailCalls(Read)

-----------------------------------------------------------------------------
(* Programs, and how the kernel shows them.                                *)

LEMMA TwoMore ==
  ASSUME NEW S, NEW q \in Seq(S), NEW a \in S, NEW b \in S
  PROVE  /\ q \o <<a, b>> \in Seq(S)
         /\ Len(q \o <<a, b>>) = Len(q) + 2
         /\ (q \o <<a, b>>)[Len(q) + 2] = b
<1> DEFINE t == <<a, b>>
<1>1. t \in Seq(S) /\ Len(t) = 2 /\ t[2] = b
  OBVIOUS
<1> HIDE DEF t
<1>2. Len(q) \in Nat
  BY LenProperties
<1>3. q \o t \in Seq(S) /\ Len(q \o t) = Len(q) + Len(t)
  BY <1>1, ConcatProperties
<1>4. (q \o t)[Len(q) + 2] = t[(Len(q) + 2) - Len(q)]
  BY <1>1, <1>2, ConcatProperties
<1> QED
  BY <1>1, <1>2, <1>3, <1>4 DEF t

LEMMA EndedTyped ==
  ASSUME NEW n \in DOMAIN Code, NEW body \in [1..n -> Code[n]], WellFormed(Ended(body))
  PROVE  /\ Ended(body) \in Programs
         /\ 1 \in DOMAIN Ended(body)
         /\ \A i \in DOMAIN Ended(body) :
              Ended(body)[i] \in Code[n] \union {Ins("call", "bpf_tail_call", "r0", 0, 0),
                                                 Ins("exit", "-", "-", 0, 0)}
<1> DEFINE tc == Ins("call", "bpf_tail_call", "r0", 0, 0)
           ex == Ins("exit", "-", "-", 0, 0)
           S == Code[n] \union {tc, ex}
<1>1. Verified(tc) /\ Verified(ex) /\ ex.op = "exit"
  BY DEF Ins, Instructions, Verified, ALU, Atomics, Ops, Operands, Regs
<1>2. \A ins \in Code[n] : Verified(ins)
  BY DumpAssumption
<1>3. n \in Nat /\ tc \in S /\ ex \in S
  BY DumpAssumption
<1> HIDE DEF tc, ex
<1>4. body \in Seq(S) /\ Len(body) = n
  BY <1>3, SeqDef
<1>5. \A ins \in S : Verified(ins) /\ ins \in Instructions
  BY <1>1, <1>2 DEF Verified
<1> HIDE DEF S
<1>6. /\ Ended(body) \in Seq(S) /\ Len(Ended(body)) = n + 2
      /\ Ended(body)[n + 2] = ex
  BY <1>3, <1>4, TwoMore DEF Ended, tc, ex
<1>7. DOMAIN Ended(body) = 1..(n + 2) /\ \A i \in 1..(n + 2) : Ended(body)[i] \in S
  BY <1>6, LenProperties, ElementOfSeq
<1>8. Ended(body) \in Seq(Instructions)
  BY <1>5, <1>6
<1>9. Ended(body) \in Programs
  BY <1>1, <1>3, <1>5, <1>6, <1>7, <1>8 DEF Programs
<1> QED
  BY <1>3, <1>7, <1>9 DEF S, tc, ex

(* Only a call's imm is changed, so offsets and targets are the program's.  *)
LEMMA ShownAs ==
  ASSUME NEW p \in Seq(Instructions), NEW b \in BOOLEAN
  PROVE  /\ DOMAIN Shown(p, b) = DOMAIN p
         /\ \A i \in DOMAIN p :
              /\ Shown(p, b)[i].op = p[i].op /\ Shown(p, b)[i].dst = p[i].dst
              /\ Shown(p, b)[i].src = p[i].src /\ Shown(p, b)[i].off = p[i].off
              /\ p[i].op # "call" => Shown(p, b)[i] = p[i]
              /\ Offset(Shown(p, b), i) = Offset(p, i)
         /\ Targets(Shown(p, b)) = Targets(p)
<1> DEFINE s == Shown(p, b)
<1>1. DOMAIN s = DOMAIN p
  BY DEF Shown
<1>2. ASSUME NEW i \in DOMAIN p
      PROVE  /\ s[i].op = p[i].op /\ s[i].dst = p[i].dst
             /\ s[i].src = p[i].src /\ s[i].off = p[i].off
             /\ p[i].op # "call" => s[i] = p[i]
  <2>1. p[i] \in Instructions
    BY ElementOfSeq, LenProperties
  <2>2. CASE p[i].op # "call"
    BY <2>2 DEF Shown
  <2>3. CASE p[i].op = "call"
    <3> DEFINE v == IF ~b \/ p[i].src = "pseudo" THEN 0
                    ELSE IF p[i].dst = "bpf_tail_call" THEN TailCallId ELSE Dist[p[i].dst]
    <3>1. s[i] = [p[i] EXCEPT !.imm = v]
      BY <2>3 DEF Shown
    <3> HIDE DEF v, s
    <3> QED
      BY <2>1, <2>3, <3>1 DEF Instructions
  <2> QED
    BY <2>2, <2>3
<1> HIDE DEF s
<1>3. ASSUME NEW i \in DOMAIN p
      PROVE  Offset(s, i) = Offset(p, i)
  <2>1. \A j \in 1..(i - 1) : j \in DOMAIN p
    BY LenProperties
  <2>2. {j \in 1..(i - 1) : Wide(s[j])} = {j \in 1..(i - 1) : Wide(p[j])}
    BY <1>2, <2>1 DEF Wide
  <2> QED
    BY <2>2 DEF Offset
<1>4. \A i \in DOMAIN p : JumpTarget(s[i], Offset(s, i)) = JumpTarget(p[i], Offset(p, i))
  <2> TAKE i \in DOMAIN p
  <2>1. CASE p[i].op = "call"
    BY <1>2, <2>1 DEF JumpTarget
  <2>2. CASE p[i].op # "call"
    BY <1>2, <1>3, <2>2
  <2> QED
    BY <2>1, <2>2
<1>5. Targets(s) = Targets(p)
  BY <1>1, <1>4 DEF Targets
<1> QED
  BY <1>1, <1>2, <1>3, <1>5 DEF s

(* A number of the listing is of one instruction.                           *)
LEMMA OffsetRises ==
  ASSUME NEW p, NEW i \in Nat \ {0}, NEW j \in Nat \ {0}, i < j
  PROVE  Offset(p, i) \in Nat /\ Offset(p, i) < Offset(p, j)
<1> DEFINE W(k) == {m \in 1..(k - 1) : Wide(p[m])}
<1>1. \A k \in Nat \ {0} : IsFiniteSet(W(k)) /\ Cardinality(W(k)) \in Nat
  <2> TAKE k \in Nat \ {0}
  <2>1. IsFiniteSet(1..(k - 1))
    BY FS_Interval
  <2>2. W(k) \in SUBSET (1..(k - 1))
    OBVIOUS
  <2> QED
    BY <2>1, <2>2, FS_Subset, FS_CardinalityType
<1>2. W(i) \in SUBSET W(j)
  OBVIOUS
<1>3. Cardinality(W(i)) <= Cardinality(W(j))
  BY <1>1, <1>2, FS_Subset
<1>4. Offset(p, i) = (i - 1) + Cardinality(W(i)) /\ Offset(p, j) = (j - 1) + Cardinality(W(j))
  BY DEF Offset
<1> HIDE DEF W
<1> QED
  BY <1>1, <1>3, <1>4

LEMMA OffsetIsOnes ==
  ASSUME NEW p \in Seq(Instructions), NEW i \in DOMAIN p, NEW j \in DOMAIN p,
         Offset(p, i) = Offset(p, j)
  PROVE  i = j
<1>1. i \in Nat \ {0} /\ j \in Nat \ {0}
  BY LenProperties
<1>2. ~(i < j) /\ ~(j < i)
  BY <1>1, OffsetRises
<1> QED
  BY <1>1, <1>2

(* The machine goes to the next instruction, or where a jump lands.         *)
LEMMA Lands ==
  ASSUME NEW p \in Programs, NEW i \in DOMAIN p, NEW j \in Successors(p, i)
  PROVE  /\ j \in DOMAIN p
         /\ \/ j = i + 1 /\ p[i].op \notin {"ja", "gotol", "exit"}
            \/ Offset(p, j) \in JumpTarget(p[i], Offset(p, i))
<1>1. /\ p \in Seq(Instructions) /\ Len(p) \in Nat \ {0} /\ DOMAIN p = 1..Len(p)
      /\ p[Len(p)].op = "exit"
  BY LenProperties DEF Programs
<1>2. CASE j = i + 1 /\ p[i].op \notin {"ja", "gotol", "exit"}
  BY <1>1, <1>2
<1>3. CASE ~(j = i + 1 /\ p[i].op \notin {"ja", "gotol", "exit"})
  <2>1. \/ p[i].op = "jif" /\ j \in At(p, Offset(p, i) + 1 + p[i].off)
        \/ p[i].op = "ja" /\ j \in At(p, Offset(p, i) + 1 + p[i].off)
        \/ p[i].op = "gotol" /\ j \in At(p, Offset(p, i) + 1 + p[i].imm)
    BY <1>3 DEF Successors
  <2>2. Offset(p, j) \in JumpTarget(p[i], Offset(p, i)) /\ j \in DOMAIN p
    BY <2>1 DEF At, JumpTarget
  <2> QED
    BY <2>2
<1> QED
  BY <1>2, <1>3

-----------------------------------------------------------------------------
LEMMA DumpInit ==
  ASSUME Init
  PROVE  DumpInv
<1>1. 0 \in 0..MaxFlips
  BY DumpAssumption
<1>2. visible \in BOOLEAN /\ based \in BOOLEAN
  BY DEF Init
<1> QED
  BY <1>1, <1>2 DEF Init, DumpInv

LEMMA DumpStep ==
  ASSUME DumpInv, [Next]_vars
  PROVE  DumpInv'
<1> USE DEF DumpInv, agent, machine, Read
<1>1. CASE Load
  <2>1. PICK body \in [1..len -> Code[len]] : WellFormed(Ended(body)) /\ prog' = Ended(body)
    BY <1>1 DEF Load
  <2>2. prog' \in Programs /\ 1 \in DOMAIN prog'
    BY <1>1, <2>1, EndedTyped DEF Load
  <2> QED
    BY <1>1, <2>2 DEF Load
<1>2. CASE Flip
  BY <1>2, DumpAssumption DEF Flip
<1>3. CASE ReadInsns \/ NoInsns
  BY <1>3 DEF ReadInsns, NoInsns
<1>4. CASE FindCallBase
  BY <1>4 DEF FindCallBase
<1>5. CASE ReadSymbols
  BY <1>5 DEF ReadSymbols
<1>6. CASE ShowDump
  <2>1. Read' = Read /\ Names' = Names
    BY <1>6 DEF ShowDump, Names
  <2>2. page' = XlatedLines(FormatListing(Read, Names)) /\ calls' = TailCalls(Read)
    BY <1>6 DEF ShowDump, DumpAnswer
  <2>3. XlatedLines(FormatListing(Read, Names))' = XlatedLines(FormatListing(Read, Names))
    BY <2>1 DEF XlatedLines, FormatListing, Offset
  <2>4. TailCalls(Read)' = TailCalls(Read)
    BY <1>6 DEF ShowDump
  <2> HIDE DEF Read
  <2> QED
    BY <1>6, <2>2, <2>3, <2>4 DEF ShowDump
<1>7. CASE Run
  <2>1. ip' \in DOMAIN prog
    BY <1>7, Lands DEF Run
  <2>2. Read' = Read /\ Names' = Names
    BY <1>7 DEF Run, Names
  <2>3. DOMAIN regs' = Regs
    BY <1>7 DEF Run
  <2> HIDE DEF Read
  <2> QED
    BY <1>7, <2>1, <2>2, <2>3 DEF Run
<1>8. CASE UNCHANGED vars
  BY <1>8 DEF vars, Names
<1> QED
  BY <1>1, <1>2, <1>3, <1>4, <1>5, <1>6, <1>7, <1>8 DEF Next

LEMMA DumpInvariant == Spec => []DumpInv
BY DumpInit, DumpStep, PTL DEF Spec

-----------------------------------------------------------------------------
(* The names.                                                              *)

(* Only a call of a function is printed as one.                             *)
LEMMA CallForm ==
  ASSUME NEW ins, ins.op \in Ops, NEW names, FormatInstruction(ins, names).form = "call"
  PROVE  ins.op = "call" /\ ins.src # "pseudo"
<1>1. Text.form = "plain" /\ Bug.form = "BUG" /\ \A r : Sets(r).form = "plain"
  BY DEF Text, Bug, Sets
<1>2. FormatALU(ins).form # "call" /\ FormatSt(ins).form # "call" /\ FormatLdX(ins).form # "call"
  BY <1>1 DEF FormatALU, FormatSt, FormatLdX
<1>3. FormatAtomic(ins).form # "call"
  BY <1>1 DEF FormatAtomic
<1>4. FormatStX(ins).form # "call"
  BY <1>1, <1>3 DEF FormatStX
<1>5. FormatLd(ins).form # "call"
  <2>1. [Sets(ins.dst) EXCEPT !.map = ImmString(ins)].form = "plain"
    BY DEF Sets, Text
  <2> QED
    BY <1>1, <2>1 DEF FormatLd
<1>6. FormatJump(ins, names).form = "call"
  BY <1>2, <1>4, <1>5 DEF FormatInstruction
<1> QED
  <2>1. /\ [Text EXCEPT !.form = "call pc"].form = "call pc"
        /\ [Text EXCEPT !.form = "exit"].form = "exit"
        /\ \A to : /\ [Text EXCEPT !.form = "goto", !.to = to].form = "goto"
                   /\ [Text EXCEPT !.form = "if", !.to = to].form = "if"
    BY DEF Text
  <2> SUFFICES ASSUME ~(ins.op = "call" /\ ins.src # "pseudo")
               PROVE  FormatJump(ins, names).form # "call"
    BY <1>6
  <2>2. \/ FormatJump(ins, names) = [Text EXCEPT !.form = "call pc"]
        \/ FormatJump(ins, names) = [Text EXCEPT !.form = "goto", !.to = {ins.imm}]
        \/ FormatJump(ins, names) = [Text EXCEPT !.form = "goto", !.to = {ins.off}]
        \/ FormatJump(ins, names) = [Text EXCEPT !.form = "exit"]
        \/ FormatJump(ins, names) = [Text EXCEPT !.form = "if", !.to = {ins.off}]
    <3>1. CASE ins.op = "call"
      BY <3>1 DEF FormatJump, ResolvableCall
    <3>2. CASE ins.op = "gotol"
      BY <3>2 DEF FormatJump, ResolvableCall
    <3>3. CASE ins.op = "ja"
      BY <3>3 DEF FormatJump, ResolvableCall
    <3>4. CASE ins.op = "exit"
      BY <3>4 DEF FormatJump, ResolvableCall
    <3>5. CASE ins.op \notin {"call", "gotol", "ja", "exit"}
      BY <3>5 DEF FormatJump, ResolvableCall
    <3> QED
      BY <3>1, <3>2, <3>3, <3>4, <3>5
  <2> QED
    BY <2>1, <2>2

(* The function a call really calls, named or hidden, or no name at all.    *)
LEMMA NameIsTrue ==
  ASSUME DumpInv, stage = "run", NEW i \in DOMAIN prog
  PROVE  LET shown == page[i].parts.helper
             called == IF ResolvableCall(prog[i]) THEN prog[i].dst ELSE ""
         IN  /\ raw => shown \in {"", called}
             /\ raw /\ resolved => shown = called
             /\ ~raw => shown = IF resolved /\ ResolvableCall(prog[i]) THEN CallBase ELSE ""
<1> DEFINE ins == Read[i]
           text == FormatInstruction(ins, Names)
<1>1. /\ prog \in Seq(Instructions) /\ raw \in BOOLEAN /\ resolved \in BOOLEAN
      /\ Verified(prog[i]) /\ DOMAIN Read = DOMAIN prog
      /\ ins.op = prog[i].op /\ ins.dst = prog[i].dst /\ ins.src = prog[i].src
  <2>1. prog \in Programs /\ raw \in BOOLEAN /\ resolved \in BOOLEAN
    BY DEF DumpInv
  <2>2. prog \in Seq(Instructions) /\ i \in 1..Len(prog) /\ Verified(prog[i])
    BY <2>1, LenProperties DEF Programs
  <2> QED
    BY <2>1, <2>2, ShownAs DEF Read
<1>2. page[i].parts.helper = IF text.form = "call" /\ text.name # "unknown" THEN text.name ELSE ""
  <2>1. FormatListing(Read, Names)[i].text = text /\ i \in DOMAIN FormatListing(Read, Names)
    BY <1>1 DEF FormatListing
  <2>2. page = XlatedLines(FormatListing(Read, Names))
    BY DEF DumpInv
  <2> HIDE DEF text
  <2> QED
    BY <2>1, <2>2 DEF XlatedLines, XlatedParts
<1>3. CASE ~ResolvableCall(prog[i])
  <2>1. text.form # "call"
    BY <1>1, <1>3, CallForm DEF Verified, Instructions, ResolvableCall
  <2> QED
    BY <1>1, <1>2, <1>3, <2>1
<1>4. CASE ResolvableCall(prog[i])
  <2>1. prog[i].op = "call" /\ prog[i].src # "pseudo"
    BY <1>4 DEF ResolvableCall
  <2>2. /\ text.form = "call"
        /\ text.name = IF ins.imm \in DOMAIN Names THEN Names[ins.imm]
                       ELSE IF HelperName(ins.imm) # "" THEN HelperName(ins.imm) ELSE "unknown"
    <3> HIDE DEF ins
    <3>1. ins.op = "call" /\ ResolvableCall(ins)
      BY <1>1, <2>1 DEF ResolvableCall
    <3>2. text = FormatJump(ins, Names)
      BY <3>1 DEF FormatInstruction, ALU, Atomics
    <3> DEFINE name == IF ins.imm \in DOMAIN Names THEN Names[ins.imm]
                       ELSE IF HelperName(ins.imm) # "" THEN HelperName(ins.imm) ELSE "unknown"
    <3>3. FormatJump(ins, Names) = [Text EXCEPT !.form = "call", !.name = name]
      BY <3>1 DEF FormatJump, ResolvableCall
    <3> HIDE DEF name, text
    <3>4. text.form = "call" /\ text.name = name
      BY <3>2, <3>3 DEF Text
    <3> QED
      BY <3>4 DEF name
  <2>3. ins.imm = IF ~raw THEN 0
                  ELSE IF prog[i].dst = "bpf_tail_call" THEN TailCallId ELSE Dist[prog[i].dst]
    <3>1. prog[i] \in Instructions
      BY <1>1 DEF Verified
    <3> QED
      BY <2>1, <3>1 DEF Read, Shown, Instructions
  <2>4. ins.imm \in DOMAIN Names => resolved /\ Names[ins.imm] \in SymbolsAt(ins.imm)
    BY DEF Names, CallNames
  <2>5. CASE ~raw
    <3>1. SymbolsAt(0) = {CallBase} /\ HelperName(0) = ""
      BY DumpAssumption DEF SymbolsAt, HelperName, TailCallId
    <3>2. resolved => ins.imm \in DOMAIN Names
      <4>1. i \in {j \in DOMAIN Read : ResolvableCall(Read[j])}
        BY <1>1, <2>1 DEF ResolvableCall
      <4> QED
        BY <2>3, <2>5, <3>1, <4>1 DEF Names, CallNames, Read
    <3>3. text.form = "call"
      BY <2>2
    <3>4. CallBase # "unknown"
      BY DEF CallBase
    <3> HIDE DEF ins, text
    <3>5. resolved => text.name = CallBase
      BY <2>2, <2>3, <2>4, <2>5, <3>1, <3>2
    <3>6. ~resolved => text.name = "unknown"
      BY <2>2, <2>3, <2>4, <2>5, <3>1
    <3> QED
      BY <1>1, <1>2, <1>4, <2>5, <3>3, <3>4, <3>5, <3>6
  <2>6. CASE raw /\ prog[i].dst = "bpf_tail_call"
    <3>1. SymbolsAt(TailCallId) = {}
      BY DumpAssumption DEF SymbolsAt, TailCallId
    <3>2. HelperName(TailCallId) = "bpf_tail_call"
      BY DEF HelperName
    <3>3. text.form = "call"
      BY <2>2
    <3> HIDE DEF ins, text
    <3>4. text.name = "bpf_tail_call"
      BY <2>2, <2>3, <2>4, <2>6, <3>1, <3>2
    <3> QED
      BY <1>2, <1>4, <2>6, <3>3, <3>4
  <2>7. CASE raw /\ prog[i].dst # "bpf_tail_call"
    <3>1. prog[i].dst \in DOMAIN Dist
      BY <1>1, <2>1, <2>7 DEF Verified
    <3>2. SymbolsAt(Dist[prog[i].dst]) = {prog[i].dst}
      BY <3>1, DumpAssumption DEF SymbolsAt
    <3>3. HelperName(Dist[prog[i].dst]) = ""
      BY <3>1, DumpAssumption DEF HelperName
    <3>4. resolved => ins.imm \in DOMAIN Names
      <4>1. i \in {j \in DOMAIN Read : ResolvableCall(Read[j])}
        BY <1>1, <2>1 DEF ResolvableCall
      <4> QED
        BY <2>3, <2>7, <3>2, <4>1 DEF Names, CallNames, Read
    <3>5. text.form = "call"
      BY <2>2
    <3> HIDE DEF ins, text
    <3>6. resolved => text.name = prog[i].dst
      BY <2>2, <2>3, <2>4, <2>7, <3>2, <3>4
    <3>7. ~resolved => text.name = "unknown"
      BY <2>2, <2>3, <2>4, <2>7, <3>3
    <3> QED
      BY <1>2, <1>4, <2>7, <3>1, <3>5, <3>6, <3>7, DumpAssumption
  <2> QED
    BY <1>1, <2>5, <2>6, <2>7
<1> QED
  BY <1>3, <1>4

(* DumpIsSound holds of every reachable state: types, and no call is marked *)
(* as one it is not, wherever the addresses became hidden                   *)
(* (kallsyms.go:45-127, disasm.go:333-380).                                  *)
THEOREM DumpAlwaysSound == Spec => []DumpIsSound
<1>1. DumpInv => DumpIsSound
  <2> SUFFICES ASSUME DumpInv PROVE TypeOK /\ NamesAreTrue
    BY DEF DumpIsSound
  <2>1. stage = "run" => DOMAIN page = DOMAIN prog
    BY ShownAs DEF DumpInv, Programs, Read, XlatedLines, FormatListing
  <2>2. prog \in Seq(Instructions)
    BY EmptySeq DEF DumpInv, Programs
  <2>3. TypeOK
    BY <2>1, <2>2 DEF DumpInv, TypeOK
  <2>4. NamesAreTrue
    <3>1. ASSUME NEW i \in DOMAIN page
          PROVE  stage = "run" /\ i \in DOMAIN prog
      BY <2>1 DEF DumpInv
    <3> QED
      BY <3>1, NameIsTrue DEF NamesAreTrue
  <2> QED
    BY <2>3, <2>4
<1> QED
  BY <1>1, DumpInvariant, PTL

-----------------------------------------------------------------------------
(* Following the listing.                                                  *)

LEMMA Texts ==
  /\ Text.form = "plain" /\ Text.sets = {} /\ Text.map = 0
  /\ Bug.form = "BUG" /\ Bug.map = 0
  /\ \A r : Sets(r).form = "plain" /\ Sets(r).sets = {r} /\ Sets(r).map = 0
  /\ \A r, m : LET t == [Sets(r) EXCEPT !.map = m]
               IN  t.form = "plain" /\ t.sets = {r} /\ t.map = m
  /\ LET t == [Text EXCEPT !.form = "call pc"] IN t.form = "call pc" /\ t.map = 0
  /\ LET t == [Text EXCEPT !.form = "exit"] IN t.form = "exit" /\ t.map = 0
  /\ \A n : LET t == [Text EXCEPT !.form = "call", !.name = n]
            IN  t.form = "call" /\ t.map = 0
  /\ \A to : LET t == [Text EXCEPT !.form = "goto", !.to = to]
             IN  t.form = "goto" /\ t.to = to /\ t.map = 0
  /\ \A to : LET t == [Text EXCEPT !.form = "if", !.to = to]
             IN  t.form = "if" /\ t.to = to /\ t.map = 0
BY DEF Text, Bug, Sets

(* The text of an instruction says where it may jump, what it may write,    *)
(* and names a map only where it is loaded.                                 *)
LEMMA TextTells ==
  ASSUME NEW ins, ins.op \in Ops, NEW names
  PROVE  LET text == FormatInstruction(ins, names)
         IN  /\ ins.op \notin {"ja", "gotol", "exit"} => text.form \notin {"goto", "exit"}
             /\ \A o : \A d \in JumpTarget(ins, o) : \E x \in text.to : d = o + 1 + x
             /\ \A r \in DOMAIN Writes(ins) : \/ text.form \in {"call", "call pc", "BUG"}
                                              \/ r \in text.sets
                                              \/ ins.op = "ldabs"
             /\ text.map # 0 => ins.op = "ldmap" /\ text.map = ins.imm /\ text.sets = {ins.dst}
<1> DEFINE text == FormatInstruction(ins, names)
<1>1. CASE ins.op \in ALU
  BY <1>1, Texts DEF ALU, Atomics, FormatALU, FormatInstruction, JumpTarget, Writes
<1>2. CASE ins.op \in {"lock", "st", "stx"}
  <2>1. text = Text
    <3>1. CASE ins.op = "lock"
      BY <3>1 DEF ALU, Atomics, FormatStX, FormatAtomic, FormatInstruction
    <3>2. CASE ins.op \in {"st", "stx"}
      BY <3>2 DEF ALU, Atomics, FormatSt, FormatStX, FormatInstruction
    <3> QED
      BY <1>2, <3>1, <3>2
  <2>2. DOMAIN Writes(ins) = {} /\ \A o : JumpTarget(ins, o) = {}
    BY <1>2 DEF Writes, JumpTarget
  <2> QED
    BY <1>2, <2>1, <2>2, Texts
<1>3. CASE ins.op \in {"fetch", "cmpxchg", "acquire", "release"}
  <2>1. CASE ins.op = "fetch"
    BY <2>1, Texts DEF ALU, Atomics, FormatStX, FormatAtomic, FormatInstruction, JumpTarget, Writes
  <2>2. CASE ins.op = "cmpxchg"
    BY <2>2, Texts DEF ALU, Atomics, FormatStX, FormatAtomic, FormatInstruction, JumpTarget, Writes
  <2>3. CASE ins.op \in {"acquire", "release"}
    BY <2>3, Texts DEF ALU, Atomics, FormatStX, FormatAtomic, FormatInstruction, JumpTarget, Writes
  <2> QED
    BY <1>3, <2>1, <2>2, <2>3
<1>4. CASE ins.op = "ldx"
  BY <1>4, Texts DEF ALU, Atomics, FormatLdX, FormatInstruction, JumpTarget, Writes
<1>5. CASE ins.op \in {"ldmap", "ldimm"}
  <2>1. text = [Sets(ins.dst) EXCEPT !.map = IF ins.op = "ldmap" THEN ins.imm ELSE 0]
    BY <1>5 DEF ALU, Atomics, FormatLd, ImmString, FormatInstruction
  <2>2. text.form = "plain" /\ text.sets = {ins.dst} /\ (text.map # 0 => ins.op = "ldmap" /\ text.map = ins.imm)
    BY <2>1, Texts
  <2>3. DOMAIN Writes(ins) = {ins.dst} /\ \A o : JumpTarget(ins, o) = {}
    BY <1>5 DEF Writes, JumpTarget
  <2> QED
    BY <1>5, <2>2, <2>3
<1>6. CASE ins.op = "ldabs"
  BY <1>6, Texts DEF ALU, Atomics, FormatLd, FormatInstruction, JumpTarget
<1>7. CASE ins.op = "call"
  <2>1. text.form \in {"call", "call pc"} /\ text.map = 0
    BY <1>7, Texts DEF ALU, Atomics, FormatJump, ResolvableCall, FormatInstruction
  <2> QED
    BY <1>7, <2>1 DEF JumpTarget
<1>8. CASE ins.op \in {"ja", "gotol", "jif", "exit"}
  <2>1. DOMAIN Writes(ins) = {}
    BY <1>8 DEF Writes
  <2>2. CASE ins.op \in {"ja", "jif"}
    <3>1. text = [Text EXCEPT !.form = IF ins.op = "ja" THEN "goto" ELSE "if", !.to = {ins.off}]
      BY <2>2 DEF ALU, Atomics, FormatJump, ResolvableCall, FormatInstruction
    <3>2. text.form = (IF ins.op = "ja" THEN "goto" ELSE "if") /\ text.to = {ins.off} /\ text.map = 0
      BY <3>1 DEF Text
    <3>3. \A o : JumpTarget(ins, o) = {o + 1 + ins.off}
      BY <2>2 DEF JumpTarget
    <3> QED
      BY <2>1, <2>2, <3>2, <3>3
  <2>3. CASE ins.op = "gotol"
    <3>1. text = [Text EXCEPT !.form = "goto", !.to = {ins.imm}]
      BY <2>3 DEF ALU, Atomics, FormatJump, ResolvableCall, FormatInstruction
    <3>2. text.form = "goto" /\ text.to = {ins.imm} /\ text.map = 0
      BY <3>1 DEF Text
    <3>3. \A o : JumpTarget(ins, o) = {o + 1 + ins.imm}
      BY <2>3 DEF JumpTarget
    <3> QED
      BY <2>1, <2>3, <3>2, <3>3
  <2>4. CASE ins.op = "exit"
    <3>1. text.map = 0
      BY <2>4 DEF ALU, Atomics, FormatJump, ResolvableCall, FormatInstruction, Text
    <3>2. \A o : JumpTarget(ins, o) = {}
      BY <2>4 DEF JumpTarget
    <3> QED
      BY <2>1, <2>4, <3>1, <3>2
  <2> QED
    BY <1>8, <2>2, <2>3, <2>4
<1> QED
  BY <1>1, <1>2, <1>3, <1>4, <1>5, <1>6, <1>7, <1>8 DEF Ops, ALU, Atomics

(* FollowsListing holds of every step: the program goes where the lines say *)
(* it goes, and writes what they say it writes                              *)
(* (disasm.go:121-149, 333-380; tailcall.go:89-118).                        *)
THEOREM ListingIsFollowed == Spec => FollowsListing
<1> DEFINE line == page[ip]
           Told == /\ \/ ip' = ip + 1 /\ line.text.form \notin {"goto", "exit"}
                      \/ \E d \in line.text.to : page[ip'].off = line.off + 1 + d
                   /\ \A r \in Regs : regs'[r] # regs[r] =>
                         \/ line.text.form \in {"call", "call pc", "BUG"}
                         \/ r \in line.text.sets
                         \/ prog[ip].op = "ldabs"
                   /\ line.parts.link # 0 =>
                        \E r \in line.text.sets : regs'[r] = MapPtr(line.parts.link)
<1>1. ASSUME DumpInv, [Next]_vars
      PROVE  [stage = "run" => Told]_machine
  <2> SUFFICES ASSUME DumpInv, Run, stage = "run" PROVE Told
    BY <1>1 DEF Next, Load, Flip, ReadInsns, NoInsns, FindCallBase, ReadSymbols, ShowDump, Run,
                agent, machine, vars
  <2> DEFINE ins == Read[ip]
             text == FormatInstruction(ins, Names)
  <2>1. /\ prog \in Programs /\ prog \in Seq(Instructions) /\ raw \in BOOLEAN /\ ip \in DOMAIN prog
        /\ Verified(prog[ip]) /\ prog[ip] \in Instructions
    <3>1. prog \in Programs /\ raw \in BOOLEAN /\ ip \in DOMAIN prog
      BY DEF DumpInv
    <3>2. prog \in Seq(Instructions) /\ ip \in 1..Len(prog)
      BY <3>1, LenProperties DEF Programs
    <3> QED
      BY <3>1, <3>2 DEF Programs, Verified
  <2>2. ip' \in Successors(prog, ip) /\ ip' \in DOMAIN prog
    BY <2>1, Lands DEF Run
  <2>3. /\ DOMAIN Read = DOMAIN prog
        /\ \A i \in DOMAIN prog : Offset(Read, i) = Offset(prog, i)
        /\ ins.op = prog[ip].op /\ ins.dst = prog[ip].dst /\ ins.src = prog[ip].src
        /\ ins.off = prog[ip].off /\ (prog[ip].op # "call" => ins = prog[ip])
    BY <2>1, ShownAs DEF Read
  <2>4. /\ \A i \in DOMAIN prog : page[i].off = Offset(prog, i)
        /\ line.text = text /\ line.parts.link = text.map
    <3>1. page = XlatedLines(FormatListing(Read, Names))
      BY DEF DumpInv
    <3>2. /\ \A i \in DOMAIN prog : /\ i \in DOMAIN FormatListing(Read, Names)
                                   /\ FormatListing(Read, Names)[i].off = Offset(prog, i)
          /\ FormatListing(Read, Names)[ip].text = text
      BY <2>1, <2>3 DEF FormatListing
    <3> HIDE DEF text
    <3> QED
      BY <2>1, <3>1, <3>2 DEF XlatedLines, XlatedParts
  <2>5. ins.op \in Ops
    BY <2>1, <2>3 DEF Instructions
  <2>6. /\ ins.op \notin {"ja", "gotol", "exit"} => text.form \notin {"goto", "exit"}
        /\ \A o : \A d \in JumpTarget(ins, o) : \E x \in text.to : d = o + 1 + x
        /\ \A r \in DOMAIN Writes(ins) : \/ text.form \in {"call", "call pc", "BUG"}
                                         \/ r \in text.sets
                                         \/ ins.op = "ldabs"
        /\ text.map # 0 => ins.op = "ldmap" /\ text.map = ins.imm /\ text.sets = {ins.dst}
    BY <2>5, TextTells
  <2> HIDE DEF text, ins
  <2>7. \/ ip' = ip + 1 /\ text.form \notin {"goto", "exit"}
        \/ \E d \in text.to : Offset(prog, ip') = Offset(prog, ip) + 1 + d
    <3>1. JumpTarget(ins, Offset(prog, ip)) = JumpTarget(prog[ip], Offset(prog, ip))
      BY <2>3 DEF JumpTarget
    <3> QED
      BY <2>1, <2>2, <2>3, <2>6, <3>1, Lands
  <2>8. ASSUME NEW r \in Regs, regs'[r] # regs[r]
        PROVE  r \in DOMAIN Writes(ins)
    <3>1. r \in DOMAIN Writes(prog[ip])
      BY <2>8 DEF Run, DumpInv
    <3>2. DOMAIN Writes(prog[ip]) = DOMAIN Writes(ins)
      BY <2>3 DEF Writes
    <3> QED
      BY <3>1, <3>2
  <2>9. ASSUME text.map # 0
        PROVE  \E r \in text.sets : regs'[r] = MapPtr(text.map)
    <3>1. /\ prog[ip].op = "ldmap" /\ text.map = prog[ip].imm
          /\ text.sets = {prog[ip].dst} /\ prog[ip].dst \in Regs
      BY <2>1, <2>3, <2>6, <2>9 DEF Verified
    <3>2. Writes(prog[ip]) = [r \in {prog[ip].dst} |-> MapPtr(prog[ip].imm)]
      BY <3>1 DEF Writes
    <3>3. regs'[prog[ip].dst] = MapPtr(prog[ip].imm)
      BY <3>1, <3>2 DEF Run
    <3> QED
      BY <3>1, <3>3
  <2> QED
    BY <2>1, <2>2, <2>3, <2>4, <2>6, <2>7, <2>8, <2>9
<1>2. FollowsListing <=> [][stage = "run" => Told]_machine
  BY DEF FollowsListing
<1> HIDE DEF Told
<1> QED
  BY <1>1, <1>2, DumpInvariant, PTL DEF Spec

-----------------------------------------------------------------------------
(* The tail calls.                                                         *)

(* No program loads with acquire order: the scan takes such a load for one  *)
(* that writes its source (tailcall.go:203-206), and may then be wrong.     *)
NoAcquire == \A n \in DOMAIN Code : \A ins \in Code[n] : ins.op # "acquire"

(* What a writer the scan can read leaves in its register.                  *)
Holds(ins, v) ==
  /\ ins.op = "mov" => v = Const(ins.imm)
  /\ ins.op = "ldmap" => v = MapPtr(ins.imm)

(* From behind the last writer of r to where the walk back began, r holds   *)
(* what the writer left there: nothing jumps in, and nothing else writes r. *)
OperandsHeld ==
  \A r \in Regs : \A c \in DOMAIN prog :
    Offset(prog, c) \notin Targets(prog) =>
      \A j \in Writer(prog, c, r) :
        ip \in (j + 1)..c => Holds(prog[j], regs[r])

ScanInv ==
  /\ DumpInv
  /\ \A i \in DOMAIN prog : prog[i].op # "acquire"
  /\ stage # "load" => OperandsHeld

(* The scan of what was read is the scan of the program.                    *)
LEMMA ScanOfRead ==
  ASSUME NEW p \in Seq(Instructions), NEW b \in BOOLEAN, NEW c \in DOMAIN p, NEW r
  PROVE  /\ Writer(Shown(p, b), c, r) = Writer(p, c, r)
         /\ \A j \in Writer(p, c, r) :
              /\ j \in 1..(c - 1) /\ j \in DOMAIN p
              /\ IsMapLoad(Shown(p, b)[j], r) => p[j].op = "ldmap" /\ Shown(p, b)[j].imm = p[j].imm
              /\ IsMovImm(Shown(p, b)[j], r) => p[j].op = "mov" /\ Shown(p, b)[j].imm = p[j].imm
<1> DEFINE s == Shown(p, b)
<1>1. \A j \in 1..(c - 1) : j \in DOMAIN p
  BY LenProperties
<1>2. /\ Targets(s) = Targets(p)
      /\ \A j \in 1..(c - 1) :
           /\ s[j].op = p[j].op /\ s[j].dst = p[j].dst /\ s[j].src = p[j].src
           /\ p[j].op # "call" => s[j] = p[j]
           /\ Offset(s, j) = Offset(p, j)
  BY <1>1, ShownAs
<1> HIDE DEF s
<1>3. \A j \in 1..(c - 1) : StopsScan(s[j]) = StopsScan(p[j]) /\ WritesReg(s[j], r) = WritesReg(p[j], r)
  BY <1>2 DEF StopsScan, WritesReg
<1>4. \A j \in 1..(c - 1) : j..(c - 1) \subseteq 1..(c - 1) /\ (j + 1)..(c - 1) \subseteq 1..(c - 1)
  BY LenProperties
<1>5. Scanned(s, c) = Scanned(p, c)
  BY <1>2, <1>3, <1>4 DEF Scanned
<1>6. Scanned(p, c) \subseteq 1..(c - 1)
  BY DEF Scanned
<1>7. Writer(s, c, r) = Writer(p, c, r) /\ Writer(p, c, r) \subseteq 1..(c - 1)
  BY <1>3, <1>5, <1>6 DEF Writer
<1>8. ASSUME NEW j \in Writer(p, c, r)
      PROVE  /\ IsMapLoad(s[j], r) => p[j].op = "ldmap" /\ s[j].imm = p[j].imm
             /\ IsMovImm(s[j], r) => p[j].op = "mov" /\ s[j].imm = p[j].imm
  BY <1>2, <1>7, <1>8 DEF IsMapLoad, IsMovImm
<1> QED
  BY <1>1, <1>7, <1>8 DEF s

(* Between the writer and the walk's start the machine only falls through.  *)
LEMMA HeldByRun ==
  ASSUME ScanInv, Run, NEW r \in Regs, NEW c \in DOMAIN prog,
         Offset(prog, c) \notin Targets(prog),
         NEW j \in Writer(prog, c, r), ip' \in (j + 1)..c
  PROVE  Holds(prog[j], regs'[r])
<1>1. /\ prog \in Programs /\ prog \in Seq(Instructions) /\ ip \in DOMAIN prog
      /\ DOMAIN prog = 1..Len(prog) /\ Len(prog) \in Nat /\ DOMAIN regs = Regs
      /\ ip' \in Successors(prog, ip) /\ OperandsHeld
  BY LenProperties DEF ScanInv, DumpInv, Run, Programs
<1>2. /\ j \in 1..(c - 1) /\ c - j <= MaxScan /\ WritesReg(prog[j], r)
      /\ \A k \in j..(c - 1) : ~StopsScan(prog[k])
      /\ \A k \in (j + 1)..(c - 1) : Offset(prog, k) \notin Targets(prog)
      /\ \A k \in Scanned(prog, c) : WritesReg(prog[k], r) => k <= j
  BY DEF Writer, Scanned
<1>3. c \in Nat /\ j \in Nat /\ ip' \in Nat /\ ip \in Nat /\ MaxScan \in Nat
  BY <1>1, <1>2, DumpAssumption
<1>4. ip' = ip + 1
  <2>1. Offset(prog, ip') \notin Targets(prog)
    <3>1. CASE ip' = c
      BY <3>1
    <3>2. CASE ip' # c
      <4>1. ip' \in (j + 1)..(c - 1)
        BY <1>3, <3>2
      <4> QED
        BY <1>2, <4>1
    <3> QED
      BY <3>1, <3>2
  <2>2. JumpTarget(prog[ip], Offset(prog, ip)) \subseteq Targets(prog)
    BY <1>1 DEF Targets
  <2> QED
    BY <1>1, <2>1, <2>2, Lands
<1>5. ip \in j..(c - 1)
  BY <1>3, <1>4
<1>6. ~StopsScan(prog[ip]) /\ prog[ip].op # "acquire" /\ prog[ip].op # "call"
  <2>1. ~StopsScan(prog[ip])
    BY <1>2, <1>5
  <2>2. prog[ip].op # "acquire"
    BY <1>1 DEF ScanInv
  <2> QED
    BY <2>1, <2>2 DEF StopsScan
<1>7. CASE ip = j
  <2>1. CASE prog[ip].op = "mov"
    <3>1. prog[ip].dst = r
      BY <1>2, <1>7, <2>1 DEF WritesReg, ALU, Atomics
    <3>2. Writes(prog[ip]) = [x \in {r} |-> Const(prog[ip].imm)]
      BY <2>1, <3>1 DEF Writes
    <3>3. regs'[r] = Const(prog[ip].imm)
      BY <3>2 DEF Run
    <3> QED
      BY <1>7, <2>1, <3>3 DEF Holds
  <2>2. CASE prog[ip].op = "ldmap"
    <3>1. prog[ip].dst = r
      BY <1>2, <1>7, <2>2 DEF WritesReg, ALU, Atomics
    <3>2. Writes(prog[ip]) = [x \in {r} |-> MapPtr(prog[ip].imm)]
      BY <2>2, <3>1 DEF Writes
    <3>3. regs'[r] = MapPtr(prog[ip].imm)
      BY <3>2 DEF Run
    <3> QED
      BY <1>7, <2>2, <3>3 DEF Holds
  <2> QED
    BY <1>7, <2>1, <2>2 DEF Holds
<1>8. CASE ip # j
  <2>1. ip \in (j + 1)..(c - 1) /\ ip \in (j + 1)..c /\ ip \in 1..(c - 1)
    BY <1>2, <1>3, <1>5, <1>8
  <2>2. ip \in Scanned(prog, c)
    <3>1. c - ip <= MaxScan
      BY <1>2, <1>3, <2>1
    <3>2. \A k \in ip..(c - 1) : k \in j..(c - 1)
      BY <1>3, <2>1
    <3>3. \A k \in (ip + 1)..(c - 1) : k \in (j + 1)..(c - 1)
      BY <1>3, <2>1
    <3> QED
      BY <1>2, <2>1, <3>1, <3>2, <3>3 DEF Scanned
  <2>3. ~WritesReg(prog[ip], r)
    BY <1>2, <1>3, <2>1, <2>2
  <2>4. r \notin DOMAIN Writes(prog[ip])
    BY <1>6, <2>3 DEF WritesReg, Writes, ALU, Atomics
  <2>5. regs'[r] = regs[r]
    BY <1>1, <2>4 DEF Run
  <2>6. Holds(prog[j], regs[r])
    BY <1>1, <2>1 DEF OperandsHeld
  <2> QED
    BY <2>5, <2>6
<1> QED
  BY <1>7, <1>8

LEMMA ScanInit ==
  ASSUME Init
  PROVE  ScanInv
<1>1. DOMAIN prog = {} /\ stage = "load"
  BY DEF Init
<1> QED
  BY <1>1, DumpInit DEF ScanInv

(* At the start of a program no walk is under way.                          *)
LEMMA HeldAtStart ==
  ASSUME NEW p \in Seq(Instructions), NEW r, NEW c \in DOMAIN p, NEW j \in Writer(p, c, r)
  PROVE  1 \notin (j + 1)..c
<1>1. j \in 1..(c - 1)
  BY DEF Writer, Scanned
<1> QED
  BY <1>1, LenProperties

LEMMA ScanStep ==
  ASSUME NoAcquire, ScanInv, [Next]_vars
  PROVE  ScanInv'
<1>1. DumpInv'
  BY DumpStep DEF ScanInv
<1>2. CASE Load
  <2>1. PICK body \in [1..len -> Code[len]] : WellFormed(Ended(body)) /\ prog' = Ended(body)
    BY <1>2 DEF Load
  <2>2. len \in DOMAIN Code /\ ip' = 1
    BY <1>2 DEF Load, ScanInv, DumpInv, machine
  <2>3. prog' \in Programs /\ prog' \in Seq(Instructions)
    BY <2>1, <2>2, EndedTyped DEF Programs
  <2>4. \A i \in DOMAIN prog' : prog'[i].op # "acquire"
    <3>1. /\ Ins("call", "bpf_tail_call", "r0", 0, 0).op # "acquire"
          /\ Ins("exit", "-", "-", 0, 0).op # "acquire"
      BY DEF Ins
    <3> QED
      BY <2>1, <2>2, <3>1, EndedTyped DEF NoAcquire
  <2>5. OperandsHeld'
    BY <2>2, <2>3, HeldAtStart DEF OperandsHeld
  <2> QED
    BY <1>1, <2>4, <2>5 DEF ScanInv
<1>3. CASE Run
  <2>1. prog' = prog /\ stage = "run"
    BY <1>3 DEF Run
  <2>2. OperandsHeld'
    BY <1>3, <2>1, HeldByRun DEF OperandsHeld
  <2> QED
    BY <1>1, <2>1, <2>2 DEF ScanInv
<1>4. CASE Flip \/ ReadInsns \/ NoInsns \/ FindCallBase \/ ReadSymbols \/ ShowDump \/ UNCHANGED vars
  <2>1. UNCHANGED <<prog, ip, regs>> /\ (stage' = "load" <=> stage = "load")
    BY <1>4 DEF Flip, ReadInsns, NoInsns, FindCallBase, ReadSymbols, ShowDump, agent, machine, vars
  <2>2. OperandsHeld' <=> OperandsHeld
    BY <2>1 DEF OperandsHeld
  <2> QED
    BY <1>1, <2>1, <2>2 DEF ScanInv
<1> QED
  BY <1>2, <1>3, <1>4 DEF Next

(* What the tail-call table says of a site, from what the registers hold.   *)
LEMMA TableIsTrue ==
  ASSUME ScanInv
  PROVE  ScanTellsTruth
<1> SUFFICES ASSUME NEW t \in calls, Offset(prog, ip) = t.site
             PROVE  /\ regs["r2"] = MapPtr(t.map)
                    /\ \A k \in t.index : regs["r3"] = Const(k)
                    /\ \A g \in t.prog : \E k \in t.index : ProgArraySlot(regs["r2"].v, k) = g
  BY DEF ScanTellsTruth
<1>1. stage = "run" /\ t \in TailCalls(Read)
  BY DEF ScanInv, DumpInv
<1>2. /\ prog \in Programs /\ prog \in Seq(Instructions) /\ raw \in BOOLEAN /\ ip \in DOMAIN prog
      /\ OperandsHeld
  BY <1>1 DEF ScanInv, DumpInv, Programs
<1>3. PICK i \in DOMAIN Read :
        /\ Offset(Read, i) \notin Targets(Read)
        /\ ScanOperands(Read, i).map # {}
        /\ t = [site  |-> Offset(Read, i),
                map   |-> CHOOSE m \in ScanOperands(Read, i).map : TRUE,
                index |-> ScanOperands(Read, i).index,
                prog  |-> {ProgArraySlot(m, k) : m \in ScanOperands(Read, i).map,
                                                 k \in ScanOperands(Read, i).index} \ {0}]
  BY <1>1 DEF TailCalls
<1>4. /\ i \in DOMAIN prog /\ Offset(Read, i) = Offset(prog, i) /\ Targets(Read) = Targets(prog)
  BY <1>2, <1>3, ShownAs DEF Read
<1>5. ip = i
  BY <1>2, <1>3, <1>4, OffsetIsOnes
<1>6. \A r \in Regs : \A j \in Writer(Read, ip, r) :
        /\ IsMapLoad(Read[j], r) => regs[r] = MapPtr(Read[j].imm)
        /\ IsMovImm(Read[j], r) => regs[r] = Const(Read[j].imm)
  <2> TAKE r \in Regs
  <2> TAKE j \in Writer(Read, ip, r)
  <2>1. /\ j \in Writer(prog, ip, r) /\ j \in 1..(ip - 1)
        /\ IsMapLoad(Read[j], r) => prog[j].op = "ldmap" /\ Read[j].imm = prog[j].imm
        /\ IsMovImm(Read[j], r) => prog[j].op = "mov" /\ Read[j].imm = prog[j].imm
    BY <1>2, ScanOfRead DEF Read
  <2>2. ip \in (j + 1)..ip
    BY <1>2, <2>1, LenProperties
  <2>3. Holds(prog[j], regs[r])
    BY <1>2, <1>3, <1>4, <1>5, <2>1, <2>2 DEF OperandsHeld
  <2> QED
    BY <2>1, <2>3 DEF Holds
<1>7. \A m \in ScanOperands(Read, ip).map : regs["r2"] = MapPtr(m)
  BY <1>6 DEF ScanOperands, Regs
<1>8. \A k \in ScanOperands(Read, ip).index : regs["r3"] = Const(k)
  BY <1>6 DEF ScanOperands, Regs
<1>9. \A m : MapPtr(m).v = m
  BY DEF MapPtr
<1> HIDE DEF MapPtr, Const
<1>10. t.map \in ScanOperands(Read, ip).map /\ t.index = ScanOperands(Read, ip).index
  BY <1>3, <1>5
<1>11. ASSUME NEW g \in t.prog
       PROVE  \E k \in t.index : ProgArraySlot(regs["r2"].v, k) = g
  <2>1. PICK m \in ScanOperands(Read, ip).map, k \in ScanOperands(Read, ip).index :
          g = ProgArraySlot(m, k)
    BY <1>3, <1>5
  <2> QED
    BY <1>7, <1>9, <1>10, <2>1
<1> QED
  BY <1>7, <1>8, <1>10, <1>11

(* ScanTellsTruth holds of every program without an acquire load: whatever  *)
(* path leads to a site, the table's program array, index and program are   *)
(* the registers' (tailcall.go:129-172, 194-212).                           *)
THEOREM ScanIsTrue == ASSUME NoAcquire PROVE Spec => []ScanTellsTruth
<1>1. Init => ScanInv
  BY ScanInit
<1>2. ScanInv /\ [Next]_vars => ScanInv'
  BY ScanStep
<1>3. ScanInv => ScanTellsTruth
  BY TableIsTrue
<1> QED
  BY <1>1, <1>2, <1>3, PTL DEF Spec
=============================================================================
