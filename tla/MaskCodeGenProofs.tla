------------------------- MODULE MaskCodeGenProofs -------------------------
(***************************************************************************)
(* Proofs about MaskCodeGen, for every set of masks and lanes and every    *)
(* program: three mask registers are enough for masks whose right operands *)
(* nest at most twice, and the expansion of a mask defined after its       *)
(* operands visits no mask twice.                                          *)
(***************************************************************************)
EXTENDS MaskCodeGen, SequenceTheorems, TLAPS

---------------------------------------------------------------------------
(* The inductive invariant.                                                *)

(* What a frame waits for: the mask of its operand, and where it will be.  *)
AwaitedMask(f) ==
  IF f.step = "lhs" THEN logicalMasks[f.mask].lhs ELSE logicalMasks[f.mask].rhs

AwaitedRegister(f) == IF f.step = "lhs" THEN f.dest ELSE scratchMask(f.dest)

(* Every frame but the top one waits for the frame above it; the first one *)
(* is the call of the statement that consumes a mask.                      *)
StackDiscipline ==
  /\ stack # <<>> \/ returned # "none" =>
       next \in DOMAIN program /\ CurrentStatement.kind = "vector_masked"
  /\ stack # <<>> =>
       /\ stack[1].mask = CurrentStatement.mask /\ stack[1].dest = "v0"
       /\ Top.step = "call" <=> returned = "none"
  /\ \A i \in 1 .. Len(stack) : stack[i].step # "call" =>
       /\ stack[i].mask \in DOMAIN logicalMasks
       /\ stack[i].step = "rhs" => logicalMasks[stack[i].mask].op # "not"
  /\ \A i \in 1 .. Len(stack) - 1 :
       /\ stack[i].step # "call"
       /\ stack[i + 1].mask = AwaitedMask(stack[i])
       /\ stack[i + 1].dest = AwaitedRegister(stack[i])

(* The history is what the tables say, operand by operand.                 *)
HistoryMatchesTables ==
  \A m \in DOMAIN meaning :
    /\ m \in DOMAIN masks => meaning[m] = masks[m].lanes
    /\ m \in DOMAIN logicalMasks =>
         LET d == logicalMasks[m]
         IN  /\ Operands(d) \subseteq DOMAIN meaning
             /\ meaning[m] = Apply(d.op, meaning[d.lhs],
                               IF d.op = "not" THEN {} ELSE meaning[d.rhs])
             /\ depth[d.lhs] <= depth[m]
             /\ d.op # "not" => depth[d.rhs] + 1 <= depth[m]

(* The mask being expanded was defined from defined masks.                 *)
Rooted == stack # <<>> /\ stack[1].mask \in DOMAIN meaning

StackInMeaning ==
  Rooted => \A i \in 1 .. Len(stack) : stack[i].mask \in DOMAIN meaning

(* Such masks are ranked by their definitions, and the stack descends.     *)
RanksDefinitions(rank) ==
  \A m \in DOMAIN meaning : m \in DOMAIN logicalMasks =>
    \A o \in Operands(logicalMasks[m]) : rank[o] < rank[m]

RanksStack(rank) ==
  Rooted => \A i, j \in 1 .. Len(stack) :
              i < j => rank[stack[j].mask] < rank[stack[i].mask]

Acyclic ==
  \E rank \in [DOMAIN meaning -> Nat] :
    RanksDefinitions(rank) /\ RanksStack(rank)

(* v1 and v2 are the registers of the right operands on the stack.         *)
Level(r) == IF r = "v0" THEN 0 ELSE IF r = "v1" THEN 1 ELSE 2

Shallow == Rooted /\ depth[stack[1].mask] <= 2

RegistersSuffice ==
  Shallow =>
    /\ \A i \in 1 .. Len(stack) :
         depth[stack[i].mask] + Level(stack[i].dest) <= 2
    /\ \A i, j \in 1 .. Len(stack) : i < j =>
         /\ Level(stack[i].dest) <= Level(stack[j].dest)
         /\ stack[i].step = "rhs" => Level(stack[i].dest) < Level(stack[j].dest)

(* A left operand stays where it is, and the awaited operand has arrived.  *)
OperandsInRegisters ==
  Shallow =>
    /\ \A i \in 1 .. Len(stack) : stack[i].step = "rhs" =>
         reg[stack[i].dest] = meaning[logicalMasks[stack[i].mask].lhs]
    /\ returned = "true" =>
         reg[AwaitedRegister(Top)] = meaning[AwaitedMask(Top)]

IInv ==
  /\ TypeOK
  /\ StackDiscipline
  /\ HistoryMatchesTables
  /\ StackInMeaning
  /\ Acyclic
  /\ RegistersSuffice
  /\ OperandsInRegisters
  /\ ShallowMaskInV0

---------------------------------------------------------------------------
(* Operators.                                                              *)

LEMMA ApplyNot == \A a, b : Apply("not", a, b) = Lane \ a
  BY DEF Apply

LEMMA ApplyType ==
  ASSUME NEW op \in LogicalOps, NEW a \in SUBSET Lane, NEW b \in SUBSET Lane
  PROVE  Apply(op, a, b) \in SUBSET Lane
<1>1. CASE op = "and" BY <1>1 DEF Apply
<1>2. CASE op = "or"  BY <1>2 DEF Apply
<1>3. CASE op = "xor" BY <1>3 DEF Apply
<1>4. CASE op = "not" BY <1>4 DEF Apply
<1> QED
  BY <1>1, <1>2, <1>3, <1>4 DEF LogicalOps

LEMMA StatementKinds ==
  ASSUME NEW s \in Statement
  PROVE  /\ s.kind = "vector_mask" => s \in CompareStatement
         /\ s.kind = "vector_mask_logical" => s \in LogicalStatement
         /\ s.kind = "vector_masked" => s.mask \in Mask
  BY DEF Statement, CompareStatement, LogicalStatement, ConsumerStatement,
         FunctionStart

LEMMA CurrentFacts ==
  ASSUME TypeOK, next \in DOMAIN program
  PROVE  /\ CurrentStatement \in Statement
         /\ next + 1 \in 1 .. Len(program) + 1
  BY ProgramsAssumption DEF TypeOK, CurrentStatement

(* The stack after a call returns, and after a call is made.               *)
LEMMA PopFacts ==
  ASSUME stack \in Seq(Frame), stack # <<>>
  PROVE  /\ Below \in Seq(Frame) /\ Len(Below) = Len(stack) - 1
         /\ Len(stack) \in Nat \ {0} /\ Top = stack[Len(stack)]
         /\ Top \in Frame
         /\ \A i \in 1 .. Len(Below) : Below[i] = stack[i]
<1>1. Len(stack) \in Nat \ {0}
  BY EmptySeq
<1>2. \A i \in 1 .. Len(stack) : stack[i] \in Frame
  BY ElementOfSeq
<1>3. PICK n \in Nat : n = Len(stack) - 1
  BY <1>1
<1>4. \A i \in 1 .. n : stack[i] \in Frame
  BY <1>1, <1>2, <1>3
<1>5. Below = SubSeq(stack, 1, n)
  BY <1>3 DEF Below
<1>6. /\ Below \in Seq(Frame)
      /\ Len(Below) = IF 1 <= n THEN n - 1 + 1 ELSE 0
      /\ \A i \in 1 .. n - 1 + 1 : Below[i] = stack[1 + i - 1]
  BY <1>4, <1>5, SubSeqProperties
<1>7. Len(Below) = n
  BY <1>6
<1>8. \A i \in 1 .. n : Below[i] = stack[i]
  BY <1>6
<1> QED
  BY <1>1, <1>2, <1>3, <1>6, <1>7, <1>8 DEF Top

LEMMA PushFacts ==
  ASSUME stack \in Seq(Frame), stack # <<>>,
         NEW f \in Frame, NEW g \in Frame,
         stack' = Append(Append(Below, f), g)
  PROVE  /\ stack' \in Seq(Frame) /\ stack' # <<>>
         /\ Len(stack') = Len(stack) + 1
         /\ \A i \in 1 .. Len(stack) - 1 : stack'[i] = stack[i]
         /\ stack'[Len(stack)] = f
         /\ stack'[Len(stack) + 1] = g
<1> DEFINE t == Append(Below, f)
<1>1. /\ Below \in Seq(Frame) /\ Len(Below) = Len(stack) - 1
      /\ Len(stack) \in Nat \ {0}
      /\ \A i \in 1 .. Len(Below) : Below[i] = stack[i]
  BY PopFacts
<1>2. /\ t \in Seq(Frame) /\ Len(t) = Len(stack) /\ t[Len(stack)] = f
      /\ \A i \in 1 .. Len(stack) - 1 : t[i] = stack[i]
  BY <1>1, AppendProperties
<1> HIDE DEF t
<1>3. /\ stack' \in Seq(Frame) /\ stack' # <<>>
      /\ Len(stack') = Len(stack) + 1
      /\ stack'[Len(stack) + 1] = g
      /\ \A i \in 1 .. Len(stack) : stack'[i] = t[i]
  BY <1>1, <1>2, AppendProperties DEF t
<1> QED
  BY <1>1, <1>2, <1>3

(* A return leaves a frame that waited for the call on top.                *)
LEMMA PopDiscipline ==
  ASSUME StackDiscipline, stack \in Seq(Frame), stack # <<>>, stack' = Below,
         returned' # "none", UNCHANGED <<program, next, tables>>
  PROVE  StackDiscipline'
<1> DEFINE n == Len(stack)
<1> USE DEF tables
<1>1. /\ n \in Nat \ {0} /\ stack' \in Seq(Frame) /\ Len(stack') = n - 1
      /\ \A i \in 1 .. n - 1 : stack'[i] = stack[i]
  BY PopFacts
<1>2. stack' # <<>> <=> n - 1 >= 1
  BY <1>1, EmptySeq
<1>3. n - 1 >= 1 => stack'[1] = stack[1] /\ Top' = stack[n - 1]
  BY <1>1 DEF Top
<1>4. n - 1 >= 1 => stack[n - 1].step # "call"
  BY <1>1 DEF StackDiscipline
<1>5. next \in DOMAIN program /\ CurrentStatement.kind = "vector_masked"
  BY DEF StackDiscipline
<1>6. stack' # <<>> =>
        /\ stack'[1].mask = CurrentStatement.mask /\ stack'[1].dest = "v0"
        /\ Top'.step # "call"
  BY <1>2, <1>3, <1>4 DEF StackDiscipline
<1>7. \A i \in 1 .. n - 1 : stack'[i].step # "call" =>
        /\ stack'[i].mask \in DOMAIN logicalMasks
        /\ stack'[i].step = "rhs" => logicalMasks[stack'[i].mask].op # "not"
  BY <1>1 DEF StackDiscipline
<1>8. \A i \in 1 .. n - 2 :
        /\ stack'[i].step # "call"
        /\ stack'[i + 1].mask = AwaitedMask(stack'[i])
        /\ stack'[i + 1].dest = AwaitedRegister(stack'[i])
  BY <1>1 DEF StackDiscipline
<1> QED
  BY <1>1, <1>5, <1>6, <1>7, <1>8
  DEF StackDiscipline, CurrentStatement, AwaitedMask, AwaitedRegister

(* The stack still descends after a call has returned.                     *)
LEMMA PopAcyclic ==
  ASSUME Acyclic, stack \in Seq(Frame), stack # <<>>, stack' = Below,
         UNCHANGED <<tables, history>>
  PROVE  Acyclic'
<1> USE DEF tables, history
<1>1. /\ Len(stack) \in Nat \ {0} /\ stack' \in Seq(Frame)
      /\ Len(stack') = Len(stack) - 1
      /\ \A i \in 1 .. Len(stack) - 1 : stack'[i] = stack[i]
  BY PopFacts
<1>2. stack' # <<>> <=> Len(stack) - 1 >= 1
  BY <1>1, EmptySeq
<1>3. PICK rank \in [DOMAIN meaning -> Nat] :
        RanksDefinitions(rank) /\ RanksStack(rank)
  BY DEF Acyclic
<1>4. rank \in [DOMAIN meaning' -> Nat]
  BY <1>3
<1>5. RanksDefinitions(rank)'
  BY <1>3 DEF RanksDefinitions, Operands
<1>6. RanksStack(rank)'
  <2>1. Rooted' => Rooted
    BY <1>1, <1>2 DEF Rooted
  <2>2. Rooted' => \A i, j \in 1 .. Len(stack) - 1 :
                     i < j => rank[stack'[j].mask] < rank[stack'[i].mask]
    BY <1>1, <1>3, <2>1 DEF RanksStack
  <2> QED
    BY <1>1, <2>2 DEF RanksStack
<1> QED
  BY <1>4, <1>5, <1>6 DEF Acyclic, RanksDefinitions, RanksStack

---------------------------------------------------------------------------
(* A call returns: what it wrote is what its caller waits for, and no left *)
(* operand further down was in the register it wrote.                      *)

LEMMA WritePops ==
  ASSUME IInv, stack # <<>>,
         NEW value \in SUBSET Lane,
         Shallow => value = meaning[Top.mask],
         reg' = [reg EXCEPT ![Top.dest] = value],
         stack' = Below, returned' = "true",
         UNCHANGED <<program, next, tables, diagnosed, history>>
  PROVE  IInv'
<1> DEFINE n == Len(stack)
<1> USE DEF tables, history
<1>1. /\ TypeOK /\ stack \in Seq(Frame) /\ Top \in Frame /\ Top = stack[n]
      /\ n \in Nat \ {0} /\ stack' \in Seq(Frame) /\ Len(stack') = n - 1
      /\ \A i \in 1 .. n - 1 : stack'[i] = stack[i]
  BY PopFacts DEF IInv, TypeOK
<1>2. stack' # <<>> <=> n - 1 >= 1
  BY <1>1, EmptySeq
<1>3. /\ reg' \in [MaskRegister -> SUBSET Lane]
      /\ reg'[Top.dest] = value
      /\ \A r \in MaskRegister : r # Top.dest => reg'[r] = reg[r]
  BY <1>1 DEF TypeOK, Frame
<1>4. TypeOK'
  BY <1>1, <1>3 DEF TypeOK
<1>5. StackDiscipline'
  BY <1>1, PopDiscipline DEF IInv
<1>6. HistoryMatchesTables'
  BY DEF IInv, HistoryMatchesTables
<1>7. /\ Rooted' => Rooted
      /\ Shallow' => Shallow
  BY <1>1, <1>2 DEF Rooted, Shallow
<1>8. StackInMeaning'
  BY <1>1, <1>7 DEF IInv, StackInMeaning
<1>9. Acyclic'
  BY <1>1, PopAcyclic DEF IInv
<1>10. RegistersSuffice'
  BY <1>1, <1>7 DEF IInv, RegistersSuffice
<1>11. OperandsInRegisters'
  <2> SUFFICES ASSUME Shallow'
               PROVE  /\ \A i \in 1 .. n - 1 : stack[i].step = "rhs" =>
                           reg'[stack[i].dest] =
                             meaning[logicalMasks[stack[i].mask].lhs]
                      /\ reg'[AwaitedRegister(Top')] = meaning[AwaitedMask(Top')]
    BY <1>1 DEF OperandsInRegisters, AwaitedRegister, AwaitedMask
  <2>1. Shallow /\ n - 1 >= 1
    BY <1>2, <1>7 DEF Shallow, Rooted
  <2>2. ASSUME NEW i \in 1 .. n - 1, stack[i].step = "rhs"
        PROVE  reg'[stack[i].dest] = meaning[logicalMasks[stack[i].mask].lhs]
    <3>1. Level(stack[i].dest) < Level(Top.dest)
      BY <1>1, <2>1, <2>2 DEF IInv, RegistersSuffice
    <3>2. stack[i] \in Frame
      BY <1>1, ElementOfSeq
    <3>3. stack[i].dest \in MaskRegister
      BY <3>2 DEF Frame
    <3>4. stack[i].dest # Top.dest
      <4> SUFFICES ASSUME stack[i].dest = Top.dest PROVE FALSE
        OBVIOUS
      <4>1. Level(Top.dest) < Level(Top.dest) /\ Level(Top.dest) \in Int
        BY <3>1 DEF Level
      <4> QED
        BY <4>1
    <3> QED
      BY <1>1, <1>3, <2>1, <2>2, <3>3, <3>4 DEF IInv, OperandsInRegisters
  <2>3. /\ Top' = stack[n - 1]
        /\ AwaitedRegister(stack[n - 1]) = Top.dest
        /\ AwaitedMask(stack[n - 1]) = Top.mask
    BY <1>1, <2>1 DEF IInv, StackDiscipline, Top
  <2> QED
    BY <1>3, <2>1, <2>2, <2>3
<1>12. ShallowMaskInV0'
  <2> SUFFICES ASSUME stack' = <<>>, CurrentStatement.mask \in DOMAIN meaning,
                      depth[CurrentStatement.mask] <= 2
               PROVE  reg'["v0"] = meaning[CurrentStatement.mask]
    BY DEF ShallowMaskInV0, MaskReady, CurrentStatement
  <2>1. n = 1 /\ Top = stack[1]
    BY <1>1, <1>2
  <2>2. Top.mask = CurrentStatement.mask /\ Top.dest = "v0"
    BY <2>1 DEF IInv, StackDiscipline
  <2>3. Shallow
    BY <2>1, <2>2 DEF Shallow, Rooted
  <2> QED
    BY <1>3, <2>2, <2>3
<1> QED
  BY <1>4, <1>5, <1>6, <1>8, <1>9, <1>10, <1>11, <1>12 DEF IInv

LEMMA FailPops ==
  ASSUME IInv, stack # <<>>, stack' = Below, returned' = "false",
         diagnosed' \in BOOLEAN,
         UNCHANGED <<program, next, tables, reg, history>>
  PROVE  IInv'
<1> DEFINE n == Len(stack)
<1> USE DEF tables, history
<1>1. /\ TypeOK /\ stack \in Seq(Frame) /\ Top = stack[n]
      /\ n \in Nat \ {0} /\ stack' \in Seq(Frame) /\ Len(stack') = n - 1
      /\ \A i \in 1 .. n - 1 : stack'[i] = stack[i]
  BY PopFacts DEF IInv, TypeOK
<1>2. stack' # <<>> <=> n - 1 >= 1
  BY <1>1, EmptySeq
<1>3. TypeOK'
  BY <1>1 DEF TypeOK
<1>4. StackDiscipline'
  BY <1>1, PopDiscipline DEF IInv
<1>5. HistoryMatchesTables'
  BY DEF IInv, HistoryMatchesTables
<1>6. /\ Rooted' => Rooted
      /\ Shallow' => Shallow
  BY <1>1, <1>2 DEF Rooted, Shallow
<1>7. StackInMeaning'
  BY <1>1, <1>6 DEF IInv, StackInMeaning
<1>8. Acyclic'
  BY <1>1, PopAcyclic DEF IInv
<1>9. RegistersSuffice'
  BY <1>1, <1>6 DEF IInv, RegistersSuffice
<1>10. OperandsInRegisters'
  BY <1>1, <1>6 DEF IInv, OperandsInRegisters
<1>11. ShallowMaskInV0'
  BY DEF ShallowMaskInV0, MaskReady
<1> QED
  BY <1>3, <1>4, <1>5, <1>7, <1>8, <1>9, <1>10, <1>11 DEF IInv

---------------------------------------------------------------------------
(* A call asks for an operand of a mask whose registers suffice: the right *)
(* one goes to a register that no left operand on the stack is in.         *)

(* The top frame, now f, waits for the call g.                             *)
Descends(n, f, g) ==
  /\ n >= 1 /\ n = Len(stack) /\ Top = stack[n]
  /\ stack \in Seq(Frame) /\ stack # <<>>
  /\ f.step \in {"lhs", "rhs"} /\ f.mask = Top.mask /\ f.dest = Top.dest
  /\ Top.mask \in DOMAIN logicalMasks
  /\ AwaitedMask(f) \in Operands(logicalMasks[Top.mask])
  /\ f.step = "rhs" => /\ Top.step = "lhs" /\ returned = "true"
                       /\ logicalMasks[Top.mask].op # "not"
  /\ g.mask = AwaitedMask(f) /\ g.dest = AwaitedRegister(f) /\ g.step = "call"
  /\ stack' \in Seq(Frame) /\ stack' # <<>> /\ Len(stack') = n + 1
  /\ \A i \in 1 .. n - 1 : stack'[i] = stack[i]
  /\ stack'[n] = f /\ stack'[n + 1] = g
  /\ returned' = "none"
  /\ UNCHANGED <<program, next, tables, diagnosed, reg, history>>

LEMMA CallDescends ==
  ASSUME IInv, NEW n \in Nat, NEW f \in Frame, NEW g \in Frame,
         Descends(n, f, g)
  PROVE  IInv'
<1> USE DEF tables, history, Descends
<1>6. /\ \A i \in 1 .. n : /\ stack'[i].mask = stack[i].mask
                           /\ stack'[i].dest = stack[i].dest
      /\ Top' = g
  BY DEF Top
<1>7. \A i \in 1 .. n + 1 : i \in 1 .. n - 1 \/ i = n \/ i = n + 1
  OBVIOUS
<1>8. TypeOK'
  BY DEF IInv, TypeOK
<1>9. StackDiscipline'
  <2>1. next \in DOMAIN program /\ CurrentStatement.kind = "vector_masked"
    BY DEF IInv, StackDiscipline
  <2>2. /\ stack'[1].mask = CurrentStatement.mask /\ stack'[1].dest = "v0"
        /\ Top'.step = "call"
    BY <1>6 DEF IInv, StackDiscipline
  <2>3. \A i \in 1 .. n + 1 : stack'[i].step # "call" =>
          /\ stack'[i].mask \in DOMAIN logicalMasks
          /\ stack'[i].step = "rhs" => logicalMasks[stack'[i].mask].op # "not"
    <3>1. \A i \in 1 .. n - 1 : stack'[i].step # "call" =>
            /\ stack'[i].mask \in DOMAIN logicalMasks
            /\ stack'[i].step = "rhs" => logicalMasks[stack'[i].mask].op # "not"
      <4>1. \A i \in 1 .. n : stack[i].step # "call" =>
              /\ stack[i].mask \in DOMAIN logicalMasks
              /\ stack[i].step = "rhs" => logicalMasks[stack[i].mask].op # "not"
        BY DEF IInv, StackDiscipline
      <4> TAKE i \in 1 .. n - 1
      <4>2. i \in 1 .. n /\ stack'[i] = stack[i]
        OBVIOUS
      <4> QED
        BY <4>1, <4>2
    <3> QED
      BY <1>7, <3>1
  <2>4. \A i \in 1 .. n :
          /\ stack'[i].step # "call"
          /\ stack'[i + 1].mask = AwaitedMask(stack'[i])
          /\ stack'[i + 1].dest = AwaitedRegister(stack'[i])
    <3>1. \A i \in 1 .. n - 1 :
            /\ stack'[i].step # "call"
            /\ stack'[i + 1].mask = AwaitedMask(stack'[i])
            /\ stack'[i + 1].dest = AwaitedRegister(stack'[i])
      BY <1>6 DEF IInv, StackDiscipline
    <3> QED
      BY <3>1
  <2> QED
    BY <2>1, <2>2, <2>3, <2>4
    DEF StackDiscipline, CurrentStatement, AwaitedMask, AwaitedRegister
<1>10. HistoryMatchesTables'
  BY DEF IInv, HistoryMatchesTables
<1>11. /\ Rooted' <=> Rooted
       /\ Shallow' <=> Shallow
       /\ depth[stack'[1].mask] = depth[stack[1].mask]
  BY <1>6 DEF Rooted, Shallow
<1>12. Rooted => /\ Top.mask \in DOMAIN meaning
                 /\ AwaitedMask(f) \in DOMAIN meaning
  BY DEF IInv, StackInMeaning, HistoryMatchesTables
<1>13. StackInMeaning'
  <2>1. Rooted => \A i \in 1 .. n + 1 : stack'[i].mask \in DOMAIN meaning
    BY <1>6, <1>7, <1>12 DEF IInv, StackInMeaning
  <2> QED
    BY <1>11, <2>1 DEF StackInMeaning
<1>14. Acyclic'
  <2>1. PICK rank \in [DOMAIN meaning -> Nat] :
          RanksDefinitions(rank) /\ RanksStack(rank)
    BY DEF IInv, Acyclic
  <2>2. rank \in [DOMAIN meaning' -> Nat]
    BY <2>1
  <2>3. RanksDefinitions(rank)'
    BY <2>1 DEF RanksDefinitions, Operands
  <2>4. Rooted => rank[g.mask] < rank[Top.mask]
    BY <1>12, <2>1 DEF RanksDefinitions
  <2>5. Rooted => \A i \in 1 .. n : /\ rank[stack[i].mask] \in Nat
                                   /\ rank[Top.mask] <= rank[stack[i].mask]
    BY <2>1 DEF IInv, StackInMeaning, RanksStack
  <2>6. Rooted => rank[g.mask] \in Nat
    BY <1>12, <2>1
  <2>7. Rooted => \A i, j \in 1 .. n + 1 :
                    i < j => rank[stack'[j].mask] < rank[stack'[i].mask]
    <3> SUFFICES ASSUME Rooted, NEW i \in 1 .. n + 1, NEW j \in 1 .. n + 1,
                        i < j
                 PROVE  rank[stack'[j].mask] < rank[stack'[i].mask]
      OBVIOUS
    <3>1. i \in 1 .. n /\ stack'[i].mask = stack[i].mask
      BY <1>6
    <3>2. CASE j \in 1 .. n
      BY <1>6, <2>1, <3>1, <3>2 DEF RanksStack
    <3>3. CASE j = n + 1
      BY <2>4, <2>5, <2>6, <3>1, <3>3
    <3> QED
      BY <3>2, <3>3
  <2>8. RanksStack(rank)'
    BY <1>11, <2>7 DEF RanksStack
  <2> QED
    BY <2>2, <2>3, <2>8 DEF Acyclic, RanksDefinitions, RanksStack
<1>15. RegistersSuffice'
  <2> SUFFICES ASSUME Shallow
               PROVE  /\ \A i \in 1 .. n + 1 :
                           depth[stack'[i].mask] + Level(stack'[i].dest) <= 2
                      /\ \A i, j \in 1 .. n + 1 : i < j =>
                           /\ Level(stack'[i].dest) <= Level(stack'[j].dest)
                           /\ stack'[i].step = "rhs" =>
                                Level(stack'[i].dest) < Level(stack'[j].dest)
    BY <1>11 DEF RegistersSuffice, Level
  <2>1. \A r : Level(r) \in Nat
    BY DEF Level
  <2>2. depth[Top.mask] + Level(Top.dest) <= 2
    BY DEF IInv, RegistersSuffice
  <2>3. /\ depth[Top.mask] \in Nat /\ depth[g.mask] \in Nat
        /\ f.step = "lhs" => depth[g.mask] <= depth[Top.mask]
        /\ f.step = "rhs" => depth[g.mask] + 1 <= depth[Top.mask]
    BY <1>12
    DEF IInv, Shallow, TypeOK, HistoryMatchesTables, AwaitedMask
  <2>4. /\ f.step = "lhs" => Level(g.dest) = Level(Top.dest)
        /\ f.step = "rhs" => Level(g.dest) = Level(Top.dest) + 1
    BY <2>2, <2>3
    DEF Level, AwaitedRegister, scratchMask, MaskRegister
  <2>5. /\ depth[g.mask] + Level(g.dest) <= 2
        /\ Level(Top.dest) <= Level(g.dest)
        /\ f.step = "rhs" => Level(Top.dest) < Level(g.dest)
    BY <2>1, <2>2, <2>3, <2>4
  <2>6. \A i \in 1 .. n - 1 :
          /\ Level(stack[i].dest) <= Level(Top.dest)
          /\ stack[i].step = "rhs" => Level(stack[i].dest) < Level(Top.dest)
    BY DEF IInv, RegistersSuffice
  <2>7. \A i \in 1 .. n + 1 :
          depth[stack'[i].mask] + Level(stack'[i].dest) <= 2
    BY <1>6, <2>5 DEF IInv, RegistersSuffice
  <2>8. ASSUME NEW i \in 1 .. n + 1, NEW j \in 1 .. n + 1, i < j
        PROVE  /\ Level(stack'[i].dest) <= Level(stack'[j].dest)
               /\ stack'[i].step = "rhs" =>
                    Level(stack'[i].dest) < Level(stack'[j].dest)
    <3>1. CASE j \in 1 .. n
      <4>1. i \in 1 .. n - 1 /\ stack'[i] = stack[i]
        BY <2>8, <3>1
      <4> QED
        BY <1>6, <2>8, <3>1, <4>1 DEF IInv, RegistersSuffice
    <3>2. CASE j = n + 1 /\ i = n
      BY <2>5, <3>2
    <3>3. CASE j = n + 1 /\ i \in 1 .. n - 1
      BY <2>1, <2>5, <2>6, <3>3
    <3> QED
      BY <2>8, <3>1, <3>2, <3>3
  <2> QED
    BY <2>7, <2>8
<1>16. OperandsInRegisters'
  <2> SUFFICES ASSUME Shallow, NEW i \in 1 .. n + 1, stack'[i].step = "rhs"
               PROVE  reg[stack'[i].dest] =
                        meaning[logicalMasks[stack'[i].mask].lhs]
    BY <1>11 DEF OperandsInRegisters
  <2>1. CASE i \in 1 .. n - 1
    BY <2>1 DEF IInv, OperandsInRegisters
  <2>2. CASE i = n
    <3>1. Top.step = "lhs" /\ returned = "true"
      BY <2>2
    <3> QED
      BY <2>2, <3>1
      DEF IInv, OperandsInRegisters, AwaitedRegister, AwaitedMask
  <2> QED
    BY <1>7, <2>1, <2>2
<1>17. ShallowMaskInV0'
  BY DEF ShallowMaskInV0, MaskReady
<1> QED
  BY <1>8, <1>9, <1>10, <1>13, <1>14, <1>15, <1>16, <1>17 DEF IInv

LEMMA Pushes ==
  ASSUME IInv, stack # <<>>, Top.mask \in DOMAIN logicalMasks,
         NEW step \in {"lhs", "rhs"},
         step = "rhs" => /\ Top.step = "lhs" /\ returned = "true"
                         /\ logicalMasks[Top.mask].op # "not",
         NEW f, f = [Top EXCEPT !.step = step],
         stack' = Append(Append(Below, f),
                         Call(AwaitedMask(f), AwaitedRegister(f))),
         returned' = "none",
         UNCHANGED <<program, next, tables, diagnosed, reg, history>>
  PROVE  IInv'
<1>1. /\ TypeOK /\ stack \in Seq(Frame) /\ Top \in Frame
      /\ Top = stack[Len(stack)] /\ Len(stack) \in Nat \ {0}
  BY PopFacts DEF IInv, TypeOK
<1>2. PICK n \in Nat : n >= 1 /\ n = Len(stack)
  BY <1>1
<1>3. /\ f \in Frame /\ f.mask = Top.mask /\ f.dest = Top.dest
      /\ f.step = step /\ f.dest \in MaskRegister
  BY <1>1 DEF Frame
<1>4. /\ logicalMasks[f.mask] \in LogicalStatement
      /\ AwaitedMask(f) \in Operands(logicalMasks[f.mask])
      /\ AwaitedMask(f) \in Mask /\ AwaitedRegister(f) \in MaskRegister
  BY <1>1, <1>3
  DEF TypeOK, LogicalStatement, AwaitedMask, AwaitedRegister, scratchMask,
      MaskRegister, Operands
<1>5. PICK g \in Frame : /\ g = Call(AwaitedMask(f), AwaitedRegister(f))
                         /\ g.mask = AwaitedMask(f)
                         /\ g.dest = AwaitedRegister(f) /\ g.step = "call"
  BY <1>4 DEF Call, Frame
<1>6. stack' = Append(Append(Below, f), g)
  BY <1>5
<1>7. /\ stack' \in Seq(Frame) /\ stack' # <<>> /\ Len(stack') = n + 1
      /\ \A i \in 1 .. n - 1 : stack'[i] = stack[i]
      /\ stack'[n] = f /\ stack'[n + 1] = g
  <2>1. /\ stack' \in Seq(Frame) /\ stack' # <<>>
        /\ Len(stack') = Len(stack) + 1
        /\ \A i \in 1 .. Len(stack) - 1 : stack'[i] = stack[i]
        /\ stack'[Len(stack)] = f /\ stack'[Len(stack) + 1] = g
    BY <1>1, <1>3, <1>6, PushFacts
  <2> QED
    BY <1>2, <2>1
<1>8. Descends(n, f, g)
  BY <1>1, <1>2, <1>3, <1>4, <1>5, <1>7 DEF Descends
<1> QED
  BY <1>2, <1>3, <1>5, <1>8, CallDescends

---------------------------------------------------------------------------
(* Statements are remembered while no call is active.                      *)

LEMMA IdleStackParts ==
  ASSUME IInv, stack = <<>>, stack' = <<>>, returned' = "none"
  PROVE  /\ StackDiscipline' /\ StackInMeaning' /\ RegistersSuffice'
         /\ OperandsInRegisters' /\ ShallowMaskInV0' /\ ~Rooted'
<1>1. ~Rooted'
  BY DEF Rooted
<1>2. Len(stack') = 0 /\ 1 .. Len(stack') = {} /\ 1 .. Len(stack') - 1 = {}
  BY EmptySeq
<1> QED
  BY <1>1, <1>2 DEF StackDiscipline, StackInMeaning, RegistersSuffice,
    OperandsInRegisters, ShallowMaskInV0, Shallow, MaskReady

(* A rank of the old masks extends to a new one that no old mask uses.     *)
LEMMA IdleAcyclic ==
  ASSUME stack' = <<>>, NEW rank \in [DOMAIN meaning' -> Nat],
         RanksDefinitions(rank)'
  PROVE  Acyclic'
<1>1. RanksStack(rank)'
  BY DEF RanksStack, Rooted
<1> QED
  BY <1>1 DEF Acyclic, RanksDefinitions, RanksStack

LEMMA FunctionStep ==
  ASSUME IInv, emitFunction
  PROVE  IInv'
<1>1. next \in DOMAIN program /\ stack = <<>> /\ stack' = <<>>
      /\ returned' = "none"
  BY DEF emitFunction, Current
<1>2. next' \in 1 .. Len(program') + 1
  BY <1>1, CurrentFacts DEF IInv, emitFunction
<1>3. DOMAIN NoMasks = {} /\ \A S : NoMasks \in [{} -> S]
  BY DEF NoMasks
<1>4. TypeOK'
  BY <1>1, <1>2, <1>3 DEF IInv, TypeOK, emitFunction
<1>5. HistoryMatchesTables'
  BY <1>3 DEF HistoryMatchesTables, emitFunction
<1>6. Acyclic'
  <2>1. [m \in {} |-> 0] \in [DOMAIN meaning' -> Nat]
    BY <1>3 DEF emitFunction
  <2>2. PICK rank \in [DOMAIN meaning' -> Nat] : TRUE
    BY <2>1
  <2>3. RanksDefinitions(rank)'
    BY <1>3 DEF RanksDefinitions, emitFunction
  <2> QED
    BY <1>1, <2>3, IdleAcyclic
<1> QED
  BY <1>1, <1>4, <1>5, <1>6, IdleStackParts DEF IInv

LEMMA IdleStep ==
  ASSUME IInv, stack = <<>>, stack' = <<>>, returned' = "none",
         next \in DOMAIN program, next' = next + 1, diagnosed' \in BOOLEAN,
         UNCHANGED <<program, tables, reg, history>>
  PROVE  IInv'
<1> USE DEF tables, history
<1>1. TypeOK'
  BY CurrentFacts DEF IInv, TypeOK
<1>2. HistoryMatchesTables'
  BY DEF IInv, HistoryMatchesTables
<1>3. Acyclic'
  <2>1. PICK rank \in [DOMAIN meaning' -> Nat] : RanksDefinitions(rank)
    BY DEF IInv, Acyclic
  <2>2. RanksDefinitions(rank)'
    BY <2>1 DEF RanksDefinitions, Operands
  <2> QED
    BY <2>2, IdleAcyclic
<1> QED
  BY <1>1, <1>2, <1>3, IdleStackParts DEF IInv

(* A mask that is new to the tables is an operand of no mask that has a    *)
(* meaning.                                                                *)
LEMMA CompareStep ==
  ASSUME IInv, rememberVectorMask
  PROVE  IInv'
<1> DEFINE s == CurrentStatement
<1>1. /\ next \in DOMAIN program /\ stack = <<>> /\ stack' = <<>>
      /\ returned' = "none" /\ s \in CompareStatement
  BY CurrentFacts, StatementKinds
  DEF IInv, rememberVectorMask, Current, CurrentStatement
<1>2. CASE Defined(s.mask)
  BY <1>1, <1>2, IdleStep DEF rememberVectorMask, tables, history
<1>3. CASE ~Defined(s.mask)
  <2>1. PICK m \in Mask, lanes \in SUBSET Lane, c \in CompareStatement :
          m = s.mask /\ lanes = s.lanes /\ c = s
    BY <1>1 DEF CompareStatement
  <2>2. /\ m \notin DOMAIN masks /\ m \notin DOMAIN logicalMasks
        /\ m \notin DOMAIN meaning
    BY <1>3, <2>1 DEF Defined, IInv, TypeOK
  <2>3. /\ masks' = Extend(masks, m, c) /\ meaning' = Extend(meaning, m, lanes)
        /\ depth' = Extend(depth, m, 0) /\ next' = next + 1
        /\ UNCHANGED <<program, logicalMasks, diagnosed, reg>>
    BY <1>3, <2>1 DEF rememberVectorMask
  <2>4. /\ DOMAIN masks' = DOMAIN masks \cup {m} /\ masks'[m] = c
        /\ \A k \in DOMAIN masks : masks'[k] = masks[k]
        /\ DOMAIN meaning' = DOMAIN meaning \cup {m} /\ meaning'[m] = lanes
        /\ \A k \in DOMAIN meaning : /\ meaning'[k] = meaning[k]
                                      /\ depth'[k] = depth[k]
    <3>1. DOMAIN depth = DOMAIN meaning
      BY DEF IInv, TypeOK
    <3> QED
      BY <2>2, <2>3, <3>1 DEF Extend
  <2>5. TypeOK'
    <3>1. masks' \in [DOMAIN masks' -> CompareStatement]
      BY <2>3, <2>4 DEF IInv, TypeOK, Extend
    <3>2. meaning' \in [DOMAIN meaning' -> SUBSET Lane]
      BY <2>3, <2>4 DEF IInv, TypeOK, Extend
    <3>3. depth' \in [DOMAIN meaning' -> Nat]
      BY <2>3, <2>4 DEF IInv, TypeOK, Extend
    <3>4. next' \in 1 .. Len(program') + 1
      BY <1>1, <2>3, CurrentFacts DEF IInv
    <3> QED
      BY <1>1, <2>2, <2>3, <2>4, <3>1, <3>2, <3>3, <3>4 DEF IInv, TypeOK
  <2>6. HistoryMatchesTables'
    <3> SUFFICES ASSUME NEW k \in DOMAIN meaning'
                 PROVE  /\ k \in DOMAIN masks' => meaning'[k] = masks'[k].lanes
                        /\ k \in DOMAIN logicalMasks =>
                             LET d == logicalMasks[k] IN
                             /\ Operands(d) \subseteq DOMAIN meaning'
                             /\ meaning'[k] =
                                  Apply(d.op, meaning'[d.lhs],
                                   IF d.op = "not" THEN {} ELSE meaning'[d.rhs])
                             /\ depth'[d.lhs] <= depth'[k]
                             /\ d.op # "not" => depth'[d.rhs] + 1 <= depth'[k]
      BY <2>3 DEF HistoryMatchesTables
    <3>1. CASE k = m
      BY <2>1, <2>2, <2>4, <3>1
    <3>2. CASE k # m
      BY <2>2, <2>4, <3>2 DEF IInv, HistoryMatchesTables, Operands
    <3> QED
      BY <3>1, <3>2
  <2>7. Acyclic'
    <3>1. PICK old \in [DOMAIN meaning -> Nat] : RanksDefinitions(old)
      BY DEF IInv, Acyclic
    <3>2. PICK rank \in [DOMAIN meaning' -> Nat] :
            \A k \in DOMAIN meaning : rank[k] = old[k]
      <4>1. [k \in DOMAIN meaning' |-> IF k = m THEN 0 ELSE old[k]]
              \in [DOMAIN meaning' -> Nat]
        BY <2>4, <3>1
      <4> QED
        BY <2>2, <2>4, <4>1
    <3>3. RanksDefinitions(rank)'
      BY <2>2, <2>3, <2>4, <3>1, <3>2
      DEF RanksDefinitions, IInv, HistoryMatchesTables
    <3> QED
      BY <1>1, <3>3, IdleAcyclic
  <2> QED
    BY <1>1, <2>5, <2>6, <2>7, IdleStackParts DEF IInv
<1> QED
  BY <1>2, <1>3

(* A logical mask is remembered without its operands being looked up: it   *)
(* gets a meaning only when they have one.                                 *)
LEMMA LogicalStep ==
  ASSUME IInv, rememberVectorMaskLogical
  PROVE  IInv'
<1> DEFINE s == CurrentStatement
<1>1. /\ next \in DOMAIN program /\ stack = <<>> /\ stack' = <<>>
      /\ returned' = "none" /\ s \in LogicalStatement
  BY CurrentFacts, StatementKinds
  DEF IInv, rememberVectorMaskLogical, Current, CurrentStatement
<1>2. CASE Defined(s.mask)
  BY <1>1, <1>2, IdleStep DEF rememberVectorMaskLogical, tables, history
<1>3. CASE ~Defined(s.mask)
  <2>1. PICK m \in Mask, c \in LogicalStatement : m = s.mask /\ c = s
    BY <1>1 DEF LogicalStatement
  <2>2. /\ m \notin DOMAIN masks /\ m \notin DOMAIN logicalMasks
        /\ m \notin DOMAIN meaning
    BY <1>3, <2>1 DEF Defined, IInv, TypeOK
  <2>3. /\ logicalMasks' = Extend(logicalMasks, m, c) /\ Define(c)
        /\ next' = next + 1
        /\ UNCHANGED <<program, masks, diagnosed, reg>>
    BY <1>3, <2>1 DEF rememberVectorMaskLogical
  <2>4. /\ DOMAIN logicalMasks' = DOMAIN logicalMasks \cup {m}
        /\ logicalMasks'[m] = c
        /\ \A k \in DOMAIN logicalMasks : logicalMasks'[k] = logicalMasks[k]
    BY <2>2, <2>3 DEF Extend
  <2>5. /\ logicalMasks' \in [DOMAIN logicalMasks' -> LogicalStatement]
        /\ next' \in 1 .. Len(program') + 1
    BY <1>1, <2>3, <2>4, CurrentFacts DEF IInv, TypeOK, Extend
  <2>6. /\ c.op \in LogicalOps /\ c.lhs \in Operands(c)
        /\ c.op # "not" => c.rhs \in Operands(c)
    BY <2>1 DEF LogicalStatement, Operands
  <2>7. PICK old \in [DOMAIN meaning -> Nat] : RanksDefinitions(old)
    BY DEF IInv, Acyclic
  <2>8. CASE ~(Operands(c) \subseteq DOMAIN meaning)
    <3>1. UNCHANGED <<meaning, depth>>
      BY <2>3, <2>8 DEF Define, history
    <3>2. TypeOK'
      BY <1>1, <2>2, <2>3, <2>4, <2>5, <3>1 DEF IInv, TypeOK
    <3>3. HistoryMatchesTables'
      BY <2>2, <2>3, <2>4, <3>1 DEF IInv, HistoryMatchesTables
    <3>4. RanksDefinitions(old)' /\ old \in [DOMAIN meaning' -> Nat]
      BY <2>2, <2>4, <2>7, <3>1 DEF RanksDefinitions, Operands
    <3>5. Acyclic'
      BY <1>1, <3>4, IdleAcyclic
    <3> QED
      BY <1>1, <3>2, <3>3, <3>5, IdleStackParts DEF IInv
  <2>9. CASE Operands(c) \subseteq DOMAIN meaning
    <3>1. PICK lanes, d :
            /\ lanes = Apply(c.op, meaning[c.lhs],
                             IF c.op = "not" THEN {} ELSE meaning[c.rhs])
            /\ d = (LET right == IF c.op = "not" THEN 0 ELSE depth[c.rhs] + 1
                    IN  IF right > depth[c.lhs] THEN right ELSE depth[c.lhs])
      OBVIOUS
    <3>2. meaning' = Extend(meaning, m, lanes) /\ depth' = Extend(depth, m, d)
      BY <2>1, <2>3, <2>9, <3>1 DEF Define
    <3>3. lanes \in SUBSET Lane
      <4>1. /\ meaning[c.lhs] \in SUBSET Lane
            /\ c.op # "not" => meaning[c.rhs] \in SUBSET Lane
        BY <2>6, <2>9 DEF IInv, TypeOK
      <4> QED
        BY <2>6, <3>1, <4>1, ApplyType
    <3>4. /\ d \in Nat /\ depth[c.lhs] <= d
          /\ c.op # "not" => depth[c.rhs] + 1 <= d
      <4>1. /\ depth[c.lhs] \in Nat
            /\ c.op # "not" => depth[c.rhs] \in Nat
        BY <2>6, <2>9 DEF IInv, TypeOK
      <4> QED
        BY <3>1, <4>1
    <3>5. /\ DOMAIN meaning' = DOMAIN meaning \cup {m} /\ meaning'[m] = lanes
          /\ depth'[m] = d
          /\ \A k \in DOMAIN meaning : /\ meaning'[k] = meaning[k]
                                        /\ depth'[k] = depth[k]
      <4>1. DOMAIN depth = DOMAIN meaning
        BY DEF IInv, TypeOK
      <4> QED
        BY <2>2, <3>2, <4>1 DEF Extend
    <3>6. TypeOK'
      <4>1. meaning' \in [DOMAIN meaning' -> SUBSET Lane]
        BY <3>2, <3>3, <3>5 DEF IInv, TypeOK, Extend
      <4>2. depth' \in [DOMAIN meaning' -> Nat]
        BY <3>2, <3>4, <3>5 DEF IInv, TypeOK, Extend
      <4> QED
        BY <1>1, <2>2, <2>3, <2>4, <2>5, <3>5, <4>1, <4>2 DEF IInv, TypeOK
    <3>7. HistoryMatchesTables'
      <4> SUFFICES ASSUME NEW k \in DOMAIN meaning'
                   PROVE  /\ k \in DOMAIN masks => meaning'[k] = masks[k].lanes
                          /\ k \in DOMAIN logicalMasks' =>
                               LET e == logicalMasks'[k] IN
                               /\ Operands(e) \subseteq DOMAIN meaning'
                               /\ meaning'[k] =
                                    Apply(e.op, meaning'[e.lhs],
                                      IF e.op = "not" THEN {} ELSE meaning'[e.rhs])
                               /\ depth'[e.lhs] <= depth'[k]
                               /\ e.op # "not" => depth'[e.rhs] + 1 <= depth'[k]
        BY <2>3 DEF HistoryMatchesTables
      <4>1. CASE k = m
        BY <2>2, <2>4, <2>6, <2>9, <3>1, <3>4, <3>5, <4>1
      <4>2. CASE k # m
        BY <2>2, <2>4, <3>5, <4>2 DEF IInv, HistoryMatchesTables, Operands
      <4> QED
        BY <4>1, <4>2
    <3>8. PICK rank \in [DOMAIN meaning' -> Nat] :
            /\ \A k \in DOMAIN meaning : rank[k] = old[k]
            /\ \A o \in Operands(c) : rank[o] < rank[m]
      <4>1. PICK r \in Nat : \A o \in Operands(c) : old[o] < r
        <5>1. /\ old[c.lhs] \in Nat
              /\ c.op # "not" => old[c.rhs] \in Nat
          BY <2>6, <2>7, <2>9
        <5>2. CASE c.op = "not"
          <6>1. \A o \in Operands(c) : old[o] < old[c.lhs] + 1
            BY <5>1, <5>2 DEF Operands
          <6> QED
            BY <5>1, <6>1
        <5>3. CASE c.op # "not"
          <6>1. \A o \in Operands(c) : old[o] < old[c.lhs] + old[c.rhs] + 1
            BY <5>1, <5>3 DEF Operands
          <6>2. old[c.lhs] + old[c.rhs] + 1 \in Nat
            BY <5>1, <5>3
          <6> QED
            BY <6>1, <6>2
        <5> QED
          BY <5>2, <5>3
      <4>2. [k \in DOMAIN meaning' |-> IF k = m THEN r ELSE old[k]]
              \in [DOMAIN meaning' -> Nat]
        BY <2>7, <3>5
      <4> QED
        BY <2>2, <2>9, <3>5, <4>1, <4>2
    <3>9. RanksDefinitions(rank)'
      BY <2>2, <2>4, <2>7, <3>5, <3>8
      DEF RanksDefinitions, IInv, HistoryMatchesTables
    <3>10. Acyclic'
      BY <1>1, <3>9, IdleAcyclic
    <3> QED
      BY <1>1, <3>6, <3>7, <3>10, IdleStackParts DEF IInv
  <2> QED
    BY <2>8, <2>9
<1> QED
  BY <1>2, <1>3

LEMMA ConsumedStep ==
  ASSUME IInv, Consumed
  PROVE  IInv'
<1>1. next \in DOMAIN program
  BY DEF IInv, StackDiscipline, Consumed
<1> QED
  BY <1>1, IdleStep DEF Consumed, tables, history, IInv, TypeOK

LEMMA ConsumeStep ==
  ASSUME IInv, Consume
  PROVE  IInv'
<1> USE DEF tables, history
<1>1. /\ next \in DOMAIN program /\ CurrentStatement.kind = "vector_masked"
      /\ returned = "none" /\ CurrentStatement.mask \in Mask
  BY CurrentFacts, StatementKinds
  DEF IInv, Consume, Current, CurrentStatement
<1>2. PICK g \in Frame : /\ g = Call(CurrentStatement.mask, "v0")
                         /\ g.mask = CurrentStatement.mask /\ g.dest = "v0"
                         /\ g.step = "call"
  <2>1. PICK m \in Mask : m = CurrentStatement.mask
    BY <1>1
  <2>2. "v0" \in MaskRegister
    BY DEF MaskRegister
  <2>3. Call(m, "v0") \in Frame
    BY <2>2 DEF Call, Frame
  <2> QED
    BY <2>1, <2>3 DEF Call
<1>3. /\ stack' = <<g>> /\ returned' = "none"
      /\ UNCHANGED <<program, next, masks, logicalMasks, diagnosed, reg,
                     meaning, depth>>
  BY <1>1, <1>2 DEF Consume
<1>4. /\ stack' \in Seq(Frame) /\ stack' # <<>> /\ Len(stack') = 1
      /\ stack'[1] = g
  BY <1>2, <1>3
<1>5. Top' = g /\ 1 .. Len(stack') = {1} /\ 1 .. Len(stack') - 1 = {}
  BY <1>4 DEF Top
<1>6. TypeOK'
  BY <1>1, <1>3, <1>4 DEF IInv, TypeOK
<1>7. StackDiscipline'
  BY <1>1, <1>2, <1>3, <1>4, <1>5 DEF StackDiscipline, CurrentStatement
<1>8. HistoryMatchesTables'
  BY <1>3 DEF IInv, HistoryMatchesTables
<1>9. StackInMeaning'
  BY <1>4, <1>5 DEF StackInMeaning, Rooted
<1>10. Acyclic'
  <2>1. PICK rank \in [DOMAIN meaning' -> Nat] : RanksDefinitions(rank)
    BY <1>3 DEF IInv, Acyclic
  <2>2. RanksDefinitions(rank)'
    BY <1>3, <2>1 DEF RanksDefinitions, Operands
  <2>3. RanksStack(rank)'
    BY <1>5 DEF RanksStack
  <2> QED
    BY <2>2, <2>3 DEF Acyclic, RanksDefinitions, RanksStack
<1>11. RegistersSuffice'
  <2> SUFFICES ASSUME Shallow'
               PROVE  depth'[stack'[1].mask] + Level(stack'[1].dest) <= 2
    BY <1>5 DEF RegistersSuffice, Level
  <2>1. depth'[stack'[1].mask] <= 2 /\ depth'[stack'[1].mask] \in Nat
    BY <1>6 DEF Shallow, Rooted, TypeOK
  <2>2. Level(stack'[1].dest) = 0
    BY <1>2, <1>4 DEF Level
  <2> QED
    BY <2>1, <2>2
<1>12. OperandsInRegisters'
  BY <1>2, <1>3, <1>4, <1>5 DEF OperandsInRegisters
<1>13. ShallowMaskInV0'
  BY <1>4 DEF ShallowMaskInV0, MaskReady
<1> QED
  BY <1>6, <1>7, <1>8, <1>9, <1>10, <1>11, <1>12, <1>13 DEF IInv

(* The top frame of an expansion whose mask has a meaning.                 *)
LEMMA TopFacts ==
  ASSUME IInv, stack # <<>>
  PROVE  /\ Top \in Frame /\ Top.mask \in Mask /\ Top.dest \in MaskRegister
         /\ Top.step # "call" => Top.mask \in DOMAIN logicalMasks
         /\ Top.step = "rhs" => Definition.op # "not"
         /\ Rooted => Top.mask \in DOMAIN meaning
<1>1. Top \in Frame /\ Top = stack[Len(stack)] /\ Len(stack) \in Nat \ {0}
  BY PopFacts DEF IInv, TypeOK
<1>2. Len(stack) \in 1 .. Len(stack)
  BY <1>1
<1> QED
  BY <1>1, <1>2 DEF Frame, IInv, StackDiscipline, StackInMeaning, Definition

LEMMA CompareReturns ==
  ASSUME IInv, emitCompareMaskInto
  PROVE  IInv'
<1>1. stack # <<>> /\ Top.mask \in DOMAIN masks
  BY DEF emitCompareMaskInto, Entered
<1>2. masks[Top.mask].lanes \in SUBSET Lane
  BY <1>1 DEF IInv, TypeOK, CompareStatement
<1>3. Shallow => masks[Top.mask].lanes = meaning[Top.mask]
  BY <1>1, TopFacts DEF Shallow, IInv, HistoryMatchesTables
<1> QED
  BY <1>1, <1>2, <1>3, WritePops DEF emitCompareMaskInto

LEMMA NotReturns ==
  ASSUME IInv, EmitNot
  PROVE  IInv'
<1>1. /\ stack # <<>> /\ returned = "true" /\ Top.step = "lhs"
      /\ Definition.op = "not"
  BY DEF EmitNot, Resumed
<1>2. PICK v : v = Lane \ (reg[Top.dest] \cap reg[Top.dest])
  OBVIOUS
<1>3. v \in SUBSET Lane /\ v = Lane \ reg[Top.dest]
  BY <1>2
<1>4. Shallow => v = meaning[Top.mask]
  <2> SUFFICES ASSUME Shallow PROVE v = meaning[Top.mask]
    OBVIOUS
  <2>1. Top.mask \in DOMAIN meaning /\ Top.mask \in DOMAIN logicalMasks
    BY <1>1, TopFacts DEF Shallow
  <2>2. reg[Top.dest] = meaning[Definition.lhs]
    BY <1>1 DEF IInv, OperandsInRegisters, AwaitedRegister, AwaitedMask,
                Definition
  <2>3. meaning[Top.mask] = Apply("not", meaning[Definition.lhs], {})
    BY <1>1, <2>1 DEF IInv, HistoryMatchesTables, Definition
  <2> QED
    BY <1>3, <2>2, <2>3, ApplyNot
<1> QED
  BY <1>1, <1>2, <1>3, <1>4, WritePops DEF EmitNot

LEMMA LogicalReturns ==
  ASSUME IInv, EmitLogical
  PROVE  IInv'
<1>1. stack # <<>> /\ returned = "true" /\ Top.step = "rhs"
  BY DEF EmitLogical, Resumed
<1>2. PICK v : v = Apply(Definition.op, reg[Top.dest],
                        reg[scratchMask(Top.dest)])
  OBVIOUS
<1>3. /\ Top.mask \in DOMAIN logicalMasks /\ Top.dest \in MaskRegister
      /\ Definition.op # "not" /\ Definition.op \in LogicalOps
  BY <1>1, TopFacts DEF Definition, IInv, TypeOK, LogicalStatement
<1>4. v \in SUBSET Lane
  <2>1. /\ reg[Top.dest] \in SUBSET Lane
        /\ reg[scratchMask(Top.dest)] \in SUBSET Lane
    BY <1>3 DEF IInv, TypeOK, scratchMask, MaskRegister
  <2> QED
    BY <1>2, <1>3, <2>1, ApplyType
<1>5. Shallow => v = meaning[Top.mask]
  <2> SUFFICES ASSUME Shallow PROVE v = meaning[Top.mask]
    OBVIOUS
  <2>1. Top.mask \in DOMAIN meaning
    BY <1>1, TopFacts DEF Shallow
  <2>2. Len(stack) \in 1 .. Len(stack)
    BY <1>1, PopFacts DEF IInv, TypeOK
  <2>3. reg[Top.dest] = meaning[Definition.lhs]
    BY <1>1, <2>2 DEF IInv, OperandsInRegisters, Definition, Top
  <2>4. reg[scratchMask(Top.dest)] = meaning[Definition.rhs]
    BY <1>1 DEF IInv, OperandsInRegisters, AwaitedRegister, AwaitedMask,
                Definition
  <2>5. meaning[Top.mask] =
          Apply(Definition.op, meaning[Definition.lhs], meaning[Definition.rhs])
    BY <1>3, <2>1 DEF IInv, HistoryMatchesTables, Definition
  <2> QED
    BY <1>2, <2>3, <2>4, <2>5
<1> QED
  BY <1>1, <1>2, <1>4, <1>5, WritePops DEF EmitLogical

LEMMA OperandCalls ==
  ASSUME IInv, EmitLHS \/ EmitRHS
  PROVE  IInv'
<1>1. stack # <<>>
  BY DEF EmitLHS, EmitRHS, Entered, Resumed
<1>2. Top \in Frame
  BY <1>1, TopFacts
<1>3. CASE EmitLHS
  <2>1. PICK f : f = [Top EXCEPT !.step = "lhs"]
    OBVIOUS
  <2>2. f.step = "lhs" /\ f.mask = Top.mask /\ f.dest = Top.dest
    BY <1>2, <2>1 DEF Frame
  <2>3. Definition.lhs = AwaitedMask(f) /\ Top.dest = AwaitedRegister(f)
    BY <2>2 DEF Definition, AwaitedMask, AwaitedRegister
  <2>4. /\ Top.mask \in DOMAIN logicalMasks /\ returned' = "none"
        /\ UNCHANGED <<program, next, tables, diagnosed, reg, history>>
    BY <1>3 DEF EmitLHS, Entered
  <2>5. stack' = Append(Append(Below, f),
                        Call(AwaitedMask(f), AwaitedRegister(f)))
    BY <1>3, <2>1, <2>3 DEF EmitLHS
  <2> QED
    BY <1>1, <2>1, <2>4, <2>5, Pushes
<1>4. CASE EmitRHS
  <2>1. PICK f : f = [Top EXCEPT !.step = "rhs"]
    OBVIOUS
  <2>2. f.step = "rhs" /\ f.mask = Top.mask /\ f.dest = Top.dest
    BY <1>2, <2>1 DEF Frame
  <2>3. /\ Definition.rhs = AwaitedMask(f)
        /\ scratchMask(Top.dest) = AwaitedRegister(f)
    BY <2>2 DEF Definition, AwaitedMask, AwaitedRegister
  <2>4. /\ Top.step = "lhs" /\ returned = "true" /\ returned' = "none"
        /\ logicalMasks[Top.mask].op # "not"
        /\ UNCHANGED <<program, next, tables, diagnosed, reg, history>>
    BY <1>4 DEF EmitRHS, Resumed, Definition
  <2>5. stack' = Append(Append(Below, f),
                        Call(AwaitedMask(f), AwaitedRegister(f)))
    BY <1>4, <2>1, <2>3 DEF EmitRHS
  <2>6. Top.mask \in DOMAIN logicalMasks
    BY <1>1, <2>4, TopFacts
  <2> QED
    BY <1>1, <2>1, <2>4, <2>5, <2>6, Pushes
<1> QED
  BY <1>3, <1>4

LEMMA Failures ==
  ASSUME IInv, UnknownBuffer \/ UnknownMask \/ ReturnFalse
  PROVE  IInv'
<1>1. stack # <<>> /\ stack' = Below /\ returned' = "false"
  BY DEF UnknownBuffer, UnknownMask, ReturnFalse, Entered
<1>2. diagnosed' \in BOOLEAN
  BY DEF UnknownBuffer, UnknownMask, ReturnFalse, IInv, TypeOK
<1>3. UNCHANGED <<program, next, tables, reg, history>>
  BY DEF UnknownBuffer, UnknownMask, ReturnFalse
<1> QED
  BY <1>1, <1>2, <1>3, FailPops

---------------------------------------------------------------------------
LEMMA InitIInv == Init => IInv
<1> SUFFICES ASSUME Init PROVE IInv
  OBVIOUS
<1>1. /\ stack = <<>> /\ Len(stack) = 0 /\ returned = "none"
      /\ 1 .. Len(stack) = {} /\ 1 .. Len(stack) - 1 = {}
  BY DEF Init
<1>2. /\ DOMAIN NoMasks = {} /\ \A S : NoMasks \in [{} -> S]
      /\ masks = NoMasks /\ logicalMasks = NoMasks
      /\ meaning = NoMasks /\ depth = NoMasks
  BY DEF Init, NoMasks
<1>3. TypeOK
  <2>1. Len(program) \in Nat /\ next = 1 /\ program \in Programs
    BY ProgramsAssumption DEF Init
  <2>2. stack \in Seq(Frame)
    BY <1>1
  <2>3. reg \in [MaskRegister -> SUBSET Lane]
    BY DEF Init
  <2>4. /\ masks \in [DOMAIN masks -> CompareStatement]
        /\ logicalMasks \in [DOMAIN logicalMasks -> LogicalStatement]
        /\ meaning \in [DOMAIN meaning -> SUBSET Lane]
        /\ depth \in [DOMAIN meaning -> Nat]
    BY <1>2
  <2>5. diagnosed \in BOOLEAN
    BY DEF Init
  <2> QED
    BY <1>1, <1>2, <2>1, <2>2, <2>3, <2>4, <2>5 DEF TypeOK
<1>4. HistoryMatchesTables
  BY <1>2 DEF HistoryMatchesTables
<1>5. Acyclic
  <2>1. [m \in {} |-> 0] \in [DOMAIN meaning -> Nat]
    BY <1>2
  <2>2. PICK rank \in [DOMAIN meaning -> Nat] : TRUE
    BY <2>1
  <2>3. RanksDefinitions(rank) /\ RanksStack(rank)
    BY <1>1, <1>2 DEF RanksDefinitions, RanksStack
  <2> QED
    BY <2>3 DEF Acyclic
<1> QED
  BY <1>1, <1>3, <1>4, <1>5
  DEF IInv, StackDiscipline, StackInMeaning, RegistersSuffice, Rooted, Shallow,
      OperandsInRegisters, ShallowMaskInV0, MaskReady

LEMMA NextIInv == IInv /\ [Next]_vars => IInv'
<1> SUFFICES ASSUME IInv, [Next]_vars PROVE IInv'
  OBVIOUS
<1>1. CASE emitFunction              BY <1>1, FunctionStep
<1>2. CASE rememberVectorMask        BY <1>2, CompareStep
<1>3. CASE rememberVectorMaskLogical BY <1>3, LogicalStep
<1>4. CASE Consume                   BY <1>4, ConsumeStep
<1>5. CASE emitCompareMaskInto       BY <1>5, CompareReturns
<1>6. CASE EmitLHS \/ EmitRHS        BY <1>6, OperandCalls
<1>7. CASE EmitNot                   BY <1>7, NotReturns
<1>8. CASE EmitLogical               BY <1>8, LogicalReturns
<1>9. CASE UnknownBuffer \/ UnknownMask \/ ReturnFalse
  BY <1>9, Failures
<1>10. CASE Consumed                 BY <1>10, ConsumedStep
<1>11. CASE UNCHANGED vars
  <2>1. UNCHANGED <<program, next, masks, logicalMasks, diagnosed, stack,
                    returned, reg, meaning, depth>>
    BY <1>11 DEF vars, tables, history
  <2>2. TypeOK' /\ HistoryMatchesTables' /\ ShallowMaskInV0'
    BY <2>1 DEF IInv, TypeOK, HistoryMatchesTables, ShallowMaskInV0, MaskReady,
                CurrentStatement
  <2>3. StackDiscipline'
    BY <2>1 DEF IInv, StackDiscipline, CurrentStatement, Top, AwaitedMask,
                AwaitedRegister
  <2>4. (Rooted' <=> Rooted) /\ (Shallow' <=> Shallow)
    BY <2>1 DEF Rooted, Shallow
  <2>5. StackInMeaning' /\ RegistersSuffice'
    BY <2>1, <2>4 DEF IInv, StackInMeaning, RegistersSuffice
  <2>6. OperandsInRegisters'
    BY <2>1, <2>4 DEF IInv, OperandsInRegisters, Top, AwaitedMask,
                      AwaitedRegister
  <2>7. Acyclic'
    BY <2>1, <2>4 DEF IInv, Acyclic, RanksDefinitions, RanksStack, Operands
  <2> QED
    BY <2>2, <2>3, <2>5, <2>6, <2>7 DEF IInv
<1> QED
  BY <1>1, <1>2, <1>3, <1>4, <1>5, <1>6, <1>7, <1>8, <1>9, <1>10, <1>11
  DEF Next, Resolve

---------------------------------------------------------------------------
(* The mask emitter keeps its inductive invariant, whatever it compiles.   *)
THEOREM Invariant == Spec => []IInv
  BY InitIInv, NextIInv, PTL DEF Spec

(* Every variable keeps its type; a name is never both a comparison and a  *)
(* logical mask.                                                           *)
THEOREM TypeCorrect == Spec => []TypeOK
<1>1. IInv => TypeOK
  BY DEF IInv
<1> QED
  BY <1>1, Invariant, PTL

(* emitMaskIntoVectorRegister leaves in v0 the lanes of every mask whose   *)
(* operands were defined before it and whose right operands nest at most   *)
(* twice, however many masks there are.                                    *)
THEOREM ShallowMasksAreRight == Spec => []ShallowMaskInV0
<1>1. IInv => ShallowMaskInV0
  BY DEF IInv
<1> QED
  BY <1>1, Invariant, PTL

(* scratchMask never gives the recursion a register that holds the left    *)
(* operand of a call still on the stack, for such masks.                   *)
THEOREM LeftOperandsSurvive == Spec => []LiveOperandsKept
<1>1. IInv => LiveOperandsKept
  BY DEF IInv, OperandsInRegisters, Shallow, Rooted, LiveOperandsKept
<1> QED
  BY <1>1, Invariant, PTL

(* The recursion of emitMaskIntoVectorRegister visits no mask twice when   *)
(* the mask was defined from defined masks.                                *)
THEOREM RecursionVisitsOnce == Spec => []RecursionBounded
<1>1. IInv => RecursionBounded
  <2> SUFFICES ASSUME IInv, Rooted,
                      NEW i \in 1 .. Len(stack), NEW j \in 1 .. Len(stack),
                      stack[i].mask = stack[j].mask
               PROVE  i = j
    BY DEF RecursionBounded, Rooted
  <2>1. PICK rank \in [DOMAIN meaning -> Nat] : RanksStack(rank)
    BY DEF IInv, Acyclic
  <2>2. rank[stack[i].mask] \in Nat /\ rank[stack[j].mask] \in Nat
    BY <2>1 DEF IInv, StackInMeaning
  <2>3. /\ i < j => rank[stack[j].mask] < rank[stack[i].mask]
        /\ j < i => rank[stack[i].mask] < rank[stack[j].mask]
    BY <2>1 DEF RanksStack
  <2> QED
    BY <2>2, <2>3
<1> QED
  BY <1>1, Invariant, PTL
=============================================================================
