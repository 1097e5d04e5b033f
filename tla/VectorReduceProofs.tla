-------------------------- MODULE VectorReduceProofs -------------------------
(***************************************************************************)
(* vector_reduce_add: the loop of either backend computes the sum of the   *)
(* whole input, for every input, element width, machine and choice of      *)
(* vsetvli.                                                                *)
(***************************************************************************)
EXTENDS VectorReduce, PrefixSums

---------------------------------------------------------------------------
(* Sums of a part of the input.                                            *)

(* The types of a call.                                                    *)
LEMMA InputFacts ==
  ASSUME call \in Inputs
  PROVE  /\ call.backend \in Backends
         /\ call.elementModulus \in Nat \ {0}
         /\ call.initial \in Int /\ call.n \in Int
         /\ \A i \in 0 .. call.n - 1 : call.input[i] \in Int
         /\ OnRVV => call.n \in 0 .. XMod - 1
  BY InputsAssumption DEF OnRVV

(* The recursion of SumOf has a solution, the difference of running sums.  *)
LEMMA SumIsDifference ==
  ASSUME NEW t, NEW n \in Nat, NEW G, IsRunningSum(G, t, n),
         \A j \in 0 .. n - 1 : t[j] \in Int,
         NEW a \in 0 .. n, NEW b \in a .. n
  PROVE  SumOf(t, a, b) = G[b] - G[a]
<1> DEFINE Body(f) == [k \in a .. b |-> IF k = a THEN 0 ELSE f[k - 1] + t[k - 1]]
           sum == CHOOSE f : f = Body(f)
           D == [k \in a .. b |-> G[k] - G[a]]
<1>1. \A k \in a .. b : G[k] \in Int /\ G[a] \in Int
  BY DEF IsRunningSum
<1>2. \A k \in a + 1 .. b : G[k] = G[k - 1] + t[k - 1] /\ G[k - 1] \in Int
  BY DEF IsRunningSum
<1>3. D = Body(D)
  <2>1. ASSUME NEW k \in a .. b
        PROVE  D[k] = IF k = a THEN 0 ELSE D[k - 1] + t[k - 1]
    <3>1. CASE k = a
      BY <1>1, <3>1
    <3>2. CASE k # a
      <4>1. k \in a + 1 .. b /\ k - 1 \in a .. b
        BY <3>2
      <4>2. D[k] = G[k] - G[a] /\ D[k - 1] = G[k - 1] - G[a]
        BY <4>1
      <4>3. G[k] - G[a] = (G[k - 1] - G[a]) + t[k - 1]
        <5>1. t[k - 1] \in Int
          BY <4>1
        <5> QED
          BY <1>1, <1>2, <4>1, <5>1
      <4> QED
        BY <3>2, <4>2, <4>3
    <3> QED
      BY <3>1, <3>2
  <2> QED
    BY <2>1
<1>4. sum = Body(sum)
  <2> HIDE DEF Body, D
  <2> QED
    BY <1>3
<1>5. /\ sum[a] = D[a]
      /\ \A k \in a + 1 .. b : sum[k - 1] = D[k - 1] => sum[k] = D[k]
  <2>1. \A k \in a .. b :
          sum[k] = IF k = a THEN 0 ELSE sum[k - 1] + t[k - 1]
    BY <1>4
  <2>2. \A k \in a .. b :
          D[k] = IF k = a THEN 0 ELSE D[k - 1] + t[k - 1]
    BY <1>3
  <2> HIDE DEF sum, D
  <2> QED
    BY <2>1, <2>2
<1>6. sum[b] = D[b]
  <2>1. a \in Int /\ b \in Int /\ b \in a .. b
    OBVIOUS
  <2> HIDE DEF sum, D
  <2>2. sum[a] = D[a]
    BY <1>5
  <2>3. \A k \in a + 1 .. b : sum[k - 1] = D[k - 1] => sum[k] = D[k]
    BY <1>5
  <2>4. \A lo \in Int, hi \in Int :
          (/\ sum[lo] = D[lo]
           /\ \A k \in lo + 1 .. hi : sum[k - 1] = D[k - 1] => sum[k] = D[k])
          => \A k \in lo .. hi : sum[k] = D[k]
    BY Agree
  <2>5. \A k \in a .. b : sum[k] = D[k]
    BY <2>1, <2>2, <2>3, <2>4
  <2> QED
    BY <2>1, <2>5
<1>7. SumOf(t, a, b) = sum[b]
  BY DEF SumOf
<1> QED
  BY <1>6, <1>7

(* Sums of adjacent parts add up.                                          *)
LEMMA SumFacts ==
  ASSUME NEW t, NEW n \in Nat, \A j \in 0 .. n - 1 : t[j] \in Int,
         NEW a \in 0 .. n, NEW b \in a .. n, NEW c \in b .. n
  PROVE  /\ SumOf(t, a, a) = 0
         /\ SumOf(t, a, b) \in Int
         /\ SumOf(t, a, b) + SumOf(t, b, c) = SumOf(t, a, c)
<1>1. PICK G : IsRunningSum(G, t, n)
  BY RunningSumExists
<1>2. G[a] \in Int /\ G[b] \in Int /\ G[c] \in Int
  BY <1>1 DEF IsRunningSum
<1>3. SumOf(t, a, a) = G[a] - G[a] /\ SumOf(t, a, b) = G[b] - G[a]
  BY <1>1, SumIsDifference
<1>4. SumOf(t, b, c) = G[c] - G[b] /\ SumOf(t, a, c) = G[c] - G[a]
  BY <1>1, SumIsDifference
<1> QED
  BY <1>2, <1>3, <1>4

(* vmv.s.x and vmv.x.s: cutting a sum to a lane and extending it.          *)
LEMMA SignExtendFacts ==
  ASSUME NEW v \in Int, NEW m \in Nat \ {0}
  PROVE  SignExtend(v, m) \in Int /\ SignExtend(v, m) % m = v % m
  BY TwosComplementFacts DEF SignExtend, TwosComplement

(* Extending the sign of a part of a sum does not change the extended sum. *)
LEMMA SignExtendOfSum ==
  ASSUME NEW a \in Int, NEW b \in Int, NEW m \in Nat \ {0}
  PROVE  /\ SignExtend((a % m) + b, m) = SignExtend(a + b, m)
         /\ SignExtend(SignExtend(a, m) + b, m) = SignExtend(a + b, m)
  BY TwosComplementOfSum DEF SignExtend, TwosComplement

---------------------------------------------------------------------------
(* The inductive invariant: at every point the scalar holds the reduction  *)
(* of the elements of the strips so far.                                   *)

Added == IF index <= call.n THEN index ELSE call.n

SumSoFar ==
  accumulator =
    IF index = 0 THEN call.initial
    ELSE SignExtend(call.initial + Sum(0, Added), call.elementModulus)

(* Only the last MLIR vector may be a partial one, and only it passes the  *)
(* end of the input.                                                       *)
StripsInInput ==
  /\ index > 0 => call.n > 0
  /\ OnRVV => index <= call.n
  /\ pc = "reduce" => vl > 0
  /\ pc = "reduce" /\ OnMLIR => vl = 4 \/ index + vl = call.n
  /\ pc = "end" => index >= call.n

IInv == TypeOK /\ StripsInInput /\ SumSoFar

(* The length the loop compares with is the count of the call.             *)
LEMMA LengthIsCount == ASSUME call \in Inputs PROVE Length = call.n
<1>1. CASE OnRVV
  <2>1. call.n \in 0 .. XMod - 1
    BY <1>1, InputFacts
  <2>2. call.n % XMod = call.n
    BY <2>1, XModAssumption
  <2> QED
    BY <1>1, <2>2 DEF Length
<1>2. CASE ~OnRVV
  BY <1>2 DEF Length
<1> QED
  BY <1>1, <1>2

(* The invariant holds before the first strip.                             *)
LEMMA InitIInv == Init => IInv
<1> SUFFICES ASSUME Init PROVE IInv
  OBVIOUS
<1> QED
  BY VLMaxAssumption, InputFacts
  DEF Init, IInv, TypeOK, StripsInInput, SumSoFar

(* The sum of the input, in two parts.                                     *)
LEMMA PartsAddUp ==
  ASSUME call \in Inputs, NEW b \in Nat, NEW c \in Nat,
         b <= c, c <= call.n
  PROVE  /\ Sum(0, b) \in Int /\ Sum(b, c) \in Int
         /\ Sum(0, b) + Sum(b, c) = Sum(0, c)
         /\ Sum(0, 0) = 0
<1> DEFINE t == call.input
           n == call.n
<1>1. n \in Nat /\ \A j \in 0 .. n - 1 : t[j] \in Int
  BY InputFacts
<1>2. 0 \in 0 .. n /\ b \in 0 .. n /\ c \in b .. n /\ c \in c .. n
  BY <1>1
<1> HIDE DEF t, n
<1>3. /\ SumOf(t, 0, 0) = 0 /\ SumOf(t, 0, b) \in Int
      /\ SumOf(t, 0, b) + SumOf(t, b, c) = SumOf(t, 0, c)
  BY <1>1, <1>2, SumFacts
<1>4. SumOf(t, b, c) \in Int
  BY <1>1, <1>2, SumFacts
<1> QED
  BY <1>3, <1>4 DEF Sum, t

(* One more strip, on either backend.                                      *)
LEMMA StripAdds ==
  ASSUME IInv, NEW d \in Nat, index <= d, d <= call.n
  PROVE  /\ Sum(index, d) \in Int /\ call.initial + Sum(0, d) \in Int
         /\ SignExtend(accumulator + Sum(index, d), call.elementModulus)
              = SignExtend(call.initial + Sum(0, d), call.elementModulus)
<1> DEFINE m == call.elementModulus
           strip == Sum(index, d)
           before == call.initial + Sum(0, index)
<1>1. /\ index \in Nat /\ call.n \in Int /\ call.initial \in Int
      /\ m \in Nat \ {0}
  BY InputFacts DEF IInv, TypeOK
<1>2. /\ Sum(0, index) \in Int /\ strip \in Int
      /\ Sum(0, index) + strip = Sum(0, d) /\ Sum(0, 0) = 0
  BY <1>1, PartsAddUp DEF IInv, TypeOK
<1>3. before \in Int /\ before + strip = call.initial + Sum(0, d)
  BY <1>1, <1>2
<1>4. CASE index = 0
  BY <1>2, <1>3, <1>4 DEF IInv, SumSoFar
<1>5. CASE index # 0
  <2>1. accumulator = SignExtend(before, m)
    BY <1>1, <1>5 DEF IInv, SumSoFar, Added
  <2> HIDE DEF before, strip, m
  <2>2. SignExtend(SignExtend(before, m) + strip, m)
          = SignExtend(before + strip, m)
    BY <1>1, <1>2, <1>3, SignExtendOfSum
  <2> QED
    BY <1>2, <1>3, <2>1, <2>2 DEF strip, m
<1> QED
  BY <1>4, <1>5

(* Every step keeps it.                                                    *)
LEMMA NextIInv == IInv /\ [Next]_vars => IInv'
<1> SUFFICES ASSUME IInv, [Next]_vars PROVE IInv'
  OBVIOUS
<1> DEFINE n == call.n
<1>0. /\ n \in Int /\ Length = n /\ index \in Nat /\ accumulator \in Int
      /\ call.elementModulus \in Nat \ {0} /\ call.initial \in Int
      /\ call.backend \in Backends
      /\ OnRVV => n \in Nat
  BY InputFacts, LengthIsCount DEF IInv, TypeOK
<1>1. CASE Exit
  BY <1>0, <1>1 DEF Exit, IInv, TypeOK, StripsInInput, SumSoFar, Sum, Added,
                    OnRVV, OnMLIR
<1>2. CASE Head
  <2>1. /\ pc = "head" /\ pc' = "reduce" /\ index < n
        /\ UNCHANGED <<call, index, accumulator>>
    BY <1>0, <1>2 DEF Head
  <2>2. /\ vl' \in 1 .. (IF OnRVV THEN VLMax ELSE 4) /\ index + vl' <= n
        /\ OnMLIR => vl' = 4 \/ index + vl' = n
    <3>1. CASE OnRVV
      BY <1>0, <1>2, <2>1, <3>1 DEF Head, VLChoices, OnRVV, OnMLIR
    <3>2. CASE ~OnRVV
      BY <1>0, <1>2, <2>1, <3>2 DEF Head
    <3> QED
      BY <3>1, <3>2
  <2>3. TypeOK'
    BY <1>0, <2>1, <2>2 DEF IInv, TypeOK, OnRVV
  <2> QED
    BY <1>0, <2>1, <2>2, <2>3
    DEF IInv, StripsInInput, SumSoFar, Sum, Added, OnRVV, OnMLIR
<1>3. CASE emitVectorReduceAdd
  <2> DEFINE d == index + vl
             m == call.elementModulus
  <2>1. /\ pc = "reduce" /\ pc' = "head" /\ OnRVV /\ index' = d
        /\ UNCHANGED <<call, vl>>
        /\ accumulator' = SignExtend((accumulator % m) + Sum(index, d), m)
    BY <1>3 DEF emitVectorReduceAdd
  <2>2. d \in Nat /\ d > index /\ d <= n
    BY <1>0, <2>1 DEF IInv, TypeOK, StripsInInput
  <2> HIDE DEF d
  <2>3. /\ Sum(index, d) \in Int /\ call.initial + Sum(0, d) \in Int
        /\ SignExtend(accumulator + Sum(index, d), m)
             = SignExtend(call.initial + Sum(0, d), m)
    BY <1>0, <2>2, StripAdds
  <2> HIDE DEF m
  <2>4. accumulator' = SignExtend(accumulator + Sum(index, d), m)
    BY <1>0, <2>1, <2>3, SignExtendOfSum DEF m
  <2>5. accumulator' \in Int
    BY <1>0, <2>3, <2>4, SignExtendFacts DEF m
  <2>6. SumSoFar'
    BY <1>0, <2>1, <2>2, <2>3, <2>4 DEF SumSoFar, Added, Sum, m
  <2> QED
    BY <1>0, <2>1, <2>2, <2>5, <2>6
    DEF IInv, TypeOK, StripsInInput, OnRVV, OnMLIR
<1>4. CASE emitVectorReduceAddMLIR
  <2> DEFINE d == index + vl
             m == call.elementModulus
  <2>1. /\ pc = "reduce" /\ pc' = "head" /\ OnMLIR /\ index' = index + 4
        /\ UNCHANGED <<call, vl>>
        /\ accumulator' = SignExtend(accumulator + Sum(index, d), m)
    BY <1>4 DEF emitVectorReduceAddMLIR
  <2>2. /\ d \in Nat /\ d > index /\ d <= n /\ n > 0
        /\ d = IF index + 4 <= n THEN index + 4 ELSE n
    <3>1. vl \in Nat /\ vl > 0 /\ vl <= 4 /\ index + vl <= n
      BY <1>0, <2>1 DEF IInv, TypeOK, StripsInInput, OnRVV, OnMLIR
    <3>2. vl = 4 \/ index + vl = n
      BY <2>1 DEF IInv, StripsInInput
    <3> QED
      BY <1>0, <3>1, <3>2
  <2> HIDE DEF d
  <2>3. /\ call.initial + Sum(0, d) \in Int
        /\ SignExtend(accumulator + Sum(index, d), m)
             = SignExtend(call.initial + Sum(0, d), m)
    BY <1>0, <2>2, StripAdds
  <2> HIDE DEF m
  <2>4. accumulator' \in Int
    BY <1>0, <2>1, <2>3, SignExtendFacts DEF m
  <2>5. SumSoFar'
    BY <1>0, <2>1, <2>2, <2>3 DEF SumSoFar, Added, Sum, m
  <2> QED
    BY <1>0, <2>1, <2>2, <2>4, <2>5
    DEF IInv, TypeOK, StripsInInput, OnRVV, OnMLIR
<1>5. CASE UNCHANGED vars
  BY <1>5 DEF vars, IInv, TypeOK, StripsInInput, SumSoFar, Sum, Added,
              OnRVV, OnMLIR
<1> QED
  BY <1>1, <1>2, <1>3, <1>4, <1>5 DEF Next

---------------------------------------------------------------------------
(* The loop keeps its inductive invariant, on either backend.              *)
THEOREM Invariant == Spec => []IInv
  BY InitIInv, NextIInv, PTL DEF Spec

(* Every variable keeps its type, and no strip reads an element behind the *)
(* input.                                                                  *)
THEOREM TypeCorrect == Spec => []TypeOK
<1>1. IInv => TypeOK
  BY DEF IInv
<1> QED
  BY <1>1, Invariant, PTL

(* emitVectorReduceAdd leaves the wrapping sum of the whole input, however *)
(* it was cut into strips and whichever backend generated it.              *)
THEOREM SumOfWholeInput == Spec => []ResultIsReduction
<1>1. IInv => ResultIsReduction
  <2> SUFFICES ASSUME IInv, pc = "end" PROVE accumulator = Reduction
    BY DEF ResultIsReduction
  <2>1. index \in Nat /\ call.n \in Int /\ index >= call.n
    BY InputFacts DEF IInv, TypeOK, StripsInInput
  <2>2. CASE call.n <= 0
    BY <2>1, <2>2 DEF IInv, StripsInInput, SumSoFar, Reduction
  <2>3. CASE call.n > 0
    BY <2>1, <2>3 DEF IInv, SumSoFar, Added, Reduction
  <2> QED
    BY <2>1, <2>2, <2>3
<1> QED
  BY <1>1, Invariant, PTL

(* The scalar carried from strip to strip and the elements still to come   *)
(* make up the result all the time: cutting it to a lane loses nothing.    *)
THEOREM CarryLosesNothing == Spec => []CarriedSum
<1>1. IInv => CarriedSum
  <2> SUFFICES ASSUME IInv, index <= call.n
               PROVE  SignExtend(accumulator + Sum(index, call.n),
                                 call.elementModulus)
                        = SignExtend(call.initial + Sum(0, call.n),
                                     call.elementModulus)
    BY DEF CarriedSum
  <2> QED
    BY InputFacts, StripAdds DEF IInv, TypeOK
<1> QED
  BY <1>1, Invariant, PTL
==============================================================================
