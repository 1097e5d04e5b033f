-------------------------------- MODULE AST --------------------------------
(***************************************************************************)
(* The nodes of include/zcompiler/AST/AST.h, as records with a `kind`.     *)
(* Names, operators and integers are lexemes.  The kind of a vector or     *)
(* matrix statement is its keyword, which stands for its class and for the *)
(* predicate, operation, LMUL or layout stored in the node.                *)
(***************************************************************************)
EXTENDS Sequences, SequencesExt

IntegerExprAST(value) == [kind |-> "integer", value |-> value]
VariableExprAST(name) == [kind |-> "variable", name |-> name]
BinaryExprAST(op, lhs, rhs) ==
  [kind |-> "binary", op |-> op, lhs |-> lhs, rhs |-> rhs]
CallExprAST(callee, args) ==
  [kind |-> "call", callee |-> callee, args |-> args]
LoadExprAST(bufferName, index) ==
  [kind |-> "load", buffer |-> bufferName, index |-> index]

LetStmtAST(name, value) == [kind |-> "let", name |-> name, value |-> value]
AssignStmtAST(name, value) ==
  [kind |-> "assign", name |-> name, value |-> value]
StoreStmtAST(bufferName, index, value) ==
  [kind |-> "store", buffer |-> bufferName, index |-> index, value |-> value]
PrintI32StmtAST(value) == [kind |-> "print_i32", value |-> value]
ReturnStmtAST(value) == [kind |-> "return", value |-> value]
IfStmtAST(condition, thenBody, elseBody) ==
  [kind |-> "if", cond |-> condition, then |-> thenBody, else |-> elseBody]
WhileStmtAST(condition, body) ==
  [kind |-> "while", cond |-> condition, body |-> body]

(* The name of an operand that a statement does not have.                  *)
NoName == ""

ParameterAST(name, type) == [name |-> name, type |-> type]
FunctionAST(name, parameters, returnType, body) ==
  [name |-> name, params |-> parameters, type |-> returnType, body |-> body]

---------------------------------------------------------------------------
(* The fields of the vector and matrix statements, in the order of their   *)
(* constructors.                                                           *)
MatrixPackBStmtAST == <<"output", "input", "cols", "inner">>
MatrixMultiplyStmtAST == <<"output", "lhs", "rhs", "rows", "cols", "inner">>
VectorAddStmtAST == <<"output", "lhs", "rhs", "length">>
VectorStridedLoadStmtAST == <<"output", "input", "stride", "length">>
VectorIndexedLoadStmtAST == <<"output", "input", "indices", "length">>
VectorStridedStoreStmtAST == <<"base", "values", "stride", "length">>
VectorIndexedStoreStmtAST == <<"base", "values", "indices", "length">>
VectorCopyStmtAST == <<"output", "input", "length">>
VectorScaleStmtAST == <<"output", "input", "factor", "length">>
VectorMulStmtAST == <<"output", "lhs", "rhs", "length">>
VectorWidenAddStmtAST == <<"output", "lhs", "rhs", "length">>
VectorReduceAddStmtAST == <<"result", "input", "length">>
VectorSelectStmtAST ==
  <<"output", "lhs", "rhs", "trueValues", "falseValues", "length">>
VectorMaskStmtAST == <<"mask", "lhs", "rhs", "length">>
VectorMaskLogicalStmtAST == <<"result", "lhs", "rhs", "length">>
VectorMaskedBinaryStmtAST ==
  <<"output", "lhs", "rhs", "mask", "passthrough", "length">>
VectorMaskedStoreStmtAST == <<"output", "input", "mask", "length">>
VectorMaskedLoadStmtAST ==
  <<"output", "input", "mask", "passthrough", "length">>
VectorMaskedStridedLoadStmtAST ==
  <<"output", "input", "stride", "mask", "passthrough", "length">>
VectorMaskedIndexedLoadStmtAST ==
  <<"output", "input", "indices", "mask", "passthrough", "length">>
VectorMaskedStridedStoreStmtAST ==
  <<"base", "values", "stride", "mask", "length">>
VectorMaskedIndexedStoreStmtAST ==
  <<"base", "values", "indices", "mask", "length">>

(* A node of such a class.                                                 *)
Statement(keyword, fields, operands) ==
  [f \in {"kind"} \cup ToSet(fields) |->
     IF f = "kind" THEN keyword
                   ELSE operands[SelectInSeq(fields, LAMBDA g : g = f)]]
============================================================================
