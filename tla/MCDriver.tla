------------------------------ MODULE MCDriver ------------------------------
(***************************************************************************)
(* Every emit action, with sources that each stage accepts or refuses.     *)
(***************************************************************************)
EXTENDS Driver

Sources ==
  [ lexes : {TRUE}, parses : {TRUE}, mlir : BOOLEAN,
    text : {[d \in Dialect |-> d \in ok] : ok \in SUBSET Dialect} ]

Broken == {[lexes |-> l, parses |-> FALSE, mlir |-> TRUE,
            text |-> [d \in Dialect |-> TRUE]] : l \in BOOLEAN}

Invocation(e, f, i, o, s) ==
  [ emit |-> e, flags |-> f, input |-> i, out |-> o, lexes |-> s.lexes,
    parses |-> s.parses, mlir |-> s.mlir, text |-> s.text ]

MCInvocations ==
  {Invocation(e, {}, "readable", o, s) :
     e \in EmitAction, o \in {"stdout", "opens", "fails"},
     s \in Sources \cup Broken}
  \cup
  {Invocation(e, f, i, "opens", s) :
     e \in {"none", "riscv-asm"}, f \in {{"ast"}, {"tokens", "llvm"}},
     i \in {"missing", "unreadable", "readable"}, s \in Broken}
=============================================================================
