------------------------------- MODULE Token -------------------------------
(***************************************************************************)
(* include/zcompiler/Lexer/Token.h.  The kind of a token that has only one *)
(* spelling (an operator, a delimiter, a keyword) is that spelling; the    *)
(* other kinds are "identifier", "integer" and "eof".                      *)
(***************************************************************************)
EXTENDS Integers, Sequences

Chars(text) == {SubSeq(text, i, i) : i \in 1 .. Len(text)}

(* Names of delimiters.                                                    *)
LBrace == "{"
RBrace == "}"
Comma == ","
Semicolon == ";"
Singles == { "+", "-", "*", "/", "=", "<", ">", "(", ")", "[", "]", ":",
             LBrace, RBrace, Comma, Semicolon }
Doubles == {"->", "==", "!=", "<=", ">="}

IntegerTypes == {"i8", "i16", "i32", "i64"}

Selects ==
  { "vector_select_lt", "vector_select_le", "vector_select_gt",
    "vector_select_ge", "vector_select_eq", "vector_select_ne",
    "vector_select_ult", "vector_select_ule", "vector_select_ugt",
    "vector_select_uge" }
Masks ==
  { "vector_mask_lt", "vector_mask_le", "vector_mask_gt", "vector_mask_ge",
    "vector_mask_eq", "vector_mask_ne", "vector_mask_ult", "vector_mask_ule",
    "vector_mask_ugt", "vector_mask_uge" }
MaskLogicals == {"vector_mask_and", "vector_mask_or", "vector_mask_xor"}
MaskedBinaries ==
  {"vector_masked_add", "vector_masked_sub", "vector_masked_mul"}
MatrixMultiplies == {"matrix_multiply", "matrix_multiply_packed_b"}
VectorAdds == {"vector_add", "vector_add_m2", "vector_add_m4"}

(* The keywords that begin a vector or matrix statement, and all.          *)
KernelKeywords ==
  Selects \cup Masks \cup MaskLogicals \cup MaskedBinaries
    \cup MatrixMultiplies \cup VectorAdds \cup
  { "matrix_pack_b", "vector_strided_load", "vector_indexed_load",
    "vector_strided_store", "vector_indexed_store", "vector_copy",
    "vector_scale", "vector_mul", "vector_widen_add_i16_i32",
    "vector_reduce_add", "vector_mask_not", "vector_masked_store",
    "vector_masked_load", "vector_masked_strided_load",
    "vector_masked_indexed_load", "vector_masked_strided_store",
    "vector_masked_indexed_store" }

Keywords ==
  IntegerTypes \cup KernelKeywords \cup
  { "func", "let", "return", "if", "else", "while", "ptr", "load", "store",
    "print_i32" }
============================================================================
