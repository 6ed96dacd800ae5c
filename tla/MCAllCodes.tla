----------------------------- MODULE MCAllCodes -----------------------------
(***************************************************************************)
(* Small instances of AllCodes for TLC.                                    *)
(***************************************************************************)
EXTENDS AllCodes, TLC

ret == [int64 |-> 1, len |-> 1]
nop == [int64 |-> 2, len |-> 1]
\* A longer compound whose other bytes are zero, like the padding of nop.
nop0 == [int64 |-> 2, len |-> 2]
\* A compound of zeros, like the entries of a new array.
zero == [int64 |-> 0, len |-> 3]

Instructions == {ret, nop, nop0, zero}
\* Cells of one instruction, cells of two, and cells without a codon.
NoneOrSome == {{}, {ret}, {ret, nop0}}
============================================================================
