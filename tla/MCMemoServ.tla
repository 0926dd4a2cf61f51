----------------------------- MODULE MCMemoServ -----------------------------
(* Small instances of MemoServ: the addresses of memos are interchangeable. *)
EXTENDS MemoServ, TLC

Symmetry == Permutations(Addr)
=============================================================================
