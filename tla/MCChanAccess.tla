---------------------------- MODULE MCChanAccess ----------------------------
(* A small instance of ChanAccess: a user who goes by two nicks, and an      *)
(* operator who goes by one of them and by the nick of a services root.      *)
EXTENDS ChanAccess, TLC

CONSTANTS x, o

MCMayUse == x :> {"a", "b"} @@ o :> {"a", "r"}
MCMasks == x :> {"a"} @@ o :> {"r"}
MCOpFlags == "a" :> {} @@ "b" :> {} @@ "r" :> {"root", "oacc"}
MCLevels == {-1, SOP, MFOUNDER}
MCLocks == {<<"+", "n", "-", "k">>, <<"=", "-", "n", "=", "k">>, <<"=", "=", "-", "t">>}
MCFocuses == {{"founder"}, {"nicks"}, {"keys"}, {"ops"}, {"opers"}, {"use"}, {"locks"}, {"rules"}}
MCRegistry == "a" :> 1 @@ "b" :> 2 @@ "r" :> 3
=============================================================================
