------------------------------ MODULE MCChannel ------------------------------
(* A small instance of Channel: three servers in a row, users on two of them.  *)
EXTENDS Channel, TLC

CONSTANTS sa, sb, sc, x, y

MCWires == {{sa, sb}, {sb, sc}}
MCRoute == sa :> (sa :> sa @@ sb :> sb @@ sc :> sb) @@ sb :> (sa :> sa @@ sb :> sb @@ sc :> sc)
           @@ sc :> (sa :> sb @@ sb :> sb @@ sc :> sc)
MCHome == x :> sa @@ y :> sb
MCMaxChannels == x :> 2 @@ y :> 1
MCHits == "b" :> {y} @@ "q" :> {y}
Word(add, mode, arg) == <<<<Change(add, mode, arg)>>, <<>>>>
MCLocks == {[on |-> {"i"}, off |-> {}]}
Ops == {Word(TRUE, "o", y), Word(FALSE, "o", y), Word(TRUE, "v", y), Word(TRUE, "o", x)}
Invites == {Word(TRUE, "i", ""), Word(FALSE, "i", "")}
OnKeys == {Word(TRUE, "k", "k"), Word(FALSE, "k", "k"), Word(TRUE, "l", 1), Word(FALSE, "l", 0)}
OnBans == {Word(add, "b", b) : add \in BOOLEAN, b \in Bans}
MCFocuses ==
    {Focus({"join", "part", "mode", "split"}, 4, 2, {"c"}, {Word(TRUE, "o", y), Word(FALSE, "o", y)}),
     Focus({"join", "part", "kick", "mode"}, 5, 1, {"c"}, {Word(TRUE, "o", y), Word(FALSE, "o", x)}),
     Focus({"join", "services", "mode", "opmode"}, 3, 1, {"c"}, Ops \cup Invites \cup OnKeys),
     Focus({"join", "join0", "mode"}, 4, 1, {"c"}, Invites \cup OnKeys),
     Focus({"join", "mode", "split"}, 4, 1, {"c"}, OnBans),
     Focus({"join", "invite", "mode", "quit"}, 4, 1, {"c", "d"}, Invites),
     Focus({"join", "topic", "split"}, 3, 2, {"c"}, {})}
=============================================================================
