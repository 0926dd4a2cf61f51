-------------------------------- MODULE MCNet --------------------------------
(* A small instance of Net: three servers in a row with a user on each end,   *)
(* the two with the same user@host or with another each.                      *)
EXTENDS Net, TLC

CONSTANTS sa, sb, sc, x, y

MCWires == {{sa, sb}, {sb, sc}}
MCRoute == sa :> (sa :> sa @@ sb :> sb @@ sc :> sb) @@ sb :> (sa :> sa @@ sb :> sb @@ sc :> sc)
           @@ sc :> (sa :> sb @@ sb :> sb @@ sc :> sc)
MCHome == x :> sa @@ y :> sc
MCUserHosts == {[u \in Users |-> "h"], [u \in Users |-> IF u = x THEN "h" ELSE "k"]}
=============================================================================
