----------------------------- MODULE MCChanLink -----------------------------
(* A small instance of ChanLink: one channel and two users, of whom a is     *)
(* the founder but under the rule where only b has access.                   *)
EXTENDS ChanLink, TLC

CONSTANTS a, b

Open == [reg |-> TRUE, guard |-> FALSE, protop |-> FALSE, xfer |-> FALSE, closed |-> FALSE,
         restrict |-> 0, lock |-> "none", access |-> (a :> FOUNDER @@ b :> 0)]

MCRules ==
    { [Open EXCEPT !.reg = FALSE],
      [Open EXCEPT !.guard = TRUE, !.protop = TRUE, !.lock = "k", !.access = a :> 0 @@ b :> AOP],
      [Open EXCEPT !.restrict = SOP, !.access[b] = AOP],
      [Open EXCEPT !.access[b] = -1],
      [Open EXCEPT !.closed = TRUE],
      [Open EXCEPT !.lock = "i", !.xfer = TRUE] }
=============================================================================
