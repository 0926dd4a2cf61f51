------------------------------- MODULE MCConn -------------------------------
(* A small instance of Conn: a user, and the two connections one link can be *)
(* made with, the second of which may also be a user's.                      *)
EXTENDS Conn, TLC

CONSTANTS usr, s, t

MCPeer == usr :> "" @@ s :> "hub" @@ t :> "hub"
MCAddr == usr :> "A" @@ s :> "B" @@ t :> "B"
MCKMasks == {"m", "all"}
MCHits == "m" :> {t} @@ "all" :> Slots
MCCovers == "m" :> {"m"} @@ "all" :> {"m", "all"}
MCZaps == "z" :> {"A"}
MCNode(kind, name, class, max, for, opts) ==
    [kind |-> kind, name |-> name, class |-> class, max |-> max, for |-> for, opts |-> opts]
Class1 == MCNode("class", "c", "", 1, {}, {})
Class2 == MCNode("class", "c", "", 2, {}, {})
Client1 == MCNode("client", "i", "c", 0, {usr, t}, {})
Listen1 == MCNode("listener", "p", "", 0, {}, {})
Oper1 == MCNode("operator", "o", "c", 0, {usr, t}, {"global"})
Link1 == MCNode("server", "hub", "c", 0, {}, {"connect", "services"})
MCFirst == <<Class1, Oper1, Client1, Link1, Listen1>>
Client2 == MCNode("client", "i2", "c", 0, {usr, t}, {})
MCConfigs == {MCFirst,
              <<Class1, Oper1, Client2, Link1>>,            \* no listener, another client line
              <<Class2, Client1, Link1, Listen1>>}          \* another class, no operators
MCFocuses == {{"resolver", "silence"}, {"opers", "silence"}, {"queues", "silence"}, {"opers", "bans"},
              {"opers", "config"}, {"bans", "config"}, {"resolver", "config"}}
=============================================================================
