-------------------------------- MODULE MCIpc --------------------------------
(* Small instances of Ipc: two connections, a nick and a channel of its founder. *)
EXTENDS Ipc

CONSTANTS one, two, nick, chan

MCFounder == chan :> nick
MCSome == {"URL", "EMAIL", "BADPWS", "REG-TIME", "ISREG"}

Login == {"SYSTEM LOGIN"}
Pass == {"SYSTEM PASS"}
Object == {"OBJECT LOGIN"}
Shown == {"CHPASSKEY", "OBJECT PASS"}
Use == {"QUERY", "LOG", "ALTER", "QUERY AKILL"}
Tools == {"WWW/setpass", "mysid/test"}
MCFocuses ==
    {Focus(<<>>, {}, {}, {}, {one}, {"close"}, "", 3, 0),
     Focus(<<Login \cup Use, Login \cup Pass, Login \cup Pass, Use>>, Tools, {nick}, MCSome, {one}, {}, "", 0, 0),
     Focus(<<Login, Pass, Use, Use>>, {"mysid/test", "nobody"}, {chan}, {"DESC", "ISREG"}, {one}, {}, "", 0, 0),
     Focus(<<Login, Pass, Object, Shown, {"ALTER"}>>, {"WWW/setpass"}, {chan}, {"PASS"}, {one}, {}, "", 0, 2),
     Focus(<<Login, Pass, Object, Shown, Shown \cup {"ALTER"}, {"ALTER"}>>, {"WWW/setpass"}, {nick}, {"PASS", "EMAIL"}, {one}, {}, "", 0, 2),
     Focus(<<Login, Pass, Object, Login, Pass, Object, Shown>>, Tools, {nick}, {}, {one}, {}, nick, 0, 0),
     Focus(<<Login, {"MAKE"}, Pass, {"MAKE"}>>, {"mysid/test"}, {nick}, {}, {one}, {}, "", 0, 1),
     Focus(<<{"QUIT", "HELP"}, {"QUIT", "LOG"}, {"QUIT", "HELP"}>>, {}, {}, {}, {one}, {"cut", "ahead", "close"}, "", 0, 0),
     Focus(<<{"QUIT", "HELP"}>>, {}, {}, {}, {one, two}, {"ahead", "close"}, "", 1, 0)}
=============================================================================
