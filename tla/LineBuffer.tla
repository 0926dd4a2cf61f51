----------------------------- MODULE LineBuffer -----------------------------
(***************************************************************************)
(* breakLine() of services/server.c: the uplink's byte stream is cut into  *)
(* lines, and a line whose end has not come yet is kept in oldData.  main() *)
(* calls breakLine() on every turn of its loop (module Ipc): with what it  *)
(* read, or with an empty buffer when only an IPC connection was ready.    *)
(***************************************************************************)
EXTENDS Naturals, SequencesExt

CONSTANTS
    MaxLen,         \* MAX_IRC_LINE_LEN
    Lengths,        \* the lengths of the messages the uplink sends
    MaxRead,        \* the size of main()'s buffer
    MaxMessages     \* BOUND: of the runs

ASSUME LineAssumption ==
    /\ MaxLen \in Nat /\ MaxLen > 1
    /\ Lengths \subseteq 1 .. MaxLen - 1
    /\ MaxRead \in Nat \ {0}
    /\ MaxMessages \in Nat

VARIABLES
    wire,           \* the bytes that were sent and not read yet
    oldData,        \* the line that is not terminated yet
    sent,           \* the messages sent, first one first
    parsed,         \* the lines given to parseLine(), first one first
    lost            \* a kept half line was thrown away

lineVars == <<wire, oldData, sent, parsed, lost>>

\* A byte of a message is the message's number and its place in it.
EndOfLine == <<0, 0>>
Byte == (1 .. MaxMessages) \X (1 .. MaxLen)
Line == Seq(Byte)

-----------------------------------------------------------------------------
\* Mutant of Keep: one byte less is kept.
KeepLess(line) == SubSeq(line, 1, IF Len(line) < MaxLen - 1 THEN Len(line) ELSE MaxLen - 2)

\* strncpyzt(): one byte less than the buffer holds.
Keep(line) == SubSeq(line, 1, IF Len(line) < MaxLen THEN Len(line) ELSE MaxLen - 1)

\* One byte of the buffer.  A run of line ends finishes one line; a line that
\* fills the buffer is kept, and what follows is a line of its own.
Scan(s, c) ==
    IF c = EndOfLine THEN
        IF s.ended THEN s
        ELSE [s EXCEPT !.lines = Append(@, s.line), !.line = <<>>, !.ended = TRUE]
    ELSE IF Len(s.line) = MaxLen THEN
        [s EXCEPT !.kept = Keep(s.line), !.line = <<c>>, !.ended = FALSE]
    ELSE
        [s EXCEPT !.line = Append(@, c), !.ended = FALSE]

\* breakLine(buffer): oldData is taken up and cleared first.  The loop over the
\* buffer does not run when the buffer is empty, and keeps nothing then.
BreakLine(buffer) ==
    LET end == FoldLeft(Scan, [line |-> oldData, kept |-> <<>>, lines |-> <<>>, ended |-> FALSE],
                        buffer)
    IN
    /\ parsed' = parsed \o end.lines
    /\ oldData' = IF buffer = <<>> \/ end.ended THEN end.kept ELSE Keep(end.line)
    /\ lost' = (lost \/ (buffer = <<>> /\ oldData # <<>>))
-----------------------------------------------------------------------------
LineInit == wire = <<>> /\ oldData = <<>> /\ sent = <<>> /\ parsed = <<>> /\ lost = FALSE

\* The uplink sends a message and a line end of two bytes.
Send ==
    /\ Len(sent) < MaxMessages
    /\ \E n \in Lengths :
          LET message == [i \in 1 .. n |-> <<Len(sent) + 1, i>>] IN
          /\ sent' = Append(sent, message)
          /\ wire' = wire \o message \o <<EndOfLine, EndOfLine>>
    /\ UNCHANGED <<oldData, parsed, lost>>

\* net_read() gives n bytes, as many as it likes; none when only IPC was ready,
\* and the buffer is as it was zeroed.
Read(n) ==
    /\ n <= Len(wire)
    /\ BreakLine(SubSeq(wire, 1, n))
    /\ wire' = SubSeq(wire, n + 1, Len(wire))
    /\ UNCHANGED sent
-----------------------------------------------------------------------------
(***************************************************************************)
(* Properties.                                                             *)
(***************************************************************************)

\* The lines that are not empty: between the two bytes of a line end the stream
\* may be cut, and parseLine() is then called with an empty line.
NonEmpty(lines) == FoldLeft(LAMBDA some, line : IF line = <<>> THEN some ELSE Append(some, line), <<>>, lines)
Lines == NonEmpty(parsed)

\* However the stream is cut, what is parsed is the messages, whole, once and in
\* the order they were sent, and all of them when nothing is left on the wire,
\* unless a half line was thrown away.
WholeLines == ~lost => IsPrefix(Lines, sent) /\ (wire = <<>> => Lines = sent)

=============================================================================
