----------------------------- MODULE SseReader -----------------------------
(***************************************************************************)
(* Reading server-sent events from a socket: postSse() of the adapters     *)
(* (src/adapters/http.ts) and stream() of the client SDK                   *)
(* (packages/sdk/src/index.ts), which use the same loop.  Bytes arrive in  *)
(* pieces that respect nothing, the socket is closed after any of them.    *)
(*                                                                         *)
(* A symbol of the wire is a line feed, a carriage return, or half of the  *)
(* payload of a frame: a JSON object, the terminator [DONE] or an error    *)
(* frame.  Half a payload does not parse.                                  *)
(***************************************************************************)
EXTENDS Integers, Sequences, SequencesExt

CONSTANTS
    Frames,     \* sequences of frames to send: "error", "done", or any other
    MaxPiece    \* bound: symbols of one read

ASSUME SseReaderAssumption ==
    /\ MaxPiece \in Nat \ {0}
    /\ \A fs \in Frames : fs \in Seq(STRING)

Half(f, n) == [frame |-> f, half |-> n]
NL == Half("nl", 0)
CR == Half("cr", 0)
Blank == {<<NL, NL>>, <<CR, NL, CR, NL>>}

\* A frame on the wire; frames end in a blank line, the last one may not.
Encoded(f, eol) == <<Half(f, 1), Half(f, 2)>> \o eol
OnWire(fs, eol, ended) ==
    LET size == 2 + Len(eol)
        sent == Len(fs) * size - (IF ended THEN 0 ELSE Len(eol))
    IN  [p \in 1 .. sent |-> LET n == (p - 1) \div size IN Encoded(fs[n + 1], eol)[p - n * size]]

VARIABLES
    reader,     \* who reads: "postSse" or "sdk"
    frames,     \* history: the frames of this response
    wire,       \* what the sender has still to send
    buffer,
    out,        \* what was yielded
    socket      \* "open", "closed", then how the reader ended: "ended", "done", "threw"

sseVars == <<reader, frames, wire, buffer, out, socket>>

SseReaderTypeOK ==
    /\ reader \in {"postSse", "sdk"} /\ frames \in Frames
    /\ socket \in {"open", "closed", "ended", "done", "threw"}

SseReaderInit ==
    /\ reader \in {"postSse", "sdk"} /\ frames \in Frames
    /\ \E eol \in Blank, ended \in BOOLEAN : wire = OnWire(frames, eol, ended)
    /\ buffer = <<>> /\ out = <<>> /\ socket = "open"

-----------------------------------------------------------------------------
\* buffer.search(/\r?\n\r?\n/): where a blank line begins, how long it is, or
\* none.
BlankAt(b, i) ==
    {n \in 2..4 : i + n - 1 <= Len(b) /\
        SubSeq(b, i, i + n - 1) \in {<<NL, NL>>, <<CR, NL, NL>>, <<NL, CR, NL>>, <<CR, NL, CR, NL>>}}
Separators(b) == {i \in 1..Len(b) : BlankAt(b, i) # {}}
FirstOf(s) == CHOOSE i \in s : \A j \in s : i <= j

\* The payloads of a raw event that parse: its lines are whole frames, or
\* what is left of one.
Whole(raw) == {i \in 1..(Len(raw) - 1) : raw[i].half = 1 /\ raw[i + 1] = Half(raw[i].frame, 2)}
Payloads(raw) == [k \in 1..Cardinality(Whole(raw)) |->
                    raw[CHOOSE i \in Whole(raw) : Cardinality({j \in Whole(raw) : j < i}) = k - 1].frame]

\* emit() joins the data lines of an event, and a reader of postSse() parses
\* them; parseSseBlock() takes them one by one.  What follows an end is not
\* read: [DONE] (its reader breaks off the adapter's loop, too) or an error.
Ends(f) == f = "done" \/ (reader = "sdk" /\ f = "error")
AfterEnd(f) == IF f = "done" THEN "done" ELSE "threw"

\* Mutant: a read is parsed by itself.
ReadUnbuffered(n) ==
    /\ socket = "open" /\ n <= Len(wire)
    /\ buffer' = SubSeq(wire, 1, n)
    /\ wire' = SubSeq(wire, n + 1, Len(wire))
    /\ UNCHANGED <<reader, frames, out, socket>>

\* reader.read() returns the next bytes, when the buffer holds no event any
\* more.
ReadPiece(n) ==
    /\ socket = "open" /\ Separators(buffer) = {} /\ n <= Len(wire)
    /\ buffer' = buffer \o SubSeq(wire, 1, n)
    /\ wire' = SubSeq(wire, n + 1, Len(wire))
    /\ UNCHANGED <<reader, frames, out, socket>>

Yield(raw, rest) ==
    LET ps == Payloads(raw)
    IN  IF ps # <<>> /\ Ends(ps[1])
        THEN socket' = AfterEnd(ps[1]) /\ buffer' = <<>> /\ UNCHANGED out
        ELSE out' = out \o ps /\ buffer' = rest /\ UNCHANGED socket

\* The inner loop: the event before the first blank line.
NextEvent ==
    /\ socket \in {"open", "closed"} /\ Separators(buffer) # {}
    /\ LET i == FirstOf(Separators(buffer))
           n == CHOOSE m \in BlankAt(buffer, i) : \A k \in BlankAt(buffer, i) : k <= m
       IN  Yield(SubSeq(buffer, 1, i - 1), SubSeq(buffer, i + n, Len(buffer)))
    /\ UNCHANGED <<reader, frames, wire>>

\* The sender ends the response, or is cut off.
SocketCloses ==
    /\ socket = "open"
    /\ socket' = "closed"
    /\ UNCHANGED <<reader, frames, wire, buffer, out>>

\* read() is done: what the buffer still holds is an event, too.
FlushRest ==
    /\ socket = "closed" /\ Separators(buffer) = {}
    /\ LET ps == Payloads(buffer)
       IN  IF ps # <<>> /\ Ends(ps[1])
           THEN socket' = AfterEnd(ps[1]) /\ UNCHANGED out
           ELSE socket' = "ended" /\ out' = out \o ps
    /\ buffer' = <<>>
    /\ UNCHANGED <<reader, frames, wire>>

SseReaderNext ==
    \/ \E n \in 1..MaxPiece : ReadPiece(n)
    \/ NextEvent \/ SocketCloses \/ FlushRest

SseReaderSpec == SseReaderInit /\ [][SseReaderNext]_sseVars

-----------------------------------------------------------------------------
\* The frames that a reader hands out: those before an end.
BeforeEnd == SelectInSeq(frames, Ends)
Content == IF BeforeEnd = 0 THEN frames ELSE SubSeq(frames, 1, BeforeEnd - 1)

\* "chunk boundaries splitting events" (http.ts) are invisible: a reader hands
\* out the frames that were sent, in order, none twice, none made up, none
\* after the end; all of them if the response arrived as a whole, also when
\* no blank line follows its last frame (Q-077).
ChunksInvisible ==
    /\ SseReaderTypeOK
    /\ IsPrefix(out, Content)
    /\ socket \in {"ended", "done", "threw"} /\ wire = <<>> => out = Content
    /\ socket \in {"done", "threw"} => BeforeEnd # 0 /\ out = Content

=============================================================================
