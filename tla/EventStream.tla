----------------------------- MODULE EventStream -----------------------------
(***************************************************************************)
(* The progress stream a follower reads (platform-api/src/stream.rs): the  *)
(* response's bytes come in chunks of any size, are decoded chunk by       *)
(* chunk, and are parsed into progress frames one blank line at a time.    *)
(*                                                                         *)
(* A byte is a line feed, a carriage return, a colon, or a byte of a data  *)
(* line: "run" and "end" make a frame, the latter a terminal one, "bad"    *)
(* one that does not decode, and "lead" and "tail" are the two bytes of a  *)
(* character.  A frame is its data lines; a line is its characters.        *)
(***************************************************************************)
EXTENDS Naturals, SequencesExt

CONSTANTS
  DataByte,   \* bytes of data lines the response may hold
  MaxBytes    \* bound on the response

LF == "lf"
CR == "cr"
Byte == {LF, CR, ":"} \cup DataByte
Char == Byte \cup {"char", "replacement"}

VARIABLES
  response,  \* what Platform sends
  received,  \* how many of its bytes have come
  buffer,    \* SseParser
  frames,    \* handed to the follower, in order
  state      \* open, ended after a terminal frame, closed or broken

vars == <<response, received, buffer, frames, state>>

\* Carriage returns stand before line feeds only, and a character's bytes
\* stand together.
WellFormed(s) ==
  \A i \in DOMAIN s :
    /\ s[i] = CR => i < Len(s) /\ s[i + 1] = LF
    /\ s[i] = "lead" => i < Len(s) /\ s[i + 1] = "tail"
    /\ s[i] = "tail" => i > 1 /\ s[i - 1] = "lead"

Init ==
  /\ response \in {s \in BoundedSeq(Byte, MaxBytes) : WellFormed(s)}
  /\ received = 0
  /\ buffer = << >>
  /\ frames = << >>
  /\ state = "open"

-----------------------------------------------------------------------------
(* Decoding and parsing *)

\* from_utf8_lossy: what is no character becomes the replacement character.
Decode(bytes) ==
  LET CharAt(i) ==
        CASE bytes[i] = "lead" -> IF i < Len(bytes) THEN << >> ELSE <<"replacement">>
          [] bytes[i] = "tail" -> IF i > 1 THEN <<"char">> ELSE <<"replacement">>
          [] OTHER -> <<bytes[i]>>
  IN  FoldLeft(LAMBDA text, i : text \o CharAt(i), << >>, [i \in DOMAIN bytes |-> i])

At(s, i) == IF i \in DOMAIN s THEN s[i] ELSE "none"

\* Mutant of EndsEvent: only bare line feeds frame events.
EndsEventBare(s, i) == At(s, i) = LF /\ At(s, i + 1) = LF

\* A line feed that a blank line follows, whichever way its end is written.
EndsEvent(s, i) ==
  /\ At(s, i) = LF
  /\ \/ At(s, i + 1) = LF
     \/ At(s, i + 1) = CR /\ At(s, i + 2) = LF

Ends(s) == {i \in DOMAIN s : EndsEvent(s, i)}

First(S) == CHOOSE i \in S : \A j \in S : i <= j

\* The lines of s, without their ends; the last one need not have one.
Lines(s) ==
  LET Add(acc, c) == IF c = LF THEN [done |-> Append(acc.done, acc.line), line |-> << >>]
                     ELSE IF c = CR THEN acc
                     ELSE [acc EXCEPT !.line = Append(@, c)]
      all == FoldLeft(Add, [done |-> << >>, line |-> << >>], s)
  IN  Append(all.done, all.line)

IsData(line) == line # << >> /\ line[1] # ":"

DataLines(text) == SelectSeq(Lines(text), IsData)

Has(frame, c) == \E i \in DOMAIN frame : \E j \in DOMAIN frame[i] : frame[i][j] = c

IsFrame(data) == data # << >>

-----------------------------------------------------------------------------
(* next_frame *)

\* Bytes are asked for when the buffer holds no complete event.
Chunk ==
  /\ state = "open" /\ Ends(buffer) = {}
  /\ \E n \in 1..(Len(response) - received) :
       /\ buffer' = buffer \o Decode(SubSeq(response, received + 1, received + n))
       /\ received' = received + n
  /\ UNCHANGED <<response, frames, state>>

\* What is left after the blank line that ends the event at i.
Rest(i) == SubSeq(buffer, i + (IF At(buffer, i + 1) = LF THEN 2 ELSE 3), Len(buffer))

\* The first complete event: a frame, nothing, or an error that ends the stream.
Event ==
  /\ state = "open" /\ Ends(buffer) # {}
  /\ LET i == First(Ends(buffer))
         data == DataLines(SubSeq(buffer, 1, i - 1))
     IN  /\ buffer' = Rest(i)
         /\ \/ ~IsFrame(data) /\ UNCHANGED <<frames, state>>
            \/ IsFrame(data) /\ Has(data, "bad") /\ state' = "broken" /\ UNCHANGED frames
            \/ /\ IsFrame(data) /\ ~Has(data, "bad")
               /\ frames' = Append(frames, data)
               /\ state' = IF Has(data, "end") THEN "ended" ELSE "open"
  /\ UNCHANGED <<response, received>>

\* The response ends, or the connection breaks before it has.
Close ==
  /\ state = "open" /\ Ends(buffer) = {}
  /\ state' = IF received = Len(response) THEN "closed" ELSE "broken"
  /\ UNCHANGED <<response, received, buffer, frames>>

Next == Chunk \/ Event \/ Close

Spec == Init /\ [][Next]_vars

-----------------------------------------------------------------------------
(* Properties *)

\* Every variable stays within its type; a frame has data.
TypeOK ==
  /\ response \in Seq(Byte) /\ Len(response) <= MaxBytes
  /\ received \in 0..Len(response)
  /\ buffer \in Seq(Char)
  /\ frames \in Seq(Seq(Seq(Char) \ {<< >>}) \ {<< >>})
  /\ state \in {"open", "ended", "closed", "broken"}

\* The frames of a text read line by line: lines gather until a blank one,
\* a frame that does not decode stops the reading, and so does a terminal one.
FramesOf(text) ==
  LET Read(acc, line) ==
        IF acc.stop THEN acc
        ELSE IF line # << >>
             THEN [acc EXCEPT !.data = IF IsData(line) THEN Append(@, line) ELSE @]
        ELSE IF acc.data = << >> THEN acc
        ELSE IF Has(acc.data, "bad") THEN [acc EXCEPT !.stop = TRUE]
        ELSE [frames |-> Append(acc.frames, acc.data), data |-> << >>,
              stop |-> Has(acc.data, "end")]
  IN  FoldLeft(Read, [frames |-> << >>, data |-> << >>, stop |-> FALSE],
               Front(Lines(text))).frames

\* The frames but for their characters of two bytes.
Plain(fs) ==
  LET Skip(line) == SelectSeq(line, LAMBDA c : c \notin {"char", "replacement"})
  IN  [i \in DOMAIN fs |-> [j \in DOMAIN fs[i] |-> Skip(fs[i][j])]]

\* However the bytes are chunked and wherever the connection breaks, the
\* follower has been handed exactly the frames of the bytes that came: none is
\* lost, repeated, cut or held back (SseParser: "over arbitrarily chunked
\* bytes").  Only the characters that two chunks share do not survive.
FramesOfTheBytes ==
  Ends(buffer) = {} \/ state # "open" =>
    Plain(frames) = Plain(FramesOf(Decode(SubSeq(response, 1, received))))

=============================================================================
