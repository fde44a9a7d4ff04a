---------------------------- MODULE StdioOracle ----------------------------
(***************************************************************************)
(* The newline-delimited stdio server: the bounded line reader             *)
(* (crates/oracle/src/line_reader.rs) and the request loop around it       *)
(* (crates/oracle/src/stdio.rs), against a peer whose bytes arrive in      *)
(* chunks of any size and whose end of the pipe may break.                 *)
(*                                                                         *)
(* Bytes are abstracted to what the code tells apart: newline "n",         *)
(* carriage return "r", a blank "s", the two halves "L" "C" of a two-byte  *)
(* UTF-8 character, and one letter for each request: a line that is, up to *)
(* blanks, exactly that letter is the JSON of the request.                 *)
(***************************************************************************)
EXTENDS Integers, Sequences, SequencesExt

CONSTANTS
    Requests,       \* the letters that encode requests
    Outdated,       \* those of a protocol version other than 1.0
    Privileged,     \* those that encode an unconfirmed sign or deploy
    ConfirmGate,    \* KRUSTY_ORACLE_REQUIRE_CONFIRM is set
    Bytes,          \* bound: the bytes that occur in the input
    MaxInput,       \* bound: the length of the input
    MaxBytes        \* MAX_STDIO_LINE_BYTES

ASSUME OracleAssumption ==
    /\ Bytes \subseteq Requests \cup {"n", "r", "s", "L", "C"}
    /\ Outdated \subseteq Requests /\ Privileged \subseteq Requests
    /\ ConfirmGate \in BOOLEAN
    /\ MaxInput \in Nat /\ MaxBytes \in Nat

VARIABLES
    input,      \* everything the peer will have sent before it closes
    fetched,    \* how much of it the BufReader has received
    consumed,   \* how much of it the line reader has consumed
    buf,        \* read_line_limited: the line so far
    discarded,  \* read_line_limited: the line is over the limit
    pc,         \* where serve() is: read, handle, write, ended, failed
    request,    \* the request being handled
    output      \* the responses written

vars == <<input, fetched, consumed, buf, discarded, pc, request, output>>

NoId == "null"
Response == [id : Requests \cup {NoId},
             kind : {"outcome", "unsupported", "unconfirmed",
                     "too_long", "not_utf8", "not_json"}]

Reply(id, kind) == [id |-> id, kind |-> kind]

Init ==
    /\ input \in BoundedSeq(Bytes, MaxInput)
    /\ fetched = 0 /\ consumed = 0
    /\ buf = <<>> /\ discarded = FALSE
    /\ pc = "read" /\ request = NoId /\ output = <<>>

available == SubSeq(input, consumed + 1, fetched)

-----------------------------------------------------------------------------
(* String::from_utf8: halves come in pairs.                                  *)
Utf8(line) ==
    \A i \in 1..Len(line) :
        /\ line[i] = "L" => i < Len(line) /\ line[i + 1] = "C"
        /\ line[i] = "C" => i > 1 /\ line[i - 1] = "L"

(* trim() and the whitespace JSON allows around a value.                     *)
Trimmed(line) == SelectSeq(line, LAMBDA b : b \notin {"s", "r"})

(* A request line: blanks, one letter, blanks.                               *)
Parses(line) == Len(Trimmed(line)) = 1 /\ Trimmed(line)[1] \in Requests

(* if buf.last() == Some(&b'\r') { buf.pop(); }                              *)
StripCr(line) == IF line # <<>> /\ Last(line) = "r" THEN Front(line) ELSE line

(* require_confirm_if_enabled.                                               *)
Unconfirmed(r) == ConfirmGate /\ r \in Privileged

(* handle_request: the version check, then the confirm gate, then the        *)
(* command's outcome (a result or the gateway's error).                      *)
Verdict(r) ==
    CASE r \in Outdated -> "unsupported"
      [] r \notin Outdated /\ Unconfirmed(r) -> "unconfirmed"
      [] OTHER -> "outcome"

(* Write one response line and go back to reading.                           *)
Respond(response) ==
    /\ output' = Append(output, response)
    /\ pc' = "read" /\ request' = NoId

(* serve(): what happens with a line the reader returned.                    *)
Dispatch(line, too_long) ==
    CASE too_long -> Respond(Reply(NoId, "too_long"))
      [] ~too_long /\ ~Utf8(line) -> Respond(Reply(NoId, "not_utf8"))
      [] ~too_long /\ Utf8(line) /\ Trimmed(line) = <<>> -> UNCHANGED <<pc, request, output>>
      [] ~too_long /\ Utf8(line) /\ Parses(line) ->
            /\ pc' = "handle" /\ request' = Trimmed(line)[1] /\ UNCHANGED output
      [] OTHER -> Respond(Reply(NoId, "not_json"))

-----------------------------------------------------------------------------
(* BufReader::fill_buf: when its buffer is empty it reads again and gets     *)
(* some of what the peer sent, at least a byte.                              *)
Fetch(n) ==
    /\ pc = "read" /\ consumed = fetched
    /\ n > fetched /\ n <= Len(input)
    /\ fetched' = n
    /\ UNCHANGED <<input, consumed, buf, discarded, pc, request, output>>

BugLimitPerChunk(chunk) == Len(chunk) > MaxBytes

(* buf.len().saturating_add(chunk.len()) > max_bytes                         *)
Overflows(chunk) == Len(buf) + Len(chunk) > MaxBytes

BugForgetsOversized(pos) ==
    LET chunk == SubSeq(available, 1, pos - 1) IN
    /\ pc = "read" /\ pos \in 1..Len(available)
    /\ available[pos] = "n" /\ \A i \in 1..(pos - 1) : available[i] # "n"
    /\ consumed' = consumed + pos
    /\ buf' = <<>> /\ discarded' = FALSE
    /\ Dispatch(StripCr(buf \o chunk), Overflows(chunk))
    /\ UNCHANGED <<input, fetched>>

(* The buffer holds a newline: the line ends here.                           *)
EndLine(pos) ==
    LET chunk == SubSeq(available, 1, pos - 1) IN
    /\ pc = "read" /\ pos \in 1..Len(available)
    /\ available[pos] = "n" /\ \A i \in 1..(pos - 1) : available[i] # "n"
    /\ consumed' = consumed + pos
    /\ buf' = <<>> /\ discarded' = FALSE
    /\ Dispatch(StripCr(buf \o chunk), discarded \/ Overflows(chunk))
    /\ UNCHANGED <<input, fetched>>

(* No newline in the buffer: take it all, or start or go on discarding.      *)
TakeChunk ==
    /\ pc = "read" /\ available # <<>>
    /\ \A i \in 1..Len(available) : available[i] # "n"
    /\ consumed' = fetched
    /\ IF discarded \/ Overflows(available)
       THEN discarded' = TRUE /\ UNCHANGED buf
       ELSE buf' = buf \o available /\ UNCHANGED discarded
    /\ UNCHANGED <<input, fetched, pc, request, output>>

(* End of input: the last line needs no newline (and keeps its CR); with     *)
(* nothing read, serve() ends.                                               *)
BugWaitsForNewline ==
    /\ pc = "read" /\ consumed = Len(input)
    /\ buf = <<>> /\ ~discarded
    /\ pc' = "ended"
    /\ UNCHANGED <<input, fetched, consumed, buf, discarded, request, output>>

EndOfInput ==
    /\ pc = "read" /\ consumed = Len(input)
    /\ IF buf = <<>> /\ ~discarded
       THEN pc' = "ended" /\ UNCHANGED <<buf, discarded, request, output>>
       ELSE buf' = <<>> /\ discarded' = FALSE /\ Dispatch(buf, discarded)
    /\ UNCHANGED <<input, fetched, consumed>>

(* handle_request: the gate or the gateway's outcome, then the response.     *)
Handle ==
    /\ pc = "handle"
    /\ Respond(Reply(request, Verdict(request)))
    /\ UNCHANGED <<input, fetched, consumed, buf, discarded>>

(* A read or write error ends serve() with Err.                              *)
PipeBreaks ==
    /\ pc \in {"read", "handle"}
    /\ pc' = "failed"
    /\ UNCHANGED <<input, fetched, consumed, buf, discarded, request, output>>

Serve ==
    \/ \E n \in 1..MaxInput : Fetch(n) \/ EndLine(n)
    \/ TakeChunk \/ EndOfInput \/ Handle

Next == Serve \/ PipeBreaks

Spec == Init /\ [][Next]_vars

(* The peer sends its bytes or closes, and handlers return (every RPC they   *)
(* make is bounded by the transport: see EveryDeploySettles of Deploy).      *)
FairSpec == Spec /\ WF_vars(Serve)

-----------------------------------------------------------------------------
(* The reader stays within its types: it never buffers more of a line than   *)
(* MAX_STDIO_LINE_BYTES, whatever the chunks.                                *)
TypeOK ==
    /\ input \in Seq(Bytes)
    /\ consumed \in 0..fetched /\ fetched \in 0..Len(input)
    /\ buf \in Seq(Bytes \ {"n"}) /\ Len(buf) <= MaxBytes /\ discarded \in BOOLEAN
    /\ pc \in {"read", "handle", "ended", "failed"}
    /\ request \in Requests \cup {NoId}
    /\ output \in Seq(Response)

(* Reference: the lines of the input by the positions of its newlines; each  *)
(* judged as a whole.                                                        *)
Breaks == {0} \cup {i \in 1..Len(input) : input[i] = "n"}

LineEnd(b) ==
    CHOOSE e \in (b + 1)..(Len(input) + 1) :
        /\ e = Len(input) + 1 \/ input[e] = "n"
        /\ \A i \in (b + 1)..(e - 1) : input[i] # "n"

LineAt(b) == SubSeq(input, b + 1, LineEnd(b) - 1)

Expected(b) ==
    LET line == LineAt(b)
        text == IF LineEnd(b) <= Len(input) THEN StripCr(line) ELSE line
    IN  CASE Len(line) > MaxBytes -> <<Reply(NoId, "too_long")>>
          [] Len(line) <= MaxBytes /\ ~Utf8(text) -> <<Reply(NoId, "not_utf8")>>
          [] Len(line) <= MaxBytes /\ Trimmed(text) = <<>> -> <<>>
          [] Len(line) <= MaxBytes /\ Utf8(text) /\ Parses(text) ->
                <<Reply(Trimmed(text)[1], Verdict(Trimmed(text)[1]))>>
          [] OTHER -> <<Reply(NoId, "not_json")>>

ExpectedOutput ==
    FlattenSeq([k \in 1..Len(SetToSortSeq(Breaks, <)) |-> Expected(SetToSortSeq(Breaks, <)[k])])

(* serve() writes the response of each line, in the order of the lines and   *)
(* whatever the chunks: a limit, a CR, a newline or half a character at the  *)
(* edge of a chunk makes no difference, and after an oversized line the      *)
(* reader is back in step with the next.                                     *)
AnswersMatchLines ==
    /\ IsPrefix(output, ExpectedOutput)
    /\ pc = "ended" => output = ExpectedOutput

(* serve() ends: an oversized or undecodable line never stalls it.           *)
ServeEnds == <>(pc \in {"ended", "failed"})
=============================================================================
