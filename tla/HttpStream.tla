----------------------------- MODULE HttpStream -----------------------------
(***************************************************************************)
(* The metered response stream of the Rust client                          *)
(* (rust/src/client/http_stream.rs): the incremental SSE decoder, the      *)
(* state it feeds (directive, final usage, done), the reqwest stream an    *)
(* application reads with next and ends with ack, and the HTTP transport   *)
(* of the commit.                                                          *)
(*                                                                         *)
(* Bytes are atoms: a field name with its colon, a piece of a value, one   *)
(* half of a two-byte character, CR, LF.  A chunk is any number of atoms,  *)
(* so it may end anywhere.  The server's side is a script of events, which *)
(* Render turns into atoms; what the client makes of the atoms is compared *)
(* with the script.                                                        *)
(***************************************************************************)
EXTENDS Integers, Sequences, SequencesExt

CONSTANTS
  Scripts,           \* what servers may stream: sequences of events
  LineEnds,          \* line terminators in use: <<"LF">>, <<"CR", "LF">>
  Parsed(_),         \* what the JSON in an event's data says
  DefaultCommitUrl,  \* HttpCommitTransport.default_commit_url, or Absent
  Refused,           \* ack returned an error
  Absent

VARIABLES
  script,     \* the events being streamed
  rest,       \* atoms not yet read
  buffer,     \* SseDecoder.buffer
  current,    \* SseDecoder.current
  state,      \* MeteredStreamState
  pending,    \* messages decoded and not yet returned
  seen,       \* messages returned to the application or dropped by ack
  acking,     \* has the application called ack
  outcome,    \* Absent, the amount committed with a receipt, or Refused
  failed,     \* next or ack returned an error
  split       \* a chunk ended inside a character

streamVars == <<script, rest, buffer, current, state, pending, seen, acking, outcome,
               failed, split>>
stream == <<rest, buffer, current, state, pending, failed, split>>

NoEvent == [event |-> Absent, data |-> <<>>, id |-> Absent, retry |-> Absent]

-----------------------------------------------------------------------------
(* The wire (external): how a server writes an event.                      *)

Line(field, value, eol) == <<field>> \o value \o eol

\* An event with a name or without, its data on one or on several lines, closed
\* by a blank line unless the stream ends here.
RenderEvent(e, eol) ==
  (IF e.name = <<>> THEN <<>> ELSE Line("event:", e.name, eol))
    \o FlattenSeq([i \in 1..Len(e.lines) |-> Line(e.field, e.lines[i], eol)])
    \o (IF e.closed THEN eol ELSE <<>>)

Render(events, eol) ==
  FlattenSeq([i \in 1..Len(events) |-> RenderEvent(events[i], eol)])

\* What an event says, and its data as a reader joins the lines.
Said(e) == Parsed(FlattenSeq(e.lines))

Joined(e) ==
  FoldLeft(LAMBDA text, line : IF text = <<>> THEN line ELSE text \o <<"LF">> \o line,
           <<>>, e.lines)

Names ==
  {<<"mpp.metering">>, <<"metering">>, <<"mpp.usage">>, <<"usage">>, <<"done">>}

Dataless(e) == e.field = "data:" => Joined(e) = <<>>

\* What makes the decoder dispatch a frame that has neither a name nor data: an id,
\* or a retry it can parse.
SetsField(e) ==
  /\ e.lines # <<>>
  /\ e.field = "id:" \/ (e.field = "retry:" /\ Last(e.lines) = <<"ms">>)

\* The kinds of events: by name, by data, bare of data and dispatched all the same,
\* or comments and fields of no concern.
IsOfKind(e) ==
  LET ofData(names) == e.field = "data:" /\ e.name \in names
      spoken == ofData({<<>>, <<"message">>}) /\ Joined(e) \notin {<<>>, <<"[DONE]">>} IN
    CASE e.kind = "metering" -> ofData({<<"mpp.metering">>, <<"metering">>})
      [] e.kind = "usage" -> ofData({<<"mpp.usage">>, <<"usage">>})
      [] e.kind = "message" -> spoken
      [] e.kind = "garbled" -> spoken /\ Said(e).kind # "message"
      [] e.kind = "done" ->
           \/ e.name = <<"done">>
           \/ ofData({<<>>, <<"message">>}) /\ Joined(e) = <<"[DONE]">>
      [] e.kind = "bare" ->
           /\ Dataless(e)
           /\ \/ e.name = <<>> /\ SetsField(e)
              \/ e.name \in (Names \ {<<"done">>}) \cup {<<"message">>}
      [] OTHER ->
           \/ e.name = <<>> /\ Dataless(e) /\ ~SetsField(e)
           \/ e.name \notin Names \cup {<<>>, <<"message">>}

\* What is well formed says what its kind stands for.
SaysItsKind(e) ==
  /\ e.kind # "garbled"
  /\ e.kind = "metering" => Said(e).kind = "directive"
  /\ e.kind = "usage" => Said(e).kind = "usage"
  /\ e.kind = "message" => Said(e).kind = "message"

\* A line is free of line ends, and the JSON reader takes those between the lines
\* for white space.
IsEvent(e) ==
  /\ e.name \in Seq(Range(e.name)) /\ e.name # Absent
  /\ e.lines \in Seq(Range(e.lines))
  /\ \A line \in Range(e.lines) \cup {e.name} :
       line \in Seq(Range(line)) /\ Range(line) \cap {"CR", "LF"} = {}
  /\ e.field \notin {"event:", "CR", "LF"}
  /\ IsOfKind(e) /\ Parsed(Joined(e)) = Said(e)
  /\ e.wellformed => SaysItsKind(e)

\* Only the last event may lack its blank line, and the usages of a well-formed
\* stream are of the delivery that was announced before.  The empty text is no JSON.
ScriptsAreStreams ==
  /\ Absent \notin Names
  /\ Parsed(<<>>).kind \notin {"directive", "usage", "message"}
  /\ LineEnds \subseteq {<<"LF">>, <<"CR", "LF">>}
  /\ \A events \in Scripts :
       /\ events \in Seq(Range(events))
       /\ \A i \in DOMAIN events :
            IsEvent(events[i]) /\ (events[i].closed \/ i = Len(events))
       /\ (\A i \in DOMAIN events : events[i].wellformed) =>
            \A i, j \in DOMAIN events :
              j < i /\ events[j].kind = "metering" /\ events[i].kind = "usage" =>
                Said(events[i]).delivery_id = Said(events[j]).delivery_id

ASSUME StreamAssumption == ScriptsAreStreams

-----------------------------------------------------------------------------
(* SseDecoder. *)

\* from_utf8 on one chunk: a character cut at either end is an error.
ValidUtf8(chunk) ==
  /\ chunk # <<>> => Head(chunk) # "tail"
  /\ chunk # <<>> => Last(chunk) # "lead"

\* The decoder at work is a record: the line begun, the event being assembled and
\* the events dispatched so far.
Dispatch(d) ==
  IF d.current = NoEvent THEN d
  ELSE [d EXCEPT !.current = NoEvent, !.events = Append(@, d.current)]

\* Mutant: a second data line replaces the first.
AppendDataReplacing(data, value) == value

AppendData(data, value) ==
  IF data = <<>> THEN value ELSE data \o <<"LF">> \o value

ProcessLine(d, line) ==
  IF line = <<>> THEN Dispatch(d)
  ELSE LET value == Tail(line) IN
       CASE line[1] = "event:" -> [d EXCEPT !.current.event = value]
         [] line[1] = "data:"  -> [d EXCEPT !.current.data = AppendData(@, value)]
         [] line[1] = "id:"    -> [d EXCEPT !.current.id = value]
         [] line[1] = "retry:" -> [d EXCEPT !.current.retry =
                                     IF value = <<"ms">> THEN value ELSE Absent]
         [] OTHER -> d   \* a comment, or a field nobody knows

\* Mutant: the carriage return stays on the line.
ChopNothing(line) == line

Chop(line) ==
  IF line # <<>> /\ Last(line) = "CR" THEN Front(line) ELSE line

\* finish trims every trailing carriage return.
TrimCr(line) ==
  SubSeq(line, 1, Max({0} \cup {i \in 1..Len(line) : line[i] # "CR"}))

\* push_chunk: append, and decode every line that is complete.
PushAtom(d, atom) ==
  IF atom # "LF" THEN [d EXCEPT !.buffer = Append(@, atom)]
  ELSE [ProcessLine(d, Chop(d.buffer)) EXCEPT !.buffer = <<>>]

PushChunk(chunk) ==
  FoldLeft(PushAtom, [buffer |-> buffer, current |-> current, events |-> <<>>], chunk)

\* finish: the last line needs no line feed, the last event no blank line.
Finish ==
  LET d == [buffer |-> <<>>, current |-> current, events |-> <<>>] IN
    Dispatch(IF buffer = <<>> THEN d ELSE ProcessLine(d, TrimCr(buffer)))

-----------------------------------------------------------------------------
(* MeteredStreamState. *)

FreshState == [directive |-> Absent, final_amount |-> Absent, done |-> FALSE]

KindOf(event) ==
  CASE event.event \in {<<"mpp.metering">>, <<"metering">>} -> "metering"
    [] event.event \in {<<"mpp.usage">>, <<"usage">>} -> "usage"
    [] event.event = <<"done">> -> "done"
    [] event.event \in {Absent, <<"message">>} ->
         IF event.data = <<"[DONE]">> THEN "done" ELSE "message"
    [] OTHER -> "other"

\* Mutant: the usage of another delivery is taken for this one's.
UsageMatchesAny(s, usage) == TRUE

UsageMatches(s, usage) ==
  s.directive # Absent => usage.delivery_id = s.directive.delivery_id

\* apply_event on [state, messages, ok]: an error ends the loop over a chunk's
\* events, and the events behind it are gone.
ApplyEvent(a, event) ==
  LET kind == KindOf(event)
      json == Parsed(event.data)
      refuse == [a EXCEPT !.ok = FALSE] IN
    IF ~a.ok THEN a
    ELSE CASE kind = "metering" ->
                IF json.kind # "directive" THEN refuse
                ELSE [a EXCEPT !.state.directive = json]
           [] kind = "usage" ->
                IF json.kind # "usage" \/ ~UsageMatches(a.state, json) THEN refuse
                ELSE [a EXCEPT !.state.final_amount = json.amount]
           [] kind = "message" ->
                IF json.kind # "message" THEN refuse
                ELSE [a EXCEPT !.messages = Append(@, json.text)]
           [] kind = "done" -> [a EXCEPT !.state.done = TRUE]
           [] OTHER -> a

Apply(events) ==
  FoldLeft(ApplyEvent, [state |-> state, messages |-> <<>>, ok |-> TRUE], events)

\* Mutant: the reserved amount is committed whatever the usage says.
AmountForCommitReserved(s) == s.directive.amount

\* directive_for_commit: the final usage replaces the reserved amount.
AmountForCommit(s) ==
  IF s.final_amount # Absent THEN s.final_amount ELSE s.directive.amount

-----------------------------------------------------------------------------
(* ReqwestMeteredSseStream. *)

\* next with nothing pending reads on; ack does the same until next says Absent.
Reading == outcome = Absent /\ pending = <<>> /\ ~state.done

ReadChunk(n) ==
  /\ Reading
  /\ n \in 1..Len(rest)
  /\ LET chunk == SubSeq(rest, 1, n)
         decoded == PushChunk(chunk)
         applied == Apply(decoded.events) IN
       /\ rest' = SubSeq(rest, n + 1, Len(rest))
       /\ IF ValidUtf8(chunk)
          THEN /\ buffer' = decoded.buffer
               /\ current' = decoded.current
               /\ state' = applied.state
               /\ pending' = applied.messages
               /\ failed' = (failed \/ ~applied.ok)
               /\ UNCHANGED split
          ELSE /\ failed' = TRUE
               /\ split' = TRUE
               /\ UNCHANGED <<buffer, current, state, pending>>
       \* an error that ack meets ends it, for ack consumed the stream; one that next
       \* returned before does not
       /\ outcome' = IF acking /\ ~(ValidUtf8(chunk) /\ applied.ok) THEN Refused ELSE Absent
  /\ UNCHANGED <<script, seen, acking>>

\* Mutant: the end of the body does not end the stream.
AtEofForever(applied) == applied.state

\* At the end of the body the stream is done, unless its last event failed.
AtEof(applied) == [applied.state EXCEPT !.done = applied.ok \/ @]

ReadEof ==
  /\ Reading
  /\ rest = <<>>
  /\ LET decoded == Finish
         applied == Apply(decoded.events) IN
       /\ buffer' = <<>>
       /\ current' = decoded.current
       /\ state' = AtEof(applied)
       /\ pending' = applied.messages
       /\ failed' = (failed \/ ~applied.ok)
       /\ outcome' = IF acking /\ ~applied.ok THEN Refused ELSE Absent
  /\ UNCHANGED <<script, rest, seen, acking, split>>

\* A read fails: next returns an error, and the application may call it again.
ReadFails ==
  /\ Reading
  /\ failed' = TRUE
  /\ outcome' = IF acking THEN Refused ELSE Absent
  /\ UNCHANGED <<script, rest, buffer, current, state, pending, seen, acking, split>>

\* next returns a message; while ack drains the stream it is dropped.
PopMessage ==
  /\ outcome = Absent
  /\ pending # <<>>
  /\ ~(acking /\ state.done)
  /\ seen' = Append(seen, Head(pending))
  /\ pending' = Tail(pending)
  /\ UNCHANGED <<script, rest, buffer, current, state, acking, outcome, failed, split>>

\* The application ends the stream, early or not.  A message decoded together
\* with the end of the stream and not yet returned is lost to it.
Ack ==
  /\ ~acking
  /\ acking' = TRUE
  /\ UNCHANGED <<script, stream, seen, outcome>>

\* The HTTP transport: the directive's URL or the default one, and an answer that
\* is a receipt or anything else.
CommitAnswers(s) ==
  IF s.directive.commit_url = Absent /\ DefaultCommitUrl = Absent THEN {Refused}
  ELSE {AmountForCommit(s), Refused}

\* commit_directive refuses a zero amount before it signs anything.
Commit ==
  /\ acking
  /\ state.done
  /\ outcome = Absent
  /\ IF state.directive = Absent THEN outcome' = Refused
     ELSE IF AmountForCommit(state) = 0 THEN outcome' = Refused
     ELSE outcome' \in CommitAnswers(state)
  /\ UNCHANGED <<script, stream, seen, acking>>

StreamInit ==
  /\ script \in Scripts
  /\ rest \in {Render(script, eol) : eol \in LineEnds}
  /\ buffer = <<>>
  /\ current = NoEvent
  /\ state = FreshState
  /\ pending = <<>>
  /\ seen = <<>>
  /\ acking = FALSE
  /\ outcome = Absent
  /\ failed = FALSE
  /\ split = FALSE

Read == (\E n \in 1..Len(rest) : ReadChunk(n)) \/ ReadEof

StreamNext == Read \/ ReadFails \/ PopMessage \/ Ack \/ Commit

StreamSpec == StreamInit /\ [][StreamNext]_streamVars

\* A read returns a chunk, the end or an error, and ack runs to its end.
LiveStreamSpec ==
  /\ StreamSpec
  /\ WF_streamVars(acking /\ Read)
  /\ WF_streamVars(acking /\ PopMessage)
  /\ WF_streamVars(Commit)

-----------------------------------------------------------------------------
(* Properties. *)

\* The messages of a script.
Messages(events) ==
  FoldLeft(LAMBDA texts, e : IF e.kind = "message" THEN Append(texts, Said(e).text)
                             ELSE texts,
           <<>>, events)

\* Up to the first end marker, or all of it.
UpToDone(events) ==
  LET marks == {i \in 1..Len(events) : events[i].kind = "done"} IN
    IF marks = {} THEN events
    ELSE SubSeq(events, 1, CHOOSE i \in marks : \A j \in marks : i <= j)

\* However the bytes are cut into chunks, whichever line ends the server uses and
\* over however many lines it spreads its data, push_chunk and finish yield the
\* server's messages in order: none invented, repeated or reordered, and none
\* before the end marker missing once the stream is done.
MessagesAsSent ==
  ~failed => LET got == seen \o pending IN
    /\ IsPrefix(got, Messages(script))
    /\ state.done => IsPrefix(Messages(UpToDone(script)), got)

\* The amount a script asks for: its last usage, or what its directive reserved.
LastAmount(events, kind) ==
  LET own == {i \in 1..Len(events) : events[i].kind = kind} IN
    IF own = {} THEN Absent ELSE Said(events[Max(own)]).amount

Owed(events) ==
  IF LastAmount(events, "usage") # Absent THEN LastAmount(events, "usage")
  ELSE LastAmount(events, "metering")

\* The client pays what the server's stream says: an ack that returns a receipt
\* committed the last usage of the stream, or the reservation when there was none.
\* What follows the end marker counts only as far as it was read with it.
CommitsWhatWasUsed ==
  ~failed /\ outcome \notin {Absent, Refused} =>
    \E n \in Len(UpToDone(script))..Len(script) : outcome = Owed(SubSeq(script, 1, n))

\* A usage report that follows the directive and is for another delivery is never
\* paid; one that came before the directive is not compared with it.
UsageOfThisDelivery ==
  state.directive # Absent /\ state.final_amount # Absent =>
    \E i, j \in 1..Len(script) :
      /\ script[i].kind = "usage" /\ Said(script[i]).amount = state.final_amount
      /\ script[j].kind = "metering"
      /\ i < j \/ Said(script[i]).delivery_id = Said(script[j]).delivery_id

\* A stream that is well formed fails to decode only if a chunk ends inside a
\* character, for push_chunk checks each chunk for UTF-8 on its own, or if a frame
\* without data, which a reader of event streams ignores, is dispatched and parsed
\* as JSON (dispatch_current, parse_metered_sse_event).
OnlySplitsAndBareFramesFail ==
  [][failed' /\ ~failed /\ Len(rest') < Len(rest) =>
       \/ split'
       \/ \E i \in 1..Len(script) :
            script[i].kind = "bare" \/ ~script[i].wellformed]_streamVars

\* An ack ends: with a receipt or with an error.
AckReturns == acking ~> outcome # Absent

=============================================================================
