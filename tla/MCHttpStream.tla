---------------------------- MODULE MCHttpStream ----------------------------
(* Streams for TLC: a metered answer in several orders and layouts. *)
EXTENDS HttpStream, TLC

Event(kind, name, lines) ==
  [kind |-> kind, name |-> name, field |-> "data:", lines |-> lines,
   closed |-> TRUE, wellformed |-> TRUE]

Open(e) == [e EXCEPT !.closed = FALSE]

Metering == Event("metering", <<"mpp.metering">>, << <<"{d1", "}">> >>)
NoUrl    == Event("metering", <<"metering">>, << <<"{d2">>, <<"}">> >>)
Usage    == Event("usage", <<"mpp.usage">>, << <<"{u1", "}">> >>)
NoUsage  == Event("usage", <<"usage">>, << <<"{u0">> >>)
Foreign  == [Event("usage", <<"usage">>, << <<"{u2">> >>) EXCEPT !.wellformed = FALSE]
Hello    == Event("message", <<>>, << <<"{m1">>, <<"}">> >>)
Accent   == Event("message", <<"message">>, << <<"{m2", "lead", "tail">> >>)
Garbled  == [Event("garbled", <<>>, << <<"{m1">> >>) EXCEPT !.wellformed = FALSE]
DoneMark == Event("done", <<>>, << <<"[DONE]">> >>)
DoneName == Event("done", <<"done">>, << <<>> >>)
Comment  == [Event("other", <<>>, << <<"ping">> >>) EXCEPT !.field = ":"]
Retry    == [Event("other", <<"hint">>, << <<"ms">> >>) EXCEPT !.field = "retry:"]
Id       == [Event("other", <<"hint">>, << <<"7">> >>) EXCEPT !.field = "id:"]
Soon     == [Event("other", <<>>, << <<"soon">> >>) EXCEPT !.field = "retry:"]
BareId   == [Event("bare", <<>>, << <<"7">> >>) EXCEPT !.field = "id:"]
BareTry  == [Event("bare", <<>>, << <<"ms">> >>) EXCEPT !.field = "retry:"]
BareName == Event("bare", <<"usage">>, <<>>)

MCScripts ==
  {<<Metering, Hello, Accent, Usage, DoneMark>>,   \* the usual order
   <<Metering, Comment, Hello, Open(Usage)>>,      \* ends without a blank line
   <<NoUrl, Hello, DoneName, Usage>>,              \* usage behind the end marker
   <<Usage, Retry, Metering, Hello>>,              \* usage before its directive
   <<Metering, Foreign, Hello, DoneMark>>,         \* another delivery's usage
   <<Metering, Garbled, Hello, Usage>>,            \* a message that is not JSON
   <<Metering, Id, NoUsage, DoneMark>>,            \* nothing was used
   <<Hello, DoneMark, Hello>>,                     \* not metered at all
   <<Metering, BareId, Hello, DoneMark>>,          \* frames without data
   <<Metering, Soon, Hello, BareTry>>,
   <<Metering, BareName, Usage, DoneMark>>}

MCLineEnds == {<<"LF">>, <<"CR", "LF">>}

Json ==
  (<<"{d1", "}">> :> [kind |-> "directive", delivery_id |-> "d1", amount |-> 2,
                      commit_url |-> "/commit"])
  @@ (<<"{d2", "}">> :> [kind |-> "directive", delivery_id |-> "d1", amount |-> 2,
                         commit_url |-> Absent])
  @@ (<<"{u1", "}">> :> [kind |-> "usage", delivery_id |-> "d1", amount |-> 1])
  @@ (<<"{u0">> :> [kind |-> "usage", delivery_id |-> "d1", amount |-> 0])
  @@ (<<"{u2">> :> [kind |-> "usage", delivery_id |-> "d2", amount |-> 3])
  @@ (<<"{m1", "}">> :> [kind |-> "message", text |-> "hello"])
  @@ (<<"{m2", "lead", "tail">> :> [kind |-> "message", text |-> "accent"])

\* JSON takes a line feed between two tokens for white space.
MCParsed(data) ==
  LET text == SelectSeq(data, LAMBDA a : a # "LF") IN
    IF text \in DOMAIN Json THEN Json[text] ELSE [kind |-> "none"]

=============================================================================
