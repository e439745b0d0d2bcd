--------------------------- MODULE PaymentHeaders ---------------------------
(***************************************************************************)
(* The header fields of the Payment scheme                                 *)
(* (rust/src/protocol/core/headers.rs) and the challenges they carry       *)
(* (challenge.rs, types.rs).  A header value is a sequence of characters:  *)
(* C(x) is one that the parsers look at, or a word of several; V(x) is an  *)
(* opaque run of characters that encodes the value x.                      *)
(***************************************************************************)
EXTENDS Integers, SequencesExt

CONSTANT None  \* absence of a value, and a failed conversion

C(x) == <<"c", x>>
V(x) == <<"v", x>>
Text(x) == <<V(x)>>

Quote == C("\"")
Backslash == C("\\")
Comma == C(",")
Equals == C("=")
Whitespace == {C(" "), C("tab")}
LineBreaks == {C("cr"), C("lf")}
NotAscii == C("nonascii")

\* "Payment" in the spelling of the SDK and in another case.
PaymentScheme == {C("Payment"), C("payment")}

\* MethodName::is_valid: nothing but lower-case letters.
IsValidMethod(text) ==
  /\ text # <<>>
  /\ Range(text) \cap ({C("Upper"), NotAscii, Quote, Backslash, Comma, Equals}
                        \cup Whitespace \cup LineBreaks) = {}

\* Names are kept in lower case.
IntentName(text) ==
  [i \in DOMAIN text |-> IF text[i] = C("Upper") THEN C("upper") ELSE text[i]]

\* The state of a scanner behind the last character of s, reached in pieces of 16
\* characters, which keeps TLC's recursion shallow.
Scan(step(_, _), start, s) ==
  LET Behind(from, text) ==
        LET at[k \in 0..Len(text)] == IF k = 0 THEN from ELSE step(at[k - 1], text[k])
        IN at[Len(text)]
      Piece(n) == SubSeq(s, 16 * n - 15, IF 16 * n < Len(s) THEN 16 * n ELSE Len(s))
      state[n \in Nat] ==
        IF n = 0 THEN start
        ELSE CHOOSE end \in {Behind(mid, Piece(n)) : mid \in {state[n - 1]}} : TRUE
  IN state[(Len(s) + 15) \div 16]

-----------------------------------------------------------------------------
(* Challenges. *)

\* The fields are joined in this order with bars between them, absent ones as empty
\* text; a MAC stands for its key and its input.
ComputeChallengeId(key, realm, c) ==
  LET OrEmpty(field) == IF field = None THEN <<>> ELSE field
      bar == <<C("|")>> IN
    Text([key |-> key,
          input |-> realm \o bar \o c.method \o bar \o c.intent \o bar \o c.request
                      \o bar \o OrEmpty(c.expires) \o bar \o OrEmpty(c.digest)
                      \o bar \o OrEmpty(c.opaque)])

\* PaymentChallenge::with_secret_key_full.
WithSecretKey(key, realm, method, intent, request, expires, description) ==
  LET c == [id |-> <<>>, realm |-> realm, method |-> method,
            intent |-> IntentName(intent), request |-> request, expires |-> expires,
            digest |-> None, opaque |-> None, description |-> description] IN
    [c EXCEPT !.id = ComputeChallengeId(key, realm, c)]

\* Mutant: the expiry is not repeated.
ToEchoWithoutExpiry(c) ==
  [id |-> c.id, realm |-> c.realm, method |-> c.method, intent |-> c.intent,
   request |-> c.request, expires |-> None, digest |-> c.digest, opaque |-> c.opaque]

\* What a credential repeats of its challenge.
ToEcho(c) ==
  [id |-> c.id, realm |-> c.realm, method |-> c.method, intent |-> c.intent,
   request |-> c.request, expires |-> c.expires, digest |-> c.digest,
   opaque |-> c.opaque]

\* A text that encodes no time counts as expired.
IsExpired(c, now) ==
  c.expires # None => ~(Len(c.expires) = 1 /\ c.expires[1][1] = "v" /\ c.expires[1][2] > now)

\* base64url and JSON.
EncodeRequest(request) == Text(request)
Decodes(text) == Len(text) = 1 /\ text[1][1] = "v"
DecodeRequest(text) == text[1][2]

-----------------------------------------------------------------------------
(* WWW-Authenticate, the writing side. *)

\* Mutant: the values are written as they are.
EscapeNothing(s) == s

EscapeQuotedValue(s) ==
  FoldLeft(LAMBDA out, a : out \o (IF a \in {Quote, Backslash} THEN <<Backslash, a>>
                                   ELSE <<a>>),
           <<>>, s)

\* The parameters in the order they are written; the description is not sent.
Parameters(c) ==
  SelectSeq(<< <<"id", c.id>>, <<"realm", c.realm>>, <<"method", c.method>>,
               <<"intent", c.intent>>, <<"request", c.request>>,
               <<"expires", c.expires>>, <<"digest", c.digest>>,
               <<"opaque", c.opaque>> >>,
            LAMBDA p : p[2] # None)

WriteParameter(p) ==
  <<C(p[1]), Equals, Quote>> \o EscapeQuotedValue(p[2]) \o <<Quote>>

\* A line break in a value is an error.
FormatWwwAuthenticate(c) ==
  LET params == Parameters(c) IN
    IF \E i \in DOMAIN params : Range(params[i][2]) \cap LineBreaks # {}
    THEN None
    ELSE FoldLeft(LAMBDA out, p : out \o <<Comma, C(" ")>> \o WriteParameter(p),
                  <<C("Payment"), C(" ")>> \o WriteParameter(Head(params)),
                  Tail(params))

-----------------------------------------------------------------------------
(* WWW-Authenticate, the reading side. *)

TrimEnd(s, chars) ==
  LET kept == {i \in DOMAIN s : s[i] \notin chars} IN
    IF kept = {} THEN <<>> ELSE SubSeq(s, 1, Max(kept))

TrimStart(s, chars) ==
  LET kept == {i \in DOMAIN s : s[i] \notin chars} IN
    IF kept = {} THEN <<>> ELSE SubSeq(s, Min(kept), Len(s))

\* The scheme's name at the start of a list element, with a blank after it.
IsPaymentSchemeStart(h, i) ==
  /\ i < Len(h)
  /\ h[i] \in PaymentScheme
  /\ h[i + 1] \in Whitespace
  /\ LET before == TrimEnd(SubSeq(h, 1, i - 1), Whitespace) IN
       before = <<>> \/ Last(before) = Comma

\* Where a challenge starts: quoted text is skipped, escapes in it respected.
SchemeStarts(h) ==
  LET Step(st, i) ==
        CASE st.escaped -> [st EXCEPT !.escaped = FALSE]
          [] st.quoted /\ h[i] = Backslash -> [st EXCEPT !.escaped = TRUE]
          [] h[i] = Quote -> [st EXCEPT !.quoted = ~st.quoted]
          [] ~st.quoted /\ IsPaymentSchemeStart(h, i) ->
               [st EXCEPT !.starts = Append(@, i)]
          [] OTHER -> st
  IN Scan(Step, [quoted |-> FALSE, escaped |-> FALSE, starts |-> <<>>],
          [i \in 1..Len(h) |-> i]).starts

SplitPaymentChallengeValues(h) ==
  LET starts == SchemeStarts(h)
      End(k) == IF k = Len(starts) THEN Len(h) ELSE starts[k + 1] - 1
      Chunk(k) == TrimEnd(TrimEnd(TrimEnd(SubSeq(h, starts[k], End(k)), Whitespace),
                                  {Comma}), Whitespace)
  IN [k \in DOMAIN starts |-> Chunk(k)]

\* The parser of key=value lists, one character at a time.  It is skipping
\* separators, in a key, behind an equals sign, in bare or in quoted text, or
\* behind a backslash in quoted text.  A key that occurs twice is an error.
Insert(st) ==
  IF st.key \in DOMAIN st.params
  THEN [st EXCEPT !.mode = "skip", !.failed = TRUE]
  ELSE [st EXCEPT !.mode = "skip", !.params = (st.key :> st.value) @@ @]

ReadKey(st, a) ==
  CASE a = Equals -> [st EXCEPT !.mode = "start", !.value = <<>>]
    [] a \in Whitespace -> [st EXCEPT !.mode = "skip"]
    [] OTHER -> [st EXCEPT !.key = Append(@, a)]

ReadChar(st, a) ==
  LET separator == a \in Whitespace \cup {Comma}
      Push(mode) == [st EXCEPT !.mode = mode, !.value = Append(@, a)]
  IN CASE st.mode = "skip" ->
            IF separator THEN st ELSE ReadKey([st EXCEPT !.mode = "key", !.key = <<>>], a)
       [] st.mode = "key" -> ReadKey(st, a)
       [] st.mode = "start" /\ a = Quote -> [st EXCEPT !.mode = "quoted"]
       [] st.mode \in {"start", "bare"} -> IF separator THEN Insert(st) ELSE Push("bare")
       [] st.mode = "escape" -> Push("quoted")
       [] a = Quote -> Insert(st)
       [] a = Backslash -> [st EXCEPT !.mode = "escape"]
       [] OTHER -> Push("quoted")

\* The parameters, or None.  Text that ends inside a value ends the value.
ParseAuthParams(s) ==
  LET fresh == [mode |-> "skip", key |-> <<>>, value |-> <<>>,
                params |-> [k \in {} |-> <<>>], failed |-> FALSE]
      st == Scan(ReadChar, fresh, s)
      end == CASE st.mode \in {"bare", "quoted"} -> Insert(st)
               [] st.mode = "escape" -> Insert([st EXCEPT !.value = Append(@, Backslash)])
               [] OTHER -> st
  IN IF end.failed THEN None ELSE end.params

Required == {"id", "realm", "method", "intent", "request"}

\* What follows the scheme's name, or None.
StripPaymentScheme(header) ==
  LET h == TrimStart(header, Whitespace) IN
    IF h # <<>> /\ Head(h) \in PaymentScheme THEN Tail(h) ELSE None

ParseWwwAuthenticate(header) ==
  LET rest == StripPaymentScheme(header)
      params == IF rest \in {None, <<>>} THEN None
                ELSE IF Head(rest) \notin Whitespace THEN None
                ELSE ParseAuthParams(Tail(rest))
      Get(key) == IF <<C(key)>> \in DOMAIN params THEN params[<<C(key)>>] ELSE None
      valid == /\ \A key \in Required : Get(key) # None
               /\ Get("id") # <<>>
               /\ IsValidMethod(Get("method"))
               /\ Decodes(Get("request"))
  IN IF params = None THEN None
     ELSE IF ~valid THEN None
     ELSE [id |-> Get("id"), realm |-> Get("realm"), method |-> Get("method"),
           intent |-> IntentName(Get("intent")), request |-> Get("request"),
           expires |-> Get("expires"), description |-> Get("description"),
           digest |-> Get("digest"), opaque |-> Get("opaque")]

ParseWwwAuthenticateAll(headers) ==
  FoldLeft(LAMBDA out, h :
             out \o [k \in DOMAIN SplitPaymentChallengeValues(h) |->
                       ParseWwwAuthenticate(SplitPaymentChallengeValues(h)[k])],
           <<>>, headers)

-----------------------------------------------------------------------------
(* Authorization: a list of schemes with their tokens.  A token encodes a     *)
(* credential; None is one that is too long or does not decode.               *)

FormatAuthorization(cred) == <<[scheme |-> "Payment", token |-> cred]>>

\* The first element of the scheme, in whatever case, or None.
ExtractPaymentScheme(auth) ==
  LET parts == {i \in DOMAIN auth : auth[i].scheme \in {"Payment", "payment"}} IN
    IF parts = {} THEN None ELSE auth[Min(parts)]

ParseAuthorization(auth) ==
  LET part == ExtractPaymentScheme(auth) IN IF part = None THEN None ELSE part.token

\* Payment-Receipt: base64url of the receipt's JSON.
FormatReceipt(receipt) == Text(receipt)
ParseReceipt(text) == IF Decodes(text) THEN DecodeRequest(text) ELSE None

=============================================================================
