------------------------------ MODULE MCHttpGate ------------------------------
(* Small instances of HttpGate for TLC: prices of up to three characters    *)
(* on the first route, realms that are hard to quote, and intermediaries    *)
(* that fold other challenges into the same field.                          *)
EXTENDS HttpGate, TLC

CONSTANTS r1, r2

\* Whole numbers, points in every place, zeros, signs in good and bad places, and
\* more than 64 and 128 bits hold.
Prices ==
  {<<>>, <<".">>, <<"2">>, <<".", "2">>, <<"2", ".">>, <<"2", "2">>, <<".", ".">>,
   <<"2", ".", ".">>, <<"2", "2", "2">>, <<".", "2", "2">>, <<"0", ".", "2">>,
   <<"+", "2">>, <<"2", "+", ".">>, <<"0", "+", ".">>, <<"-", "2">>, <<"-", "2", ".">>}

Plain == <<C("api")>>
Quoted == <<C("a"), Quote, Comma, C(" "), C("Payment"), C(" "), Backslash>>
Broken == <<C("a"), C("cr"), C("lf")>>
Foreign == <<C("a"), NotAscii>>

Gate(front, realm, price) ==
  [path |-> "clear", front |-> front, realm |-> realm, key |-> "secret", currency |-> "USDC",
   recipient |-> "shop", description |-> Text("tea"),
   amounts |-> (r1 :> price) @@ (r2 :> <<"2">>)]

MCGates ==
  {Gate("axum", Plain, price) : price \in Prices}
  \cup {Gate(front, realm, <<"2", ".", "2">>) :
          front \in {"axum", "interop", "link"}, realm \in {Quoted, Broken, Foreign}}
  \cup {Gate(front, Plain, <<"-">>) : front \in {"interop", "link"}}
  \cup {[Gate("axum", realm, <<"2">>) EXCEPT !.path = "spoilt"] : realm \in {Plain, Quoted}}

\* A challenge of another server, one nobody can decode, one with its method in
\* upper case, and other schemes.
Card == WithSecretKey("other", Quoted, Text("stripe"), <<C("Upper")>>,
                      EncodeRequest([amount |-> <<"2">>]), None, None)
Sent == [Card EXCEPT !.intent = <<C("Upper")>>]
Undecodable == [Card EXCEPT !.request = <<C("junk")>>]
Shouted == [Card EXCEPT !.method = <<C("Upper")>>]
Basic == <<C("Basic"), C(" "), C("realm"), Equals, Quote, C("x"), Comma, C(" "),
           C("Payment"), C(" "), C("y"), Quote>>
Bearer(key) == <<C("Bearer"), C(" "), C(key), Equals, Quote, C("x"), Quote>>
ListSep == <<Comma, C(" ")>>

Via(before, after, fields, first, last) ==
  [before |-> before, after |-> after, fields |-> fields, first |-> first, last |-> last,
   adds |-> [key \in {} |-> None]]

Nothing == Via(<<>>, <<>>, <<>>, <<>>, <<>>)

Clear ==
  {Nothing,
   Via(Basic \o ListSep, ListSep \o <<C("Negotiate")>> \o ListSep \o Bearer("error"),
       <<>>, <<>>, <<>>),
   Via(FormatWwwAuthenticate(Undecodable) \o ListSep,
       ListSep \o FormatWwwAuthenticate(Sent), <<Basic, FormatWwwAuthenticate(Shouted)>>,
       <<None>>, <<Card, None>>)}

\* Behind the challenge: a realm, which it has, and an opaque text, which it has not.
Spoilt ==
  {[Nothing EXCEPT !.after = ListSep \o Basic, !.adds = ("realm" :> <<C("x")>>)],
   [Nothing EXCEPT !.after = ListSep \o Bearer("opaque"), !.adds = ("opaque" :> <<C("x")>>)]}

MCPaths == [clear |-> Clear, spoilt |-> Spoilt]

===============================================================================
