------------------------- MODULE MCPaymentChannels -------------------------
(* Session set-up for TLC: channels where the client signs vouchers, delegated
   tokens where the operator does. *)
EXTENDS PaymentChannels, MultiDelegate, TLC

CONSTANTS s1, s2, s3

Config(splits, strategy) ==
  [recipient |-> Payee, mint |-> Mint, splits |-> splits, max_cap |-> 2,
   program_id |-> None, modes |-> {"pull"}, strategy |-> strategy]

Share == <<[recipient |-> Stranger, bps |-> 500]>>

MCConfigs ==
  {Config(<<>>, "clientVoucher"), Config(Share, "clientVoucher"),
   [Config(Share, "clientVoucher") EXCEPT !.modes = {"push", "pull"}],
   [Config(<<>>, "clientVoucher") EXCEPT !.modes = {"push"}],
   Config(<<>>, "operatedVoucher")}

Option(deposit, recipients, program) ==
  [deposit |-> deposit, grace_period |-> None, recipients |-> recipients, salt |-> 0,
   token_program |-> program, program_id |-> None]

MCOpenOptions ==
  {Option(None, None, None), Option(0, None, None),
   Option(None, <<>>, None), Option(3, None, None), Option(None, None, OtherTokenProgram),
   [Option(None, None, None) EXCEPT !.program_id = Stranger]}

MCSetups == {s1, s2, s3}
MCCapOf == (s1 :> 2) @@ (s2 :> 3) @@ (s3 :> 1)
MCNonceOf == (s1 :> 0) @@ (s2 :> 0) @@ (s3 :> 1)

MCInit == Init /\ DelegateInit /\ (config.strategy # "operatedVoucher" => delegate)

MCNext ==
  \/ Next /\ UNCHANGED delegateVars
  \/ config.strategy = "operatedVoucher" /\ DelegateNext /\ UNCHANGED vars

MCSpec == MCInit /\ [][MCNext]_<<vars, delegateVars>>

=============================================================================
