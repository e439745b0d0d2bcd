--------------------------- MODULE MCSessionClient ---------------------------
(* A small instance of SessionClient for TLC. *)
EXTENDS SessionClient

CONSTANTS MaxCumulative  \* bound: the highest cumulative a voucher names

\* A payment channel opened in push mode, and a delegation.
MCOpenings ==
  {OpenPayload("push", ChannelId, 3, None, None),
   OpenPayload("pull", None, None, ChannelId, 1)}

\* Every voucher the client may sign in the instance.
MCVouchers ==
  {[channel_id |-> ChannelId, cumulative |-> c, expires_at |-> e,
    signature |-> [signer |-> ClientKey, channel_id |-> ChannelId,
                   cumulative |-> c, expires_at |-> e]] :
     c \in 1..MaxCumulative, e \in Expiries}

=============================================================================
