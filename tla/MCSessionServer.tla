--------------------------- MODULE MCSessionServer ---------------------------
(* Small instances of SessionServer for TLC. *)
EXTENDS SessionServer, TLC

CONSTANTS
  VoucherCumulatives, VoucherExpiries  \* what presented vouchers may say

Signed(k, id, c, e) ==
  [channel_id |-> id, cumulative |-> c, expires_at |-> e,
   signature |-> [signer |-> k, channel_id |-> id, cumulative |-> c, expires_at |-> e]]

\* A voucher whose data was changed after signing: the signature covers less.
Altered(k, c, e) == [Signed(k, ChannelId, 1, e) EXCEPT !.cumulative = c]

\* A voucher of another channel with this channel's id written into it.
Rebound(k, c, e) == [Signed(k, OtherChannel, c, e) EXCEPT !.channel_id = ChannelId]

MCVouchers ==
  {Signed(k, ChannelId, c, e) :
     k \in Signers, c \in VoucherCumulatives, e \in VoucherExpiries}
    \cup {Altered(k, 2, e) : k \in Signers, e \in VoucherExpiries}
    \cup {Signed(k, OtherChannel, 2, 2) : k \in Signers}
    \cup {Rebound(k, 2, 2) : k \in Signers}

WorkerSymmetry == Permutations(Workers)

=============================================================================
