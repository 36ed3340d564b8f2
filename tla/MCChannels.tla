----------------------------- MODULE MCChannels -----------------------------
(***************************************************************************)
(* Small instances of Channels' parts: two payers of one static QR code    *)
(* and three confirmations of one scan, two agent operations that fit the  *)
(* limit alone, retries and a changed payload under one key.               *)
(***************************************************************************)
EXTENDS Channels, TLC

MCCodeOf == [s1 |-> "static", s2 |-> "static"]
MCPayerOf == [s1 |-> "bob", s2 |-> "carol"]
MCOwnerOf == [static |-> "alice"]
MCScanOf == [c1 |-> "s1", c2 |-> "s1", c3 |-> "s1"]
MCKeyOf == [c1 |-> "k1", c2 |-> "k1", c3 |-> "k2"]

MCCashAmountOf == [o1 |-> 2, o2 |-> 2]
MCOpOf == [c1 |-> "o1", c2 |-> "o1", c3 |-> "o2"]
MCCashKeyOf == [c1 |-> "k1", c2 |-> "k2", c3 |-> "k1"]

MCFloat100 == (115 :> 114) @@ (200 :> 200)

MCCustomerOf == [r1 |-> "alice", r2 |-> "alice", r3 |-> "alice", r4 |-> "bob"]
MCWalletKeyOf == [r1 |-> "k1", r2 |-> "k1", r3 |-> "k2", r4 |-> "k1"]

MCKindOf == [q1 |-> "qr", q2 |-> "qr", i1 |-> "in", o1 |-> "out", o2 |-> "out"]
MCLedgerKeyOf == [q1 |-> "k1", q2 |-> "k1", i1 |-> "k2", o1 |-> "k3", o2 |-> "k3"]
MCWalletOf == [q1 |-> "alice", q2 |-> "alice", i1 |-> "bob", o1 |-> "alice", o2 |-> "bob"]
MCPayeeOf == [q1 |-> "bob", q2 |-> "bob", i1 |-> "bob", o1 |-> "alice", o2 |-> "alice"]
MCLedgerAmountOf == [q1 |-> 2, q2 |-> 2, i1 |-> 1, o1 |-> 2, o2 |-> 2]
MCOpening == [alice |-> 3, bob |-> 0]

ASSUME ChannelsOK
=============================================================================
