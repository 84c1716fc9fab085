----------------------------- MODULE MCWagering -----------------------------
(***************************************************************************)
(* Small instances of Wagering: one wallet or two, a handful of requests   *)
(* chosen so that the interesting ones collide.                            *)
(***************************************************************************)
EXTENDS WageringRefinement, TLC

Account(p, c, n) == [player |-> p, currency |-> c, initial |-> n]

\* One funded wallet; two wallets of two players; the same with two requests to
\* open a wallet for one slot.
AliceOnly   == [w \in {"w1"} |-> Account("alice", "BRL", 2)]
AliceAndBob == [w \in {"w1", "w2"} |->
                    IF w = "w1" THEN Account("alice", "BRL", 2) ELSE Account("bob", "BRL", 2)]
SlotRace    == [w \in {"w1", "w2", "w3", "w4"} |->
                    CASE w = "w1" -> Account("alice", "BRL", 2)
                      [] w = "w2" -> Account("bob", "BRL", 2)
                      [] w = "w3" -> Account("carol", "EUR", 1)
                      [] w = "w4" -> Account("carol", "EUR", 0)]

Cmd(key, msg, ext, w, kind, amount, ref) ==
    [key |-> key, msg |-> msg,
     body |-> [provider |-> "acme", ext |-> ext, player |-> Accounts[w].player,
               wallet |-> w, round |-> "r1", kind |-> kind, amount |-> amount,
               currency |-> Accounts[w].currency, ref |-> ref]]

\* A bet, two reversals of it and a reversal of one of those, any of which may
\* come before what it refers to.  The wallet could pay both reversals twice over:
\* only the code's own checks stop a second one.
ReversalCommands == { Cmd("k1", None, "e1", "w1", "BET", 1, None),
                      Cmd("k2", None, "e2", "w1", "REFUND", 1, "e1"),
                      Cmd("k3", None, "e3", "w1", "ROLLBACK", 1, "e1"),
                      Cmd("k4", None, "e4", "w1", "ROLLBACK", 1, "e2") }

\* A bet of the whole balance, and its refund.
Bet      == Cmd("k1", None, "e1", "w1", "BET", 2, None)
Refund   == Cmd("k2", None, "e2", "w1", "REFUND", 2, "e1")

\* One bet over both doors, its key reused for another payload and for another
\* wallet, its identity under another key, its message id reused, and a win whose
\* credit may overflow.
BetSqs      == Cmd("k1", "m1", "e1", "w1", "BET", 2, None)
KeyReuse    == Cmd("k1", None, "e1", "w1", "BET", 1, None)
KeyElsewhere == Cmd("k1", None, "e5", "w2", "LOSS", 0, None)
OtherKey    == Cmd("k6", None, "e1", "w1", "BET", 2, None)
MsgReuse    == Cmd("k4", "m1", "e4", "w2", "BET", 1, None)
Win         == Cmd("k7", None, "e7", "w1", "WIN", 2, "e1")

\* More than the wallet has, the wrong currency, the wrong player, an amount the
\* kind forbids, and a bet on a wallet that may not be open yet.
OverBet   == Cmd("k2", None, "e2", "w1", "BET", 3, None)
Foreign   == [OverBet EXCEPT !.body.currency = "EUR"]
Stranger  == [OverBet EXCEPT !.body.player = "bob"]
Malformed == [OverBet EXCEPT !.body.amount = 0]
EarlyBet  == Cmd("k3", None, "e3", "w3", "BET", 1, None)

DoorCommands == {Bet, BetSqs, KeyReuse, KeyElsewhere, OtherKey, MsgReuse, Win,
                 OverBet, Foreign, Stranger, Malformed, EarlyBet}

\* A refund whose bet may come late or never.
ParkCommands == {Bet, Refund}

\* A refund that, once its bet exists, can only overflow the wallet.
BigWin == Cmd("k4", None, "e4", "w1", "WIN", 3, None)
PoisonCommands == {Refund, Bet, BigWin}

\* One key and one identity for two wallets.
TwinA == Cmd("k1", None, "e1", "w1", "BET", 1, None)
TwinB == Cmd("k1", None, "e1", "w2", "BET", 1, None)
TwinCommands == {TwinA, TwinB}

HandlerSymmetry == Permutations(Handlers)
=============================================================================
