--------------------------- MODULE MCContextAuth ---------------------------
EXTENDS ContextAuth

Good == [authorize |-> 200, id |-> TRUE, login |-> 302, totp |-> FALSE, provider |-> TRUE,
         verify |-> 302, state |-> "ours", code |-> TRUE, token |-> 200, access |-> TRUE,
         nonce |-> "ours"]
GoodTotp == [Good EXCEPT !.login = 200, !.totp = TRUE]

MCGoodFlows == {Good, GoodTotp}
MCFlows == MCGoodFlows \cup
    {[Good EXCEPT !.state = "other"], [Good EXCEPT !.nonce = "other"],
     [GoodTotp EXCEPT !.verify = 400], [GoodTotp EXCEPT !.provider = FALSE]}
=============================================================================
