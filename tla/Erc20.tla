------------------------------- MODULE Erc20 --------------------------------
(***************************************************************************)
(* Conversion between an ERC20 token and its coin (x/erc20): tokens are    *)
(* held by the module account and coins are minted for them; coins are     *)
(* burned and tokens handed out again.  It is done by messages, by the     *)
(* ICS20 precompile before it sends a coin away, and by the IBC callbacks  *)
(* when a coin comes back, is refused or times out.                        *)
(*                                                                         *)
(* The token contract is external.  It takes the same fee of every         *)
(* transfer, may refuse one (by returning false or by reverting), and may  *)
(* call the ICS20 precompile while it is being called.  A message that     *)
(* fails leaves no trace, so only messages that start a conversion are     *)
(* steps.  Tokens that users send to the module on their own add to what   *)
(* it holds and are left out.                                              *)
(***************************************************************************)
EXTENDS Integers, SequencesExt, FiniteSetsExt

CONSTANTS
    User,
    Module,       \* the account of the module
    Escrow,       \* the account of the IBC channel
    Amount,       \* amounts of messages
    Funds,        \* the tokens of each user at first
    Fees,         \* fees the contract may take
    MaxPackets,   \* bound: packets in flight
    MaxDepth,     \* bound: nested calls
    MaxStranded   \* bound: coins that failed refunds have left with the module

ASSUME Erc20Assumption ==
    /\ Module \notin User /\ Escrow \notin User \cup {Module}
    /\ Amount \subseteq Nat \ {0} /\ Funds \in Nat /\ Fees \subseteq Nat

Account == User \cup {Module, Escrow}

VARIABLES
    enabled,    \* Params.EnableErc20
    pair,       \* "none", "enabled" or "disabled": the token pair and its maps
    metadata,   \* the bank has metadata of the denomination
    alive,      \* the contract has code
    fee,
    coins,      \* bank balances of the denomination
    tokens,     \* balances of the contract
    packets,    \* in flight: sequence of senders and amounts
    stack,      \* conversions that wait for the contract, the last one on top
    stranded    \* history: the coins of refunds whose conversion failed

ledger == <<coins, tokens, packets>>
config == <<enabled, pair, metadata, alive, fee>>
vars == <<config, ledger, stack, stranded>>

Init ==
    /\ enabled = TRUE /\ pair = "none" /\ metadata = FALSE /\ alive = TRUE
    /\ fee \in Fees
    /\ coins = [x \in Account |-> 0]
    /\ tokens = [x \in Account |-> IF x \in User THEN Funds ELSE 0]
    /\ packets = <<>> /\ stack = <<>> /\ stranded = 0

Move(balances, x, y, n) == [balances EXCEPT ![x] = @ - n, ![y] = @ + n]

-----------------------------------------------------------------------------
(* The registry                                                            *)

(* registerERC20: metadata outlives the pair, and no contract with         *)
(* metadata is registered                                                  *)
RegisterERC20 ==
    /\ stack = <<>> /\ enabled /\ pair = "none" /\ ~metadata /\ alive
    /\ pair' = "enabled" /\ metadata' = TRUE
    /\ UNCHANGED <<enabled, alive, fee, ledger, stack, stranded>>

ToggleConversion ==
    /\ stack = <<>> /\ enabled /\ pair # "none"
    /\ pair' = IF pair = "enabled" THEN "disabled" ELSE "enabled"
    /\ UNCHANGED <<enabled, metadata, alive, fee, ledger, stack, stranded>>

UpdateParams ==
    /\ stack = <<>>
    /\ enabled' = ~enabled
    /\ UNCHANGED <<pair, metadata, alive, fee, ledger, stack, stranded>>

(* The contract destroys itself, where the rules of the fork let it, and   *)
(* its balances go with its storage                                        *)
SelfDestruct ==
    /\ stack = <<>> /\ alive
    /\ alive' = FALSE
    /\ tokens' = [x \in Account |-> 0]
    /\ UNCHANGED <<enabled, pair, metadata, fee, coins, packets, stack, stranded>>

MintingEnabled == enabled /\ pair = "enabled"

(* DeleteTokenPair, when a conversion finds that the contract is gone      *)
DeleteTokenPair ==
    /\ stack = <<>> /\ MintingEnabled /\ ~alive
    /\ pair' = "none"
    /\ UNCHANGED <<enabled, metadata, alive, fee, ledger, stack, stranded>>

-----------------------------------------------------------------------------
(* Starting a conversion                                                   *)

(* A conversion under way: the two accounts of the token transfer, its     *)
(* amount, the balances of tokens and coins that were read before, the     *)
(* ledger to go back to when the conversion fails and when only the call   *)
(* of the contract does, and the amount to send away afterwards            *)
Frame(origin, from, to, n, send, before, called) ==
    [origin |-> origin, from |-> from, to |-> to, n |-> n, send |-> send,
     seen |-> tokens[to], had |-> coins[from], saved |-> before, called |-> called,
     step |-> "call", ok |-> FALSE]

(* MsgConvertERC20                                                         *)
ConvertERC20(u, n) ==
    /\ stack = <<>> /\ MintingEnabled /\ alive
    /\ UNCHANGED <<config, ledger, stranded>>
    /\ stack' = <<Frame("msg", u, Module, n, 0, ledger, ledger)>>

(* ConvertCoinNativeERC20 up to the call of the contract: the coins of the *)
(* account are put in escrow                                               *)
EscrowCoins(origin, u, n, c, flying) ==
    /\ c[u] >= n
    /\ coins' = Move(c, u, Module, n)
    /\ stack' = <<Frame(origin, Module, u, n, 0, ledger, <<coins', tokens, flying>>)>>

(* MsgConvertCoin                                                          *)
ConvertCoin(u, n) ==
    /\ stack = <<>> /\ MintingEnabled /\ alive
    /\ EscrowCoins("msg", u, n, coins, packets)
    /\ UNCHANGED <<config, tokens, packets, stranded>>

(* A packet brings coins back.  They are converted unless the module or    *)
(* the pair is off; a contract that is gone has no balance to read and the *)
(* packet is refused, which changes nothing.                               *)
OnRecvPacket(u, n) ==
    /\ stack = <<>>
    /\ coins[Escrow] - FoldLeft(LAMBDA s, p : s + p[2], 0, packets) >= n
    /\ LET received == Move(coins, Escrow, u, n)
       IN  IF enabled /\ pair = "enabled"
           THEN alive /\ EscrowCoins("recv", u, n, received, packets)
           ELSE coins' = received /\ UNCHANGED stack
    /\ UNCHANGED <<config, tokens, packets, stranded>>

AckSuccess ==
    /\ stack = <<>> /\ packets # <<>>
    /\ packets' = Tail(packets)
    /\ UNCHANGED <<config, coins, tokens, stack, stranded>>

(* OnAcknowledgementPacket with an error, or OnTimeoutPacket: the transfer *)
(* module refunds the sender and ConvertCoinToERC20FromPacket converts.    *)
Refund ==
    /\ stack = <<>> /\ packets # <<>> /\ stranded < MaxStranded
    /\ packets' = Tail(packets)
    /\ LET u == Head(packets)[1]
           n == Head(packets)[2]
           refunded == Move(coins, Escrow, u, n)
       IN  IF pair # "none" /\ enabled /\ alive
           THEN EscrowCoins("refund", u, n, refunded, packets')
           ELSE coins' = refunded /\ UNCHANGED stack
    /\ UNCHANGED <<config, tokens, stranded>>

(* transferWithStateDB of the ICS20 precompile, called by a transaction or *)
(* by the contract while it is called: what the sender lacks in coins is   *)
(* converted first                                                         *)
ICS20Transfer(u, n) ==
    /\ Len(packets) < MaxPackets /\ Len(stack) < MaxDepth
    /\ IF coins[u] >= n
       THEN /\ coins' = Move(coins, u, Escrow, n)
            /\ packets' = Append(packets, <<u, n>>)
            /\ UNCHANGED <<tokens, stack>>
       ELSE /\ MintingEnabled /\ alive
            /\ UNCHANGED ledger
            /\ stack' = Append(stack, Frame("ics20", u, Module, n - coins[u], n, ledger, ledger))
    /\ UNCHANGED <<config, stranded>>

-----------------------------------------------------------------------------
(* The contract and the end of a conversion                                *)

Top == Last(stack)

Below == SubSeq(stack, 1, Len(stack) - 1)

Restore(l) == coins' = l[1] /\ tokens' = l[2] /\ packets' = l[3]

(* The contract transfers the tokens, keeping its fee                      *)
ContractTransfers ==
    /\ stack # <<>> /\ Top.step = "call"
    /\ tokens[Top.from] >= Top.n /\ Top.n >= fee
    /\ tokens' = [tokens EXCEPT ![Top.from] = @ - Top.n, ![Top.to] = @ + Top.n - fee]
    /\ stack' = Append(Below, [Top EXCEPT !.step = "called", !.ok = TRUE])
    /\ UNCHANGED <<config, coins, packets, stranded>>

(* The contract returns false, and what it did so far stays                *)
ContractRefuses ==
    /\ stack # <<>> /\ Top.step = "call"
    /\ stack' = Append(Below, [Top EXCEPT !.step = "called"])
    /\ UNCHANGED <<config, ledger, stranded>>

(* The contract reverts, with all that it did                              *)
ContractReverts ==
    /\ stack # <<>>
    /\ Restore(Top.called)
    /\ stack' = Append(Below, [Top EXCEPT !.step = "called", !.ok = FALSE])
    /\ UNCHANGED <<config, stranded>>

(* Faulty: the balance after the call is not compared.                     *)
AsExpectedUnchecked == Top.ok

(* The answer of the contract, and the balance after the call              *)
AsExpected == Top.ok /\ tokens[Top.to] = Top.seen + Top.n

(* The receiver has the coins it had before, when the minted ones are put  *)
(* aside                                                                   *)
CoinsAsExpected == coins[Top.from] = Top.had

(* The rest of ConvertERC20IntoCoinsForNativeToken, and the transfer of    *)
(* the precompile that called it                                           *)
MintCoins ==
    /\ stack # <<>> /\ Top.step = "called" /\ Top.to = Module
    /\ AsExpected /\ CoinsAsExpected
    /\ LET minted == [coins EXCEPT ![Top.from] = @ + Top.n]
       IN  IF Top.origin = "ics20"
           THEN /\ coins' = Move(minted, Top.from, Escrow, Top.send)
                /\ packets' = Append(packets, <<Top.from, Top.send>>)
           ELSE coins' = minted /\ UNCHANGED packets
    /\ stack' = Below
    /\ UNCHANGED <<config, tokens, stranded>>

(* The rest of ConvertCoinNativeERC20                                      *)
BurnCoins ==
    /\ stack # <<>> /\ Top.step = "called" /\ Top.from = Module /\ AsExpected
    /\ coins' = [coins EXCEPT ![Module] = @ - Top.n]
    /\ stack' = Below
    /\ UNCHANGED <<config, tokens, packets, stranded>>

(* A check after the call of the contract fails.                           *)
Failed ==
    /\ stack # <<>> /\ Top.step = "called"
    /\ ~AsExpected \/ (Top.to = Module /\ ~CoinsAsExpected)

(* Faulty: the transfer of the tokens outlives the failure.                *)
ConversionFailsHalfUndone ==
    /\ Failed
    /\ IF Top.origin = "refund"
       THEN stranded' = stranded + Top.n /\ UNCHANGED ledger
       ELSE coins' = Top.saved[1] /\ packets' = Top.saved[3] /\ UNCHANGED <<tokens, stranded>>
    /\ stack' = Below
    /\ UNCHANGED config

(* Faulty: the escrowed coins of the refund are burned all the same.       *)
ConversionFailsBurning ==
    /\ Failed
    /\ IF Top.origin = "refund"
       THEN /\ coins' = [coins EXCEPT ![Module] = @ - Top.n]
            /\ stranded' = stranded + Top.n
            /\ UNCHANGED <<tokens, packets>>
       ELSE Restore(Top.saved) /\ UNCHANGED stranded
    /\ stack' = Below
    /\ UNCHANGED config

(* A conversion fails.  The message, the packet or the precompile call is  *)
(* undone; the callback of a refund reports success, and nothing is.       *)
ConversionFails ==
    /\ Failed
    /\ IF Top.origin = "refund"
       THEN stranded' = stranded + Top.n /\ UNCHANGED ledger
       ELSE Restore(Top.saved) /\ UNCHANGED stranded
    /\ stack' = Below
    /\ UNCHANGED config

Next ==
    \/ RegisterERC20 \/ ToggleConversion \/ UpdateParams \/ SelfDestruct \/ DeleteTokenPair
    \/ \E u \in User, n \in Amount :
           ConvertERC20(u, n) \/ ConvertCoin(u, n) \/ OnRecvPacket(u, n) \/ ICS20Transfer(u, n)
    \/ AckSuccess \/ Refund
    \/ ContractTransfers \/ ContractRefuses \/ ContractReverts
    \/ MintCoins \/ BurnCoins \/ ConversionFails

Spec == Init /\ [][Next]_vars

-----------------------------------------------------------------------------
(* Properties                                                              *)

Sum(balances, S) == MapThenSumSet(LAMBDA x : balances[x], S)

(* As long as the contract exists, every coin outside the module account,  *)
(* the ones sent to other chains included, is backed by a token that the   *)
(* module account holds: through fees, refusals, failed conversions and    *)
(* calls of the precompile from inside a conversion.                       *)
Backed == alive => Sum(coins, User \cup {Escrow}) <= tokens[Module]

(* Between messages, and when the contract takes no fee, every token the   *)
(* module account holds has its coin, which may be the module's own: no    *)
(* conversion takes tokens without minting or burns without handing out.   *)
NoTokenStranded ==
    (stack = <<>> /\ fee = 0) => tokens[Module] <= Sum(coins, Account)

(* What a refund put in escrow before its conversion failed stays with the *)
(* module account: it is not burned, and no later conversion, whether it   *)
(* succeeds, fails or calls the precompile from inside, takes from it or   *)
(* adds to it.                                                             *)
FailedRefundsKept ==
    coins[Module] =
        stranded + FoldLeft(LAMBDA s, f : IF f.from = Module THEN s + f.n ELSE s, 0, stack)

(* When the conversion after a refund fails, the user has the coins ("the  *)
(* user receives the corresponding bank token from the TokenPair instead", *)
(* OnAcknowledgementPacket and OnTimeoutPacket).                           *)
RefundedInCoins ==
    [][(ConversionFails /\ Top.origin = "refund") =>
            coins'[Top.to] >= Top.saved[1][Top.to] + Top.n]_vars
=============================================================================
