--------------------------- MODULE BridgeEndToEnd ---------------------------
(***************************************************************************)
(* The bridge between its two ends: the deposits locked in the vault on    *)
(* Cronos, the signers who attest them, the native module of Bridge, and   *)
(* the releases the vault makes for outbound requests.                     *)
(*                                                                         *)
(* The vault and the signers are not part of the repository; they are      *)
(* modelled from what x/bridge gives them to work with: the identifier     *)
(* their signatures cover, the deadline the chain enforces, the status     *)
(* query that says whether an identifier was processed, and the numbered   *)
(* outbound requests.  All honest signers follow one policy, so it is      *)
(* enough to remember which identifiers they were ever willing to sign; a  *)
(* signature once given can be used at any later time.                     *)
(***************************************************************************)
EXTENDS Bridge

CONSTANTS
    Honest,         \* the addresses whose holders follow the policy
    DepositAmount   \* what each source event locked on Cronos

Event == {a.event : a \in Attestation}

(* Of any two signers of a configuration at least one is honest: the       *)
(* 2-of-3 threshold is chosen for one faulty signer.                       *)
ASSUME SignersAssumption ==
    /\ Honest \subseteq Address
    /\ \A c \in RouteConfig : \A s, t \in c.signers :
          s # t => s \in Honest \/ t \in Honest
    /\ DepositAmount \in [Event -> Nat]

VARIABLES
    locked,     \* the source events whose deposit is final on Cronos
    endorsed,   \* the identifiers honest signers have signed
    collateral, \* the coins in the vault
    released,   \* the nonces of the outbound requests the vault has paid
    paid        \* history: all the coins the vault has paid

cronos == <<locked, endorsed, collateral, released, paid>>
e2eVars == <<vars, cronos>>

E2EInit ==
    /\ Init
    /\ locked = {}
    /\ endorsed = {}
    /\ collateral = 0
    /\ released = {}
    /\ paid = 0

-----------------------------------------------------------------------------
Lock(e) ==
    /\ e \notin locked
    /\ locked' = locked \cup {e}
    /\ collateral' = collateral + DepositAmount[e]
    /\ UNCHANGED <<vars, endorsed, released, paid>>

(* An honest signer signs what it sees locked, and signs a second          *)
(* attestation of the same event only when every earlier one is past its   *)
(* deadline on this chain and AttestationStatus says it was not processed. *)
Endorse(a) ==
    /\ a.event \in locked
    /\ a.amount = DepositAmount[a.event]
    /\ \A id \in endorsed :
          id.event = a.event /\ id # AttestationID(a) =>
              now > id.deadline /\ id \notin processed
    /\ endorsed' = endorsed \cup {AttestationID(a)}
    /\ UNCHANGED <<vars, locked, collateral, released, paid>>

(* Anyone may submit, with the signatures there are.                       *)
Submit(a, sigs) ==
    /\ (\E i \in 1..Len(sigs) : sigs[i] \in Honest) => AttestationID(a) \in endorsed
    /\ SubmitAttestation(a, sigs)
    /\ UNCHANGED cronos

(* The vault pays every outbound request once.                             *)
Release(i) ==
    /\ receipts[i].nonce \notin released
    /\ collateral >= receipts[i].amount
    /\ collateral' = collateral - receipts[i].amount
    /\ released' = released \cup {receipts[i].nonce}
    /\ paid' = paid + receipts[i].amount
    /\ UNCHANGED <<vars, locked, endorsed>>

Redeem ==
    /\ \E routeID \in RouteIDs, sender \in Account, amount \in Amount :
          InitiateOutboundTransfer(routeID, sender, amount)
    /\ UNCHANGED cronos

Govern == (Administer \/ Environment) /\ UNCHANGED cronos

E2ENext ==
    \/ \E e \in Event : Lock(e)
    \/ \E a \in Attestation : Endorse(a)
    \/ \E a \in Attestation, sigs \in Signatures : Submit(a, sigs)
    \/ \E i \in 1..Len(receipts) : Release(i)
    \/ Redeem
    \/ Govern

E2ESpec == E2EInit /\ [][E2ENext]_e2eVars

(* The same system, which may also be exported and started again.          *)
E2EGenesisSpec ==
    E2EInit /\ [][E2ENext \/ (ExportImportGenesis /\ UNCHANGED cronos)]_e2eVars

-----------------------------------------------------------------------------
(* No source event is executed twice, and each for the amount it locked:   *)
(* a second attestation of an event, signed after the first one expired,   *)
(* never finds the first one settled ("Processed source events are         *)
(* immutable and cannot be executed twice").                               *)
EventSettledOnce ==
    \A id \in processed :
        /\ id.event \in locked
        /\ id.amount = DepositAmount[id.event]
        /\ \A other \in processed : other.event = id.event => other = id

(* The coins in the vault cover the native coins in circulation through    *)
(* the bridge together with every redemption that was burned here and not  *)
(* yet paid there                                                          *)
(* ("bridge_authorized_xtc_on_xitcoin <= canonical_xtc_locked_on_cronos"). *)
BackedByCollateral == outstanding + (burned - paid) <= collateral

(* The coins of one event are minted at most once, also when the chain is  *)
(* exported and started again in between.                                  *)
EventMintedOnce ==
    \A id, other \in AttestationIDs :
        /\ settled[id] <= 1
        /\ settled[id] = 1 /\ settled[other] = 1 /\ id.event = other.event => id = other
=============================================================================
