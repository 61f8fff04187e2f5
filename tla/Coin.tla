-------------------------------- MODULE Coin --------------------------------
(***************************************************************************)
(* What anrx_eur_coin promises of its coin, without mints, token accounts, *)
(* owners or wallets: who may issue, how much each address holds and how   *)
(* much is outstanding.  The coin is launched once; its issuer can be      *)
(* dropped but never replaced; what is issued lands at the issuer's empty  *)
(* till; coins leave circulation only at addresses that sign; everything   *)
(* else is a payment.                                                      *)
(***************************************************************************)
EXTENDS Integers

CONSTANTS
    Issuers,      \* who may launch the coin
    Nobody,       \* the issuer of a coin that cannot be issued
    Addresses,    \* where coins are held
    Signing,      \* the addresses that sign
    Till,         \* per issuer, where the coins it issues appear
    Amounts       \* amounts that may be issued, retired or paid at once

VARIABLES
    launched,
    issuer,
    held,         \* coins per address
    outstanding   \* coins in circulation

coinVars == <<launched, issuer, held, outstanding>>

CoinInit ==
    /\ launched = FALSE
    /\ issuer = Nobody
    /\ held = [a \in Addresses |-> 0]
    /\ outstanding = 0

Launch(i) ==
    /\ ~launched
    /\ launched' = TRUE
    /\ issuer' = i
    /\ UNCHANGED <<held, outstanding>>

\* Nothing is ever issued again.
Close ==
    /\ launched
    /\ issuer' = Nobody
    /\ UNCHANGED <<launched, held, outstanding>>

Issue(i, n) ==
    /\ launched /\ issuer = i
    /\ held[Till[i]] = 0
    /\ held' = [held EXCEPT ![Till[i]] = n]
    /\ outstanding' = outstanding + n
    /\ UNCHANGED <<launched, issuer>>

Retire(a, n) ==
    /\ a \in Signing
    /\ n <= held[a]
    /\ held' = [held EXCEPT ![a] = @ - n]
    /\ outstanding' = outstanding - n
    /\ UNCHANGED <<launched, issuer>>

Pay(from, to, n) ==
    /\ from # to
    /\ n <= held[from]
    /\ held' = [held EXCEPT ![from] = @ - n, ![to] = @ + n]
    /\ UNCHANGED <<launched, issuer, outstanding>>

CoinNext ==
    \/ \E i \in Issuers : Launch(i)
    \/ Close
    \/ \E i \in Issuers, n \in Amounts : Issue(i, n)
    \/ \E a \in Addresses, n \in Amounts : Retire(a, n)
    \/ \E from, to \in Addresses, n \in Amounts : Pay(from, to, n)

CoinSpec == CoinInit /\ [][CoinNext]_coinVars

=============================================================================
