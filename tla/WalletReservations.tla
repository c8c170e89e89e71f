-------------------------- MODULE WalletReservations --------------------------
(***************************************************************************)
(* WalletManager (src/src/wallet/wallet-manager.ts): the funds of each     *)
(* wallet and what the plans have reserved of them.  Wallets are found by  *)
(* address, the first that has it; two accounts configured without an      *)
(* address share the empty one.  A call that throws or returns early       *)
(* changes nothing and is no step.                                         *)
(***************************************************************************)
EXTENDS WalletFunds

CONSTANTS NumWallets,    \* wallets configured
          Address,       \* their addresses, trimmed and in lower case
          Plan,          \* plans that reserve
          Configured,    \* amounts the configuration gives a wallet
          Amount         \* amounts reserved and released

Wallet == 1..NumWallets

ASSUME WalletAssumption == /\ NumWallets \in Nat
                           /\ IsFiniteSet(Plan)
                           /\ Configured \subseteq Nat
                           /\ Amount \subseteq Nat

VARIABLES wallets,       \* this.wallets
          reservations,  \* this.reservations, 0 where the map has no entry
          settled,       \* history: what was reserved by configuration
          fractions      \* history: calls that involved a fraction of a cent

walletVars == <<wallets, reservations, settled, fractions>>

WalletsInit ==
  /\ \E balance, reserved \in [Wallet -> Configured], address \in [Wallet -> Address] :
       wallets = [w \in Wallet |-> [address |-> address[w],
                                    funds   |-> Normalized(balance[w], reserved[w])]]
  /\ reservations = [w \in Wallet |-> [p \in Plan |-> 0]]
  /\ settled = [w \in Wallet |-> wallets[w].funds.reserved]
  /\ fractions = 0

-----------------------------------------------------------------------------
(* findMutableWallet *)
Finds(a, w) == /\ wallets[w].address = a
               /\ \A v \in 1..(w - 1) : wallets[v].address # a

Holding(balance, reserved) ==
  LET held == RoundUsd(reserved)
  IN [balance   |-> balance,
      reserved  |-> held,
      available |-> RoundUsd(AtLeastZero(balance - held))]

\* Mutant: what a plan had reserved before is replaced.
ReservedForAnew(w, p, x) == x

ReservedFor(w, p, x) == reservations[w][p] + x

Count(w, p, x) == fractions' = IF WholeCents(x) /\ WholeCents(reservations[w][p])
                               THEN fractions ELSE fractions + 1

\* Mutant: a reservation is held against the balance, not against what is available.
CanReserveOfBalance(w, x) == x > 0 /\ x <= wallets[w].funds.balance

CanReserve(w, x) == x > 0 /\ x <= wallets[w].funds.available

ReserveForPlan(a, p, x) ==
  \E w \in Wallet :
    /\ Finds(a, w)
    /\ CanReserve(w, x)
    /\ reservations' = [reservations EXCEPT ![w][p] = ReservedFor(w, p, x)]
    /\ LET f == wallets[w].funds
       IN wallets' = [wallets EXCEPT ![w].funds = Holding(f.balance, f.reserved + x)]
    /\ Count(w, p, x)
    /\ UNCHANGED settled

Release(w, p, x) ==
  /\ reservations' = [reservations EXCEPT ![w][p] = RoundUsd(reservations[w][p] - x)]
  /\ LET f == wallets[w].funds
     IN wallets' = [wallets EXCEPT ![w].funds = Holding(f.balance, AtLeastZero(f.reserved - x))]
  /\ Count(w, p, x)
  /\ UNCHANGED settled

ReleasedAtMost(w, p, x) == IF x > reservations[w][p] THEN reservations[w][p] ELSE x

ReleasePart(a, p, x) ==
  \E w \in Wallet : /\ Finds(a, w)
                    /\ reservations[w][p] > 0
                    /\ Release(w, p, ReleasedAtMost(w, p, x))

\* releaseReservation without an amount
ReleaseAll(a, p) ==
  \E w \in Wallet : /\ Finds(a, w)
                    /\ reservations[w][p] > 0
                    /\ Release(w, p, reservations[w][p])

WalletsNext == \E a \in Address, p \in Plan :
                 \/ \E x \in Amount : ReserveForPlan(a, p, x) \/ ReleasePart(a, p, x)
                 \/ ReleaseAll(a, p)

WalletsSpec == WalletsInit /\ [][WalletsNext]_walletVars

-----------------------------------------------------------------------------
(* Properties *)

\* Whatever plans reserve, release in parts or twice: the books of a wallet are in
\* whole cents, what is reserved and what is available add up to the balance, and
\* no more is reserved than there is (reserveForPlan, releaseReservation).
FundsAddUp ==
  \A w \in Wallet : LET f == wallets[w].funds IN
    /\ WholeCents(f.reserved)
    /\ f.reserved \in 0..f.balance
    /\ f.available = f.balance - f.reserved

\* What a wallet has reserved is what its plans reserved and the configuration did:
\* exactly, while all amounts are whole cents, and otherwise within a cent for each
\* call that involved a fraction of one, as the map keeps the amount as it came and
\* the wallet rounds it (wallet-manager.ts:167-169).
DriftIsBounded ==
  \A w \in Wallet :
    Magnitude(wallets[w].funds.reserved - settled[w] - SumFunction(reservations[w]))
      <= Cent * fractions
===============================================================================
