------------------------------ MODULE WalletFunds ------------------------------
(* The funds of one wallet as src/src/wallet/wallet-manager.ts normalises them. *)
EXTENDS Usd

Funds == [balance : Nat, reserved : Nat, available : Nat]

\* walletInfo: no more is reserved than there is, and each amount is rounded.
WalletInfo(balance, reserved) ==
  LET held == Min({balance, reserved})
  IN [balance   |-> RoundUsd(balance),
      reserved  |-> RoundUsd(held),
      available |-> RoundUsd(AtLeastZero(balance - held))]

\* The constructor of WalletManager normalises what walletInfo made once more.
Normalized(balance, reserved) ==
  LET info == WalletInfo(balance, reserved) IN WalletInfo(info.balance, info.reserved)
================================================================================
