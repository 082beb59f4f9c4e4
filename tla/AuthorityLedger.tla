-------------------------- MODULE AuthorityLedger --------------------------
(***************************************************************************)
(* What the enforcement spine promises, without tokens, hashes, clocks,    *)
(* actors or scopes: every grant is an account.  It is opened with a cap,  *)
(* may be closed at any time, and each effect is first authorised, while   *)
(* the account is open and under its cap, and redeemed at most once after  *)
(* that.  Closing an account does not recall what it has authorised.       *)
(***************************************************************************)
EXTENDS Naturals, Sequences

CONSTANTS Cap,      \* the caps an account may be opened with
          Unlimited \* the cap of an account without one

VARIABLE account    \* the accounts, in the order they were opened

Opened(c) == Append(account, [cap |-> c, authorised |-> 0, redeemed |-> 0, open |-> TRUE])

Open(c) == account' = Opened(c)

Close(g) == account' = [account EXCEPT ![g].open = FALSE]

\* Any number of accounts may be closed at once.
CloseSome ==
  /\ DOMAIN account' = DOMAIN account
  /\ \A g \in DOMAIN account :
       account'[g] \in {account[g], [account[g] EXCEPT !.open = FALSE]}

Authorise(g) ==
  /\ account[g].open
  /\ account[g].cap # Unlimited => account[g].authorised < account[g].cap
  /\ account' = [account EXCEPT ![g].authorised = @ + 1]

Redeem(g) ==
  /\ account[g].redeemed < account[g].authorised
  /\ account' = [account EXCEPT ![g].redeemed = @ + 1]

\* One step that opens an account, and authorises and redeems a use of it or of another.
Act(c, g) ==
  LET all == Opened(c) IN
  /\ all[g].open
  /\ all[g].cap # Unlimited => all[g].authorised < all[g].cap
  /\ account' = [all EXCEPT ![g].authorised = @ + 1, ![g].redeemed = @ + 1]

Init == account = <<>>

Next ==
  \/ CloseSome
  \/ \E g \in DOMAIN account : Close(g) \/ Authorise(g) \/ Redeem(g)
  \/ \E c \in Cap : Open(c) \/ \E g \in 1 .. Len(account) + 1 : Act(c, g)

Spec == Init /\ [][Next]_account

=============================================================================
