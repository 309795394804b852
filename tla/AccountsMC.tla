----------------------------- MODULE AccountsMC -----------------------------
(***************************************************************************)
(* Accounts on a small instance: addresses that become two usernames, each *)
(* of which any of two Google users may have.                              *)
(***************************************************************************)
EXTENDS Accounts, TLC

CONSTANTS
  MaxSecret,  \* secrets that restarts go through
  b1, b2, l1, l2, l3, ann, bob, p1, g1, g2, annAtX, bobAtX

TwoBrowsers == {b1, b2}
ThreeLogins == {l1, l2, l3}
TwoNames == {ann, bob}
OnePassword == {p1}
TwoGoogleUsers == {g1, g2}
TwoEmails == {annAtX, bobAtX}
LocalPart == (annAtX :> ann) @@ (bobAtX :> bob)

Symmetry == Permutations(TwoBrowsers) \union Permutations(ThreeLogins)
              \union Permutations(TwoGoogleUsers) \union Permutations(TwoNames)

\* Logins that go through Google; each of them may try again and again.
MaxGoogle == 2

InBounds ==
  Cardinality({r \in Logins : ask[r].browser # None /\ Google(r)}) <= MaxGoogle

\* One restart that changes the secret is enough to tell old cookies from new.
Bounded ==
  /\ \/ \E r \in Logins : PasswordStep(r)
     \/ \E r \in Logins : GoogleStep(r)
     \/ \E r \in Logins : NameTaken(r)
     \/ \E r \in Logins : CallFails(r)
     \/ \E r \in Logins : Respond(r)
     \/ \E r \in Logins : ResponseLost(r)
     \/ \E b \in Browsers : BrowserStep(b)
     \/ (secret < MaxSecret \/ persistent) /\ Restart
  /\ InBounds'

BoundedSpec == AccountsInit /\ [][Bounded]_accountVars
=============================================================================
