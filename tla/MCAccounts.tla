----------------------------- MODULE MCAccounts -----------------------------
(* Instances of Accounts for TLC: an administrator, a guest whose password   *)
(* hash may be outdated, and somebody who may register.                      *)
EXTENDS Accounts, TLC

CONSTANTS boss, ann, bob, am, bm, ap, bp, p1, p2, t1, t2, t3

Account(email, phone, password, old) ==
    [known |-> TRUE, email |-> email, phone |-> phone, password |-> password,
     old |-> old, active |-> TRUE]

TwoKnown ==
    {[u \in User |-> CASE u = boss -> Account(bm, "none", p1, FALSE)
                       [] u = ann  -> Account(am, phone, p1, old)
                       [] OTHER    -> Unknown] : old \in BOOLEAN, phone \in {"none", ap}}
LoggedIn == [t \in Token |-> CASE t = t1 -> boss [] t = t2 -> ann [] OTHER -> "nobody"]

Newcomers == {[email |-> "none", phone |-> bp, password |-> p1],
              [email |-> am, phone |-> bp, password |-> p1]}
AnyPatch == {[email |-> "none"], [phone |-> "none"], [email |-> am, phone |-> bp],
             [password |-> p2], [active |-> FALSE, email |-> am], [active |-> TRUE]}
=============================================================================
