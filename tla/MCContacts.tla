---------------------------- MODULE MCContacts -----------------------------
(* The address book for TLC: two contacts, one with an avatar that cannot be  *)
(* decoded.  Each budget lets one group of outside events happen together.    *)
EXTENDS Contacts, TLC

CONSTANTS p1, p2, good, bad

MCRaw == p1 :> good @@ p2 :> bad

Nothing == [e \in {"sync", "change", "verify", "avatar", "loss", "fail",
                   "edit", "restart"} |-> 0]

MCBudgets == {
    [Nothing EXCEPT !["sync"] = 2, !["loss"] = 1, !["fail"] = 1],
    [Nothing EXCEPT !["sync"] = 1, !["edit"] = 1, !["restart"] = 1],
    [Nothing EXCEPT !["edit"] = 2],
    [Nothing EXCEPT !["avatar"] = 2, !["loss"] = 1, !["fail"] = 1,
                    !["restart"] = 1],
    [Nothing EXCEPT !["change"] = 3, !["verify"] = 2, !["restart"] = 1]}
============================================================================
