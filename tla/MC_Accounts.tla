---------------------------- MODULE MC_Accounts ----------------------------
(* The login system on small instances. *)
EXTENDS Accounts, TLC

CONSTANTS a1, a2, c1

Edit(d, w) == [door |-> d, what |-> w]
McEdits == {Edit("admin", "renew"), Edit("admin", "enrol"), Edit("admin", "leave")}
           \cup {e \in {Edit("account", w) : w \in {"renew", "drop", "flip"}}
                       \cup {Edit("web", "renew"), Edit("web", "drop"),
                             Edit("folder", "drop"), Edit("webdav", "renew")} : e.door \in Doors}

Living == {a \in Attempts : attempt[a].pc \notin {"idle", "done"}}

\* Any door and any change from one address, within the retention of a TOTP period;
\* or logins of the administrator from two addresses, for longer than that.
OneAddress == clock <= 2 /\ \A a \in Living : attempt[a].addr = Loopback
TwoAddresses ==
    /\ change[c1].pc = "idle" /\ crashes = 0
    /\ \A a \in Living : attempt[a].door = "admin"
    /\ \A i \in DOMAIN tokens : tokens[i].door = "admin"
    /\ \A k \in Keys : wrong[k] > 0 => k[1] = "admin"

MCSpec == Init /\ [][Next /\ (OneAddress \/ TwoAddresses)']_vars
=============================================================================
