------------------------------- MODULE MCAccounts ------------------------------
(* Accounts for TLC: a domain with two levels below it and one beside it; its
   administrator may do all but freeze. *)
EXTENDS Accounts, TLC

CONSTANTS k1, k2, k3, k4

Name(cn, domain) == [cn |-> cn, domain |-> domain]

Top     == <<"top">>
Sub     == <<"sub", "top">>
SubSub  == <<"subsub", "sub", "top">>
Beside  == <<"beside">>

Admin == Name("admin", Top)
User  == Name("user", Top)

MCNames == {Admin, User, Name("admin", Sub), Name("admin", SubSub), Name("admin", Beside)}

Nothing == [partner |-> NoPartner, lost |-> NoRequest]

\* a partner and a request that may be answered from the time 1 on
MCExtras ==
  {Nothing} \cup [partner : {User},
                 lost : {[recoverAddr |-> k, timeStamp |-> 1] : k \in {k3, k4}}]

MCRoot == [Registered({k1}, TRUE, Rights \ {"frozenUser"}, FALSE, FALSE, Nothing)
             EXCEPT !.partner = User]

MCUser == Registered({k2}, FALSE, NoPermissions, FALSE, FALSE, Nothing)

MCGenesisAccounts == (Admin :> MCRoot) @@ (User :> MCUser)

MCGenesisDomains == Top :> "admin"

MCKeySets == {{k2}, {k3}, {k4}}

MCGrants == {{"registerUser", "registerSubdomain"}, {"registerUser", "frozenUser"},
             {"registerDomain"}}

Symmetry == Permutations({k3, k4})
===============================================================================
