-------------------------------- MODULE Accounts -------------------------------
(***************************************************************************)
(* The tree of accounts: what the account interpreter                      *)
(* (interpreter/accountInterpreter) and the lost interpreter               *)
(* (interpreter/lostInterpreter) let a transaction do to accounts, domains *)
(* and permissions.                                                        *)
(*                                                                         *)
(* An action is one ApplyTransaction: it verifies first and then changes   *)
(* the state.  Transactions come in any order; none of them carries a      *)
(* nonce that is looked at, so one may come again.  Time is the node's     *)
(* clock and the timestamp of the block that is executed.  Gas and         *)
(* receipts are in Execution, the state database is external.              *)
(***************************************************************************)
EXTENDS Integers, SequencesExt

CONSTANTS
  Names,            \* the accounts' names, CN@Domain
  Addresses,        \* signers
  NoPartner,        \* no partner, or one with an empty CN
  NoRequest,        \* no LostStore
  GenesisAccounts,  \* the accounts of the first block
  GenesisDomains,   \* its domains, each with its administrator's CN
  KeySets,          \* the sets of addresses that a registration may carry
  Grants,           \* the permissions that a transaction may carry
  Extras,           \* the XXX maps that a registration may carry
  LostFoundInterval,
  MaxTime,          \* bound: the clock runs from 0 to MaxTime
  MaxTxs            \* bound: transactions applied

Rights == {"registerUser", "updateUser", "frozenUser", "registerDomain", "registerSubdomain"}

NoPermissions == {"nil"}  \* Permissions is nil

\* the rights that IsValidPermission compares
Compared == Rights \ {"registerDomain"}

Domains == {n.domain : n \in Names}

Requests == [recoverAddr : Addresses, timeStamp : Nat]

Account == [addresses : SUBSET Addresses,
            admin     : BOOLEAN,
            perms     : (SUBSET Rights) \cup {NoPermissions},
            deploy    : BOOLEAN,
            frozen    : BOOLEAN,
            partner   : Names \cup {NoPartner},
            lost      : Requests \cup {NoRequest},
            nonce     : Nat]

\* a domain is the sequence of its labels, <<"">> the empty domain
ASSUME NamesAssumption ==
  /\ \A n \in Names : n.domain \in Seq(STRING)
  /\ \A m, n \in Names : m.cn = n.cn /\ m.domain = n.domain => m = n
  /\ NoPartner \notin Names /\ NoRequest \notin Requests
  /\ KeySets \subseteq SUBSET Addresses /\ Grants \subseteq SUBSET Rights
  /\ Extras \subseteq [partner : Names \cup {NoPartner}, lost : Requests \cup {NoRequest}]

ASSUME GenesisAssumption ==
  /\ DOMAIN GenesisAccounts \subseteq Names
  /\ GenesisAccounts \in [DOMAIN GenesisAccounts -> Account]
  /\ \A n \in DOMAIN GenesisAccounts :
       /\ GenesisAccounts[n].admin <=> GenesisAccounts[n].perms # NoPermissions
       /\ GenesisAccounts[n].lost = NoRequest
  /\ \A m, n \in DOMAIN GenesisAccounts :
       m # n => GenesisAccounts[m].addresses \cap GenesisAccounts[n].addresses = {}
  /\ DOMAIN GenesisDomains \subseteq Domains
  /\ \A d \in DOMAIN GenesisDomains : \E n \in DOMAIN GenesisAccounts :
       n.domain = d /\ n.cn = GenesisDomains[d] /\ GenesisAccounts[n].admin

ASSUME BoundsAssumption == LostFoundInterval \in Nat /\ MaxTime \in Nat /\ MaxTxs \in Nat

VARIABLES
  accounts,   \* the accounts in the state, by name
  domains,    \* the registered domains, each with its administrator's CN
  now,        \* dateutil.CurrentTime on this node
  header,     \* the timestamp of the block that is executed
  txs,        \* transactions applied
  asked,      \* the partners' requests since the last reset (not in the code)
  carried,    \* the request that the registration carried, until it is replaced or
              \* reset (not in the code)
  recovered   \* the addresses that came by a recovery (not in the code)

vars == <<accounts, domains, now, header, txs, asked, carried, recovered>>

TypeOK ==
  /\ DOMAIN accounts \subseteq Names
  /\ accounts \in [DOMAIN accounts -> Account]
  /\ DOMAIN domains \subseteq Domains
  /\ now \in 0..MaxTime
  /\ header \in 0..now
  /\ txs \in 0..MaxTxs
  /\ asked \in [Names -> SUBSET (Addresses \X Nat)]
  /\ carried \in [Names -> Requests \cup {NoRequest}]
  /\ recovered \subseteq Addresses

Init ==
  /\ accounts = GenesisAccounts
  /\ domains = GenesisDomains
  /\ now = 0
  /\ header = 0
  /\ txs = 0
  /\ asked = [n \in Names |-> {}]
  /\ carried = [n \in Names |-> NoRequest]
  /\ recovered = {}

-------------------------------------------------------------------------------
(***************************************************************************)
(* The state database                                                      *)
(***************************************************************************)
Exists(n) == n \in DOMAIN accounts

AddressExist(addr) == \E n \in DOMAIN accounts : addr \in accounts[n].addresses

CreateAccount(n, account) ==
  [m \in DOMAIN accounts \cup {n} |-> IF m = n THEN account ELSE accounts[m]]

\* Applied: the sender's nonce is counted, whatever the transaction's is
Applied(from, after) ==
  /\ txs' = txs + 1
  /\ accounts' = [after EXCEPT ![from].nonce = @ + 1]
  /\ UNCHANGED <<now, header>>

(***************************************************************************)
(* What VerifyTx asks of every transaction, and checkSigner: one of the    *)
(* account's addresses has signed.                                         *)
(***************************************************************************)
Acting(from) == Exists(from) /\ ~ accounts[from].frozen

Signed(from) == Acting(from) /\ \E signer \in Addresses : signer \in accounts[from].addresses

\* AuthorizedRegisterUser, AuthorizedRegisterDomain
Authorized(from, right) ==
  accounts[from].perms # NoPermissions /\ right \in accounts[from].perms

\* HasSuffix(subdomain, "." + domain)
SubDomains == {pair \in Domains \X Domains : IsStrictSuffix(pair[1], pair[2])}

isSubDomain(domain, subdomain) == <<domain, subdomain>> \in SubDomains

\* mutant: one of the rights is not compared
IsValidPermissionButFrozen(from, to) == to \cap (Compared \ {"frozenUser"}) \subseteq from

IsValidPermission(from, to) == to \cap Compared \subseteq from

-------------------------------------------------------------------------------
(***************************************************************************)
(* Registration.  Below a domainless account there are only domainless     *)
(* ones; balance and nonce must be zero.                                   *)
(***************************************************************************)
verifyAccountFormat(from, n) == (from.domain = <<"">>) <=> (n.domain = <<"">>)

\* mutant: only the first block's addresses are looked at
checkAddressStale(addresses) ==
  \A addr \in addresses, n \in DOMAIN GenesisAccounts :
    addr \notin GenesisAccounts[n].addresses

checkAddress(addresses) == \A addr \in addresses : ~ AddressExist(addr)

\* the transaction's AccountStore as it was decoded: nothing looks at its XXX map
Registered(addresses, admin, perms, deploy, frozen, extra) ==
  [addresses |-> addresses, admin |-> admin, perms |-> perms, deploy |-> deploy,
   frozen |-> frozen, partner |-> extra.partner, lost |-> extra.lost, nonce |-> 0]

(***************************************************************************)
(* A plain user in one's own domain or below it, an administrator only     *)
(* below it, with rights that are valid and without registerDomain.        *)
(***************************************************************************)
\* mutant: an administrator may come without permissions
RegistrableWithoutPermissions(from, n, admin, perms) ==
  /\ perms = NoPermissions
  /\ IF admin THEN isSubDomain(from.domain, n.domain) /\ Authorized(from, "registerSubdomain")
              ELSE n.domain = from.domain \/ isSubDomain(from.domain, n.domain)

Registrable(from, n, admin, perms) ==
  \/ /\ ~ admin /\ perms = NoPermissions
     /\ n.domain = from.domain \/ isSubDomain(from.domain, n.domain)
  \/ /\ admin /\ isSubDomain(from.domain, n.domain)
     /\ Authorized(from, "registerSubdomain")
     /\ perms # NoPermissions
     /\ IsValidPermission(accounts[from].perms, perms)
     /\ "registerDomain" \notin perms

\* mutant: the account may exist
VerifyAccountRegisterAgain(from, n, addresses, admin, perms, deploy) ==
  /\ verifyAccountFormat(from, n)
  /\ checkAddress(addresses)
  /\ Authorized(from, "registerUser")
  /\ deploy => accounts[from].deploy
  /\ Registrable(from, n, admin, perms)

VerifyAccountRegister(from, n, addresses, admin, perms, deploy) ==
  /\ verifyAccountFormat(from, n)
  /\ checkAddress(addresses)
  /\ Authorized(from, "registerUser")
  /\ deploy => accounts[from].deploy
  /\ Registrable(from, n, admin, perms)
  /\ ~ Exists(n)

RegisterAccount(from, n, addresses, admin, perms, deploy, frozen, extra) ==
  /\ Signed(from)
  /\ VerifyAccountRegister(from, n, addresses, admin, perms, deploy)
  /\ Applied(from,
             CreateAccount(n, Registered(addresses, admin, perms, deploy, frozen, extra)))
  /\ carried' = [carried EXCEPT ![n] = extra.lost]
  /\ UNCHANGED <<domains, asked, recovered>>

(***************************************************************************)
(* RegisterDomain creates the domain and its administrator, who gets four  *)
(* rights whatever the sender has.  It does not ask whether there is an    *)
(* account of that name.                                                   *)
(***************************************************************************)
\* mutant: the domain may be registered
VerifyRegisterDomainAgain(from, n, addresses) ==
  /\ verifyAccountFormat(from, n)
  /\ checkAddress(addresses)
  /\ Authorized(from, "registerDomain")

VerifyRegisterDomain(from, n, addresses) ==
  /\ verifyAccountFormat(from, n)
  /\ checkAddress(addresses)
  /\ Authorized(from, "registerDomain")
  /\ n.domain \notin DOMAIN domains

RegisterDomain(from, n, addresses, extra) ==
  /\ Signed(from)
  /\ VerifyRegisterDomain(from, n, addresses)
  /\ Applied(from,
             CreateAccount(n, Registered(addresses, TRUE, Compared, TRUE, FALSE, extra)))
  /\ domains' = [d \in DOMAIN domains \cup {n.domain} |->
                   IF d = n.domain THEN n.cn ELSE domains[d]]
  /\ asked' = [asked EXCEPT ![n] = {}]
  /\ carried' = [carried EXCEPT ![n] = extra.lost]
  /\ UNCHANGED recovered

-------------------------------------------------------------------------------
(***************************************************************************)
(* The operations on an account that exists.  The two of an administrator  *)
(* ask for no right of his but that he is one.                             *)
(***************************************************************************)
VerifyAccountFrozenOp(from, n) ==
  /\ accounts[from].admin
  /\ Exists(n)
  /\ \/ n.domain = from.domain /\ ~ accounts[n].admin
     \/ isSubDomain(from.domain, n.domain)

FrozenAccount(from, n, frozen) ==
  /\ Signed(from)
  /\ VerifyAccountFrozenOp(from, n)
  /\ Applied(from, [accounts EXCEPT ![n].frozen = frozen])
  /\ UNCHANGED <<domains, asked, carried, recovered>>

VerifyUpdateDataPermissionOp(from, n, perms) ==
  /\ accounts[from].admin
  /\ Exists(n)
  /\ isSubDomain(from.domain, n.domain) /\ accounts[n].admin
  /\ IsValidPermission(accounts[from].perms, perms)

UpdatePermission(from, n, perms) ==
  /\ Signed(from)
  /\ VerifyUpdateDataPermissionOp(from, n, perms)
  /\ Applied(from, [accounts EXCEPT ![n].perms = perms])
  /\ UNCHANGED <<domains, asked, carried, recovered>>

\* a partner of one's own domain or of one above, who need not exist, or none
VerifySetPartnerOp(from, partner) ==
  partner # NoPartner =>
    partner.domain = from.domain \/ isSubDomain(partner.domain, from.domain)

SetPartner(from, partner) ==
  /\ Signed(from)
  /\ VerifySetPartnerOp(from, partner)
  /\ Applied(from, [accounts EXCEPT ![from].partner = partner])
  /\ UNCHANGED <<domains, asked, carried, recovered>>

-------------------------------------------------------------------------------
(***************************************************************************)
(* A lost account: its partner asks for a new address, which may take the  *)
(* account over when the interval has passed and nobody reset the request. *)
(* The interval starts at the block's time and is compared with the clock. *)
(***************************************************************************)
VerifyLostRequest(from, n) == Exists(n) /\ from = accounts[n].partner

\* mutant: the interval is taken off
RequestedBackwards(n, addr) ==
  [recoverAddr |-> addr, timeStamp |-> header - LostFoundInterval]

\* mutant: a second request does not start the interval again
RequestedOnce(n, addr) ==
  [recoverAddr |-> addr,
   timeStamp |-> IF accounts[n].lost = NoRequest THEN header + LostFoundInterval
                 ELSE accounts[n].lost.timeStamp]

Requested(n, addr) == [recoverAddr |-> addr, timeStamp |-> header + LostFoundInterval]

LostRequest(from, n, addr) ==
  /\ Signed(from)
  /\ VerifyLostRequest(from, n)
  /\ Applied(from, [accounts EXCEPT ![n].lost = Requested(n, addr)])
  /\ asked' = IF from = accounts[n].partner
              THEN [asked EXCEPT ![n] = @ \cup {<<addr, header>>}] ELSE asked
  /\ carried' = [carried EXCEPT ![n] = NoRequest]
  /\ UNCHANGED <<domains, recovered>>

\* only the new address has to sign
VerifyFoundRequest(from, signer) ==
  /\ accounts[from].lost # NoRequest
  /\ accounts[from].lost.recoverAddr = signer
  /\ now >= accounts[from].lost.timeStamp

FoundRequest(from, signer) ==
  /\ Acting(from)
  /\ VerifyFoundRequest(from, signer)
  /\ Applied(from, [accounts EXCEPT ![from].addresses = {accounts[from].lost.recoverAddr},
                                    ![from].lost = NoRequest])
  /\ asked' = [asked EXCEPT ![from] = {}]
  /\ carried' = [carried EXCEPT ![from] = NoRequest]
  /\ recovered' = recovered \cup {signer}
  /\ UNCHANGED domains

LostReset(from) ==
  /\ Signed(from)
  /\ Applied(from, [accounts EXCEPT ![from].lost = NoRequest])
  /\ asked' = [asked EXCEPT ![from] = {}]
  /\ carried' = [carried EXCEPT ![from] = NoRequest]
  /\ UNCHANGED <<domains, recovered>>

-------------------------------------------------------------------------------
(***************************************************************************)
(* Time: the clock goes on, and a block that is executed is not older than *)
(* the one before it.                                                      *)
(***************************************************************************)
Tick ==
  /\ now < MaxTime
  /\ now' = now + 1
  /\ UNCHANGED <<accounts, domains, header, txs, asked, carried, recovered>>

NextBlock ==
  /\ header' \in (header + 1)..now
  /\ UNCHANGED <<accounts, domains, now, txs, asked, carried, recovered>>

AccountTx(from, n) ==
  \/ \E admin, deploy, frozen \in BOOLEAN, perms \in Grants \cup {NoPermissions},
        addresses \in KeySets, extra \in Extras :
       RegisterAccount(from, n, addresses, admin, perms, deploy, frozen, extra)
  \/ \E addresses \in KeySets, extra \in Extras : RegisterDomain(from, n, addresses, extra)
  \/ \E frozen \in BOOLEAN : FrozenAccount(from, n, frozen)
  \/ \E perms \in Grants : UpdatePermission(from, n, perms)

LostTx(from) ==
  \/ \E n \in Names, addr \in Addresses : LostRequest(from, n, addr)
  \/ \E signer \in Addresses : FoundRequest(from, signer)
  \/ LostReset(from)

Next ==
  \/ /\ txs < MaxTxs
     /\ \E from \in DOMAIN accounts :
       \/ \E n \in Names : AccountTx(from, n)
       \/ \E partner \in Names \cup {NoPartner} : SetPartner(from, partner)
       \/ LostTx(from)
  \/ Tick \/ NextBlock

Spec == Init /\ [][Next]_vars

-------------------------------------------------------------------------------
(***************************************************************************)
(* Properties                                                              *)
(***************************************************************************)
(***************************************************************************)
(* permission.go:56 and register.go:105 follow the sender's Permissions    *)
(* pointer when it is an administrator, or may register: whatever          *)
(* registrations and updates came before, it is not nil.                   *)
(***************************************************************************)
AdminsHavePermissions ==
  \A n \in DOMAIN accounts : accounts[n].admin <=> accounts[n].perms # NoPermissions

(***************************************************************************)
(* A registered domain keeps the administrator it names (register.go:156): *)
(* no later registration replaces or demotes that account.                 *)
(***************************************************************************)
DomainsHaveAdmin ==
  \A d \in DOMAIN domains : \E n \in DOMAIN accounts :
    n.domain = d /\ n.cn = domains[d] /\ accounts[n].admin

(***************************************************************************)
(* No sequence of registrations and updates gives an account a compared    *)
(* right out of nowhere (permission.go:12): an account of the first block  *)
(* above it had the right, or its domain is, or lies below, one that was   *)
(* registered with RegisterDomain.                                         *)
(***************************************************************************)
AtOrBelow(domain, n) == domain = n.domain \/ isSubDomain(domain, n.domain)

GrantedAtGenesis(n, right) ==
  \E g \in DOMAIN GenesisAccounts :
    /\ g = n \/ isSubDomain(g.domain, n.domain)
    /\ GenesisAccounts[g].perms # NoPermissions /\ right \in GenesisAccounts[g].perms

GrantedByDomain(n) ==
  \E d \in DOMAIN domains \ DOMAIN GenesisDomains : AtOrBelow(d, n)

RightsHaveSource ==
  \A n \in DOMAIN accounts, right \in Compared :
    Authorized(n, right) => GrantedAtGenesis(n, right) \/ GrantedByDomain(n)

(***************************************************************************)
(* An address belongs to one account, but for those that came with a       *)
(* recovery, which does not ask (register.go:164, lostinterpreter.go:207). *)
(***************************************************************************)
AddressesDistinct ==
  \A m, n \in DOMAIN accounts :
    m # n => accounts[m].addresses \cap accounts[n].addresses \subseteq recovered

(***************************************************************************)
(* Another address takes an account over only if the account's partner at  *)
(* the time asked for that address, at least the interval before, and      *)
(* nobody reset the account since (lostinterpreter.go:140-211).  The two   *)
(* exceptions: the registration carried the request, which is not looked   *)
(* at (register.go:31-162) and answers once its own time has come; and     *)
(* RegisterDomain on an account whose domain nobody has registered.        *)
(***************************************************************************)
Announced(n, addresses) ==
  \E request \in asked[n] :
    addresses = {request[1]} /\ request[2] + LostFoundInterval <= now

Carried(n, addresses) ==
  /\ carried[n] # NoRequest
  /\ addresses = {carried[n].recoverAddr} /\ carried[n].timeStamp <= now

TakeoversAnnounced ==
  [][\A n \in DOMAIN accounts :
       accounts'[n].addresses # accounts[n].addresses =>
         \/ Announced(n, accounts'[n].addresses)
         \/ Carried(n, accounts'[n].addresses)
         \/ n.domain \notin DOMAIN domains /\ n.domain \in DOMAIN domains']_vars

(***************************************************************************)
(* No registration overwrites an account of a registered domain: its nonce *)
(* goes on counting (register.go:125, 56).                                 *)
(***************************************************************************)
RegisteredKept ==
  [][\A n \in DOMAIN accounts :
       n.domain \in DOMAIN domains =>
         n \in DOMAIN accounts' /\ accounts'[n].nonce >= accounts[n].nonce]_vars

(***************************************************************************)
(* permission.go:12: the permissions of an account that is registered or   *)
(* changed cannot be above the caller's.                                   *)
(***************************************************************************)
WithinCaller ==
  [][\A n \in DOMAIN accounts :
       accounts'[n].perms # accounts[n].perms /\ UNCHANGED domains =>
         \E from \in DOMAIN accounts :
           /\ accounts'[from].nonce > accounts[from].nonce
           /\ accounts'[n].perms \subseteq accounts[from].perms]_vars
===============================================================================
