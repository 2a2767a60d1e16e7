----------------------------- MODULE AccountsProofs ----------------------------
(***************************************************************************)
(* For every set of names, addresses and permissions, every first block    *)
(* and every interval: Accounts is type correct, administrators have       *)
(* permissions, domains their administrator, rights a source, and an       *)
(* account is taken over only after its partner asked or by the request    *)
(* that its registration carried.                                          *)
(***************************************************************************)
EXTENDS Accounts, SequenceTheorems, TLAPS

-------------------------------------------------------------------------------
(***************************************************************************)
(* Domains                                                                 *)
(***************************************************************************)
LEMMA ReverseElements ==
  ASSUME NEW S, NEW s \in Seq(S)
  PROVE  /\ Reverse(s) \in Seq(S)
         /\ Len(Reverse(s)) = Len(s)
         /\ \A i \in 1..Len(s) : Reverse(s)[i] = s[Len(s) - i + 1]
  <1>1. Len(s) \in Nat /\ \A i \in 1..Len(s) : s[i] \in S
    BY LenProperties, ElementOfSeq
  <1>2. \A i \in 1..Len(s) : Len(s) - i + 1 \in 1..Len(s)
    BY <1>1
  <1> QED BY <1>1, <1>2, IsASeq, LenProperties DEF Reverse

LEMMA PrefixElements ==
  ASSUME NEW S, NEW s \in Seq(S), NEW t \in Seq(S)
  PROVE  IsPrefix(s, t) <=>
           Len(s) <= Len(t) /\ \A i \in 1..Len(s) : s[i] = t[i]
  <1> SUFFICES ASSUME Len(s) <= Len(t)
               PROVE  SubSeq(s, 1, Len(s)) = SubSeq(t, 1, Len(s))
                        <=> \A i \in 1..Len(s) : s[i] = t[i]
    BY DEF IsPrefix
  <1>1. /\ Len(s) \in Nat /\ \A i \in 1..Len(s) : s[i] \in S
        /\ Len(t) \in Nat /\ \A i \in 1..Len(s) : t[i] \in S
    BY LenProperties, ElementOfSeq
  <1>2. /\ SubSeq(s, 1, Len(s)) \in Seq(S) /\ SubSeq(t, 1, Len(s)) \in Seq(S)
        /\ Len(SubSeq(s, 1, Len(s))) = Len(s)
        /\ Len(SubSeq(t, 1, Len(s))) = Len(s)
        /\ \A i \in 1..Len(s) : SubSeq(s, 1, Len(s))[i] = s[i]
        /\ \A i \in 1..Len(s) : SubSeq(t, 1, Len(s))[i] = t[i]
    <2>1. ASSUME NEW u \in Seq(S), \A i \in 1..Len(s) : u[i] \in S
          PROVE  /\ SubSeq(u, 1, Len(s)) \in Seq(S)
                 /\ Len(SubSeq(u, 1, Len(s))) = Len(s)
                 /\ \A i \in 1..Len(s) : SubSeq(u, 1, Len(s))[i] = u[i]
      BY <1>1, <2>1, SubSeqProperties
    <2> QED BY <1>1, <2>1
  <1>3. ASSUME \A i \in 1..Len(s) : s[i] = t[i]
        PROVE  SubSeq(s, 1, Len(s)) = SubSeq(t, 1, Len(s))
    BY <1>2, <1>3, SeqEqual
  <1> QED BY <1>2, <1>3

(***************************************************************************)
(* A domain below another ends with its labels.                            *)
(***************************************************************************)
Ends(s, t) ==
  Len(s) < Len(t) /\ \A i \in 1..Len(s) : s[i] = t[Len(t) - Len(s) + i]

LEMMA StrictSuffixEnds ==
  ASSUME NEW S, NEW s \in Seq(S), NEW t \in Seq(S)
  PROVE  IsStrictSuffix(s, t) <=> Ends(s, t)
  <1>1. /\ Len(s) \in Nat /\ Len(t) \in Nat
        /\ Reverse(s) \in Seq(S) /\ Len(Reverse(s)) = Len(s)
        /\ Reverse(t) \in Seq(S) /\ Len(Reverse(t)) = Len(t)
        /\ \A i \in 1..Len(s) : Reverse(s)[i] = s[Len(s) - i + 1]
        /\ \A i \in 1..Len(t) : Reverse(t)[i] = t[Len(t) - i + 1]
    BY LenProperties, ReverseElements
  <1>2. IsSuffix(s, t) <=>
          Len(s) <= Len(t)
          /\ \A i \in 1..Len(s) : s[Len(s) - i + 1] = t[Len(t) - i + 1]
    <2>1. IsSuffix(s, t) <=>
            Len(s) <= Len(t) /\ \A i \in 1..Len(s) : Reverse(s)[i] = Reverse(t)[i]
      BY <1>1, PrefixElements DEF IsSuffix
    <2>2. Len(s) <= Len(t) => \A i \in 1..Len(s) : i \in 1..Len(t)
      BY <1>1
    <2> QED BY <1>1, <2>1, <2>2
  <1>3. ASSUME Len(s) <= Len(t)
        PROVE  (\A i \in 1..Len(s) : s[Len(s) - i + 1] = t[Len(t) - i + 1])
                 <=> \A i \in 1..Len(s) : s[i] = t[Len(t) - Len(s) + i]
    <2>1. ASSUME \A i \in 1..Len(s) : s[Len(s) - i + 1] = t[Len(t) - i + 1],
                 NEW i \in 1..Len(s)
          PROVE  s[i] = t[Len(t) - Len(s) + i]
      <3>1. Len(s) - i + 1 \in 1..Len(s)
        BY <1>1
      <3>2. s[Len(s) - (Len(s) - i + 1) + 1] = t[Len(t) - (Len(s) - i + 1) + 1]
        BY <2>1, <3>1
      <3>3. /\ Len(s) - (Len(s) - i + 1) + 1 = i
            /\ Len(t) - (Len(s) - i + 1) + 1 = Len(t) - Len(s) + i
        BY <1>1
      <3> QED BY <3>2, <3>3
    <2>2. ASSUME \A i \in 1..Len(s) : s[i] = t[Len(t) - Len(s) + i],
                 NEW i \in 1..Len(s)
          PROVE  s[Len(s) - i + 1] = t[Len(t) - i + 1]
      <3>1. Len(s) - i + 1 \in 1..Len(s)
        BY <1>1
      <3>2. s[Len(s) - i + 1] = t[Len(t) - Len(s) + (Len(s) - i + 1)]
        BY <2>2, <3>1
      <3>3. Len(t) - Len(s) + (Len(s) - i + 1) = Len(t) - i + 1
        BY <1>1
      <3> QED BY <3>2, <3>3
    <2> QED BY <2>1, <2>2
  <1>4. ASSUME IsSuffix(s, t), Len(s) = Len(t) PROVE s = t
    BY <1>1, <1>2, <1>3, <1>4, SeqEqual
  <1>5. Len(s) < Len(t) => s # t
    BY <1>1
  <1> QED BY <1>1, <1>2, <1>3, <1>4, <1>5 DEF IsStrictSuffix, Ends

LEMMA EndsTransitive ==
  ASSUME NEW S, NEW s \in Seq(S), NEW t \in Seq(S), NEW u \in Seq(S),
         Ends(s, t), Ends(t, u)
  PROVE  Ends(s, u)
  <1>1. Len(s) \in Nat /\ Len(t) \in Nat /\ Len(u) \in Nat
    BY LenProperties
  <1>2. ASSUME NEW i \in 1..Len(s) PROVE s[i] = u[Len(u) - Len(s) + i]
    <2>1. Len(t) - Len(s) + i \in 1..Len(t)
      BY <1>1 DEF Ends
    <2>2. t[Len(t) - Len(s) + i] = u[Len(u) - Len(t) + (Len(t) - Len(s) + i)]
      BY <2>1 DEF Ends
    <2>3. Len(u) - Len(t) + (Len(t) - Len(s) + i) = Len(u) - Len(s) + i
      BY <1>1
    <2> QED BY <2>2, <2>3 DEF Ends
  <1> QED BY <1>1, <1>2 DEF Ends

(***************************************************************************)
(* A sub-domain of a sub-domain is one.                                    *)
(***************************************************************************)
LEMMA SubDomainTransitive ==
  ASSUME NEW a \in Domains, NEW b \in Domains, NEW c \in Domains,
         isSubDomain(a, b), isSubDomain(b, c)
  PROVE  isSubDomain(a, c)
  <1>1. a \in Seq(STRING) /\ b \in Seq(STRING) /\ c \in Seq(STRING)
    BY NamesAssumption DEF Domains
  <1>2. IsStrictSuffix(a, b) /\ IsStrictSuffix(b, c)
    BY DEF isSubDomain, SubDomains
  <1>3. Ends(a, c)
    BY <1>1, <1>2, StrictSuffixEnds, EndsTransitive
  <1> QED BY <1>1, <1>3, StrictSuffixEnds DEF isSubDomain, SubDomains

-------------------------------------------------------------------------------
(***************************************************************************)
(* The inductive invariant: a pending request was asked for or carried by  *)
(* the registration, and no registered domain is forgotten.                *)
(***************************************************************************)
LostAsked ==
  \A n \in DOMAIN accounts : accounts[n].lost # NoRequest =>
    \/ carried[n] = accounts[n].lost
    \/ \E request \in asked[n] :
         /\ request[1] = accounts[n].lost.recoverAddr
         /\ request[2] + LostFoundInterval = accounts[n].lost.timeStamp

GenesisKept == DOMAIN GenesisDomains \subseteq DOMAIN domains

IInv ==
  /\ TypeOK /\ AdminsHavePermissions /\ DomainsHaveAdmin
  /\ RightsHaveSource /\ AddressesDistinct /\ LostAsked /\ GenesisKept

LEMMA InitIInv == Init => IInv
  <1> SUFFICES ASSUME Init PROVE IInv
    OBVIOUS
  <1> USE DEF Init
  <1>1. TypeOK
    BY GenesisAssumption, BoundsAssumption DEF TypeOK
  <1>2. AdminsHavePermissions /\ DomainsHaveAdmin /\ AddressesDistinct
    BY GenesisAssumption DEF AdminsHavePermissions, DomainsHaveAdmin, AddressesDistinct
  <1>3. RightsHaveSource
    BY DEF RightsHaveSource, Authorized, GrantedAtGenesis
  <1>4. LostAsked /\ GenesisKept
    BY GenesisAssumption DEF LostAsked, GenesisKept
  <1> QED BY <1>1, <1>2, <1>3, <1>4 DEF IInv

(***************************************************************************)
(* What Applied leaves of the accounts.                                    *)
(***************************************************************************)
LEMMA AppliedAccounts ==
  ASSUME NEW after, NEW from \in DOMAIN after, after \in [DOMAIN after -> Account],
         Applied(from, after)
  PROVE  /\ DOMAIN accounts' = DOMAIN after
         /\ accounts' \in [DOMAIN accounts' -> Account]
         /\ \A n \in DOMAIN after :
              /\ accounts'[n].addresses = after[n].addresses
              /\ accounts'[n].admin = after[n].admin
              /\ accounts'[n].perms = after[n].perms
              /\ accounts'[n].deploy = after[n].deploy
              /\ accounts'[n].frozen = after[n].frozen
              /\ accounts'[n].partner = after[n].partner
              /\ accounts'[n].lost = after[n].lost
              /\ accounts'[n].nonce >= after[n].nonce
  <1>1. accounts' = [after EXCEPT ![from].nonce = @ + 1]
    BY DEF Applied
  <1>2. after[from] \in Account /\ after[from].nonce \in Nat
    BY DEF Account
  <1>3. [after[from] EXCEPT !.nonce = @ + 1] \in Account
    BY <1>2 DEF Account
  <1>4. ASSUME NEW n \in DOMAIN after, n # from PROVE accounts'[n] = after[n]
    BY <1>1, <1>4
  <1>5. accounts'[from] = [after[from] EXCEPT !.nonce = @ + 1]
    BY <1>1
  <1>6. \A n \in DOMAIN after : after[n].nonce \in Nat
    BY DEF Account
  <1>7. DOMAIN accounts' = DOMAIN after /\ accounts' \in [DOMAIN accounts' -> Account]
    BY <1>1, <1>3
  <1> QED
    <2> SUFFICES ASSUME NEW n \in DOMAIN after
                 PROVE  /\ accounts'[n].addresses = after[n].addresses
                        /\ accounts'[n].admin = after[n].admin
                        /\ accounts'[n].perms = after[n].perms
                        /\ accounts'[n].deploy = after[n].deploy
                        /\ accounts'[n].frozen = after[n].frozen
                        /\ accounts'[n].partner = after[n].partner
                        /\ accounts'[n].lost = after[n].lost
                        /\ accounts'[n].nonce >= after[n].nonce
      BY <1>7
    <2>1. CASE n = from
      BY <1>2, <1>5, <2>1 DEF Account
    <2>2. CASE n # from
      BY <1>4, <1>6, <2>2
    <2> QED BY <2>1, <2>2

-------------------------------------------------------------------------------
(***************************************************************************)
(* What each operation does to the accounts.                               *)
(***************************************************************************)
SameRights(m) ==
  accounts'[m].admin = accounts[m].admin /\ accounts'[m].perms = accounts[m].perms

SameKeys(m) == accounts'[m].addresses = accounts[m].addresses

SameLost(m) ==
  /\ accounts'[m].lost = accounts[m].lost
  /\ asked'[m] = asked[m] /\ carried'[m] = carried[m]

Counts(m) == accounts'[m].nonce >= accounts[m].nonce

Typed == accounts' \in [DOMAIN accounts' -> Account]

LEMMA RegisteredType ==
  ASSUME NEW addresses \in SUBSET Addresses, NEW admin \in BOOLEAN,
         NEW perms \in (SUBSET Rights) \cup {NoPermissions},
         NEW deploy \in BOOLEAN, NEW frozen \in BOOLEAN, NEW extra \in Extras
  PROVE  Registered(addresses, admin, perms, deploy, frozen, extra) \in Account
  <1>1. extra.partner \in Names \cup {NoPartner} /\ extra.lost \in Requests \cup {NoRequest}
    BY NamesAssumption
  <1> QED BY <1>1 DEF Registered, Account

LEMMA CreateAccountStep ==
  ASSUME TypeOK, NEW from \in DOMAIN accounts, NEW n \in Names,
         NEW account \in Account, Applied(from, CreateAccount(n, account)), UNCHANGED domains
           \/ domains' = [d \in DOMAIN domains \cup {n.domain} |->
                            IF d = n.domain THEN n.cn ELSE domains[d]]
  PROVE  /\ Typed /\ DOMAIN accounts' = DOMAIN accounts \cup {n}
         /\ \A m \in DOMAIN accounts : m # n =>
              SameRights(m) /\ SameKeys(m) /\ accounts'[m].lost = accounts[m].lost /\ Counts(m)
         /\ accounts'[n].admin = account.admin /\ accounts'[n].perms = account.perms
         /\ accounts'[n].addresses = account.addresses /\ accounts'[n].lost = account.lost
  <1> DEFINE after == CreateAccount(n, account)
  <1>1. /\ DOMAIN after = DOMAIN accounts \cup {n}
        /\ after \in [DOMAIN after -> Account]
        /\ after[n] = account
        /\ \A m \in DOMAIN accounts : m # n => after[m] = accounts[m]
    BY DEF CreateAccount, TypeOK
  <1>2. from \in DOMAIN after
    BY <1>1
  <1> HIDE DEF after
  <1>3. Applied(from, after)
    BY DEF after
  <1>4. /\ DOMAIN accounts' = DOMAIN after
        /\ accounts' \in [DOMAIN accounts' -> Account]
        /\ \A m \in DOMAIN after :
             /\ accounts'[m].addresses = after[m].addresses
             /\ accounts'[m].admin = after[m].admin
             /\ accounts'[m].perms = after[m].perms
             /\ accounts'[m].lost = after[m].lost
             /\ accounts'[m].nonce >= after[m].nonce
    BY <1>1, <1>2, <1>3, AppliedAccounts
  <1> QED BY <1>1, <1>4 DEF Typed, SameRights, SameKeys, Counts

(***************************************************************************)
(* An operation on one account that exists changes that account only.      *)
(***************************************************************************)
LEMMA ChangeStep ==
  ASSUME TypeOK, NEW from \in DOMAIN accounts, NEW n \in DOMAIN accounts,
         NEW account \in Account, Applied(from, [accounts EXCEPT ![n] = account])
  PROVE  /\ Typed /\ DOMAIN accounts' = DOMAIN accounts
         /\ \A m \in DOMAIN accounts : m # n =>
              SameRights(m) /\ SameKeys(m) /\ accounts'[m].lost = accounts[m].lost /\ Counts(m)
         /\ accounts'[n].admin = account.admin /\ accounts'[n].perms = account.perms
         /\ accounts'[n].addresses = account.addresses /\ accounts'[n].lost = account.lost
         /\ accounts'[n].nonce >= account.nonce
  <1> DEFINE after == [accounts EXCEPT ![n] = account]
  <1>1. /\ DOMAIN after = DOMAIN accounts
        /\ after \in [DOMAIN after -> Account]
        /\ after[n] = account
        /\ \A m \in DOMAIN accounts : m # n => after[m] = accounts[m]
    BY DEF TypeOK
  <1> HIDE DEF after
  <1>2. Applied(from, after)
    BY DEF after
  <1>3. /\ DOMAIN accounts' = DOMAIN after
        /\ accounts' \in [DOMAIN accounts' -> Account]
        /\ \A m \in DOMAIN after :
             /\ accounts'[m].addresses = after[m].addresses
             /\ accounts'[m].admin = after[m].admin
             /\ accounts'[m].perms = after[m].perms
             /\ accounts'[m].lost = after[m].lost
             /\ accounts'[m].nonce >= after[m].nonce
    BY <1>1, <1>2, AppliedAccounts
  <1> QED BY <1>1, <1>3 DEF Typed, SameRights, SameKeys, Counts

AccountRegistered(n, addresses, admin, perms, extra) ==
  /\ Typed /\ n \notin DOMAIN accounts /\ DOMAIN accounts' = DOMAIN accounts \cup {n}
  /\ \A m \in DOMAIN accounts :
       SameRights(m) /\ SameKeys(m) /\ SameLost(m) /\ Counts(m)
  /\ accounts'[n].admin = admin /\ accounts'[n].perms = perms
  /\ accounts'[n].addresses = addresses /\ accounts'[n].lost = extra.lost
  /\ carried' = [carried EXCEPT ![n] = extra.lost]
  /\ UNCHANGED <<domains, now, header, asked, recovered>> /\ txs' = txs + 1

LEMMA RegisterAccountEffect ==
  ASSUME TypeOK, NEW from \in DOMAIN accounts, NEW n \in Names, NEW addresses \in KeySets,
         NEW admin \in BOOLEAN, NEW perms \in Grants \cup {NoPermissions},
         NEW deploy \in BOOLEAN, NEW frozen \in BOOLEAN, NEW extra \in Extras,
         RegisterAccount(from, n, addresses, admin, perms, deploy, frozen, extra)
  PROVE  AccountRegistered(n, addresses, admin, perms, extra)
  <1> DEFINE account == Registered(addresses, admin, perms, deploy, frozen, extra)
  <1>1. account \in Account
    <2>1. addresses \in SUBSET Addresses /\ perms \in (SUBSET Rights) \cup {NoPermissions}
      BY NamesAssumption
    <2> QED BY <2>1, RegisteredType, Zenon
  <1>2. /\ account.admin = admin /\ account.perms = perms
        /\ account.addresses = addresses /\ account.lost = extra.lost
    BY DEF Registered
  <1>3. /\ Applied(from, CreateAccount(n, account)) /\ UNCHANGED <<domains, asked, recovered>>
        /\ carried' = [carried EXCEPT ![n] = extra.lost] /\ n \notin DOMAIN accounts
    BY DEF RegisterAccount, VerifyAccountRegister, Exists
  <1> HIDE DEF account
  <1>4. UNCHANGED <<now, header>> /\ txs' = txs + 1
    BY <1>3 DEF Applied
  <1>5. \A m \in DOMAIN accounts : m # n => carried'[m] = carried[m]
    BY <1>3 DEF TypeOK
  <1> QED BY <1>1, <1>2, <1>3, <1>4, <1>5, CreateAccountStep DEF SameLost, AccountRegistered

LEMMA RegisterDomainEffect ==
  ASSUME TypeOK, NEW from \in DOMAIN accounts, NEW n \in Names, NEW addresses \in KeySets,
         NEW extra \in Extras, RegisterDomain(from, n, addresses, extra)
  PROVE  /\ Typed /\ DOMAIN accounts' = DOMAIN accounts \cup {n}
         /\ n.domain \notin DOMAIN domains
         /\ domains' = [d \in DOMAIN domains \cup {n.domain} |->
                          IF d = n.domain THEN n.cn ELSE domains[d]]
         /\ \A m \in DOMAIN accounts : m # n =>
              SameRights(m) /\ SameKeys(m) /\ SameLost(m) /\ Counts(m)
         /\ accounts'[n].admin = TRUE /\ accounts'[n].perms = Compared
         /\ accounts'[n].addresses = addresses /\ accounts'[n].lost = extra.lost
         /\ asked' = [asked EXCEPT ![n] = {}] /\ carried' = [carried EXCEPT ![n] = extra.lost]
         /\ UNCHANGED <<now, header, recovered>> /\ txs' = txs + 1
  <1> DEFINE account == Registered(addresses, TRUE, Compared, TRUE, FALSE, extra)
  <1>1. account \in Account
    <2>1. Compared \in (SUBSET Rights) \cup {NoPermissions}
      BY DEF Compared
    <2>2. addresses \in SUBSET Addresses
      BY NamesAssumption
    <2>3. ASSUME NEW admin \in BOOLEAN, NEW frozen \in BOOLEAN
          PROVE  Registered(addresses, admin, Compared, admin, frozen, extra) \in Account
      BY <2>1, <2>2, RegisteredType
    <2> QED BY <2>3
  <1>2. /\ account.admin = TRUE /\ account.perms = Compared
        /\ account.addresses = addresses /\ account.lost = extra.lost
    BY DEF Registered
  <1>3. /\ Applied(from, CreateAccount(n, account)) /\ UNCHANGED recovered
        /\ domains' = [d \in DOMAIN domains \cup {n.domain} |->
                         IF d = n.domain THEN n.cn ELSE domains[d]]
        /\ asked' = [asked EXCEPT ![n] = {}] /\ carried' = [carried EXCEPT ![n] = extra.lost]
        /\ n.domain \notin DOMAIN domains
    BY DEF RegisterDomain, VerifyRegisterDomain
  <1> HIDE DEF account
  <1>4. UNCHANGED <<now, header>> /\ txs' = txs + 1
    BY <1>3 DEF Applied
  <1>5. \A m \in DOMAIN accounts : m # n => asked'[m] = asked[m] /\ carried'[m] = carried[m]
    BY <1>3 DEF TypeOK
  <1>6. /\ Typed /\ DOMAIN accounts' = DOMAIN accounts \cup {n}
        /\ \A m \in DOMAIN accounts : m # n =>
             SameRights(m) /\ SameKeys(m) /\ accounts'[m].lost = accounts[m].lost /\ Counts(m)
        /\ accounts'[n].admin = account.admin /\ accounts'[n].perms = account.perms
        /\ accounts'[n].addresses = account.addresses /\ accounts'[n].lost = account.lost
    BY <1>1, <1>3, CreateAccountStep
  <1> QED BY <1>2, <1>3, <1>4, <1>5, <1>6 DEF SameLost

LEMMA FrozenAccountEffect ==
  ASSUME TypeOK, NEW from \in DOMAIN accounts, NEW n \in Names, NEW frozen \in BOOLEAN,
         FrozenAccount(from, n, frozen)
  PROVE  /\ Typed /\ DOMAIN accounts' = DOMAIN accounts
         /\ \A m \in DOMAIN accounts :
              SameRights(m) /\ SameKeys(m) /\ SameLost(m) /\ Counts(m)
         /\ UNCHANGED <<domains, now, header, asked, carried, recovered>> /\ txs' = txs + 1
  <1> DEFINE account == [accounts[n] EXCEPT !.frozen = frozen]
  <1>1. n \in DOMAIN accounts
    BY DEF FrozenAccount, VerifyAccountFrozenOp, Exists
  <1>2. accounts[n] \in Account
    BY <1>1 DEF TypeOK
  <1>3. /\ account \in Account
        /\ account.admin = accounts[n].admin /\ account.perms = accounts[n].perms
        /\ account.addresses = accounts[n].addresses /\ account.lost = accounts[n].lost
        /\ account.nonce = accounts[n].nonce
    BY <1>2 DEF Account
  <1>4. Applied(from, [accounts EXCEPT ![n] = account])
        /\ UNCHANGED <<domains, asked, carried, recovered>>
    BY DEF FrozenAccount
  <1> HIDE DEF account
  <1>5. UNCHANGED <<now, header>> /\ txs' = txs + 1
    BY <1>4 DEF Applied
  <1> QED BY <1>1, <1>3, <1>4, <1>5, ChangeStep DEF SameRights, SameKeys, SameLost, Counts

LEMMA UpdatePermissionEffect ==
  ASSUME TypeOK, NEW from \in DOMAIN accounts, NEW n \in Names, NEW perms \in Grants,
         UpdatePermission(from, n, perms)
  PROVE  /\ Typed /\ DOMAIN accounts' = DOMAIN accounts /\ n \in DOMAIN accounts
         /\ \A m \in DOMAIN accounts : SameKeys(m) /\ SameLost(m) /\ Counts(m)
         /\ \A m \in DOMAIN accounts : m # n => SameRights(m)
         /\ accounts'[n].admin = accounts[n].admin /\ accounts'[n].perms = perms
         /\ UNCHANGED <<domains, now, header, asked, carried, recovered>> /\ txs' = txs + 1
  <1> DEFINE account == [accounts[n] EXCEPT !.perms = perms]
  <1>1. n \in DOMAIN accounts /\ perms \in SUBSET Rights
    BY NamesAssumption DEF UpdatePermission, VerifyUpdateDataPermissionOp, Exists
  <1>2. accounts[n] \in Account
    BY <1>1 DEF TypeOK
  <1>3. /\ account \in Account
        /\ account.admin = accounts[n].admin /\ account.perms = perms
        /\ account.addresses = accounts[n].addresses /\ account.lost = accounts[n].lost
        /\ account.nonce = accounts[n].nonce
    BY <1>1, <1>2 DEF Account
  <1>4. Applied(from, [accounts EXCEPT ![n] = account])
        /\ UNCHANGED <<domains, asked, carried, recovered>>
    BY DEF UpdatePermission
  <1> HIDE DEF account
  <1>5. UNCHANGED <<now, header>> /\ txs' = txs + 1
    BY <1>4 DEF Applied
  <1> QED BY <1>1, <1>3, <1>4, <1>5, ChangeStep DEF SameRights, SameKeys, SameLost, Counts

LEMMA SetPartnerEffect ==
  ASSUME TypeOK, NEW from \in DOMAIN accounts, NEW partner \in Names \cup {NoPartner},
         SetPartner(from, partner)
  PROVE  /\ Typed /\ DOMAIN accounts' = DOMAIN accounts
         /\ \A m \in DOMAIN accounts :
              SameRights(m) /\ SameKeys(m) /\ SameLost(m) /\ Counts(m)
         /\ UNCHANGED <<domains, now, header, asked, carried, recovered>> /\ txs' = txs + 1
  <1> DEFINE account == [accounts[from] EXCEPT !.partner = partner]
  <1>1. accounts[from] \in Account
    BY DEF TypeOK
  <1>2. /\ account \in Account
        /\ account.admin = accounts[from].admin /\ account.perms = accounts[from].perms
        /\ account.addresses = accounts[from].addresses
        /\ account.lost = accounts[from].lost /\ account.nonce = accounts[from].nonce
    BY <1>1 DEF Account
  <1>3. Applied(from, [accounts EXCEPT ![from] = account])
        /\ UNCHANGED <<domains, asked, carried, recovered>>
    BY DEF SetPartner
  <1> HIDE DEF account
  <1>4. UNCHANGED <<now, header>> /\ txs' = txs + 1
    BY <1>3 DEF Applied
  <1> QED BY <1>2, <1>3, <1>4, ChangeStep DEF SameRights, SameKeys, SameLost, Counts

LEMMA LostRequestEffect ==
  ASSUME TypeOK, NEW from \in DOMAIN accounts, NEW n \in Names, NEW addr \in Addresses,
         LostRequest(from, n, addr)
  PROVE  /\ Typed /\ DOMAIN accounts' = DOMAIN accounts /\ n \in DOMAIN accounts
         /\ \A m \in DOMAIN accounts : SameRights(m) /\ SameKeys(m) /\ Counts(m)
         /\ \A m \in DOMAIN accounts : m # n => SameLost(m)
         /\ accounts'[n].lost = Requested(n, addr)
         /\ asked' = [asked EXCEPT ![n] = @ \cup {<<addr, header>>}]
         /\ carried' = [carried EXCEPT ![n] = NoRequest]
         /\ UNCHANGED <<domains, now, header, recovered>> /\ txs' = txs + 1
  <1> DEFINE account == [accounts[n] EXCEPT !.lost = Requested(n, addr)]
  <1>1. n \in DOMAIN accounts /\ from = accounts[n].partner
    BY DEF LostRequest, VerifyLostRequest, Exists
  <1>2. accounts[n] \in Account
    BY <1>1 DEF TypeOK
  <1>3. Requested(n, addr) \in Requests
    BY BoundsAssumption DEF Requested, Requests, TypeOK
  <1>4. /\ account \in Account
        /\ account.admin = accounts[n].admin /\ account.perms = accounts[n].perms
        /\ account.addresses = accounts[n].addresses /\ account.lost = Requested(n, addr)
        /\ account.nonce = accounts[n].nonce
    BY <1>2, <1>3 DEF Account
  <1>5. /\ Applied(from, [accounts EXCEPT ![n] = account])
        /\ UNCHANGED <<domains, recovered>>
        /\ asked' = [asked EXCEPT ![n] = @ \cup {<<addr, header>>}]
        /\ carried' = [carried EXCEPT ![n] = NoRequest]
    BY <1>1 DEF LostRequest
  <1> HIDE DEF account
  <1>6. UNCHANGED <<now, header>> /\ txs' = txs + 1
    BY <1>5 DEF Applied
  <1>7. \A m \in DOMAIN accounts : m # n => asked'[m] = asked[m] /\ carried'[m] = carried[m]
    BY <1>5 DEF TypeOK
  <1> QED BY <1>1, <1>4, <1>5, <1>6, <1>7, ChangeStep
             DEF SameRights, SameKeys, SameLost, Counts

LEMMA FoundRequestEffect ==
  ASSUME TypeOK, NEW from \in DOMAIN accounts, NEW signer \in Addresses,
         FoundRequest(from, signer)
  PROVE  /\ Typed /\ DOMAIN accounts' = DOMAIN accounts
         /\ \A m \in DOMAIN accounts : SameRights(m) /\ Counts(m)
         /\ \A m \in DOMAIN accounts : m # from => SameKeys(m) /\ SameLost(m)
         /\ accounts'[from].lost = NoRequest /\ accounts'[from].addresses = {signer}
         /\ accounts[from].lost # NoRequest /\ accounts[from].lost.recoverAddr = signer
         /\ now >= accounts[from].lost.timeStamp
         /\ asked' = [asked EXCEPT ![from] = {}] /\ recovered' = recovered \cup {signer}
         /\ carried' = [carried EXCEPT ![from] = NoRequest]
         /\ UNCHANGED <<domains, now, header>> /\ txs' = txs + 1
  <1> DEFINE account == [accounts[from] EXCEPT !.addresses = {signer}, !.lost = NoRequest]
  <1>1. accounts[from] \in Account
    BY DEF TypeOK
  <1>2. /\ account \in Account
        /\ account.admin = accounts[from].admin /\ account.perms = accounts[from].perms
        /\ account.addresses = {signer} /\ account.lost = NoRequest
        /\ account.nonce = accounts[from].nonce
    BY <1>1 DEF Account
  <1>3. /\ accounts[from].lost # NoRequest /\ accounts[from].lost.recoverAddr = signer
        /\ now >= accounts[from].lost.timeStamp
    BY DEF FoundRequest, VerifyFoundRequest
  <1>4. /\ Applied(from, [accounts EXCEPT ![from] = account])
        /\ UNCHANGED domains
        /\ asked' = [asked EXCEPT ![from] = {}] /\ recovered' = recovered \cup {signer}
        /\ carried' = [carried EXCEPT ![from] = NoRequest]
    BY <1>3 DEF FoundRequest
  <1> HIDE DEF account
  <1>5. UNCHANGED <<now, header>> /\ txs' = txs + 1
    BY <1>4 DEF Applied
  <1>6. \A m \in DOMAIN accounts : m # from => asked'[m] = asked[m] /\ carried'[m] = carried[m]
    BY <1>4 DEF TypeOK
  <1> QED BY <1>2, <1>3, <1>4, <1>5, <1>6, ChangeStep
             DEF SameRights, SameKeys, SameLost, Counts

LEMMA LostResetEffect ==
  ASSUME TypeOK, NEW from \in DOMAIN accounts, LostReset(from)
  PROVE  /\ Typed /\ DOMAIN accounts' = DOMAIN accounts
         /\ \A m \in DOMAIN accounts : SameRights(m) /\ SameKeys(m) /\ Counts(m)
         /\ \A m \in DOMAIN accounts : m # from => SameLost(m)
         /\ accounts'[from].lost = NoRequest
         /\ asked' = [asked EXCEPT ![from] = {}] /\ carried' = [carried EXCEPT ![from] = NoRequest]
         /\ UNCHANGED <<domains, now, header, recovered>> /\ txs' = txs + 1
  <1> DEFINE account == [accounts[from] EXCEPT !.lost = NoRequest]
  <1>1. accounts[from] \in Account
    BY DEF TypeOK
  <1>2. /\ account \in Account
        /\ account.admin = accounts[from].admin /\ account.perms = accounts[from].perms
        /\ account.addresses = accounts[from].addresses /\ account.lost = NoRequest
        /\ account.nonce = accounts[from].nonce
    BY <1>1 DEF Account
  <1>3. /\ Applied(from, [accounts EXCEPT ![from] = account])
        /\ UNCHANGED <<domains, recovered>>
        /\ asked' = [asked EXCEPT ![from] = {}] /\ carried' = [carried EXCEPT ![from] = NoRequest]
    BY DEF LostReset
  <1> HIDE DEF account
  <1>4. UNCHANGED <<now, header>> /\ txs' = txs + 1
    BY <1>3 DEF Applied
  <1>5. \A m \in DOMAIN accounts : m # from => asked'[m] = asked[m] /\ carried'[m] = carried[m]
    BY <1>3 DEF TypeOK
  <1> QED BY <1>2, <1>3, <1>4, <1>5, ChangeStep
             DEF SameRights, SameKeys, SameLost, Counts

-------------------------------------------------------------------------------
(***************************************************************************)
(* What keeps each part of the invariant.                                  *)
(***************************************************************************)
LEMMA TypeKept ==
  ASSUME TypeOK, Typed, DOMAIN accounts' \subseteq Names, DOMAIN domains' \subseteq Domains,
         UNCHANGED <<now, header>>, txs < MaxTxs, txs' = txs + 1,
         asked' \in [Names -> SUBSET (Addresses \X Nat)],
         carried' \in [Names -> Requests \cup {NoRequest}], recovered' \subseteq Addresses
  PROVE  TypeOK'
  BY BoundsAssumption DEF TypeOK, Typed

LEMMA RightsKept ==
  ASSUME DOMAIN accounts' = DOMAIN accounts, UNCHANGED domains,
         \A m \in DOMAIN accounts : SameRights(m),
         AdminsHavePermissions, DomainsHaveAdmin, RightsHaveSource
  PROVE  AdminsHavePermissions' /\ DomainsHaveAdmin' /\ RightsHaveSource'
  <1>1. AdminsHavePermissions'
    BY DEF AdminsHavePermissions, SameRights
  <1>2. DomainsHaveAdmin'
    BY DEF DomainsHaveAdmin, SameRights
  <1>3. RightsHaveSource'
    BY DEF RightsHaveSource, Authorized, SameRights, GrantedAtGenesis, GrantedByDomain
  <1> QED BY <1>1, <1>2, <1>3

LEMMA KeysKept ==
  ASSUME DOMAIN accounts' = DOMAIN accounts, recovered \subseteq recovered',
         \A m \in DOMAIN accounts : SameKeys(m), AddressesDistinct
  PROVE  AddressesDistinct'
  BY DEF AddressesDistinct, SameKeys

LEMMA LostKept ==
  ASSUME DOMAIN accounts' = DOMAIN accounts, LostAsked,
         \A m \in DOMAIN accounts : SameLost(m) \/ accounts'[m].lost = NoRequest
  PROVE  LostAsked'
  BY DEF LostAsked, SameLost

(***************************************************************************)
(* A right's source above an account is one above the accounts below it.   *)
(***************************************************************************)
LEMMA SourceBelow ==
  ASSUME TypeOK, NEW from \in Names, NEW n \in Names, NEW right,
         isSubDomain(from.domain, n.domain),
         GrantedAtGenesis(from, right) \/ GrantedByDomain(from)
  PROVE  GrantedAtGenesis(n, right) \/ GrantedByDomain(n)
  <1>1. \A m \in Names : m.domain \in Domains
    BY DEF Domains
  <1>2. ASSUME GrantedAtGenesis(from, right) PROVE GrantedAtGenesis(n, right)
    <2>1. PICK g \in DOMAIN GenesisAccounts :
            /\ g = from \/ isSubDomain(g.domain, from.domain)
            /\ GenesisAccounts[g].perms # NoPermissions /\ right \in GenesisAccounts[g].perms
      BY <1>2 DEF GrantedAtGenesis
    <2>2. g.domain \in Domains
      BY <1>1, GenesisAssumption
    <2>3. isSubDomain(g.domain, n.domain)
      BY <1>1, <2>1, <2>2, SubDomainTransitive
    <2> QED BY <2>1, <2>3 DEF GrantedAtGenesis
  <1>3. ASSUME GrantedByDomain(from) PROVE GrantedByDomain(n)
    <2>1. PICK d \in DOMAIN domains \ DOMAIN GenesisDomains : AtOrBelow(d, from)
      BY <1>3 DEF GrantedByDomain
    <2>2. d \in Domains
      BY DEF TypeOK
    <2>3. isSubDomain(d, n.domain)
      BY <1>1, <2>1, <2>2, SubDomainTransitive DEF AtOrBelow
    <2> QED BY <2>3 DEF GrantedByDomain, AtOrBelow
  <1> QED BY <1>2, <1>3

LEMMA ValidRights ==
  ASSUME IInv, NEW from \in DOMAIN accounts, NEW n \in Names, NEW perms, NEW right \in Compared,
         isSubDomain(from.domain, n.domain), accounts[from].perms # NoPermissions,
         IsValidPermission(accounts[from].perms, perms), right \in perms
  PROVE  GrantedAtGenesis(n, right) \/ GrantedByDomain(n)
  <1>1. Authorized(from, right)
    BY DEF Authorized, IsValidPermission
  <1>2. GrantedAtGenesis(from, right) \/ GrantedByDomain(from)
    BY <1>1 DEF IInv, RightsHaveSource
  <1> QED BY <1>2, SourceBelow DEF IInv, TypeOK

-------------------------------------------------------------------------------
(***************************************************************************)
(* Every operation keeps the invariant.                                    *)
(***************************************************************************)
LEMMA RegisterAccountStep ==
  ASSUME IInv, txs < MaxTxs, NEW from \in DOMAIN accounts, NEW n \in Names,
         NEW addresses \in KeySets, NEW admin \in BOOLEAN,
         NEW perms \in Grants \cup {NoPermissions},
         NEW deploy \in BOOLEAN, NEW frozen \in BOOLEAN, NEW extra \in Extras,
         RegisterAccount(from, n, addresses, admin, perms, deploy, frozen, extra)
  PROVE  IInv'
  <1>1. /\ Typed /\ n \notin DOMAIN accounts /\ DOMAIN accounts' = DOMAIN accounts \cup {n}
        /\ \A m \in DOMAIN accounts :
             SameRights(m) /\ SameKeys(m) /\ SameLost(m) /\ Counts(m)
        /\ accounts'[n].admin = admin /\ accounts'[n].perms = perms
        /\ accounts'[n].addresses = addresses /\ accounts'[n].lost = extra.lost
        /\ carried' = [carried EXCEPT ![n] = extra.lost]
        /\ UNCHANGED <<domains, now, header, asked, recovered>> /\ txs' = txs + 1
    <2>1. TypeOK
      BY DEF IInv
    <2>2. AccountRegistered(n, addresses, admin, perms, extra)
      BY <2>1, RegisterAccountEffect, Zenon
    <2> QED BY <2>2 DEF AccountRegistered
  <1>2. checkAddress(addresses) /\ Registrable(from, n, admin, perms)
    BY DEF RegisterAccount, VerifyAccountRegister
  <1>3. TypeOK'
    <2>1. carried' \in [Names -> Requests \cup {NoRequest}]
      BY <1>1, NamesAssumption DEF IInv, TypeOK
    <2> QED BY <1>1, <2>1, TypeKept DEF IInv, TypeOK
  <1>4. AdminsHavePermissions'
    <2>1. admin <=> perms # NoPermissions
      BY <1>2 DEF Registrable
    <2> QED BY <1>1, <2>1 DEF IInv, AdminsHavePermissions, SameRights
  <1>5. DomainsHaveAdmin'
    BY <1>1 DEF IInv, DomainsHaveAdmin, SameRights
  <1>6. RightsHaveSource'
    <2> SUFFICES ASSUME NEW m \in DOMAIN accounts', NEW right \in Compared,
                        Authorized(m, right)'
                 PROVE  GrantedAtGenesis(m, right) \/ GrantedByDomain(m)
      BY <1>1 DEF RightsHaveSource, GrantedAtGenesis, GrantedByDomain
    <2>1. CASE m # n
      BY <1>1, <2>1 DEF IInv, RightsHaveSource, Authorized, SameRights
    <2>2. CASE m = n
      <3>1. perms # NoPermissions /\ right \in perms
        BY <1>1, <2>2 DEF Authorized
      <3>2. /\ isSubDomain(from.domain, n.domain)
            /\ IsValidPermission(accounts[from].perms, perms)
            /\ accounts[from].perms # NoPermissions
        BY <1>2, <3>1 DEF Registrable, Authorized
      <3> QED BY <2>2, <3>1, <3>2, ValidRights
    <2> QED BY <2>1, <2>2
  <1>7. AddressesDistinct'
    BY <1>1, <1>2 DEF IInv, AddressesDistinct, SameKeys, checkAddress, AddressExist
  <1>8. LostAsked'
    <2>1. carried'[n] = accounts'[n].lost
      BY <1>1 DEF IInv, TypeOK
    <2> QED BY <1>1, <2>1 DEF IInv, LostAsked, SameLost
  <1> QED BY <1>1, <1>3, <1>4, <1>5, <1>6, <1>7, <1>8 DEF IInv, GenesisKept

LEMMA RegisterDomainStep ==
  ASSUME IInv, txs < MaxTxs, NEW from \in DOMAIN accounts, NEW n \in Names,
         NEW addresses \in KeySets, NEW extra \in Extras,
         RegisterDomain(from, n, addresses, extra)
  PROVE  IInv'
  <1>1. /\ Typed /\ DOMAIN accounts' = DOMAIN accounts \cup {n}
        /\ n.domain \notin DOMAIN domains
        /\ domains' = [d \in DOMAIN domains \cup {n.domain} |->
                         IF d = n.domain THEN n.cn ELSE domains[d]]
        /\ \A m \in DOMAIN accounts : m # n =>
             SameRights(m) /\ SameKeys(m) /\ SameLost(m) /\ Counts(m)
        /\ accounts'[n].admin = TRUE /\ accounts'[n].perms = Compared
        /\ accounts'[n].addresses = addresses /\ accounts'[n].lost = extra.lost
        /\ asked' = [asked EXCEPT ![n] = {}] /\ carried' = [carried EXCEPT ![n] = extra.lost]
        /\ UNCHANGED <<now, header, recovered>> /\ txs' = txs + 1
    BY RegisterDomainEffect DEF IInv
  <1>2. checkAddress(addresses)
    BY DEF RegisterDomain, VerifyRegisterDomain
  <1>3. TypeOK'
    <2>1. /\ asked' \in [Names -> SUBSET (Addresses \X Nat)]
          /\ carried' \in [Names -> Requests \cup {NoRequest}]
      BY <1>1, NamesAssumption DEF IInv, TypeOK
    <2>2. DOMAIN domains' \subseteq Domains
      BY <1>1 DEF IInv, TypeOK, Domains
    <2> QED BY <1>1, <2>1, <2>2, TypeKept DEF IInv, TypeOK
  <1>4. AdminsHavePermissions'
    <2>1. Compared # NoPermissions
      BY DEF Compared, Rights, NoPermissions
    <2> QED BY <1>1, <2>1 DEF IInv, AdminsHavePermissions, SameRights
  <1>5. DomainsHaveAdmin'
    <2> SUFFICES ASSUME NEW d \in DOMAIN domains'
                 PROVE  \E m \in DOMAIN accounts' :
                          m.domain = d /\ m.cn = domains'[d] /\ accounts'[m].admin
      BY DEF DomainsHaveAdmin
    <2>1. CASE d = n.domain
      BY <1>1, <2>1
    <2>2. CASE d # n.domain
      BY <1>1, <2>2 DEF IInv, DomainsHaveAdmin, SameRights
    <2> QED BY <2>1, <2>2
  <1>6. RightsHaveSource'
    <2> SUFFICES ASSUME NEW m \in DOMAIN accounts', NEW right \in Compared,
                        Authorized(m, right)'
                 PROVE  GrantedAtGenesis(m, right) \/ GrantedByDomain(m)'
      BY DEF RightsHaveSource, GrantedAtGenesis
    <2>1. CASE m # n
      <3>1. GrantedAtGenesis(m, right) \/ GrantedByDomain(m)
        BY <1>1, <2>1 DEF IInv, RightsHaveSource, Authorized, SameRights
      <3> QED BY <1>1, <3>1 DEF GrantedByDomain
    <2>2. CASE m = n /\ n.domain \notin DOMAIN GenesisDomains
      BY <1>1, <2>2 DEF GrantedByDomain, AtOrBelow
    <2>3. CASE m = n /\ n.domain \in DOMAIN GenesisDomains
      BY <1>1, <2>3 DEF IInv, GenesisKept
    <2> QED BY <2>1, <2>2, <2>3
  <1>7. AddressesDistinct'
    BY <1>1, <1>2 DEF IInv, AddressesDistinct, SameKeys, checkAddress, AddressExist
  <1>8. LostAsked'
    <2>1. carried'[n] = accounts'[n].lost
      BY <1>1 DEF IInv, TypeOK
    <2> QED BY <1>1, <2>1 DEF IInv, LostAsked, SameLost
  <1>9. GenesisKept'
    BY <1>1 DEF IInv, GenesisKept
  <1> QED BY <1>3, <1>4, <1>5, <1>6, <1>7, <1>8, <1>9 DEF IInv

(***************************************************************************)
(* An operation that leaves rights, addresses and requests alone.          *)
(***************************************************************************)
LEMMA QuietStep ==
  ASSUME IInv, txs < MaxTxs, Typed, DOMAIN accounts' = DOMAIN accounts,
         \A m \in DOMAIN accounts : SameRights(m) /\ SameKeys(m) /\ SameLost(m) /\ Counts(m),
         UNCHANGED <<domains, now, header, asked, carried, recovered>>, txs' = txs + 1
  PROVE  IInv'
  <1>1. TypeOK'
    BY TypeKept DEF IInv, TypeOK
  <1>2. AdminsHavePermissions' /\ DomainsHaveAdmin' /\ RightsHaveSource'
    BY RightsKept DEF IInv
  <1>3. AddressesDistinct' /\ LostAsked'
    BY KeysKept, LostKept DEF IInv
  <1> QED BY <1>1, <1>2, <1>3 DEF IInv, GenesisKept

LEMMA UpdatePermissionStep ==
  ASSUME IInv, txs < MaxTxs, NEW from \in DOMAIN accounts, NEW n \in Names,
         NEW perms \in Grants, UpdatePermission(from, n, perms)
  PROVE  IInv'
  <1>1. /\ Typed /\ DOMAIN accounts' = DOMAIN accounts /\ n \in DOMAIN accounts
        /\ \A m \in DOMAIN accounts : SameKeys(m) /\ SameLost(m) /\ Counts(m)
        /\ \A m \in DOMAIN accounts : m # n => SameRights(m)
        /\ accounts'[n].admin = accounts[n].admin /\ accounts'[n].perms = perms
        /\ UNCHANGED <<domains, now, header, asked, carried, recovered>> /\ txs' = txs + 1
    BY UpdatePermissionEffect DEF IInv
  <1>2. /\ accounts[from].admin /\ accounts[n].admin
        /\ isSubDomain(from.domain, n.domain)
        /\ IsValidPermission(accounts[from].perms, perms)
    BY DEF UpdatePermission, VerifyUpdateDataPermissionOp
  <1>3. TypeOK'
    BY <1>1, TypeKept DEF IInv, TypeOK
  <1>4. AdminsHavePermissions'
    <2>1. perms \in SUBSET Rights /\ NoPermissions \notin SUBSET Rights
      BY NamesAssumption DEF NoPermissions, Rights
    <2> QED BY <1>1, <1>2, <2>1 DEF IInv, AdminsHavePermissions, SameRights
  <1>5. DomainsHaveAdmin'
    BY <1>1 DEF IInv, DomainsHaveAdmin, SameRights
  <1>6. RightsHaveSource'
    <2> SUFFICES ASSUME NEW m \in DOMAIN accounts', NEW right \in Compared,
                        Authorized(m, right)'
                 PROVE  GrantedAtGenesis(m, right) \/ GrantedByDomain(m)
      BY <1>1 DEF RightsHaveSource, GrantedAtGenesis, GrantedByDomain
    <2>1. CASE m # n
      BY <1>1, <2>1 DEF IInv, RightsHaveSource, Authorized, SameRights
    <2>2. CASE m = n
      <3>1. right \in perms
        BY <1>1, <2>2 DEF Authorized
      <3>2. accounts[from].perms # NoPermissions
        BY <1>2 DEF IInv, AdminsHavePermissions
      <3> QED BY <1>2, <2>2, <3>1, <3>2, ValidRights
    <2> QED BY <2>1, <2>2
  <1>7. AddressesDistinct' /\ LostAsked'
    BY <1>1, KeysKept, LostKept DEF IInv
  <1> QED BY <1>1, <1>3, <1>4, <1>5, <1>6, <1>7 DEF IInv, GenesisKept

LEMMA LostRequestStep ==
  ASSUME IInv, txs < MaxTxs, NEW from \in DOMAIN accounts, NEW n \in Names,
         NEW addr \in Addresses, LostRequest(from, n, addr)
  PROVE  IInv'
  <1>1. /\ Typed /\ DOMAIN accounts' = DOMAIN accounts /\ n \in DOMAIN accounts
        /\ \A m \in DOMAIN accounts : SameRights(m) /\ SameKeys(m) /\ Counts(m)
        /\ \A m \in DOMAIN accounts : m # n => SameLost(m)
        /\ accounts'[n].lost = Requested(n, addr)
        /\ asked' = [asked EXCEPT ![n] = @ \cup {<<addr, header>>}]
        /\ carried' = [carried EXCEPT ![n] = NoRequest]
        /\ UNCHANGED <<domains, now, header, recovered>> /\ txs' = txs + 1
    BY LostRequestEffect DEF IInv
  <1>2. TypeOK'
    <2>1. /\ asked' \in [Names -> SUBSET (Addresses \X Nat)]
          /\ carried' \in [Names -> Requests \cup {NoRequest}]
      BY <1>1, BoundsAssumption DEF IInv, TypeOK
    <2> QED BY <1>1, <2>1, TypeKept DEF IInv, TypeOK
  <1>3. AdminsHavePermissions' /\ DomainsHaveAdmin' /\ RightsHaveSource'
    BY <1>1, RightsKept DEF IInv
  <1>4. AddressesDistinct'
    BY <1>1, KeysKept DEF IInv
  <1>5. LostAsked'
    <2>1. <<addr, header>> \in asked'[n]
      BY <1>1 DEF IInv, TypeOK
    <2> SUFFICES ASSUME NEW m \in DOMAIN accounts, accounts'[m].lost # NoRequest
                 PROVE  \/ carried'[m] = accounts'[m].lost
                        \/ \E request \in asked'[m] :
                             /\ request[1] = accounts'[m].lost.recoverAddr
                             /\ request[2] + LostFoundInterval = accounts'[m].lost.timeStamp
      BY <1>1 DEF LostAsked
    <2>2. CASE m = n
      BY <1>1, <2>1, <2>2 DEF Requested
    <2>3. CASE m # n
      BY <1>1, <2>3 DEF IInv, LostAsked, SameLost
    <2> QED BY <2>2, <2>3
  <1> QED BY <1>1, <1>2, <1>3, <1>4, <1>5 DEF IInv, GenesisKept

LEMMA FoundRequestStep ==
  ASSUME IInv, txs < MaxTxs, NEW from \in DOMAIN accounts, NEW signer \in Addresses,
         FoundRequest(from, signer)
  PROVE  IInv'
  <1>1. /\ Typed /\ DOMAIN accounts' = DOMAIN accounts
        /\ \A m \in DOMAIN accounts : SameRights(m) /\ Counts(m)
        /\ \A m \in DOMAIN accounts : m # from => SameKeys(m) /\ SameLost(m)
        /\ accounts'[from].lost = NoRequest /\ accounts'[from].addresses = {signer}
        /\ asked' = [asked EXCEPT ![from] = {}] /\ recovered' = recovered \cup {signer}
        /\ carried' = [carried EXCEPT ![from] = NoRequest]
        /\ UNCHANGED <<domains, now, header>> /\ txs' = txs + 1
    BY FoundRequestEffect DEF IInv
  <1>2. TypeOK'
    <2>1. /\ asked' \in [Names -> SUBSET (Addresses \X Nat)] /\ recovered' \subseteq Addresses
          /\ carried' \in [Names -> Requests \cup {NoRequest}]
      BY <1>1 DEF IInv, TypeOK
    <2> QED BY <1>1, <2>1, TypeKept DEF IInv, TypeOK
  <1>3. AdminsHavePermissions' /\ DomainsHaveAdmin' /\ RightsHaveSource'
    BY <1>1, RightsKept DEF IInv
  <1>4. AddressesDistinct'
    BY <1>1 DEF IInv, AddressesDistinct, SameKeys
  <1>5. LostAsked'
    BY <1>1, LostKept DEF IInv
  <1> QED BY <1>1, <1>2, <1>3, <1>4, <1>5 DEF IInv, GenesisKept

LEMMA LostResetStep ==
  ASSUME IInv, txs < MaxTxs, NEW from \in DOMAIN accounts, LostReset(from)
  PROVE  IInv'
  <1>1. /\ Typed /\ DOMAIN accounts' = DOMAIN accounts
        /\ \A m \in DOMAIN accounts : SameRights(m) /\ SameKeys(m) /\ Counts(m)
        /\ \A m \in DOMAIN accounts : m # from => SameLost(m)
        /\ accounts'[from].lost = NoRequest
        /\ asked' = [asked EXCEPT ![from] = {}] /\ carried' = [carried EXCEPT ![from] = NoRequest]
        /\ UNCHANGED <<domains, now, header, recovered>> /\ txs' = txs + 1
    BY LostResetEffect DEF IInv
  <1>2. TypeOK'
    <2>1. /\ asked' \in [Names -> SUBSET (Addresses \X Nat)]
          /\ carried' \in [Names -> Requests \cup {NoRequest}]
      BY <1>1 DEF IInv, TypeOK
    <2> QED BY <1>1, <2>1, TypeKept DEF IInv, TypeOK
  <1>3. AdminsHavePermissions' /\ DomainsHaveAdmin' /\ RightsHaveSource'
    BY <1>1, RightsKept DEF IInv
  <1>4. AddressesDistinct' /\ LostAsked'
    BY <1>1, KeysKept, LostKept DEF IInv
  <1> QED BY <1>1, <1>2, <1>3, <1>4 DEF IInv, GenesisKept

(***************************************************************************)
(* A step that moves time only.                                            *)
(***************************************************************************)
LEMMA TimeStep ==
  ASSUME IInv, UNCHANGED <<accounts, domains, asked, carried, recovered>>, TypeOK'
  PROVE  IInv'
  <1>1. AdminsHavePermissions' /\ DomainsHaveAdmin'
    BY DEF IInv, AdminsHavePermissions, DomainsHaveAdmin
  <1>2. RightsHaveSource'
    BY DEF IInv, RightsHaveSource, Authorized, GrantedAtGenesis, GrantedByDomain
  <1>3. AddressesDistinct' /\ LostAsked' /\ GenesisKept'
    BY DEF IInv, AddressesDistinct, LostAsked, GenesisKept
  <1> QED BY <1>1, <1>2, <1>3 DEF IInv

LEMMA NextIInv == IInv /\ [Next]_vars => IInv'
  <1> SUFFICES ASSUME IInv, [Next]_vars PROVE IInv'
    OBVIOUS
  <1>1. ASSUME txs < MaxTxs, NEW from \in DOMAIN accounts, NEW n \in Names, AccountTx(from, n)
        PROVE  IInv'
    <2>1. ASSUME NEW admin \in BOOLEAN, NEW deploy \in BOOLEAN, NEW frozen \in BOOLEAN,
                 NEW perms \in Grants \cup {NoPermissions}, NEW addresses \in KeySets,
                 NEW extra \in Extras,
                 RegisterAccount(from, n, addresses, admin, perms, deploy, frozen, extra)
          PROVE  IInv'
      BY <1>1, <2>1, RegisterAccountStep
    <2>2. ASSUME NEW addresses \in KeySets, NEW extra \in Extras,
                 RegisterDomain(from, n, addresses, extra)
          PROVE  IInv'
      BY <1>1, <2>2, RegisterDomainStep
    <2>3. ASSUME NEW frozen \in BOOLEAN, FrozenAccount(from, n, frozen)
          PROVE  IInv'
      BY <1>1, <2>3, FrozenAccountEffect, QuietStep DEF IInv
    <2>4. ASSUME NEW perms \in Grants, UpdatePermission(from, n, perms)
          PROVE  IInv'
      BY <1>1, <2>4, UpdatePermissionStep
    <2> QED BY <1>1, <2>1, <2>2, <2>3, <2>4 DEF AccountTx
  <1>2. ASSUME txs < MaxTxs, NEW from \in DOMAIN accounts,
               NEW partner \in Names \cup {NoPartner}, SetPartner(from, partner)
        PROVE  IInv'
    BY <1>2, SetPartnerEffect, QuietStep DEF IInv
  <1>3. ASSUME txs < MaxTxs, NEW from \in DOMAIN accounts, LostTx(from)
        PROVE  IInv'
    BY <1>3, LostRequestStep, FoundRequestStep, LostResetStep DEF LostTx
  <1>4. CASE Tick
    <2>1. TypeOK'
      BY <1>4, BoundsAssumption DEF IInv, TypeOK, Tick
    <2> QED BY <1>4, <2>1, TimeStep DEF Tick
  <1>5. CASE NextBlock
    <2>1. TypeOK'
      BY <1>5, BoundsAssumption DEF IInv, TypeOK, NextBlock
    <2> QED BY <1>5, <2>1, TimeStep DEF NextBlock
  <1>6. CASE UNCHANGED vars
    <2>1. TypeOK'
      BY <1>6 DEF IInv, TypeOK, vars
    <2> QED BY <1>6, <2>1, TimeStep DEF vars
  <1> QED BY <1>1, <1>2, <1>3, <1>4, <1>5, <1>6 DEF Next

-------------------------------------------------------------------------------
(***************************************************************************)
(* The invariant holds always.                                             *)
(***************************************************************************)
THEOREM InvariantHolds == Spec => []IInv
  <1> QED BY InitIInv, NextIInv, PTL DEF Spec

(***************************************************************************)
(* Accounts only ever hold what the code's types let them hold, and the    *)
(* block executed is never ahead of the clock.                             *)
(***************************************************************************)
THEOREM TypeCorrect == Spec => []TypeOK
  <1>1. IInv => TypeOK
    BY DEF IInv
  <1> QED BY <1>1, InvariantHolds, PTL

(***************************************************************************)
(* No sequence of registrations and updates, of any length, leaves an      *)
(* administrator without permissions: permission.go:56 and register.go:105 *)
(* never follow a nil pointer.                                             *)
(***************************************************************************)
THEOREM AdminsAlwaysHavePermissions == Spec => []AdminsHavePermissions
  <1>1. IInv => AdminsHavePermissions
    BY DEF IInv
  <1> QED BY <1>1, InvariantHolds, PTL

(***************************************************************************)
(* A registered domain has its administrator for good (register.go:156).   *)
(***************************************************************************)
THEOREM DomainsKeepAdmin == Spec => []DomainsHaveAdmin
  <1>1. IInv => DomainsHaveAdmin
    BY DEF IInv
  <1> QED BY <1>1, InvariantHolds, PTL

(***************************************************************************)
(* Whatever the tree of domains, a compared right comes from the first     *)
(* block or from RegisterDomain above (permission.go:12).                  *)
(***************************************************************************)
THEOREM RightsAlwaysHaveSource == Spec => []RightsHaveSource
  <1>1. IInv => RightsHaveSource
    BY DEF IInv
  <1> QED BY <1>1, InvariantHolds, PTL

(***************************************************************************)
(* Two accounts share no address that did not come with a recovery         *)
(* (register.go:164).                                                      *)
(***************************************************************************)
THEOREM AddressesStayDistinct == Spec => []AddressesDistinct
  <1>1. IInv => AddressesDistinct
    BY DEF IInv
  <1> QED BY <1>1, InvariantHolds, PTL

-------------------------------------------------------------------------------
(***************************************************************************)
(* The action properties: of the operations only RegisterDomain and        *)
(* FoundRequest change the addresses of an account that exists.            *)
(***************************************************************************)
TakeoverAnnounced(n) ==
  accounts'[n].addresses # accounts[n].addresses =>
    \/ Announced(n, accounts'[n].addresses)
    \/ Carried(n, accounts'[n].addresses)
    \/ n.domain \notin DOMAIN domains /\ n.domain \in DOMAIN domains'

RegistrationKept(n) ==
  n.domain \in DOMAIN domains =>
    n \in DOMAIN accounts' /\ accounts'[n].nonce >= accounts[n].nonce

Careful(n) == TakeoverAnnounced(n) /\ RegistrationKept(n)

LEMMA QuietCareful ==
  ASSUME DOMAIN accounts \subseteq DOMAIN accounts', NEW n \in DOMAIN accounts,
         SameKeys(n), Counts(n)
  PROVE  Careful(n)
  BY DEF Careful, TakeoverAnnounced, RegistrationKept, SameKeys, Counts

LEMMA RegisterDomainCareful ==
  ASSUME TypeOK, NEW from \in DOMAIN accounts, NEW m \in Names,
         NEW addresses \in KeySets, NEW extra \in Extras,
         RegisterDomain(from, m, addresses, extra),
         NEW n \in DOMAIN accounts
  PROVE  Careful(n)
  <1>1. /\ DOMAIN accounts' = DOMAIN accounts \cup {m}
        /\ m.domain \notin DOMAIN domains
        /\ domains' = [d \in DOMAIN domains \cup {m.domain} |->
                         IF d = m.domain THEN m.cn ELSE domains[d]]
        /\ \A k \in DOMAIN accounts : k # m =>
             SameRights(k) /\ SameKeys(k) /\ SameLost(k) /\ Counts(k)
    BY RegisterDomainEffect
  <1>2. CASE n = m
    BY <1>1, <1>2 DEF Careful, TakeoverAnnounced, RegistrationKept
  <1>3. CASE n # m
    BY <1>1, <1>3, QuietCareful
  <1> QED BY <1>2, <1>3

LEMMA FoundRequestCareful ==
  ASSUME IInv, NEW from \in DOMAIN accounts, NEW signer \in Addresses,
         FoundRequest(from, signer), NEW n \in DOMAIN accounts
  PROVE  Careful(n)
  <1>1. /\ DOMAIN accounts' = DOMAIN accounts
        /\ \A m \in DOMAIN accounts : SameRights(m) /\ Counts(m)
        /\ \A m \in DOMAIN accounts : m # from => SameKeys(m) /\ SameLost(m)
        /\ accounts'[from].addresses = {signer}
        /\ accounts[from].lost # NoRequest /\ accounts[from].lost.recoverAddr = signer
        /\ now >= accounts[from].lost.timeStamp
    BY FoundRequestEffect DEF IInv
  <1>2. CASE n = from
    <2>1. ASSUME carried[from] = accounts[from].lost PROVE Carried(from, {signer})
      <3>1. accounts[from].lost \in Requests /\ now \in Int
        BY <1>1, BoundsAssumption DEF IInv, TypeOK, Account
      <3>2. accounts[from].lost.timeStamp <= now
        BY <1>1, <3>1 DEF Requests
      <3> QED BY <1>1, <2>1, <3>2 DEF Carried
    <2>2. ASSUME carried[from] # accounts[from].lost PROVE Announced(from, {signer})
      <3>1. PICK request \in asked[from] :
              /\ request[1] = accounts[from].lost.recoverAddr
              /\ request[2] + LostFoundInterval = accounts[from].lost.timeStamp
        BY <1>1, <2>2 DEF IInv, LostAsked
      <3>2. from \in Names /\ asked[from] \subseteq Addresses \X Nat
        BY DEF IInv, TypeOK
      <3>3. request[2] \in Nat /\ now \in Int /\ LostFoundInterval \in Nat
        BY <3>2, BoundsAssumption DEF IInv, TypeOK
      <3>4. request[2] + LostFoundInterval <= now
        BY <1>1, <3>1, <3>3
      <3> QED BY <1>1, <3>1, <3>4 DEF Announced
    <2>3. Announced(from, {signer}) \/ Carried(from, {signer})
      BY <2>1, <2>2
    <2> QED BY <1>1, <1>2, <2>3 DEF Careful, TakeoverAnnounced, RegistrationKept, Counts
  <1>3. CASE n # from
    BY <1>1, <1>3, QuietCareful
  <1> QED BY <1>2, <1>3

LEMMA NextCareful ==
  ASSUME IInv, Next, NEW n \in DOMAIN accounts
  PROVE  Careful(n)
  <1>0. TypeOK
    BY DEF IInv
  <1>1. ASSUME NEW from \in DOMAIN accounts, NEW m \in Names, AccountTx(from, m)
        PROVE  Careful(n)
    <2>1. ASSUME NEW admin \in BOOLEAN, NEW deploy \in BOOLEAN, NEW frozen \in BOOLEAN,
                 NEW perms \in Grants \cup {NoPermissions}, NEW addresses \in KeySets,
                 NEW extra \in Extras,
                 RegisterAccount(from, m, addresses, admin, perms, deploy, frozen, extra)
          PROVE  Careful(n)
      <3>1. AccountRegistered(m, addresses, admin, perms, extra)
        BY <1>0, <2>1, RegisterAccountEffect, Zenon
      <3>2. DOMAIN accounts' = DOMAIN accounts \cup {m} /\ SameKeys(n) /\ Counts(n)
        BY <3>1 DEF AccountRegistered
      <3> QED BY <3>2, QuietCareful
    <2>2. ASSUME NEW addresses \in KeySets, NEW extra \in Extras,
                 RegisterDomain(from, m, addresses, extra)
          PROVE  Careful(n)
      BY <1>0, <2>2, RegisterDomainCareful
    <2>3. ASSUME NEW frozen \in BOOLEAN, FrozenAccount(from, m, frozen)
          PROVE  Careful(n)
      BY <1>0, <2>3, FrozenAccountEffect, QuietCareful
    <2>4. ASSUME NEW perms \in Grants, UpdatePermission(from, m, perms)
          PROVE  Careful(n)
      BY <1>0, <2>4, UpdatePermissionEffect, QuietCareful
    <2> QED BY <1>1, <2>1, <2>2, <2>3, <2>4 DEF AccountTx
  <1>2. ASSUME NEW from \in DOMAIN accounts, NEW partner \in Names \cup {NoPartner},
               SetPartner(from, partner)
        PROVE  Careful(n)
    BY <1>0, <1>2, SetPartnerEffect, QuietCareful
  <1>3. ASSUME NEW from \in DOMAIN accounts, LostTx(from)
        PROVE  Careful(n)
    <2>1. ASSUME NEW m \in Names, NEW addr \in Addresses, LostRequest(from, m, addr)
          PROVE  Careful(n)
      BY <1>0, <2>1, LostRequestEffect, QuietCareful
    <2>2. ASSUME NEW signer \in Addresses, FoundRequest(from, signer)
          PROVE  Careful(n)
      BY <2>2, FoundRequestCareful
    <2>3. ASSUME LostReset(from)
          PROVE  Careful(n)
      BY <1>0, <2>3, LostResetEffect, QuietCareful
    <2> QED BY <1>3, <2>1, <2>2, <2>3 DEF LostTx
  <1>4. ASSUME UNCHANGED accounts PROVE Careful(n)
    <2>1. accounts[n].nonce \in Nat
      BY <1>0 DEF TypeOK, Account
    <2> QED BY <1>4, <2>1, QuietCareful DEF SameKeys, Counts
  <1> QED BY <1>1, <1>2, <1>3, <1>4 DEF Next, Tick, NextBlock

(***************************************************************************)
(* Whatever order transactions and blocks come in and whatever the         *)
(* interval, nobody's account is taken over without a request of the       *)
(* partner that old (lostinterpreter.go:140-211), but by the request that  *)
(* the account's own registration carried (register.go:31-162), and by the *)
(* registration of the account's domain.                                   *)
(***************************************************************************)
THEOREM AllTakeoversAnnounced == Spec => TakeoversAnnounced
  <1>1. IInv /\ [Next]_vars =>
          [\A n \in DOMAIN accounts : TakeoverAnnounced(n)]_vars
    BY NextCareful DEF Careful
  <1>2. [\A n \in DOMAIN accounts : TakeoverAnnounced(n)]_vars
          => [\A n \in DOMAIN accounts :
                accounts'[n].addresses # accounts[n].addresses =>
                  \/ Announced(n, accounts'[n].addresses)
                  \/ Carried(n, accounts'[n].addresses)
                  \/ n.domain \notin DOMAIN domains /\ n.domain \in DOMAIN domains']_vars
    BY DEF TakeoverAnnounced
  <1> QED BY <1>1, <1>2, InvariantHolds, PTL DEF Spec, TakeoversAnnounced

(***************************************************************************)
(* No transaction replaces an account of a registered domain or turns its  *)
(* nonce back (register.go:125, 56).                                       *)
(***************************************************************************)
THEOREM RegisteredAlwaysKept == Spec => RegisteredKept
  <1>1. IInv /\ [Next]_vars =>
          [\A n \in DOMAIN accounts : RegistrationKept(n)]_vars
    BY NextCareful DEF Careful
  <1>2. [\A n \in DOMAIN accounts : RegistrationKept(n)]_vars
          => [\A n \in DOMAIN accounts :
                n.domain \in DOMAIN domains =>
                  n \in DOMAIN accounts' /\ accounts'[n].nonce >= accounts[n].nonce]_vars
    BY DEF RegistrationKept
  <1> QED BY <1>1, <1>2, InvariantHolds, PTL DEF Spec, RegisteredKept
===============================================================================
