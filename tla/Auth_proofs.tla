----------------------------- MODULE Auth_proofs -----------------------------
(***************************************************************************)
(* Theorems about Auth, for any sets of requests, emails, passwords and    *)
(* codes.  Accounts are only appended, so the oldest account with an email *)
(* stays the oldest: what loginOtp and verifyOtp have found by an email is *)
(* the same account, whoever registers in between.                         *)
(***************************************************************************)
EXTENDS Auth, TLAPS

\* For LeastNatural; Auth has no sessions, so any variables do for those of MongoSession.
Shared == INSTANCE SharedLemmas WITH held <- accounts, stale <- otps

AccountRecord == [email : Emails, password : Passwords \cup {None}, google : GoogleUsers \cup {None}]
OtpRecord == [code : Codes, account : Accounts, email : Emails,
              insert : {"pending", "stored", "lost"}, mailed : BOOLEAN, expired : BOOLEAN]
TokenRecord == [account : Accounts, by : {"password", "otp", "google"}, code : Codes \cup {None}]

\* a is the account that email finds.
Finds(email, a) == HavingEmail(email) # {} /\ a = Oldest(HavingEmail(email))

\* What a request holds at each of its awaits.
RequestOK(r) ==
  LET req == request[r]
  IN \/ req = Idle
     \/ req \in [at : {"register"}, email : Emails, password : Passwords]
     \/ /\ req \in [at : {"compare"}, email : Emails, password : Passwords, otp : BOOLEAN,
                    account : Accounts]
        /\ Finds(req.email, req.account)
     \/ req \in [at : {"mail"}, id : OtpIds]
     \/ /\ req \in [at : {"verify"}, email : Emails, code : Codes, account : Accounts]
        /\ Finds(req.email, req.account)
     \/ req \in [at : {"google"}, google : GoogleUsers, email : Emails, account : Accounts \cup {0}]

\* A code was drawn for the account that its email finds, and that has a password.
OtpOK(i) ==
  Finds(otps[i].email, otps[i].account) /\ accounts[otps[i].account].password # None

\* A request on its own still finds what it has looked for.
OneAtATime ==
  /\ \A r, q \in Requests : r # q => request[r] = Idle \/ request[q] = Idle
  /\ \A r \in Requests :
       /\ request[r].at = "register" => HavingEmail(request[r].email) = {}
       /\ request[r].at = "google" => request[r].account = Oldest(HavingGoogle(request[r].google))

AuthInv ==
  /\ AuthTypeOK
  /\ Len(accounts) <= MaxAccounts
  /\ DOMAIN request = Requests
  /\ \A r \in Requests : RequestOK(r)
  /\ \A i \in OtpIds : OtpOK(i)
  /\ OtpTokensFollowPassword
  /\ MailedCodeIsAccepted
  /\ EveryAccountIsReachable
  /\ ~overlapped => OneAtATime
-----------------------------------------------------------------------------
(* The oldest of some accounts. *)

\* There is an oldest account in every set of them.
LEMMA OldestExists ==
  ASSUME NEW S \in SUBSET Nat, S # {}
  PROVE  Oldest(S) \in S /\ \A b \in S : Oldest(S) <= b
  <1>1. \E a \in S : \A b \in S : a <= b
    BY Shared!LeastNatural
  <1> QED BY <1>1 DEF Oldest

\* A later account does not become the oldest of some.
LEMMA OldestStays ==
  ASSUME NEW S \in SUBSET Nat, S # {}, NEW n \in Nat, \A b \in S : b < n
  PROVE  Oldest(S \cup {n}) = Oldest(S)
  <1>1. Oldest(S) \in S /\ \A b \in S : Oldest(S) <= b
    BY OldestExists
  <1>2. Oldest(S \cup {n}) \in S \cup {n} /\ \A b \in S \cup {n} : Oldest(S \cup {n}) <= b
    BY OldestExists
  <1> DEFINE old == Oldest(S)
             new == Oldest(S \cup {n})
  <1>3. old \in Nat /\ new \in Nat /\ new <= old /\ old < n
    BY <1>1, <1>2
  <1>4. new \in S /\ old <= new
    BY <1>1, <1>2, <1>3
  <1> HIDE DEF old, new
  <1>5. old = new
    BY <1>3, <1>4
  <1> QED BY <1>5 DEF old, new

\* An account is the oldest of itself.
LEMMA OldestAlone ==
  ASSUME NEW n \in Nat
  PROVE  Oldest({n}) = n
  BY OldestExists
-----------------------------------------------------------------------------
(* What an account more changes. *)

\* A new account n is found where no older one is, and does not come before an older one.
LEMMA NewAccountFound ==
  ASSUME NEW n \in Nat, NEW email, NEW google,
         DOMAIN accounts' = DOMAIN accounts \cup {n},
         \A a \in DOMAIN accounts : accounts'[a] = accounts[a] /\ a \in Nat /\ a < n,
         accounts'[n].email = email, accounts'[n].google = google
  PROVE  /\ \A e : HavingEmail(e) # {} => Oldest(HavingEmail(e)') = Oldest(HavingEmail(e))
                                          /\ HavingEmail(e)' # {}
         /\ \A g : HavingGoogle(g) # {} => Oldest(HavingGoogle(g)') = Oldest(HavingGoogle(g))
         /\ HavingEmail(email) = {} => Oldest(HavingEmail(email)') = n
         /\ HavingGoogle(google) = {} => Oldest(HavingGoogle(google)') = n
  <1>2. ASSUME NEW e PROVE HavingEmail(e)' = HavingEmail(e) \cup (IF e = email THEN {n} ELSE {})
    BY DEF HavingEmail
  <1>3. ASSUME NEW g PROVE HavingGoogle(g)' = HavingGoogle(g) \cup (IF g = google THEN {n} ELSE {})
    BY DEF HavingGoogle
  <1>4. ASSUME NEW e PROVE HavingEmail(e) \in SUBSET Nat /\ \A a \in HavingEmail(e) : a < n
    BY DEF HavingEmail
  <1>5. ASSUME NEW g PROVE HavingGoogle(g) \in SUBSET Nat /\ \A a \in HavingGoogle(g) : a < n
    BY DEF HavingGoogle
  <1>6. ASSUME NEW e, HavingEmail(e) # {}
        PROVE  Oldest(HavingEmail(e)') = Oldest(HavingEmail(e)) /\ HavingEmail(e)' # {}
    <2>1. CASE e = email BY <1>2, <1>4, <1>6, <2>1, OldestStays
    <2>2. CASE e # email BY <1>2, <1>6, <2>2
    <2> QED BY <2>1, <2>2
  <1>7. ASSUME NEW g, HavingGoogle(g) # {}
        PROVE  Oldest(HavingGoogle(g)') = Oldest(HavingGoogle(g))
    <2>1. CASE g = google BY <1>3, <1>5, <1>7, <2>1, OldestStays
    <2>2. CASE g # google BY <1>3, <1>7, <2>2
    <2> QED BY <2>1, <2>2
  <1>8. HavingEmail(email) = {} => Oldest(HavingEmail(email)') = n
    BY <1>2, OldestAlone
  <1>9. HavingGoogle(google) = {} => Oldest(HavingGoogle(google)') = n
    BY <1>3, OldestAlone
  <1> QED BY <1>6, <1>7, <1>8, <1>9
-----------------------------------------------------------------------------
(* What a step leaves as it was.  Keeps says that no email finds another account
   than before, and that no account has changed. *)

Keeps ==
  /\ \A e : HavingEmail(e) # {} => Oldest(HavingEmail(e)') = Oldest(HavingEmail(e))
                                   /\ HavingEmail(e)' # {}
  /\ \A a \in DOMAIN accounts : a \in DOMAIN accounts' /\ accounts'[a] = accounts[a]

\* Nobody is found elsewhere while no account changes.
LEMMA SameAccountsKept ==
  ASSUME UNCHANGED accounts
  PROVE  Keeps
  BY DEF Keeps, HavingEmail

\* What an email finds is an account, and is found again.
LEMMA FoundAccount ==
  ASSUME accounts \in Seq(AccountRecord), NEW e, NEW a, Finds(e, a)
  PROVE  a \in DOMAIN accounts /\ (Keeps => Finds(e, a)')
  <1>1. HavingEmail(e) \in SUBSET Nat
    BY DEF HavingEmail
  <1>2. a \in HavingEmail(e)
    BY <1>1, OldestExists DEF Finds
  <1> QED BY <1>2 DEF Keeps, Finds, HavingEmail

\* A request that does not move still holds what it should.
LEMMA RequestKept ==
  ASSUME accounts \in Seq(AccountRecord), Keeps, OtpIds \subseteq OtpIds',
         NEW q \in Requests, RequestOK(q), request'[q] = request[q]
  PROVE  RequestOK(q)'
  <1>1. \A e, a : Finds(e, a) => Finds(e, a)'
    BY FoundAccount
  <1> QED BY <1>1 DEF RequestOK, Idle

\* A code that keeps its account and email is still one for an account with a password.
LEMMA OtpKept ==
  ASSUME accounts \in Seq(AccountRecord), Keeps, NEW i, OtpOK(i),
         otps'[i].account = otps[i].account, otps'[i].email = otps[i].email
  PROVE  OtpOK(i)'
  <1>1. otps[i].account \in DOMAIN accounts /\ Finds(otps[i].email, otps[i].account)'
    BY FoundAccount DEF OtpOK
  <1> QED BY <1>1 DEF OtpOK, Keeps, Finds

\* Tokens for a code stay justified, as codes and accounts are never removed.
LEMMA TokensKept ==
  ASSUME accounts \in Seq(AccountRecord), Keeps, OtpTokensFollowPassword,
         \A i \in OtpIds : OtpOK(i), OtpIds \subseteq OtpIds',
         \A i \in OtpIds : otps'[i].account = otps[i].account /\ otps'[i].code = otps[i].code,
         NEW t \in tokens, t.by = "otp"
  PROVE  /\ accounts'[t.account].password # None
         /\ \E i \in OtpIds' : otps'[i].account = t.account /\ otps'[i].code = t.code
  <1>1. accounts[t.account].password # None
    BY DEF OtpTokensFollowPassword
  <1>2. PICK i \in OtpIds : otps[i].account = t.account /\ otps[i].code = t.code
    BY DEF OtpTokensFollowPassword
  <1>3. t.account \in DOMAIN accounts
    BY <1>2, FoundAccount DEF OtpOK
  <1> QED BY <1>1, <1>2, <1>3 DEF Keeps

\* When the only request under way ends, none is.
LEMMA FinishAlone ==
  ASSUME AuthInv, NEW r \in Requests, request[r] # Idle, Finish(r)
  PROVE  /\ DOMAIN request' = Requests
         /\ request'[r] = Idle /\ RequestOK(r)'
         /\ \A q \in Requests \ {r} : request'[q] = request[q]
         /\ overlapped' = overlapped
         /\ ~overlapped => OneAtATime'
  <1>1. DOMAIN request' = Requests /\ request'[r] = Idle /\ overlapped' = overlapped
        /\ \A q \in Requests \ {r} : request'[q] = request[q]
    BY DEF Finish, AuthInv
  <1>2. RequestOK(r)'
    BY <1>1 DEF RequestOK, Idle
  <1>3. ASSUME ~overlapped PROVE OneAtATime'
    <2>1. \A q \in Requests : request'[q] = Idle
      BY <1>1, <1>3 DEF AuthInv, OneAtATime
    <2> QED BY <2>1 DEF OneAtATime, Idle
  <1> QED BY <1>1, <1>2, <1>3

\* A step that makes no account preserves the invariant when the codes it keeps are
\* as they were, the tokens it gives for a code are justified and what its requests
\* hold is right.
LEMMA NoNewAccount ==
  ASSUME AuthInv, UNCHANGED accounts, refused' = FALSE,
         otps' \in Seq(OtpRecord), OtpIds \subseteq OtpIds',
         \A i \in OtpIds : /\ otps'[i].account = otps[i].account
                           /\ otps'[i].code = otps[i].code
                           /\ otps'[i].email = otps[i].email,
         \A i \in OtpIds' \ OtpIds : OtpOK(i)',
         tokens' \subseteq TokenRecord,
         \A t \in tokens' \ tokens : t.by = "otp" =>
           \E i \in OtpIds : otps[i].account = t.account /\ otps[i].code = t.code,
         overlapped' \in BOOLEAN, overlapped => overlapped',
         DOMAIN request' = Requests,
         \A q \in Requests : request'[q] = request[q] \/ RequestOK(q)',
         ~overlapped' => OneAtATime'
  PROVE  AuthInv'
  <1>1. accounts \in Seq(AccountRecord) /\ Keeps
    BY SameAccountsKept DEF AuthInv, AuthTypeOK, AccountRecord
  <1>2. AuthTypeOK'
    BY DEF AuthInv, AuthTypeOK, OtpRecord, TokenRecord
  <1>3. ASSUME NEW q \in Requests PROVE RequestOK(q)'
    BY <1>1, RequestKept DEF AuthInv
  <1>4. ASSUME NEW i \in OtpIds' PROVE OtpOK(i)'
    BY <1>1, OtpKept DEF AuthInv
  <1>5. OtpTokensFollowPassword'
    <2> SUFFICES ASSUME NEW t \in tokens', t.by = "otp"
                 PROVE  /\ accounts'[t.account].password # None
                        /\ \E i \in OtpIds' : otps'[i].account = t.account /\ otps'[i].code = t.code
      BY DEF OtpTokensFollowPassword
    <2>1. CASE t \in tokens
      BY <1>1, <2>1, TokensKept DEF AuthInv
    <2>2. CASE t \notin tokens
      <3>1. PICK i \in OtpIds : otps[i].account = t.account /\ otps[i].code = t.code
        BY <2>2
      <3> QED BY <3>1 DEF AuthInv, OtpOK
    <2> QED BY <2>1, <2>2
  <1>6. EveryAccountIsReachable'
    BY DEF AuthInv, EveryAccountIsReachable, HavingEmail, HavingGoogle
  <1> QED BY <1>2, <1>3, <1>4, <1>5, <1>6 DEF AuthInv, MailedCodeIsAccepted
-----------------------------------------------------------------------------
(* The steps. *)

\* The parts of the invariant that the steps below need, by name.
LEMMA Typed ==
  ASSUME AuthInv
  PROVE  /\ accounts \in Seq(AccountRecord) /\ otps \in Seq(OtpRecord)
         /\ tokens \subseteq TokenRecord /\ refused = FALSE
  <1>1. refused \in BOOLEAN /\ ~refused
    BY DEF AuthInv, AuthTypeOK, MailedCodeIsAccepted
  <1>2. refused = FALSE
    BY <1>1
  <1> QED BY <1>2 DEF AuthInv, AuthTypeOK, AccountRecord, OtpRecord, TokenRecord

\* So does a request that ends without touching accounts or codes.
LEMMA QuietFinish ==
  ASSUME AuthInv, NEW r \in Requests, request[r] # Idle, Finish(r),
         UNCHANGED <<accounts, otps>>, refused' = FALSE \/ UNCHANGED refused,
         tokens' \subseteq TokenRecord,
         \A t \in tokens' \ tokens : t.by = "otp" =>
           \E i \in OtpIds : otps[i].account = t.account /\ otps[i].code = t.code
  PROVE  AuthInv'
  <1>1. refused' = FALSE /\ otps' \in Seq(OtpRecord) /\ OtpIds' = OtpIds
    BY Typed DEF OtpIds
  <1>2. overlapped \in BOOLEAN
    BY DEF AuthInv, AuthTypeOK
  <1>3. /\ DOMAIN request' = Requests /\ overlapped' = overlapped
        /\ \A q \in Requests : request'[q] = request[q] \/ RequestOK(q)'
        /\ ~overlapped => OneAtATime'
    BY FinishAlone
  <1> QED BY <1>1, <1>2, <1>3, NoNewAccount

\* A request begins with what RequestOK asks for and, on its own, OneAtATime.
LEMMA StartPreserves ==
  ASSUME AuthInv, NEW r \in Requests, NEW req, Start(r, req), req.at # "idle",
         UNCHANGED <<accounts, otps, tokens, refused>>,
         request'[r] = req => RequestOK(r)',
         req.at = "register" => HavingEmail(req.email) = {},
         req.at = "google" => req.account = Oldest(HavingGoogle(req.google))
  PROVE  AuthInv'
  <1>1. /\ DOMAIN request' = Requests /\ request'[r] = req
        /\ \A q \in Requests \ {r} : request'[q] = request[q]
        /\ overlapped' \in BOOLEAN /\ (overlapped => overlapped')
        /\ ~overlapped' => \A q \in Requests \ {r} : request[q] = Idle
    BY DEF Start, AuthInv, AuthTypeOK
  <1>2. ASSUME ~overlapped' PROVE OneAtATime'
    <2>1. \A q \in Requests \ {r} : request'[q] = Idle
      BY <1>1, <1>2
    <2>2. HavingEmail(req.email)' = HavingEmail(req.email)
          /\ HavingGoogle(req.google)' = HavingGoogle(req.google)
      BY DEF HavingEmail, HavingGoogle
    <2> QED
      <3>1. \A p, q \in Requests : p # q => request'[p] = Idle \/ request'[q] = Idle
        BY <2>1
      <3>2. ASSUME NEW q \in Requests
            PROVE  /\ request'[q].at = "register" => HavingEmail(request[q].email)' = {}
                   /\ request'[q].at = "google" =>
                        request'[q].account = Oldest(HavingGoogle(request[q].google)')
        <4>1. CASE q = r BY <4>1, <1>1, <2>2 DEF HavingEmail, HavingGoogle
        <4>2. CASE q # r BY <4>2, <2>1 DEF Idle
        <4> QED BY <4>1, <4>2
      <3> QED BY <3>1, <3>2 DEF OneAtATime, Oldest, HavingEmail, HavingGoogle
  <1>3. \A q \in Requests : request'[q] = request[q] \/ RequestOK(q)'
    BY <1>1
  <1>4. /\ refused' = FALSE /\ otps' \in Seq(OtpRecord) /\ OtpIds' = OtpIds
        /\ tokens' \subseteq TokenRecord
    BY Typed DEF OtpIds
  <1> QED BY <1>1, <1>2, <1>3, <1>4, NoNewAccount

\* Who an email finds is one of the accounts.
LEMMA FoundIsAccount ==
  ASSUME AuthAssumption, AuthInv, NEW e, HavingEmail(e) # {}
  PROVE  Oldest(HavingEmail(e)) \in Accounts /\ Finds(e, Oldest(HavingEmail(e)))
  <1>1. accounts \in Seq(AccountRecord) /\ Len(accounts) <= MaxAccounts
    BY DEF AuthInv, AuthTypeOK, AccountRecord
  <1>2. DOMAIN accounts \subseteq Accounts
    BY <1>1 DEF AuthAssumption, Accounts
  <1>3. Finds(e, Oldest(HavingEmail(e)))
    BY DEF Finds
  <1> QED BY <1>1, <1>2, <1>3, FoundAccount

\* register begins when no account has the email.
LEMMA BeginRegisterPreserves ==
  ASSUME AuthInv, NEW r \in Requests, NEW email \in Emails, NEW password \in Passwords,
         BeginRegister(r, email, password)
  PROVE  AuthInv'
  <1> DEFINE req == [at |-> "register", email |-> email, password |-> password]
  <1>1. req \in [at : {"register"}, email : Emails, password : Passwords]
        /\ req.at = "register" /\ req.email = email
    OBVIOUS
  <1>2. /\ Start(r, req) /\ HavingEmail(email) = {}
        /\ UNCHANGED <<accounts, otps, tokens, refused>>
    BY DEF BeginRegister
  <1> HIDE DEF req
  <1>3. request'[r] = req => RequestOK(r)'
    BY <1>1 DEF RequestOK
  <1> QED BY <1>1, <1>2, <1>3, StartPreserves

\* A login that found its account knows which one the email finds.
LEMMA BeginLoginPreserves ==
  ASSUME AuthAssumption, AuthInv, NEW r \in Requests, NEW email \in Emails,
         NEW password \in Passwords, NEW otp \in BOOLEAN, BeginLogin(r, email, password, otp)
  PROVE  AuthInv'
  <1>0. PICK a : a = Oldest(HavingEmail(email))
    OBVIOUS
  <1> DEFINE req == [at |-> "compare", email |-> email, password |-> password, otp |-> otp,
                     account |-> a]
  <1>1. a \in Accounts /\ Finds(email, a)
    BY <1>0, FoundIsAccount DEF BeginLogin
  <1>2. Start(r, req) /\ UNCHANGED <<accounts, otps, tokens, refused>>
    BY <1>0 DEF BeginLogin
  <1>3. req \in [at : {"compare"}, email : Emails, password : Passwords, otp : BOOLEAN,
                 account : Accounts]
        /\ req.at = "compare" /\ req.email = email /\ req.account = a
    BY <1>1
  <1> HIDE DEF req
  <1>4. Finds(email, a)'
    <2>1. Keeps
      BY <1>2, SameAccountsKept
    <2> QED BY <1>1, <2>1, Typed, FoundAccount
  <1>5. request'[r] = req => RequestOK(r)'
    BY <1>3, <1>4 DEF RequestOK
  <1> QED BY <1>2, <1>3, <1>5, StartPreserves

\* So does a request that verifies a code.
LEMMA BeginVerifyPreserves ==
  ASSUME AuthAssumption, AuthInv, NEW r \in Requests, NEW email \in Emails,
         NEW code \in Codes, BeginVerify(r, email, code)
  PROVE  AuthInv'
  <1>0. PICK a : a = Oldest(HavingEmail(email))
    OBVIOUS
  <1> DEFINE req == [at |-> "verify", email |-> email, code |-> code, account |-> a]
  <1>1. a \in Accounts /\ Finds(email, a)
    BY <1>0, FoundIsAccount DEF BeginVerify
  <1>2. Start(r, req) /\ UNCHANGED <<accounts, otps, tokens, refused>>
    BY <1>0 DEF BeginVerify
  <1>3. req \in [at : {"verify"}, email : Emails, code : Codes, account : Accounts]
        /\ req.at = "verify" /\ req.email = email /\ req.account = a
    BY <1>1
  <1> HIDE DEF req
  <1>4. Finds(email, a)'
    <2>1. Keeps
      BY <1>2, SameAccountsKept
    <2> QED BY <1>1, <2>1, Typed, FoundAccount
  <1>5. request'[r] = req => RequestOK(r)'
    BY <1>3, <1>4 DEF RequestOK
  <1> QED BY <1>2, <1>3, <1>5, StartPreserves

\* A login with Google may find no account; one it finds exists.
LEMMA BeginGoogleLoginPreserves ==
  ASSUME AuthAssumption, AuthInv, NEW r \in Requests, NEW google \in GoogleUsers,
         NEW email \in Emails, BeginGoogleLogin(r, google, email)
  PROVE  AuthInv'
  <1>0. PICK a : a = Oldest(HavingGoogle(google))
    OBVIOUS
  <1> DEFINE req == [at |-> "google", google |-> google, email |-> email, account |-> a]
  <1>1. a \in Accounts \cup {0}
    <2>1. accounts \in Seq(AccountRecord) /\ Len(accounts) <= MaxAccounts
      BY DEF AuthInv, AuthTypeOK, AccountRecord
    <2>2. HavingGoogle(google) \subseteq Accounts
      BY <2>1 DEF AuthAssumption, Accounts, HavingGoogle
    <2>3. CASE HavingGoogle(google) = {}
      BY <1>0, <2>3 DEF Oldest
    <2>4. CASE HavingGoogle(google) # {}
      BY <1>0, <2>2, <2>4, OldestExists DEF Accounts
    <2> QED BY <2>3, <2>4
  <1>2. Start(r, req) /\ UNCHANGED <<accounts, otps, tokens, refused>>
    BY <1>0 DEF BeginGoogleLogin
  <1>3. Oldest(HavingGoogle(req.google)) = a
    BY <1>0
  <1>4. req \in [at : {"google"}, google : GoogleUsers, email : Emails, account : Accounts \cup {0}]
        /\ req.at = "google" /\ req.account = a
    BY <1>1
  <1>5. req.account = Oldest(HavingGoogle(req.google))
    BY <1>3, <1>4
  <1> HIDE DEF req
  <1>6. request'[r] = req => RequestOK(r)'
    BY <1>4 DEF RequestOK
  <1> QED BY <1>2, <1>4, <1>5, <1>6, StartPreserves

\* An account made while an earlier request was under way may be one too many; one
\* made by a request on its own is found by what it was made for.
LEMMA NewAccountPreserves ==
  ASSUME AuthAssumption, AuthInv, NEW r \in Requests, request[r] # Idle, Finish(r),
         NEW email \in Emails, NEW password \in Passwords \cup {None},
         NEW google \in GoogleUsers \cup {None},
         password = None <=> google # None,
         CreateAccount(email, password, google),
         UNCHANGED <<otps, refused>>,
         \/ UNCHANGED tokens
         \/ tokens' = tokens \cup {[account |-> Len(accounts'), by |-> "google", code |-> None]},
         ~overlapped => IF google = None THEN HavingEmail(email) = {}
                        ELSE HavingGoogle(google) = {}
  PROVE  AuthInv'
  <1>1. PICK n : n = Len(accounts) + 1
    OBVIOUS
  <1> DEFINE new == [email |-> email, password |-> password, google |-> google]
  <1>2. /\ accounts' \in Seq(AccountRecord)
        /\ n \in Nat /\ n \in Accounts /\ Len(accounts') = n /\ n <= MaxAccounts
        /\ DOMAIN accounts' = DOMAIN accounts \cup {n}
        /\ \A a \in DOMAIN accounts : accounts'[a] = accounts[a] /\ a \in Nat /\ a < n
        /\ accounts'[n].email = email /\ accounts'[n].password = password
        /\ accounts'[n].google = google
    <2>1. new \in AccountRecord /\ new.email = email /\ new.password = password
          /\ new.google = google
      BY DEF AccountRecord
    <2>2. accounts' = Append(accounts, new) /\ Len(accounts) < MaxAccounts
      BY DEF CreateAccount
    <2> HIDE DEF new
    <2>3. accounts \in Seq(AccountRecord)
      BY Typed
    <2>4. accounts' \in Seq(AccountRecord) /\ Len(accounts') = n /\ accounts'[n] = new
          /\ \A a \in 1..Len(accounts) : accounts'[a] = accounts[a]
      BY <1>1, <2>1, <2>2, <2>3
    <2>5. Len(accounts) \in Nat /\ DOMAIN accounts = 1..Len(accounts) /\ DOMAIN accounts' = 1..n
      BY <2>3, <2>4
    <2>6. n \in Nat /\ n \in Accounts /\ n <= MaxAccounts
      BY <1>1, <2>2, <2>5 DEF AuthAssumption, Accounts
    <2> QED BY <1>1, <2>1, <2>4, <2>5, <2>6
  <1>3. /\ \A e : HavingEmail(e) # {} => Oldest(HavingEmail(e)') = Oldest(HavingEmail(e))
                                         /\ HavingEmail(e)' # {}
        /\ \A g : HavingGoogle(g) # {} => Oldest(HavingGoogle(g)') = Oldest(HavingGoogle(g))
        /\ HavingEmail(email) = {} => Oldest(HavingEmail(email)') = n
        /\ HavingGoogle(google) = {} => Oldest(HavingGoogle(google)') = n
    BY <1>2, NewAccountFound
  <1>4. Keeps
    BY <1>2, <1>3 DEF Keeps
  <1>5. /\ DOMAIN request' = Requests /\ RequestOK(r)'
        /\ \A q \in Requests \ {r} : request'[q] = request[q]
        /\ overlapped' = overlapped /\ (~overlapped => OneAtATime')
    BY FinishAlone
  <1>6. AuthTypeOK'
    <2>1. \A a \in DOMAIN accounts' : accounts'[a].password = None <=> accounts'[a].google # None
      BY <1>2 DEF AuthInv, AuthTypeOK
    <2>2. tokens' \subseteq TokenRecord
      BY <1>2, Typed DEF TokenRecord
    <2>3. otps' \in Seq(OtpRecord) /\ {refused', overlapped'} \subseteq BOOLEAN
      BY <1>5 DEF AuthInv, AuthTypeOK, OtpRecord
    <2> QED BY <1>2, <2>1, <2>2, <2>3 DEF AuthTypeOK, AccountRecord, OtpRecord, TokenRecord
  <1>7. \A q \in Requests : RequestOK(q)'
    <2>1. \A q \in Requests : RequestOK(q)
      BY DEF AuthInv
    <2>2. OtpIds' = OtpIds
      BY DEF OtpIds
    <2> QED BY <1>4, <1>5, <2>1, <2>2, Typed, RequestKept
  <1>8. \A i \in OtpIds' : OtpOK(i)'
    BY <1>4, Typed, OtpKept DEF AuthInv, OtpIds
  <1>9. OtpTokensFollowPassword'
    <2>1. \A t \in tokens' : t.by = "otp" => t \in tokens
      OBVIOUS
    <2>2. \A i \in OtpIds : OtpOK(i)
      BY DEF AuthInv
    <2>3. OtpIds' = OtpIds /\ OtpTokensFollowPassword
      BY DEF AuthInv, OtpIds
    <2> QED BY <1>4, <2>1, <2>2, <2>3, Typed, TokensKept DEF OtpTokensFollowPassword
  <1>10. EveryAccountIsReachable'
    <2> SUFFICES ASSUME ~overlapped, NEW a \in DOMAIN accounts'
                 PROVE  a = IF accounts'[a].google = None
                            THEN Oldest({b \in DOMAIN accounts' : accounts'[b].email = accounts'[a].email})
                            ELSE Oldest({b \in DOMAIN accounts' : accounts'[b].google = accounts'[a].google})
      BY <1>5 DEF EveryAccountIsReachable, HavingEmail, HavingGoogle
    <2> SUFFICES ASSUME NEW e, e = accounts'[a].email, NEW g, g = accounts'[a].google
                 PROVE  a = IF g = None THEN Oldest({b \in DOMAIN accounts' : accounts'[b].email = e})
                            ELSE Oldest({b \in DOMAIN accounts' : accounts'[b].google = g})
      BY Zenon
    <2>0. a = IF g = None THEN Oldest(HavingEmail(e)') ELSE Oldest(HavingGoogle(g)')
      <3>1. CASE a = n
        BY <1>2, <1>3, <3>1
      <3>2. CASE a \in DOMAIN accounts
        <4>1. e = accounts[a].email /\ g = accounts[a].google
          BY <1>2, <3>2
        <4>2. a = IF g = None THEN Oldest(HavingEmail(e)) ELSE Oldest(HavingGoogle(g))
          BY <3>2, <4>1 DEF AuthInv, EveryAccountIsReachable
        <4>3. HavingEmail(e) # {} /\ HavingGoogle(g) # {}
          BY <3>2, <4>1 DEF HavingEmail, HavingGoogle
        <4> QED BY <1>3, <4>2, <4>3
      <3> QED BY <1>2, <3>1, <3>2
    <2> QED BY <2>0 DEF HavingEmail, HavingGoogle
  <1>11. MailedCodeIsAccepted' /\ Len(accounts') <= MaxAccounts
    BY <1>2 DEF AuthInv, MailedCodeIsAccepted
  <1> QED BY <1>5, <1>6, <1>7, <1>8, <1>9, <1>10, <1>11 DEF AuthInv

\* EMAIL_ALREADY_EXIST was checked when the request began; on its own it still holds.
LEMMA RegisterPreserves ==
  ASSUME AuthAssumption, AuthInv, NEW r \in Requests, Register(r)
  PROVE  AuthInv'
  <1>1. request[r].at = "register" /\ RequestOK(r)
    BY DEF Register, AuthInv
  <1>2. request[r] \in [at : {"register"}, email : Emails, password : Passwords]
    BY <1>1 DEF RequestOK, Idle
  <1>3. PICK email \in Emails, password \in Passwords :
          email = request[r].email /\ password = request[r].password
    BY <1>2
  <1>4. CreateAccount(email, password, None) /\ Finish(r) /\ UNCHANGED <<otps, tokens, refused>>
    BY <1>3 DEF Register
  <1>5. request[r] # Idle /\ password # None
    BY <1>1, <1>3 DEF Idle, AuthAssumption
  <1>6. ~overlapped => HavingEmail(email) = {}
    BY <1>1, <1>3 DEF AuthInv, OneAtATime
  <1> QED BY <1>4, <1>5, <1>6, NewAccountPreserves

\* Whoever was not found by googleUserId is not found now, unless another request
\* came in between.
LEMMA GoogleLoginPreserves ==
  ASSUME AuthAssumption, AuthInv, NEW r \in Requests, GoogleLogin(r)
  PROVE  AuthInv'
  <1>1. request[r].at = "google" /\ RequestOK(r) /\ Finish(r) /\ UNCHANGED <<otps, refused>>
    BY DEF GoogleLogin, AuthInv
  <1>2. request[r] \in [at : {"google"}, google : GoogleUsers, email : Emails,
                        account : Accounts \cup {0}]
        /\ request[r] # Idle
    BY <1>1 DEF RequestOK, Idle
  <1>3. PICK email \in Emails, google \in GoogleUsers :
          email = request[r].email /\ google = request[r].google
    BY <1>2
  <1>4. CASE request[r].account = 0
    <2>1. CreateAccount(email, None, google)
          /\ tokens' = tokens \cup {[account |-> Len(accounts'), by |-> "google", code |-> None]}
      BY <1>3, <1>4 DEF GoogleLogin, GiveTokens
    <2>2. google # None
      BY <1>3 DEF AuthAssumption
    <2>3. ASSUME ~overlapped PROVE HavingGoogle(google) = {}
      <3>1. Oldest(HavingGoogle(google)) = 0
        BY <1>1, <1>3, <1>4, <2>3 DEF AuthInv, OneAtATime
      <3>2. HavingGoogle(google) \in SUBSET Nat /\ 0 \notin HavingGoogle(google)
        BY Typed DEF HavingGoogle
      <3> QED BY <3>1, <3>2, OldestExists
    <2> QED BY <1>1, <1>2, <2>1, <2>2, <2>3, NewAccountPreserves
  <1>5. CASE request[r].account # 0
    <2> DEFINE t == [account |-> request[r].account, by |-> "google", code |-> None]
    <2>1. t \in TokenRecord /\ t.by # "otp"
      BY <1>2, <1>5 DEF TokenRecord
    <2>2. tokens' = tokens \cup {t} /\ UNCHANGED accounts
      BY <1>5 DEF GoogleLogin, GiveTokens
    <2> HIDE DEF t
    <2>3. tokens' \subseteq TokenRecord /\ \A u \in tokens' \ tokens : u.by # "otp"
      BY <2>1, <2>2, Typed
    <2> QED BY <1>1, <1>2, <2>2, <2>3, QuietFinish
  <1> QED BY <1>4, <1>5

\* Tokens for a password that was compared are not about a code.
LEMMA LoginPreserves ==
  ASSUME AuthInv, NEW r \in Requests, Login(r)
  PROVE  AuthInv'
  <1>1. request[r].at = "compare" /\ RequestOK(r) /\ Finish(r)
        /\ UNCHANGED <<accounts, otps, refused>>
    BY DEF Login, AuthInv
  <1>2. request[r].account \in Accounts /\ request[r] # Idle
    BY <1>1 DEF RequestOK, Idle
  <1> DEFINE t == [account |-> request[r].account, by |-> "password", code |-> None]
  <1>3. t \in TokenRecord /\ t.by # "otp"
    BY <1>2 DEF TokenRecord
  <1>4. tokens' = tokens \cup {t} \/ tokens' = tokens
    BY DEF Login, GiveTokens
  <1> HIDE DEF t
  <1>5. tokens' \subseteq TokenRecord /\ \A u \in tokens' \ tokens : u.by # "otp"
    BY <1>3, <1>4, Typed
  <1> QED BY <1>1, <1>2, <1>5, QuietFinish

\* A request that fails just ends.
LEMMA FailPreserves ==
  ASSUME AuthInv, NEW r \in Requests, Fail(r)
  PROVE  AuthInv'
  BY Typed, QuietFinish DEF Fail

\* A valid code of the account was drawn for it.  A code that is refused was not
\* mailed to this email: it would be of the account the request has found by it.
LEMMA VerifyOtpPreserves ==
  ASSUME AuthInv, NEW r \in Requests, VerifyOtp(r)
  PROVE  AuthInv'
  <1> DEFINE req == request[r]
  <1>1. req.at = "verify" /\ RequestOK(r) /\ Finish(r) /\ UNCHANGED <<accounts, otps>>
    BY DEF VerifyOtp, AuthInv
  <1>2. req \in [at : {"verify"}, email : Emails, code : Codes, account : Accounts]
        /\ Finds(req.email, req.account) /\ req # Idle
    BY <1>1 DEF RequestOK, Idle
  <1>3. CASE \E i \in OtpIds : ValidFor(i, req)
    <2>1. PICK i \in OtpIds : otps[i].account = req.account /\ otps[i].code = req.code
      BY <1>3 DEF ValidFor, Valid
    <2> DEFINE t == [account |-> req.account, by |-> "otp", code |-> req.code]
    <2>2. t \in TokenRecord /\ t.account = req.account /\ t.code = req.code
      BY <1>2 DEF TokenRecord
    <2>3. tokens' = tokens \cup {t} /\ refused' = FALSE
      BY <1>3, Typed DEF VerifyOtp, GiveTokens
    <2> HIDE DEF t, req
    <2>4. tokens' \subseteq TokenRecord
          /\ \A u \in tokens' \ tokens :
               \E j \in OtpIds : otps[j].account = u.account /\ otps[j].code = u.code
      BY <2>1, <2>2, <2>3, Typed
    <2> USE DEF req
    <2> QED BY <1>1, <1>2, <2>3, <2>4, QuietFinish
  <1>4. CASE ~\E i \in OtpIds : ValidFor(i, req)
    <2>1. ASSUME NEW i \in OtpIds, Valid(i, req.code), otps[i].email = req.email
          PROVE  FALSE
      <3>1. otps[i].account = req.account
        BY <1>2, <2>1 DEF AuthInv, OtpOK, Finds
      <3> QED BY <1>4, <2>1, <3>1 DEF ValidFor
    <2>2. /\ refused' = (refused \/ \E i \in OtpIds :
                           Valid(i, req.code) /\ otps[i].mailed /\ otps[i].email = req.email)
          /\ UNCHANGED tokens
      BY <1>4 DEF VerifyOtp
    <2>3. refused' = FALSE
      BY <2>1, <2>2, Typed
    <2> QED BY <1>1, <1>2, <2>2, <2>3, Typed, QuietFinish
  <1> QED BY <1>3, <1>4
-----------------------------------------------------------------------------
(* The codes. *)

\* A code is drawn for an account whose password has just been compared, and that the
\* email still finds.
LEMMA LoginOtpPreserves ==
  ASSUME AuthAssumption, AuthInv, NEW r \in Requests, NEW code \in Codes, LoginOtp(r, code)
  PROVE  AuthInv'
  <1> DEFINE req == request[r]
  <1>1. req.at = "compare" /\ RequestOK(r) /\ UNCHANGED <<accounts, tokens, refused>>
    BY DEF LoginOtp, AuthInv
  <1>2. req \in [at : {"compare"}, email : Emails, password : Passwords, otp : BOOLEAN,
                 account : Accounts]
        /\ Finds(req.email, req.account) /\ req # Idle
    BY <1>1 DEF RequestOK, Idle
  <1>3. CASE ~Matches(req)
    BY <1>1, <1>2, <1>3, Typed, QuietFinish DEF LoginOtp
  <1>4. CASE Matches(req)
    <2>0. PICK n : n = Len(otps) + 1
      OBVIOUS
    <2> DEFINE new == [code |-> code, account |-> req.account, email |-> req.email,
                       insert |-> "pending", mailed |-> FALSE, expired |-> FALSE]
               mail == [at |-> "mail", id |-> n]
    <2>1. new \in OtpRecord /\ new.account = req.account /\ new.email = req.email
      BY <1>2 DEF OtpRecord
    <2>2. otps' = Append(otps, new) /\ request' = [request EXCEPT ![r] = mail]
          /\ overlapped' = overlapped
      BY <1>4, <2>0 DEF LoginOtp
    <2> HIDE DEF new
    <2>3. otps \in Seq(OtpRecord) /\ Len(otps) \in Nat /\ OtpIds = 1..Len(otps)
      BY Typed DEF OtpIds
    <2>4. otps' \in Seq(OtpRecord) /\ Len(otps') = n /\ otps'[n] = new
          /\ \A i \in 1..Len(otps) : otps'[i] = otps[i]
      BY <2>0, <2>1, <2>2, <2>3
    <2>5. OtpIds' = 1..n
      BY <2>4 DEF OtpIds
    <2>6. /\ \A i \in OtpIds : otps'[i] = otps[i]
          /\ OtpIds \subseteq OtpIds' /\ n \in OtpIds'
          /\ OtpIds' \ OtpIds = {n}
      BY <2>0, <2>3, <2>4, <2>5
    <2>7. OtpOK(n)'
      <3>1. accounts[req.account].password # None
        BY <1>2, <1>4 DEF Matches, AuthAssumption
      <3>2. PICK e, a : e = req.email /\ a = req.account
        OBVIOUS
      <3>3. Finds(e, a)'
        <4>1. Keeps
          BY <1>1, SameAccountsKept
        <4> QED BY <1>2, <3>2, <4>1, Typed, FoundAccount
      <3>4. otps'[n].email = e /\ otps'[n].account = a
        BY <2>1, <2>4, <3>2
      <3>5. accounts'[a].password # None
        BY <1>1, <3>1, <3>2
      <3> QED BY <3>3, <3>4, <3>5 DEF OtpOK
    <2>8. mail \in [at : {"mail"}, id : OtpIds'] /\ mail.at = "mail"
      BY <2>6
    <2> HIDE DEF mail
    <2>9. /\ DOMAIN request' = Requests /\ request'[r] = mail
          /\ \A q \in Requests \ {r} : request'[q] = request[q]
      BY <2>2 DEF AuthInv
    <2>10. RequestOK(r)'
      BY <2>8, <2>9 DEF RequestOK
    <2>11. ASSUME ~overlapped PROVE OneAtATime'
      <3>1. \A q \in Requests \ {r} : request'[q] = Idle
        BY <1>2, <2>9, <2>11 DEF AuthInv, OneAtATime
      <3>2. \A q \in Requests : request'[q].at # "register" /\ request'[q].at # "google"
        BY <2>8, <2>9, <3>1 DEF Idle
      <3>3. \A p, q \in Requests : p # q => request'[p] = Idle \/ request'[q] = Idle
        BY <3>1
      <3> QED BY <3>2, <3>3 DEF OneAtATime
    <2>12. refused' = FALSE /\ tokens' \subseteq TokenRecord /\ tokens' = tokens
           /\ overlapped' \in BOOLEAN
      BY <1>1, <2>2, Typed DEF AuthInv, AuthTypeOK
    <2>13. \A i \in OtpIds' \ OtpIds : OtpOK(i)'
      BY <2>6, <2>7
    <2> QED BY <1>1, <2>2, <2>4, <2>6, <2>9, <2>10, <2>11, <2>12, <2>13, NoNewAccount
  <1> QED BY <1>3, <1>4

\* Steps that change how far codes have got, and nothing of what they are.
LEMMA OtpProgress ==
  ASSUME AuthInv, UNCHANGED <<accounts, tokens, refused>>,
         otps' \in Seq(OtpRecord), OtpIds' = OtpIds,
         \A i \in OtpIds : /\ otps'[i].account = otps[i].account
                           /\ otps'[i].code = otps[i].code
                           /\ otps'[i].email = otps[i].email,
         \/ UNCHANGED <<request, overlapped>>
         \/ \E r \in Requests : request[r] # Idle /\ Finish(r)
         \/ request' = [r \in Requests |-> Idle] /\ UNCHANGED overlapped
  PROVE  AuthInv'
  <1>1. refused' = FALSE /\ tokens' \subseteq TokenRecord /\ overlapped \in BOOLEAN
    BY Typed DEF AuthInv, AuthTypeOK
  <1>2. /\ DOMAIN request' = Requests /\ overlapped' = overlapped
        /\ \A q \in Requests : request'[q] = request[q] \/ RequestOK(q)'
        /\ ~overlapped => OneAtATime'
    <2>1. CASE UNCHANGED <<request, overlapped>>
      BY <2>1 DEF AuthInv, OneAtATime, HavingEmail, HavingGoogle
    <2>2. CASE \E r \in Requests : request[r] # Idle /\ Finish(r)
      <3>1. PICK r \in Requests : request[r] # Idle /\ Finish(r)
        BY <2>2
      <3> QED BY <3>1, FinishAlone
    <2>3. CASE request' = [r \in Requests |-> Idle] /\ UNCHANGED overlapped
      BY <2>3 DEF RequestOK, OneAtATime, Idle
    <2> QED BY <2>1, <2>2, <2>3
  <1> QED BY <1>1, <1>2, NoNewAccount

\* What happens to a code after it is drawn leaves its account, digits and email alone.
LEMMA OtpEdited ==
  ASSUME AuthInv, NEW i \in OtpIds, NEW new \in OtpRecord,
         new.account = otps[i].account, new.code = otps[i].code, new.email = otps[i].email,
         otps' = [otps EXCEPT ![i] = new]
  PROVE  /\ otps' \in Seq(OtpRecord) /\ OtpIds' = OtpIds
         /\ \A j \in OtpIds : /\ otps'[j].account = otps[j].account
                              /\ otps'[j].code = otps[j].code
                              /\ otps'[j].email = otps[j].email
  <1>1. otps \in Seq(OtpRecord)
    BY Typed
  <1>2. otps' \in Seq(OtpRecord)
    BY <1>1 DEF OtpIds
  <1> QED BY <1>1, <1>2 DEF OtpIds

\* A code that is mailed stays what was drawn.
LEMMA SendMailPreserves ==
  ASSUME AuthInv, NEW r \in Requests, SendMail(r)
  PROVE  AuthInv'
  <1>1. request[r].at = "mail" /\ RequestOK(r) /\ Finish(r)
        /\ UNCHANGED <<accounts, tokens, refused>>
    BY DEF SendMail, AuthInv
  <1>2. request[r].id \in OtpIds /\ request[r] # Idle
    BY <1>1 DEF RequestOK, Idle
  <1>3. PICK i \in OtpIds : i = request[r].id
    BY <1>2
  <1> DEFINE new == [otps[i] EXCEPT !.mailed = TRUE]
  <1>4. otps[i] \in OtpRecord
    BY Typed DEF OtpIds
  <1>5. new \in OtpRecord /\ new.account = otps[i].account /\ new.code = otps[i].code
        /\ new.email = otps[i].email
    BY <1>4 DEF OtpRecord
  <1>6. otps' = [otps EXCEPT ![i] = new]
    BY <1>3 DEF SendMail
  <1> HIDE DEF new
  <1> QED BY <1>1, <1>2, <1>5, <1>6, OtpEdited, OtpProgress

\* The insert of a code is not awaited: it happens whenever it does.
LEMMA StoreOtpPreserves ==
  ASSUME AuthInv, NEW i \in OtpIds, StoreOtp(i)
  PROVE  AuthInv'
  <1> DEFINE new == [otps[i] EXCEPT !.insert = "stored"]
  <1>1. otps[i] \in OtpRecord
    BY Typed DEF OtpIds
  <1>2. new \in OtpRecord /\ new.account = otps[i].account /\ new.code = otps[i].code
        /\ new.email = otps[i].email
    BY <1>1 DEF OtpRecord
  <1>3. otps' = [otps EXCEPT ![i] = new]
        /\ UNCHANGED <<accounts, tokens, refused, request, overlapped>>
    BY DEF StoreOtp
  <1> HIDE DEF new
  <1> QED BY <1>2, <1>3, OtpEdited, OtpProgress

\* A code expires only by the clock.
LEMMA ExpirePreserves ==
  ASSUME AuthInv, NEW i \in OtpIds, Expire(i)
  PROVE  AuthInv'
  <1> DEFINE new == [otps[i] EXCEPT !.expired = TRUE]
  <1>1. otps[i] \in OtpRecord
    BY Typed DEF OtpIds
  <1>2. new \in OtpRecord /\ new.account = otps[i].account /\ new.code = otps[i].code
        /\ new.email = otps[i].email
    BY <1>1 DEF OtpRecord
  <1>3. otps' = [otps EXCEPT ![i] = new]
        /\ UNCHANGED <<accounts, tokens, refused, request, overlapped>>
    BY DEF Expire
  <1> HIDE DEF new
  <1> QED BY <1>2, <1>3, OtpEdited, OtpProgress

\* The end of the process loses requests and inserts, but no code stops being one of
\* the account it was drawn for.
LEMMA StoreOtpFailsPreserves ==
  ASSUME AuthInv, NEW i \in OtpIds, StoreOtpFails(i)
  PROVE  AuthInv'
  <1>1. PICK done \in SUBSET {j \in OtpIds \ {i} : otps[j].insert = "pending"} :
          otps' = [j \in OtpIds |->
            IF otps[j].insert # "pending" THEN otps[j]
            ELSE [otps[j] EXCEPT !.insert = IF j \in done THEN "stored" ELSE "lost"]]
    BY DEF StoreOtpFails
  <1>2. otps \in Seq(OtpRecord) /\ Len(otps) \in Nat /\ OtpIds = 1..Len(otps)
    BY Typed DEF OtpIds
  <1>3. ASSUME NEW j \in OtpIds
        PROVE  /\ otps'[j] \in OtpRecord
               /\ otps'[j].account = otps[j].account
               /\ otps'[j].code = otps[j].code
               /\ otps'[j].email = otps[j].email
    <2>1. otps[j] \in OtpRecord
      BY <1>2
    <2> QED BY <1>1, <2>1 DEF OtpRecord
  <1>4. otps' \in [1..Len(otps) -> OtpRecord]
    BY <1>1, <1>2, <1>3
  <1>5. otps' \in Seq(OtpRecord)
    BY <1>2, <1>4
  <1>6. OtpIds' = OtpIds
    BY <1>2, <1>4 DEF OtpIds
  <1>7. request' = [r \in Requests |-> Idle] /\ UNCHANGED <<accounts, tokens, refused, overlapped>>
    BY DEF StoreOtpFails
  <1> QED BY <1>3, <1>5, <1>6, <1>7, OtpProgress
-----------------------------------------------------------------------------
(* The theorems. *)

\* There are no accounts yet.
LEMMA AuthInit ==
  ASSUME AuthAssumption, Init
  PROVE  AuthInv
  <1>1. accounts = <<>> /\ otps = <<>> /\ tokens = {} /\ refused = FALSE /\ overlapped = FALSE
        /\ request = [r \in Requests |-> Idle]
    BY DEF Init
  <1>2. AuthTypeOK
    <2>1. accounts \in Seq(AccountRecord) /\ otps \in Seq(OtpRecord) /\ DOMAIN accounts = {}
      BY <1>1
    <2>2. {refused, overlapped} \subseteq BOOLEAN /\ tokens \subseteq TokenRecord
      BY <1>1
    <2> QED BY <2>1, <2>2 DEF AuthTypeOK, AccountRecord, OtpRecord, TokenRecord
  <1>3. Len(accounts) <= MaxAccounts /\ DOMAIN accounts = {} /\ OtpIds = {}
    BY <1>1 DEF AuthAssumption, OtpIds
  <1>4. \A r \in Requests : RequestOK(r) /\ request[r].at = "idle" /\ request[r] = Idle
    BY <1>1 DEF RequestOK, Idle
  <1>5. OneAtATime
    BY <1>4 DEF OneAtATime
  <1>6. OtpTokensFollowPassword /\ MailedCodeIsAccepted /\ EveryAccountIsReachable
    BY <1>1, <1>3 DEF OtpTokensFollowPassword, MailedCodeIsAccepted, EveryAccountIsReachable
  <1> QED BY <1>1, <1>2, <1>3, <1>4, <1>5, <1>6 DEF AuthInv

\* Every step keeps the invariant.
LEMMA AuthNext ==
  ASSUME AuthAssumption, AuthInv, [Next]_vars
  PROVE  AuthInv'
  <1>1. CASE UNCHANGED vars
    BY <1>1, Typed, OtpProgress DEF vars, OtpIds
  <1>2. ASSUME NEW r \in Requests, NEW email \in Emails, NEW password \in Passwords,
               BeginRegister(r, email, password)
        PROVE  AuthInv'
    BY <1>2, BeginRegisterPreserves
  <1>3. ASSUME NEW r \in Requests, NEW email \in Emails, NEW password \in Passwords,
               NEW otp \in BOOLEAN, BeginLogin(r, email, password, otp)
        PROVE  AuthInv'
    BY <1>3, BeginLoginPreserves
  <1>4. ASSUME NEW r \in Requests, NEW email \in Emails, NEW code \in Codes,
               BeginVerify(r, email, code)
        PROVE  AuthInv'
    BY <1>4, BeginVerifyPreserves
  <1>5. ASSUME NEW r \in Requests, NEW email \in Emails, NEW google \in GoogleUsers,
               BeginGoogleLogin(r, google, email)
        PROVE  AuthInv'
    BY <1>5, BeginGoogleLoginPreserves
  <1>6. ASSUME NEW r \in Requests, NEW code \in Codes, LoginOtp(r, code)
        PROVE  AuthInv'
    BY <1>6, LoginOtpPreserves
  <1>7. ASSUME NEW r \in Requests,
               \/ Register(r) \/ Login(r) \/ SendMail(r)
               \/ VerifyOtp(r) \/ GoogleLogin(r) \/ Fail(r)
        PROVE  AuthInv'
    BY <1>7, RegisterPreserves, LoginPreserves, SendMailPreserves, VerifyOtpPreserves,
       GoogleLoginPreserves, FailPreserves
  <1>8. ASSUME NEW i \in OtpIds, StoreOtp(i) \/ StoreOtpFails(i) \/ Expire(i)
        PROVE  AuthInv'
    BY <1>8, StoreOtpPreserves, StoreOtpFailsPreserves, ExpirePreserves
  <1> QED BY <1>1, <1>2, <1>3, <1>4, <1>5, <1>6, <1>7, <1>8 DEF Next

\* AuthInv holds in every reachable state.
LEMMA AuthAlways == Spec => []AuthInv
  <1>1. Init => AuthInv
    BY AuthInit, AuthAssumption
  <1>2. AuthInv /\ [Next]_vars => AuthInv'
    BY AuthNext, AuthAssumption
  <1> QED BY <1>1, <1>2, PTL DEF Spec

\* Accounts, codes and tokens keep their shape, and every account has a password or a
\* googleUserId, never both: of the services that create customers
\* (auth.service.ts:228 and googleLogin) neither sets what the other does.
THEOREM AuthTypeCorrect == Spec => []AuthTypeOK
  <1>1. AuthInv => AuthTypeOK
    BY DEF AuthInv
  <1> QED BY <1>1, AuthAlways, PTL

\* While requests come one at a time, an account made by register is the one its email
\* finds, and one made by googleLogin the one its googleUserId finds: neither field has
\* a unique index, and the check before the insert is enough on its own.
THEOREM AccountsReachable == Spec => []EveryAccountIsReachable
  <1>1. AuthInv => EveryAccountIsReachable
    BY DEF AuthInv
  <1> QED BY <1>1, AuthAlways, PTL

\* Tokens given for a one-time code are for an account that has a password, which was
\* typed when the code was drawn, however requests overlap and inserts fail.
THEOREM OtpTokensNeedPassword == Spec => []OtpTokensFollowPassword
  <1>1. AuthInv => OtpTokensFollowPassword
    BY DEF AuthInv
  <1> QED BY <1>1, AuthAlways, PTL

\* verifyOtp never refuses a code that was mailed to the email it is typed with, stored
\* and not expired, even if others register with the email in between: accounts are
\* only appended, and both calls take the oldest one.
THEOREM MailedCodesAccepted == Spec => []MailedCodeIsAccepted
  <1>1. AuthInv => MailedCodeIsAccepted
    BY DEF AuthInv
  <1> QED BY <1>1, AuthAlways, PTL
=============================================================================
