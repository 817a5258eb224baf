--------------------------------- MODULE Auth ---------------------------------
(***************************************************************************)
(* AuthService as customers use it: registration, login by password, login *)
(* by password and a one-time code sent by mail, and login with Google.    *)
(* Accounts are looked up by email or by googleUserId, neither of which    *)
(* has a unique index; findOne returns the oldest match.                   *)
(*                                                                         *)
(* The one-time code is stored by a call that nobody awaits.  When that    *)
(* call fails the rejection is unhandled and Node ends the process.        *)
(*                                                                         *)
(* No code makes a customer INACTIVE or changes a password.  Hashing and   *)
(* signing are libraries.  refresh never finds a user (the controller      *)
(* passes req.user.id, the strategy sets _id), so it has no action here.   *)
(***************************************************************************)
EXTENDS Naturals, Sequences, FiniteSets, Handlers

CONSTANTS Emails, Passwords,
          GoogleUsers,   \* googleUserId; the email of the id token is Google's matter
          Codes,         \* one-time codes: 4 digits, so two may be equal
          None,          \* no password, no googleUserId
          MaxAccounts,   \* bound: customers created
          MaxOtps        \* bound: codes drawn

ASSUME AuthAssumption ==
  /\ MaxAccounts \in Nat /\ MaxOtps \in Nat
  /\ None \notin Passwords \cup GoogleUsers

VARIABLES accounts,      \* customers, oldest first
          otps,          \* codes drawn, with the account, the email they are mailed to
                         \* and the state of their insert
          tokens,        \* history: who was given tokens, by what, with which code
          refused,       \* history: a code was refused that had been mailed, stored
                         \* and not expired
          overlapped     \* history: two requests have been in flight at once

vars == <<accounts, otps, tokens, refused, request, overlapped>>

Idle == [at |-> "idle"]
Accounts == 1..MaxAccounts
OtpIds == DOMAIN otps

\* findOne without an index: the oldest match, 0 if there is none.
Oldest(matches) == IF matches = {} THEN 0 ELSE CHOOSE a \in matches : \A b \in matches : a <= b
Newest(matches) == IF matches = {} THEN 0 ELSE CHOOSE a \in matches : \A b \in matches : a >= b

HavingEmail(email) == {a \in DOMAIN accounts : accounts[a].email = email}
HavingGoogle(google) == {a \in DOMAIN accounts : accounts[a].google = google}

Init ==
  /\ accounts = <<>>
  /\ otps = <<>>
  /\ tokens = {}
  /\ refused = FALSE
  /\ request = [r \in Requests |-> Idle]
  /\ overlapped = FALSE

\* A request begins.
Start(r, req) ==
  /\ request[r] = Idle
  /\ request' = [request EXCEPT ![r] = req]
  /\ overlapped' = (overlapped \/ \E q \in Requests \ {r} : request[q] # Idle)

Finish(r) == request' = [request EXCEPT ![r] = Idle] /\ UNCHANGED overlapped

CreateAccount(email, password, google) ==
  /\ Len(accounts) < MaxAccounts
  /\ accounts' = Append(accounts, [email |-> email, password |-> password, google |-> google])

GiveTokens(a, by, code) == tokens' = tokens \cup {[account |-> a, by |-> by, code |-> code]}
-----------------------------------------------------------------------------
(* Registration. *)

\* Mutant: only accounts with a password are looked at.
BeginRegisterPassword(r, email, password) ==
  /\ \A a \in HavingEmail(email) : accounts[a].password = None
  /\ Start(r, [at |-> "register", email |-> email, password |-> password])
  /\ UNCHANGED <<accounts, otps, tokens, refused>>

\* EMAIL_ALREADY_EXIST unless no customer has the email.
BeginRegister(r, email, password) ==
  /\ HavingEmail(email) = {}
  /\ Start(r, [at |-> "register", email |-> email, password |-> password])
  /\ UNCHANGED <<accounts, otps, tokens, refused>>

\* After the password is hashed.
Register(r) ==
  /\ request[r].at = "register"
  /\ CreateAccount(request[r].email, request[r].password, None)
  /\ Finish(r)
  /\ UNCHANGED <<otps, tokens, refused>>
-----------------------------------------------------------------------------
(* Login by password, and its first half when a code is wanted. *)

\* The customer with the email is read; the password typed is compared after that.
BeginLogin(r, email, password, otp) ==
  /\ HavingEmail(email) # {}
  /\ Start(r, [at |-> "compare", email |-> email, password |-> password, otp |-> otp,
               account |-> Oldest(HavingEmail(email))])
  /\ UNCHANGED <<accounts, otps, tokens, refused>>

\* bcrypt.compare; without a password to compare with it throws.
Matches(req) == accounts[req.account].password = req.password

Login(r) ==
  /\ request[r].at = "compare"
  /\ ~request[r].otp
  /\ IF Matches(request[r]) THEN GiveTokens(request[r].account, "password", None)
     ELSE UNCHANGED tokens
  /\ Finish(r)
  /\ UNCHANGED <<accounts, otps, refused>>

\* A code is drawn; its insert is started, not awaited, and then its mail.
LoginOtp(r, code) ==
  LET req == request[r]
  IN /\ req.at = "compare"
     /\ req.otp
     /\ IF Matches(req)
        THEN /\ Len(otps) < MaxOtps
             /\ otps' = Append(otps,
                  [code |-> code, account |-> req.account, email |-> req.email,
                   insert |-> "pending", mailed |-> FALSE, expired |-> FALSE])
             /\ request' = [request EXCEPT ![r] = [at |-> "mail", id |-> Len(otps) + 1]]
             /\ UNCHANGED overlapped
        ELSE Finish(r) /\ UNCHANGED otps
     /\ UNCHANGED <<accounts, tokens, refused>>

SendMail(r) ==
  /\ request[r].at = "mail"
  /\ otps' = [otps EXCEPT ![request[r].id].mailed = TRUE]
  /\ Finish(r)
  /\ UNCHANGED <<accounts, tokens, refused>>

\* The insert that nobody awaits succeeds.
StoreOtp(i) ==
  /\ otps[i].insert = "pending"
  /\ otps' = [otps EXCEPT ![i].insert = "stored"]
  /\ UNCHANGED <<accounts, tokens, refused, request, overlapped>>

\* It fails: the process ends, with every request and insert under way.
StoreOtpFails(i) ==
  /\ otps[i].insert = "pending"
  /\ \E done \in SUBSET {j \in OtpIds \ {i} : otps[j].insert = "pending"} :
       otps' = [j \in OtpIds |->
         IF otps[j].insert # "pending" THEN otps[j]
         ELSE [otps[j] EXCEPT !.insert = IF j \in done THEN "stored" ELSE "lost"]]
  /\ request' = [r \in Requests |-> Idle]
  /\ UNCHANGED <<accounts, tokens, refused, overlapped>>

\* Five minutes have passed.
Expire(i) ==
  /\ ~otps[i].expired
  /\ otps' = [otps EXCEPT ![i].expired = TRUE]
  /\ UNCHANGED <<accounts, tokens, refused, request, overlapped>>
-----------------------------------------------------------------------------
(* Its second half, with the code. *)

\* Mutant: the newest account with the email.
BeginVerifyNewest(r, email, code) ==
  /\ HavingEmail(email) # {}
  /\ Start(r, [at |-> "verify", email |-> email, code |-> code, account |-> Newest(HavingEmail(email))])
  /\ UNCHANGED <<accounts, otps, tokens, refused>>

BeginVerify(r, email, code) ==
  /\ HavingEmail(email) # {}
  /\ Start(r, [at |-> "verify", email |-> email, code |-> code, account |-> Oldest(HavingEmail(email))])
  /\ UNCHANGED <<accounts, otps, tokens, refused>>

Valid(i, code) == otps[i].code = code /\ otps[i].insert = "stored" /\ ~otps[i].expired

\* Mutant: any customer's code will do.
ValidAnybody(i, req) == Valid(i, req.code)

\* A code is not used up: it is valid until it expires.
ValidFor(i, req) == Valid(i, req.code) /\ otps[i].account = req.account

VerifyOtp(r) ==
  LET req == request[r]
  IN /\ req.at = "verify"
     /\ IF \E i \in OtpIds : ValidFor(i, req)
        THEN GiveTokens(req.account, "otp", req.code) /\ UNCHANGED refused
        ELSE /\ refused' = (refused \/ \E i \in OtpIds :
                  Valid(i, req.code) /\ otps[i].mailed /\ otps[i].email = req.email)
             /\ UNCHANGED tokens
     /\ Finish(r)
     /\ UNCHANGED <<accounts, otps>>
-----------------------------------------------------------------------------
(* Login with Google, after the id token is verified. *)

BeginGoogleLogin(r, google, email) ==
  /\ Start(r, [at |-> "google", google |-> google, email |-> email,
               account |-> Oldest(HavingGoogle(google))])
  /\ UNCHANGED <<accounts, otps, tokens, refused>>

\* Mutant: the new customer is stored without its googleUserId.
GoogleLoginAnonymous(r) ==
  LET req == request[r]
  IN /\ req.at = "google"
     /\ IF req.account = 0
        THEN CreateAccount(req.email, None, None) /\ GiveTokens(Len(accounts'), "google", None)
        ELSE GiveTokens(req.account, "google", None) /\ UNCHANGED accounts
     /\ Finish(r)
     /\ UNCHANGED <<otps, refused>>

\* Who is not found by googleUserId becomes a customer, whoever has the email.
GoogleLogin(r) ==
  LET req == request[r]
  IN /\ req.at = "google"
     /\ IF req.account = 0
        THEN CreateAccount(req.email, None, req.google) /\ GiveTokens(Len(accounts'), "google", None)
        ELSE GiveTokens(req.account, "google", None) /\ UNCHANGED accounts
     /\ Finish(r)
     /\ UNCHANGED <<otps, refused>>

\* A failing await: the database, Google, the mail server.
Fail(r) ==
  /\ request[r] # Idle
  /\ Finish(r)
  /\ UNCHANGED <<accounts, otps, tokens, refused>>

Next ==
  \/ \E r \in Requests :
       \/ \E email \in Emails :
            \/ \E password \in Passwords :
                 \/ BeginRegister(r, email, password)
                 \/ \E otp \in BOOLEAN : BeginLogin(r, email, password, otp)
            \/ \E code \in Codes : BeginVerify(r, email, code)
            \/ \E google \in GoogleUsers : BeginGoogleLogin(r, google, email)
       \/ \E code \in Codes : LoginOtp(r, code)
       \/ Register(r) \/ Login(r) \/ SendMail(r) \/ VerifyOtp(r) \/ GoogleLogin(r) \/ Fail(r)
  \/ \E i \in OtpIds : StoreOtp(i) \/ StoreOtpFails(i) \/ Expire(i)

Spec == Init /\ [][Next]_vars
-----------------------------------------------------------------------------
\* Properties.

AuthTypeOK ==
  /\ accounts \in Seq([email : Emails, password : Passwords \cup {None}, google : GoogleUsers \cup {None}])
  /\ otps \in Seq([code : Codes, account : Accounts, email : Emails,
                   insert : {"pending", "stored", "lost"}, mailed : BOOLEAN, expired : BOOLEAN])
  /\ tokens \subseteq [account : Accounts, by : {"password", "otp", "google"}, code : Codes \cup {None}]
  /\ {refused, overlapped} \subseteq BOOLEAN
  \* An account is a password account or a Google account.
  /\ \A a \in DOMAIN accounts : accounts[a].password = None <=> accounts[a].google # None

\* As long as requests came one at a time, every account is the one that its owner's
\* credential finds: its email for a password account, its googleUserId for one made
\* by googleLogin (EMAIL_ALREADY_EXIST, auth.service.ts:228).
EveryAccountIsReachable ==
  ~overlapped => \A a \in DOMAIN accounts :
    a = IF accounts[a].google = None THEN Oldest(HavingEmail(accounts[a].email))
        ELSE Oldest(HavingGoogle(accounts[a].google))

\* Tokens for a one-time code are given for the account that the code was drawn for,
\* after its password had been typed: never for an account that has none.
OtpTokensFollowPassword ==
  \A t \in tokens : t.by = "otp" =>
    /\ accounts[t.account].password # None
    /\ \E i \in OtpIds : otps[i].account = t.account /\ otps[i].code = t.code

\* Whoever registers or is told a code in between, a code that has been mailed and
\* stored is accepted with the email it was mailed to until it expires: loginOtp and
\* verifyOtp mean the same account by an email.
MailedCodeIsAccepted == ~refused
=============================================================================
