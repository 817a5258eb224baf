--------------------------- MODULE Staffing_proofs ---------------------------
(***************************************************************************)
(* Theorems about Staffing, for any number of requests, emails, staff      *)
(* codes and visitors.  That staff can log in rests on the reservation: a  *)
(* session that has inserted its member shares no email and no staff code  *)
(* with another such session or a committed member, so that between its    *)
(* mail and its commit nobody else mails a password to the same email.     *)
(***************************************************************************)
EXTENDS Staffing, TLAPS, SequenceTheorems, FiniteSetTheorems

\* No two members, committed or inserted by an open session, share a key.
Reserved ==
  /\ \A a, b \in StaffIds : a # b => ~SameKey(staff[a], staff[b])
  /\ \A q \in Open : \A a \in StaffIds : ~SameKey(staff[a], request[q].member)
  /\ \A q, r \in Open : q # r => ~SameKey(request[q].member, request[r].member)

\* Who is about to commit has mailed the password.
Invited ==
  \A r \in Requests : request[r].at = "commit" =>
    letter[request[r].member.email] = request[r].password

StaffingInv == StaffingTypeOK /\ Reserved /\ Invited /\ StaffCanLogIn

\* What a request at each of its awaits looks like.
LEMMA RequestTypes ==
  ASSUME StaffingTypeOK, NEW r \in Requests
  PROVE  /\ request[r] \in RequestRecord
         /\ request[r].at \in {"insert", "invite", "commit"} =>
              request[r] \in [at : {"insert", "invite", "commit"}, member : Forms, password : Nat]
         /\ request[r].at = "deactivate" => request[r].member \in Nat
         /\ request[r].at \in {"book", "mail"} =>
              request[r] \in [at : {"book", "mail"}, visitor : Visitors, consultant : Nat]
  BY DEF StaffingTypeOK, RequestRecord, Idle

\* Nothing has happened yet.
LEMMA StaffingInit == Init => StaffingInv
  <1> SUFFICES ASSUME Init PROVE StaffingInv
    OBVIOUS
  <1> USE DEF Init, Idle
  <1>0. staff \in Seq(StaffRecord) /\ bookings \in Seq([visitor : Visitors, consultant : Nat])
    OBVIOUS
  <1>1. StaffingTypeOK
    BY <1>0 DEF StaffingTypeOK, RequestRecord
  <1>2. Open = {} /\ StaffIds = {}
    BY DEF Open, StaffIds
  <1>3. Reserved /\ Invited /\ StaffCanLogIn
    BY <1>2 DEF Reserved, Invited, StaffCanLogIn
  <1> QED BY <1>1, <1>3 DEF StaffingInv

\* A step that mails nothing, commits nothing and inserts nothing keeps the invariant,
\* when its request is neither about to mail nor about to commit afterwards.
LEMMA Elsewhere ==
  ASSUME StaffingInv, StaffingTypeOK', UNCHANGED <<staff, letter>>,
         NEW r \in Requests, request'[r].at \notin {"invite", "commit"},
         \A q \in Requests \ {r} : request'[q] = request[q]
  PROVE  StaffingInv'
  <1>1. Open' \subseteq Open /\ \A q \in Open' : request'[q] = request[q]
    BY DEF Open
  <1>2. StaffIds' = StaffIds
    BY DEF StaffIds
  <1>3. Reserved'
    BY <1>1, <1>2 DEF StaffingInv, Reserved, SameKey
  <1>4. Invited'
    BY DEF StaffingInv, Invited
  <1>5. StaffCanLogIn'
    BY <1>2 DEF StaffingInv, StaffCanLogIn
  <1> QED BY <1>3, <1>4, <1>5 DEF StaffingInv

\* A request begins.
LEMMA StartTypes ==
  ASSUME StaffingTypeOK, NEW r \in Requests, NEW req \in RequestRecord, Start(r, req)
  PROVE  /\ request' \in [Requests -> RequestRecord] /\ overlapped' \in BOOLEAN
         /\ request'[r] = req
         /\ \A q \in Requests \ {r} : request'[q] = request[q]
  BY DEF StaffingTypeOK, Start

\* A request ends.
LEMMA FinishTypes ==
  ASSUME StaffingTypeOK, NEW r \in Requests, Finish(r)
  PROVE  /\ request' \in [Requests -> RequestRecord] /\ overlapped' \in BOOLEAN
         /\ request'[r] = Idle
         /\ \A q \in Requests \ {r} : request'[q] = request[q]
  BY DEF StaffingTypeOK, Finish, RequestRecord

\* A request goes on, with the same member and password.
LEMMA GotoTypes ==
  ASSUME StaffingTypeOK, NEW r \in Requests,
         NEW label \in {"invite", "commit"}, Goto(r, label),
         request[r].at \in {"insert", "invite"}
  PROVE  /\ request' \in [Requests -> RequestRecord] /\ overlapped' \in BOOLEAN
         /\ request'[r].at = label
         /\ request'[r].member = request[r].member /\ request'[r].password = request[r].password
         /\ \A q \in Requests \ {r} : request'[q] = request[q]
  <1>1. request[r] \in [at : {"insert", "invite", "commit"}, member : Forms, password : Nat]
    BY RequestTypes
  <1>2. request' = [request EXCEPT ![r].at = label] /\ overlapped' = overlapped
    BY DEF Goto
  <1>3. /\ [request[r] EXCEPT !.at = label] \in RequestRecord
        /\ [request[r] EXCEPT !.at = label].at = label
        /\ [request[r] EXCEPT !.at = label].member = request[r].member
        /\ [request[r] EXCEPT !.at = label].password = request[r].password
    BY <1>1 DEF RequestRecord
  <1> QED BY <1>2, <1>3 DEF StaffingTypeOK

\* The steps of create before its mail: a member is inserted only when nobody has, or
\* has reserved, one of its keys.
LEMMA InsertStep ==
  ASSUME StaffingInv, NEW r \in Requests,
         InsertStaff(r) \/ \E form \in Forms : BeginCreate(r, form)
  PROVE  StaffingInv'
  <1>t. StaffingTypeOK
    BY DEF StaffingInv
  <1>1. ASSUME NEW form \in Forms, BeginCreate(r, form) PROVE StaffingInv'
    <2> DEFINE req == [at |-> "insert", member |-> form, password |-> drawn + 1]
    <2>1. req \in RequestRecord
      BY <1>t DEF StaffingTypeOK, RequestRecord
    <2>2. Start(r, req)
      BY <1>1 DEF BeginCreate
    <2> HIDE DEF req
    <2>3. /\ request' \in [Requests -> RequestRecord] /\ overlapped' \in BOOLEAN
          /\ request'[r] = req
          /\ \A q \in Requests \ {r} : request'[q] = request[q]
      BY <1>t, <2>1, <2>2, StartTypes
    <2>4. StaffingTypeOK'
      BY <1>1, <1>t, <2>3 DEF BeginCreate, StaffingTypeOK, bookingVars
    <2> QED BY <1>1, <2>3, <2>4, Elsewhere DEF BeginCreate, req
  <1>2. CASE InsertStaff(r) /\ Taken(request[r].member)
    <2>1. Finish(r)
      BY <1>2 DEF InsertStaff
    <2>2. StaffingTypeOK'
      BY <1>2, <1>t, <2>1, FinishTypes DEF InsertStaff, StaffingTypeOK, staffVars, bookingVars
    <2>3. request'[r].at = "idle" /\ \A q \in Requests \ {r} : request'[q] = request[q]
      BY <1>t, <2>1, FinishTypes DEF Idle
    <2> QED BY <1>2, <2>2, <2>3, Elsewhere DEF InsertStaff, staffVars
  <1>3. CASE InsertStaff(r) /\ ~Taken(request[r].member)
    <2>1. Goto(r, "invite") /\ request[r].at = "insert" /\ UNCHANGED <<staffVars, bookingVars, late>>
      BY <1>3 DEF InsertStaff
    <2>2. /\ request' \in [Requests -> RequestRecord] /\ overlapped' \in BOOLEAN
          /\ request'[r].at = "invite" /\ request'[r].member = request[r].member
          /\ \A q \in Requests \ {r} : request'[q] = request[q]
      BY <1>t, <2>1, GotoTypes
    <2>3. StaffingTypeOK'
      BY <1>t, <2>1, <2>2 DEF StaffingTypeOK, staffVars, bookingVars
    <2>4. Open' = Open \cup {r} /\ r \notin Open /\ StaffIds' = StaffIds
      BY <2>1, <2>2 DEF Open, StaffIds, staffVars
    <2>5. /\ \A a \in StaffIds : ~SameKey(staff[a], request[r].member)
          /\ \A q \in Open : ~SameKey(request[q].member, request[r].member)
                             /\ ~SameKey(request[r].member, request[q].member)
      BY <1>3 DEF Taken, SameKey
    <2>6. \A q \in Open : request'[q] = request[q]
      BY <2>2, <2>4 DEF Open
    <2>7. Reserved'
      BY <2>1, <2>2, <2>4, <2>5, <2>6 DEF StaffingInv, Reserved, SameKey, staffVars
    <2>8. Invited' /\ StaffCanLogIn'
      BY <2>1, <2>2, <2>4 DEF StaffingInv, Invited, StaffCanLogIn, staffVars
    <2> QED BY <2>3, <2>7, <2>8 DEF StaffingInv
  <1> QED BY <1>1, <1>2, <1>3

\* The mail replaces no password that anybody else waits to commit or logs in with.
LEMMA MailStep ==
  ASSUME StaffingInv, NEW r \in Requests, SendInvitation(r)
  PROVE  StaffingInv'
  <1> DEFINE m == request[r].member
  <1>t. StaffingTypeOK
    BY DEF StaffingInv
  <1>1. /\ Goto(r, "commit") /\ request[r].at = "invite"
        /\ UNCHANGED <<staff, drawn, bookingVars, late>>
        /\ letter' = [letter EXCEPT ![m.email] = request[r].password]
    BY DEF SendInvitation
  <1>2. m \in Forms /\ m.email \in Emails /\ request[r].password \in Nat
    BY <1>t, <1>1, RequestTypes DEF Forms
  <1>3. /\ request' \in [Requests -> RequestRecord] /\ overlapped' \in BOOLEAN
        /\ request'[r].at = "commit" /\ request'[r].member = m
        /\ request'[r].password = request[r].password
        /\ \A q \in Requests \ {r} : request'[q] = request[q]
    BY <1>t, <1>1, GotoTypes
  <1>4. StaffingTypeOK'
    BY <1>t, <1>1, <1>2, <1>3 DEF StaffingTypeOK, bookingVars
  <1>5. Open' = Open /\ r \in Open /\ StaffIds' = StaffIds
    BY <1>1, <1>3 DEF Open, StaffIds
  <1>6. \A q \in Open : request'[q].member = request[q].member
    BY <1>3 DEF Open
  <1>7. Reserved'
    BY <1>1, <1>5, <1>6 DEF StaffingInv, Reserved, SameKey
  <1>8. Invited'
    <2> SUFFICES ASSUME NEW q \in Requests, request'[q].at = "commit"
                 PROVE  letter'[request'[q].member.email] = request'[q].password
      BY DEF Invited
    <2>1. CASE q = r
      BY <1>1, <1>2, <1>3, <1>t, <2>1 DEF StaffingTypeOK
    <2>2. CASE q # r
      <3>1. request'[q] = request[q] /\ q \in Open
        BY <1>3, <2>2 DEF Open
      <3>2. request[q].member.email # m.email
        BY <1>5, <2>2, <3>1 DEF StaffingInv, Reserved, SameKey
      <3>3. request[q].member.email \in Emails
        BY <1>t, <3>1, RequestTypes DEF Forms, Open
      <3> QED BY <1>1, <1>t, <3>1, <3>2, <3>3 DEF StaffingInv, Invited, StaffingTypeOK
    <2> QED BY <2>1, <2>2
  <1>9. StaffCanLogIn'
    <2> SUFFICES ASSUME NEW a \in StaffIds PROVE staff[a].password = letter'[staff[a].email]
      BY <1>1, <1>5 DEF StaffCanLogIn
    <2>1. staff[a].email # m.email
      BY <1>5 DEF StaffingInv, Reserved, SameKey
    <2>2. staff[a] \in StaffRecord
      BY <1>t, ElementOfSeq, LenProperties DEF StaffingTypeOK, StaffIds
    <2>3. staff[a].email \in Emails
      BY <2>2 DEF StaffRecord
    <2> QED BY <1>1, <1>t, <2>1, <2>3 DEF StaffingInv, StaffCanLogIn, StaffingTypeOK
  <1> QED BY <1>4, <1>7, <1>8, <1>9 DEF StaffingInv

\* The member that is committed is the one that was reserved and invited.
LEMMA CommitStep ==
  ASSUME StaffingInv, NEW r \in Requests, CommitStaff(r)
  PROVE  StaffingInv'
  <1> DEFINE m == request[r].member
             new == [email |-> m.email, staffCode |-> m.staffCode, role |-> m.role,
                     password |-> request[r].password, status |-> "ACTIVE"]
  <1>t. StaffingTypeOK
    BY DEF StaffingInv
  <1>1. /\ request[r].at = "commit" /\ staff' = Append(staff, new) /\ Finish(r)
        /\ UNCHANGED <<letter, drawn, bookingVars, late>>
    BY DEF CommitStaff
  <1>2. new \in StaffRecord
    BY <1>t, <1>1, RequestTypes DEF Forms, StaffRecord
  <1>3. /\ request' \in [Requests -> RequestRecord] /\ overlapped' \in BOOLEAN
        /\ request'[r].at = "idle"
        /\ \A q \in Requests \ {r} : request'[q] = request[q]
    BY <1>t, <1>1, FinishTypes DEF Idle
  <1>4. staff \in Seq(StaffRecord) /\ staff' \in Seq(StaffRecord)
    BY <1>t, <1>1, <1>2 DEF StaffingTypeOK
  <1>5. StaffingTypeOK'
    BY <1>t, <1>1, <1>3, <1>4 DEF StaffingTypeOK, bookingVars
  <1> HIDE DEF new
  <1>6. /\ StaffIds' = StaffIds \cup {Len(staff) + 1}
        /\ \A a \in StaffIds : staff'[a] = staff[a]
        /\ staff'[Len(staff) + 1] = new
    BY <1>1, <1>2, <1>4, AppendProperties DEF StaffIds
  <1>7. new.email = m.email /\ new.staffCode = m.staffCode /\ new.password = request[r].password
    BY DEF new
  <1>8. Open' = Open \ {r} /\ r \in Open /\ \A q \in Open' : request'[q] = request[q]
    BY <1>1, <1>3 DEF Open
  <1>9. Reserved'
    <2>1. \A a \in StaffIds : ~SameKey(staff[a], new) /\ ~SameKey(new, staff[a])
      BY <1>7, <1>8 DEF StaffingInv, Reserved, SameKey
    <2>2. \A q \in Open' : ~SameKey(new, request[q].member)
      BY <1>7, <1>8 DEF StaffingInv, Reserved, SameKey
    <2>3. \A a, b \in StaffIds' : a # b => ~SameKey(staff'[a], staff'[b])
      BY <1>6, <2>1 DEF StaffingInv, Reserved
    <2>4. \A q \in Open' : \A a \in StaffIds' : ~SameKey(staff'[a], request'[q].member)
      BY <1>6, <1>8, <2>2 DEF StaffingInv, Reserved
    <2>5. \A q, p \in Open' : q # p => ~SameKey(request'[q].member, request'[p].member)
      BY <1>8 DEF StaffingInv, Reserved
    <2> QED BY <2>3, <2>4, <2>5 DEF Reserved, SameKey
  <1>10. Invited'
    BY <1>1, <1>3 DEF StaffingInv, Invited
  <1>11. StaffCanLogIn'
    <2>1. new.password = letter[new.email]
      BY <1>1, <1>7 DEF StaffingInv, Invited
    <2> QED BY <1>1, <1>6, <2>1 DEF StaffingInv, StaffCanLogIn
  <1> QED BY <1>5, <1>9, <1>10, <1>11 DEF StaffingInv

\* A member that is deactivated keeps its keys and its password.
LEMMA DeactivateStep ==
  ASSUME StaffingInv, NEW r \in Requests, DeactivateStaff(r)
  PROVE  StaffingInv'
  <1> DEFINE m == request[r].member
  <1>t. StaffingTypeOK
    BY DEF StaffingInv
  <1>1. /\ staff' = IF Active(m) THEN [staff EXCEPT ![m].status = "INACTIVE"] ELSE staff
        /\ Finish(r)
        /\ UNCHANGED <<letter, drawn, bookingVars, late>>
    BY DEF DeactivateStaff
  <1>2. /\ request' \in [Requests -> RequestRecord] /\ overlapped' \in BOOLEAN
        /\ request'[r].at = "idle"
        /\ \A q \in Requests \ {r} : request'[q] = request[q]
    BY <1>t, <1>1, FinishTypes DEF Idle
  <1>3. /\ staff' \in Seq(StaffRecord) /\ StaffIds' = StaffIds
        /\ \A a \in StaffIds : /\ staff'[a].email = staff[a].email
                               /\ staff'[a].staffCode = staff[a].staffCode
                               /\ staff'[a].password = staff[a].password
    <2>1. CASE m \in StaffIds
      <3>1. staff[m] \in StaffRecord
        BY <1>t, <2>1, ElementOfSeq, LenProperties DEF StaffingTypeOK, StaffIds
      <3>2. [staff[m] EXCEPT !.status = "INACTIVE"] \in StaffRecord
        BY <3>1 DEF StaffRecord
      <3>3. CASE Active(m)
        <4>1. staff' = [staff EXCEPT ![m] = [staff[m] EXCEPT !.status = "INACTIVE"]]
          BY <1>1, <3>3
        <4>2. staff' \in Seq(StaffRecord) /\ StaffIds' = StaffIds
          BY <1>t, <2>1, <3>2, <4>1, ExceptSeq, LenProperties DEF StaffingTypeOK, StaffIds
        <4> QED BY <4>1, <4>2, <3>1, <2>1 DEF StaffIds, StaffRecord
      <3>4. CASE ~Active(m)
        BY <1>1, <1>t, <3>4 DEF StaffingTypeOK, StaffIds
      <3> QED BY <3>3, <3>4
    <2>2. CASE m \notin StaffIds
      <3>1. staff' = staff
        BY <1>1, <1>t, <2>2 DEF StaffingTypeOK, StaffIds
      <3> QED BY <3>1, <1>t DEF StaffingTypeOK, StaffIds
    <2> QED BY <2>1, <2>2
  <1>4. StaffingTypeOK'
    BY <1>t, <1>1, <1>2, <1>3 DEF StaffingTypeOK, bookingVars
  <1>5. Open' \subseteq Open /\ \A q \in Open' : request'[q] = request[q]
    BY <1>2 DEF Open
  <1>6. Reserved'
    BY <1>3, <1>5 DEF StaffingInv, Reserved, SameKey
  <1>7. Invited' /\ StaffCanLogIn'
    BY <1>1, <1>2, <1>3 DEF StaffingInv, Invited, StaffCanLogIn
  <1> QED BY <1>4, <1>6, <1>7 DEF StaffingInv

\* Logging in, booking and failing leave the staff and their invitations alone.
LEMMA OtherStep ==
  ASSUME StaffingInv, NEW r \in Requests,
         \/ \E a \in StaffIds : BeginDeactivate(r, a)
         \/ \E a \in StaffIds, password \in 1..drawn : BeginLogin(r, a, password)
         \/ \E v \in Visitors : BeginVisit(r, v)
         \/ \E v \in Visitors, consultant \in StaffIds \cup {NoConsultant} : BeginConsultation(r, v, consultant)
         \/ Login(r) \/ StoreBooking(r) \/ Confirm(r) \/ Fail(r)
  PROVE  StaffingInv'
  <1>t. StaffingTypeOK
    BY DEF StaffingInv
  <1>n. StaffIds \subseteq Nat
    BY <1>t, LenProperties DEF StaffingTypeOK, StaffIds
  <1> DEFINE Quiet == UNCHANGED <<staff, letter, drawn>> /\ StaffingTypeOK'
                      /\ request'[r].at \notin {"invite", "commit"}
                      /\ \A q \in Requests \ {r} : request'[q] = request[q]
  <1>1. ASSUME NEW req \in RequestRecord, req.at \notin {"invite", "commit"}, Start(r, req),
               UNCHANGED <<staffVars, bookingVars, late>>
        PROVE  Quiet
    <2>1. request' \in [Requests -> RequestRecord] /\ overlapped' \in BOOLEAN /\ request'[r] = req
          /\ \A q \in Requests \ {r} : request'[q] = request[q]
      BY <1>t, <1>1, StartTypes
    <2> QED BY <1>t, <1>1, <2>1 DEF StaffingTypeOK, staffVars, bookingVars
  <1>2. ASSUME NEW a \in StaffIds, BeginDeactivate(r, a) PROVE Quiet
    <2>1. [at |-> "deactivate", member |-> a] \in RequestRecord
      BY <1>n DEF RequestRecord
    <2> QED BY <1>1, <1>2, <2>1 DEF BeginDeactivate
  <1>3. ASSUME NEW a \in StaffIds, NEW password \in 1..drawn, BeginLogin(r, a, password) PROVE Quiet
    <2>1. [at |-> "compare", member |-> a, password |-> password] \in RequestRecord
      BY <1>n, <1>t DEF RequestRecord, StaffingTypeOK
    <2> QED BY <1>1, <1>3, <2>1 DEF BeginLogin
  <1>4. ASSUME NEW v \in Visitors, NEW consultant \in StaffIds \cup {NoConsultant}, Submit(r, v, consultant)
        PROVE  Quiet
    <2>1. [at |-> "book", visitor |-> v, consultant |-> consultant] \in RequestRecord
      <3>1. consultant \in Nat
        BY <1>n DEF NoConsultant
      <3> QED BY <3>1 DEF RequestRecord
    <2> QED BY <1>1, <1>4, <2>1 DEF Submit
  <1>5. ASSUME Login(r) PROVE Quiet
    <2>1. Finish(r) /\ UNCHANGED <<staffVars, bookingVars>> /\ late' \in BOOLEAN
      BY <1>5, <1>t DEF Login, StaffingTypeOK
    <2> QED BY <1>t, <2>1, FinishTypes DEF StaffingTypeOK, staffVars, bookingVars, Idle
  <1>6. ASSUME Confirm(r) PROVE Quiet
    <2>1. Finish(r) /\ UNCHANGED <<staffVars, bookings, unconfirmed, late>> /\ confirmed' \subseteq Visitors
      BY <1>6, <1>t, RequestTypes DEF Confirm, StaffingTypeOK
    <2> QED BY <1>t, <2>1, FinishTypes DEF StaffingTypeOK, staffVars, Idle
  <1>7. ASSUME Fail(r) PROVE Quiet
    <2>1. Finish(r) /\ UNCHANGED <<staffVars, bookings, confirmed, late>> /\ unconfirmed' \in [Visitors -> Nat]
      <3>1. request[r].at = "mail" => request[r].visitor \in Visitors
        BY <1>t, RequestTypes
      <3> QED BY <1>7, <1>t, <3>1 DEF Fail, StaffingTypeOK
    <2> QED BY <1>t, <2>1, FinishTypes DEF StaffingTypeOK, staffVars, Idle
  <1>8. ASSUME StoreBooking(r) PROVE Quiet
    <2> DEFINE booking == [visitor |-> request[r].visitor, consultant |-> request[r].consultant]
    <2>1. /\ request[r] \in [at : {"book", "mail"}, visitor : Visitors, consultant : Nat]
          /\ bookings' = Append(bookings, booking) /\ Goto(r, "mail")
          /\ UNCHANGED <<staffVars, confirmed, unconfirmed>> /\ late' \in BOOLEAN
      BY <1>8, <1>t, RequestTypes DEF StoreBooking, StaffingTypeOK
    <2>2. bookings' \in Seq([visitor : Visitors, consultant : Nat])
      BY <1>t, <2>1, AppendProperties DEF StaffingTypeOK
    <2>3. request' = [request EXCEPT ![r].at = "mail"] /\ overlapped' = overlapped
      BY <2>1 DEF Goto
    <2>4. [request[r] EXCEPT !.at = "mail"] \in RequestRecord /\ [request[r] EXCEPT !.at = "mail"].at = "mail"
      BY <2>1 DEF RequestRecord
    <2>5. request' \in [Requests -> RequestRecord] /\ request'[r].at = "mail"
          /\ \A q \in Requests \ {r} : request'[q] = request[q]
      BY <1>t, <2>3, <2>4 DEF StaffingTypeOK
    <2> QED BY <1>t, <2>1, <2>2, <2>3, <2>5 DEF StaffingTypeOK, staffVars
  <1>9. Quiet
    <2>1. ASSUME NEW v \in Visitors, BeginVisit(r, v) PROVE Quiet
      BY <1>4, <2>1 DEF BeginVisit
    <2>2. ASSUME NEW v \in Visitors, NEW consultant \in StaffIds \cup {NoConsultant},
                 BeginConsultation(r, v, consultant)
          PROVE  Quiet
      BY <1>4, <2>2 DEF BeginConsultation
    <2> QED BY <1>2, <1>3, <1>5, <1>6, <1>7, <1>8, <2>1, <2>2
  <1> QED BY <1>9, Elsewhere

\* Each step keeps the invariant.
LEMMA StaffingStep == StaffingInv /\ [Next]_vars => StaffingInv'
  <1> SUFFICES ASSUME StaffingInv, [Next]_vars PROVE StaffingInv'
    OBVIOUS
  <1>1. CASE UNCHANGED vars
    <2>1. StaffingTypeOK'
      BY <1>1 DEF vars, staffVars, bookingVars, StaffingInv, StaffingTypeOK
    <2>2. Open' = Open /\ StaffIds' = StaffIds
      BY <1>1 DEF vars, staffVars, Open, StaffIds
    <2> QED BY <1>1, <2>1, <2>2 DEF vars, staffVars, StaffingInv, Reserved, Invited, StaffCanLogIn
  <1>2. CASE Next
    BY <1>2, InsertStep, MailStep, CommitStep, DeactivateStep, OtherStep DEF Next
  <1> QED BY <1>1, <1>2

\* The invariant holds throughout.
LEMMA StaffingInvariant == Spec => []StaffingInv
  BY StaffingInit, StaffingStep, PTL DEF Spec

\* The variables keep their types.
THEOREM StaffingTypeCorrect == Spec => []StaffingTypeOK
  <1>1. StaffingInv => StaffingTypeOK
    BY DEF StaffingInv
  <1> QED BY <1>1, StaffingInvariant, PTL

\* However many invitations race for an email, a member of staff can log in with the
\* one that was mailed last.
THEOREM StaffLogInWithLastInvitation == Spec => []StaffCanLogIn
  <1>1. StaffingInv => StaffCanLogIn
    BY DEF StaffingInv
  <1> QED BY <1>1, StaffingInvariant, PTL
-----------------------------------------------------------------------------
(* While requests come one at a time. *)

\* The only request in flight works on what it has read a moment ago.
LeftAlone ==
  ~overlapped =>
    /\ ~late
    /\ \A q, r \in Requests : request[q] # Idle /\ request[r] # Idle => q = r
    /\ \A r \in Requests :
         /\ request[r].at = "compare" => Active(request[r].member)
         /\ request[r].at = "book" =>
              request[r].consultant = NoConsultant \/ Active(request[r].consultant)

\* A request in a step of its own that leaves it at no await of a login or a booking.
LEMMA GoesOnAlone ==
  ASSUME LeftAlone, NEW r \in Requests, request[r] # Idle,
         overlapped' = overlapped, ~overlapped => late' = late,
         \A q \in Requests \ {r} : request'[q] = request[q],
         request'[r].at \notin {"compare", "book"}
  PROVE  LeftAlone'
  <1> SUFFICES ASSUME ~overlapped PROVE LeftAlone'
    BY DEF LeftAlone
  <1>1. \A q \in Requests \ {r} : request'[q] = Idle
    BY DEF LeftAlone
  <1> QED BY <1>1 DEF LeftAlone, Idle

\* A request that goes on keeps its visitor, and leaves the others alone.
LEMMA GoesTo ==
  ASSUME StaffingTypeOK, NEW r \in Requests, NEW label \in {"invite", "commit", "mail"},
         request[r].at \in {"insert", "invite", "book"}, Goto(r, label)
  PROVE  /\ request'[r].at = label
         /\ request'[r].at = "mail" /\ request[r].at = "book" => request'[r].visitor = request[r].visitor
         /\ \A q \in Requests \ {r} : request'[q] = request[q]
  <1>1. request[r] \in [at : {"insert", "invite", "commit"}, member : Forms, password : Nat]
          \cup [at : {"book", "mail"}, visitor : Visitors, consultant : Nat]
    BY RequestTypes
  <1>2. request' = [request EXCEPT ![r].at = label] /\ r \in DOMAIN request
    BY DEF Goto, StaffingTypeOK
  <1> QED BY <1>1, <1>2

\* What a login or a booking has read is still so when it is used, or another request
\* has been in flight.
LEMMA LeftAloneStep ==
  ASSUME StaffingInv, LeftAlone, [Next]_vars
  PROVE  LeftAlone'
  <1>t. StaffingTypeOK
    BY DEF StaffingInv
  <1>1. ASSUME NEW r \in Requests, NEW req, Start(r, req), UNCHANGED <<staff, late>>,
               req.at = "compare" => Active(req.member),
               req.at = "book" => req.consultant = NoConsultant \/ Active(req.consultant)
        PROVE  LeftAlone'
    <2> SUFFICES ASSUME ~overlapped' PROVE LeftAlone'
      BY DEF LeftAlone
    <2>1. /\ ~overlapped /\ request'[r] = req
          /\ \A q \in Requests \ {r} : request'[q] = Idle
      BY <1>1, <1>t DEF Start, StaffingTypeOK
    <2> QED BY <1>1, <2>1 DEF LeftAlone, Active, Idle
  <1>2. ASSUME NEW r \in Requests,
               \/ \E form \in Forms : BeginCreate(r, form)
               \/ \E a \in StaffIds : BeginDeactivate(r, a)
               \/ \E a \in StaffIds, password \in 1..drawn : BeginLogin(r, a, password)
        PROVE  LeftAlone'
    BY <1>1, <1>2 DEF BeginCreate, BeginDeactivate, BeginLogin, staffVars
  <1>3. ASSUME NEW r \in Requests,
               \/ \E v \in Visitors : BeginVisit(r, v)
               \/ \E v \in Visitors, consultant \in StaffIds \cup {NoConsultant} :
                    BeginConsultation(r, v, consultant)
        PROVE  LeftAlone'
    BY <1>1, <1>3 DEF BeginVisit, BeginConsultation, Submit, staffVars
  <1>4. ASSUME NEW r \in Requests, InsertStaff(r) \/ SendInvitation(r) \/ StoreBooking(r)
        PROVE  LeftAlone'
    <2>1. PICK label \in {"invite", "commit", "mail", "idle"} :
            IF label = "idle" THEN Finish(r) ELSE Goto(r, label)
      BY <1>4 DEF InsertStaff, SendInvitation, StoreBooking
    <2>2. request[r].at \in {"insert", "invite", "book"} /\ request[r] # Idle
      BY <1>4 DEF InsertStaff, SendInvitation, StoreBooking, Idle
    <2>3. request'[r].at = label /\ \A q \in Requests \ {r} : request'[q] = request[q]
      BY <1>t, <2>1, <2>2, GoesTo, FinishTypes DEF Idle
    <2>4. overlapped' = overlapped /\ (~overlapped => late' = late)
      BY <1>4, <1>t, <2>1 DEF InsertStaff, SendInvitation, StoreBooking, Goto, Finish, LeftAlone, StaffingTypeOK
    <2> QED BY <2>2, <2>3, <2>4, GoesOnAlone
  <1>5. ASSUME NEW r \in Requests,
               CommitStaff(r) \/ DeactivateStaff(r) \/ Login(r) \/ Confirm(r) \/ Fail(r)
        PROVE  LeftAlone'
    <2>1. /\ Finish(r) /\ request[r] # Idle
          /\ overlapped' = overlapped
      BY <1>5 DEF CommitStaff, DeactivateStaff, Login, Confirm, Fail, Finish, Idle
    <2>2. ~overlapped => late' = late
      BY <1>5, <1>t DEF CommitStaff, DeactivateStaff, Login, Confirm, Fail, LeftAlone, StaffingTypeOK
    <2>3. request'[r].at = "idle" /\ \A q \in Requests \ {r} : request'[q] = request[q]
      BY <1>t, <2>1, FinishTypes DEF Idle
    <2> QED BY <2>1, <2>2, <2>3, GoesOnAlone
  <1>6. CASE UNCHANGED vars
    BY <1>6 DEF vars, staffVars, LeftAlone, Active
  <1> QED BY <1>2, <1>3, <1>4, <1>5, <1>6 DEF Next

\* As long as requests come one at a time, a deactivated member of staff is given no
\* tokens and is not booked (auth.service.ts:60, booking.service.ts:38).
THEOREM DeactivatedStaffLeftAlone == Spec => []DeactivatedIsLeftAlone
  <1>1. Init => LeftAlone
    BY DEF Init, LeftAlone, Idle
  <1>2. LeftAlone => DeactivatedIsLeftAlone
    BY DEF LeftAlone, DeactivatedIsLeftAlone
  <1> QED BY <1>1, <1>2, LeftAloneStep, StaffingInvariant, PTL DEF Spec
-----------------------------------------------------------------------------
(* The ledger of bookings. *)

\* A visitor has one form in flight, and none once told that it is booked.
OneForm ==
  /\ \A q, r \in Requests :
       request[q].at \in {"book", "mail"} /\ request[r].at \in {"book", "mail"}
         /\ request[q].visitor = request[r].visitor => q = r
  /\ \A r \in Requests :
       request[r].at \in {"book", "mail"} => request[r].visitor \notin confirmed

BookingsOf(v) == {i \in DOMAIN bookings : bookings[i].visitor = v}
Mailing(v) == {r \in Requests : request[r].at = "mail" /\ request[r].visitor = v}

\* BookingLedger for one visitor, whose mails can be counted because there is one.
Ledger(v) ==
  Cardinality(BookingsOf(v))
    = unconfirmed[v] + (IF v \in confirmed THEN 1 ELSE 0) + (IF Mailing(v) = {} THEN 0 ELSE 1)

LedgerInv == OneForm /\ \A v \in Visitors : Ledger(v)

\* A set without two different members has one member or none.
LEMMA AtMostOne ==
  ASSUME NEW S, \A a, b \in S : a = b
  PROVE  Cardinality(S) = IF S = {} THEN 0 ELSE 1
  <1>1. CASE S = {}
    BY <1>1, FS_EmptySet
  <1>2. CASE S # {}
    <2>1. PICK a : S = {a}
      BY <1>2
    <2> QED BY <2>1, FS_Singleton
  <1> QED BY <1>1, <1>2

\* The books imply what the run checks.
LEMMA LedgerSays == LedgerInv => BookingLedger
  <1> SUFFICES ASSUME LedgerInv, NEW v \in Visitors
               PROVE  Cardinality(BookingsOf(v))
                        = unconfirmed[v] + Cardinality({v} \cap confirmed) + Cardinality(Mailing(v))
    BY DEF BookingLedger, BookingsOf, Mailing
  <1>1. Cardinality(Mailing(v)) = IF Mailing(v) = {} THEN 0 ELSE 1
    <2>1. \A q, r \in Mailing(v) : q = r
      BY DEF LedgerInv, OneForm, Mailing
    <2> QED BY <2>1, AtMostOne
  <1>2. Cardinality({v} \cap confirmed) = IF v \in confirmed THEN 1 ELSE 0
    <2>1. \A a, b \in {v} \cap confirmed : a = b
      OBVIOUS
    <2>2. {v} \cap confirmed = {} <=> v \notin confirmed
      OBVIOUS
    <2> QED BY <2>1, <2>2, AtMostOne
  <1> QED BY <1>1, <1>2 DEF LedgerInv, Ledger

\* A step that stores no booking and answers no form that was being mailed.
LEMMA NoBooking ==
  ASSUME LedgerInv, NEW r \in Requests, UNCHANGED bookingVars,
         \A q \in Requests \ {r} : request'[q] = request[q],
         request[r].at # "mail", request'[r].at # "mail",
         request'[r].at = "book" =>
           /\ request'[r].visitor \notin confirmed
           /\ \A q \in Requests : request[q].at \in {"book", "mail"} => request[q].visitor # request'[r].visitor
  PROVE  LedgerInv'
  <1>1. \A v \in Visitors : Mailing(v)' = Mailing(v) /\ BookingsOf(v)' = BookingsOf(v)
    BY DEF Mailing, BookingsOf, bookingVars
  <1>2. OneForm'
    BY DEF LedgerInv, OneForm, bookingVars
  <1> QED BY <1>1, <1>2 DEF LedgerInv, Ledger, bookingVars

\* The booking is stored and the mail is due.
LEMMA StoreBookingLedger ==
  ASSUME StaffingTypeOK, LedgerInv, NEW r \in Requests, StoreBooking(r)
  PROVE  LedgerInv'
  <1> DEFINE v == request[r].visitor
             booking == [visitor |-> v, consultant |-> request[r].consultant]
             n == Len(bookings) + 1
  <1>1. /\ request[r].at = "book" /\ v \in Visitors
        /\ booking \in [visitor : Visitors, consultant : Nat]
        /\ Goto(r, "mail") /\ bookings' = Append(bookings, booking)
        /\ confirmed' = confirmed /\ unconfirmed' = unconfirmed
    BY RequestTypes DEF StoreBooking
  <1>2. /\ request'[r].at = "mail" /\ request'[r].visitor = v
        /\ \A q \in Requests \ {r} : request'[q] = request[q]
    BY <1>1, GoesTo
  <1>3. bookings \in Seq([visitor : Visitors, consultant : Nat]) /\ unconfirmed \in [Visitors -> Nat]
    BY DEF StaffingTypeOK
  <1>4. booking.visitor = v
    OBVIOUS
  <1> HIDE DEF booking
  <1>5. /\ DOMAIN bookings = 1..Len(bookings) /\ Len(bookings) \in Nat
        /\ DOMAIN bookings' = (DOMAIN bookings) \cup {n} /\ n \notin DOMAIN bookings
        /\ bookings'[n] = booking
        /\ \A i \in DOMAIN bookings : bookings'[i] = bookings[i]
    BY <1>1, <1>3, AppendProperties, LenProperties
  <1>6. OneForm'
    BY <1>1, <1>2 DEF LedgerInv, OneForm
  <1>7. ASSUME NEW w \in Visitors PROVE Ledger(w)'
    <2>1. CASE w # v
      <3>1. BookingsOf(w)' = BookingsOf(w) /\ Mailing(w)' = Mailing(w)
        BY <1>1, <1>2, <1>4, <1>5, <2>1 DEF BookingsOf, Mailing
      <3> QED BY <1>1, <3>1 DEF LedgerInv, Ledger
    <2>2. CASE w = v
      <3> DEFINE before == {i \in DOMAIN bookings : bookings[i].visitor = w}
                 after == {i \in DOMAIN bookings' : bookings'[i].visitor = w}
      <3>1. after = before \cup {n} /\ n \notin before /\ before \subseteq 1..Len(bookings)
        BY <1>4, <1>5, <2>2
      <3>2. IsFiniteSet(before)
        <4>1. IsFiniteSet(1..Len(bookings))
          BY <1>5, FS_Interval
        <4> QED BY <3>1, <4>1, FS_Subset
      <3>3. Cardinality(before \cup {n}) = Cardinality(before) + 1
        BY <3>1, <3>2, FS_AddElement
      <3>4. r \in Mailing(w)' /\ Mailing(w) = {} /\ w \notin confirmed
        BY <1>1, <1>2, <2>2 DEF Mailing, LedgerInv, OneForm
      <3>5. Cardinality(before) = unconfirmed[w]
        BY <1>3, <3>4 DEF LedgerInv, Ledger, BookingsOf
      <3>6. Cardinality(BookingsOf(w))' = Cardinality(before) + 1
        BY <3>1, <3>3 DEF BookingsOf
      <3> QED BY <1>1, <1>3, <3>4, <3>5, <3>6 DEF Ledger
    <2> QED BY <2>1, <2>2
  <1> QED BY <1>6, <1>7 DEF LedgerInv

\* The mail is answered: it was sent, or it failed.
LEMMA MailLedger ==
  ASSUME StaffingTypeOK, LedgerInv, NEW r \in Requests, request[r].at = "mail", Confirm(r) \/ Fail(r)
  PROVE  LedgerInv'
  <1> DEFINE v == request[r].visitor
  <1>1. /\ v \in Visitors /\ unconfirmed \in [Visitors -> Nat] /\ bookings' = bookings
        /\ \/ confirmed' = confirmed \cup {v} /\ unconfirmed' = unconfirmed
           \/ confirmed' = confirmed /\ unconfirmed' = [unconfirmed EXCEPT ![v] = @ + 1]
    BY RequestTypes DEF Confirm, Fail, StaffingTypeOK
  <1>2. /\ request'[r].at = "idle"
        /\ \A q \in Requests \ {r} : request'[q] = request[q]
    BY FinishTypes DEF Confirm, Fail, Idle
  <1>3. \A q \in Requests \ {r} : request[q].at \in {"book", "mail"} => request[q].visitor # v
    BY DEF LedgerInv, OneForm
  <1>4. OneForm'
    BY <1>1, <1>2, <1>3 DEF LedgerInv, OneForm
  <1>5. ASSUME NEW w \in Visitors PROVE Ledger(w)'
    <2>1. BookingsOf(w)' = BookingsOf(w)
      BY <1>1 DEF BookingsOf
    <2>2. CASE w # v
      <3>1. Mailing(w)' = Mailing(w)
        BY <1>2, <2>2 DEF Mailing
      <3> QED BY <1>1, <2>1, <2>2, <3>1 DEF LedgerInv, Ledger
    <2>3. CASE w = v
      <3>1. r \in Mailing(w) /\ Mailing(w)' = {} /\ w \notin confirmed
        BY <1>2, <1>3, <2>3 DEF Mailing, LedgerInv, OneForm
      <3>2. Cardinality(BookingsOf(w)) = unconfirmed[w] + 1 /\ unconfirmed[w] \in Nat
        BY <1>1, <3>1 DEF LedgerInv, Ledger
      <3>3. unconfirmed'[w] + (IF w \in confirmed' THEN 1 ELSE 0) = unconfirmed[w] + 1
            /\ unconfirmed'[w] \in Nat
        BY <1>1, <2>3, <3>1, <3>2
      <3> QED BY <2>1, <3>1, <3>2, <3>3 DEF Ledger
    <2> QED BY <2>2, <2>3
  <1> QED BY <1>4, <1>5 DEF LedgerInv

\* Every step keeps the books.
LEMMA LedgerStep ==
  ASSUME StaffingInv, LedgerInv, [Next]_vars
  PROVE  LedgerInv'
  <1>t. StaffingTypeOK
    BY DEF StaffingInv
  <1>1. ASSUME NEW r \in Requests, NEW req, Start(r, req), UNCHANGED bookingVars, req.at # "mail",
               req.at = "book" =>
                 /\ req.visitor \notin confirmed
                 /\ \A q \in Requests : request[q].at \in {"book", "mail"} => request[q].visitor # req.visitor
        PROVE  LedgerInv'
    <2>1. /\ request'[r] = req /\ request[r].at = "idle"
          /\ \A q \in Requests \ {r} : request'[q] = request[q]
      BY <1>1, <1>t DEF Start, StaffingTypeOK, Idle
    <2> QED BY <1>1, <2>1, NoBooking
  <1>2. ASSUME NEW r \in Requests,
               \/ \E form \in Forms : BeginCreate(r, form)
               \/ \E a \in StaffIds : BeginDeactivate(r, a)
               \/ \E a \in StaffIds, password \in 1..drawn : BeginLogin(r, a, password)
        PROVE  LedgerInv'
    BY <1>1, <1>2 DEF BeginCreate, BeginDeactivate, BeginLogin
  <1>3. ASSUME NEW r \in Requests,
               \/ \E v \in Visitors : BeginVisit(r, v)
               \/ \E v \in Visitors, consultant \in StaffIds \cup {NoConsultant} :
                    BeginConsultation(r, v, consultant)
        PROVE  LedgerInv'
    BY <1>1, <1>3 DEF BeginVisit, BeginConsultation, Submit
  <1>4. ASSUME NEW r \in Requests, InsertStaff(r) \/ SendInvitation(r)
        PROVE  LedgerInv'
    <2>1. PICK label \in {"invite", "commit", "idle"} :
            IF label = "idle" THEN Finish(r) ELSE Goto(r, label)
      BY <1>4 DEF InsertStaff, SendInvitation
    <2>2. request[r].at \in {"insert", "invite"} /\ UNCHANGED bookingVars
      BY <1>4 DEF InsertStaff, SendInvitation
    <2>3. request'[r].at = label /\ \A q \in Requests \ {r} : request'[q] = request[q]
      BY <1>t, <2>1, <2>2, GoesTo, FinishTypes DEF Idle
    <2> QED BY <2>2, <2>3, NoBooking
  <1>5. ASSUME NEW r \in Requests, request[r].at # "mail",
               CommitStaff(r) \/ DeactivateStaff(r) \/ Login(r) \/ Fail(r)
        PROVE  LedgerInv'
    <2>1. Finish(r) /\ UNCHANGED bookingVars
      BY <1>5 DEF CommitStaff, DeactivateStaff, Login, Fail, bookingVars
    <2>2. request'[r].at = "idle" /\ \A q \in Requests \ {r} : request'[q] = request[q]
      BY <1>t, <2>1, FinishTypes DEF Idle
    <2> QED BY <1>5, <2>1, <2>2, NoBooking
  <1>6. ASSUME NEW r \in Requests, CommitStaff(r) \/ DeactivateStaff(r) \/ Login(r)
        PROVE  request[r].at # "mail"
    BY <1>6 DEF CommitStaff, DeactivateStaff, Login
  <1>7. ASSUME NEW r \in Requests, Confirm(r) PROVE request[r].at = "mail"
    BY <1>7 DEF Confirm
  <1>8. CASE UNCHANGED vars
    <2>1. UNCHANGED <<bookings, confirmed, unconfirmed, request>>
      BY <1>8 DEF vars, bookingVars
    <2>2. \A v \in Visitors : Mailing(v)' = Mailing(v) /\ BookingsOf(v)' = BookingsOf(v)
      BY <2>1 DEF Mailing, BookingsOf
    <2> QED BY <2>1, <2>2 DEF LedgerInv, OneForm, Ledger
  <1> QED BY <1>t, <1>2, <1>3, <1>4, <1>5, <1>6, <1>7, <1>8, StoreBookingLedger, MailLedger DEF Next

\* Whoever submits again only after an error is booked twice only by a mail that
\* failed, and who was told of a booking is booked (booking.service.ts:54, 61).
THEOREM BookingsAddUp == Spec => []BookingLedger
  <1>1. Init => LedgerInv
    <2> SUFFICES ASSUME Init PROVE LedgerInv
      OBVIOUS
    <2>1. \A v \in Visitors : BookingsOf(v) = {} /\ Mailing(v) = {}
      BY DEF Init, Idle, BookingsOf, Mailing
    <2>2. Cardinality({}) = 0
      BY FS_EmptySet
    <2>3. OneForm
      BY DEF Init, Idle, OneForm
    <2>4. ASSUME NEW v \in Visitors PROVE Ledger(v)
      <3>1. BookingsOf(v) = {} /\ Mailing(v) = {} /\ v \notin confirmed /\ unconfirmed[v] = 0
        BY <2>1 DEF Init
      <3> QED BY <2>2, <3>1 DEF Ledger
    <2> QED BY <2>3, <2>4 DEF LedgerInv
  <1> QED BY <1>1, LedgerSays, LedgerStep, StaffingInvariant, PTL DEF Spec
=============================================================================
