------------------------------- MODULE Staffing -------------------------------
(***************************************************************************)
(* StaffService and the login of staff, with the two booking services,     *)
(* which book a visit of the showroom or a consultant.                     *)
(*                                                                         *)
(* create inserts the staff member in a session, mails the password it has *)
(* drawn and then commits.  The session makes no other write, so its keys  *)
(* (unique email and staffCode) are refused alike when an open session has *)
(* inserted them (WriteConflict) and when they are committed (11000).      *)
(* Nothing else runs in a session here; the bookings are stored before the *)
(* mail that confirms them.                                                *)
(*                                                                         *)
(* update changes names, phone and avatar only, and has no action.  Roles  *)
(* and staff codes do not change after creation.                           *)
(***************************************************************************)
EXTENDS Naturals, Sequences, FiniteSets, Handlers

CONSTANTS Emails, StaffCodes,
          Roles,         \* of StaffRole
          Customers,     \* logged in
          Guests,        \* who may visit the showroom without an account
          MaxStaff,      \* bound: staff created
          MaxPasswords,  \* bound: passwords drawn
          MaxBookings    \* bound: bookings stored

ASSUME StaffingAssumption ==
  /\ {MaxStaff, MaxPasswords, MaxBookings} \subseteq Nat
  /\ Customers \cap Guests = {}

VARIABLES staff,         \* committed, oldest first
          letter,        \* the password last mailed to an email, 0 if none
          drawn,         \* passwords drawn: the last one is number drawn
          bookings,
          confirmed,     \* visitors who were told that they are booked
          unconfirmed,   \* history: bookings of a visitor answered with an error
          late,          \* history: a deactivated member was given tokens or booked
          overlapped     \* history: two requests have been in flight at once

staffVars == <<staff, letter, drawn>>
bookingVars == <<bookings, confirmed, unconfirmed>>
vars == <<staffVars, bookingVars, request, late, overlapped>>

Visitors == Customers \cup Guests
Idle == [at |-> "idle"]
NoConsultant == 0
StaffIds == DOMAIN staff
Active(a) == staff[a].status = "ACTIVE"

Init ==
  /\ staff = <<>>
  /\ letter = [e \in Emails |-> 0]
  /\ drawn = 0
  /\ bookings = <<>>
  /\ confirmed = {}
  /\ unconfirmed = [v \in Visitors |-> 0]
  /\ request = [r \in Requests |-> Idle]
  /\ late = FALSE
  /\ overlapped = FALSE

\* A request begins.
Start(r, req) ==
  /\ request[r] = Idle
  /\ request' = [request EXCEPT ![r] = req]
  /\ overlapped' = (overlapped \/ \E q \in Requests \ {r} : request[q] # Idle)

Goto(r, label) == request' = [request EXCEPT ![r].at = label] /\ UNCHANGED overlapped
Finish(r) == request' = [request EXCEPT ![r] = Idle] /\ UNCHANGED overlapped
-----------------------------------------------------------------------------
(* Staff. *)

\* The admin's provider is read; a password is drawn and hashed.
BeginCreate(r, form) ==
  /\ drawn < MaxPasswords
  /\ drawn' = drawn + 1
  /\ Start(r, [at |-> "insert", member |-> form, password |-> drawn + 1])
  /\ UNCHANGED <<staff, letter, bookingVars, late>>

\* Mutant: only the staff code is unique.
SameCode(m, n) == m.staffCode = n.staffCode

\* Two unique indexes.
SameKey(m, n) == m.email = n.email \/ m.staffCode = n.staffCode

\* Requests whose session has inserted its member.
Open == {r \in Requests : request[r].at \in {"invite", "commit"}}

Taken(m) ==
  \/ \E a \in StaffIds : SameKey(staff[a], m)
  \/ \E q \in Open : SameKey(request[q].member, m)

InsertStaff(r) ==
  /\ request[r].at = "insert"
  /\ IF Taken(request[r].member) THEN Finish(r) ELSE Goto(r, "invite")
  /\ UNCHANGED <<staffVars, bookingVars, late>>

\* The mail leaves before the commit.
SendInvitation(r) ==
  /\ request[r].at = "invite"
  /\ letter' = [letter EXCEPT ![request[r].member.email] = request[r].password]
  /\ Goto(r, "commit")
  /\ UNCHANGED <<staff, drawn, bookingVars, late>>

\* Also when the commit took place and its answer is lost.
CommitStaff(r) ==
  LET member == request[r].member
  IN /\ request[r].at = "commit"
     /\ Len(staff) < MaxStaff
     /\ staff' = Append(staff,
          [email |-> member.email, staffCode |-> member.staffCode, role |-> member.role,
           password |-> request[r].password, status |-> "ACTIVE"])
     /\ Finish(r)
     /\ UNCHANGED <<letter, drawn, bookingVars, late>>

\* The admin's provider is read.
BeginDeactivate(r, a) ==
  /\ a \in StaffIds
  /\ Start(r, [at |-> "deactivate", member |-> a])
  /\ UNCHANGED <<staffVars, bookingVars, late>>

\* findOneAndUpdate on the id and status ACTIVE, else STAFF_NOT_FOUND.
DeactivateStaff(r) ==
  /\ request[r].at = "deactivate"
  /\ staff' = IF Active(request[r].member) THEN [staff EXCEPT ![request[r].member].status = "INACTIVE"]
              ELSE staff
  /\ Finish(r)
  /\ UNCHANGED <<letter, drawn, bookingVars, late>>

\* INACTIVE_ACCOUNT is looked at before the password typed is compared.
BeginLogin(r, a, password) ==
  /\ a \in StaffIds
  /\ Active(a)
  /\ Start(r, [at |-> "compare", member |-> a, password |-> password])
  /\ UNCHANGED <<staffVars, bookingVars, late>>

\* Tokens, if the password is that of the member as read.
Login(r) ==
  LET req == request[r]
  IN /\ req.at = "compare"
     /\ late' = (late \/ (staff[req.member].password = req.password /\ ~Active(req.member)))
     /\ Finish(r)
     /\ UNCHANGED <<staffVars, bookingVars>>
-----------------------------------------------------------------------------
(* Bookings. *)

\* External: no code here keeps a visitor from submitting twice.  The web client is
\* assumed to have one form of a visitor in flight, and none once told that it is booked.
Submit(r, v, consultant) ==
  /\ v \notin confirmed
  /\ \A q \in Requests : request[q].at \in {"book", "mail"} => request[q].visitor # v
  /\ Start(r, [at |-> "book", visitor |-> v, consultant |-> consultant])
  /\ UNCHANGED <<staffVars, bookingVars, late>>

\* visit-showroom-booking: customers and guests.
BeginVisit(r, v) == v \in Visitors /\ Submit(r, v, NoConsultant)

\* Mutant: any consultant will do.
BeginConsultationAny(r, v, consultant) ==
  /\ v \in Customers
  /\ consultant # NoConsultant => consultant \in StaffIds /\ staff[consultant].role = "CONSULTANT_STAFF"
  /\ Submit(r, v, consultant)

\* consultant-booking: customers; the consultant is optional, else must be found ACTIVE.
BeginConsultation(r, v, consultant) ==
  /\ v \in Customers
  /\ \/ consultant = NoConsultant
     \/ /\ consultant \in StaffIds
        /\ Active(consultant)
        /\ staff[consultant].role = "CONSULTANT_STAFF"
  /\ Submit(r, v, consultant)

\* Mutant: the insert is not awaited, so that the mail leaves when it has failed.
StoreBookingUnawaited(r) ==
  LET req == request[r]
  IN /\ req.at = "book"
     /\ \/ /\ Len(bookings) < MaxBookings
           /\ bookings' = Append(bookings, [visitor |-> req.visitor, consultant |-> req.consultant])
           /\ late' = (late \/ (req.consultant # NoConsultant /\ ~Active(req.consultant)))
        \/ UNCHANGED <<bookings, late>>
     /\ Goto(r, "mail")
     /\ UNCHANGED <<staffVars, confirmed, unconfirmed>>

\* After the categories have been read.
StoreBooking(r) ==
  LET req == request[r]
  IN /\ req.at = "book"
     /\ Len(bookings) < MaxBookings
     /\ bookings' = Append(bookings, [visitor |-> req.visitor, consultant |-> req.consultant])
     /\ late' = (late \/ (req.consultant # NoConsultant /\ ~Active(req.consultant)))
     /\ Goto(r, "mail")
     /\ UNCHANGED <<staffVars, confirmed, unconfirmed>>

Confirm(r) ==
  /\ request[r].at = "mail"
  /\ confirmed' = confirmed \cup {request[r].visitor}
  /\ Finish(r)
  /\ UNCHANGED <<staffVars, bookings, unconfirmed, late>>

\* A failing await.  An open session is aborted; a stored booking stays.
Fail(r) ==
  /\ request[r] # Idle
  /\ unconfirmed' = IF request[r].at = "mail" THEN [unconfirmed EXCEPT ![request[r].visitor] = @ + 1]
                    ELSE unconfirmed
  /\ Finish(r)
  /\ UNCHANGED <<staffVars, bookings, confirmed, late>>

Forms == [email : Emails, staffCode : StaffCodes, role : Roles]

Next ==
  \E r \in Requests :
    \/ \E form \in Forms : BeginCreate(r, form)
    \/ \E a \in StaffIds : BeginDeactivate(r, a)
    \/ \E a \in StaffIds, password \in 1..drawn : BeginLogin(r, a, password)
    \/ \E v \in Visitors : BeginVisit(r, v)
    \/ \E v \in Visitors, consultant \in StaffIds \cup {NoConsultant} : BeginConsultation(r, v, consultant)
    \/ InsertStaff(r) \/ SendInvitation(r) \/ CommitStaff(r) \/ DeactivateStaff(r) \/ Login(r)
    \/ StoreBooking(r) \/ Confirm(r) \/ Fail(r)

Spec == Init /\ [][Next]_vars
-----------------------------------------------------------------------------
\* Properties.

StaffRecord == [email : Emails, staffCode : StaffCodes, role : Roles, password : Nat,
                status : {"ACTIVE", "INACTIVE"}]

RequestRecord ==
  {Idle} \cup [at : {"insert", "invite", "commit"}, member : Forms, password : Nat]
         \cup [at : {"deactivate"}, member : Nat]
         \cup [at : {"compare"}, member : Nat, password : Nat]
         \cup [at : {"book", "mail"}, visitor : Visitors, consultant : Nat]

StaffingTypeOK ==
  /\ staff \in Seq(StaffRecord)
  /\ letter \in [Emails -> Nat]
  /\ drawn \in Nat
  /\ bookings \in Seq([visitor : Visitors, consultant : Nat])
  /\ confirmed \subseteq Visitors
  /\ unconfirmed \in [Visitors -> Nat]
  /\ request \in [Requests -> RequestRecord]
  /\ late \in BOOLEAN /\ overlapped \in BOOLEAN

\* Every member of staff can log in with the password of the last invitation mailed to
\* them, whatever other invitations to the same email were refused, aborted or raced
\* with it: the email is reserved, in the session, before the mail leaves
\* (staff.service.ts:43, 61).
StaffCanLogIn == \A a \in StaffIds : staff[a].password = letter[staff[a].email]

\* As long as requests came one at a time, nobody who was deactivated logs in or is
\* booked as a consultant (auth.service.ts:60, consultant booking.service.ts:38).
DeactivatedIsLeftAlone == ~overlapped => ~late

\* The bookings of a visitor are the one they were told of, those whose mail failed, and
\* the one being mailed: whoever submits again only after an error is booked twice only
\* by a failing mail, and who was told is booked (booking.service.ts:54, 61).
BookingLedger ==
  \A v \in Visitors :
    Cardinality({i \in DOMAIN bookings : bookings[i].visitor = v})
      = unconfirmed[v] + Cardinality({v} \cap confirmed)
          + Cardinality({r \in Requests : request[r].at = "mail" /\ request[r].visitor = v})
=============================================================================
