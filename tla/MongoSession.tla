---------------------------- MODULE MongoSession ----------------------------
(***************************************************************************)
(* What the services rely on from a MongoDB session (external: a replica   *)
(* set driven through mongoose).  A service opens a session, passes it to  *)
(* some of its repository calls, and commits or aborts it at the end.      *)
(*                                                                         *)
(*  - The snapshot is taken by the session's FIRST call, not by            *)
(*    startTransaction, so a request that has passed the session to no     *)
(*    call yet has held[r] = {} and nothing it could conflict with.        *)
(*  - A session write of a document that another open session has written, *)
(*    or that was committed by someone else after the snapshot, fails at   *)
(*    once with a WriteConflict; the services then abort and rethrow.      *)
(*  - A call WITHOUT the session reads committed data, takes effect at     *)
(*    once and is not undone by an abort.  When it writes a document held  *)
(*    by an open session it waits until that session ends.                 *)
(*                                                                         *)
(* The values written are kept by the modules that use this one, in the    *)
(* state of the request; they become visible when it commits.              *)
(***************************************************************************)
EXTENDS Handlers

VARIABLES held,         \* documents each open session has written
          stale         \* documents others committed since its snapshot

sessionVars == <<held, stale>>

SessionTypeOK(Documents) ==
  /\ held \in [Requests -> SUBSET Documents]
  /\ stale \in [Requests -> SUBSET Documents]

\* No document is held by two sessions.
SessionsIsolated == \A r, q \in Requests : r # q => held[r] \cap held[q] = {}

SessionInit ==
  /\ held = [r \in Requests |-> {}]
  /\ stale = [r \in Requests |-> {}]

WriteConflict(r, doc) ==
  \/ doc \in stale[r]
  \/ \E q \in Requests \ {r} : doc \in held[q]

SessionWrite(r, doc) ==
  /\ ~WriteConflict(r, doc)
  /\ held' = [held EXCEPT ![r] = @ \cup {doc}]
  /\ UNCHANGED stale

\* The snapshots that are open, that of r apart, now miss the documents docs.
Outdated(r, docs) ==
  [q \in Requests |-> IF q # r /\ held[q] # {} THEN stale[q] \cup docs ELSE stale[q]]

CommitTransaction(r) ==
  /\ held' = [held EXCEPT ![r] = {}]
  /\ stale' = [Outdated(r, held[r]) EXCEPT ![r] = {}]

AbortTransaction(r) ==
  /\ held' = [held EXCEPT ![r] = {}]
  /\ stale' = [stale EXCEPT ![r] = {}]

\* A write outside any session.
DirectWrite(doc) ==
  /\ \A r \in Requests : doc \notin held[r]
  /\ stale' = [q \in Requests |-> IF held[q] # {} THEN stale[q] \cup {doc} ELSE stale[q]]
  /\ UNCHANGED held
=============================================================================
