-------------------------- MODULE AttachmentStorage --------------------------
(***************************************************************************)
(* The attachments of a proposal live in two places that share no          *)
(* transaction: the object in S3 and its record in a JSON column of        *)
(* quotes.  An upload stores the object first and deletes it again when    *)
(* the record could not be written; a removal deletes the record first     *)
(* and the object afterwards.  S3 calls fail or lose their answer, a       *)
(* transaction conflicts, is refused or loses the answer of its COMMIT,    *)
(* and the process may crash between any two calls.                        *)
(*                                                                         *)
(* One attempt of a serializable transaction is one step here: either a    *)
(* conflict or as if it ran alone (QuoteTransactions).  Every attachment   *)
(* has one upload, under a fresh randomUUID.                               *)
(***************************************************************************)
EXTENDS Naturals

CONSTANTS
  Attachments,        \* ids
  Removals,           \* DELETE requests
  MaxAttempts,        \* MAX_TRANSACTION_ATTEMPTS
  None                \* no attachment

ASSUME StorageAssumption ==
  /\ MaxAttempts \in Nat \ {0}
  /\ Attachments \cap Removals = {}
  /\ None \notin Attachments

VARIABLES
  objects,   \* keys present in the bucket
  listed,    \* ids in the attachment columns
  draft,     \* whether the proposal is still a draft
  pc,        \* pc[q]: where the upload of an id, or a removal, is
  target,    \* target[m]: the attachment the removal m deletes
  attempt,   \* attempt[q]: the transaction attempt of q
  mishaps    \* history: what went wrong with which attachment

vars == <<objects, listed, draft, pc, target, attempt, mishaps>>

Calls == Attachments \cup Removals

\* The attachment a request is about.
About(q) == IF q \in Attachments THEN q ELSE target[q]

Go(q, to) == pc' = [pc EXCEPT ![q] = to]

\* "storage": an S3 call failed; "commit": a COMMIT was not answered; "crash".
Mishaps == {"storage", "commit", "crash"}

Suffers(q, mishap) == mishaps' = mishaps \cup {<<About(q), mishap>>}

\* q has stored an object, or has one to delete.
AtWork(q) == pc[q] \in {"stored", "compensating", "deleting"}

Suffered(a, kinds) == \E k \in kinds : <<a, k>> \in mishaps
-----------------------------------------------------------------------------
(* upload                                                                  *)

\* findEditableQuote, validateFile, getBucket, randomUUID
Receive(a) ==
  /\ pc[a] = "new"
  /\ draft
  /\ Go(a, "received")
  /\ UNCHANGED <<objects, listed, draft, target, attempt, mishaps>>

Put(a) ==
  /\ pc[a] = "received"
  /\ objects' = objects \cup {a}
  /\ Go(a, "stored")
  /\ UNCHANGED <<listed, draft, target, attempt, mishaps>>

\* The PUT is outside the try block: an error answer, or none, ends the request.
PutFails(a) ==
  /\ pc[a] = "received"
  /\ objects' \in {objects, objects \cup {a}}
  /\ Go(a, "failed")
  /\ Suffers(a, "storage")
  /\ UNCHANGED <<listed, draft, target, attempt>>

\* The record, the reset of the step and attachment_added commit together.
AddRecord(a) ==
  /\ pc[a] = "stored"
  /\ draft
  /\ listed' = listed \cup {a}
  /\ Go(a, "done")
  /\ UNCHANGED <<objects, draft, target, attempt, mishaps>>

\* Mutant: the compensation is left out.
RejectedWithoutCompensation(a) ==
  /\ pc[a] = "stored"
  /\ Go(a, "failed")
  /\ UNCHANGED <<objects, listed, draft, target, attempt, mishaps>>

\* 409 because the proposal left draft, P2034 on the last attempt, or another error
\* before the commit.
Rejected(a) ==
  /\ pc[a] = "stored"
  /\ Go(a, "compensating")
  /\ UNCHANGED <<objects, listed, draft, target, attempt, mishaps>>

\* The record was committed, the client library reports an error.
AddAnswerLost(a) ==
  /\ pc[a] = "stored"
  /\ draft
  /\ listed' = listed \cup {a}
  /\ Go(a, "compensating")
  /\ Suffers(a, "commit")
  /\ UNCHANGED <<objects, draft, target, attempt>>

\* deleteCompensatingObject
Compensate(a) ==
  /\ pc[a] = "compensating"
  /\ objects' = objects \ {a}
  /\ Go(a, "failed")
  /\ UNCHANGED <<listed, draft, target, attempt, mishaps>>

-----------------------------------------------------------------------------
(* remove                                                                  *)

ReceiveRemoval(m, a) ==
  /\ pc[m] = "new"
  /\ draft
  /\ target' = [target EXCEPT ![m] = a]
  /\ Go(m, "removing")
  /\ UNCHANGED <<objects, listed, draft, attempt, mishaps>>

\* Mutant: the object is deleted before the record.
DropRecordLater(m) ==
  /\ pc[m] = "removing"
  /\ draft
  /\ target[m] \in listed
  /\ objects' = objects \ {target[m]}
  /\ Go(m, "deleting")
  /\ UNCHANGED <<listed, draft, target, attempt, mishaps>>

DropRecord(m) ==
  /\ pc[m] = "removing"
  /\ draft
  /\ target[m] \in listed
  /\ listed' = listed \ {target[m]}
  /\ Go(m, "deleting")
  /\ UNCHANGED <<objects, draft, target, attempt, mishaps>>

DropAnswerLost(m) ==
  /\ pc[m] = "removing"
  /\ draft
  /\ target[m] \in listed
  /\ listed' = listed \ {target[m]}
  /\ Go(m, "failed")
  /\ Suffers(m, "commit")
  /\ UNCHANGED <<objects, draft, target, attempt>>

\* 404 when the record is gone, 409 out of draft, P2034 on the last attempt, or
\* another error before the commit.
RemovalRefused(m) ==
  /\ pc[m] = "removing"
  /\ Go(m, "failed")
  /\ UNCHANGED <<objects, listed, draft, target, attempt, mishaps>>

DeleteObject(m) ==
  /\ pc[m] = "deleting"
  /\ objects' = objects \ {target[m]}
  /\ Go(m, "done")
  /\ UNCHANGED <<listed, draft, target, attempt, mishaps>>

-----------------------------------------------------------------------------
(* Both                                                                    *)

\* Mutant: the loop starts over instead of giving up.
ConflictForEver(q) ==
  /\ pc[q] \in {"stored", "removing"}
  /\ attempt' = [attempt EXCEPT ![q] = IF @ = MaxAttempts THEN 1 ELSE @ + 1]
  /\ UNCHANGED <<objects, listed, draft, pc, target, mishaps>>

\* Mutant: one attempt too many.
ConflictOnceMore(q) ==
  /\ pc[q] \in {"stored", "removing"}
  /\ attempt[q] <= MaxAttempts
  /\ attempt' = [attempt EXCEPT ![q] = @ + 1]
  /\ UNCHANGED <<objects, listed, draft, pc, target, mishaps>>

\* P2034: another attempt.
Conflict(q) ==
  /\ pc[q] \in {"stored", "removing"}
  /\ attempt[q] < MaxAttempts
  /\ attempt' = [attempt EXCEPT ![q] = @ + 1]
  /\ UNCHANGED <<objects, listed, draft, pc, target, mishaps>>

\* The DELETE fails, or its answer is lost: the error is logged.
DeleteFails(q) ==
  /\ pc[q] \in {"compensating", "deleting"}
  /\ objects' \in {objects, objects \ {About(q)}}
  /\ Go(q, IF pc[q] = "deleting" THEN "done" ELSE "failed")
  /\ Suffers(q, "storage")
  /\ UNCHANGED <<listed, draft, target, attempt>>

\* The process dies between two calls; nothing resumes the request.
Crash(q) ==
  /\ pc[q] \notin {"new", "done", "failed"}
  /\ Go(q, "failed")
  /\ Suffers(q, "crash")
  /\ UNCHANGED <<objects, listed, draft, target, attempt>>

\* The proposal is submitted by another request.
Submitted ==
  /\ draft
  /\ draft' = FALSE
  /\ UNCHANGED <<objects, listed, pc, target, attempt, mishaps>>

Init ==
  /\ objects = {}
  /\ listed = {}
  /\ draft = TRUE
  /\ pc = [q \in Calls |-> "new"]
  /\ target = [m \in Removals |-> None]
  /\ attempt = [q \in Calls |-> 1]
  /\ mishaps = {}

Upload(a) ==
  \/ Put(a) \/ PutFails(a)
  \/ AddRecord(a) \/ Rejected(a) \/ AddAnswerLost(a) \/ Compensate(a)

Removal(m) == DropRecord(m) \/ DropAnswerLost(m) \/ RemovalRefused(m) \/ DeleteObject(m)

Next ==
  \/ \E a \in Attachments : Receive(a) \/ Upload(a)
  \/ \E m \in Removals : Removal(m) \/ \E a \in Attachments : ReceiveRemoval(m, a)
  \/ \E q \in Calls : Conflict(q) \/ DeleteFails(q) \/ Crash(q)
  \/ Submitted

Spec == Init /\ [][Next]_vars

(* A request that was accepted goes on: every call it awaits is answered   *)
(* or fails.                                                               *)
FairSpec ==
  /\ Spec
  /\ \A a \in Attachments : WF_vars(Upload(a) \/ Conflict(a) \/ DeleteFails(a))
  /\ \A m \in Removals : WF_vars(Removal(m) \/ Conflict(m) \/ DeleteFails(m))
-----------------------------------------------------------------------------
TypeOK ==
  /\ objects \subseteq Attachments
  /\ listed \subseteq Attachments
  /\ draft \in BOOLEAN
  /\ pc \in [Calls -> {"new", "received", "stored", "compensating", "removing",
                       "deleting", "done", "failed"}]
  /\ target \in [Removals -> Attachments \cup {None}]
  /\ attempt \in [Calls -> 1 .. MaxAttempts]
  /\ mishaps \subseteq Attachments \X Mishaps

(***************************************************************************)
(* Every attachment the list shows can be downloaded: the listing signs    *)
(* a read URL for each record (docs/architecture/quotes-and-events.md,     *)
(* lines 356-357), so its object must be in the bucket.                    *)
(***************************************************************************)
ListedFilesStored == listed \subseteq objects

(***************************************************************************)
(* The database is the source of truth: whatever fails, crashes or races,  *)
(* a listed attachment has its object, unless the answer to the commit of  *)
(* its record was lost and the upload compensated for a write that had     *)
(* happened (services/quote-draft-documentation.service.ts, lines 146-149).*)
(***************************************************************************)
ListedFilesStoredIfAnswered ==
  \A a \in listed : a \in objects \/ Suffered(a, {"commit"})

(***************************************************************************)
(* Objects nobody lists come only from calls that failed, stayed           *)
(* unanswered or crashed; a refused or conflicting upload leaves none.     *)
(***************************************************************************)
OrphansHaveACause ==
  \A a \in objects \ listed :
    \/ Suffered(a, Mishaps)
    \/ \E q \in Calls : AtWork(q) /\ About(q) = a

(***************************************************************************)
(* Every accepted request ends, whatever conflicts: the attempts of a      *)
(* transaction are bounded.                                                *)
(***************************************************************************)
UploadsAndRemovalsEnd == \A q \in Calls : pc[q] # "new" ~> pc[q] \in {"done", "failed"}
=============================================================================
