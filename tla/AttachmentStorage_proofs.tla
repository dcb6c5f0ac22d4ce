---------------------- MODULE AttachmentStorage_proofs ----------------------
(***************************************************************************)
(* Any number of attachments and removals: a listed attachment has its     *)
(* object unless a commit went unanswered, and an object nobody lists has  *)
(* a cause.  The first needs an invariant that says where an upload and a  *)
(* removal are with respect to the record: an upload is listed by its own  *)
(* commit only, so a record that a removal dropped never comes back while  *)
(* the removal deletes the object.                                         *)
(***************************************************************************)
EXTENDS AttachmentStorage, TLAPS

\* Where the record of an attachment can be, by the progress of its upload.
UploadProgress ==
  \A a \in Attachments :
    /\ pc[a] \notin {"removing", "deleting"}
    /\ pc[a] \in {"new", "received", "stored"} => a \notin listed
    /\ pc[a] = "stored" => a \in objects
    /\ pc[a] = "compensating" => a \notin listed \/ Suffered(a, {"commit"})

\* A removal that deletes the object has dropped the record for good.
RemovalProgress ==
  \A m \in Removals :
    /\ pc[m] # "new" => target[m] \in Attachments
    /\ pc[m] = "deleting" =>
         target[m] \notin listed /\ pc[target[m]] \notin {"new", "received", "stored"}
    /\ pc[m] \notin {"received", "stored", "compensating"}

Inv == TypeOK /\ UploadProgress /\ RemovalProgress /\ ListedFilesStoredIfAnswered

(* Every step keeps the types.                                             *)
LEMMA TypesKept == Inv /\ [Next]_vars => TypeOK'
<1> SUFFICES ASSUME Inv, [Next]_vars PROVE TypeOK'
  OBVIOUS
<1> USE StorageAssumption DEF Inv, TypeOK, RemovalProgress, Calls, Go, Suffers, About, Mishaps
<1>1. ASSUME NEW a \in Attachments, Receive(a) PROVE TypeOK'
  BY <1>1 DEF Receive
<1>2. ASSUME NEW a \in Attachments, Put(a) PROVE TypeOK'
  BY <1>2 DEF Put
<1>3. ASSUME NEW a \in Attachments, PutFails(a) PROVE TypeOK'
  BY <1>3 DEF PutFails
<1>4. ASSUME NEW a \in Attachments, AddRecord(a) PROVE TypeOK'
  BY <1>4 DEF AddRecord
<1>5. ASSUME NEW a \in Attachments, Rejected(a) PROVE TypeOK'
  BY <1>5 DEF Rejected
<1>6. ASSUME NEW a \in Attachments, AddAnswerLost(a) PROVE TypeOK'
  BY <1>6 DEF AddAnswerLost
<1>7. ASSUME NEW a \in Attachments, Compensate(a) PROVE TypeOK'
  BY <1>7 DEF Compensate
<1>8. ASSUME NEW m \in Removals, DropRecord(m) PROVE TypeOK'
  BY <1>8 DEF DropRecord
<1>9. ASSUME NEW m \in Removals, DropAnswerLost(m) PROVE TypeOK'
  BY <1>9 DEF DropAnswerLost
<1>10. ASSUME NEW m \in Removals, RemovalRefused(m) PROVE TypeOK'
  BY <1>10 DEF RemovalRefused
<1>11. ASSUME NEW m \in Removals, DeleteObject(m) PROVE TypeOK'
  BY <1>11 DEF DeleteObject
<1>12. ASSUME NEW q \in Calls, Conflict(q) PROVE TypeOK'
  BY <1>12 DEF Conflict
<1>13. ASSUME NEW q \in Calls, DeleteFails(q) PROVE TypeOK'
  BY <1>13 DEF DeleteFails
<1>14. ASSUME NEW q \in Calls, Crash(q) PROVE TypeOK'
  BY <1>14 DEF Crash
<1>15. ASSUME NEW m \in Removals, NEW a \in Attachments, ReceiveRemoval(m, a) PROVE TypeOK'
  BY <1>15 DEF ReceiveRemoval
<1>16. CASE Submitted
  BY <1>16 DEF Submitted
<1>17. CASE UNCHANGED vars
  BY <1>17 DEF vars
<1> QED
  BY <1>1, <1>2, <1>3, <1>4, <1>5, <1>6, <1>7, <1>8, <1>9,
     <1>10, <1>11, <1>12, <1>13, <1>14, <1>15, <1>16, <1>17 DEF Next, Upload, Removal

(* Every step keeps what an upload and its record have to do with each     *)
(* other.                                                                  *)
LEMMA UploadProgressKept == Inv /\ [Next]_vars => UploadProgress'
<1> SUFFICES ASSUME Inv, [Next]_vars PROVE UploadProgress'
  OBVIOUS
<1> USE StorageAssumption
    DEF Inv, TypeOK, UploadProgress, RemovalProgress, Calls, Go, Suffers, Suffered, About
<1>1. ASSUME NEW a \in Attachments, Receive(a) PROVE UploadProgress'
  BY <1>1 DEF Receive
<1>2. ASSUME NEW a \in Attachments, Put(a) PROVE UploadProgress'
  BY <1>2 DEF Put
<1>3. ASSUME NEW a \in Attachments, PutFails(a) PROVE UploadProgress'
  BY <1>3 DEF PutFails
<1>4. ASSUME NEW a \in Attachments, AddRecord(a) PROVE UploadProgress'
  BY <1>4 DEF AddRecord
<1>5. ASSUME NEW a \in Attachments, Rejected(a) PROVE UploadProgress'
  BY <1>5 DEF Rejected
<1>6. ASSUME NEW a \in Attachments, AddAnswerLost(a) PROVE UploadProgress'
  BY <1>6 DEF AddAnswerLost
<1>7. ASSUME NEW a \in Attachments, Compensate(a) PROVE UploadProgress'
  BY <1>7 DEF Compensate
<1>8. ASSUME NEW m \in Removals, DropRecord(m) PROVE UploadProgress'
  BY <1>8 DEF DropRecord
<1>9. ASSUME NEW m \in Removals, DropAnswerLost(m) PROVE UploadProgress'
  BY <1>9 DEF DropAnswerLost
<1>10. ASSUME NEW m \in Removals, RemovalRefused(m) PROVE UploadProgress'
  BY <1>10 DEF RemovalRefused
<1>11. ASSUME NEW m \in Removals, DeleteObject(m) PROVE UploadProgress'
  BY <1>11 DEF DeleteObject
<1>12. ASSUME NEW q \in Calls, Conflict(q) PROVE UploadProgress'
  BY <1>12 DEF Conflict
<1>13. ASSUME NEW q \in Calls, DeleteFails(q) PROVE UploadProgress'
  BY <1>13 DEF DeleteFails
<1>14. ASSUME NEW q \in Calls, Crash(q) PROVE UploadProgress'
  BY <1>14 DEF Crash
<1>15. ASSUME NEW m \in Removals, NEW a \in Attachments, ReceiveRemoval(m, a) PROVE UploadProgress'
  BY <1>15 DEF ReceiveRemoval
<1>16. CASE Submitted
  BY <1>16 DEF Submitted
<1>17. CASE UNCHANGED vars
  BY <1>17 DEF vars
<1> QED
  BY <1>1, <1>2, <1>3, <1>4, <1>5, <1>6, <1>7, <1>8, <1>9,
     <1>10, <1>11, <1>12, <1>13, <1>14, <1>15, <1>16, <1>17 DEF Next, Upload, Removal

(* Every step keeps what a removal and the record have to do with each     *)
(* other.                                                                  *)
LEMMA RemovalProgressKept == Inv /\ [Next]_vars => RemovalProgress'
<1> SUFFICES ASSUME Inv, [Next]_vars PROVE RemovalProgress'
  OBVIOUS
<1> USE StorageAssumption
    DEF Inv, TypeOK, UploadProgress, RemovalProgress, Calls, Go, Suffers, Suffered, About
<1>1. ASSUME NEW a \in Attachments, Receive(a) PROVE RemovalProgress'
  BY <1>1 DEF Receive
<1>2. ASSUME NEW a \in Attachments, Put(a) PROVE RemovalProgress'
  BY <1>2 DEF Put
<1>3. ASSUME NEW a \in Attachments, PutFails(a) PROVE RemovalProgress'
  BY <1>3 DEF PutFails
<1>4. ASSUME NEW a \in Attachments, AddRecord(a) PROVE RemovalProgress'
  BY <1>4 DEF AddRecord
<1>5. ASSUME NEW a \in Attachments, Rejected(a) PROVE RemovalProgress'
  BY <1>5 DEF Rejected
<1>6. ASSUME NEW a \in Attachments, AddAnswerLost(a) PROVE RemovalProgress'
  BY <1>6 DEF AddAnswerLost
<1>7. ASSUME NEW a \in Attachments, Compensate(a) PROVE RemovalProgress'
  BY <1>7 DEF Compensate
<1>8. ASSUME NEW m \in Removals, DropRecord(m) PROVE RemovalProgress'
  BY <1>8 DEF DropRecord
<1>9. ASSUME NEW m \in Removals, DropAnswerLost(m) PROVE RemovalProgress'
  BY <1>9 DEF DropAnswerLost
<1>10. ASSUME NEW m \in Removals, RemovalRefused(m) PROVE RemovalProgress'
  BY <1>10 DEF RemovalRefused
<1>11. ASSUME NEW m \in Removals, DeleteObject(m) PROVE RemovalProgress'
  BY <1>11 DEF DeleteObject
<1>12. ASSUME NEW q \in Calls, Conflict(q) PROVE RemovalProgress'
  BY <1>12 DEF Conflict
<1>13. ASSUME NEW q \in Calls, DeleteFails(q) PROVE RemovalProgress'
  BY <1>13 DEF DeleteFails
<1>14. ASSUME NEW q \in Calls, Crash(q) PROVE RemovalProgress'
  BY <1>14 DEF Crash
<1>15. ASSUME NEW m \in Removals, NEW a \in Attachments, ReceiveRemoval(m, a) PROVE RemovalProgress'
  BY <1>15 DEF ReceiveRemoval
<1>16. CASE Submitted
  BY <1>16 DEF Submitted
<1>17. CASE UNCHANGED vars
  BY <1>17 DEF vars
<1> QED
  BY <1>1, <1>2, <1>3, <1>4, <1>5, <1>6, <1>7, <1>8, <1>9,
     <1>10, <1>11, <1>12, <1>13, <1>14, <1>15, <1>16, <1>17 DEF Next, Upload, Removal

(* No step takes the object of a listed attachment away, except the        *)
(* compensation of a commit that was not answered.                         *)
LEMMA ListedFilesKept == Inv /\ [Next]_vars => ListedFilesStoredIfAnswered'
<1> SUFFICES ASSUME Inv, [Next]_vars PROVE ListedFilesStoredIfAnswered'
  OBVIOUS
<1> USE StorageAssumption
    DEF Inv, TypeOK, UploadProgress, RemovalProgress, ListedFilesStoredIfAnswered,
        Calls, Go, Suffers, Suffered, About
<1>1. ASSUME NEW a \in Attachments, Receive(a) PROVE ListedFilesStoredIfAnswered'
  BY <1>1 DEF Receive
<1>2. ASSUME NEW a \in Attachments, Put(a) PROVE ListedFilesStoredIfAnswered'
  BY <1>2 DEF Put
<1>3. ASSUME NEW a \in Attachments, PutFails(a) PROVE ListedFilesStoredIfAnswered'
  BY <1>3 DEF PutFails
<1>4. ASSUME NEW a \in Attachments, AddRecord(a) PROVE ListedFilesStoredIfAnswered'
  BY <1>4 DEF AddRecord
<1>5. ASSUME NEW a \in Attachments, Rejected(a) PROVE ListedFilesStoredIfAnswered'
  BY <1>5 DEF Rejected
<1>6. ASSUME NEW a \in Attachments, AddAnswerLost(a) PROVE ListedFilesStoredIfAnswered'
  BY <1>6 DEF AddAnswerLost
<1>7. ASSUME NEW a \in Attachments, Compensate(a) PROVE ListedFilesStoredIfAnswered'
  BY <1>7 DEF Compensate
<1>8. ASSUME NEW m \in Removals, DropRecord(m) PROVE ListedFilesStoredIfAnswered'
  BY <1>8 DEF DropRecord
<1>9. ASSUME NEW m \in Removals, DropAnswerLost(m) PROVE ListedFilesStoredIfAnswered'
  BY <1>9 DEF DropAnswerLost
<1>10. ASSUME NEW m \in Removals, RemovalRefused(m) PROVE ListedFilesStoredIfAnswered'
  BY <1>10 DEF RemovalRefused
<1>11. ASSUME NEW m \in Removals, DeleteObject(m) PROVE ListedFilesStoredIfAnswered'
  BY <1>11 DEF DeleteObject
<1>12. ASSUME NEW q \in Calls, Conflict(q) PROVE ListedFilesStoredIfAnswered'
  BY <1>12 DEF Conflict
<1>13. ASSUME NEW q \in Calls, DeleteFails(q) PROVE ListedFilesStoredIfAnswered'
  BY <1>13 DEF DeleteFails
<1>14. ASSUME NEW q \in Calls, Crash(q) PROVE ListedFilesStoredIfAnswered'
  BY <1>14 DEF Crash
<1>15. ASSUME NEW m \in Removals, NEW a \in Attachments, ReceiveRemoval(m, a) PROVE ListedFilesStoredIfAnswered'
  BY <1>15 DEF ReceiveRemoval
<1>16. CASE Submitted
  BY <1>16 DEF Submitted
<1>17. CASE UNCHANGED vars
  BY <1>17 DEF vars
<1> QED
  BY <1>1, <1>2, <1>3, <1>4, <1>5, <1>6, <1>7, <1>8, <1>9,
     <1>10, <1>11, <1>12, <1>13, <1>14, <1>15, <1>16, <1>17 DEF Next, Upload, Removal

(* The invariant holds throughout.                                         *)
LEMMA InvHolds == Spec => []Inv
<1>1. Init => Inv
  BY StorageAssumption
     DEF Init, Inv, TypeOK, UploadProgress, RemovalProgress, ListedFilesStoredIfAnswered,
         Calls, Suffered, Mishaps
<1>2. Inv /\ [Next]_vars => Inv'
  BY TypesKept, UploadProgressKept, RemovalProgressKept, ListedFilesKept DEF Inv
<1> QED
  BY <1>1, <1>2, PTL DEF Spec

-----------------------------------------------------------------------------
(* Whatever fails, a listed attachment has its object, unless the answer   *)
(* of its commit was lost.                                                 *)
THEOREM ListedAttachmentsStored == Spec => []ListedFilesStoredIfAnswered
<1>1. Inv => ListedFilesStoredIfAnswered
  BY DEF Inv
<1> QED
  BY <1>1, InvHolds, PTL

(* Every variable keeps its type, the attempts of the retry loop included. *)
THEOREM StorageTypes == Spec => []TypeOK
<1>1. Inv => TypeOK
  BY DEF Inv
<1> QED
  BY <1>1, InvHolds, PTL

(* No step leaves an object without a record and without a cause.          *)
LEMMA OrphansKept == Inv /\ OrphansHaveACause /\ [Next]_vars => OrphansHaveACause'
<1> SUFFICES ASSUME Inv, OrphansHaveACause, [Next]_vars PROVE OrphansHaveACause'
  OBVIOUS
<1> USE StorageAssumption
    DEF Inv, TypeOK, UploadProgress, RemovalProgress, OrphansHaveACause,
        Calls, Go, Suffers, Suffered, About, AtWork, Mishaps
<1>1. ASSUME NEW a \in Attachments, Receive(a) PROVE OrphansHaveACause'
  BY <1>1 DEF Receive
<1>2. ASSUME NEW a \in Attachments, Put(a) PROVE OrphansHaveACause'
  BY <1>2 DEF Put
<1>3. ASSUME NEW a \in Attachments, PutFails(a) PROVE OrphansHaveACause'
  BY <1>3 DEF PutFails
<1>4. ASSUME NEW a \in Attachments, AddRecord(a) PROVE OrphansHaveACause'
  <2> SUFFICES ASSUME NEW b \in objects' \ listed', ~Suffered(b, Mishaps)'
               PROVE  \E c \in Calls : AtWork(c)' /\ About(c)' = b
    BY DEF AtWork
  <2>1. b # About(a) /\ b \in objects \ listed /\ ~Suffered(b, Mishaps)
    BY <1>4 DEF AddRecord
  <2>2. PICK c \in Calls : AtWork(c) /\ About(c) = b
    BY <2>1 DEF AtWork
  <2>3. c # a /\ pc'[c] = pc[c] /\ target' = target
    BY <1>4, <2>1, <2>2 DEF AddRecord
  <2> QED
    BY <2>2, <2>3 DEF AtWork
<1>5. ASSUME NEW a \in Attachments, Rejected(a) PROVE OrphansHaveACause'
  BY <1>5 DEF Rejected
<1>6. ASSUME NEW a \in Attachments, AddAnswerLost(a) PROVE OrphansHaveACause'
  BY <1>6 DEF AddAnswerLost
<1>7. ASSUME NEW a \in Attachments, Compensate(a) PROVE OrphansHaveACause'
  <2> SUFFICES ASSUME NEW b \in objects' \ listed', ~Suffered(b, Mishaps)'
               PROVE  \E c \in Calls : AtWork(c)' /\ About(c)' = b
    BY DEF AtWork
  <2>1. b # About(a) /\ b \in objects \ listed /\ ~Suffered(b, Mishaps)
    BY <1>7 DEF Compensate
  <2>2. PICK c \in Calls : AtWork(c) /\ About(c) = b
    BY <2>1 DEF AtWork
  <2>3. c # a /\ pc'[c] = pc[c] /\ target' = target
    BY <1>7, <2>1, <2>2 DEF Compensate
  <2> QED
    BY <2>2, <2>3 DEF AtWork
<1>8. ASSUME NEW m \in Removals, DropRecord(m) PROVE OrphansHaveACause'
  BY <1>8 DEF DropRecord
<1>9. ASSUME NEW m \in Removals, DropAnswerLost(m) PROVE OrphansHaveACause'
  BY <1>9 DEF DropAnswerLost
<1>10. ASSUME NEW m \in Removals, RemovalRefused(m) PROVE OrphansHaveACause'
  BY <1>10 DEF RemovalRefused
<1>11. ASSUME NEW m \in Removals, DeleteObject(m) PROVE OrphansHaveACause'
  BY <1>11 DEF DeleteObject
<1>12. ASSUME NEW q \in Calls, Conflict(q) PROVE OrphansHaveACause'
  BY <1>12 DEF Conflict
<1>13. ASSUME NEW q \in Calls, DeleteFails(q) PROVE OrphansHaveACause'
  <2> SUFFICES ASSUME NEW b \in objects' \ listed', ~Suffered(b, Mishaps)'
               PROVE  \E c \in Calls : AtWork(c)' /\ About(c)' = b
    BY DEF AtWork
  <2>1. b # About(q) /\ b \in objects \ listed /\ ~Suffered(b, Mishaps)
    BY <1>13 DEF DeleteFails
  <2>2. PICK c \in Calls : AtWork(c) /\ About(c) = b
    BY <2>1 DEF AtWork
  <2>3. c # q /\ pc'[c] = pc[c] /\ target' = target
    BY <1>13, <2>1, <2>2 DEF DeleteFails
  <2> QED
    BY <2>2, <2>3 DEF AtWork
<1>14. ASSUME NEW q \in Calls, Crash(q) PROVE OrphansHaveACause'
  <2> SUFFICES ASSUME NEW b \in objects' \ listed', ~Suffered(b, Mishaps)'
               PROVE  \E c \in Calls : AtWork(c)' /\ About(c)' = b
    BY DEF AtWork
  <2>1. b # About(q) /\ b \in objects \ listed /\ ~Suffered(b, Mishaps)
    BY <1>14 DEF Crash
  <2>2. PICK c \in Calls : AtWork(c) /\ About(c) = b
    BY <2>1 DEF AtWork
  <2>3. c # q /\ pc'[c] = pc[c] /\ target' = target
    BY <1>14, <2>1, <2>2 DEF Crash
  <2> QED
    BY <2>2, <2>3 DEF AtWork
<1>15. ASSUME NEW m \in Removals, NEW a \in Attachments, ReceiveRemoval(m, a) PROVE OrphansHaveACause'
  BY <1>15 DEF ReceiveRemoval
<1>16. CASE Submitted
  BY <1>16 DEF Submitted
<1>17. CASE UNCHANGED vars
  BY <1>17 DEF vars
<1> QED
  BY <1>1, <1>2, <1>3, <1>4, <1>5, <1>6, <1>7, <1>8, <1>9,
     <1>10, <1>11, <1>12, <1>13, <1>14, <1>15, <1>16, <1>17 DEF Next, Upload, Removal

(* Objects nobody lists come only from calls that failed, stayed           *)
(* unanswered or crashed.                                                  *)
THEOREM OrphansExplained == Spec => []OrphansHaveACause
<1>1. Init => OrphansHaveACause
  BY DEF Init, OrphansHaveACause
<1> QED
  BY <1>1, InvHolds, OrphansKept, PTL DEF Spec
=============================================================================
